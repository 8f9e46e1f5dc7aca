----------------------------- MODULE Exchange -----------------------------
(***************************************************************************)
(* The whole system: Server M, the three back-end servers and the clients, *)
(* every program a process of its own.                                     *)
(***************************************************************************)
EXTENDS AuthServer, QuoteServer, PortfolioServer, MainServer, Client

CONSTANTS MaxHeld,  \* bound: nobody asks for a trade that takes a position
                    \* beyond this many shares, long or short
          MaxPrice  \* bound: nobody trades on in a stock whose average price
                    \* has gone beyond this, up or down

ASSUME BoundAssumption == MaxHeld \in Nat /\ MaxPrice \in Nat

vars == <<wireVars, priceIndex, pVars, mVars, cVars>>

Init == WireInit /\ QInit /\ PInit /\ MInit /\ CInit

AuthStep == AReply /\ UNCHANGED <<priceIndex, pVars, mVars, cVars>>

QuoteStep ==
  (QQuote \/ QQuoteAll \/ QUpdate) /\ UNCHANGED <<pVars, mVars, cVars>>

PortfolioStep ==
  /\ \/ PPosition \/ PCheck \/ PRetrieve
     \/ PUpdateNew \/ PUpdateReplace \/ PUpdateRemove
     \/ PAnswer \/ PFallsOff
  /\ UNCHANGED <<priceIndex, mVars, cVars>>

(* The poll loop turns to client c. *)
ServeStep(c) ==
  /\ \/ MLogin(c) \/ MPosition(c) \/ MTransact(c) \/ MClose(c)
     \/ \E type \in {"quote", "quoteall"} : MQuote(c, type)
  /\ UNCHANGED <<priceIndex, pVars, cVars>>

(* M continues the request it is serving. *)
MainStep ==
  /\ \/ MAuth \/ MPortfolio \/ MGain \/ MQuoteReply
     \/ MBuyOffer \/ MBuyDenied \/ MBuyApproved
     \/ MBuyUpdate \/ MBuyNobody \/ MBuyThrows
     \/ MSellQuoted \/ MSellChecked \/ MSellUnknown \/ MSellRefused
     \/ MSellPass \/ MSellOffer \/ MSellDenied \/ MSellApproved
     \/ MResult \/ MSigPipe \/ MMisread
  /\ UNCHANGED <<priceIndex, pVars, cVars>>

(* The shares of stock s among a user's positions. *)
SharesIn(positions, s) ==
  LET i == SelectInSeq(positions, LAMBDA h : h.stockName = s)
  IN  IF i = 0 THEN 0 ELSE positions[i].quantity

HeldBy(u, s) ==
  IF u \in DOMAIN portfolio THEN SharesIn(portfolio[u], s) ELSE 0

WithinBound(c, op, s, n) ==
  LET u == Lower[member[c]]
  IN  /\ HeldBy(u, s) + (IF op = "buy" THEN n ELSE -n) \in -MaxHeld .. MaxHeld
      /\ u \in DOMAIN portfolio => \A h \in Range(portfolio[u]) :
           h.avgPrice \in (-MaxPrice .. MaxPrice) \cup {NaN}

(* The client's own steps, which nobody at the keyboard can delay. *)
ReceiveStep(c) ==
  /\ CAuth(c) \/ CShow(c) \/ CValid(c) \/ COffer(c) \/ CNoSuchStock(c)
       \/ CResult(c)
  /\ UNCHANGED <<priceIndex, pVars, mVars>>

AnswerStep(c) ==
  /\ \E text \in Typed : CAnswer(c, text)
  /\ UNCHANGED <<priceIndex, pVars, mVars>>

CommandStep(c) ==
  /\ \/ CLogin(c)
     \/ \E m \in    [t : {"quoteall"}] \cup [t : {"quote"}, stock : Stocks]
                \cup [t : {"position"}, user : Names] : CAsk(c, m)
     \/ \E op \in {"buy", "sell"}, s \in Stocks, n \in Shares :
          CTrade(c, op, s, n) /\ WithinBound(c, op, s, n)
     \/ CLeave(c)
  /\ UNCHANGED <<priceIndex, pVars, mVars>>

ClientStep(c) == ReceiveStep(c) \/ AnswerStep(c) \/ CommandStep(c)

Next ==
  \/ AuthStep \/ QuoteStep \/ PortfolioStep \/ MainStep
  \/ \E c \in Clients : ServeStep(c) \/ ClientStep(c)

Spec == Init /\ [][Next]_vars

----------------------------------------------------------------------------
Programs == {"auth", "portfolio", "prices", "quote", "offer", "buy_answer",
             "buy_held", "sell_check", "sell_held", "sell_sleep",
             "sell_answer", "update"}

ToClient ==
       ReplyFromA \cup ReplyFromQ
  \cup [t : {"gain"}, held : Seq(Holding) \cup {NA}, profit : Money]
  \cup [t : {"verdict"}, text : {"PASS", "FAIL", "stock_FAIL"}]
  \cup [t : {"result"}, op : {"buy", "sell"}, user : Users, stock : Stocks,
        shares : CInt]

(* The variables of the servers, and what is sent to them.                  *)
ServerTypeOK ==
  /\ toA \in Seq(CredentialsToA)
  /\ toQ \in Seq(QuoteToQ \cup UpdateToQ)
  /\ toP \in Seq(ToP)
  /\ toM \in Seq(ReplyFromA \cup ReplyFromQ \cup ReplyFromP)
  /\ c2m \in [Clients -> Seq(ClientMsg)]
  /\ priceIndex \in [Listed -> Nat]
  /\ \A s \in Listed : priceIndex[s] < Len(Prices[s])
  /\ DOMAIN portfolio \subseteq Users
  /\ \A u \in DOMAIN portfolio : portfolio[u] \in Seq(Holding)
  /\ pup \in BOOLEAN
  /\ mpc \in Programs \cup {"poll", "dead", "desync"}
  /\ cur \in Clients \cup {NA}
  /\ req \in ClientMsg \cup {NA}
  /\ offer \in Int \cup {NA}
  /\ verdict \in {"PASS", "FAIL", "NOMATCH", NA}
  /\ pos \in ReplyFromP \cup {NA}
  /\ confirmation \in Answers \cup {NA}
  /\ cpc \in [Clients -> AtKeyboard \cup AtSocket \cup {"gone"}]
  /\ member \in [Clients -> Names \cup {NA}]
  /\ \A c \in Clients : cpc[c] \notin {"login", "gone"} => member[c] \in Names

(* Every variable keeps to the values its program can put there: the        *)
(* messages of README e) on every channel, ints that have wrapped, price    *)
(* indices inside the price list (priceIndex, serverQ.cpp updatePrice).     *)
TypeOK ==
  /\ ServerTypeOK
  /\ conn \in [Clients -> ConnStates]
  /\ m2c \in [Clients -> Seq(ToClient)]
  /\ order \in [Clients -> [op : {"buy", "sell"}, stock : Stocks,
                            shares : CInt] \cup {NA}]
  /\ seen \in [Clients -> Int \cup {NA}]
=============================================================================
