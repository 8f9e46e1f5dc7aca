-------------------------- MODULE PortfolioServer --------------------------
(***************************************************************************)
(* serverP.cpp: the portfolio of every user of portfolios.txt, a vector of *)
(* positions.  Server M asks for it, checks sells against it, retrieves    *)
(* one position with its index in the vector, and later writes the         *)
(* position back at that index.                                            *)
(***************************************************************************)
EXTENDS Wire, SequencesExt

CONSTANT Portfolios   \* lower-case user name -> positions (portfolios.txt)

ASSUME PortfoliosAssumption ==
  /\ DOMAIN Portfolios \subseteq Users
  /\ \A u \in DOMAIN Portfolios : Portfolios[u] \in Seq(Holding)

VARIABLES portfolio,  \* the map in memory
          pup         \* FALSE once the process is gone

pVars == <<portfolio, pup>>

ToP == [t : {"position"}, user : Names]
  \cup [t : {"check"}, user : Names, stock : Stocks, shares : CInt]
  \cup [t : {"retrieve"}, user : Names, stock : Stocks]
  \cup [t : {"update"}, user : Users, stock : Stocks, shares : CInt,
        price : Money, index : Int]
  \cup [t : {"answer"}, op : {"buy", "sell"}, text : Answers]

ReplyFromP ==
       [t : {"position"}, user : Users, held : Seq(Holding) \cup {NA}]
  \cup [t : {"check"}, verdict : {"PASS", "FAIL", "NOMATCH"}]
  \cup [t : {"held"}, user : Users, stock : Stocks,
        shares : CInt, price : Money, index : Nat]
  \cup [t : {"held"}, user : Users, stock : Stocks \cup {NA},
        shares : {NA}, price : {NA}, index : {-1}]
  \cup [t : {"result"}, op : {"buy", "sell"}, user : Users, stock : Stocks,
        shares : CInt]
  \cup [t : {"nothing"}]      \* the empty datagram
  \cup [t : {"junk"}]         \* whatever an uninitialized string holds

PInit == portfolio = Portfolios /\ pup = TRUE

PReceives(type) ==
  /\ pup
  /\ toP # <<>>
  /\ Head(toP).t = type
  /\ toP' = Tail(toP)

PReplies(m) == toM' = Append(toM, m) /\ UNCHANGED <<toA, toQ, tcpVars>>

(* Mutant of FirstOf: the loop gives up after its first element. *)
FirstOfFirst(user, stock) ==
  IF portfolio[user] # <<>> /\ portfolio[user][1].stockName = stock
    THEN 1 ELSE 0

(* Where the vector holds the stock: 0 for nowhere.  getStock stops at the  *)
(* first match, checkStock keeps the last one.                              *)
FirstOf(user, stock) ==
  SelectInSeq(portfolio[user], LAMBDA h : h.stockName = stock)
LastOf(user, stock) ==
  SelectLastInSeq(portfolio[user], LAMBDA h : h.stockName = stock)

Rounded(h) == [h EXCEPT !.avgPrice = RoundCent(@)]

getPortfolio(user) ==
  IF user \in DOMAIN portfolio
    THEN [i \in DOMAIN portfolio[user] |-> Rounded(portfolio[user][i])]
    ELSE NA

(* Mutant of checkStock: one share more than there is passes. *)
checkStockLax(user, stock, shares) ==
  IF user \notin DOMAIN portfolio \/ LastOf(user, stock) = 0 THEN "NOMATCH"
  ELSE IF shares > portfolio[user][LastOf(user, stock)].quantity + 1
         THEN "FAIL" ELSE "PASS"

checkStock(user, stock, shares) ==
  IF user \notin DOMAIN portfolio THEN "NOMATCH"
  ELSE LET i == LastOf(user, stock) IN
       CASE i = 0 -> "NOMATCH"
         [] i # 0 /\ shares > portfolio[user][i].quantity -> "FAIL"
         [] OTHER -> "PASS"

getStock(user, stock) ==
  LET absent(name) == [t |-> "held", user |-> user, stock |-> name,
                       shares |-> NA, price |-> NA, index |-> -1]
  IN  IF user \notin DOMAIN portfolio THEN absent(NA)
      ELSE LET i == FirstOf(user, stock) IN
           IF i = 0 THEN absent(stock)
           ELSE [t |-> "held", user |-> user, stock |-> stock,
                 shares |-> portfolio[user][i].quantity,
                 price |-> RoundCent(portfolio[user][i].avgPrice),
                 index |-> i - 1]

(* portfolio[user] = holdings, which creates the entry if there is none. *)
Store(user, holdings) ==
  portfolio' = [u \in DOMAIN portfolio \cup {user} |->
                  IF u = user THEN holdings ELSE portfolio[u]]

PPosition ==
  /\ PReceives("position")
  /\ LET u == Lower[Head(toP).user] IN
       PReplies([t |-> "position", user |-> u, held |-> getPortfolio(u)])
  /\ UNCHANGED pVars

PCheck ==
  /\ PReceives("check")
  /\ LET m == Head(toP) IN
       PReplies([t |-> "check",
                 verdict |-> checkStock(Lower[m.user], m.stock, m.shares)])
  /\ UNCHANGED pVars

PRetrieve ==
  /\ PReceives("retrieve")
  /\ PReplies(getStock(Lower[Head(toP).user], Head(toP).stock))
  /\ UNCHANGED pVars

(* Mutant of Result: reports the new quantity, not the difference. *)
ResultNewQuantity(op, m, shares) ==
  [t |-> "result", op |-> op, user |-> m.user, stock |-> m.stock,
   shares |-> m.shares]

Result(op, m, shares) == [t |-> "result", op |-> op, user |-> m.user,
                          stock |-> m.stock, shares |-> shares]

(* updateStock with index -1: a new position at the end of the vector. *)
PUpdateNew ==
  /\ PReceives("update")
  /\ LET m   == Head(toP)
         old == IF m.user \in DOMAIN portfolio THEN portfolio[m.user] ELSE <<>>
     IN  /\ m.index = -1
         /\ Store(m.user, Append(old, [stockName |-> m.stock,
                                       quantity |-> m.shares,
                                       avgPrice |-> m.price]))
         /\ PReplies(Result("buy", m, m.shares))
  /\ UNCHANGED pup

(* updateStock that replaces a position, called a sell when the quantity    *)
(* falls and a buy otherwise.                                               *)
PUpdateReplace ==
  /\ PReceives("update")
  /\ LET m   == Head(toP)
         i   == m.index + 1
         old == portfolio[m.user][i].quantity
     IN  /\ i # 0 /\ m.shares # 0
         /\ Store(m.user, [portfolio[m.user] EXCEPT ![i].quantity = m.shares,
                                                    ![i].avgPrice = m.price])
         /\ PReplies(IF old > m.shares
                       THEN Result("sell", m, Wrap(old - m.shares))
                       ELSE Result("buy", m, Wrap(m.shares - old)))
  /\ UNCHANGED pup

(* updateStock with quantity 0 removes the position and reports a sell; if  *)
(* the position was empty already it does nothing and returns "".           *)
PUpdateRemove ==
  /\ PReceives("update")
  /\ LET m   == Head(toP)
         i   == m.index + 1
         old == portfolio[m.user][i].quantity
     IN  /\ i # 0 /\ m.shares = 0
         /\ IF old # 0
              THEN /\ Store(m.user, RemoveAt(portfolio[m.user], i))
                   /\ PReplies(Result("sell", m, old))
              ELSE /\ PReplies([t |-> "nothing"])
                   /\ UNCHANGED portfolio
  /\ UNCHANGED pup

(* Mutant of Silent: does not know the approval of a buy. *)
SilentForSells(m) == m.op = "sell" /\ m.text \in {"Y", "N"}

(* The three confirmations that process_data recognises get no reply. *)
Silent(m) == <<m.text, m.op>> \in {<<"N", "sell">>, <<"Y", "sell">>,
                                   <<"Y", "buy">>}

PAnswer ==
  /\ PReceives("answer")
  /\ Silent(Head(toP))
  /\ UNCHANGED <<portfolio, pup, toA, toQ, toM, tcpVars>>

(* Any other confirmation runs off the end of process_data without a        *)
(* return, so the string main sends is uninitialized: it may compare equal  *)
(* to NOCHANGE, be some other text, or end the process.                     *)
PFallsOff ==
  /\ PReceives("answer")
  /\ ~Silent(Head(toP))
  /\ \/ UNCHANGED <<pup, toM>>
     \/ toM' = Append(toM, [t |-> "junk"]) /\ UNCHANGED pup
     \/ pup' = FALSE /\ UNCHANGED toM
  /\ UNCHANGED <<portfolio, toA, toQ, tcpVars>>
=============================================================================
