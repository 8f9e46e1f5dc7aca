-------------------------- MODULE RefinementProofs --------------------------
(***************************************************************************)
(* The exchange implements Brokerage, and the release the exchange.        *)
(*                                                                         *)
(* First what a vector of positions holds of a stock (SharesIn) and what   *)
(* the three ways to write a position make of it.  Then Calm, everything   *)
(* that is known where people type positive numbers and Y or N and stay:   *)
(* to the invariants of the other modules it adds which order M is serving *)
(* (Requested, DealIs).  Under Calm each action is a step of Brokerage or  *)
(* leaves Holdings, Clock and Deal alone: M's reading of an order is       *)
(* Place, of a Y is Agree, Server P's update is Fill, and Close is what    *)
(* makes M turn to the poll again.  Server Q's update changes nothing: the *)
(* Clock has counted the datagram since it was sent.                       *)
(*                                                                         *)
(* Then the packaged release implements the exchange.  Apart from the      *)
(* queue of Server P the two have the same variables, so an operator that  *)
(* does not look at that queue is the same in both, and so is an action    *)
(* that leaves it alone; what remains is what WithoutBuyDenied does to a   *)
(* queue that grows at its end or loses its head.                          *)
(***************************************************************************)
EXTENDS TradeProofs, Release

(* The shares of a stock in a vector of positions.                          *)
LEMMA SharesInIs ==
  ASSUME NEW p \in Seq(Holding), NEW s
  PROVE  \/ SharesIn(p, s) = 0 /\ \A i \in DOMAIN p : p[i].stockName # s
         \/ \E i \in DOMAIN p : p[i].stockName = s /\ SharesIn(p, s) = p[i].quantity
  <1> DEFINE I == {i \in 1 .. Len(p) : p[i].stockName = s}
  <1>1. SelectInSeq(p, LAMBDA h : h.stockName = s) = IF I # {} THEN Min(I) ELSE 0
    BY DEF SelectInSeq
  <1>2. DOMAIN p = 1 .. Len(p)
    BY LenProperties
  <1>3. CASE I = {}
    BY <1>1, <1>2, <1>3 DEF SharesIn
  <1>4. CASE I # {}
    <2>1. I \in SUBSET Nat
      OBVIOUS
    <2>2. \A i \in I : i \in DOMAIN p /\ i # 0 /\ p[i].stockName = s
      BY <1>2
    <2>3. PICK k \in I : SelectInSeq(p, LAMBDA h : h.stockName = s) = k
      <3> HIDE DEF I
      <3>1. QED
        BY <1>1, <1>4, <2>1, LeastExists DEF Min
    <2> HIDE DEF I
    <2>4. SharesIn(p, s) = p[k].quantity
      BY <2>2, <2>3 DEF SharesIn
    <2>5. QED
      BY <2>2, <2>4
  <1>5. QED
    BY <1>3, <1>4

LEMMA SharesOf ==
  ASSUME NEW p \in Seq(Holding), Unique(p), NEW i \in DOMAIN p, NEW s,
         p[i].stockName = s
  PROVE  SharesIn(p, s) = p[i].quantity
  BY SharesInIs DEF Unique

LEMMA SharesOfNone ==
  ASSUME NEW p \in Seq(Holding), NEW s, \A i \in DOMAIN p : p[i].stockName # s
  PROVE  SharesIn(p, s) = 0
  BY SharesInIs

(* Two vectors that agree on a stock. *)
LEMMA SharesSame ==
  ASSUME NEW p \in Seq(Holding), Unique(p), NEW q \in Seq(Holding), Unique(q), NEW s,
         \A i \in DOMAIN p : p[i].stockName = s => \E j \in DOMAIN q : q[j] = p[i],
         \A j \in DOMAIN q : q[j].stockName = s => \E i \in DOMAIN p : p[i] = q[j]
  PROVE  SharesIn(q, s) = SharesIn(p, s)
  <1>1. CASE \E i \in DOMAIN p : p[i].stockName = s
    <2>1. PICK i \in DOMAIN p : p[i].stockName = s
      BY <1>1
    <2>2. PICK j \in DOMAIN q : q[j] = p[i]
      BY <2>1
    <2>3. QED
      BY <2>1, <2>2, SharesOf
  <1>2. CASE \A i \in DOMAIN p : p[i].stockName # s
    <2>1. \A j \in DOMAIN q : q[j].stockName # s
      BY <1>2
    <2>2. QED
      BY <1>2, <2>1, SharesOfNone
  <1>3. QED
    BY <1>1, <1>2

(* What the three ways to write a position do to the shares.                *)
LEMMA SharesAppended ==
  ASSUME NEW p \in Seq(Holding), Unique(p), NEW h \in Holding,
         \A i \in DOMAIN p : p[i].stockName # h.stockName, NEW s
  PROVE  SharesIn(Append(p, h), s)
           = IF s = h.stockName THEN h.quantity ELSE SharesIn(p, s)
  <1>1. PICK q : q = Append(p, h)
    OBVIOUS
  <1>2. /\ q \in Seq(Holding) /\ Unique(q) /\ DOMAIN q = DOMAIN p \cup {Len(p) + 1}
        /\ \A i \in DOMAIN p : q[i] = p[i]
        /\ q[Len(p) + 1] = h
    BY <1>1, AppendFacts, UniqueAppend
  <1>3. CASE s = h.stockName
    <2>1. PICK i \in DOMAIN q : q[i] = h
      BY <1>2
    <2>2. SharesIn(q, s) = q[i].quantity
      BY <1>2, <1>3, <2>1, SharesOf
    <2>3. QED
      BY <1>1, <1>3, <2>1, <2>2
  <1>4. CASE s # h.stockName
    <2>1. \A i \in DOMAIN p : p[i].stockName = s => \E j \in DOMAIN q : q[j] = p[i]
      BY <1>2
    <2>2. \A j \in DOMAIN q : q[j].stockName = s => \E i \in DOMAIN p : p[i] = q[j]
      BY <1>2, <1>4
    <2>3. SharesIn(q, s) = SharesIn(p, s)
      BY <1>2, <2>1, <2>2, SharesSame
    <2>4. QED
      BY <1>1, <1>4, <2>3
  <1>5. QED
    BY <1>3, <1>4

LEMMA SharesChanged ==
  ASSUME NEW p \in Seq(Holding), Unique(p), NEW q \in Seq(Holding), Unique(q),
         NEW k \in DOMAIN p, DOMAIN q = DOMAIN p, q[k].stockName = p[k].stockName,
         \A i \in DOMAIN p : i # k => q[i] = p[i], NEW s
  PROVE  SharesIn(q, s) = IF s = p[k].stockName THEN q[k].quantity ELSE SharesIn(p, s)
  <1>1. CASE s = p[k].stockName
    BY <1>1, SharesOf
  <1>2. CASE s # p[k].stockName
    <2>1. \A i \in DOMAIN p : p[i].stockName = s => \E j \in DOMAIN q : q[j] = p[i]
      BY <1>2
    <2>2. \A j \in DOMAIN q : q[j].stockName = s => \E i \in DOMAIN p : p[i] = q[j]
      BY <1>2
    <2>3. QED
      BY <1>2, <2>1, <2>2, SharesSame
  <1>3. QED
    BY <1>1, <1>2

LEMMA SharesRemoved ==
  ASSUME NEW p \in Seq(Holding), Unique(p), NEW k \in 1 .. Len(p), NEW s
  PROVE  SharesIn(RemoveAt(p, k), s)
           = IF s = p[k].stockName THEN 0 ELSE SharesIn(p, s)
  <1>1. PICK q : q = RemoveAt(p, k)
    OBVIOUS
  <1>2. Len(p) \in Nat /\ DOMAIN p = 1 .. Len(p) /\ k \in DOMAIN p
    BY LenProperties
  <1>3. /\ q \in Seq(Holding) /\ Unique(q) /\ DOMAIN q = 1 .. Len(p) - 1
        /\ \A j \in DOMAIN q : q[j] = IF j < k THEN p[j] ELSE p[j + 1]
    BY <1>1, RemoveAtSeq, RemoveAtFacts, UniqueRemove
  <1>4. \A j \in DOMAIN q : \E i \in DOMAIN p : i # k /\ p[i] = q[j]
    <2>0. k \in Nat
      BY <1>2
    <2>1. SUFFICES ASSUME NEW j \in DOMAIN q PROVE \E i \in DOMAIN p : i # k /\ p[i] = q[j]
      OBVIOUS
    <2>2. j \in Nat /\ j \in DOMAIN p /\ j + 1 \in DOMAIN p
          /\ q[j] = IF j < k THEN p[j] ELSE p[j + 1]
      BY <1>2, <1>3
    <2>3. CASE j < k
      BY <2>0, <2>2, <2>3
    <2>4. CASE ~(j < k)
      <3>1. j + 1 # k
        BY <2>0, <2>2, <2>4
      <3>2. QED
        BY <2>2, <2>4, <3>1
    <2>5. QED
      BY <2>3, <2>4
  <1>5. \A i \in DOMAIN p : i # k => \E j \in DOMAIN q : q[j] = p[i]
    <2>1. SUFFICES ASSUME NEW i \in DOMAIN p, i # k PROVE \E j \in DOMAIN q : q[j] = p[i]
      OBVIOUS
    <2>2. CASE i < k
      BY <1>2, <1>3, <2>2
    <2>3. CASE i > k
      <3>1. i - 1 \in DOMAIN q /\ ~(i - 1 < k) /\ i - 1 + 1 = i
        BY <1>2, <1>3, <2>3
      <3>2. QED
        BY <1>3, <3>1
    <2>4. QED
      BY <1>2, <2>1, <2>2, <2>3
  <1>6. CASE s = p[k].stockName
    <2>1. \A j \in DOMAIN q : q[j].stockName # s
      BY <1>2, <1>4, <1>6 DEF Unique
    <2>2. QED
      BY <1>1, <1>3, <1>6, <2>1, SharesOfNone
  <1>7. CASE s # p[k].stockName
    <2>1. \A i \in DOMAIN p : p[i].stockName = s => \E j \in DOMAIN q : q[j] = p[i]
      BY <1>5, <1>7
    <2>2. \A j \in DOMAIN q : q[j].stockName = s => \E i \in DOMAIN p : p[i] = q[j]
      BY <1>4
    <2>3. QED
      BY <1>1, <1>3, <1>7, <2>1, <2>2, SharesSame
  <1>8. QED
    BY <1>6, <1>7

----------------------------------------------------------------------------
(* Whose order it is.                                                       *)

Requested ==
  /\ mpc = "poll" => req = NA
  /\ mpc \in {"auth", "portfolio", "prices", "quote"} => req.t # "transact"
  /\ mpc \in Trading => Lower[req.user] \in DOMAIN Members

LEMMA ServeRequests ==
  ASSUME Agreed, Undisturbed, Authenticated, Requested, NEW c \in Clients, ServeStep(c)
  PROVE  Requested'
  <1>1. CASE MTransact(c)
    <2>1. /\ mpc = "poll" /\ c2m[c] # <<>> /\ Head(c2m[c]).t = "transact"
          /\ req' = Head(c2m[c]) /\ mpc' = "offer"
      BY <1>1 DEF MTransact, Reads
    <2>2. Rest(c)
      <3>1. TalkOf(c) /\ cpc[c] # "gone" /\ ~Served(c)
        BY <2>1 DEF Agreed, DialogueInv, Talk, Undisturbed, Served, Programs
      <3>2. QED
        BY <3>1 DEF TalkOf
    <2>3. Requests(c, Head(c2m[c]))
      BY <2>1, <2>2 DEF Rest, Quiet
    <2>4. req'.user = member[c] /\ cpc[c] \in {"valid", "offer"}
      BY <2>1, <2>3 DEF Requests, IsOrder, Waits
    <2>5. Lower[member[c]] \in DOMAIN Members
      BY <2>4 DEF Authenticated
    <2>6. QED
      BY <2>1, <2>4, <2>5 DEF Requested
  <1>2. CASE ~MTransact(c)
    BY <1>2 DEF Requested, ServeStep, MLogin, MPosition, MQuote, MClose, Reads, mVars,
       Trading
  <1>3. QED
    BY <1>1, <1>2

LEMMA NextRequests ==
  ASSUME Agreed, Undisturbed, Authenticated, Requested, [Next]_vars
  PROVE  Requested'
  <1>1. CASE AuthStep \/ QuoteStep \/ PortfolioStep \/ UNCHANGED vars
    BY <1>1 DEF AuthStep, QuoteStep, PortfolioStep, vars, mVars, Requested
  <1>2. CASE MainStep
    <2>1. mpc' = "poll" => req' = NA
      BY <1>2 DEF MainStep, MAuth, MPortfolio, MGain, MQuoteReply, MBuyOffer,
         MBuyDenied, MBuyApproved, MBuyUpdate, MBuyNobody, MBuyThrows, MSellQuoted,
         MSellChecked, MSellUnknown, MSellRefused, MSellPass, MSellOffer, MSellDenied,
         MSellApproved, MResult, MSigPipe, MMisread, HearsClient, Hears, Return
    <2>2. mpc' \in {"auth", "portfolio", "prices", "quote"} =>
            mpc = "portfolio" /\ req' = req
      BY <1>2 DEF MainStep, MAuth, MPortfolio, MGain, MQuoteReply, MBuyOffer,
         MBuyDenied, MBuyApproved, MBuyUpdate, MBuyNobody, MBuyThrows, MSellQuoted,
         MSellChecked, MSellUnknown, MSellRefused, MSellPass, MSellOffer, MSellDenied,
         MSellApproved, MResult, MSigPipe, MMisread, HearsClient, Hears, Return
    <2>3. mpc' \in Trading => mpc \in Trading /\ req' = req
      <3>1. \A c \in Clients : ~MTransact(c)
        BY <1>2 DEF MainStep, MTransact, Reads, MAuth, MPortfolio, MGain, MQuoteReply,
           MBuyOffer, MBuyDenied, MBuyApproved, MBuyUpdate, MBuyNobody, MBuyThrows,
           MSellQuoted, MSellChecked, MSellUnknown, MSellRefused, MSellPass,
           MSellOffer, MSellDenied, MSellApproved, MResult, MSigPipe, MMisread,
           HearsClient, Hears, AtSend
      <3>2. QED
        BY <3>1, OrderTaken
    <2>4. QED
      BY <2>1, <2>2, <2>3 DEF Requested
  <1>3. ASSUME NEW c \in Clients, ClientStep(c)
        PROVE  Requested'
    BY <1>3 DEF ClientStep, ReceiveStep, AnswerStep, CommandStep, mVars, Requested
  <1>4. QED
    BY <1>1, <1>2, <1>3, ServeRequests DEF Next

LEMMA RequestedInvariant ==
  ASSUME OrderlyInstance
  PROVE  Spec => []Requested
  <1>1. Init => Requested
    BY DEF Init, MInit, Requested, Trading
  <1>2. Agreed /\ Undisturbed /\ Authenticated /\ Requested /\ [Next]_vars => Requested'
    BY NextRequests
  <1>3. Spec => []Undisturbed
    BY NothingDisturbs DEF OrderlyInstance
  <1>4. QED
    BY <1>1, <1>2, <1>3, AgreedInvariant, MembersAreAuthenticated, PTL DEF Spec

----------------------------------------------------------------------------
(* The order M is serving, as the Brokerage sees it.                        *)
DealNow == [by |-> cur, owner |-> Lower[req.user], op |-> req.op,
            stock |-> req.stock, lot |-> req.shares, stage |-> Stage]

DealIs ==
  /\ mpc \notin Trading => Deal = NA
  /\ mpc \in Trading =>
       /\ Deal = DealNow /\ Deal # NA
       /\ cur \in Clients /\ Serve(cur)
       /\ Lower[req.user] \in DOMAIN Portfolios \cap DOMAIN portfolio
       /\ req.op \in {"buy", "sell"} /\ req.stock \in Stocks /\ req.shares \in Shares

LEMMA DealFacts ==
  ASSUME OrderlyInstance, Agreed, Undisturbed, Requested, SharesTyped, MembersHold
  PROVE  DealIs
  <1>1. mpc \in Programs \cup {"poll"} /\ mpc \notin Lost
    BY DEF Agreed, IndexInv, ServerTypeOK, Undisturbed, Lost
  <1>2. ASSUME mpc \notin Trading
        PROVE  Deal = NA
    <2>1. mpc \in {"poll", "auth", "portfolio", "prices", "quote"}
      BY <1>1, <1>2 DEF Programs, Trading
    <2>2. QED
      BY <2>1 DEF Requested, Deal
  <1>3. ASSUME mpc \in Trading
        PROVE  /\ Deal = DealNow /\ Deal # NA
               /\ cur \in Clients /\ Serve(cur)
               /\ Lower[req.user] \in DOMAIN Portfolios \cap DOMAIN portfolio
               /\ req.op \in {"buy", "sell"} /\ req.stock \in Stocks
               /\ req.shares \in Shares
    <2>1. mpc \in Programs
      BY <1>1, <1>3 DEF Trading
    <2>2. cur \in Clients /\ Serve(cur)
      BY <2>1, ServedFacts DEF Agreed, IndexInv, Serving, DialogueInv, Undisturbed
    <2>3. req \in ClientMsg /\ req.t = "transact"
      BY <1>3 DEF Agreed, IndexInv, Serving
    <2>4. req.op \in {"buy", "sell"} /\ req.stock \in Stocks /\ req.shares \in Shares
      BY <1>3, <2>3 DEF ClientMsg, SharesTyped
    <2>5. Lower[req.user] \in DOMAIN Portfolios \cap DOMAIN portfolio
      BY <1>3 DEF Requested, MembersHold, OrderlyInstance
    <2>6. req # NA
      BY <2>3, NoneAssumption
    <2>7. Deal = DealNow
      BY <2>3, <2>6 DEF Deal, DealNow
    <2>8. Stage \in {"placed", "agreed", "filled"}
      BY DEF Stage
    <2>9. DealNow \in Broker!Orders
      BY <2>2, <2>4, <2>5, <2>8 DEF DealNow, Broker!Orders
    <2>10. QED
      BY <2>2, <2>4, <2>5, <2>7, <2>9, NoneAssumption
  <1>4. QED
    BY <1>2, <1>3 DEF DealIs

(* Everything that is known of an orderly instance. *)
Calm ==
  /\ Agreed /\ Undisturbed /\ TradeInv /\ SharesTyped /\ TakenAll /\ Covered
  /\ OnePositionPerStock /\ Account /\ MembersHold /\ Authenticated
  /\ Requested /\ DealIs

LEMMA CalmInvariant ==
  ASSUME OrderlyInstance
  PROVE  Spec => []Calm
  <1>1. /\ Agreed /\ Undisturbed /\ TradeInv /\ SharesTyped /\ TakenAll /\ Covered
        /\ OnePositionPerStock /\ Account /\ MembersHold /\ Authenticated
        /\ Requested
        => Calm
    BY DealFacts DEF Calm
  <1>2. /\ Spec => []Undisturbed
        /\ Spec => []OnePositionPerStock
        /\ Spec => []Covered
        /\ Spec => []Account
        /\ Spec => []MembersHold
        /\ Spec => []Requested
    <2>1. SoundStart /\ \A u \in DOMAIN Portfolios : Unique(Portfolios[u])
      BY DEF OrderlyInstance, SoundStart
    <2>2. QED
      BY <2>1, NothingDisturbs, PositionsStayUnique, CoveredInvariant,
         AccountInvariant, MembersHoldInvariant, RequestedInvariant
         DEF OrderlyInstance
  <1>3. QED
    BY <1>1, <1>2, AgreedInvariant, TradeInvariant, SharesAreTyped, TakenAllInvariant,
       MembersAreAuthenticated, PTL

----------------------------------------------------------------------------
(* Who leaves the Brokerage as it is.                                       *)

LEMMA HoldingsSame ==
  ASSUME UNCHANGED portfolio
  PROVE  UNCHANGED Holdings
  <1>1. ASSUME NEW u, NEW s
        PROVE  HeldBy(u, s)' = HeldBy(u, s)
    BY DEF HeldBy
  <1>2. QED
    BY <1>1 DEF Holdings

LEMMA ClockSame ==
  ASSUME UNCHANGED priceIndex, \A s \in Listed : Ticks(s)' = Ticks(s)
  PROVE  UNCHANGED Clock
  BY DEF Clock

LEMMA QuietClock ==
  ASSUME UNCHANGED <<priceIndex, toQ>>
  PROVE  UNCHANGED Clock
  <1>1. \A s \in Listed : Ticks(s)' = Ticks(s)
    BY DEF Ticks
  <1>2. QED
    BY <1>1, ClockSame

(* A question for Server Q is no tick. *)
LEMMA AskedClock ==
  ASSUME ServerTypeOK, UNCHANGED priceIndex, NEW m, m.t # "update",
         toQ' = Append(toQ, m)
  PROVE  UNCHANGED Clock
  <1>1. toQ \in Seq(QuoteToQ \cup UpdateToQ)
    BY DEF ServerTypeOK
  <1>2. /\ DOMAIN toQ' = DOMAIN toQ \cup {Len(toQ) + 1}
        /\ \A k \in DOMAIN toQ : toQ'[k] = toQ[k]
        /\ toQ'[Len(toQ) + 1] = m
    BY <1>1, AppendFacts
  <1>3. \A s \in Listed : Ticks(s)' = Ticks(s)
    BY <1>2 DEF Ticks
  <1>4. QED
    BY <1>3, ClockSame

LEMMA Stutters ==
  ASSUME UNCHANGED <<Holdings, Clock, Deal>>
  PROVE  [Broker!Next]_Broker!vars
  BY DEF Broker!vars

LEMMA SameDeal ==
  ASSUME UNCHANGED <<mpc, cur, req>>, mpc = "update" => UNCHANGED toM
  PROVE  UNCHANGED Deal
  <1>1. UNCHANGED Stage
    BY DEF Stage
  <1>2. QED
    BY <1>1 DEF Deal

LEMMA ClientStutters ==
  ASSUME NEW c \in Clients, ClientStep(c)
  PROVE  [Broker!Next]_Broker!vars
  <1>1. UNCHANGED <<udpVars, mVars, portfolio, priceIndex>>
    BY DEF ClientStep, ReceiveStep, AnswerStep, CommandStep, CLogin, CAuth, CAsk,
       CShow, CTrade, CValid, COffer, CNoSuchStock, CAnswer, CResult, CLeave, Sends,
       Receives, pVars
  <1>2. UNCHANGED <<Holdings, Clock, Deal>>
    BY <1>1, HoldingsSame, QuietClock, SameDeal DEF udpVars, mVars
  <1>3. QED
    BY <1>2, Stutters

LEMMA AuthStutters ==
  ASSUME Calm, AuthStep
  PROVE  [Broker!Next]_Broker!vars
  <1>1. /\ toA # <<>> /\ UNCHANGED <<toQ, portfolio, priceIndex, mVars>>
    BY DEF AuthStep, AReply, pVars
  <1>2. 1 \in DOMAIN toA
    BY <1>1, TailFacts DEF Calm, Agreed, IndexInv, ServerTypeOK
  <1>3. mpc # "update"
    BY <1>2, QuestionAtA DEF Calm
  <1>4. UNCHANGED <<Holdings, Clock, Deal>>
    BY <1>1, <1>3, HoldingsSame, QuietClock, SameDeal DEF mVars
  <1>5. QED
    BY <1>4, Stutters

(* What Server Q finds at the head of its queue. *)
LEMMA HeadOfQ ==
  ASSUME Calm, toQ # <<>>, toQ' = Tail(toQ)
  PROVE  /\ 1 \in DOMAIN toQ /\ Head(toQ) = toQ[1]
         /\ \A s \in Listed : Ticks(s)' = {}
         /\ \A s \in Listed :
              Ticks(s) = IF Head(toQ).t = "update" /\ Head(toQ).stock = s THEN {1} ELSE {}
  <1>1. toQ \in Seq(QuoteToQ \cup UpdateToQ)
    BY DEF Calm, Agreed, IndexInv, ServerTypeOK
  <1>2. /\ 1 \in DOMAIN toQ /\ Head(toQ) = toQ[1] /\ Len(toQ) \in Nat
        /\ DOMAIN toQ = 1 .. Len(toQ)
        /\ \A i \in DOMAIN toQ' : i \in Nat \ {0} /\ i + 1 \in DOMAIN toQ /\ toQ'[i] = toQ[i + 1]
    BY <1>1, TailFacts, LenProperties
  <1>3. \A i, j \in DOMAIN toQ : toQ[i].t = "update" /\ toQ[j].t = "update" => i = j
    BY DEF Calm, Agreed, QuoteInv, OneTick, Undisturbed
  <1>4. \A i \in DOMAIN toQ : toQ[i].t # "update" => i = Len(toQ)
    BY DEF Calm, Agreed, QuoteInv, QuestionsToQ, Undisturbed
  <1>5. ASSUME NEW i \in DOMAIN toQ, toQ[i].t = "update"
        PROVE  i = 1
    <2>1. CASE toQ[1].t = "update"
      BY <1>2, <1>3, <1>5, <2>1
    <2>2. CASE toQ[1].t # "update"
      <3>1. Len(toQ) = 1
        BY <1>2, <1>4, <2>2
      <3>2. QED
        BY <1>2, <3>1
    <2>3. QED
      BY <2>1, <2>2
  <1>6. \A i \in DOMAIN toQ' : toQ'[i].t # "update"
    BY <1>2, <1>5
  <1>7. QED
    BY <1>2, <1>5, <1>6 DEF Ticks

LEMMA QuoteStutters ==
  ASSUME Calm, QQuote \/ QQuoteAll, QuoteStep
  PROVE  [Broker!Next]_Broker!vars
  <1>1. /\ toQ # <<>> /\ Head(toQ).t \in {"quote", "quoteall"} /\ toQ' = Tail(toQ)
        /\ UNCHANGED <<priceIndex, portfolio, mVars>>
    BY DEF QQuote, QQuoteAll, QReceives, QuoteStep, pVars
  <1>2. /\ 1 \in DOMAIN toQ /\ Head(toQ) = toQ[1]
        /\ \A s \in Listed : Ticks(s)' = Ticks(s)
    BY <1>1, HeadOfQ
  <1>3. mpc # "update"
    BY <1>1, <1>2, QuestionAtQ DEF Calm, WaitsForQ
  <1>4. UNCHANGED <<Holdings, Clock, Deal>>
    BY <1>1, <1>2, <1>3, HoldingsSame, ClockSame, SameDeal DEF mVars
  <1>5. QED
    BY <1>4, Stutters

(* Server Q moves a stock on: the Brokerage has counted that already. *)
LEMMA NextIndexIs ==
  ASSUME NEW k \in Nat, NEW n \in Nat \ {0}, k < n
  PROVE  /\ (k + 1) % n = (IF k = n - 1 THEN 0 ELSE k + 1)
         /\ k % n = k /\ (k + 0) % n = k
         /\ (IF k = n - 1 THEN 0 ELSE k + 1) % n = (IF k = n - 1 THEN 0 ELSE k + 1)
  OBVIOUS

LEMMA PriceIndexFacts ==
  ASSUME Calm, NEW s \in Listed
  PROVE  /\ priceIndex[s] \in Nat /\ Len(Prices[s]) \in Nat \ {0}
         /\ priceIndex[s] < Len(Prices[s])
  <1>1. Len(Prices[s]) \in Nat \ {0}
    BY PricesAssumption, EmptySeq, LenProperties
  <1>2. QED
    BY <1>1 DEF Calm, Agreed, IndexInv, ServerTypeOK

LEMMA MovesOn ==
  ASSUME Calm, QUpdate, QuoteStep
  PROVE  [Broker!Next]_Broker!vars
  <1>1. /\ toQ # <<>> /\ Head(toQ).t = "update" /\ toQ' = Tail(toQ)
        /\ UNCHANGED <<portfolio, mVars, toM>>
        /\ priceIndex' = [s \in Listed |->
             IF s = Head(toQ).stock THEN NextIndex(s) ELSE priceIndex[s]]
    BY DEF QUpdate, QReceives, QuoteStep, pVars
  <1>2. ASSUME NEW s \in Listed
        PROVE  Clock'[s] = Clock[s]
    <2>1. PICK k : k = priceIndex[s]
      OBVIOUS
    <2>2. PICK n : n = Len(Prices[s])
      OBVIOUS
    <2>3. k \in Nat /\ n \in Nat \ {0} /\ k < n
      BY <2>1, <2>2, PriceIndexFacts
    <2>4. Ticks(s)' = {} /\ Cardinality(Ticks(s)') = 0
      BY <1>1, HeadOfQ, FS_EmptySet
    <2>5. /\ Clock[s] = (k + Cardinality(Ticks(s))) % n
          /\ Clock'[s] = (priceIndex'[s] + 0) % n
      BY <2>1, <2>2, <2>4 DEF Clock
    <2>6. CASE s = Head(toQ).stock
      <3>1. Ticks(s) = {1} /\ Cardinality(Ticks(s)) = 1
        BY <1>1, <2>6, HeadOfQ, FS_Singleton
      <3>2. priceIndex'[s] = IF k = n - 1 THEN 0 ELSE k + 1
        BY <1>1, <2>1, <2>2, <2>6 DEF NextIndex
      <3>3. PICK j : j = IF k = n - 1 THEN 0 ELSE k + 1
        OBVIOUS
      <3>4. j + 0 = j
        BY <2>3, <3>3
      <3>5. j % n = j /\ (k + 1) % n = j
        BY <2>3, <3>3, NextIndexIs
      <3>6. Clock'[s] = (j + 0) % n /\ Clock[s] = (k + 1) % n
        BY <2>5, <3>1, <3>2, <3>3
      <3>7. QED
        BY <3>4, <3>5, <3>6
    <2>7. CASE s # Head(toQ).stock
      <3>1. Ticks(s) = {} /\ Cardinality(Ticks(s)) = 0
        BY <1>1, <2>7, HeadOfQ, FS_EmptySet
      <3>2. priceIndex'[s] = k
        BY <1>1, <2>1, <2>7
      <3>3. QED
        BY <2>5, <3>1, <3>2
    <2>8. QED
      BY <2>6, <2>7
  <1>3. UNCHANGED Clock
    BY <1>2 DEF Clock
  <1>4. UNCHANGED <<Holdings, Deal>>
    BY <1>1, HoldingsSame, SameDeal DEF mVars
  <1>5. QED
    BY <1>3, <1>4, Stutters

----------------------------------------------------------------------------
(* Server P fills the order.                                                *)

LEMMA AnsweringStutters ==
  ASSUME Calm, PPosition \/ PCheck \/ PRetrieve \/ PAnswer, PortfolioStep
  PROVE  [Broker!Next]_Broker!vars
  <1>1. UNCHANGED <<toQ, portfolio, priceIndex, mVars>>
    BY DEF PPosition, PCheck, PRetrieve, PAnswer, PReplies, PortfolioStep, pVars
  <1>2. mpc = "update" => UNCHANGED toM
    <2>1. CASE PAnswer
      BY <2>1 DEF PAnswer
    <2>2. CASE PPosition \/ PCheck \/ PRetrieve
      <3>1. toP # <<>> /\ Head(toP).t \in {"position", "check", "retrieve"}
        BY <2>2 DEF PPosition, PCheck, PRetrieve, PReceives
      <3>2. Head(toP) = toP[1] /\ 1 \in DOMAIN toP
        BY <3>1, QueuesTyped DEF Calm
      <3>3. toP[1].t = AskedOfP
        BY <3>1, <3>2 DEF Calm, Agreed, PortInv, Undisturbed, QuestionsToP, QuestionFits
      <3>4. mpc # "update"
        BY <3>1, <3>2, <3>3 DEF AskedOfP
      <3>5. QED
        BY <3>4
    <2>3. QED
      BY <2>1, <2>2
  <1>3. UNCHANGED <<Holdings, Clock, Deal>>
    BY <1>1, <1>2, HoldingsSame, QuietClock, SameDeal DEF mVars
  <1>4. QED
    BY <1>3, Stutters

LEMMA StoreHoldings ==
  ASSUME NEW u \in DOMAIN portfolio, NEW q, Store(u, q), NEW r \in Stocks, NEW x,
         \A s \in Stocks : SharesIn(q, s) = IF s = r THEN x ELSE SharesIn(portfolio[u], s)
  PROVE  Holdings' = [Holdings EXCEPT ![u][r] = x]
  <1>1. /\ DOMAIN portfolio' = DOMAIN portfolio
        /\ \A v \in DOMAIN portfolio : portfolio'[v] = IF v = u THEN q ELSE portfolio[v]
    BY DEF Store
  <1>2. \A v \in DOMAIN portfolio : \A s \in Stocks :
          /\ HeldBy(v, s) = SharesIn(portfolio[v], s)
          /\ HeldBy(v, s)' = SharesIn(portfolio'[v], s)
    BY <1>1 DEF HeldBy
  <1>3. \A v \in DOMAIN portfolio : \A s \in Stocks :
          HeldBy(v, s)' = IF v = u /\ s = r THEN x ELSE HeldBy(v, s)
    BY <1>1, <1>2
  <1>4. Holdings' = [v \in DOMAIN portfolio |-> [s \in Stocks |-> HeldBy(v, s)']]
    BY <1>1 DEF Holdings
  <1>5. Holdings' = [v \in DOMAIN portfolio |->
          IF v = u THEN [s \in Stocks |-> IF s = r THEN x ELSE HeldBy(v, s)]
                   ELSE [s \in Stocks |-> HeldBy(v, s)]]
    BY <1>3, <1>4
  <1>6. [Holdings EXCEPT ![u][r] = x] = [Holdings EXCEPT ![u] = [Holdings[u] EXCEPT ![r] = x]]
    OBVIOUS
  <1>7. [Holdings[u] EXCEPT ![r] = x] = [s \in Stocks |-> IF s = r THEN x ELSE HeldBy(u, s)]
    BY DEF Holdings
  <1>8. [Holdings EXCEPT ![u] = [s \in Stocks |-> IF s = r THEN x ELSE HeldBy(u, s)]]
          = [v \in DOMAIN portfolio |->
               IF v = u THEN [s \in Stocks |-> IF s = r THEN x ELSE HeldBy(v, s)]
                        ELSE [s \in Stocks |-> HeldBy(v, s)]]
    BY DEF Holdings
  <1>9. QED
    BY <1>5, <1>6, <1>7, <1>8

(* What the update leaves of the stock: what was ordered more or less. *)
LEMMA UpdateFills ==
  ASSUME OrderlyInstance, Calm, PUpdateNew \/ PUpdateReplace \/ PUpdateRemove,
         NEW u, u = Lower[req.user], NEW r, r = req.stock, NEW n, n = req.shares
  PROVE  Holdings' = [Holdings EXCEPT ![u][r] =
           IF req.op = "buy" THEN HeldBy(u, r) + n ELSE HeldBy(u, r) - n]
  <1>0. PICK m : m = Head(toP)
    OBVIOUS
  <1>1. PReceives("update") /\ IndexInv /\ ServerTypeOK
    BY DEF PUpdateNew, PUpdateReplace, PUpdateRemove, Calm, Agreed, IndexInv
  <1>2. /\ n \in Int /\ n > 0
        /\ m.user = u /\ m.stock = r /\ req.op \in {"buy", "sell"}
        /\ u \in DOMAIN portfolio /\ portfolio[u] \in Seq(Holding)
        /\ \/ req.op = "buy" /\ m.index = -1 /\ m.shares = n
           \/ \E i \in DOMAIN portfolio[u] :
                /\ m.index = i - 1 /\ portfolio[u][i].stockName = r
                /\ portfolio[u][i].quantity \in 1 .. Most(u, r)
                /\ m.shares = IF req.op = "buy" THEN portfolio[u][i].quantity + n
                                                ELSE portfolio[u][i].quantity - n
                /\ m.shares >= 0
    <2>1. PICK w : w = m.user
      OBVIOUS
    <2>2. /\ n \in Int /\ n > 0
          /\ w = Lower[req.user] /\ m.stock = req.stock /\ req.op \in {"buy", "sell"}
          /\ w \in DOMAIN portfolio /\ portfolio[w] \in Seq(Holding)
          /\ \/ req.op = "buy" /\ m.index = -1 /\ m.shares = n
             \/ \E i \in DOMAIN portfolio[w] :
                  /\ m.index = i - 1 /\ portfolio[w][i].stockName = m.stock
                  /\ portfolio[w][i].quantity \in 1 .. Most(w, m.stock)
                  /\ m.shares = IF req.op = "buy" THEN portfolio[w][i].quantity + n
                                                  ELSE portfolio[w][i].quantity - n
                  /\ m.shares >= 0
      BY <1>0, <1>1, <2>1, UpdateSums DEF Calm, OrderlyInstance
    <2>3. w = u /\ m.stock = r
      BY <2>2
    <2>4. QED
      BY <2>1, <2>2, <2>3
  <1>3. Unique(portfolio[u])
    BY <1>2 DEF Calm, OnePositionPerStock, Unique
  <1>4. r \in Stocks /\ m.shares \in CInt /\ m.price \in Money
    BY <1>0, <1>1, <1>2, PUpdateFacts
  <1>5. Len(portfolio[u]) \in Nat /\ DOMAIN portfolio[u] = 1 .. Len(portfolio[u])
    BY <1>2, LenProperties
  <1>6. PICK x : x = IF req.op = "buy" THEN HeldBy(u, r) + n ELSE HeldBy(u, r) - n
    OBVIOUS
  <1>7. \A i \in DOMAIN portfolio[u] : portfolio[u][i].stockName = r =>
          HeldBy(u, r) = portfolio[u][i].quantity
    BY <1>1, <1>2, HeldIsIt DEF Calm
  <1>8. PICK q : /\ Store(u, q)
                 /\ \A s \in Stocks : SharesIn(q, s) =
                      IF s = r THEN x ELSE SharesIn(portfolio[u], s)
    <2>1. CASE PUpdateNew
      <3>1. PICK h : h = [stockName |-> m.stock, quantity |-> m.shares,
                          avgPrice |-> m.price]
        OBVIOUS
      <3>2. m.index = -1 /\ Store(u, Append(portfolio[u], h))
        BY <1>0, <1>2, <2>1, <3>1 DEF PUpdateNew
      <3>3. h \in Holding /\ h.stockName = r /\ h.quantity = m.shares
        BY <1>2, <1>4, <3>1 DEF Holding
      <3>4. req.op = "buy" /\ m.shares = n
        BY <1>2, <1>5, <3>2
      <3>5. \A i \in DOMAIN portfolio[u] : portfolio[u][i].stockName # r
        BY <1>0, <1>1, <1>2, <3>2, PUpdateFacts DEF Valid
      <3>6. HeldBy(u, r) = 0
        BY <1>2, <3>5, SharesOfNone DEF HeldBy
      <3>7. x = n
        BY <1>2, <1>6, <3>4, <3>6
      <3>8. \A s \in Stocks : SharesIn(Append(portfolio[u], h), s) =
              IF s = r THEN m.shares ELSE SharesIn(portfolio[u], s)
        BY <1>2, <1>3, <3>3, <3>5, SharesAppended
      <3>9. QED
        BY <3>2, <3>4, <3>7, <3>8
    <2>2. ASSUME NEW i \in DOMAIN portfolio[u], m.index + 1 = i,
                 portfolio[u][i].stockName = r,
                 portfolio[u][i].quantity \in 1 .. Most(u, r),
                 m.shares = IF req.op = "buy" THEN portfolio[u][i].quantity + n
                                              ELSE portfolio[u][i].quantity - n
          PROVE  /\ x = m.shares
                 /\ portfolio[u][i].quantity # 0
      <3>1. PICK b : b = Most(u, r)
        OBVIOUS
      <3>2. b \in Nat
        BY <3>1, MostIsMost DEF OrderlyInstance
      <3>3. HeldBy(u, r) = portfolio[u][i].quantity
        BY <1>7, <2>2
      <3>4. QED
        BY <1>6, <2>2, <3>1, <3>2, <3>3
    <2>3. CASE PUpdateReplace \/ PUpdateRemove
      <3>1. m.index + 1 # 0
        BY <1>0, <2>3 DEF PUpdateReplace, PUpdateRemove
      <3>2. PICK i \in DOMAIN portfolio[u] :
              /\ m.index = i - 1 /\ portfolio[u][i].stockName = r
              /\ portfolio[u][i].quantity \in 1 .. Most(u, r)
              /\ m.shares = IF req.op = "buy" THEN portfolio[u][i].quantity + n
                                              ELSE portfolio[u][i].quantity - n
        BY <1>2, <3>1
      <3>3. m.index + 1 = i
        BY <1>5, <3>2
      <3>4. x = m.shares /\ portfolio[u][i].quantity # 0
        BY <2>2, <3>2, <3>3
      <3>5. CASE PUpdateReplace
        <4>1. PICK q : q = [portfolio[u] EXCEPT ![i].quantity = m.shares,
                                                ![i].avgPrice = m.price]
          OBVIOUS
        <4>2. Store(u, q)
          BY <1>0, <1>2, <3>3, <3>5, <4>1 DEF PUpdateReplace
        <4>3. portfolio[u][i] \in Holding
          BY <1>1, <1>2, HoldingFacts
        <4>4. q \in Seq(Holding)
          <5>1. PICK h : h = [[portfolio[u][i] EXCEPT !.quantity = m.shares]
                                EXCEPT !.avgPrice = m.price]
            OBVIOUS
          <5>2. h \in Holding
            BY <1>4, <4>3, <5>1 DEF Holding
          <5>3. q = [portfolio[u] EXCEPT ![i] = h]
            BY <4>1, <5>1
          <5>4. QED
            BY <1>2, <5>2, <5>3
        <4>5. \A s \in Stocks : SharesIn(q, s) =
                IF s = r THEN m.shares ELSE SharesIn(portfolio[u], s)
          <5>1. PICK p \in Seq(Holding) : p = portfolio[u]
            BY <1>2
          <5>2. /\ Unique(p) /\ i \in DOMAIN p /\ p[i].stockName = r
                /\ q = [p EXCEPT ![i].quantity = m.shares, ![i].avgPrice = m.price]
            BY <1>3, <3>2, <4>1, <5>1
          <5>3. PICK h : h = [[p[i] EXCEPT !.quantity = m.shares] EXCEPT !.avgPrice = m.price]
            OBVIOUS
          <5>4. h.stockName = r /\ h.quantity = m.shares
            BY <4>3, <5>1, <5>2, <5>3 DEF Holding
          <5>5. /\ DOMAIN q = DOMAIN p /\ q[i] = h
                /\ \A j \in DOMAIN p : j # i => q[j] = p[j]
            BY <5>2, <5>3
          <5>6. /\ Unique(p) /\ i \in DOMAIN p
                /\ p[i].stockName = r /\ q[i].stockName = p[i].stockName
                /\ \A j \in DOMAIN q : q[j].stockName = p[j].stockName
            BY <5>2, <5>4, <5>5
          <5>7. Unique(q)
            BY <5>5, <5>6 DEF Unique
          <5>8. \A s \in Stocks :
                  SharesIn(q, s) = IF s = p[i].stockName THEN q[i].quantity ELSE SharesIn(p, s)
            BY <4>4, <5>1, <5>5, <5>6, <5>7, SharesChanged
          <5>9. QED
            BY <5>1, <5>4, <5>5, <5>6, <5>8
        <4>6. QED
          BY <3>4, <4>2, <4>5
      <3>6. CASE PUpdateRemove
        <4>1. m.shares = 0 /\ Store(u, RemoveAt(portfolio[u], i))
          BY <1>0, <1>2, <3>3, <3>4, <3>6 DEF PUpdateRemove
        <4>2. \A s \in Stocks : SharesIn(RemoveAt(portfolio[u], i), s) =
                IF s = r THEN 0 ELSE SharesIn(portfolio[u], s)
          BY <1>2, <1>3, <1>5, <3>2, SharesRemoved
        <4>3. QED
          BY <3>4, <4>1, <4>2
      <3>7. QED
        BY <2>3, <3>5, <3>6
    <2>4. QED
      BY <2>1, <2>3
  <1>9. Holdings' = [Holdings EXCEPT ![u][r] = x]
    <2>1. u \in DOMAIN portfolio /\ r \in Stocks
      BY <1>2, <1>4
    <2>2. QED
      BY <1>8, <2>1, StoreHoldings
  <1>10. QED
    BY <1>6, <1>9

(* What an order of the Brokerage looks like here.                          *)
LEMMA DealFields ==
  ASSUME Calm, mpc \in Trading
  PROVE  /\ Deal = DealNow /\ Deal # NA
         /\ Deal.by = cur /\ Deal.owner = Lower[req.user] /\ Deal.op = req.op
         /\ Deal.stock = req.stock /\ Deal.lot = req.shares /\ Deal.stage = Stage
         /\ \A st : [Deal EXCEPT !.stage = st]
                      = [by |-> cur, owner |-> Lower[req.user], op |-> req.op,
                         stock |-> req.stock, lot |-> req.shares, stage |-> st]
  <1>1. Deal = DealNow /\ Deal # NA
    BY DEF Calm, DealIs
  <1>2. QED
    BY <1>1 DEF DealNow

LEMMA UpdateFillsDeal ==
  ASSUME OrderlyInstance, Calm, Calm', PUpdateNew \/ PUpdateReplace \/ PUpdateRemove,
         PortfolioStep
  PROVE  [Broker!Next]_Broker!vars
  <1>1. /\ PReceives("update") /\ UNCHANGED <<mVars, toQ, priceIndex>>
        /\ UNCHANGED <<mpc, cur, req>>
    BY DEF PUpdateNew, PUpdateReplace, PUpdateRemove, PortfolioStep, PReplies, mVars
  <1>2. toP # <<>> /\ Head(toP) = toP[1] /\ 1 \in DOMAIN toP /\ toP[1].t = "update"
    BY <1>1, QueuesTyped DEF Calm, PReceives
  <1>3. mpc = "update" /\ mpc \in Trading
    BY <1>2, UpdateMeansUpdate DEF Calm, Undisturbed, Trading
  <1>4. toM = <<>>
    <2>1. DOMAIN toM = {}
      BY <1>2, QuestionAtP DEF Calm
    <2>2. toM \in Seq(ReplyFromA \cup ReplyFromQ \cup ReplyFromP)
      BY QueuesTyped DEF Calm
    <2>3. QED
      BY <2>1, <2>2, TailFacts
  <1>5. toM' # <<>>
    <2>1. PICK m : toM' = Append(toM, m)
      BY UpdateReply DEF Calm, OrderlyInstance
    <2>2. QED
      BY <1>4, <2>1, AppendEmpty
  <1>6. Stage = "agreed" /\ Stage' = "filled"
    BY <1>1, <1>3, <1>4, <1>5 DEF Stage
  <1>7. PICK u : u = Lower[req.user]
    OBVIOUS
  <1>8. PICK r : r = req.stock
    OBVIOUS
  <1>9. PICK n : n = req.shares
    OBVIOUS
  <1>10. Holdings' = [Holdings EXCEPT ![u][r] =
           IF req.op = "buy" THEN HeldBy(u, r) + n ELSE HeldBy(u, r) - n]
    BY <1>7, <1>8, <1>9, UpdateFills
  <1>11. u \in DOMAIN portfolio /\ r \in Stocks
    BY <1>3, <1>7, <1>8 DEF Calm, DealIs
  <1>12. Holdings[u][r] = HeldBy(u, r)
    BY <1>11 DEF Holdings
  <1>13. Deal' = [Deal EXCEPT !.stage = "filled"]
    <2>1. Deal' = DealNow'
      BY <1>1, <1>3 DEF Calm, DealIs
    <2>2. QED
      BY <1>1, <1>3, <1>6, <2>1, DealFields DEF DealNow
  <1>14. /\ Deal # NA /\ Deal.stage = "agreed" /\ Deal.owner = u /\ Deal.stock = r
         /\ Deal.op = req.op /\ Deal.lot = n
    BY <1>3, <1>6, <1>7, <1>8, <1>9, DealFields
  <1>15. UNCHANGED Clock
    BY <1>1, QuietClock
  <1>16. Holdings' = [Holdings EXCEPT ![Deal.owner][Deal.stock] =
           IF Deal.op = "buy" THEN @ + Deal.lot ELSE @ - Deal.lot]
    BY <1>10, <1>12, <1>14
  <1>17. Broker!Fill
    BY <1>13, <1>14, <1>15, <1>16 DEF Broker!Fill, Broker!At
  <1>18. QED
    BY <1>17 DEF Broker!Next

LEMMA PortfolioRefines ==
  ASSUME OrderlyInstance, Calm, Calm', PortfolioStep
  PROVE  [Broker!Next]_Broker!vars
  <1>1. CASE PPosition \/ PCheck \/ PRetrieve \/ PAnswer
    BY <1>1, AnsweringStutters
  <1>2. CASE PUpdateNew \/ PUpdateReplace \/ PUpdateRemove
    BY <1>2, UpdateFillsDeal
  <1>3. ~PFallsOff
    <2>1. toP # <<>> => Head(toP) = toP[1] /\ 1 \in DOMAIN toP
      BY QueuesTyped DEF Calm
    <2>2. QED
      BY <2>1 DEF PFallsOff, PReceives, Calm, Undisturbed
  <1>4. QED
    BY <1>1, <1>2, <1>3 DEF PortfolioStep

----------------------------------------------------------------------------
(* Server M takes up an order.                                              *)

(* Nobody holds so much that the order on its way would exceed the bound.   *)
LEMMA OrderInBound ==
  ASSUME OrderlyInstance, Calm, NEW c \in Clients, NEW u \in DOMAIN portfolio,
         NEW s \in Stocks, Buying(c, u, s), NEW n \in Shares
  PROVE  HeldBy(u, s) + n <= MaxHeld * (1 + Cardinality(Clients))
  <1>1. PICK I \in SUBSET Clients : I = Idle(u, s)
    BY DEF Idle
  <1>2. PICK a : a = MaxHeld * (1 + Cardinality(I))
    OBVIOUS
  <1>3. PICK b : b = MaxHeld * (1 + Cardinality(Clients))
    OBVIOUS
  <1>4. Most(u, s) = a
    BY <1>1, <1>2 DEF Most
  <1>5. a \in Nat /\ b \in Nat /\ a + MaxHeld <= b
    <2>1. c \in Clients \ I
      BY <1>1 DEF Idle
    <2>2. QED
      BY <1>2, <1>3, <2>1, MostFacts DEF OrderlyInstance
  <1>6. PICK h : h = HeldBy(u, s)
    OBVIOUS
  <1>7. h \in Int /\ h <= a
    <2>1. portfolio[u] \in Seq(Holding)
      BY DEF Calm, Agreed, IndexInv, ServerTypeOK
    <2>2. h = SharesIn(portfolio[u], s)
      BY <1>6 DEF HeldBy
    <2>3. \A i \in DOMAIN portfolio[u] : portfolio[u][i].stockName = s =>
            portfolio[u][i].quantity \in 1 .. a
      BY <1>4 DEF Calm, Account
    <2>4. h = 0 \/ h \in 1 .. a
      BY <2>1, <2>2, <2>3, SharesInIs
    <2>5. QED
      BY <1>5, <2>4
  <1>8. n \in Int /\ n <= MaxHeld /\ MaxHeld \in Nat
    BY BoundAssumption DEF OrderlyInstance, SoundStart
  <1>9. h + n <= b
    BY <1>5, <1>7, <1>8
  <1>10. QED
    BY <1>3, <1>6, <1>9

LEMMA TakesUpOrder ==
  ASSUME OrderlyInstance, Calm, Calm', NEW c \in Clients, MTransact(c),
         UNCHANGED <<priceIndex, pVars, cVars>>
  PROVE  Broker!Next
  <1>1. /\ mpc = "poll" /\ mpc' = "offer" /\ cur' = c /\ req' = Head(c2m[c])
        /\ c2m[c] # <<>> /\ UNCHANGED <<portfolio, priceIndex>>
        /\ toQ' = Append(toQ, [t |-> "quote", stock |-> Head(c2m[c]).stock])
    BY DEF MTransact, Reads, ToQ, pVars
  <1>2. Deal = NA
    BY <1>1 DEF Calm, DealIs, Trading
  <1>3. UNCHANGED <<Holdings, Clock>>
    <2>1. ServerTypeOK
      BY DEF Calm, Agreed, IndexInv
    <2>2. PICK m : m = [t |-> "quote", stock |-> Head(c2m[c]).stock]
      OBVIOUS
    <2>3. toQ' = Append(toQ, m) /\ m.t # "update"
      BY <1>1, <2>2
    <2>4. QED
      BY <1>1, <2>1, <2>3, AskedClock, HoldingsSame
  <1>4. PICK u : u = Lower[req'.user]
    OBVIOUS
  <1>5. PICK s : s = req'.stock
    OBVIOUS
  <1>6. PICK n : n = req'.shares
    OBVIOUS
  <1>7. PICK op : op = req'.op
    OBVIOUS
  <1>8. /\ Deal' = DealNow'
        /\ u \in DOMAIN Portfolios \cap DOMAIN portfolio
        /\ op \in {"buy", "sell"} /\ s \in Stocks /\ n \in Shares
    BY <1>1, <1>4, <1>5, <1>6, <1>7 DEF Calm, DealIs, Trading
  <1>9. Stage' = "placed"
    BY <1>1 DEF Stage
  <1>10. Deal' = [by |-> c, owner |-> u, op |-> op, stock |-> s, lot |-> n,
                  stage |-> "placed"]
    BY <1>1, <1>4, <1>5, <1>6, <1>7, <1>8, <1>9 DEF DealNow
  <1>11. ASSUME op = "buy"
         PROVE  Holdings[u][s] + n <= MaxHeld * (1 + Cardinality(Clients))
    <2>1. c2m[c] \in Seq(ClientMsg)
      BY DEF Calm, Agreed, IndexInv, ServerTypeOK
    <2>2. 1 \in DOMAIN c2m[c] /\ req' = c2m[c][1]
      BY <1>1, <2>1, TailFacts
    <2>3. req'.t = "transact"
      BY <1>1 DEF MTransact, Reads
    <2>4. Buying(c, u, s)
      BY <1>4, <1>5, <1>7, <1>11, <2>2, <2>3 DEF Buying, BuyOrder
    <2>5. HeldBy(u, s) + n <= MaxHeld * (1 + Cardinality(Clients))
      BY <1>8, <2>4, OrderInBound
    <2>6. Holdings[u][s] = HeldBy(u, s)
      BY <1>8 DEF Holdings
    <2>7. QED
      BY <2>5, <2>6
  <1>12. Broker!Place(c, u, op, s, n)
    BY <1>2, <1>3, <1>10, <1>11 DEF Broker!Place
  <1>13. QED
    BY <1>8, <1>12 DEF Broker!Next

LEMMA ServeRefines ==
  ASSUME OrderlyInstance, Calm, Calm', NEW c \in Clients, ServeStep(c)
  PROVE  [Broker!Next]_Broker!vars
  <1>1. CASE MTransact(c)
    BY <1>1, TakesUpOrder DEF ServeStep
  <1>2. CASE ~MTransact(c)
    <2>1. /\ mpc = "poll" /\ mpc' \in {"poll", "auth", "portfolio", "quote"}
          /\ UNCHANGED <<portfolio, priceIndex>>
      BY <1>2 DEF ServeStep, MLogin, MPosition, MQuote, MClose, Reads, mVars, pVars
    <2>2. Deal = NA /\ Deal' = NA
      BY <2>1 DEF Calm, DealIs, Trading
    <2>3. UNCHANGED Clock
      <3>1. CASE UNCHANGED toQ
        BY <2>1, <3>1, QuietClock
      <3>2. ASSUME NEW type \in {"quote", "quoteall"}, MQuote(c, type)
            PROVE  UNCHANGED Clock
        <4>1. PICK m : m = Head(c2m[c])
          OBVIOUS
        <4>2. toQ' = Append(toQ, m) /\ m.t # "update"
          BY <3>2, <4>1 DEF MQuote, Reads, ToQ
        <4>3. ServerTypeOK
          BY DEF Calm, Agreed, IndexInv
        <4>4. QED
          BY <2>1, <4>2, <4>3, AskedClock
      <3>3. QED
        BY <1>2, <3>1, <3>2 DEF ServeStep, MLogin, MPosition, MClose, udpVars
    <2>4. QED
      BY <2>1, <2>2, <2>3, HoldingsSame, Stutters
  <1>3. QED
    BY <1>1, <1>2

----------------------------------------------------------------------------
(* Server M goes on with a request.                                         *)

LEMMA MainLeavesData ==
  ASSUME MainStep
  PROVE  UNCHANGED <<portfolio, priceIndex, Holdings>>
  <1>1. UNCHANGED <<portfolio, priceIndex>>
    BY DEF MainStep, pVars
  <1>2. QED
    BY <1>1, HoldingsSame

(* M reads the only reply there is. *)
LEMMA HearsTheOnlyReply ==
  ASSUME Calm, toM # <<>>, toM' = Tail(toM)
  PROVE  toM' = <<>>
  <1>1. toM \in Seq(ReplyFromA \cup ReplyFromQ \cup ReplyFromP)
    BY QueuesTyped DEF Calm
  <1>2. /\ toM' \in Seq(ReplyFromA \cup ReplyFromQ \cup ReplyFromP)
        /\ 1 \in DOMAIN toM /\ \A i \in DOMAIN toM' : i + 1 \in DOMAIN toM
        /\ DOMAIN toM' = 1 .. Len(toM') /\ Len(toM') \in Nat
    BY <1>1, TailFacts, LenProperties
  <1>3. \A i \in DOMAIN toM : i = 1
    BY <1>2, OneReplyOnly DEF Calm
  <1>4. \A i \in DOMAIN toM' : FALSE
    BY <1>2, <1>3
  <1>5. QED
    BY <1>2, <1>4, EmptySeq

(* A request that is no order. *)
LEMMA RequestStutters ==
  ASSUME Calm, Calm', MainStep, MAuth \/ MGain \/ MQuoteReply \/ MPortfolio
  PROVE  [Broker!Next]_Broker!vars
  <1>1. mpc \notin Trading /\ mpc' \notin Trading
    BY DEF MAuth, MGain, MQuoteReply, MPortfolio, Hears, Return, Trading
  <1>2. Deal = NA /\ Deal' = NA
    BY <1>1 DEF Calm, DealIs
  <1>3. UNCHANGED Clock
    <2>1. CASE MAuth \/ MGain \/ MQuoteReply
      <3>1. UNCHANGED toQ
        BY <2>1 DEF MAuth, MGain, MQuoteReply
      <3>2. QED
        BY <3>1, MainLeavesData, QuietClock
    <2>2. CASE MPortfolio
      <3>1. PICK m : m = [t |-> "quoteall"]
        OBVIOUS
      <3>2. toQ' = Append(toQ, m) /\ m.t # "update" /\ ServerTypeOK
        BY <2>2, <3>1 DEF MPortfolio, ToQ, Calm, Agreed, IndexInv
      <3>3. QED
        BY <3>2, MainLeavesData, AskedClock
    <2>3. QED
      BY <2>1, <2>2
  <1>4. QED
    BY <1>2, <1>3, MainLeavesData, Stutters

(* An order that M looks into further, or has sent to Server P. *)
LEMMA OrderStutters ==
  ASSUME Calm, MainStep,
         \/ MBuyOffer \/ MSellQuoted \/ MSellChecked \/ MSellPass \/ MSellOffer
         \/ MBuyUpdate
  PROVE  [Broker!Next]_Broker!vars
  <1>1. UNCHANGED <<cur, req, toQ>>
    BY DEF MBuyOffer, MSellQuoted, MSellChecked, MSellPass, MSellOffer, MBuyUpdate,
       udpVars
  <1>2. UNCHANGED Stage
    <2>1. CASE MBuyOffer \/ MSellQuoted \/ MSellChecked \/ MSellPass \/ MSellOffer
      <3>1. {mpc, mpc'} \subseteq {"offer", "buy_answer", "sell_check", "sell_held",
                                   "sell_sleep", "sell_answer"}
        BY <2>1 DEF MBuyOffer, MSellQuoted, MSellChecked, MSellPass, MSellOffer, Hears
      <3>2. Stage = "placed" /\ Stage' = "placed"
        BY <3>1 DEF Stage
      <3>3. QED
        BY <3>2
    <2>2. CASE MBuyUpdate
      <3>1. mpc = "buy_held" /\ mpc' = "update" /\ toM # <<>> /\ toM' = Tail(toM)
        BY <2>2 DEF MBuyUpdate, Hears
      <3>2. toM' = <<>>
        BY <3>1, HearsTheOnlyReply
      <3>3. Stage = "agreed" /\ Stage' = "agreed"
        BY <3>1, <3>2 DEF Stage
      <3>4. QED
        BY <3>3
    <2>3. QED
      BY <2>1, <2>2
  <1>3. UNCHANGED Deal
    BY <1>1, <1>2 DEF Deal
  <1>4. QED
    BY <1>1, <1>3, MainLeavesData, QuietClock, Stutters

(* The update follows the answer. *)
LEMMA UpdateAppended ==
  ASSUME Agreed, AnswerToP \in ToP, NEW m \in ToP, m.t = "update",
         toP' = toP \o <<AnswerToP, m>>
  PROVE  \E i \in DOMAIN toP' : toP'[i].t = "update"
  <1>1. toP \in Seq(ToP)
    BY DEF Agreed, IndexInv, ServerTypeOK
  <1>2. PICK p \in Seq(ToP) : p = Append(toP, AnswerToP)
    BY <1>1, AppendFacts
  <1>3. toP' = Append(p, m)
    BY <1>1, <1>2, AppendTwo
  <1>4. QED
    BY <1>2, <1>3, AppendFacts

(* The person has said Y. *)
LEMMA AgreesOrder ==
  ASSUME Calm, Calm', MainStep, MBuyApproved \/ MSellApproved
  PROVE  Broker!Agree
  <1>1. /\ mpc \in {"buy_answer", "sell_answer"} /\ mpc' \in {"buy_held", "update"}
        /\ UNCHANGED <<cur, req, offer, toQ, toM>>
        /\ mpc' = "update" => MSellApproved
    BY DEF MBuyApproved, MSellApproved, HearsClient
  <1>2. mpc \in Trading /\ mpc' \in Trading /\ mpc \in Trading \ {"offer"}
    BY <1>1 DEF Trading
  <1>3. toM = <<>>
    <2>1. mpc \notin {"auth"} \cup WaitsForQ \cup WaitsForP
      BY <1>1 DEF WaitsForQ, WaitsForP
    <2>2. DOMAIN toM = {}
      BY <2>1, WhoReplies DEF Calm
    <2>3. toM \in Seq(ReplyFromA \cup ReplyFromQ \cup ReplyFromP)
      BY QueuesTyped DEF Calm
    <2>4. QED
      BY <2>2, <2>3, TailFacts
  <1>4. Stage = "placed" /\ Stage' = "agreed"
    BY <1>1, <1>3 DEF Stage
  <1>5. /\ Deal # NA /\ Deal.stage = "placed" /\ Deal.owner = Lower[req.user]
        /\ Deal.stock = req.stock /\ Deal.op = req.op /\ Deal.lot = req.shares
    BY <1>2, <1>4, DealFields
  <1>6. Deal' = [Deal EXCEPT !.stage = "agreed"]
    <2>1. Deal' = DealNow'
      BY <1>2 DEF Calm, DealIs
    <2>2. QED
      BY <1>1, <1>2, <1>4, <2>1, DealFields DEF DealNow
  <1>7. req.stock \in Listed
    <2>1. offer = QuoteOf(req.stock)
      BY <1>2 DEF Calm, Agreed, QuoteInv, OfferFits, Undisturbed
    <2>2. offer # NA
      <3>1. mpc' \in Programs /\ cur' \in Clients /\ Serve(cur)'
        BY <1>1, <1>2 DEF Calm, DealIs, Programs
      <3>2. offer' # NA
        BY <1>1, <3>1 DEF Serve
      <3>3. QED
        BY <1>1, <3>2
    <2>3. QED
      BY <2>1, <2>2 DEF QuoteOf
  <1>8. req.op = "sell" => req.shares <= Holdings[Lower[req.user]][req.stock]
    <2>1. SUFFICES ASSUME req.op = "sell"
                   PROVE  req.shares <= Holdings[Lower[req.user]][req.stock]
      OBVIOUS
    <2>2. MSellApproved
      BY <1>1, <1>2, <2>1 DEF MBuyApproved, HearsClient, Calm, Agreed, OrderInv, OpFits
    <2>3. HeldBy(Lower[req.user], req.stock) >= req.shares
      <3>1. Covered'
        BY DEF Calm
      <3>2. UNCHANGED portfolio
        BY MainLeavesData
      <3>3. PICK m \in ToP : m.t = "update" /\ toP' = toP \o <<AnswerToP, m>>
        <4>1. UpdateP(pos, Wrap(pos.shares - req.shares), pos.price) \in ToP
          BY <2>2, SellUpdateTyped DEF Calm, Agreed
        <4>2. UpdateP(pos, Wrap(pos.shares - req.shares), pos.price).t = "update"
          BY DEF UpdateP
        <4>3. toP' = toP \o <<AnswerToP,
                       UpdateP(pos, Wrap(pos.shares - req.shares), pos.price)>>
          BY <2>2 DEF MSellApproved
        <4>4. QED
          BY <4>1, <4>2, <4>3
      <3>4. \E i \in DOMAIN toP' : toP'[i].t = "update"
        <4>1. AnswerToP \in ToP
          BY <2>2, HearsClientFacts DEF MSellApproved, Calm, Agreed
        <4>2. QED
          BY <3>3, <4>1, UpdateAppended DEF Calm
      <3>5. HeldBy(Lower[req.user], req.stock)' >= req'.shares
        BY <1>1, <2>1, <3>1, <3>4 DEF Covered
      <3>6. HeldBy(Lower[req.user], req.stock)' = HeldBy(Lower[req.user], req.stock)
        BY <1>1, <3>2 DEF HeldBy
      <3>7. QED
        BY <1>1, <3>5, <3>6
    <2>4. Lower[req.user] \in DOMAIN portfolio /\ req.stock \in Stocks
      BY <1>2 DEF Calm, DealIs
    <2>5. Holdings[Lower[req.user]][req.stock] = HeldBy(Lower[req.user], req.stock)
      BY <2>4 DEF Holdings
    <2>6. HeldBy(Lower[req.user], req.stock) \in Int /\ req.shares \in Int
      <3>1. Lower[req.user] \in Users
        BY <2>4 DEF Calm, Agreed, IndexInv, ServerTypeOK
      <3>2. req.shares \in CInt
        BY <1>2, OrderTyped DEF Calm, Agreed
      <3>3. QED
        BY <2>4, <3>1, <3>2, HeldByInt DEF Calm, Agreed, IndexInv, CInt
    <2>7. QED
      BY <2>3, <2>5, <2>6
  <1>9. UNCHANGED <<Holdings, Clock>>
    BY <1>1, MainLeavesData, QuietClock
  <1>10. QED
    BY <1>5, <1>6, <1>7, <1>8, <1>9 DEF Broker!Agree, Broker!At, Broker!Listed,
       Broker!Covered

(* M is done with the order. *)
LEMMA TickMovesClock ==
  ASSUME Calm, toQ = <<>>, UNCHANGED priceIndex, NEW r,
         toQ' = Append(toQ, [t |-> "update", stock |-> r])
  PROVE  Clock' = [s \in Listed |-> IF s = r THEN (Clock[s] + 1) % Len(Prices[s])
                                             ELSE Clock[s]]
  <1>1. PICK m : m = [t |-> "update", stock |-> r]
    OBVIOUS
  <1>2. m.t = "update" /\ m.stock = r
    BY <1>1
  <1>3. DOMAIN toQ = {} /\ DOMAIN toQ' = {1} /\ toQ'[1] = m
    <2>1. toQ' = <<m>>
      BY <1>1
    <2>2. QED
      BY <2>1
  <1>4. \A s \in Listed : Ticks(s) = {} /\ Ticks(s)' = IF s = r THEN {1} ELSE {}
    BY <1>2, <1>3 DEF Ticks
  <1>5. ASSUME NEW s \in Listed
        PROVE  Clock'[s] = IF s = r THEN (Clock[s] + 1) % Len(Prices[s]) ELSE Clock[s]
    <2>1. PICK k : k = priceIndex[s]
      OBVIOUS
    <2>2. PICK n : n = Len(Prices[s])
      OBVIOUS
    <2>3. k \in Nat /\ n \in Nat \ {0} /\ k < n
      BY <2>1, <2>2, PriceIndexFacts
    <2>4. (k + 0) % n = k
      BY <2>3, NextIndexIs
    <2>5. Cardinality(Ticks(s)) = 0
      BY <1>4, FS_EmptySet
    <2>6. Clock[s] = k
      BY <2>1, <2>2, <2>4, <2>5 DEF Clock
    <2>7. Cardinality(Ticks(s)') = IF s = r THEN 1 ELSE 0
      BY <1>4, FS_EmptySet, FS_Singleton
    <2>8. Clock'[s] = (k + Cardinality(Ticks(s)')) % n
      BY <2>1, <2>2 DEF Clock
    <2>9. QED
      BY <2>2, <2>4, <2>6, <2>7, <2>8
  <1>6. Clock' = [s \in Listed |-> Clock'[s]]
    BY DEF Clock
  <1>7. QED
    BY <1>5, <1>6

LEMMA ClosesOrder ==
  ASSUME Calm, Calm', MainStep,
         MBuyDenied \/ MSellDenied \/ MSellRefused \/ MSellUnknown \/ MResult
  PROVE  Broker!Close
  <1>1. /\ mpc \in {"buy_answer", "sell_answer", "sell_held", "update"} /\ mpc' = "poll"
        /\ mpc = "update" => MResult
        /\ MResult => toM # <<>>
    BY DEF MBuyDenied, MSellDenied, MSellRefused, MSellUnknown, MResult, HearsClient,
       Hears, Return
  <1>2. mpc \in Trading /\ mpc \in Trading \ {"offer"} /\ mpc' \notin Trading
    BY <1>1 DEF Trading
  <1>3. Stage \in {"placed", "filled"}
    BY <1>1 DEF Stage
  <1>4. Deal' = NA
    BY <1>2 DEF Calm, DealIs
  <1>5. Deal # NA /\ Deal.stage \in {"placed", "filled"} /\ Deal.stock = req.stock
    BY <1>2, <1>3, DealFields
  <1>6. toQ = <<>> /\ offer = QuoteOf(req.stock)
    BY <1>2 DEF Calm, Agreed, QuoteInv, OfferFits, Undisturbed
  <1>7. Clock' = [s \in Listed |-> IF s = req.stock
                    THEN (Clock[s] + 1) % Len(Prices[s]) ELSE Clock[s]]
    <2>1. CASE MSellUnknown
      <3>1. offer = NA /\ UNCHANGED toQ
        BY <2>1 DEF MSellUnknown
      <3>2. req.stock \notin Listed
        <4>1. SUFFICES ASSUME req.stock \in Listed PROVE FALSE
          OBVIOUS
        <4>2. CurrentPrice(req.stock) \in Int
          BY <4>1, CurrentPriceTyped DEF Calm, Agreed, IndexInv
        <4>3. QED
          BY <1>6, <3>1, <4>1, <4>2, NAAssumption DEF QuoteOf
      <3>3. UNCHANGED Clock
        BY <3>1, MainLeavesData, QuietClock
      <3>4. Clock = [s \in Listed |-> Clock[s]]
        BY DEF Clock
      <3>5. QED
        BY <3>2, <3>3, <3>4
    <2>2. CASE MBuyDenied \/ MSellDenied \/ MSellRefused \/ MResult
      <3>1. PICK r : r = req.stock
        OBVIOUS
      <3>2. toQ' = Append(toQ, [t |-> "update", stock |-> r])
        BY <2>2, <3>1 DEF MBuyDenied, MSellDenied, MSellRefused, MResult, Tick, ToQ
      <3>3. UNCHANGED priceIndex
        BY MainLeavesData
      <3>4. Clock' = [s \in Listed |-> IF s = r THEN (Clock[s] + 1) % Len(Prices[s])
                                                ELSE Clock[s]]
        BY <1>6, <3>2, <3>3, TickMovesClock
      <3>5. QED
        BY <3>1, <3>4
    <2>3. QED
      BY <2>1, <2>2
  <1>8. UNCHANGED Holdings
    BY MainLeavesData
  <1>9. Clock' = [s \in Listed |-> IF s = Deal.stock
                    THEN (Clock[s] + 1) % [q \in Listed |-> Len(Prices[q])][s]
                    ELSE Clock[s]]
    BY <1>5, <1>7
  <1>10. QED
    BY <1>4, <1>5, <1>8, <1>9 DEF Broker!Close, Broker!At, Broker!Listed

LEMMA MainRefines ==
  ASSUME OrderlyInstance, Calm, Calm', MainStep
  PROVE  [Broker!Next]_Broker!vars
  <1>1. CASE MAuth \/ MGain \/ MQuoteReply \/ MPortfolio
    BY <1>1, RequestStutters
  <1>2. CASE \/ MBuyOffer \/ MSellQuoted \/ MSellChecked \/ MSellPass \/ MSellOffer
             \/ MBuyUpdate
    BY <1>2, OrderStutters
  <1>3. CASE MBuyApproved \/ MSellApproved
    BY <1>3, AgreesOrder DEF Broker!Next
  <1>4. CASE MBuyDenied \/ MSellDenied \/ MSellRefused \/ MSellUnknown \/ MResult
    BY <1>4, ClosesOrder DEF Broker!Next
  <1>5. ~(MBuyThrows \/ MSigPipe \/ MMisread)
    BY DEF MBuyThrows, MSigPipe, MMisread, Calm, Undisturbed, Lost
  <1>6. ~MBuyNobody
    <2>1. SUFFICES ASSUME MBuyNobody PROVE FALSE
      OBVIOUS
    <2>2. cpc[cur] = "gone"
      BY <2>1, BuyerIsKnown DEF Calm
    <2>3. mpc \in Trading
      BY <2>1 DEF MBuyNobody, Hears, Trading
    <2>4. cur \in Clients
      BY <2>3 DEF Calm, DealIs
    <2>5. QED
      BY <2>2, <2>4 DEF Calm, Undisturbed
  <1>7. QED
    BY <1>1, <1>2, <1>3, <1>4, <1>5, <1>6 DEF MainStep

----------------------------------------------------------------------------
(* The step of every program is a step of the Brokerage, or none.           *)
LEMMA NextRefines ==
  ASSUME OrderlyInstance, Calm, Calm', [Next]_vars
  PROVE  [Broker!Next]_Broker!vars
  <1>1. CASE AuthStep
    BY <1>1, AuthStutters
  <1>2. CASE QuoteStep
    <2>1. CASE QUpdate
      BY <1>2, <2>1, MovesOn
    <2>2. CASE QQuote \/ QQuoteAll
      BY <1>2, <2>2, QuoteStutters
    <2>3. QED
      BY <1>2, <2>1, <2>2 DEF QuoteStep
  <1>3. CASE PortfolioStep
    BY <1>3, PortfolioRefines
  <1>4. CASE MainStep
    BY <1>4, MainRefines
  <1>5. ASSUME NEW c \in Clients, ServeStep(c)
        PROVE  [Broker!Next]_Broker!vars
    BY <1>5, ServeRefines
  <1>6. ASSUME NEW c \in Clients, ClientStep(c)
        PROVE  [Broker!Next]_Broker!vars
    BY <1>6, ClientStutters
  <1>7. CASE UNCHANGED vars
    <2>1. /\ UNCHANGED <<portfolio, priceIndex, toQ>>
          /\ UNCHANGED <<mpc, cur, req>> /\ UNCHANGED toM
      BY <1>7 DEF vars, wireVars, pVars, mVars
    <2>2. QED
      BY <2>1, HoldingsSame, QuietClock, SameDeal, Stutters
  <1>8. QED
    BY <1>1, <1>2, <1>3, <1>4, <1>5, <1>6, <1>7 DEF Next

LEMMA InitRefines ==
  ASSUME Init
  PROVE  Broker!Init
  <1>1. Deal = NA
    BY DEF Init, MInit, Deal
  <1>2. Holdings = [u \in DOMAIN Portfolios |-> [s \in Stocks |->
                      SharesIn(Portfolios[u], s)]]
    BY DEF Init, PInit, Holdings, HeldBy
  <1>3. Clock = [s \in Listed |-> 0]
    <2>1. toQ = <<>> /\ priceIndex = [s \in Listed |-> 0]
      BY DEF Init, WireInit, QInit
    <2>2. ASSUME NEW s \in Listed
          PROVE  (priceIndex[s] + Cardinality(Ticks(s))) % Len(Prices[s]) = 0
      <3>1. Ticks(s) = {}
        BY <2>1 DEF Ticks
      <3>2. Cardinality(Ticks(s)) = 0
        BY <3>1, FS_EmptySet
      <3>3. PICK n : n = Len(Prices[s])
        OBVIOUS
      <3>4. n \in Nat \ {0}
        BY <3>3, PricesAssumption, EmptySeq, LenProperties
      <3>5. (0 + 0) % n = 0
        BY <3>4
      <3>6. QED
        BY <2>1, <3>2, <3>3, <3>5
    <2>3. QED
      BY <2>2 DEF Clock
  <1>4. QED
    BY <1>1, <1>2, <1>3 DEF Broker!Init, Broker!Listed

(* Where people type positive numbers and Y or N and clients stay, the five *)
(* programs together do what a Brokerage does, whatever the number of       *)
(* clients and the order in which their messages arrive: one order at a     *)
(* time, every sale covered, every agreed order filled once and exactly,    *)
(* time moved by one price per order (operationType, updateStock and        *)
(* updatePrice).                                                            *)
THEOREM ExchangeIsABrokerage ==
  ASSUME OrderlyInstance
  PROVE  Spec => ImplementsBrokerage
  <1>1. Init => Broker!Init
    BY InitRefines
  <1>2. Calm /\ Calm' /\ [Next]_vars => [Broker!Next]_Broker!vars
    BY NextRefines
  <1>3. Spec => []Calm
    BY CalmInvariant
  <1>4. QED
    BY <1>1, <1>2, <1>3, PTL DEF Spec, ImplementsBrokerage, Broker!Spec

----------------------------------------------------------------------------
(* The packaged release implements the exchange.                            *)
(*                                                                          *)
(* What WithoutBuyDenied computes of the first n messages of a queue.  The  *)
(* lemmas on it look at the shortest queue that would refute them.          *)
KeptUpTo(f, q, n) ==
  f = [k \in 0 .. n |-> IF k = 0 THEN <<>>
                        ELSE IF IsBuyDenied(q[k]) THEN f[k - 1]
                        ELSE Append(f[k - 1], q[k])]

LEMMA KeptExists ==
  ASSUME NEW q
  PROVE  \A n \in Nat : \E f : KeptUpTo(f, q, n)
  <1> DEFINE Bad == {n \in Nat : ~ \E f : KeptUpTo(f, q, n)}
  <1>1. SUFFICES ASSUME Bad # {} PROVE FALSE
    OBVIOUS
  <1>2. PICK n \in Bad : \A k \in Bad : n =< k
    BY <1>1, LeastExists
  <1>3. n # 0
    <2> DEFINE f == [k \in 0 .. 0 |-> <<>>]
    <2>1. KeptUpTo(f, q, 0)
      BY DEF KeptUpTo
    <2>2. QED
      BY <1>2, <2>1
  <1>4. n - 1 \in Nat /\ n - 1 \notin Bad
    BY <1>2, <1>3
  <1>5. PICK f : KeptUpTo(f, q, n - 1)
    BY <1>4
  <1> DEFINE last == IF IsBuyDenied(q[n]) THEN f[n - 1] ELSE Append(f[n - 1], q[n])
             g == [k \in 0 .. n |-> IF k = n THEN last ELSE f[k]]
  <1>6. ASSUME NEW k \in 0 .. n
        PROVE  g[k] = IF k = 0 THEN <<>>
                      ELSE IF IsBuyDenied(q[k]) THEN g[k - 1]
                      ELSE Append(g[k - 1], q[k])
    <2>1. CASE k = n
      BY <1>3, <1>4, <2>1
    <2>2. CASE k # n
      <3>1. k \in 0 .. n - 1 /\ g[k] = f[k]
        BY <1>4, <2>2
      <3>2. f[k] = IF k = 0 THEN <<>>
                   ELSE IF IsBuyDenied(q[k]) THEN f[k - 1]
                   ELSE Append(f[k - 1], q[k])
        BY <1>5, <3>1 DEF KeptUpTo
      <3>3. k # 0 => k - 1 \in 0 .. n - 1 /\ g[k - 1] = f[k - 1]
        BY <1>4, <3>1
      <3> HIDE DEF g
      <3>4. QED
        BY <3>1, <3>2, <3>3
    <2>3. QED
      BY <2>1, <2>2
  <1>7. KeptUpTo(g, q, n)
    BY <1>6 DEF KeptUpTo
  <1>8. QED
    BY <1>2, <1>7

LEMMA KeptStep ==
  ASSUME NEW q, NEW n \in Nat, NEW f, KeptUpTo(f, q, n)
  PROVE  /\ f[0] = <<>>
         /\ \A k \in 1 .. n : f[k] = IF IsBuyDenied(q[k]) THEN f[k - 1]
                                     ELSE Append(f[k - 1], q[k])
  <1>1. 0 \in 0 .. n
    OBVIOUS
  <1>2. f[0] = <<>>
    BY <1>1 DEF KeptUpTo
  <1>3. ASSUME NEW k \in 1 .. n
        PROVE  f[k] = IF IsBuyDenied(q[k]) THEN f[k - 1] ELSE Append(f[k - 1], q[k])
    <2>1. k \in 0 .. n /\ k # 0
      OBVIOUS
    <2>2. QED
      BY <2>1 DEF KeptUpTo
  <1>4. QED
    BY <1>2, <1>3

LEMMA KeptAgree ==
  ASSUME NEW q, NEW r, NEW m \in Nat, NEW n \in Nat, m <= n,
         \A i \in 1 .. m : q[i] = r[i],
         NEW f, KeptUpTo(f, q, m), NEW g, KeptUpTo(g, r, n)
  PROVE  \A k \in 0 .. m : f[k] = g[k]
  <1> DEFINE Bad == {k \in 0 .. m : f[k] # g[k]}
  <1>1. SUFFICES ASSUME Bad # {} PROVE FALSE
    OBVIOUS
  <1>2. PICK k \in Bad : \A j \in Bad : k =< j
    <2>1. Bad \in SUBSET Nat
      OBVIOUS
    <2>2. QED
      BY <1>1, <2>1, LeastExists
  <1>3. k \in 0 .. n /\ f[0] = <<>> /\ g[0] = <<>>
    BY <1>2 DEF KeptUpTo
  <1>4. k - 1 \in 0 .. m /\ k - 1 \in 0 .. n /\ k - 1 \notin Bad
    BY <1>2, <1>3
  <1>5. f[k] = IF IsBuyDenied(q[k]) THEN f[k - 1] ELSE Append(f[k - 1], q[k])
    BY <1>2, <1>3 DEF KeptUpTo
  <1>6. g[k] = IF IsBuyDenied(r[k]) THEN g[k - 1] ELSE Append(g[k - 1], r[k])
    BY <1>2, <1>3 DEF KeptUpTo
  <1>7. q[k] = r[k]
    BY <1>2, <1>3
  <1>8. QED
    BY <1>2, <1>4, <1>5, <1>6, <1>7

LEMMA WithoutIs ==
  ASSUME NEW S, NEW q \in Seq(S), NEW f, KeptUpTo(f, q, Len(q))
  PROVE  WithoutBuyDenied(q) = f[Len(q)]
  <1> DEFINE g == CHOOSE g : g = [k \in 0 .. Len(q) |->
                    IF k = 0 THEN <<>>
                    ELSE IF IsBuyDenied(q[k]) THEN g[k - 1]
                    ELSE Append(g[k - 1], q[k])]
  <1>1. Len(q) \in Nat
    BY LenProperties
  <1>2. KeptUpTo(g, q, Len(q))
    BY <1>1, KeptExists DEF KeptUpTo
  <1>3. WithoutBuyDenied(q) = g[Len(q)]
    BY DEF WithoutBuyDenied
  <1> HIDE DEF g
  <1>4. \A k \in 0 .. Len(q) : f[k] = g[k]
    BY <1>1, <1>2, KeptAgree
  <1>5. QED
    BY <1>1, <1>3, <1>4

LEMMA KeptSeq ==
  ASSUME NEW S, NEW q \in Seq(S), NEW f, KeptUpTo(f, q, Len(q))
  PROVE  \A k \in 0 .. Len(q) : f[k] \in Seq(S)
  <1> DEFINE Bad == {k \in 0 .. Len(q) : f[k] \notin Seq(S)}
  <1>1. SUFFICES ASSUME Bad # {} PROVE FALSE
    OBVIOUS
  <1>2. Len(q) \in Nat /\ \A i \in 1 .. Len(q) : q[i] \in S
    BY LenProperties, ElementOfSeq
  <1>3. PICK k \in Bad : \A j \in Bad : k =< j
    <2>1. Bad \in SUBSET Nat
      OBVIOUS
    <2>2. QED
      BY <1>1, <2>1, LeastExists
  <1>4. k # 0
    BY <1>2, <1>3 DEF KeptUpTo
  <1>5. k - 1 \in 0 .. Len(q) /\ k - 1 \notin Bad /\ q[k] \in S
    BY <1>2, <1>3, <1>4
  <1>6. f[k] = IF IsBuyDenied(q[k]) THEN f[k - 1] ELSE Append(f[k - 1], q[k])
    BY <1>2, <1>3, <1>4 DEF KeptUpTo
  <1>7. QED
    <2>1. f[k - 1] \in Seq(S)
      BY <1>5
    <2>2. f[k] \in Seq(S)
      BY <1>5, <1>6, <2>1, AppendProperties
    <2>3. QED
      BY <1>3, <2>2

LEMMA WithoutEmpty == WithoutBuyDenied(<<>>) = <<>>
  <1>1. <<>> \in Seq({}) /\ Len(<<>>) = 0
    BY EmptySeq
  <1>2. PICK f : KeptUpTo(f, <<>>, 0)
    BY KeptExists
  <1>3. f[0] = <<>>
    BY <1>2 DEF KeptUpTo
  <1>4. QED
    BY <1>1, <1>2, <1>3, WithoutIs

(* The last message goes last or not at all.                                *)
LEMMA WithoutAppend ==
  ASSUME NEW S, NEW q \in Seq(S), NEW m \in S
  PROVE  WithoutBuyDenied(Append(q, m))
           = IF IsBuyDenied(m) THEN WithoutBuyDenied(q)
                               ELSE Append(WithoutBuyDenied(q), m)
  <1> DEFINE r == Append(q, m)
             n == Len(q)
  <1>1. /\ n \in Nat /\ r \in Seq(S) /\ Len(r) = n + 1 /\ r[n + 1] = m
        /\ n + 1 \in Nat /\ n + 1 \in 1 .. n + 1 /\ (n + 1) - 1 = n
        /\ \A i \in 1 .. n : r[i] = q[i]
    BY LenProperties, AppendProperties
  <1> HIDE DEF r, n
  <1>2. PICK f : KeptUpTo(f, q, n)
    BY <1>1, KeptExists
  <1>3. PICK g : KeptUpTo(g, r, n + 1)
    BY <1>1, KeptExists
  <1>4. f[n] = g[n]
    BY <1>1, <1>2, <1>3, KeptAgree
  <1>5. g[n + 1] = IF IsBuyDenied(m) THEN g[n] ELSE Append(g[n], m)
    <2>1. g[n + 1] = IF IsBuyDenied(r[n + 1]) THEN g[(n + 1) - 1]
                     ELSE Append(g[(n + 1) - 1], r[n + 1])
      BY <1>1, <1>3, KeptStep
    <2>2. QED
      BY <1>1, <2>1
  <1>6. WithoutBuyDenied(q) = f[n] /\ WithoutBuyDenied(r) = g[n + 1]
    BY <1>1, <1>2, <1>3, WithoutIs DEF n
  <1>7. QED
    BY <1>4, <1>5, <1>6 DEF r

LEMMA WithoutSeq ==
  ASSUME NEW S, NEW q \in Seq(S)
  PROVE  WithoutBuyDenied(q) \in Seq(S)
  <1>1. Len(q) \in Nat
    BY LenProperties
  <1>2. PICK f : KeptUpTo(f, q, Len(q))
    BY <1>1, KeptExists
  <1>3. QED
    BY <1>1, <1>2, WithoutIs, KeptSeq

LEMMA ConsAppend ==
  ASSUME NEW S, NEW s \in Seq(S), NEW a \in S, NEW b \in S
  PROVE  Append(<<a>> \o s, b) = <<a>> \o Append(s, b)
  <1>1. <<a>> \in Seq(S) /\ <<b>> \in Seq(S) /\ <<a>> \o s \in Seq(S)
    BY ConcatProperties
  <1>2. Append(<<a>> \o s, b) = (<<a>> \o s) \o <<b>> /\ Append(s, b) = s \o <<b>>
    BY <1>1, AppendIsConcat
  <1>3. QED
    BY <1>1, <1>2, ConcatAssociative

(* The head of a queue goes first or not at all.                            *)
LEMMA WithoutHead ==
  ASSUME NEW S, NEW q \in Seq(S), q # <<>>
  PROVE  WithoutBuyDenied(q)
           = IF IsBuyDenied(Head(q)) THEN WithoutBuyDenied(Tail(q))
             ELSE <<Head(q)>> \o WithoutBuyDenied(Tail(q))
  <1> DEFINE t == Tail(q)
             n == Len(t)
             h == Head(q)
  <1>1. /\ n \in Nat /\ n + 1 \in Nat /\ t \in Seq(S) /\ Len(q) = n + 1 /\ q[1] = h /\ h \in S
        /\ \A i \in 1 .. n : t[i] = q[i + 1] /\ t[i] \in S
    BY LenProperties, HeadTailProperties, ElementOfSeq
  <1> HIDE DEF t, n, h
  <1>2. PICK f : KeptUpTo(f, q, n + 1)
    BY <1>1, KeptExists
  <1>3. PICK g : KeptUpTo(g, t, n)
    BY <1>1, KeptExists
  <1>4. \A k \in 0 .. n : g[k] \in Seq(S)
    BY <1>1, <1>3, KeptSeq DEF n
  <1> DEFINE WithHead(s) == IF IsBuyDenied(h) THEN s ELSE <<h>> \o s
             Bad == {k \in 0 .. n : f[k + 1] # WithHead(g[k])}
  <1>5. ASSUME Bad # {} PROVE FALSE
    <2>1. PICK k \in Bad : \A j \in Bad : k =< j
      <3>1. Bad \in SUBSET Nat
        OBVIOUS
      <3>2. QED
        BY <1>5, <3>1, LeastExists
    <2>2. f[0] = <<>> /\ g[0] = <<>>
      BY <1>1, <1>2, <1>3, KeptStep
    <2>3. f[1] = IF IsBuyDenied(h) THEN f[0] ELSE Append(f[0], h)
      <3>1. 1 \in 1 .. n + 1 /\ 1 - 1 = 0
        BY <1>1
      <3>2. QED
        BY <1>1, <1>2, <3>1, KeptStep
    <2>4. Append(<<>>, h) = <<h>> /\ <<h>> \o <<>> = <<h>>
      <3>1. <<>> \in Seq(S) /\ <<h>> \in Seq(S)
        BY <1>1
      <3>2. QED
        BY <1>1, <3>1, AppendIsConcat, ConcatEmptySeq
    <2>5. k # 0
      <3>1. f[0 + 1] = WithHead(g[0])
        BY <2>2, <2>3, <2>4
      <3>2. QED
        BY <2>1, <3>1
    <2>6. /\ k \in 1 .. n /\ k - 1 \in 0 .. n /\ k - 1 \notin Bad
          /\ k + 1 \in 1 .. n + 1 /\ t[k] = q[k + 1]
      BY <1>1, <2>1, <2>5
    <2>7. f[k + 1] = IF IsBuyDenied(t[k]) THEN f[k] ELSE Append(f[k], t[k])
      <3>1. (k + 1) - 1 = k
        BY <1>1, <2>6
      <3>2. QED
        BY <1>1, <1>2, <2>6, <3>1, KeptStep
    <2>8. g[k] = IF IsBuyDenied(t[k]) THEN g[k - 1] ELSE Append(g[k - 1], t[k])
      BY <1>1, <1>3, <2>6, KeptStep
    <2>9. f[k] = WithHead(g[k - 1])
      BY <1>1, <2>6
    <2>10. g[k - 1] \in Seq(S) /\ t[k] \in S
      BY <1>1, <1>4, <2>6
    <2>11. Append(<<h>> \o g[k - 1], t[k]) = <<h>> \o Append(g[k - 1], t[k])
      <3>1. PICK s, b : s = g[k - 1] /\ b = t[k]
        OBVIOUS
      <3>2. s \in Seq(S) /\ b \in S /\ h \in S
        BY <1>1, <2>10, <3>1
      <3>3. QED
        BY <3>1, <3>2, ConsAppend
    <2>12. f[k + 1] = WithHead(g[k])
      BY <2>7, <2>8, <2>9, <2>11
    <2>13. QED
      BY <2>1, <2>12
  <1>6. f[n + 1] = WithHead(g[n])
    <2>1. n \in 0 .. n
      BY <1>1
    <2>2. n \notin Bad
      <3> HIDE DEF Bad
      <3>1. QED
        BY <1>5
    <2>3. QED
      BY <2>1, <2>2
  <1>7. WithoutBuyDenied(q) = f[n + 1] /\ WithoutBuyDenied(t) = g[n]
    BY <1>1, <1>2, <1>3, WithoutIs DEF n
  <1>8. QED
    BY <1>6, <1>7 DEF t, h

(* A message that is kept is what Server P of the other version would take. *)
LEMMA WithoutTaken ==
  ASSUME NEW S, NEW q \in Seq(S), q # <<>>, ~IsBuyDenied(Head(q))
  PROVE  /\ WithoutBuyDenied(q) # <<>>
         /\ Head(WithoutBuyDenied(q)) = Head(q)
         /\ Tail(WithoutBuyDenied(q)) = WithoutBuyDenied(Tail(q))
  <1>1. Head(q) \in S /\ Tail(q) \in Seq(S)
    BY HeadTailProperties
  <1>2. PICK s : s = WithoutBuyDenied(Tail(q))
    OBVIOUS
  <1>3. s \in Seq(S) /\ WithoutBuyDenied(q) = <<Head(q)>> \o s
    BY <1>1, <1>2, WithoutSeq, WithoutHead
  <1>4. PICK c : c = <<Head(q)>> \o s
    OBVIOUS
  <1>5. /\ c \in Seq(S) /\ Len(c) = 1 + Len(s) /\ c[1] = Head(q) /\ Len(s) \in Nat
        /\ \A i \in 1 .. Len(s) : c[i + 1] = s[i]
    <2>1. <<Head(q)>> \in Seq(S) /\ Len(<<Head(q)>>) = 1 /\ Len(s) \in Nat
      BY <1>1, <1>3, LenProperties
    <2>2. /\ c \in Seq(S) /\ Len(c) = 1 + Len(s)
          /\ \A i \in 1 .. 1 + Len(s) : c[i] = IF i <= 1 THEN <<Head(q)>>[i] ELSE s[i - 1]
      BY <1>3, <1>4, <2>1, ConcatProperties
    <2>3. \A i \in 1 .. Len(s) : i + 1 \in 1 .. 1 + Len(s) /\ ~(i + 1 <= 1) /\ (i + 1) - 1 = i
      BY <2>1
    <2>4. QED
      BY <2>1, <2>2, <2>3
  <1>6. c # <<>> /\ Head(c) = Head(q)
    BY <1>5
  <1>7. Tail(c) = s
    <2>1. /\ Tail(c) \in Seq(S) /\ Len(Tail(c)) = Len(s)
          /\ \A i \in 1 .. Len(s) : Tail(c)[i] = s[i]
      BY <1>5, <1>6, HeadTailProperties
    <2>2. QED
      BY <1>3, <2>1, SeqEqual
  <1>8. QED
    BY <1>2, <1>3, <1>4, <1>6, <1>7

----------------------------------------------------------------------------
(* Operators that do not look at the queue of Server P are the same.        *)
LEMMA SameRoundCent ==
  ASSUME NEW p
  PROVE  Other!RoundCent(p) = RoundCent(p)
  BY DEF RoundCent, Other!RoundCent, RoundDiv, Other!RoundDiv

LEMMA SameWrap ==
  ASSUME NEW x
  PROVE  Other!Wrap(x) = Wrap(x)
  BY DEF Wrap, Other!Wrap

LEMMA SameAvg ==
  ASSUME NEW n, NEW p
  PROVE  Other!avgBuyPrice(n, p) = avgBuyPrice(n, p)
  BY DEF avgBuyPrice, Other!avgBuyPrice, Ratio, Other!Ratio, RoundDiv,
         Other!RoundDiv

LEMMA SameAvgNew ==
  ASSUME NEW n, NEW p, NEW k, NEW a
  PROVE  Other!avgBuyPriceNew(n, p, k, a) = avgBuyPriceNew(n, p, k, a)
  BY SameAvg
     DEF avgBuyPriceNew, Other!avgBuyPriceNew, Ratio, Other!Ratio, RoundDiv,
         Other!RoundDiv, Wrap, Other!Wrap

LEMMA SameTotal ==
  ASSUME NEW t, NEW n
  PROVE  Other!Total(t, n) = Total(t, n)
  BY DEF Total, Other!Total, Plus, Other!Plus

LEMMA SameProfit ==
  ASSUME NEW q, NEW held
  PROVE  Other!profitCalc(q, held) = profitCalc(q, held)
  BY SameTotal DEF profitCalc, Other!profitCalc

LEMMA SameCurrentPrice ==
  ASSUME NEW s
  PROVE  Other!CurrentPrice(s) = CurrentPrice(s)
  BY SameRoundCent DEF CurrentPrice, Other!CurrentPrice

LEMMA SameQuoteOf ==
  ASSUME NEW s
  PROVE  Other!QuoteOf(s) = QuoteOf(s)
  BY SameCurrentPrice DEF QuoteOf, Other!QuoteOf, Listed, Other!Listed

LEMMA SameNextIndex ==
  ASSUME NEW s
  PROVE  Other!NextIndex(s) = NextIndex(s)
  BY DEF NextIndex, Other!NextIndex

LEMMA SameMatch ==
  ASSUME NEW u, NEW code
  PROVE  Other!matchCredentials(u, code) = matchCredentials(u, code)
  BY DEF matchCredentials, Other!matchCredentials

LEMMA SameFirstOf ==
  ASSUME NEW u, NEW s
  PROVE  Other!FirstOf(u, s) = FirstOf(u, s)
  BY DEF FirstOf, Other!FirstOf, SelectInSeq, Other!SelectInSeq, Min, Other!Min

LEMMA SameLastOf ==
  ASSUME NEW u, NEW s
  PROVE  Other!LastOf(u, s) = LastOf(u, s)
  BY DEF LastOf, Other!LastOf, SelectLastInSeq, Other!SelectLastInSeq, Max,
         Other!Max

LEMMA SamePortfolio ==
  ASSUME NEW u
  PROVE  Other!getPortfolio(u) = getPortfolio(u)
  BY SameRoundCent DEF getPortfolio, Other!getPortfolio, Rounded, Other!Rounded

LEMMA SameCheck ==
  ASSUME NEW u, NEW s, NEW n
  PROVE  Other!checkStock(u, s, n) = checkStock(u, s, n)
  BY SameLastOf DEF checkStock, Other!checkStock

LEMMA SameGetStock ==
  ASSUME NEW u, NEW s
  PROVE  Other!getStock(u, s) = getStock(u, s)
  BY SameFirstOf, SameRoundCent DEF getStock, Other!getStock

LEMMA SameStore ==
  ASSUME NEW u, NEW h
  PROVE  Other!Store(u, h) = Store(u, h)
  BY DEF Store, Other!Store

LEMMA SameResult ==
  ASSUME NEW op, NEW m, NEW n
  PROVE  Other!Result(op, m, n) = Result(op, m, n)
  BY DEF Result, Other!Result

LEMMA SameRemoveAt ==
  ASSUME NEW s, NEW i
  PROVE  Other!RemoveAt(s, i) = RemoveAt(s, i)
  BY DEF RemoveAt, Other!RemoveAt

LEMMA SameRetrieve ==
  Other!Retrieve = Retrieve
  BY DEF Retrieve, Other!Retrieve

LEMMA SameAnswerRead ==
  Other!AnswerRead = AnswerRead
  BY DEF AnswerRead, Other!AnswerRead

LEMMA SameAnswerToP ==
  Other!AnswerToP = AnswerToP
  BY SameAnswerRead DEF AnswerToP, Other!AnswerToP

LEMMA SameUpdateP ==
  ASSUME NEW held, NEW n, NEW p
  PROVE  Other!UpdateP(held, n, p) = UpdateP(held, n, p)
  BY DEF UpdateP, Other!UpdateP

LEMMA SameBought ==
  ASSUME NEW held
  PROVE  Other!Bought(held) = Bought(held)
  BY SameUpdateP, SameAvg, SameAvgNew, SameWrap DEF Bought, Other!Bought

LEMMA SameAwaited ==
  Other!Awaited = Awaited
  BY DEF Awaited, Other!Awaited

LEMMA SameHeldBy ==
  ASSUME NEW u, NEW s
  PROVE  Other!HeldBy(u, s) = HeldBy(u, s)
  BY DEF HeldBy, Other!HeldBy, SharesIn, Other!SharesIn, SelectInSeq,
         Other!SelectInSeq, Min, Other!Min

LEMMA SameDeliver ==
  ASSUME NEW c, NEW m
  PROVE  Other!Deliver(c, m) = Deliver(c, m)
  BY DEF Deliver, Other!Deliver

LEMMA SameTakeAll ==
  ASSUME NEW c
  PROVE  Other!TakeAll(c) = TakeAll(c)
  BY DEF TakeAll, Other!TakeAll

LEMMA SameHangUp ==
  ASSUME NEW c
  PROVE  Other!HangUp(c) = HangUp(c)
  BY DEF HangUp, Other!HangUp

LEMMA SameReturn ==
  Other!Return = Return
  BY DEF Return, Other!Return

LEMMA SameToQ ==
  ASSUME NEW m
  PROVE  Other!ToQ(m) = ToQ(m)
  BY DEF ToQ, Other!ToQ

LEMMA SameTick ==
  Other!Tick = Tick
  BY SameToQ DEF Tick, Other!Tick

LEMMA SameReads ==
  ASSUME NEW c, NEW type
  PROVE  Other!Reads(c, type) = Reads(c, type)
  BY SameTakeAll DEF Reads, Other!Reads

LEMMA SameHears ==
  ASSUME NEW pc, NEW type
  PROVE  Other!Hears(pc, type) = Hears(pc, type)
  BY DEF Hears, Other!Hears

LEMMA SameHearsClient ==
  ASSUME NEW pc
  PROVE  Other!HearsClient(pc) = HearsClient(pc)
  BY SameTakeAll DEF HearsClient, Other!HearsClient

LEMMA SameAtSend ==
  Other!AtSend = AtSend
  BY SameAwaited DEF AtSend, Other!AtSend

LEMMA SameWithinBound ==
  ASSUME NEW c, NEW op, NEW s, NEW n
  PROVE  Other!WithinBound(c, op, s, n) = WithinBound(c, op, s, n)
  BY SameHeldBy DEF WithinBound, Other!WithinBound, Range, Other!Range

(* Actions that leave the queue of Server P alone are the same.             *)
LEMMA SameAReply ==
  ASSUME AReply
  PROVE  Other!AReply
  BY SameMatch DEF AReply, Other!AReply, tcpVars, Other!tcpVars

LEMMA SameQQuote ==
  ASSUME QQuote
  PROVE  Other!QQuote
  BY SameQuoteOf
     DEF QQuote, Other!QQuote, tcpVars, Other!tcpVars, QReceives,
         Other!QReceives

LEMMA SameQQuoteAll ==
  ASSUME QQuoteAll
  PROVE  Other!QQuoteAll
  BY SameCurrentPrice
     DEF QQuoteAll, Other!QQuoteAll, tcpVars, Other!tcpVars, QReceives,
         Other!QReceives, Listed, Other!Listed

LEMMA SameQUpdate ==
  ASSUME QUpdate
  PROVE  Other!QUpdate
  BY SameNextIndex
     DEF QUpdate, Other!QUpdate, tcpVars, Other!tcpVars, QReceives,
         Other!QReceives, Listed, Other!Listed

LEMMA SameMLogin ==
  ASSUME NEW c, MLogin(c)
  PROVE  Other!MLogin(c)
  BY SameReads DEF MLogin, Other!MLogin

LEMMA SameMAuth ==
  ASSUME MAuth
  PROVE  Other!MAuth
  BY SameHears, SameDeliver, SameReturn DEF MAuth, Other!MAuth

LEMMA SameMPortfolio ==
  ASSUME MPortfolio
  PROVE  Other!MPortfolio
  BY SameHears, SameToQ DEF MPortfolio, Other!MPortfolio, tcpVars, Other!tcpVars

LEMMA SameMGain ==
  ASSUME MGain
  PROVE  Other!MGain
  BY SameHears, SameDeliver, SameReturn, SameProfit DEF MGain, Other!MGain

LEMMA SameMQuote ==
  ASSUME NEW c, NEW type, MQuote(c, type)
  PROVE  Other!MQuote(c, type)
  BY SameReads, SameToQ DEF MQuote, Other!MQuote

LEMMA SameMQuoteReply ==
  ASSUME MQuoteReply
  PROVE  Other!MQuoteReply
  BY SameHears, SameDeliver, SameReturn DEF MQuoteReply, Other!MQuoteReply

LEMMA SameMTransact ==
  ASSUME NEW c, MTransact(c)
  PROVE  Other!MTransact(c)
  BY SameReads, SameToQ DEF MTransact, Other!MTransact

LEMMA SameMBuyOffer ==
  ASSUME MBuyOffer
  PROVE  Other!MBuyOffer
  BY SameHears, SameDeliver DEF MBuyOffer, Other!MBuyOffer

LEMMA SameMBuyNobody ==
  ASSUME MBuyNobody
  PROVE  Other!MBuyNobody
  BY SameHears, SameReturn DEF MBuyNobody, Other!MBuyNobody, tcpVars, Other!tcpVars

LEMMA SameMBuyThrows ==
  ASSUME MBuyThrows
  PROVE  Other!MBuyThrows
  BY SameHears DEF MBuyThrows, Other!MBuyThrows, tcpVars, Other!tcpVars

LEMMA SameMSellUnknown ==
  ASSUME MSellUnknown
  PROVE  Other!MSellUnknown
  BY SameHears, SameDeliver, SameReturn
     DEF MSellUnknown, Other!MSellUnknown, Verdict, Other!Verdict

LEMMA SameMSellRefused ==
  ASSUME MSellRefused
  PROVE  Other!MSellRefused
  BY SameHears, SameDeliver, SameReturn, SameTick
     DEF MSellRefused, Other!MSellRefused, Verdict, Other!Verdict

LEMMA SameMSellPass ==
  ASSUME MSellPass
  PROVE  Other!MSellPass
  BY SameHears, SameDeliver DEF MSellPass, Other!MSellPass, Verdict, Other!Verdict

LEMMA SameMSellOffer ==
  ASSUME MSellOffer
  PROVE  Other!MSellOffer
  BY SameDeliver DEF MSellOffer, Other!MSellOffer, udpVars, Other!udpVars

LEMMA SameMResult ==
  ASSUME MResult
  PROVE  Other!MResult
  BY SameHears, SameDeliver, SameReturn, SameTick DEF MResult, Other!MResult

LEMMA SameMSigPipe ==
  ASSUME MSigPipe
  PROVE  Other!MSigPipe
  BY SameAtSend DEF MSigPipe, Other!MSigPipe, wireVars, Other!wireVars

LEMMA SameMMisread ==
  ASSUME MMisread
  PROVE  Other!MMisread
  BY SameAwaited DEF MMisread, Other!MMisread, tcpVars, Other!tcpVars

LEMMA SameMClose ==
  ASSUME NEW c, MClose(c)
  PROVE  Other!MClose(c)
  BY DEF MClose, Other!MClose, mVars, Other!mVars, udpVars, Other!udpVars

LEMMA SameCLogin ==
  ASSUME NEW c, CLogin(c)
  PROVE  Other!CLogin(c)
  BY DEF CLogin, Other!CLogin, Sends, Other!Sends, udpVars, Other!udpVars, Goto,
         Other!Goto

LEMMA SameCAuth ==
  ASSUME NEW c, CAuth(c)
  PROVE  Other!CAuth(c)
  BY DEF CAuth, Other!CAuth, Receives, Other!Receives, udpVars, Other!udpVars,
         Goto, Other!Goto

LEMMA SameCAsk ==
  ASSUME NEW c, NEW m, CAsk(c, m)
  PROVE  Other!CAsk(c, m)
  BY DEF CAsk, Other!CAsk, Sends, Other!Sends, udpVars, Other!udpVars, Goto,
         Other!Goto, AtPrompt, Other!AtPrompt

LEMMA SameCShow ==
  ASSUME NEW c, CShow(c)
  PROVE  Other!CShow(c)
  BY DEF CShow, Other!CShow, Receives, Other!Receives, udpVars, Other!udpVars,
         Goto, Other!Goto

LEMMA SameCTrade ==
  ASSUME NEW c, NEW op, NEW s, NEW n, CTrade(c, op, s, n)
  PROVE  Other!CTrade(c, op, s, n)
  BY DEF CTrade, Other!CTrade, Sends, Other!Sends, udpVars, Other!udpVars, Goto,
         Other!Goto, AtPrompt, Other!AtPrompt

LEMMA SameCValid ==
  ASSUME NEW c, CValid(c)
  PROVE  Other!CValid(c)
  BY DEF CValid, Other!CValid, Receives, Other!Receives, udpVars, Other!udpVars,
         Goto, Other!Goto, Prompt, Other!Prompt

LEMMA SameCOffer ==
  ASSUME NEW c, COffer(c)
  PROVE  Other!COffer(c)
  BY DEF COffer, Other!COffer, Receives, Other!Receives, udpVars, Other!udpVars,
         Goto, Other!Goto

LEMMA SameCNoSuchStock ==
  ASSUME NEW c, CNoSuchStock(c)
  PROVE  Other!CNoSuchStock(c)
  BY DEF CNoSuchStock, Other!CNoSuchStock, udpVars, Other!udpVars, Goto,
         Other!Goto, Prompt, Other!Prompt, Answer, Other!Answer

LEMMA SameCAnswer ==
  ASSUME NEW c, NEW text, CAnswer(c, text)
  PROVE  Other!CAnswer(c, text)
  BY DEF CAnswer, Other!CAnswer, Sends, Other!Sends, udpVars, Other!udpVars,
         Goto, Other!Goto, Prompt, Other!Prompt, Answer, Other!Answer

LEMMA SameCResult ==
  ASSUME NEW c, CResult(c)
  PROVE  Other!CResult(c)
  BY DEF CResult, Other!CResult, Receives, Other!Receives, udpVars,
         Other!udpVars, Goto, Other!Goto, Prompt, Other!Prompt

LEMMA SameCLeave ==
  ASSUME NEW c, CLeave(c)
  PROVE  Other!CLeave(c)
  BY SameHangUp DEF CLeave, Other!CLeave, udpVars, Other!udpVars

(* A queue of Server P, whose answers name an operation.                    *)
IsQueue(q) ==
  /\ q \in Seq(Range(q))
  /\ \A i \in DOMAIN q : q[i].t = "answer" => q[i].op \in {"buy", "sell"}

(* M is at a point of a sell only with a sell in hand, and asks a buyer     *)
(* only with a purchase.                                                    *)
InHandFits ==
  /\ mpc \in {"sell_check", "sell_held", "sell_sleep", "sell_answer"} => req.op = "sell"
  /\ mpc = "buy_answer" => req.op = "buy"

RelInv == IsQueue(toP) /\ InHandFits

LEMMA QueueEmpty == IsQueue(<<>>)
  <1>1. <<>> \in Seq(Range(<<>>))
    BY EmptySeq
  <1>2. QED
    BY <1>1 DEF IsQueue

LEMMA QueueSeq ==
  ASSUME NEW S, NEW q \in Seq(S),
         \A i \in DOMAIN q : q[i].t = "answer" => q[i].op \in {"buy", "sell"}
  PROVE  IsQueue(q)
  BY SeqOfRange DEF IsQueue

LEMMA QueueAppend ==
  ASSUME NEW q, IsQueue(q), NEW m, m.t = "answer" => m.op \in {"buy", "sell"}
  PROVE  IsQueue(Append(q, m))
  <1> DEFINE S == Range(q) \cup {m}
  <1>1. q \in Seq(S)
    BY SeqMonotonic DEF IsQueue
  <1>2. /\ Append(q, m) \in Seq(S)
        /\ DOMAIN Append(q, m) = DOMAIN q \cup {Len(q) + 1}
        /\ \A i \in DOMAIN q : Append(q, m)[i] = q[i]
        /\ Append(q, m)[Len(q) + 1] = m
    <2> HIDE DEF S
    <2>1. m \in S
      BY DEF S
    <2>2. QED
      BY <1>1, <2>1, AppendFacts
  <1>3. PICK r : r = Append(q, m)
    OBVIOUS
  <1>4. \A i \in DOMAIN r : r[i].t = "answer" => r[i].op \in {"buy", "sell"}
    BY <1>2, <1>3 DEF IsQueue
  <1>5. r \in Seq(S)
    BY <1>2, <1>3
  <1> HIDE DEF S
  <1>6. QED
    BY <1>3, <1>4, <1>5, QueueSeq

LEMMA QueueTail ==
  ASSUME NEW q, IsQueue(q), q # <<>>
  PROVE  IsQueue(Tail(q))
  <1>1. /\ q \in Seq(Range(q)) /\ Tail(q) \in Seq(Range(q))
        /\ \A i \in DOMAIN Tail(q) : i + 1 \in DOMAIN q /\ Tail(q)[i] = q[i + 1]
    BY TailFacts DEF IsQueue
  <1>2. PICK r : r = Tail(q)
    OBVIOUS
  <1>3. \A i \in DOMAIN r : r[i].t = "answer" => r[i].op \in {"buy", "sell"}
    BY <1>1, <1>2 DEF IsQueue
  <1>4. QED
    BY <1>1, <1>2, <1>3, QueueSeq

LEMMA QueueAppendTwo ==
  ASSUME NEW q, IsQueue(q), NEW a, a.t = "answer" => a.op \in {"buy", "sell"},
         NEW b, b.t = "answer" => b.op \in {"buy", "sell"}
  PROVE  /\ IsQueue(q \o <<a, b>>)
         /\ q \o <<a, b>> = Append(Append(q, a), b)
  <1> DEFINE S == Range(q) \cup {a, b}
  <1>1. q \in Seq(S)
    BY SeqMonotonic DEF IsQueue
  <1>2. q \o <<a, b>> = Append(Append(q, a), b)
    <2>1. a \in S /\ b \in S
      OBVIOUS
    <2> HIDE DEF S
    <2>2. QED
      BY <1>1, <2>1, AppendTwo
  <1>3. IsQueue(Append(q, a))
    BY QueueAppend
  <1>4. IsQueue(Append(Append(q, a), b))
    BY <1>3, QueueAppend
  <1>5. QED
    BY <1>2, <1>4

(* What the queue loses and gets, in a queue without N;buy.                 *)
LEMMA OtherTakes ==
  ASSUME NEW q, IsQueue(q), q # <<>>
  PROVE  IF IsBuyDenied(Head(q))
           THEN WithoutBuyDenied(Tail(q)) = WithoutBuyDenied(q)
           ELSE /\ WithoutBuyDenied(q) # <<>>
                /\ Head(WithoutBuyDenied(q)) = Head(q)
                /\ Tail(WithoutBuyDenied(q)) = WithoutBuyDenied(Tail(q))
  BY WithoutHead, WithoutTaken DEF IsQueue

LEMMA OtherGets ==
  ASSUME NEW q, IsQueue(q), NEW m
  PROVE  WithoutBuyDenied(Append(q, m))
           = IF IsBuyDenied(m) THEN WithoutBuyDenied(q)
                               ELSE Append(WithoutBuyDenied(q), m)
  <1> DEFINE S == Range(q) \cup {m}
  <1>1. q \in Seq(S)
    BY SeqMonotonic DEF IsQueue
  <1>2. m \in S
    OBVIOUS
  <1> HIDE DEF S
  <1>3. QED
    BY <1>1, <1>2, WithoutAppend

LEMMA OtherGetsTwo ==
  ASSUME NEW q, IsQueue(q), NEW a, a.t = "answer" => a.op \in {"buy", "sell"},
         ~IsBuyDenied(a), NEW b, b.t # "answer"
  PROVE  WithoutBuyDenied(q \o <<a, b>>) = WithoutBuyDenied(q) \o <<a, b>>
  <1>1. q \o <<a, b>> = Append(Append(q, a), b) /\ IsQueue(Append(q, a))
    BY QueueAppend, QueueAppendTwo
  <1>2. PICK w : w = WithoutBuyDenied(q)
    OBVIOUS
  <1>3. WithoutBuyDenied(Append(q, a)) = Append(w, a)
    BY <1>2, OtherGets
  <1>4. PICK r : r = Append(q, a)
    OBVIOUS
  <1>5. WithoutBuyDenied(Append(r, b)) = Append(WithoutBuyDenied(r), b)
    BY <1>1, <1>4, OtherGets DEF IsBuyDenied
  <1>6. w \o <<a, b>> = Append(Append(w, a), b)
    <2> DEFINE S == Range(q) \cup {a, b}
    <2>1. q \in Seq(S)
      BY SeqMonotonic DEF IsQueue
    <2>2. a \in S /\ b \in S
      OBVIOUS
    <2> HIDE DEF S
    <2>3. w \in Seq(S)
      BY <1>2, <2>1, WithoutSeq
    <2>4. QED
      BY <2>2, <2>3, AppendTwo
  <1>7. QED
    BY <1>1, <1>2, <1>3, <1>4, <1>5, <1>6

----------------------------------------------------------------------------
(* Server M appends to the queue.                                           *)
LEMMA SameMPosition ==
  ASSUME RelInv, NEW c, MPosition(c)
  PROVE  Other!MPosition(c)
  <1> DEFINE m == [t |-> "position", user |-> Head(c2m[c]).user]
  <1>1. toP' = Append(toP, m)
    BY DEF MPosition
  <1>2. WithoutBuyDenied(toP') = Append(WithoutBuyDenied(toP), m)
    BY <1>1, OtherGets DEF RelInv, IsBuyDenied
  <1>3. QED
    BY <1>2, SameReads DEF MPosition, Other!MPosition

LEMMA SameMBuyApproved ==
  ASSUME RelInv, MBuyApproved
  PROVE  Other!MBuyApproved
  <1>1. /\ toP' = toP \o <<AnswerToP, Retrieve>>
        /\ AnswerRead # "N" /\ mpc = "buy_answer"
    BY DEF MBuyApproved, HearsClient
  <1>2. PICK a, b : a = AnswerToP /\ b = Retrieve
    OBVIOUS
  <1>3. a.op = "buy" /\ ~IsBuyDenied(a) /\ b.t # "answer"
    BY <1>1, <1>2 DEF RelInv, InHandFits, AnswerToP, Retrieve, IsBuyDenied
  <1>4. WithoutBuyDenied(toP \o <<a, b>>) = WithoutBuyDenied(toP) \o <<a, b>>
    BY <1>3, OtherGetsTwo DEF RelInv
  <1>5. WithoutBuyDenied(toP') = WithoutBuyDenied(toP) \o <<AnswerToP, Retrieve>>
    BY <1>1, <1>2, <1>4
  <1>6. QED
    BY <1>5, SameHearsClient, SameAnswerRead, SameAnswerToP, SameRetrieve
       DEF MBuyApproved, Other!MBuyApproved

LEMMA SameMBuyUpdate ==
  ASSUME RelInv, MBuyUpdate
  PROVE  Other!MBuyUpdate
  <1>1. PICK b : b = Bought(Head(toM))
    OBVIOUS
  <1>2. b.t # "answer"
    BY <1>1 DEF Bought, UpdateP
  <1>3. toP' = Append(toP, b)
    BY <1>1 DEF MBuyUpdate
  <1>4. WithoutBuyDenied(toP') = Append(WithoutBuyDenied(toP), b)
    BY <1>2, <1>3, OtherGets DEF RelInv, IsBuyDenied
  <1>5. QED
    BY <1>1, <1>4, SameHears, SameBought
       DEF MBuyUpdate, Other!MBuyUpdate, tcpVars, Other!tcpVars

LEMMA SameMSellQuoted ==
  ASSUME RelInv, MSellQuoted
  PROVE  Other!MSellQuoted
  <1> DEFINE m == [t |-> "check", user |-> req.user,
                   stock |-> req.stock, shares |-> req.shares]
  <1>1. toP' = Append(toP, m)
    BY DEF MSellQuoted
  <1>2. WithoutBuyDenied(toP') = Append(WithoutBuyDenied(toP), m)
    BY <1>1, OtherGets DEF RelInv, IsBuyDenied
  <1>3. QED
    BY <1>2, SameHears DEF MSellQuoted, Other!MSellQuoted, tcpVars, Other!tcpVars

LEMMA SameMSellChecked ==
  ASSUME RelInv, MSellChecked
  PROVE  Other!MSellChecked
  <1>1. PICK b : b = Retrieve
    OBVIOUS
  <1>2. toP' = Append(toP, b) /\ b.t # "answer"
    BY <1>1 DEF MSellChecked, Retrieve
  <1>3. WithoutBuyDenied(toP') = Append(WithoutBuyDenied(toP), b)
    BY <1>2, OtherGets DEF RelInv, IsBuyDenied
  <1>4. QED
    BY <1>1, <1>3, SameHears, SameRetrieve
       DEF MSellChecked, Other!MSellChecked, tcpVars, Other!tcpVars

LEMMA SameMSellDenied ==
  ASSUME RelInv, MSellDenied
  PROVE  Other!MSellDenied
  <1>1. PICK a : a = AnswerToP
    OBVIOUS
  <1>2. toP' = Append(toP, a) /\ a.op = "sell"
    BY <1>1 DEF MSellDenied, HearsClient, AnswerToP, RelInv, InHandFits
  <1>3. WithoutBuyDenied(toP') = Append(WithoutBuyDenied(toP), a)
    BY <1>2, OtherGets DEF RelInv, IsBuyDenied
  <1>4. QED
    BY <1>1, <1>3, SameHearsClient, SameAnswerRead, SameAnswerToP, SameReturn, SameTick
       DEF MSellDenied, Other!MSellDenied

LEMMA SameMSellApproved ==
  ASSUME RelInv, MSellApproved
  PROVE  Other!MSellApproved
  <1>1. PICK a, b : /\ a = AnswerToP
                    /\ b = UpdateP(pos, Wrap(pos.shares - req.shares), pos.price)
    OBVIOUS
  <1>2. toP' = toP \o <<a, b>> /\ a.op = "sell" /\ b.t # "answer"
    BY <1>1 DEF MSellApproved, HearsClient, AnswerToP, UpdateP, RelInv, InHandFits
  <1>3. WithoutBuyDenied(toP \o <<a, b>>) = WithoutBuyDenied(toP) \o <<a, b>>
    BY <1>2, OtherGetsTwo DEF RelInv, IsBuyDenied
  <1>4. WithoutBuyDenied(toP') = WithoutBuyDenied(toP) \o <<a, b>>
    BY <1>2, <1>3
  <1>5. QED
    BY <1>1, <1>4, SameHearsClient, SameAnswerRead, SameAnswerToP, SameUpdateP, SameWrap
       DEF MSellApproved, Other!MSellApproved

(* What the release sends more is not there to see.                         *)
LEMMA SameRelBuyDenied ==
  ASSUME RelInv, RelBuyDenied
  PROVE  Other!MBuyDenied
  <1>1. PICK a : a = AnswerToP
    OBVIOUS
  <1>2. toP' = Append(toP, a) /\ IsBuyDenied(a)
    BY <1>1
       DEF RelBuyDenied, HearsClient, AnswerToP, RelInv, InHandFits, IsBuyDenied
  <1>3. WithoutBuyDenied(toP') = WithoutBuyDenied(toP)
    BY <1>2, OtherGets DEF RelInv
  <1>4. QED
    BY <1>3, SameHearsClient, SameAnswerRead, SameReturn, SameTick
       DEF RelBuyDenied, Other!MBuyDenied

----------------------------------------------------------------------------
(* Server P takes from the queue.                                           *)
LEMMA OtherReceives ==
  ASSUME RelInv, NEW type, PReceives(type), ~IsBuyDenied(Head(toP))
  PROVE  Other!PReceives(type) /\ Head(WithoutBuyDenied(toP)) = Head(toP)
  BY OtherTakes DEF RelInv, PReceives, Other!PReceives

LEMMA SamePPosition ==
  ASSUME RelInv, PPosition
  PROVE  Other!PPosition
  <1>1. Other!PReceives("position") /\ Head(WithoutBuyDenied(toP)) = Head(toP)
    BY OtherReceives DEF PPosition, PReceives, IsBuyDenied
  <1>2. QED
    BY <1>1, SamePortfolio
       DEF PPosition, Other!PPosition, PReplies, Other!PReplies, tcpVars, Other!tcpVars,
           pVars, Other!pVars

LEMMA SamePCheck ==
  ASSUME RelInv, PCheck
  PROVE  Other!PCheck
  <1>1. Other!PReceives("check") /\ Head(WithoutBuyDenied(toP)) = Head(toP)
    BY OtherReceives DEF PCheck, PReceives, IsBuyDenied
  <1>2. QED
    BY <1>1, SameCheck
       DEF PCheck, Other!PCheck, PReplies, Other!PReplies, tcpVars, Other!tcpVars,
           pVars, Other!pVars

LEMMA SamePRetrieve ==
  ASSUME RelInv, PRetrieve
  PROVE  Other!PRetrieve
  <1>1. Other!PReceives("retrieve") /\ Head(WithoutBuyDenied(toP)) = Head(toP)
    BY OtherReceives DEF PRetrieve, PReceives, IsBuyDenied
  <1>2. QED
    BY <1>1, SameGetStock
       DEF PRetrieve, Other!PRetrieve, PReplies, Other!PReplies, tcpVars, Other!tcpVars,
           pVars, Other!pVars

LEMMA SamePUpdate ==
  ASSUME RelInv
  PROVE  /\ PUpdateNew => Other!PUpdateNew
         /\ PUpdateReplace => Other!PUpdateReplace
         /\ PUpdateRemove => Other!PUpdateRemove
  <1>1. ASSUME PReceives("update")
        PROVE  Other!PReceives("update") /\ Head(WithoutBuyDenied(toP)) = Head(toP)
    BY <1>1, OtherReceives DEF PReceives, IsBuyDenied
  <1>2. ASSUME PUpdateNew PROVE Other!PUpdateNew
    BY <1>1, <1>2, SameStore, SameResult
       DEF PUpdateNew, Other!PUpdateNew, PReplies, Other!PReplies, tcpVars, Other!tcpVars
  <1>3. ASSUME PUpdateReplace PROVE Other!PUpdateReplace
    BY <1>1, <1>3, SameStore, SameResult, SameWrap
       DEF PUpdateReplace, Other!PUpdateReplace, PReplies, Other!PReplies, tcpVars,
           Other!tcpVars
  <1>4. ASSUME PUpdateRemove PROVE Other!PUpdateRemove
    BY <1>1, <1>4, SameStore, SameResult, SameRemoveAt
       DEF PUpdateRemove, Other!PUpdateRemove, PReplies, Other!PReplies, tcpVars,
           Other!tcpVars
  <1>5. QED
    BY <1>2, <1>3, <1>4

(* An answer that gets no reply: N;buy is the one the other version lacks.  *)
LEMMA SameRelAnswer ==
  ASSUME RelInv, RelAnswer
  PROVE  Other!PAnswer \/ WithoutBuyDenied(toP') = WithoutBuyDenied(toP)
  <1>1. /\ toP # <<>> /\ Head(toP).t = "answer" /\ toP' = Tail(toP)
        /\ Head(toP).text \in {"Y", "N"}
    BY DEF RelAnswer, PReceives, RelSilent
  <1>2. CASE IsBuyDenied(Head(toP))
    BY <1>1, <1>2, OtherTakes DEF RelInv
  <1>3. CASE ~IsBuyDenied(Head(toP))
    <2>1. Other!PReceives("answer") /\ Head(WithoutBuyDenied(toP)) = Head(toP)
      BY <1>3, OtherReceives DEF RelAnswer
    <2>2. Head(toP).op \in {"buy", "sell"}
      BY <1>1, TailFacts, LenProperties DEF RelInv, IsQueue
    <2>3. Other!Silent(Head(WithoutBuyDenied(toP)))
      BY <1>1, <1>3, <2>1, <2>2 DEF Other!Silent, IsBuyDenied
    <2>4. QED
      BY <2>1, <2>3 DEF RelAnswer, Other!PAnswer, tcpVars, Other!tcpVars
  <1>4. QED
    BY <1>2, <1>3

LEMMA SameRelFallsOff ==
  ASSUME RelInv, RelFallsOff
  PROVE  Other!PFallsOff
  <1>1. ~IsBuyDenied(Head(toP)) /\ ~Other!Silent(Head(toP))
    BY DEF RelFallsOff, RelSilent, IsBuyDenied, Other!Silent
  <1>2. Other!PReceives("answer") /\ Head(WithoutBuyDenied(toP)) = Head(toP)
    BY <1>1, OtherReceives DEF RelFallsOff
  <1>3. QED
    BY <1>1, <1>2 DEF RelFallsOff, Other!PFallsOff, tcpVars, Other!tcpVars

----------------------------------------------------------------------------
(* RelInv is an invariant of the release.                                   *)
LEMMA InitQueue == Init => RelInv
  BY QueueEmpty DEF Init, WireInit, MInit, RelInv, InHandFits

(* Where M goes with which request in hand.                                 *)
LEMMA ReadFits ==
  ASSUME RelInv, NEW c \in Clients,
         \/ MLogin(c) \/ MPosition(c) \/ MTransact(c) \/ MClose(c)
         \/ \E type \in {"quote", "quoteall"} : MQuote(c, type)
  PROVE  RelInv'
  <1>1. mpc' \notin {"sell_check", "sell_held", "sell_sleep", "sell_answer", "buy_answer"}
    BY DEF MLogin, MPosition, MTransact, MQuote, MClose, mVars
  <1>2. toP' = toP \/ \E m : toP' = Append(toP, m) /\ m.t # "answer"
    <2>1. CASE MPosition(c)
      BY <2>1 DEF MPosition
    <2>2. CASE ~MPosition(c)
      BY <2>2 DEF MLogin, MTransact, MQuote, MClose, udpVars
    <2>3. QED
      BY <2>1, <2>2
  <1>3. IsQueue(toP')
    BY <1>2, QueueAppend DEF RelInv
  <1>4. QED
    BY <1>1, <1>3 DEF RelInv, InHandFits

LEMMA HearingFits ==
  ASSUME RelInv,
         \/ MAuth \/ MPortfolio \/ MGain \/ MQuoteReply \/ MBuyOffer
         \/ MBuyNobody \/ MBuyThrows \/ MSellUnknown \/ MSellRefused
         \/ MSellPass \/ MSellOffer \/ MResult \/ MSigPipe \/ MMisread
  PROVE  RelInv'
  <1>1. toP' = toP
    BY DEF MAuth, MPortfolio, MGain, MQuoteReply, MBuyOffer, MBuyNobody, MBuyThrows,
           MSellUnknown, MSellRefused, MSellPass, MSellOffer, MResult, MSigPipe,
           MMisread, udpVars, wireVars
  <1>2. InHandFits'
    BY DEF RelInv, InHandFits, MAuth, MPortfolio, MGain, MQuoteReply, MBuyOffer,
           MBuyNobody, MBuyThrows, MSellUnknown, MSellRefused, MSellPass, MSellOffer,
           MResult, MSigPipe, MMisread, Hears, Return
  <1>3. QED
    BY <1>1, <1>2 DEF RelInv

LEMMA SendFits ==
  ASSUME RelInv,
         \/ MSellQuoted \/ MSellChecked \/ MSellDenied \/ MSellApproved
         \/ MBuyApproved \/ MBuyUpdate \/ RelBuyDenied
  PROVE  RelInv'
  <1>1. InHandFits'
    BY DEF RelInv, InHandFits, MSellQuoted, MSellChecked, MSellDenied,
           MSellApproved,
           MBuyApproved, MBuyUpdate, RelBuyDenied, Hears, Return
  <1>2. CASE MSellQuoted \/ MSellChecked \/ MBuyUpdate
    <2>1. \E m : toP' = Append(toP, m) /\ m.t # "answer"
      <3>1. \A held : Bought(held).t # "answer"
        BY DEF Bought, UpdateP
      <3>2. Retrieve.t # "answer"
        BY DEF Retrieve
      <3>3. QED
        BY <1>2, <3>1, <3>2 DEF MSellQuoted, MSellChecked, MBuyUpdate
    <2>2. IsQueue(toP')
      BY <2>1, QueueAppend DEF RelInv
    <2>3. QED
      BY <1>1, <2>2 DEF RelInv
  <1>3. CASE MSellDenied \/ RelBuyDenied
    <2>1. AnswerToP.op \in {"buy", "sell"} /\ toP' = Append(toP, AnswerToP)
      BY <1>3
         DEF MSellDenied, RelBuyDenied, HearsClient, AnswerToP, RelInv,
             InHandFits
    <2>2. IsQueue(toP')
      BY <2>1, QueueAppend DEF RelInv
    <2>3. QED
      BY <1>1, <2>2 DEF RelInv
  <1>4. CASE MBuyApproved \/ MSellApproved
    <2>1. \E a, b : /\ toP' = toP \o <<a, b>>
                    /\ a.op \in {"buy", "sell"} /\ b.t # "answer"
      <3>1. AnswerToP.op \in {"buy", "sell"}
        BY <1>4
           DEF MBuyApproved, MSellApproved, HearsClient, AnswerToP, RelInv,
               InHandFits
      <3>2. Retrieve.t # "answer" /\ \A held, n, p : UpdateP(held, n, p).t # "answer"
        BY DEF Retrieve, UpdateP
      <3>3. QED
        BY <1>4, <3>1, <3>2 DEF MBuyApproved, MSellApproved
    <2>2. IsQueue(toP')
      BY <2>1, QueueAppendTwo DEF RelInv
    <2>3. QED
      BY <1>1, <2>2 DEF RelInv
  <1>5. QED
    BY <1>2, <1>3, <1>4

LEMMA ServerMFits ==
  ASSUME RelInv, RelServerM
  PROVE  RelInv'
  BY ReadFits, HearingFits, SendFits
     DEF RelServerM, RelLogin, RelPosition, RelGain, RelQuote, RelTransact,
         RelBuyApproved, RelSellValid, RelSellAnswer, RelResult, RelMisread, RelClose

LEMMA ServerPFits ==
  ASSUME RelInv, RelServerP
  PROVE  RelInv'
  <1>1. toP # <<>> /\ toP' = Tail(toP)
    BY DEF RelServerP, RelGetPortfolio, RelCheckStock, RelGetStock, RelUpdateStock,
           RelAnswer, RelFallsOff, PPosition, PCheck, PRetrieve, PUpdateNew,
           PUpdateReplace, PUpdateRemove, PReceives
  <1>2. UNCHANGED mVars
    BY DEF RelServerP, RelGetPortfolio, RelCheckStock, RelGetStock, RelUpdateStock,
           RelAnswer, RelFallsOff
  <1>3. IsQueue(toP')
    BY <1>1, QueueTail DEF RelInv
  <1>4. QED
    BY <1>2, <1>3 DEF RelInv, InHandFits, mVars

LEMMA ElseFits ==
  ASSUME RelInv, RelServerQ \/ RelServerA \/ \E c \in Clients : RelClient(c)
  PROVE  RelInv'
  <1>1. UNCHANGED mVars
    BY DEF RelServerQ, RelGetQuote, RelUpdatePrice, RelServerA, RelClient,
           RelClientLogin, RelClientAsks, RelClientShows, RelTransactCommand,
           RelParseTransact, RelClientLeaves
  <1>2. CASE RelServerQ \/ RelServerA
    <2>1. toP' = toP
      BY <1>2 DEF RelServerQ, RelGetQuote, RelUpdatePrice, RelServerA, QQuote,
                  QQuoteAll, QUpdate, AReply
    <2>2. QED
      BY <1>1, <2>1 DEF RelInv, InHandFits, mVars
  <1>3. ASSUME NEW c \in Clients, RelClient(c) PROVE RelInv'
    <2>1. toP' = toP
      BY <1>3 DEF RelClient, RelClientLogin, RelClientAsks, RelClientShows,
           RelTransactCommand, RelParseTransact, RelClientLeaves, CLogin, CAuth, CAsk,
           CShow, CTrade, CValid, CResult, COffer, CNoSuchStock, CAnswer, CLeave, Sends,
           Receives, udpVars
    <2>2. QED
      BY <1>1, <2>1 DEF RelInv, InHandFits, mVars
  <1>4. QED
    BY <1>2, <1>3

LEMMA ReleaseFits ==
  ASSUME RelInv, [RelNext]_vars
  PROVE  RelInv'
  <1>1. CASE UNCHANGED vars
    BY <1>1 DEF vars, wireVars, mVars, RelInv, InHandFits
  <1>2. QED
    BY <1>1, ServerMFits, ServerPFits, ElseFits DEF RelNext

LEMMA RelInvariant == RelSpec => []RelInv
  BY InitQueue, ReleaseFits, PTL DEF RelSpec

----------------------------------------------------------------------------
(* Each step of the release is one of the exchange's or changes nothing.    *)
LEMMA ServerMRefines ==
  ASSUME RelInv, RelServerM
  PROVE  Other!Next
  <1>1. UNCHANGED <<priceIndex, pVars, cVars>>
        => UNCHANGED <<priceIndex, Other!pVars, Other!cVars>>
    BY DEF pVars, Other!pVars, cVars, Other!cVars
  <1>2. UNCHANGED <<priceIndex, pVars, cVars>>
    BY DEF RelServerM, RelLogin, RelPosition, RelGain, RelQuote, RelTransact,
           RelBuyApproved, RelSellValid, RelSellAnswer, RelResult, RelMisread, RelClose,
           RelBuyDenied
  <1>3. ASSUME NEW c \in Clients,
               \/ MLogin(c) \/ MPosition(c) \/ MTransact(c) \/ MClose(c)
               \/ \E type \in {"quote", "quoteall"} : MQuote(c, type)
        PROVE  Other!ServeStep(c)
    BY <1>1, <1>2, <1>3, SameMLogin, SameMPosition, SameMTransact, SameMClose, SameMQuote
       DEF Other!ServeStep
  <1>4. ASSUME \/ MAuth \/ MPortfolio \/ MGain \/ MQuoteReply \/ MBuyOffer
               \/ MBuyNobody \/ MBuyThrows \/ MSellUnknown \/ MSellRefused
               \/ MSellPass \/ MSellOffer \/ MResult \/ MSigPipe \/ MMisread
        PROVE  Other!MainStep
    BY <1>1, <1>2, <1>4, SameMAuth, SameMPortfolio, SameMGain, SameMQuoteReply,
       SameMBuyOffer, SameMBuyNobody, SameMBuyThrows, SameMSellUnknown,
       SameMSellRefused, SameMSellPass, SameMSellOffer, SameMResult, SameMSigPipe,
       SameMMisread
       DEF Other!MainStep
  <1>5. ASSUME \/ MSellQuoted \/ MSellChecked \/ MSellDenied \/ MSellApproved
               \/ MBuyApproved \/ MBuyUpdate \/ RelBuyDenied
        PROVE  Other!MainStep
    BY <1>1, <1>2, <1>5, SameMSellQuoted, SameMSellChecked, SameMSellDenied,
       SameMSellApproved, SameMBuyApproved, SameMBuyUpdate, SameRelBuyDenied
       DEF Other!MainStep
  <1>6. QED
    BY <1>3, <1>4, <1>5
       DEF RelServerM, RelLogin, RelPosition, RelGain, RelQuote, RelTransact,
           RelBuyApproved, RelSellValid, RelSellAnswer, RelResult, RelMisread, RelClose,
           Other!Next

LEMMA ServerPRefines ==
  ASSUME RelInv, RelServerP
  PROVE  Other!Next \/ UNCHANGED Other!vars
  <1>1. UNCHANGED <<priceIndex, Other!mVars, Other!cVars>>
    BY DEF RelServerP, RelGetPortfolio, RelCheckStock, RelGetStock, RelUpdateStock,
           RelAnswer, RelFallsOff, mVars, Other!mVars, cVars, Other!cVars
  <1>2. CASE RelAnswer /\ WithoutBuyDenied(toP') = WithoutBuyDenied(toP)
    BY <1>1, <1>2 DEF RelAnswer, Other!vars, Other!wireVars, Other!pVars, tcpVars
  <1>3. CASE ~(RelAnswer /\ WithoutBuyDenied(toP') = WithoutBuyDenied(toP))
    <2>1. \/ Other!PPosition \/ Other!PCheck \/ Other!PRetrieve
          \/ Other!PUpdateNew \/ Other!PUpdateReplace \/ Other!PUpdateRemove
          \/ Other!PAnswer \/ Other!PFallsOff
      BY <1>3, SamePPosition, SamePCheck, SamePRetrieve, SamePUpdate, SameRelAnswer,
         SameRelFallsOff
         DEF RelServerP, RelGetPortfolio, RelCheckStock, RelGetStock, RelUpdateStock
    <2>2. QED
      BY <1>1, <2>1 DEF Other!PortfolioStep, Other!Next
  <1>4. QED
    BY <1>2, <1>3

LEMMA ServersRefine ==
  ASSUME RelServerQ \/ RelServerA
  PROVE  Other!Next
  BY SameQQuote, SameQQuoteAll, SameQUpdate, SameAReply
     DEF RelServerQ, RelGetQuote, RelUpdatePrice, RelServerA, Other!Next,
         Other!QuoteStep, Other!AuthStep, pVars, Other!pVars, mVars, Other!mVars,
         cVars, Other!cVars

LEMMA ClientRefines ==
  ASSUME NEW c \in Clients, RelClient(c)
  PROVE  Other!Next
  <1>1. UNCHANGED <<priceIndex, Other!pVars, Other!mVars>>
    BY DEF RelClient, RelClientLogin, RelClientAsks, RelClientShows,
           RelTransactCommand, RelParseTransact, RelClientLeaves, pVars, Other!pVars,
           mVars, Other!mVars
  <1>2. CASE CAuth(c) \/ CShow(c) \/ CValid(c) \/ COffer(c) \/ CNoSuchStock(c) \/ CResult(c)
    <2>1. Other!ReceiveStep(c)
      BY <1>1, <1>2, SameCAuth, SameCShow, SameCValid, SameCOffer, SameCNoSuchStock,
         SameCResult DEF Other!ReceiveStep
    <2>2. QED
      BY <2>1 DEF Other!Next, Other!ClientStep
  <1>3. CASE \E text \in Typed : CAnswer(c, text)
    <2>1. Other!AnswerStep(c)
      BY <1>1, <1>3, SameCAnswer DEF Other!AnswerStep
    <2>2. QED
      BY <2>1 DEF Other!Next, Other!ClientStep
  <1>4. CASE CLogin(c) \/ CLeave(c)
    <2>1. Other!CommandStep(c)
      BY <1>1, <1>4, SameCLogin, SameCLeave DEF Other!CommandStep
    <2>2. QED
      BY <2>1 DEF Other!Next, Other!ClientStep
  <1>5. CASE \E m \in    [t : {"quoteall"}] \cup [t : {"quote"}, stock : Stocks]
                    \cup [t : {"position"}, user : Names] : CAsk(c, m)
    <2>1. Other!CommandStep(c)
      BY <1>1, <1>5, SameCAsk DEF Other!CommandStep
    <2>2. QED
      BY <2>1 DEF Other!Next, Other!ClientStep
  <1>6. CASE \E op \in {"buy", "sell"}, s \in Stocks, n \in Shares :
               CTrade(c, op, s, n) /\ WithinBound(c, op, s, n)
    <2>1. Other!CommandStep(c)
      BY <1>1, <1>6, SameCTrade, SameWithinBound DEF Other!CommandStep
    <2>2. QED
      BY <2>1 DEF Other!Next, Other!ClientStep
  <1>7. QED
    BY <1>2, <1>3, <1>4, <1>5, <1>6
       DEF RelClient, RelClientLogin, RelClientAsks, RelClientShows,
           RelTransactCommand, RelParseTransact, RelClientLeaves

LEMMA ReleaseRefines ==
  ASSUME RelInv, [RelNext]_vars
  PROVE  [Other!Next]_Other!vars
  <1>1. CASE UNCHANGED vars
    BY <1>1 DEF vars, wireVars, pVars, mVars, cVars, Other!vars, Other!wireVars,
                Other!pVars, Other!mVars, Other!cVars
  <1>2. QED
    BY <1>1, ServerMRefines, ServerPRefines, ServersRefine, ClientRefines
       DEF RelNext

LEMMA InitRefinesOther == Init => Other!Init
  BY WithoutEmpty
     DEF Init, WireInit, QInit, PInit, MInit, CInit, Other!Init, Other!WireInit,
         Other!QInit, Other!PInit, Other!MInit, Other!CInit, Listed, Other!Listed

(* The release behaves as the version at the top of the repository does,    *)
(* for any clients, prices and portfolios, whatever is typed and whoever    *)
(* leaves: take the N;buy that its Server M adds (operationType, lines 552  *)
(* to 558) out of Server P's queue, and each of its steps is a step of      *)
(* Exchange, or none when its Server P takes such a message.                *)
THEOREM ReleaseIsAnExchange == RelSpec => ImplementsExchange
  <1>1. Init => Other!Init
    BY InitRefinesOther
  <1>2. RelInv /\ [RelNext]_vars => [Other!Next]_Other!vars
    BY ReleaseRefines
  <1>3. QED
    BY <1>1, <1>2, RelInvariant, PTL DEF RelSpec, ImplementsExchange, Other!Spec

----------------------------------------------------------------------------
(* "<Y/N>;<buy>" and "<Y/N>;<sell>" (README.md:36 and :47): M of the        *)
(* release never leaves the receive of an answer without having sent it on  *)
(* to Server P first, whatever the answer and whether or not the client is  *)
(* still there.                                                             *)
THEOREM AnswersReachP == RelSpec => AnswersAreForwarded
  <1>1. ASSUME RelInv, RelNext, mpc \in {"buy_answer", "sell_answer"}, mpc' # mpc
        PROVE  Len(toP') > Len(toP) /\ toP'[Len(toP) + 1].t = "answer"
    <2>1. MSellDenied \/ MSellApproved \/ MBuyApproved \/ RelBuyDenied
      <3>1. RelServerM
        BY <1>1
           DEF RelNext, RelServerP, RelGetPortfolio, RelCheckStock, RelGetStock,
             RelUpdateStock, RelAnswer, RelFallsOff, RelServerQ, RelGetQuote,
             RelUpdatePrice, RelServerA, RelClient, RelClientLogin, RelClientAsks,
             RelClientShows, RelTransactCommand, RelParseTransact, RelClientLeaves, mVars
      <3>2. QED
        BY <1>1, <3>1
           DEF RelServerM, RelLogin, RelPosition, RelGain, RelQuote, RelTransact,
               RelBuyApproved, RelSellValid, RelSellAnswer, RelResult, RelMisread,
               RelClose, MLogin, MPosition, MTransact, MQuote, MClose, Reads, MAuth,
               MPortfolio, MGain, MQuoteReply, MBuyOffer, MBuyUpdate, MBuyNobody,
               MBuyThrows, MSellQuoted, MSellChecked, MSellUnknown, MSellRefused,
               MSellPass, MSellOffer, MResult, MSigPipe, AtSend, MMisread, Hears
    <2>2. PICK a : a = AnswerToP
      OBVIOUS
    <2>3. toP' = Append(toP, a) \/ \E b : toP' = toP \o <<a, b>>
      BY <2>1, <2>2 DEF MSellDenied, MSellApproved, MBuyApproved, RelBuyDenied
    <2>4. a.t = "answer" /\ a.op \in {"buy", "sell"} /\ toP \in Seq(Range(toP))
      BY <1>1, <2>2 DEF AnswerToP, RelInv, IsQueue, InHandFits
    <2>5. PICK q : q = Append(toP, a)
      OBVIOUS
    <2>6. /\ IsQueue(q) /\ Len(toP) \in Nat /\ Len(q) = Len(toP) + 1
          /\ q[Len(toP) + 1] = a
      BY <1>1, <2>4, <2>5, QueueAppend, AppendFacts, LenProperties DEF RelInv
    <2>7. CASE toP' = q
      BY <2>4, <2>6, <2>7
    <2>8. ASSUME NEW b, toP' = toP \o <<a, b>>
          PROVE  Len(toP') > Len(toP) /\ toP'[Len(toP) + 1] = a
      <3> DEFINE S == Range(toP) \cup {a, b}
      <3>1. toP \in Seq(S)
        BY <2>4, SeqMonotonic
      <3>2. <<a, b>> \in Seq(S) /\ Len(<<a, b>>) = 2 /\ <<a, b>>[1] = a
        OBVIOUS
      <3> HIDE DEF S
      <3>3. PICK r : r = <<a, b>>
        OBVIOUS
      <3>4. /\ Len(toP \o r) = Len(toP) + 2
            /\ (toP \o r)[Len(toP) + 1] = r[Len(toP) + 1 - Len(toP)]
        BY <2>6, <3>1, <3>2, <3>3, ConcatProperties
      <3>5. QED
        BY <2>6, <2>8, <3>2, <3>3, <3>4
    <2>9. QED
      BY <2>3, <2>4, <2>5, <2>7, <2>8
  <1>2. RelInv /\ [RelNext]_vars
        => [(mpc \in {"buy_answer", "sell_answer"} /\ mpc' # mpc) =>
              Len(toP') > Len(toP) /\ toP'[Len(toP) + 1].t = "answer"]_<<mpc, toP>>
    BY <1>1 DEF vars, mVars, wireVars
  <1>3. QED
    BY <1>2, RelInvariant, PTL DEF RelSpec, AnswersAreForwarded
=============================================================================
