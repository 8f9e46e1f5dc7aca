--------------------------- MODULE ExchangeProofs ---------------------------
(***************************************************************************)
(* Proofs about Exchange, for any clients, users, stocks, prices and       *)
(* portfolios, whatever people type and whenever they leave.               *)
(*                                                                         *)
(* The inductive invariant is IndexInv of ExchangeProps.  Its argument:    *)
(* while M does not wait for Server P there is no question at Server P and *)
(* no reply of it on the way (NoQuestion, NoReply); a question is last in  *)
(* its queue, and the reply to it is the only one.                         *)
(***************************************************************************)
EXTENDS ExchangeProps, SequenceTheorems, WellFoundedInduction, TLAPS

NoQuestion == \A i \in DOMAIN toP : toP[i].t = "answer"
NoReply == \A i \in DOMAIN toM : ~FromP(toM[i])

----------------------------------------------------------------------------
(* Sequences and numbers.                                                   *)

LEMMA TailFacts ==
  ASSUME NEW S, NEW s \in Seq(S), s # <<>>
  PROVE  /\ Head(s) \in S /\ Head(s) = s[1] /\ 1 \in DOMAIN s
         /\ Tail(s) \in Seq(S)
         /\ Len(Tail(s)) = Len(s) - 1
         /\ \A i \in DOMAIN Tail(s) : i + 1 \in DOMAIN s /\ Tail(s)[i] = s[i + 1]
  OBVIOUS

LEMMA AppendFacts ==
  ASSUME NEW S, NEW s \in Seq(S), NEW e
  PROVE  /\ e \in S => Append(s, e) \in Seq(S)
         /\ Len(Append(s, e)) = Len(s) + 1
         /\ DOMAIN Append(s, e) = DOMAIN s \cup {Len(s) + 1}
         /\ \A i \in DOMAIN s : Append(s, e)[i] = s[i]
         /\ Append(s, e)[Len(s) + 1] = e
  OBVIOUS

LEMMA AppendTwo ==
  ASSUME NEW S, NEW s \in Seq(S), NEW a \in S, NEW b \in S
  PROVE  s \o <<a, b>> = Append(Append(s, a), b)
  OBVIOUS

LEMMA RoundDivInt ==
  ASSUME NEW a \in Int, NEW b \in Int, b # 0
  PROVE  RoundDiv(a, b) \in Int
  <1>1. CASE b > 0
    BY <1>1 DEF RoundDiv
  <1>2. CASE b < 0
    BY <1>2 DEF RoundDiv
  <1>3. QED
    BY <1>1, <1>2

LEMMA RoundCentMoney ==
  ASSUME NEW p \in Money
  PROVE  RoundCent(p) \in Money
  <1>1. p # NaN => RoundDiv(p, Cent) \in Int
    BY RoundDivInt, CentAssumption DEF Money
  <1>2. QED
    BY <1>1, CentAssumption DEF RoundCent, Money

LEMMA WrapInt ==
  ASSUME NEW a \in CInt, NEW b \in CInt
  PROVE  Wrap(a + b) \in CInt /\ Wrap(a - b) \in CInt
  BY IntMaxAssumption DEF Wrap, CInt

LEMMA RatioMoney ==
  ASSUME NEW a \in Int, NEW b \in Int
  PROVE  Ratio(a, b) \in Money
  BY RoundDivInt DEF Ratio, Money

LEMMA AvgBuyPriceMoney ==
  ASSUME NEW q \in CInt, NEW p \in Money
  PROVE  avgBuyPrice(q, p) \in Money
  <1>1. p # NaN => q * p \in Int /\ q \in Int
    BY IntMaxAssumption DEF Money, CInt
  <1>2. QED
    BY <1>1, RatioMoney DEF avgBuyPrice, Money

LEMMA AvgBuyPriceNewMoney ==
  ASSUME NEW q \in CInt, NEW p \in Money, NEW qOld \in CInt, NEW pOld \in Money
  PROVE  avgBuyPriceNew(q, p, qOld, pOld) \in Money
  <1> DEFINE old == avgBuyPrice(qOld, pOld)
             new == avgBuyPrice(q, p)
  <1>1. old \in Money /\ new \in Money
    BY AvgBuyPriceMoney
  <1> HIDE DEF old, new
  <1>0. CInt \subseteq Int
    BY IntMaxAssumption DEF CInt
  <1>2. Wrap(q + qOld) \in Int /\ q \in Int /\ qOld \in Int
    BY <1>0, WrapInt
  <1>3. NaN \notin {old, new} => qOld * old + q * new \in Int
    BY <1>1, <1>2 DEF Money
  <1>4. NaN \notin {old, new} =>
          Ratio(qOld * old + q * new, Wrap(q + qOld)) \in Money
    BY <1>2, <1>3, RatioMoney
  <1>5. QED
    BY <1>4 DEF avgBuyPriceNew, Money, old, new

LEMMA LeastExists ==
  ASSUME NEW S \in SUBSET Nat, S # {}
  PROVE  \E x \in S : \A y \in S : x =< y
  <1> DEFINE R == {ss \in Nat \X Nat : ss[1] < ss[2]}
  <1>1. IsWellFoundedOn(R, Nat)
    BY NatLessThanWellFounded DEF OpToRel
  <1> HIDE DEF R
  <1>2. PICK x \in S : \A y \in S : ~ (<<y, x>> \in R)
    BY <1>1, WFMin
  <1>3. ASSUME NEW y \in S PROVE x =< y
    <2>1. x \in Nat /\ y \in Nat
      OBVIOUS
    <2>2. y < x => <<y, x>> \in R
      BY <2>1 DEF R
    <2>3. QED
      BY <1>2, <2>1, <2>2
  <1>4. QED
    BY <1>3

(* Running totals of terms t, from 0 to n of them. *)
Totals(f, t, n) ==
  f = [i \in 0 .. n |-> IF i = 0 THEN 0 ELSE Plus(f[i - 1], t[i])]

LEMMA TotalsExist ==
  ASSUME NEW t
  PROVE  \A n \in Nat : \E f : Totals(f, t, n)
  <1> DEFINE Bad == {n \in Nat : ~ \E f : Totals(f, t, n)}
  <1>1. SUFFICES ASSUME Bad # {} PROVE FALSE
    OBVIOUS
  <1>2. PICK n \in Bad : \A k \in Bad : n =< k
    BY <1>1, LeastExists
  <1>3. n # 0
    <2> DEFINE f == [i \in 0 .. 0 |-> 0]
    <2>1. Totals(f, t, 0)
      BY DEF Totals
    <2>2. QED
      BY <1>2, <2>1
  <1>4. n - 1 \in Nat /\ n - 1 \notin Bad
    BY <1>2, <1>3
  <1>5. PICK f : Totals(f, t, n - 1)
    BY <1>4
  <1> DEFINE g == [i \in 0 .. n |-> IF i = n THEN Plus(f[n - 1], t[n]) ELSE f[i]]
  <1>6. ASSUME NEW i \in 0 .. n
        PROVE  g[i] = IF i = 0 THEN 0 ELSE Plus(g[i - 1], t[i])
    <2>1. CASE i = n
      BY <1>3, <1>4, <2>1
    <2>2. CASE i # n
      <3>1. i \in 0 .. n - 1 /\ g[i] = f[i]
        BY <1>4, <2>2
      <3>2. f[i] = IF i = 0 THEN 0 ELSE Plus(f[i - 1], t[i])
        BY <1>5, <3>1 DEF Totals
      <3>3. i # 0 => i - 1 \in 0 .. n - 1 /\ g[i - 1] = f[i - 1]
        BY <1>4, <3>1
      <3>4. QED
        BY <3>1, <3>2, <3>3
    <2>3. QED
      BY <2>1, <2>2
  <1>7. Totals(g, t, n)
    BY <1>6 DEF Totals
  <1>8. QED
    BY <1>2, <1>7

LEMMA TotalMoney ==
  ASSUME NEW n \in Nat, NEW t, \A i \in 1 .. n : t[i] \in Money
  PROVE  Total(t, n) \in Money
  <1> DEFINE f == CHOOSE f : f = [i \in 0 .. n |-> IF i = 0 THEN 0 ELSE Plus(f[i - 1], t[i])]
  <1>1. f = [i \in 0 .. n |-> IF i = 0 THEN 0 ELSE Plus(f[i - 1], t[i])]
    BY TotalsExist DEF Totals
  <1>2. Total(t, n) = f[n]
    BY DEF Total
  <1> HIDE DEF f
  <1> DEFINE Bad == {i \in 0 .. n : f[i] \notin Money}
  <1>3. ASSUME Bad # {} PROVE FALSE
    <2>1. Bad \in SUBSET Nat
      OBVIOUS
    <2>2. PICK i \in Bad : \A k \in Bad : i =< k
      BY <1>3, <2>1, LeastExists
    <2>3. i # 0
      BY <1>1, <2>2 DEF Money
    <2>4. i - 1 \in 0 .. n /\ i - 1 \notin Bad
      BY <2>2, <2>3
    <2>5. f[i] = Plus(f[i - 1], t[i]) /\ f[i - 1] \in Money /\ t[i] \in Money
      BY <1>1, <2>2, <2>3, <2>4
    <2>6. QED
      BY <2>2, <2>5 DEF Plus, Money
  <1>4. QED
    BY <1>2, <1>3

LEMMA ProfitMoney ==
  ASSUME NEW q \in [Listed -> Int], NEW held \in Seq(Holding)
  PROVE  profitCalc(q, held) \in Money
  <1> DEFINE quote(h) == IF h.stockName \in DOMAIN q THEN q[h.stockName] ELSE 0
             term(h) == IF h.avgPrice = NaN THEN NaN
                        ELSE h.quantity * (quote(h) - h.avgPrice)
             t == [i \in DOMAIN held |-> term(held[i])]
  <1>1. ASSUME NEW h \in Holding
        PROVE  term(h) \in Money
    <2>1. h.quantity \in Int /\ h.avgPrice \in Money /\ quote(h) \in Int
      BY IntMaxAssumption DEF Holding, CInt
    <2>2. CASE h.avgPrice = NaN
      BY <2>2 DEF Money
    <2>3. CASE h.avgPrice # NaN
      <3>1. quote(h) - h.avgPrice \in Int
        BY <2>1, <2>3 DEF Money
      <3>2. h.quantity * (quote(h) - h.avgPrice) \in Int
        BY <2>1, <3>1
      <3>3. QED
        BY <2>3, <3>2 DEF Money
    <2>4. QED
      BY <2>2, <2>3
  <1> HIDE DEF term
  <1>2. Len(held) \in Nat /\ \A i \in 1 .. Len(held) : t[i] \in Money
    BY <1>1, LenProperties, ElementOfSeq
  <1>3. Total(t, Len(held)) \in Money
    BY <1>2, TotalMoney
  <1>4. QED
    BY <1>3 DEF profitCalc, term

(* The search of getStock: an index of the stock, or 0 if there is none.    *)
LEMMA FirstOfFacts ==
  ASSUME NEW u, NEW s, portfolio[u] \in Seq(Holding)
  PROVE  /\ FirstOf(u, s) \in 0 .. Len(portfolio[u])
         /\ FirstOf(u, s) # 0 => portfolio[u][FirstOf(u, s)].stockName = s
         /\ FirstOf(u, s) = 0 =>
              \A i \in DOMAIN portfolio[u] : portfolio[u][i].stockName # s
  <1> DEFINE I == {i \in 1 .. Len(portfolio[u]) : portfolio[u][i].stockName = s}
  <1>1. FirstOf(u, s) = IF I # {} THEN Min(I) ELSE 0
    BY DEF FirstOf, SelectInSeq
  <1>2. CASE I = {}
    BY <1>1, <1>2
  <1>3. CASE I # {}
    <2>1. I \in SUBSET Nat
      OBVIOUS
    <2>2. FirstOf(u, s) \in I
      <3> HIDE DEF I
      <3>1. QED
        BY <1>1, <1>3, <2>1, LeastExists DEF Min
    <2>3. \A i \in I : /\ i \in 1 .. Len(portfolio[u]) /\ i # 0
                       /\ portfolio[u][i].stockName = s
      OBVIOUS
    <2> HIDE DEF I
    <2>4. QED
      BY <2>2, <2>3
  <1>4. QED
    BY <1>2, <1>3

----------------------------------------------------------------------------
(* The conversation between Server M and Server P.                          *)

LEMMA QuietP ==
  ASSUME IndexInv, mpc \notin WaitsForP \cup Lost
  PROVE  NoQuestion /\ NoReply
  BY DEF IndexInv, OneQuestion, OneReply, NoQuestion, NoReply

LEMMA HeardP ==
  ASSUME IndexInv, toM # <<>>, FromP(Head(toM)), toM' = Tail(toM)
  PROVE  NoQuestion /\ NoReply'
  <1>1. toM \in Seq(ReplyFromA \cup ReplyFromQ \cup ReplyFromP)
    BY DEF IndexInv, ServerTypeOK
  <1>2. QED
    BY <1>1, TailFacts DEF IndexInv, OneReply, NoQuestion, NoReply

LEMMA HeardOther ==
  ASSUME ServerTypeOK, NoReply, toM # <<>>, toM' = Tail(toM)
  PROVE  NoReply'
  <1>1. toM \in Seq(ReplyFromA \cup ReplyFromQ \cup ReplyFromP)
    BY DEF ServerTypeOK
  <1>2. QED
    BY <1>1, TailFacts DEF NoReply

LEMMA NoReplyKeeps ==
  ASSUME NoReply'
  PROVE  OneReply' /\ ValidReply'
  BY DEF NoReply, OneReply, ValidReply, FromP

LEMMA NoQuestionKeeps ==
  ASSUME NoQuestion'
  PROVE  OneQuestion' /\ ValidUpdate'
  BY DEF NoQuestion, OneQuestion, ValidUpdate

(* M asks Server P one thing, with nothing else under way.                  *)
LEMMA MAsks ==
  ASSUME ServerTypeOK, NoQuestion, NEW m, toP' = Append(toP, m),
         mpc' \in WaitsForP, m.t = "update" => Valid(m)'
  PROVE  OneQuestion' /\ ValidUpdate'
  <1>1. toP \in Seq(ToP)
    BY DEF ServerTypeOK
  <1>2. QED
    BY <1>1, AppendFacts DEF NoQuestion, OneQuestion, ValidUpdate

(* An answer and then the question. *)
LEMMA MAsksTwo ==
  ASSUME ServerTypeOK, NoQuestion, NEW a \in ToP, NEW m \in ToP,
         a.t = "answer", toP' = toP \o <<a, m>>,
         mpc' \in WaitsForP, m.t = "update" => Valid(m)'
  PROVE  OneQuestion' /\ ValidUpdate'
  <1>1. toP \in Seq(ToP)
    BY DEF ServerTypeOK
  <1>2. toP' = Append(Append(toP, a), m) /\ Append(toP, a) \in Seq(ToP)
    BY <1>1, AppendTwo, AppendFacts
  <1>3. \A i \in DOMAIN Append(toP, a) : Append(toP, a)[i].t = "answer"
    BY <1>1, AppendFacts DEF NoQuestion
  <1>4. QED
    BY <1>2, <1>3, AppendFacts DEF OneQuestion, ValidUpdate

(* Server P takes a question: it was the only thing in its queue.           *)
LEMMA PTakesQuestion ==
  ASSUME IndexInv, toP # <<>>, Head(toP).t # "answer"
  PROVE  Tail(toP) = <<>> /\ NoReply /\ mpc \in WaitsForP \cup Lost
  <1>1. toP \in Seq(ToP)
    BY DEF IndexInv, ServerTypeOK
  <1>2. 1 \in DOMAIN toP /\ toP[1].t # "answer"
    BY <1>1, TailFacts
  <1>3. Len(toP) = 1 /\ mpc \in WaitsForP \cup Lost
    BY <1>2 DEF IndexInv, OneQuestion
  <1>4. Tail(toP) = <<>>
    BY <1>1, <1>3, EmptySeq, TailFacts
  <1>5. NoReply
    BY <1>2 DEF IndexInv, OneReply, NoReply
  <1>6. QED
    BY <1>3, <1>4, <1>5

LEMMA PRepliesKeeps ==
  ASSUME IndexInv, NoReply, toP' = <<>>, mpc' \in WaitsForP \cup Lost,
         NEW m, toM' = Append(toM, m),
         m.t = "held" /\ m.stock # NA => Valid(m)'
  PROVE  OneQuestion' /\ OneReply' /\ ValidReply' /\ ValidUpdate'
  <1>1. toM \in Seq(ReplyFromA \cup ReplyFromQ \cup ReplyFromP)
    BY DEF IndexInv, ServerTypeOK
  <1>2. OneReply'
    BY <1>1, AppendFacts DEF NoReply, OneReply
  <1>3. ValidReply'
    BY <1>1, AppendFacts DEF NoReply, ValidReply, FromP
  <1>4. QED
    BY <1>2, <1>3 DEF OneQuestion, ValidUpdate

----------------------------------------------------------------------------
(* Server P.                                                                *)

LEMMA FunctionIsSeq ==
  ASSUME NEW S, NEW n \in Nat, NEW f \in [1 .. n -> S]
  PROVE  f \in Seq(S)
  BY SeqDef

LEMMA RemoveAtSeq ==
  ASSUME NEW S, NEW s \in Seq(S), NEW i \in 1 .. Len(s)
  PROVE  RemoveAt(s, i) \in Seq(S)
  <1>1. SubSeq(s, 1, i - 1) \in Seq(S) /\ SubSeq(s, i + 1, Len(s)) \in Seq(S)
    BY SubSeqProperties, LenProperties, ElementOfSeq
  <1>2. QED
    BY <1>1, ConcatProperties DEF RemoveAt

LEMMA UserTyped ==
  ASSUME NEW n \in Names
  PROVE  Lower[n] \in Users
  BY DEF Users

LEMMA RoundedHolding ==
  ASSUME NEW h \in Holding
  PROVE  Rounded(h) \in Holding
  BY RoundCentMoney DEF Rounded, Holding

LEMMA getPortfolioTyped ==
  ASSUME ServerTypeOK, NEW u \in Users
  PROVE  getPortfolio(u) \in Seq(Holding) \cup {NA}
  <1>1. CASE u \in DOMAIN portfolio
    <2> DEFINE p == [i \in DOMAIN portfolio[u] |-> Rounded(portfolio[u][i])]
    <2>1. portfolio[u] \in Seq(Holding)
      BY <1>1 DEF ServerTypeOK
    <2>2. p \in [1 .. Len(portfolio[u]) -> Holding]
      BY <2>1, RoundedHolding, LenProperties, ElementOfSeq
    <2>3. p \in Seq(Holding)
      BY <2>1, <2>2, FunctionIsSeq, LenProperties
    <2>4. QED
      BY <1>1, <2>3 DEF getPortfolio
  <1>2. CASE u \notin DOMAIN portfolio
    BY <1>2 DEF getPortfolio
  <1>3. QED
    BY <1>1, <1>2

(* What getStock answers describes the portfolio it looked at.              *)
LEMMA getStockFacts ==
  ASSUME ServerTypeOK, NEW u \in Users, NEW s \in Stocks
  PROVE  /\ getStock(u, s) \in ReplyFromP
         /\ getStock(u, s).t = "held"
         /\ getStock(u, s).stock # NA => Valid(getStock(u, s))
  <1>1. CASE u \notin DOMAIN portfolio
    BY <1>1 DEF getStock, ReplyFromP
  <1>2. CASE u \in DOMAIN portfolio
    <2> DEFINE i == FirstOf(u, s)
    <2>1. portfolio[u] \in Seq(Holding)
      BY <1>2 DEF ServerTypeOK
    <2>2. /\ i \in 0 .. Len(portfolio[u])
          /\ i # 0 => portfolio[u][i].stockName = s
          /\ i = 0 => \A j \in DOMAIN portfolio[u] :
                        portfolio[u][j].stockName # s
      BY <2>1, FirstOfFacts
    <2> HIDE DEF i
    <2>3. CASE i = 0
      BY <1>2, <2>2, <2>3 DEF getStock, ReplyFromP, Valid, i
    <2>4. CASE i # 0
      <3>1. i \in DOMAIN portfolio[u] /\ portfolio[u][i] \in Holding
        BY <2>1, <2>2, <2>4, LenProperties, ElementOfSeq
      <3>2. /\ portfolio[u][i].quantity \in CInt
            /\ RoundCent(portfolio[u][i].avgPrice) \in Money
        BY <3>1, RoundCentMoney DEF Holding
      <3>3. i - 1 \in Nat /\ i - 1 # -1 /\ (i - 1) + 1 = i
        BY <2>2, <2>4, <2>1, LenProperties
      <3>4. getStock(u, s) = [t |-> "held", user |-> u, stock |-> s,
                shares |-> portfolio[u][i].quantity,
                price |-> RoundCent(portfolio[u][i].avgPrice),
                index |-> i - 1]
        BY <1>2, <2>4 DEF getStock, i
      <3>5. getStock(u, s) \in ReplyFromP
        BY <3>2, <3>3, <3>4 DEF ReplyFromP
      <3>6. Valid(getStock(u, s))
        BY <1>2, <2>2, <2>4, <3>1, <3>3, <3>4 DEF Valid
      <3>7. QED
        BY <3>4, <3>5, <3>6
    <2>5. QED
      BY <2>3, <2>4
  <1>3. QED
    BY <1>1, <1>2

LEMMA PFrame ==
  ASSUME IndexInv, UNCHANGED <<priceIndex, mVars, cVars, toA, toQ, c2m>>,
         toP' \in Seq(ToP),
         toM' \in Seq(ReplyFromA \cup ReplyFromQ \cup ReplyFromP),
         DOMAIN portfolio' \subseteq Users,
         \A u \in DOMAIN portfolio' : portfolio'[u] \in Seq(Holding),
         pup' \in BOOLEAN
  PROVE  ServerTypeOK' /\ Serving'
  BY DEF IndexInv, ServerTypeOK, Serving, mVars, cVars

(* Server P answers a question without touching the portfolios. *)
LEMMA PAnswersKeeps ==
  ASSUME IndexInv, UNCHANGED <<priceIndex, mVars, cVars, pVars>>,
         toP # <<>>, Head(toP).t # "answer", toP' = Tail(toP),
         NEW m \in ReplyFromP, PReplies(m),
         m.t = "held" /\ m.stock # NA => Valid(m)
  PROVE  IndexInv'
  <1>0. ServerTypeOK
    BY DEF IndexInv
  <1>1. toP' = <<>> /\ NoReply /\ mpc \in WaitsForP \cup Lost
    BY PTakesQuestion
  <1>2. toM' \in Seq(ReplyFromA \cup ReplyFromQ \cup ReplyFromP)
    BY <1>0, AppendFacts DEF ServerTypeOK, PReplies
  <1>3. ServerTypeOK' /\ Serving'
    BY <1>0, <1>1, <1>2, PFrame DEF ServerTypeOK, PReplies, pVars, tcpVars
  <1>4. (m.t = "held" /\ m.stock # NA => Valid(m)')
    BY DEF Valid, pVars
  <1>5. OneQuestion' /\ OneReply' /\ ValidReply' /\ ValidUpdate'
    BY <1>1, <1>4, PRepliesKeeps DEF PReplies, mVars
  <1>6. ValidPos'
    BY <1>1 DEF ValidPos, WaitsForP, Lost, mVars
  <1>7. QED
    BY <1>3, <1>5, <1>6 DEF IndexInv

LEMMA PPositionKeeps ==
  ASSUME IndexInv, PPosition, UNCHANGED <<priceIndex, mVars, cVars>>
  PROVE  IndexInv'
  <1> DEFINE u == Lower[Head(toP).user]
             m == [t |-> "position", user |-> u, held |-> getPortfolio(u)]
  <1>0. ServerTypeOK /\ Head(toP) \in ToP
    BY TailFacts DEF IndexInv, ServerTypeOK, PPosition, PReceives
  <1>1. u \in Users
    BY <1>0, UserTyped DEF PPosition, PReceives, ToP
  <1>2. m \in ReplyFromP
    BY <1>0, <1>1, getPortfolioTyped DEF ReplyFromP
  <1>3. PReplies(m) /\ toP # <<>> /\ Head(toP).t # "answer" /\ toP' = Tail(toP)
    BY DEF PPosition, PReceives
  <1>4. QED
    BY <1>2, <1>3, PAnswersKeeps DEF PPosition

LEMMA PCheckKeeps ==
  ASSUME IndexInv, PCheck, UNCHANGED <<priceIndex, mVars, cVars>>
  PROVE  IndexInv'
  <1> DEFINE m == [t |-> "check", verdict |-> checkStock(
                     Lower[Head(toP).user], Head(toP).stock, Head(toP).shares)]
  <1>1. checkStock(Lower[Head(toP).user], Head(toP).stock, Head(toP).shares)
          \in {"PASS", "FAIL", "NOMATCH"}
    BY DEF checkStock
  <1>2. m \in ReplyFromP
    BY <1>1 DEF ReplyFromP
  <1>3. PReplies(m) /\ toP # <<>> /\ Head(toP).t # "answer" /\ toP' = Tail(toP)
    BY DEF PCheck, PReceives
  <1>4. QED
    BY <1>2, <1>3, PAnswersKeeps DEF PCheck

LEMMA PRetrieveKeeps ==
  ASSUME IndexInv, PRetrieve, UNCHANGED <<priceIndex, mVars, cVars>>
  PROVE  IndexInv'
  <1> DEFINE u == Lower[Head(toP).user]
             m == getStock(u, Head(toP).stock)
  <1>0. ServerTypeOK /\ Head(toP) \in ToP
    BY TailFacts DEF IndexInv, ServerTypeOK, PRetrieve, PReceives
  <1>1. u \in Users /\ Head(toP).stock \in Stocks
    BY <1>0, UserTyped DEF PRetrieve, PReceives, ToP
  <1>2. m \in ReplyFromP /\ (m.t = "held" /\ m.stock # NA => Valid(m))
    BY <1>0, <1>1, getStockFacts
  <1>3. PReplies(m) /\ toP # <<>> /\ Head(toP).t # "answer" /\ toP' = Tail(toP)
    BY DEF PRetrieve, PReceives
  <1> HIDE DEF m
  <1>4. QED
    BY <1>2, <1>3, PAnswersKeeps DEF PRetrieve

LEMMA PUpdateFacts ==
  ASSUME IndexInv, PReceives("update")
  PROVE  /\ toP' = <<>> /\ NoReply /\ mpc \in WaitsForP \cup Lost
         /\ Head(toP) \in [t : {"update"}, user : Users, stock : Stocks,
                           shares : CInt, price : Money, index : Int]
         /\ Valid(Head(toP))
  <1>1. toP \in Seq(ToP) /\ toP # <<>> /\ Head(toP).t = "update"
    BY DEF IndexInv, ServerTypeOK, PReceives
  <1>2. Head(toP) \in ToP /\ Head(toP) = toP[1] /\ 1 \in DOMAIN toP
    BY <1>1, TailFacts
  <1>3. Valid(Head(toP))
    BY <1>1, <1>2 DEF IndexInv, ValidUpdate
  <1>4. Head(toP) \in [t : {"update"}, user : Users, stock : Stocks,
                       shares : CInt, price : Money, index : Int]
    BY <1>1, <1>2 DEF ToP
  <1>5. QED
    BY <1>1, <1>3, <1>4, PTakesQuestion DEF PReceives

LEMMA StoreTyped ==
  ASSUME ServerTypeOK, NEW u \in Users, NEW h \in Seq(Holding), Store(u, h)
  PROVE  /\ DOMAIN portfolio' \subseteq Users
         /\ \A v \in DOMAIN portfolio' : portfolio'[v] \in Seq(Holding)
  BY DEF ServerTypeOK, Store

(* Whatever an update makes of the portfolios, Server P has been asked      *)
(* nothing else meanwhile, so no index that is under way refers to them.    *)
LEMMA PUpdatesKeeps ==
  ASSUME IndexInv, UNCHANGED <<priceIndex, mVars, cVars, pup>>,
         PReceives("update"), NEW m \in ReplyFromP, PReplies(m), m.t # "held",
         DOMAIN portfolio' \subseteq Users,
         \A u \in DOMAIN portfolio' : portfolio'[u] \in Seq(Holding)
  PROVE  IndexInv'
  <1>0. ServerTypeOK
    BY DEF IndexInv
  <1>1. toP' = <<>> /\ NoReply /\ mpc \in WaitsForP \cup Lost
    BY PUpdateFacts
  <1>2. toM' \in Seq(ReplyFromA \cup ReplyFromQ \cup ReplyFromP)
    BY <1>0, AppendFacts DEF ServerTypeOK, PReplies
  <1>3. ServerTypeOK' /\ Serving'
    BY <1>0, <1>1, <1>2, PFrame DEF ServerTypeOK, PReplies, tcpVars
  <1>4. OneQuestion' /\ OneReply' /\ ValidReply' /\ ValidUpdate'
    BY <1>1, PRepliesKeeps DEF PReplies, mVars
  <1>5. ValidPos'
    BY <1>1 DEF ValidPos, WaitsForP, Lost, mVars
  <1>6. QED
    BY <1>3, <1>4, <1>5 DEF IndexInv

LEMMA ResultTyped ==
  ASSUME NEW op \in {"buy", "sell"}, NEW m, m.user \in Users,
         m.stock \in Stocks, NEW n \in CInt
  PROVE  Result(op, m, n) \in ReplyFromP /\ Result(op, m, n).t # "held"
  BY DEF Result, ReplyFromP

LEMMA PUpdateNewKeeps ==
  ASSUME IndexInv, PUpdateNew, UNCHANGED <<priceIndex, mVars, cVars>>
  PROVE  IndexInv'
  <1> DEFINE m == Head(toP)
             h == [stockName |-> m.stock, quantity |-> m.shares,
                   avgPrice |-> m.price]
             old == IF m.user \in DOMAIN portfolio THEN portfolio[m.user]
                                                   ELSE <<>>
  <1>0. ServerTypeOK /\ PReceives("update")
    BY DEF IndexInv, PUpdateNew
  <1>1. m.user \in Users /\ m.stock \in Stocks /\ m.shares \in CInt /\ h \in Holding
    BY <1>0, PUpdateFacts DEF Holding
  <1>2. Append(old, h) \in Seq(Holding)
    <2>1. old \in Seq(Holding)
      BY <1>0 DEF ServerTypeOK
    <2>2. QED
      BY <1>1, <2>1, AppendFacts
  <1>3. Store(m.user, Append(old, h)) /\ PReplies(Result("buy", m, m.shares))
    BY DEF PUpdateNew
  <1>4. /\ DOMAIN portfolio' \subseteq Users
        /\ \A v \in DOMAIN portfolio' : portfolio'[v] \in Seq(Holding)
    BY <1>0, <1>1, <1>2, <1>3, StoreTyped
  <1>5. QED
    BY <1>0, <1>1, <1>3, <1>4, ResultTyped, PUpdatesKeeps DEF PUpdateNew

(* The index of an update that replaces or removes is one of the vector.    *)
LEMMA PIndexFacts ==
  ASSUME IndexInv, PReceives("update"), Head(toP).index + 1 # 0
  PROVE  LET m == Head(toP)
             i == m.index + 1
         IN  /\ m.user \in DOMAIN portfolio
             /\ portfolio[m.user] \in Seq(Holding)
             /\ i \in DOMAIN portfolio[m.user]
             /\ portfolio[m.user][i] \in Holding
             /\ portfolio[m.user][i].quantity \in CInt
  <1> DEFINE m == Head(toP)
             i == m.index + 1
  <1>1. m.index \in Int /\ Valid(m)
    BY PUpdateFacts
  <1>2. m.user \in DOMAIN portfolio /\ i \in DOMAIN portfolio[m.user]
    BY <1>1 DEF Valid
  <1>3. portfolio[m.user] \in Seq(Holding)
    BY <1>2 DEF IndexInv, ServerTypeOK
  <1>4. portfolio[m.user][i] \in Holding
    BY <1>2, <1>3, LenProperties, ElementOfSeq
  <1>5. QED
    BY <1>2, <1>3, <1>4 DEF Holding

LEMMA PUpdateReplaceKeeps ==
  ASSUME IndexInv, PUpdateReplace, UNCHANGED <<priceIndex, mVars, cVars>>
  PROVE  IndexInv'
  <1> DEFINE m == Head(toP)
             i == m.index + 1
             p == portfolio[m.user]
             old == p[i].quantity
             new == [p EXCEPT ![i].quantity = m.shares, ![i].avgPrice = m.price]
             r == IF old > m.shares THEN Result("sell", m, Wrap(old - m.shares))
                                    ELSE Result("buy", m, Wrap(m.shares - old))
  <1>0. ServerTypeOK /\ PReceives("update") /\ i # 0
    BY DEF IndexInv, PUpdateReplace
  <1>1. /\ m.user \in Users /\ m.stock \in Stocks
        /\ m.shares \in CInt /\ m.price \in Money
    BY <1>0, PUpdateFacts
  <1>2. p \in Seq(Holding) /\ i \in DOMAIN p /\ p[i] \in Holding /\ old \in CInt
    BY <1>0, PIndexFacts
  <1>3. new \in Seq(Holding)
    <2> DEFINE h == [[p[i] EXCEPT !.quantity = m.shares]
                       EXCEPT !.avgPrice = m.price]
    <2>1. h \in Holding
      BY <1>1, <1>2 DEF Holding
    <2>2. new = [p EXCEPT ![i] = h]
      BY <1>2
    <2>3. QED
      BY <1>2, <2>1, <2>2, ExceptSeq
  <1>4. Store(m.user, new) /\ PReplies(r)
    BY DEF PUpdateReplace
  <1>5. /\ DOMAIN portfolio' \subseteq Users
        /\ \A v \in DOMAIN portfolio' : portfolio'[v] \in Seq(Holding)
    BY <1>0, <1>1, <1>3, <1>4, StoreTyped
  <1>6. Wrap(old - m.shares) \in CInt /\ Wrap(m.shares - old) \in CInt
    BY <1>1, <1>2, WrapInt
  <1>7. r \in ReplyFromP /\ r.t # "held"
    BY <1>1, <1>6, ResultTyped
  <1> HIDE DEF r, new, old
  <1>8. QED
    BY <1>0, <1>4, <1>5, <1>7, PUpdatesKeeps DEF PUpdateReplace

LEMMA PUpdateRemoveKeeps ==
  ASSUME IndexInv, PUpdateRemove, UNCHANGED <<priceIndex, mVars, cVars>>
  PROVE  IndexInv'
  <1> DEFINE m == Head(toP)
             i == m.index + 1
             p == portfolio[m.user]
             old == p[i].quantity
  <1>0. ServerTypeOK /\ PReceives("update") /\ i # 0
    BY DEF IndexInv, PUpdateRemove
  <1>1. m.user \in Users /\ m.stock \in Stocks
    BY <1>0, PUpdateFacts
  <1>2. p \in Seq(Holding) /\ i \in 1 .. Len(p) /\ old \in CInt
    BY <1>0, PIndexFacts, LenProperties
  <1>3. CASE old # 0
    <2>1. Store(m.user, RemoveAt(p, i)) /\ PReplies(Result("sell", m, old))
      BY <1>3 DEF PUpdateRemove
    <2>2. /\ DOMAIN portfolio' \subseteq Users
          /\ \A v \in DOMAIN portfolio' : portfolio'[v] \in Seq(Holding)
      BY <1>0, <1>1, <1>2, <2>1, StoreTyped, RemoveAtSeq
    <2>3. QED
      BY <1>0, <1>1, <1>2, <2>1, <2>2, ResultTyped, PUpdatesKeeps
         DEF PUpdateRemove
  <1>4. CASE old = 0
    <2>1. PReplies([t |-> "nothing"]) /\ UNCHANGED portfolio
      BY <1>4 DEF PUpdateRemove
    <2>2. [t |-> "nothing"] \in ReplyFromP /\ [t |-> "nothing"].t # "held"
      BY DEF ReplyFromP
    <2>3. QED
      BY <1>0, <2>1, <2>2, PUpdatesKeeps DEF PUpdateRemove, ServerTypeOK
  <1>5. QED
    BY <1>3, <1>4

(* An answer is taken out of the queue; nothing that Server P then sends is *)
(* mistaken for a reply of its own.                                         *)
LEMMA PConfirmationKeeps ==
  ASSUME IndexInv, PReceives("answer"),
         UNCHANGED <<priceIndex, mVars, cVars, portfolio, toA, toQ, c2m>>,
         toM' = toM \/ toM' = Append(toM, [t |-> "junk"]), pup' \in BOOLEAN
  PROVE  IndexInv'
  <1>0. /\ toP \in Seq(ToP) /\ toP # <<>> /\ toP' = Tail(toP)
        /\ toM \in Seq(ReplyFromA \cup ReplyFromQ \cup ReplyFromP)
    BY DEF IndexInv, ServerTypeOK, PReceives
  <1>1. [t |-> "junk"] \in ReplyFromP /\ ~FromP([t |-> "junk"])
    BY DEF ReplyFromP, FromP
  <1>2. toM' \in Seq(ReplyFromA \cup ReplyFromQ \cup ReplyFromP)
    BY <1>0, <1>1, AppendFacts
  <1>3. toP' \in Seq(ToP)
    BY <1>0, TailFacts
  <1>4. ServerTypeOK' /\ Serving'
    BY <1>2, <1>3, PFrame DEF IndexInv, ServerTypeOK
  <1>5. OneQuestion' /\ ValidUpdate'
    BY <1>0, TailFacts DEF IndexInv, OneQuestion, ValidUpdate, Valid, mVars
  <1>6. \A i \in DOMAIN toM' : ~FromP(toM'[i]) \/ (i \in DOMAIN toM /\ toM'[i] = toM[i])
    BY <1>0, <1>1, AppendFacts
  <1>7. OneReply'
    BY <1>0, <1>6, TailFacts DEF IndexInv, OneReply, mVars
  <1>8. ValidReply'
    BY <1>6 DEF IndexInv, ValidReply, Valid, FromP
  <1>9. ValidPos'
    BY DEF IndexInv, ValidPos, Valid, mVars
  <1>10. QED
    BY <1>4, <1>5, <1>7, <1>8, <1>9 DEF IndexInv

LEMMA PortfolioStepKeeps ==
  ASSUME IndexInv, PortfolioStep
  PROVE  IndexInv'
  <1>1. CASE PPosition
    BY <1>1, PPositionKeeps DEF PortfolioStep
  <1>2. CASE PCheck
    BY <1>2, PCheckKeeps DEF PortfolioStep
  <1>3. CASE PRetrieve
    BY <1>3, PRetrieveKeeps DEF PortfolioStep
  <1>4. CASE PUpdateNew
    BY <1>4, PUpdateNewKeeps DEF PortfolioStep
  <1>5. CASE PUpdateReplace
    BY <1>5, PUpdateReplaceKeeps DEF PortfolioStep
  <1>6. CASE PUpdateRemove
    BY <1>6, PUpdateRemoveKeeps DEF PortfolioStep
  <1>7. CASE PAnswer
    <2>1. pup \in BOOLEAN
      BY DEF IndexInv, ServerTypeOK
    <2>2. QED
      BY <1>7, <2>1, PConfirmationKeeps DEF PortfolioStep, PAnswer, tcpVars
  <1>8. CASE PFallsOff
    <2>1. pup \in BOOLEAN
      BY DEF IndexInv, ServerTypeOK
    <2>2. QED
      BY <1>8, <2>1, PConfirmationKeeps DEF PortfolioStep, PFallsOff, tcpVars
  <1>9. QED
    BY <1>1, <1>2, <1>3, <1>4, <1>5, <1>6, <1>7, <1>8 DEF PortfolioStep

----------------------------------------------------------------------------
(* Servers A and Q.                                                         *)

LEMMA OthersReply ==
  ASSUME IndexInv, UNCHANGED <<toP, portfolio, mVars>>, NEW m, ~FromP(m),
         toM' = toM \/ toM' = Append(toM, m)
  PROVE  OneQuestion' /\ OneReply' /\ ValidReply' /\ ValidPos' /\ ValidUpdate'
  <1>1. toM \in Seq(ReplyFromA \cup ReplyFromQ \cup ReplyFromP)
    BY DEF IndexInv, ServerTypeOK
  <1>2. \A i \in DOMAIN toM' : ~FromP(toM'[i]) \/ (i \in DOMAIN toM /\ toM'[i] = toM[i])
    BY <1>1, AppendFacts
  <1>3. OneReply'
    BY <1>2 DEF IndexInv, OneReply, mVars
  <1>4. ValidReply'
    BY <1>2 DEF IndexInv, ValidReply, Valid, FromP
  <1>5. OneQuestion' /\ ValidUpdate' /\ ValidPos'
    BY DEF IndexInv, OneQuestion, ValidUpdate, ValidPos, Valid, mVars
  <1>6. QED
    BY <1>3, <1>4, <1>5

LEMMA AuthStepKeeps ==
  ASSUME IndexInv, AuthStep
  PROVE  IndexInv'
  <1> DEFINE m == Head(toA)
             r == [t |-> "credentials", user |-> m.user,
                   status |-> IF matchCredentials(m.user, m.code)
                                THEN "SUCCESS" ELSE "FAILURE"]
  <1>1. toA \in Seq(CredentialsToA) /\ toA # <<>>
    BY DEF IndexInv, ServerTypeOK, AuthStep, AReply
  <1>2. m \in CredentialsToA /\ Tail(toA) \in Seq(CredentialsToA)
    BY <1>1, TailFacts
  <1>3. r \in ReplyFromA /\ ~FromP(r)
    BY <1>2 DEF CredentialsToA, ReplyFromA, FromP
  <1>4. toM' = Append(toM, r) /\ toA' = Tail(toA)
    BY DEF AuthStep, AReply
  <1> HIDE DEF r
  <1>5. toM' \in Seq(ReplyFromA \cup ReplyFromQ \cup ReplyFromP)
    BY <1>3, <1>4, AppendFacts DEF IndexInv, ServerTypeOK
  <1>6. ServerTypeOK' /\ Serving'
    BY <1>2, <1>4, <1>5 DEF IndexInv, ServerTypeOK, Serving, AuthStep, AReply,
       mVars, cVars, pVars, tcpVars
  <1>7. OneQuestion' /\ OneReply' /\ ValidReply' /\ ValidPos' /\ ValidUpdate'
    BY <1>3, <1>4, OthersReply DEF AuthStep, AReply, pVars
  <1>8. QED
    BY <1>6, <1>7 DEF IndexInv

LEMMA CurrentPriceTyped ==
  ASSUME ServerTypeOK, NEW s \in Listed
  PROVE  CurrentPrice(s) \in Int
  <1>1. Prices[s] \in Seq(Nat) /\ priceIndex[s] \in Nat
        /\ priceIndex[s] < Len(Prices[s])
    BY PricesAssumption DEF ServerTypeOK
  <1>2. priceIndex[s] + 1 \in 1 .. Len(Prices[s])
    BY <1>1, LenProperties
  <1>3. Prices[s][priceIndex[s] + 1] \in Nat
    BY <1>1, <1>2, ElementOfSeq
  <1> DEFINE p == Prices[s][priceIndex[s] + 1]
  <1>4. p \in Int /\ p # NaN
    BY <1>3, NaNAssumption
  <1> HIDE DEF p
  <1>5. RoundDiv(p, Cent) \in Int
    BY <1>4, RoundDivInt, CentAssumption
  <1>6. QED
    BY <1>4, <1>5, CentAssumption DEF CurrentPrice, RoundCent, p

LEMMA QuoteStepKeeps ==
  ASSUME IndexInv, QuoteStep
  PROVE  IndexInv'
  <1>0. ServerTypeOK
    BY DEF IndexInv
  <1> DEFINE H == Head(toQ)
  <1>1. /\ toQ \in Seq(QuoteToQ \cup UpdateToQ) /\ toQ # <<>>
        /\ toQ' = Tail(toQ)
    BY <1>0 DEF ServerTypeOK, QuoteStep, QQuote, QQuoteAll, QUpdate, QReceives
  <1>2. H \in QuoteToQ \cup UpdateToQ
        /\ toQ' \in Seq(QuoteToQ \cup UpdateToQ)
    BY <1>1, TailFacts
  <1> HIDE DEF H
  <1>3. SUFFICES /\ \E m \in ReplyFromQ :
                      ~FromP(m) /\ (toM' = toM \/ toM' = Append(toM, m))
                 /\ priceIndex' \in [Listed -> Nat]
                 /\ \A s \in Listed : priceIndex'[s] < Len(Prices[s])
    <2>1. PICK m \in ReplyFromQ :
                ~FromP(m) /\ (toM' = toM \/ toM' = Append(toM, m))
      BY <1>3
    <2>2. toM' \in Seq(ReplyFromA \cup ReplyFromQ \cup ReplyFromP)
      <3>1. /\ toM \in Seq(ReplyFromA \cup ReplyFromQ \cup ReplyFromP)
            /\ m \in ReplyFromA \cup ReplyFromQ \cup ReplyFromP
        BY <1>0 DEF ServerTypeOK
      <3>2. QED
        BY <2>1, <3>1, AppendFacts
    <2>3. UNCHANGED <<toA, toP, tcpVars, pVars, mVars, cVars>>
      BY DEF QuoteStep, QQuote, QQuoteAll, QUpdate
    <2>4. ServerTypeOK' /\ Serving'
      BY <1>0, <1>2, <1>3, <2>2, <2>3 DEF IndexInv, ServerTypeOK, Serving,
         mVars, cVars, pVars, tcpVars
    <2>5. OneQuestion' /\ OneReply' /\ ValidReply' /\ ValidPos' /\ ValidUpdate'
      BY <2>1, <2>3, OthersReply DEF pVars
    <2>6. QED
      BY <2>4, <2>5 DEF IndexInv
  <1>4. CASE QQuote
    <2> DEFINE r == [t |-> "quote", stock |-> H.stock, price |-> QuoteOf(H.stock)]
    <2>1. H.stock \in Stocks
      BY <1>2, <1>4 DEF QuoteToQ, UpdateToQ, QQuote, QReceives, H
    <2>2. QuoteOf(H.stock) \in Int \cup {NA}
      BY <1>0, CurrentPriceTyped DEF QuoteOf
    <2>3. r \in ReplyFromQ /\ ~FromP(r)
      BY <2>1, <2>2 DEF ReplyFromQ, FromP
    <2>4. toM' = Append(toM, r) /\ UNCHANGED priceIndex
      BY <1>4 DEF QQuote, H
    <2>5. QED
      BY <1>0, <2>3, <2>4 DEF ServerTypeOK
  <1>5. CASE QQuoteAll
    <2> DEFINE r == [t |-> "quoteall", prices |-> [s \in Listed |-> CurrentPrice(s)]]
    <2>1. [s \in Listed |-> CurrentPrice(s)] \in [Listed -> Int]
      BY <1>0, CurrentPriceTyped
    <2>2. r \in ReplyFromQ /\ ~FromP(r)
      BY <2>1 DEF ReplyFromQ, FromP
    <2>3. toM' = Append(toM, r) /\ UNCHANGED priceIndex
      BY <1>5 DEF QQuoteAll
    <2>4. QED
      BY <1>0, <2>2, <2>3 DEF ServerTypeOK
  <1>6. CASE QUpdate
    <2>1. [t |-> "quoteall", prices |-> [s \in Listed |-> 0]] \in ReplyFromQ
          /\ ~FromP([t |-> "quoteall", prices |-> [s \in Listed |-> 0]])
      BY DEF ReplyFromQ, FromP
    <2>2. toM' = toM
      BY <1>6 DEF QUpdate
    <2>3. ASSUME NEW s \in Listed
          PROVE  NextIndex(s) \in Nat /\ NextIndex(s) < Len(Prices[s])
      <3>1. /\ Len(Prices[s]) \in Nat /\ Len(Prices[s]) # 0
            /\ priceIndex[s] \in Nat /\ priceIndex[s] < Len(Prices[s])
        BY <1>0, PricesAssumption, EmptySeq, LenProperties DEF ServerTypeOK
      <3>2. QED
        BY <3>1 DEF NextIndex
    <2>4. priceIndex' = [s \in Listed |-> IF s = Head(toQ).stock
                                            THEN NextIndex(s) ELSE priceIndex[s]]
      BY <1>6 DEF QUpdate
    <2>5. priceIndex' \in [Listed -> Nat]
      BY <1>0, <2>3, <2>4 DEF ServerTypeOK
    <2>6. \A s \in Listed : priceIndex'[s] < Len(Prices[s])
      BY <1>0, <2>3, <2>4 DEF ServerTypeOK
    <2>7. QED
      BY <2>1, <2>2, <2>5, <2>6
  <1>7. QED
    BY <1>4, <1>5, <1>6 DEF QuoteStep

----------------------------------------------------------------------------
(* Server M.                                                                *)

(* The invariant does not read what is on its way to clients, the state of  *)
(* their connections or what they display.                                  *)
LEMMA Unread ==
  ASSUME IndexInv,
         UNCHANGED <<toA, toQ, toP, toM, c2m, priceIndex, portfolio, pup, mpc,
                     cur, req, offer, verdict, pos, confirmation, cpc, member>>
  PROVE  IndexInv'
  BY DEF IndexInv, ServerTypeOK, Serving, OneQuestion, OneReply, ValidReply,
         ValidPos, ValidUpdate, Valid

LEMMA MFrame ==
  ASSUME IndexInv, UNCHANGED <<priceIndex, pVars, cVars>>,
         toA' \in Seq(CredentialsToA), toQ' \in Seq(QuoteToQ \cup UpdateToQ),
         toP' \in Seq(ToP),
         toM' \in Seq(ReplyFromA \cup ReplyFromQ \cup ReplyFromP),
         c2m' \in [Clients -> Seq(ClientMsg)],
         mpc' \in Programs \cup {"poll", "dead", "desync"},
         cur' \in Clients \cup {NA}, req' \in ClientMsg \cup {NA},
         offer' \in Int \cup {NA}, verdict' \in {"PASS", "FAIL", "NOMATCH", NA},
         pos' \in ReplyFromP \cup {NA}, confirmation' \in Answers \cup {NA}
  PROVE  ServerTypeOK'
  BY DEF IndexInv, ServerTypeOK, pVars, cVars

(* M goes on serving, with no reply of Server P on its way.                 *)
LEMMA GoOnKeeps ==
  ASSUME ServerTypeOK', NoReply', OneQuestion', ValidUpdate', ValidPos',
         cur' \in Clients,
         mpc' \in Trading => req' \in ClientMsg /\ req'.t = "transact"
  PROVE  IndexInv'
  BY NoReplyKeeps DEF IndexInv, Serving

(* M is done with a request. *)
LEMMA ReturnKeeps ==
  ASSUME IndexInv, Return, UNCHANGED <<priceIndex, pVars, cVars, toA>>,
         toQ' \in Seq(QuoteToQ \cup UpdateToQ), toP' \in Seq(ToP),
         toM' \in Seq(ReplyFromA \cup ReplyFromQ \cup ReplyFromP),
         c2m' \in [Clients -> Seq(ClientMsg)], NoQuestion', NoReply'
  PROVE  IndexInv'
  <1>1. ServerTypeOK'
    BY MFrame DEF Return, IndexInv, ServerTypeOK
  <1>2. Serving' /\ ValidPos'
    BY DEF Return, Serving, Programs, Trading, ValidPos
  <1>3. QED
    BY <1>1, <1>2, NoReplyKeeps, NoQuestionKeeps DEF IndexInv

LEMMA LostKeeps ==
  ASSUME IndexInv, mpc' \in Lost,
         UNCHANGED <<priceIndex, pVars, cVars, cur, req, offer, verdict, pos,
                     confirmation, toA, toQ, toP, c2m>>,
         toM' = toM \/ (toM # <<>> /\ toM' = Tail(toM))
  PROVE  IndexInv'
  <1>1. toM \in Seq(ReplyFromA \cup ReplyFromQ \cup ReplyFromP)
    BY DEF IndexInv, ServerTypeOK
  <1>2. toM' \in Seq(ReplyFromA \cup ReplyFromQ \cup ReplyFromP)
    BY <1>1, TailFacts
  <1>3. ServerTypeOK'
    BY <1>2, MFrame DEF IndexInv, ServerTypeOK, Lost
  <1>4. Serving' /\ ValidPos' /\ OneQuestion' /\ ValidUpdate'
    BY DEF Lost, Serving, Programs, Trading, ValidPos, OneQuestion, IndexInv,
           ValidUpdate, Valid, pVars
  <1>5. CASE toM' = toM
    BY <1>3, <1>4, <1>5 DEF IndexInv, OneReply, ValidReply, Valid, pVars
  <1>6. CASE toM # <<>> /\ toM' = Tail(toM)
    <2>1. \A i \in DOMAIN toM' : i + 1 \in DOMAIN toM /\ toM'[i] = toM[i + 1]
      BY <1>1, <1>6, TailFacts
    <2>2. OneReply'
      BY <1>1, <1>2, <2>1 DEF IndexInv, OneReply
    <2>3. ValidReply'
      BY <2>1 DEF IndexInv, ValidReply, Valid, pVars
    <2>4. QED
      BY <1>3, <1>4, <2>2, <2>3 DEF IndexInv
  <1>7. QED
    BY <1>5, <1>6

----------------------------------------------------------------------------
(* M takes up a request. *)

LEMMA TakeAllTyped ==
  ASSUME ServerTypeOK, NEW c \in Clients, TakeAll(c)
  PROVE  c2m' \in [Clients -> Seq(ClientMsg)]
  BY DEF ServerTypeOK, TakeAll

LEMMA ReadsFacts ==
  ASSUME IndexInv, NEW c \in Clients, NEW type, Reads(c, type)
  PROVE  /\ Head(c2m[c]) \in ClientMsg /\ Head(c2m[c]).t = type
         /\ c2m' \in [Clients -> Seq(ClientMsg)]
         /\ NoQuestion /\ NoReply
         /\ cur' \in Clients /\ req' \in ClientMsg /\ req'.t = type
  <1>1. c2m[c] \in Seq(ClientMsg) /\ c2m[c] # <<>>
    BY DEF IndexInv, ServerTypeOK, Reads
  <1>2. Head(c2m[c]) \in ClientMsg
    BY <1>1, TailFacts
  <1>3. NoQuestion /\ NoReply
    BY QuietP DEF Reads, WaitsForP, Lost
  <1>4. c2m' \in [Clients -> Seq(ClientMsg)]
    BY TakeAllTyped DEF IndexInv, Reads
  <1>5. QED
    BY <1>2, <1>3, <1>4 DEF Reads

(* M has read a request and asks a server other than P.                     *)
LEMMA ReadsKeeps ==
  ASSUME IndexInv, UNCHANGED <<priceIndex, pVars, cVars, toP>>,
         NEW c \in Clients, NEW type, Reads(c, type),
         toA' \in Seq(CredentialsToA), toQ' \in Seq(QuoteToQ \cup UpdateToQ),
         mpc' \in {"auth", "quote", "offer"},
         mpc' = "offer" => type = "transact"
  PROVE  IndexInv'
  <1>1. /\ c2m' \in [Clients -> Seq(ClientMsg)]
        /\ NoQuestion /\ NoReply
        /\ cur' \in Clients /\ req' \in ClientMsg /\ req'.t = type
    BY ReadsFacts
  <1>2. ServerTypeOK'
    BY <1>1, MFrame DEF IndexInv, ServerTypeOK, Programs, Reads
  <1>3. NoReply' /\ NoQuestion'
    BY <1>1 DEF Reads, NoReply, NoQuestion
  <1>4. ValidPos'
    BY DEF ValidPos
  <1>5. QED
    BY <1>1, <1>2, <1>3, <1>4, NoQuestionKeeps, GoOnKeeps DEF Trading

LEMMA MLoginKeeps ==
  ASSUME IndexInv, NEW c \in Clients, MLogin(c),
         UNCHANGED <<priceIndex, pVars, cVars>>
  PROVE  IndexInv'
  <1> DEFINE m == Head(c2m[c])
             a == [t |-> "credentials", user |-> m.user,
                   code |-> Encrypt[m.password]]
  <1>1. m \in ClientMsg /\ m.t = "credentials"
    BY ReadsFacts DEF MLogin
  <1>2. m.user \in Names /\ m.password \in Passwords
    BY <1>1 DEF ClientMsg
  <1>3. a \in CredentialsToA
    BY <1>2, EncryptAssumption DEF CredentialsToA
  <1>4. toA' = Append(toA, a)
    BY DEF MLogin
  <1> HIDE DEF a
  <1>5. toA' \in Seq(CredentialsToA) /\ toQ' \in Seq(QuoteToQ \cup UpdateToQ)
    BY <1>3, <1>4, AppendFacts DEF IndexInv, ServerTypeOK, MLogin
  <1>6. QED
    BY <1>5, ReadsKeeps DEF MLogin

LEMMA ToQTyped ==
  ASSUME ServerTypeOK, NEW m \in QuoteToQ \cup UpdateToQ, ToQ(m)
  PROVE  toQ' \in Seq(QuoteToQ \cup UpdateToQ)
  BY AppendFacts DEF ServerTypeOK, ToQ

LEMMA MQuoteKeeps ==
  ASSUME IndexInv, NEW c \in Clients, NEW type, MQuote(c, type),
         UNCHANGED <<priceIndex, pVars, cVars>>
  PROVE  IndexInv'
  <1> DEFINE m == Head(c2m[c])
  <1>1. m \in ClientMsg /\ m.t = type
    BY ReadsFacts DEF MQuote
  <1>2. m \in QuoteToQ
    BY <1>1 DEF ClientMsg, QuoteToQ, MQuote
  <1>3. toQ' \in Seq(QuoteToQ \cup UpdateToQ)
    BY <1>2, ToQTyped DEF MQuote, IndexInv
  <1>4. QED
    BY <1>3, ReadsKeeps DEF MQuote, IndexInv, ServerTypeOK

LEMMA MTransactKeeps ==
  ASSUME IndexInv, NEW c \in Clients, MTransact(c),
         UNCHANGED <<priceIndex, pVars, cVars>>
  PROVE  IndexInv'
  <1> DEFINE m == Head(c2m[c])
             q == [t |-> "quote", stock |-> m.stock]
  <1>1. m \in ClientMsg /\ m.t = "transact"
    BY ReadsFacts DEF MTransact
  <1>2. m.stock \in Stocks
    BY <1>1 DEF ClientMsg
  <1>3. q \in QuoteToQ
    BY <1>2 DEF QuoteToQ
  <1>4. toQ' \in Seq(QuoteToQ \cup UpdateToQ)
    BY <1>3, ToQTyped DEF MTransact, IndexInv
  <1>5. QED
    BY <1>4, ReadsKeeps DEF MTransact, IndexInv, ServerTypeOK

LEMMA MPositionKeeps ==
  ASSUME IndexInv, NEW c \in Clients, MPosition(c),
         UNCHANGED <<priceIndex, pVars, cVars>>
  PROVE  IndexInv'
  <1>1. PICK m : m = [t |-> "position", user |-> Head(c2m[c]).user]
    OBVIOUS
  <1>2. /\ Head(c2m[c]) \in ClientMsg /\ Head(c2m[c]).t = "position"
        /\ c2m' \in [Clients -> Seq(ClientMsg)]
        /\ NoQuestion /\ NoReply
        /\ cur' \in Clients /\ req' \in ClientMsg
    BY ReadsFacts DEF MPosition
  <1>3. m \in ToP
    BY <1>1, <1>2 DEF ClientMsg, ToP
  <1>4. toP' = Append(toP, m) /\ mpc' = "portfolio"
    BY <1>1 DEF MPosition
  <1>5. toP' \in Seq(ToP)
    BY <1>3, <1>4, AppendFacts DEF IndexInv, ServerTypeOK
  <1>6. ServerTypeOK'
    BY <1>2, <1>4, <1>5, MFrame DEF IndexInv, ServerTypeOK, Programs, Reads,
       MPosition
  <1>7. OneQuestion' /\ ValidUpdate'
    BY <1>1, <1>2, <1>4, MAsks DEF IndexInv, WaitsForP
  <1>8. NoReply' /\ ValidPos'
    BY <1>2, <1>4 DEF MPosition, Reads, NoReply, ValidPos
  <1>9. QED
    BY <1>2, <1>4, <1>6, <1>7, <1>8, GoOnKeeps DEF Trading

LEMMA ServeStepKeeps ==
  ASSUME IndexInv, NEW c \in Clients, ServeStep(c)
  PROVE  IndexInv'
  <1>1. CASE MLogin(c)
    BY <1>1, MLoginKeeps DEF ServeStep
  <1>2. CASE MPosition(c)
    BY <1>2, MPositionKeeps DEF ServeStep
  <1>3. CASE MTransact(c)
    BY <1>3, MTransactKeeps DEF ServeStep
  <1>4. CASE MClose(c)
    BY <1>4, Unread DEF ServeStep, MClose, mVars, udpVars, pVars, cVars
  <1>5. CASE \E type \in {"quote", "quoteall"} : MQuote(c, type)
    BY <1>5, MQuoteKeeps DEF ServeStep
  <1>6. QED
    BY <1>1, <1>2, <1>3, <1>4, <1>5 DEF ServeStep

----------------------------------------------------------------------------
(* M hears a reply.  If Server P sent it, that was the only thing under way *)
(* between the two; if M does not wait for P, nothing is.                   *)

LEMMA HearsFacts ==
  ASSUME IndexInv, NEW pc, NEW type, Hears(pc, type)
  PROVE  /\ toM # <<>> /\ Head(toM).t = type /\ toM' = Tail(toM)
         /\ Head(toM) \in ReplyFromA \cup ReplyFromQ \cup ReplyFromP
         /\ toM' \in Seq(ReplyFromA \cup ReplyFromQ \cup ReplyFromP)
         /\ 1 \in DOMAIN toM /\ Head(toM) = toM[1]
  BY TailFacts DEF IndexInv, ServerTypeOK, Hears

LEMMA HearsOthers ==
  ASSUME IndexInv, NEW pc, NEW type, Hears(pc, type),
         pc \notin WaitsForP \cup Lost
  PROVE  NoQuestion /\ NoReply'
  <1>1. NoQuestion /\ NoReply
    BY QuietP DEF Hears
  <1>2. QED
    BY <1>1, HearsFacts, HeardOther DEF IndexInv

LEMMA HearsP ==
  ASSUME IndexInv, NEW pc, NEW type, Hears(pc, type),
         type \in {"position", "check", "held", "result", "nothing"}
  PROVE  NoQuestion /\ NoReply'
  BY HearsFacts, HeardP DEF FromP

(* The order being carried out. *)
LEMMA OrderTyped ==
  ASSUME IndexInv, mpc \in Trading
  PROVE  /\ cur \in Clients /\ req \in ClientMsg /\ req.t = "transact"
         /\ req.op \in {"buy", "sell"} /\ req.user \in Names
         /\ req.stock \in Stocks /\ req.shares \in CInt
         /\ Tick => toQ' \in Seq(QuoteToQ \cup UpdateToQ)
  <1>1. cur \in Clients /\ req \in ClientMsg /\ req.t = "transact"
    BY DEF IndexInv, Serving, Trading, Programs
  <1>2. /\ req.op \in {"buy", "sell"} /\ req.user \in Names
        /\ req.stock \in Stocks /\ req.shares \in CInt
    BY <1>1 DEF ClientMsg
  <1>3. [t |-> "update", stock |-> req.stock] \in QuoteToQ \cup UpdateToQ
    BY <1>2 DEF UpdateToQ
  <1>4. Tick => toQ' \in Seq(QuoteToQ \cup UpdateToQ)
    BY <1>3, ToQTyped DEF IndexInv, Tick
  <1>5. QED
    BY <1>1, <1>2, <1>4

(* M passes a reply on and is done. *)
LEMMA AnswersClientKeeps ==
  ASSUME IndexInv, UNCHANGED <<priceIndex, pVars, cVars, toA, toP, c2m>>,
         NoQuestion, NoReply',
         toM' \in Seq(ReplyFromA \cup ReplyFromQ \cup ReplyFromP),
         toQ' \in Seq(QuoteToQ \cup UpdateToQ), Return
  PROVE  IndexInv'
  <1>1. NoQuestion'
    BY DEF NoQuestion
  <1>2. QED
    BY <1>1, ReturnKeeps DEF IndexInv, ServerTypeOK

LEMMA MAuthKeeps ==
  ASSUME IndexInv, MAuth, UNCHANGED <<priceIndex, pVars, cVars>>
  PROVE  IndexInv'
  <1>1. NoQuestion /\ NoReply'
    BY HearsOthers DEF MAuth, WaitsForP, Lost
  <1>2. QED
    BY <1>1, HearsFacts, AnswersClientKeeps DEF MAuth, IndexInv, ServerTypeOK

LEMMA MGainKeeps ==
  ASSUME IndexInv, MGain, UNCHANGED <<priceIndex, pVars, cVars>>
  PROVE  IndexInv'
  <1>1. NoQuestion /\ NoReply'
    BY HearsOthers DEF MGain, WaitsForP, Lost
  <1>2. QED
    BY <1>1, HearsFacts, AnswersClientKeeps DEF MGain, IndexInv, ServerTypeOK

LEMMA MQuoteReplyKeeps ==
  ASSUME IndexInv, MQuoteReply, UNCHANGED <<priceIndex, pVars, cVars>>
  PROVE  IndexInv'
  <1>1. NoQuestion /\ NoReply'
    BY HearsOthers DEF MQuoteReply, WaitsForP, Lost
  <1>2. toM' \in Seq(ReplyFromA \cup ReplyFromQ \cup ReplyFromP)
    BY HearsFacts DEF MQuoteReply
  <1>3. QED
    BY <1>1, <1>2, AnswersClientKeeps DEF MQuoteReply, IndexInv, ServerTypeOK

LEMMA MPortfolioKeeps ==
  ASSUME IndexInv, MPortfolio, UNCHANGED <<priceIndex, pVars, cVars>>
  PROVE  IndexInv'
  <1>1. NoQuestion /\ NoReply'
    BY HearsP DEF MPortfolio
  <1>2. /\ Head(toM) \in ReplyFromA \cup ReplyFromQ \cup ReplyFromP
        /\ Head(toM).t = "position"
        /\ toM' \in Seq(ReplyFromA \cup ReplyFromQ \cup ReplyFromP)
    BY HearsFacts DEF MPortfolio
  <1>3. pos' \in ReplyFromP
    BY <1>2 DEF ReplyFromA, ReplyFromQ, MPortfolio
  <1>4. toQ' \in Seq(QuoteToQ \cup UpdateToQ)
    BY ToQTyped DEF MPortfolio, IndexInv, QuoteToQ
  <1>5. cur \in Clients
    BY DEF MPortfolio, Hears, IndexInv, Serving, Programs
  <1>6. ServerTypeOK'
    BY <1>2, <1>3, <1>4, MFrame DEF IndexInv, ServerTypeOK, MPortfolio,
       Programs, tcpVars
  <1>7. NoQuestion' /\ ValidPos'
    BY <1>1 DEF MPortfolio, NoQuestion, ValidPos
  <1>8. QED
    BY <1>1, <1>5, <1>6, <1>7, NoQuestionKeeps, GoOnKeeps
       DEF MPortfolio, Trading

----------------------------------------------------------------------------
(* Buy. *)

LEMMA MBuyOfferKeeps ==
  ASSUME IndexInv, MBuyOffer, UNCHANGED <<priceIndex, pVars, cVars>>
  PROVE  IndexInv'
  <1>1. NoQuestion /\ NoReply'
    BY HearsOthers DEF MBuyOffer, WaitsForP, Lost
  <1>2. /\ Head(toM) \in ReplyFromA \cup ReplyFromQ \cup ReplyFromP
        /\ Head(toM).t = "quote"
        /\ toM' \in Seq(ReplyFromA \cup ReplyFromQ \cup ReplyFromP)
    BY HearsFacts DEF MBuyOffer
  <1>3. offer' \in Int \cup {NA}
    BY <1>2 DEF ReplyFromA, ReplyFromQ, ReplyFromP, MBuyOffer
  <1>4. cur \in Clients /\ req \in ClientMsg /\ req.t = "transact"
    BY OrderTyped DEF MBuyOffer, Trading
  <1>5. ServerTypeOK'
    BY <1>2, <1>3, MFrame DEF IndexInv, ServerTypeOK, MBuyOffer, Programs
  <1>6. NoQuestion' /\ ValidPos'
    BY <1>1 DEF MBuyOffer, NoQuestion, ValidPos
  <1>7. QED
    BY <1>1, <1>4, <1>5, <1>6, NoQuestionKeeps, GoOnKeeps DEF MBuyOffer

(* M reads the client's answer. *)
LEMMA HearsClientFacts ==
  ASSUME IndexInv, NEW pc, HearsClient(pc), pc \in {"buy_answer", "sell_answer"}
  PROVE  /\ mpc = pc /\ mpc \in Trading
         /\ c2m' \in [Clients -> Seq(ClientMsg)]
         /\ NoQuestion /\ NoReply
         /\ AnswerRead \in Answers
         /\ AnswerToP \in ToP /\ AnswerToP.t = "answer"
  <1>1. mpc = pc /\ mpc \in Trading
    BY DEF HearsClient, Trading
  <1>2. cur \in Clients /\ req.op \in {"buy", "sell"}
    BY <1>1, OrderTyped
  <1>3. c2m' \in [Clients -> Seq(ClientMsg)]
    BY <1>2, TakeAllTyped DEF IndexInv, HearsClient
  <1>4. NoQuestion /\ NoReply
    BY <1>1, QuietP DEF WaitsForP, Lost
  <1>5. AnswerRead \in Answers
    <2>1. c2m[cur] \in Seq(ClientMsg)
      BY <1>2 DEF IndexInv, ServerTypeOK
    <2>2. CASE c2m[cur] # <<>> /\ Head(c2m[cur]).t = "answer"
      <3>1. Head(c2m[cur]) \in ClientMsg
        BY <2>1, <2>2, TailFacts
      <3>2. Head(c2m[cur]).text \in Answers
        BY <2>2, <3>1 DEF ClientMsg
      <3>3. QED
        BY <2>2, <3>2 DEF AnswerRead
    <2>3. CASE ~(c2m[cur] # <<>> /\ Head(c2m[cur]).t = "answer")
      BY <2>3 DEF AnswerRead, Answers
    <2>4. QED
      BY <2>2, <2>3
  <1>6. AnswerToP \in ToP /\ AnswerToP.t = "answer"
    BY <1>2, <1>5 DEF AnswerToP, ToP
  <1>7. QED
    BY <1>1, <1>3, <1>4, <1>5, <1>6

LEMMA MBuyDeniedKeeps ==
  ASSUME IndexInv, MBuyDenied, UNCHANGED <<priceIndex, pVars, cVars>>
  PROVE  IndexInv'
  <1>1. mpc \in Trading /\ NoQuestion /\ NoReply
        /\ c2m' \in [Clients -> Seq(ClientMsg)]
    BY HearsClientFacts DEF MBuyDenied
  <1>2. toQ' \in Seq(QuoteToQ \cup UpdateToQ)
    BY <1>1, OrderTyped DEF MBuyDenied
  <1>3. NoQuestion' /\ NoReply'
    BY <1>1 DEF NoQuestion, NoReply, MBuyDenied
  <1>4. QED
    BY <1>1, <1>2, <1>3, ReturnKeeps DEF MBuyDenied, IndexInv, ServerTypeOK

LEMMA ToPTwoTyped ==
  ASSUME ServerTypeOK, NEW a \in ToP, NEW m \in ToP, toP' = toP \o <<a, m>>
  PROVE  toP' \in Seq(ToP)
  BY DEF ServerTypeOK

LEMMA MBuyApprovedKeeps ==
  ASSUME IndexInv, MBuyApproved, UNCHANGED <<priceIndex, pVars, cVars>>
  PROVE  IndexInv'
  <1>0. PICK a, m : a = AnswerToP /\ m = Retrieve
    OBVIOUS
  <1>1. /\ mpc \in Trading /\ NoQuestion /\ NoReply
        /\ c2m' \in [Clients -> Seq(ClientMsg)]
        /\ AnswerRead \in Answers /\ a \in ToP /\ a.t = "answer"
    BY <1>0, HearsClientFacts DEF MBuyApproved
  <1>2. /\ cur \in Clients /\ req \in ClientMsg /\ req.t = "transact"
        /\ req.user \in Names /\ req.stock \in Stocks
    BY <1>1, OrderTyped
  <1>3. m \in ToP /\ m.t = "retrieve"
    BY <1>0, <1>2 DEF Retrieve, ToP
  <1>4. toP' = toP \o <<a, m>> /\ mpc' = "buy_held"
    BY <1>0 DEF MBuyApproved
  <1>5. toP' \in Seq(ToP)
    BY <1>1, <1>3, <1>4, ToPTwoTyped DEF IndexInv
  <1>6. ServerTypeOK'
    BY <1>1, <1>4, <1>5, MFrame DEF IndexInv, ServerTypeOK, MBuyApproved, Programs
  <1>7. OneQuestion' /\ ValidUpdate'
    BY <1>1, <1>3, <1>4, MAsksTwo DEF IndexInv, WaitsForP
  <1>8. NoReply' /\ ValidPos'
    BY <1>1, <1>4 DEF MBuyApproved, NoReply, ValidPos
  <1>9. QED
    BY <1>2, <1>6, <1>7, <1>8, GoOnKeeps DEF MBuyApproved

(* A "held" reply that names a stock, as M reads it. *)
LEMMA HeldFacts ==
  ASSUME IndexInv, NEW pc, Hears(pc, "held")
  PROVE  LET h == Head(toM)
         IN  /\ h \in ReplyFromP /\ h.t = "held"
             /\ h.stock # NA => Valid(h)
             /\ h.stock # NA => h.user \in Users /\ h.stock \in Stocks
                                /\ h.index \in Int
             /\ h.shares # NA => h.stock # NA /\ h.shares \in CInt
                                 /\ h.price \in Money
  <1> DEFINE h == Head(toM)
  <1>1. /\ h \in ReplyFromA \cup ReplyFromQ \cup ReplyFromP
        /\ h.t = "held" /\ 1 \in DOMAIN toM /\ h = toM[1]
    BY HearsFacts
  <1>2. h.stock # NA => Valid(h)
    BY <1>1 DEF IndexInv, ValidReply
  <1> HIDE DEF h
  <1>3. h \in ReplyFromP
    BY <1>1 DEF ReplyFromA, ReplyFromQ
  <1>4. \/ h \in [t : {"held"}, user : Users, stock : Stocks,
                  shares : CInt, price : Money, index : Nat]
        \/ h \in [t : {"held"}, user : Users, stock : Stocks \cup {NA},
                  shares : {NA}, price : {NA}, index : {-1}]
    BY <1>1, <1>3 DEF ReplyFromP
  <1>5. /\ h.stock # NA => h.user \in Users /\ h.stock \in Stocks
                           /\ h.index \in Int
        /\ h.shares # NA => h.stock # NA /\ h.shares \in CInt
                            /\ h.price \in Money
    BY <1>4, NAAssumption
  <1>6. QED
    BY <1>1, <1>2, <1>3, <1>5 DEF h

(* The update carries the index, the user and the stock of that reply.      *)
LEMMA UpdatePFacts ==
  ASSUME NEW h, Valid(h), h.user \in Users, h.stock \in Stocks, h.index \in Int,
         NEW n \in CInt, NEW p \in Money
  PROVE  /\ UpdateP(h, n, p) \in ToP
         /\ UpdateP(h, n, p).t = "update" /\ Valid(UpdateP(h, n, p))
  BY DEF UpdateP, ToP, Valid

LEMMA MBuyUpdateKeeps ==
  ASSUME IndexInv, MBuyUpdate, UNCHANGED <<priceIndex, pVars, cVars>>
  PROVE  IndexInv'
  <1>0. PICK m : m = Bought(Head(toM))
    OBVIOUS
  <1> DEFINE h == Head(toM)
  <1>1. /\ NoQuestion /\ NoReply'
        /\ toM' \in Seq(ReplyFromA \cup ReplyFromQ \cup ReplyFromP)
    BY HearsP, HearsFacts DEF MBuyUpdate
  <1>2. /\ cur \in Clients /\ req \in ClientMsg /\ req.t = "transact"
        /\ req.stock \in Stocks /\ req.shares \in CInt
    BY OrderTyped DEF MBuyUpdate, Hears, Trading
  <1>3. /\ Valid(h) /\ h.user \in Users /\ h.stock \in Stocks /\ h.index \in Int
        /\ h.shares # NA => h.shares \in CInt /\ h.price \in Money
    BY <1>2, HeldFacts, NAAssumption DEF MBuyUpdate
  <1>4. offer \in Money
    BY DEF MBuyUpdate, IndexInv, ServerTypeOK, Money
  <1> HIDE DEF h
  <1>5. m \in ToP /\ m.t = "update" /\ Valid(m)
    <2>1. CASE h.shares = NA
      <3>1. avgBuyPrice(req.shares, offer) \in Money
        BY <1>2, <1>4, AvgBuyPriceMoney
      <3>2. m = UpdateP(h, req.shares, avgBuyPrice(req.shares, offer))
        BY <1>0, <2>1 DEF Bought, h
      <3>3. QED
        BY <1>2, <1>3, <3>1, <3>2, UpdatePFacts
    <2>2. CASE h.shares # NA
      <3>1. avgBuyPriceNew(req.shares, offer, h.shares, h.price) \in Money
        BY <1>2, <1>3, <1>4, <2>2, AvgBuyPriceNewMoney
      <3>2. Wrap(req.shares + h.shares) \in CInt
        BY <1>2, <1>3, <2>2, WrapInt
      <3>3. m = UpdateP(h, Wrap(req.shares + h.shares),
                  avgBuyPriceNew(req.shares, offer, h.shares, h.price))
        BY <1>0, <2>2 DEF Bought, h
      <3>4. QED
        BY <1>3, <3>1, <3>2, <3>3, UpdatePFacts
    <2>3. QED
      BY <2>1, <2>2
  <1>6. toP' = Append(toP, m) /\ mpc' = "update"
    BY <1>0 DEF MBuyUpdate
  <1>7. toP' \in Seq(ToP)
    BY <1>5, <1>6, AppendFacts DEF IndexInv, ServerTypeOK
  <1>8. ServerTypeOK'
    BY <1>1, <1>6, <1>7, MFrame DEF IndexInv, ServerTypeOK, MBuyUpdate,
       Programs, tcpVars
  <1>9. Valid(m)'
    BY <1>5 DEF Valid, pVars
  <1>10. OneQuestion' /\ ValidUpdate'
    BY <1>1, <1>6, <1>9, MAsks DEF IndexInv, WaitsForP
  <1>11. ValidPos'
    BY <1>6 DEF ValidPos
  <1>12. QED
    BY <1>1, <1>2, <1>8, <1>10, <1>11, GoOnKeeps DEF MBuyUpdate

LEMMA MBuyNobodyKeeps ==
  ASSUME IndexInv, MBuyNobody, UNCHANGED <<priceIndex, pVars, cVars>>
  PROVE  IndexInv'
  <1>1. NoQuestion /\ NoReply'
    BY HearsP DEF MBuyNobody
  <1>2. QED
    BY <1>1, HearsFacts, AnswersClientKeeps
       DEF MBuyNobody, IndexInv, ServerTypeOK, tcpVars

----------------------------------------------------------------------------
(* Sell. *)

LEMMA MSellQuotedKeeps ==
  ASSUME IndexInv, MSellQuoted, UNCHANGED <<priceIndex, pVars, cVars>>
  PROVE  IndexInv'
  <1>0. PICK m : m = [t |-> "check", user |-> req.user, stock |-> req.stock,
                      shares |-> req.shares]
    OBVIOUS
  <1>1. /\ NoQuestion /\ NoReply'
    BY HearsOthers DEF MSellQuoted, WaitsForP, Lost
  <1>2. /\ Head(toM) \in ReplyFromA \cup ReplyFromQ \cup ReplyFromP
        /\ Head(toM).t = "quote"
        /\ toM' \in Seq(ReplyFromA \cup ReplyFromQ \cup ReplyFromP)
    BY HearsFacts DEF MSellQuoted
  <1>3. offer' \in Int \cup {NA}
    BY <1>2 DEF ReplyFromA, ReplyFromQ, ReplyFromP, MSellQuoted
  <1>4. /\ cur \in Clients /\ req \in ClientMsg /\ req.t = "transact"
        /\ req.user \in Names /\ req.stock \in Stocks /\ req.shares \in CInt
    BY OrderTyped DEF MSellQuoted, Trading
  <1>5. m \in ToP /\ m.t = "check"
    BY <1>0, <1>4 DEF ToP
  <1>6. toP' = Append(toP, m) /\ mpc' = "sell_check"
    BY <1>0 DEF MSellQuoted
  <1>7. toP' \in Seq(ToP)
    BY <1>5, <1>6, AppendFacts DEF IndexInv, ServerTypeOK
  <1>8. ServerTypeOK'
    BY <1>2, <1>3, <1>6, <1>7, MFrame DEF IndexInv, ServerTypeOK, MSellQuoted,
       Programs, tcpVars
  <1>9. OneQuestion' /\ ValidUpdate'
    BY <1>1, <1>5, <1>6, MAsks DEF IndexInv, WaitsForP
  <1>10. ValidPos'
    BY <1>6 DEF ValidPos
  <1>11. QED
    BY <1>1, <1>4, <1>8, <1>9, <1>10, GoOnKeeps DEF MSellQuoted

LEMMA MSellCheckedKeeps ==
  ASSUME IndexInv, MSellChecked, UNCHANGED <<priceIndex, pVars, cVars>>
  PROVE  IndexInv'
  <1>0. PICK m : m = Retrieve
    OBVIOUS
  <1>1. NoQuestion /\ NoReply'
    BY HearsP DEF MSellChecked
  <1>2. /\ Head(toM) \in ReplyFromA \cup ReplyFromQ \cup ReplyFromP
        /\ Head(toM).t = "check"
        /\ toM' \in Seq(ReplyFromA \cup ReplyFromQ \cup ReplyFromP)
    BY HearsFacts DEF MSellChecked
  <1>3. verdict' \in {"PASS", "FAIL", "NOMATCH"}
    BY <1>2 DEF ReplyFromA, ReplyFromQ, ReplyFromP, MSellChecked
  <1>4. /\ cur \in Clients /\ req \in ClientMsg /\ req.t = "transact"
        /\ req.user \in Names /\ req.stock \in Stocks
    BY OrderTyped DEF MSellChecked, Hears, Trading
  <1>5. m \in ToP /\ m.t = "retrieve"
    BY <1>0, <1>4 DEF ToP, Retrieve
  <1>6. toP' = Append(toP, m) /\ mpc' = "sell_held"
    BY <1>0 DEF MSellChecked
  <1>7. toP' \in Seq(ToP)
    BY <1>5, <1>6, AppendFacts DEF IndexInv, ServerTypeOK
  <1>8. ServerTypeOK'
    BY <1>2, <1>3, <1>6, <1>7, MFrame DEF IndexInv, ServerTypeOK, MSellChecked,
       Programs, tcpVars
  <1>9. OneQuestion' /\ ValidUpdate'
    BY <1>1, <1>5, <1>6, MAsks DEF IndexInv, WaitsForP
  <1>10. ValidPos'
    BY <1>6 DEF ValidPos
  <1>11. QED
    BY <1>1, <1>4, <1>8, <1>9, <1>10, GoOnKeeps DEF MSellChecked

LEMMA MSellUnknownKeeps ==
  ASSUME IndexInv, MSellUnknown, UNCHANGED <<priceIndex, pVars, cVars>>
  PROVE  IndexInv'
  <1>1. NoQuestion /\ NoReply'
    BY HearsP DEF MSellUnknown
  <1>2. QED
    BY <1>1, HearsFacts, AnswersClientKeeps
       DEF MSellUnknown, IndexInv, ServerTypeOK

LEMMA MSellRefusedKeeps ==
  ASSUME IndexInv, MSellRefused, UNCHANGED <<priceIndex, pVars, cVars>>
  PROVE  IndexInv'
  <1>1. NoQuestion /\ NoReply'
        /\ toM' \in Seq(ReplyFromA \cup ReplyFromQ \cup ReplyFromP)
    BY HearsP, HearsFacts DEF MSellRefused
  <1>2. toQ' \in Seq(QuoteToQ \cup UpdateToQ)
    BY OrderTyped DEF MSellRefused, Hears, Trading
  <1>3. QED
    BY <1>1, <1>2, AnswersClientKeeps DEF MSellRefused

LEMMA MSellPassKeeps ==
  ASSUME IndexInv, MSellPass, UNCHANGED <<priceIndex, pVars, cVars>>
  PROVE  IndexInv'
  <1>1. NoQuestion /\ NoReply'
        /\ toM' \in Seq(ReplyFromA \cup ReplyFromQ \cup ReplyFromP)
    BY HearsP, HearsFacts DEF MSellPass
  <1>2. cur \in Clients /\ req \in ClientMsg /\ req.t = "transact"
    BY OrderTyped DEF MSellPass, Hears, Trading
  <1>3. PICK h : h = Head(toM)
    OBVIOUS
  <1>4. h \in ReplyFromP /\ h.t = "held" /\ h.shares # NA /\ Valid(h)
    BY <1>3, HeldFacts DEF MSellPass
  <1>5. pos' = h /\ mpc' = "sell_sleep"
    BY <1>3 DEF MSellPass
  <1>6. ServerTypeOK'
    BY <1>1, <1>4, <1>5, MFrame DEF IndexInv, ServerTypeOK, MSellPass, Programs
  <1>7. ValidPos'
    BY <1>4, <1>5 DEF ValidPos, Valid, pVars
  <1>8. NoQuestion'
    BY <1>1 DEF MSellPass, NoQuestion
  <1>9. QED
    BY <1>1, <1>2, <1>6, <1>7, <1>8, NoQuestionKeeps, GoOnKeeps DEF MSellPass

LEMMA MSellOfferKeeps ==
  ASSUME IndexInv, MSellOffer, UNCHANGED <<priceIndex, pVars, cVars>>
  PROVE  IndexInv'
  <1>1. NoQuestion /\ NoReply
    BY QuietP DEF MSellOffer, WaitsForP, Lost
  <1>2. cur \in Clients /\ req \in ClientMsg /\ req.t = "transact"
    BY OrderTyped DEF MSellOffer, Trading
  <1>3. ServerTypeOK'
    BY MFrame DEF IndexInv, ServerTypeOK, MSellOffer, Programs, udpVars
  <1>4. ValidPos'
    BY DEF IndexInv, MSellOffer, ValidPos, Valid, pVars
  <1>5. NoQuestion' /\ NoReply'
    BY <1>1 DEF MSellOffer, NoQuestion, NoReply, udpVars
  <1>6. QED
    BY <1>2, <1>3, <1>4, <1>5, NoQuestionKeeps, GoOnKeeps DEF MSellOffer

LEMMA MSellDeniedKeeps ==
  ASSUME IndexInv, MSellDenied, UNCHANGED <<priceIndex, pVars, cVars>>
  PROVE  IndexInv'
  <1>0. PICK a : a = AnswerToP
    OBVIOUS
  <1>1. /\ mpc \in Trading /\ NoQuestion /\ NoReply
        /\ c2m' \in [Clients -> Seq(ClientMsg)]
        /\ a \in ToP /\ a.t = "answer"
    BY <1>0, HearsClientFacts DEF MSellDenied
  <1>2. toQ' \in Seq(QuoteToQ \cup UpdateToQ)
    BY <1>1, OrderTyped DEF MSellDenied
  <1>3. toP' = Append(toP, a) /\ toP \in Seq(ToP)
    BY <1>0 DEF MSellDenied, IndexInv, ServerTypeOK
  <1>4. toP' \in Seq(ToP) /\ NoQuestion'
    BY <1>1, <1>3, AppendFacts DEF NoQuestion
  <1>5. NoReply'
    BY <1>1 DEF NoReply, MSellDenied
  <1>6. QED
    BY <1>1, <1>2, <1>4, <1>5, ReturnKeeps DEF MSellDenied, IndexInv, ServerTypeOK

LEMMA MSellApprovedKeeps ==
  ASSUME IndexInv, MSellApproved, UNCHANGED <<priceIndex, pVars, cVars>>
  PROVE  IndexInv'
  <1> DEFINE n == Wrap(pos.shares - req.shares)
  <1>0. PICK a, m : a = AnswerToP /\ m = UpdateP(pos, n, pos.price)
    OBVIOUS
  <1>1. /\ mpc \in Trading /\ mpc = "sell_answer" /\ NoQuestion /\ NoReply
        /\ c2m' \in [Clients -> Seq(ClientMsg)]
        /\ AnswerRead \in Answers /\ a \in ToP /\ a.t = "answer"
    BY <1>0, HearsClientFacts DEF MSellApproved
  <1>2. /\ cur \in Clients /\ req \in ClientMsg /\ req.t = "transact"
        /\ req.shares \in CInt
    BY <1>1, OrderTyped
  <1>3. pos \in ReplyFromP /\ pos.t = "held" /\ pos.shares # NA /\ Valid(pos)
    BY <1>1 DEF IndexInv, ValidPos
  <1>4. pos \in [t : {"held"}, user : Users, stock : Stocks,
                 shares : CInt, price : Money, index : Nat]
    BY <1>3 DEF ReplyFromP
  <1>5. n \in CInt
    BY <1>2, <1>4, WrapInt
  <1>6. m \in ToP /\ m.t = "update" /\ Valid(m)
    BY <1>0, <1>3, <1>4, <1>5, UpdatePFacts
  <1>7. toP' = toP \o <<a, m>> /\ mpc' = "update"
    BY <1>0 DEF MSellApproved
  <1>8. toP' \in Seq(ToP)
    BY <1>1, <1>6, <1>7, ToPTwoTyped DEF IndexInv
  <1>9. ServerTypeOK'
    BY <1>1, <1>7, <1>8, MFrame DEF IndexInv, ServerTypeOK, MSellApproved, Programs
  <1>10. Valid(m)'
    BY <1>6 DEF Valid, pVars
  <1>11. OneQuestion' /\ ValidUpdate'
    BY <1>1, <1>6, <1>7, <1>10, MAsksTwo DEF IndexInv, WaitsForP
  <1>12. NoReply' /\ ValidPos'
    BY <1>1, <1>7 DEF MSellApproved, NoReply, ValidPos
  <1>13. QED
    BY <1>2, <1>9, <1>11, <1>12, GoOnKeeps DEF MSellApproved

LEMMA MResultKeeps ==
  ASSUME IndexInv, MResult, UNCHANGED <<priceIndex, pVars, cVars>>
  PROVE  IndexInv'
  <1>1. PICK type \in {"result", "nothing"} : Hears("update", type)
    BY DEF MResult
  <1>2. NoQuestion /\ NoReply'
        /\ toM' \in Seq(ReplyFromA \cup ReplyFromQ \cup ReplyFromP)
    BY <1>1, HearsP, HearsFacts
  <1>3. toQ' \in Seq(QuoteToQ \cup UpdateToQ)
    BY <1>1, OrderTyped DEF MResult, Hears, Trading
  <1>4. QED
    BY <1>2, <1>3, AnswersClientKeeps DEF MResult

LEMMA MainStepKeeps ==
  ASSUME IndexInv, MainStep
  PROVE  IndexInv'
  <1>0. UNCHANGED <<priceIndex, pVars, cVars>>
    BY DEF MainStep
  <1>1. CASE MAuth \/ MPortfolio \/ MGain \/ MQuoteReply
    BY <1>0, <1>1, MAuthKeeps, MPortfolioKeeps, MGainKeeps, MQuoteReplyKeeps
  <1>2. CASE MBuyOffer \/ MBuyDenied \/ MBuyApproved \/ MBuyUpdate \/ MBuyNobody
    BY <1>0, <1>2, MBuyOfferKeeps, MBuyDeniedKeeps, MBuyApprovedKeeps,
       MBuyUpdateKeeps, MBuyNobodyKeeps
  <1>3. CASE MSellQuoted \/ MSellChecked \/ MSellUnknown \/ MSellRefused
               \/ MSellPass \/ MSellOffer \/ MSellDenied \/ MSellApproved
    BY <1>0, <1>3, MSellQuotedKeeps, MSellCheckedKeeps, MSellUnknownKeeps,
       MSellRefusedKeeps, MSellPassKeeps, MSellOfferKeeps, MSellDeniedKeeps,
       MSellApprovedKeeps
  <1>4. CASE MResult
    BY <1>0, <1>4, MResultKeeps
  <1>5. CASE MBuyThrows \/ MMisread \/ MSigPipe
    <2>1. /\ mpc' \in Lost
          /\ UNCHANGED <<cur, req, offer, verdict, pos, confirmation,
                         toA, toQ, toP, c2m>>
          /\ toM' = toM \/ (toM # <<>> /\ toM' = Tail(toM))
      BY <1>5 DEF MBuyThrows, MMisread, MSigPipe, Hears, Lost, tcpVars, wireVars
    <2>2. QED
      BY <1>0, <2>1, LostKeeps
  <1>6. QED
    BY <1>1, <1>2, <1>3, <1>4, <1>5 DEF MainStep

----------------------------------------------------------------------------
(* Clients only send well-formed requests.                                  *)

LEMMA ClientKeeps ==
  ASSUME IndexInv, UNCHANGED <<udpVars, priceIndex, pVars, mVars>>,
         c2m' \in [Clients -> Seq(ClientMsg)],
         cpc' \in [Clients -> AtKeyboard \cup AtSocket \cup {"gone"}],
         member' \in [Clients -> Names \cup {NA}],
         \A c \in Clients : cpc'[c] \notin {"login", "gone"} =>
                              member'[c] \in Names
  PROVE  IndexInv'
  BY DEF IndexInv, ServerTypeOK, Serving, OneQuestion, OneReply, ValidReply,
         ValidPos, ValidUpdate, Valid, udpVars, pVars, mVars

LEMMA SendsTyped ==
  ASSUME ServerTypeOK, NEW c \in Clients, NEW m \in ClientMsg,
         c2m' = [c2m EXCEPT ![c] = Append(@, m)]
  PROVE  c2m' \in [Clients -> Seq(ClientMsg)]
  <1>1. Append(c2m[c], m) \in Seq(ClientMsg)
    BY AppendFacts DEF ServerTypeOK
  <1>2. QED
    BY <1>1 DEF ServerTypeOK

LEMMA GotoTyped ==
  ASSUME ServerTypeOK, NEW c \in Clients,
         NEW pc \in AtKeyboard \cup AtSocket \cup {"gone"}, Goto(c, pc),
         UNCHANGED member, pc \notin {"login", "gone"} => member[c] \in Names
  PROVE  /\ cpc' \in [Clients -> AtKeyboard \cup AtSocket \cup {"gone"}]
         /\ member' \in [Clients -> Names \cup {NA}]
         /\ \A d \in Clients : cpc'[d] \notin {"login", "gone"} =>
                                 member'[d] \in Names
  BY DEF ServerTypeOK, Goto

LEMMA ReceiveStepKeeps ==
  ASSUME IndexInv, NEW c \in Clients, ReceiveStep(c)
  PROVE  IndexInv'
  <1>0. ServerTypeOK /\ UNCHANGED <<priceIndex, pVars, mVars>>
    BY DEF IndexInv, ReceiveStep
  <1>1. UNCHANGED <<udpVars, member>>
    BY DEF ReceiveStep, CAuth, CShow, CValid, COffer, CNoSuchStock, CResult, Receives
  <1>2. c2m' \in [Clients -> Seq(ClientMsg)]
    <2>1. CASE UNCHANGED c2m
      BY <1>0, <2>1 DEF ServerTypeOK
    <2>2. CASE CNoSuchStock(c)
      <3>1. Answer("N") \in ClientMsg
        BY DEF Answer, ClientMsg, Answers
      <3>2. QED
        BY <1>0, <2>2, <3>1, SendsTyped DEF CNoSuchStock
    <2>3. QED
      BY <2>1, <2>2 DEF ReceiveStep, CAuth, CShow, CValid, COffer, CResult, Receives
  <1>3. PICK pc \in AtKeyboard \cup AtSocket : Goto(c, pc)
    BY DEF ReceiveStep, CAuth, CShow, CValid, COffer, CNoSuchStock, CResult,
           Receives, Prompt, AtKeyboard, AtSocket
  <1>4. cpc[c] \in AtSocket
    BY DEF ReceiveStep, CAuth, CShow, CValid, COffer, CNoSuchStock, CResult,
           Receives, AtSocket
  <1>5. member[c] \in Names
    BY <1>0, <1>4 DEF ServerTypeOK, AtSocket
  <1>6. QED
    BY <1>0, <1>1, <1>2, <1>3, <1>5, GotoTyped, ClientKeeps

LEMMA AnswerStepKeeps ==
  ASSUME IndexInv, NEW c \in Clients, AnswerStep(c)
  PROVE  IndexInv'
  <1>0. ServerTypeOK /\ UNCHANGED <<priceIndex, pVars, mVars>>
    BY DEF IndexInv, AnswerStep
  <1>1. PICK text \in Typed : CAnswer(c, text)
    BY DEF AnswerStep
  <1>2. Answer(text) \in ClientMsg
    BY ClientAssumption DEF Answer, ClientMsg
  <1>3. c2m' \in [Clients -> Seq(ClientMsg)]
    BY <1>0, <1>1, <1>2, SendsTyped DEF CAnswer, Sends
  <1>4. PICK pc \in AtKeyboard \cup AtSocket : Goto(c, pc)
    BY <1>1 DEF CAnswer, Prompt, AtKeyboard, AtSocket
  <1>5. member[c] \in Names
    BY <1>0, <1>1 DEF ServerTypeOK, CAnswer
  <1>6. UNCHANGED <<udpVars, member>>
    BY <1>1 DEF CAnswer, Sends
  <1>7. QED
    BY <1>0, <1>3, <1>4, <1>5, <1>6, GotoTyped, ClientKeeps

LEMMA CommandStepKeeps ==
  ASSUME IndexInv, NEW c \in Clients, CommandStep(c)
  PROVE  IndexInv'
  <1>0. ServerTypeOK /\ UNCHANGED <<priceIndex, pVars, mVars>>
    BY DEF IndexInv, CommandStep
  <1>1. CASE CLogin(c)
    <2>1. PICK pair \in LoginAs[c] :
            /\ Sends(c, [t |-> "credentials", user |-> pair[1],
                         password |-> pair[2]])
            /\ member' = [member EXCEPT ![c] = pair[1]]
      BY <1>1 DEF CLogin
    <2>2. pair[1] \in Names /\ pair[2] \in Passwords
      BY ClientAssumption
    <2>3. [t |-> "credentials", user |-> pair[1], password |-> pair[2]]
            \in ClientMsg
      BY <2>2 DEF ClientMsg
    <2>4. c2m' \in [Clients -> Seq(ClientMsg)]
      BY <1>0, <2>1, <2>3, SendsTyped DEF Sends
    <2>5. /\ cpc' \in [Clients -> AtKeyboard \cup AtSocket \cup {"gone"}]
          /\ member' \in [Clients -> Names \cup {NA}]
          /\ \A d \in Clients : cpc'[d] \notin {"login", "gone"} =>
                                  member'[d] \in Names
      BY <1>0, <1>1, <2>1, <2>2 DEF ServerTypeOK, CLogin, Goto, AtSocket
    <2>6. QED
      BY <1>0, <1>1, <2>1, <2>4, <2>5, ClientKeeps DEF CLogin, Sends
  <1>2. ASSUME NEW m, CAsk(c, m),
               m \in    [t : {"quoteall"}] \cup [t : {"quote"}, stock : Stocks]
                   \cup [t : {"position"}, user : Names]
        PROVE  IndexInv'
    <2>1. m \in ClientMsg
      BY <1>2 DEF ClientMsg
    <2>2. c2m' \in [Clients -> Seq(ClientMsg)]
      BY <1>0, <1>2, <2>1, SendsTyped DEF CAsk, Sends
    <2>3. member[c] \in Names
      BY <1>0, <1>2 DEF ServerTypeOK, CAsk, AtPrompt
    <2>4. Goto(c, "show") /\ UNCHANGED <<udpVars, member>>
      BY <1>2 DEF CAsk, Sends
    <2>5. "show" \in AtSocket
      BY DEF AtSocket
    <2>6. QED
      BY <1>0, <2>2, <2>3, <2>4, <2>5, GotoTyped, ClientKeeps
  <1>3. ASSUME NEW op \in {"buy", "sell"}, NEW s \in Stocks, NEW n \in Shares,
               CTrade(c, op, s, n)
        PROVE  IndexInv'
    <2>1. member[c] \in Names
      BY <1>0, <1>3 DEF ServerTypeOK, CTrade, AtPrompt
    <2>2. [t |-> "transact", op |-> op, user |-> member[c], stock |-> s,
           shares |-> n] \in ClientMsg
      BY <2>1, ClientAssumption DEF ClientMsg
    <2>3. c2m' \in [Clients -> Seq(ClientMsg)]
      BY <1>0, <1>3, <2>2, SendsTyped DEF CTrade, Sends
    <2>4. PICK pc \in AtSocket : Goto(c, pc)
      BY <1>3 DEF CTrade, AtSocket
    <2>5. UNCHANGED <<udpVars, member>>
      BY <1>3 DEF CTrade, Sends
    <2>6. QED
      BY <1>0, <2>1, <2>3, <2>4, <2>5, GotoTyped, ClientKeeps
  <1>4. CASE CLeave(c)
    BY <1>0, <1>4, ClientKeeps DEF CLeave, ServerTypeOK
  <1>5. QED
    BY <1>1, <1>2, <1>3, <1>4 DEF CommandStep

----------------------------------------------------------------------------
LEMMA InitHolds ==
  ASSUME Init
  PROVE  IndexInv
  <1>1. priceIndex \in [Listed -> Nat]
        /\ \A s \in Listed : priceIndex[s] < Len(Prices[s])
    <2>1. \A s \in Listed : Len(Prices[s]) \in Nat /\ Len(Prices[s]) # 0
      BY PricesAssumption, EmptySeq, LenProperties
    <2>2. QED
      BY <2>1 DEF Init, QInit
  <1>2. DOMAIN portfolio \subseteq Users
        /\ \A u \in DOMAIN portfolio : portfolio[u] \in Seq(Holding)
    BY PortfoliosAssumption DEF Init, PInit
  <1>3. /\ toA \in Seq(CredentialsToA) /\ toQ \in Seq(QuoteToQ \cup UpdateToQ)
        /\ toP \in Seq(ToP)
        /\ toM \in Seq(ReplyFromA \cup ReplyFromQ \cup ReplyFromP)
        /\ c2m \in [Clients -> Seq(ClientMsg)]
        /\ DOMAIN toP = {} /\ DOMAIN toM = {}
    BY DEF Init, WireInit
  <1>4. ServerTypeOK
    BY <1>1, <1>2, <1>3 DEF ServerTypeOK, Init, PInit, MInit, CInit, AtKeyboard
  <1>5. Serving /\ OneQuestion /\ OneReply /\ ValidReply /\ ValidPos /\ ValidUpdate
    BY <1>3 DEF Init, MInit, Serving, Programs, Trading, OneQuestion, OneReply,
       ValidReply, ValidPos, ValidUpdate
  <1>6. QED
    BY <1>4, <1>5 DEF IndexInv

LEMMA NextKeeps ==
  ASSUME IndexInv, [Next]_vars
  PROVE  IndexInv'
  <1>1. CASE UNCHANGED vars
    BY <1>1, Unread DEF vars, wireVars, pVars, mVars, cVars
  <1>2. CASE AuthStep \/ QuoteStep \/ PortfolioStep \/ MainStep
    BY <1>2, AuthStepKeeps, QuoteStepKeeps, PortfolioStepKeeps, MainStepKeeps
  <1>3. ASSUME NEW c \in Clients, ServeStep(c) \/ ClientStep(c)
        PROVE  IndexInv'
    BY <1>3, ServeStepKeeps, ReceiveStepKeeps, AnswerStepKeeps, CommandStepKeeps
       DEF ClientStep
  <1>4. QED
    BY <1>1, <1>2, <1>3 DEF Next

(* The conversation between M and P holds one question at a time, and every *)
(* index under way describes the portfolio as it is (operationType,         *)
(* serverM.cpp; getStock and updateStock, serverP.cpp): for any number of   *)
(* clients, any stocks, portfolios and prices, whatever is typed.           *)
THEOREM ConversationWithP == Spec => []IndexInv
  BY InitHolds, NextKeeps, PTL DEF Spec

(* The servers' variables and everything sent to them stay within the       *)
(* values their programs can handle.                                        *)
THEOREM ServersTypeCorrect == Spec => []ServerTypeOK
  <1>1. IndexInv => ServerTypeOK
    BY DEF IndexInv
  <1>2. QED
    BY <1>1, ConversationWithP, PTL

(* An update that reaches Server P finds its stock at the index that was    *)
(* read before the person was asked, or still finds no position if there    *)
(* was none: serverP.cpp updateStock never writes outside the vector, nor   *)
(* to another stock, nor a second position of one stock.                    *)
THEOREM IndexStaysFresh == Spec => []FreshIndex
  <1>1. ASSUME IndexInv PROVE FreshIndex
    <2>1. SUFFICES ASSUME NEW m \in UpdatesToP
                   PROVE  /\ m.user \in DOMAIN portfolio
                          /\ IF m.index = -1
                               THEN FirstOf(m.user, m.stock) = 0
                               ELSE /\ m.index + 1 \in DOMAIN portfolio[m.user]
                                    /\ portfolio[m.user][m.index + 1].stockName
                                         = m.stock
      BY DEF FreshIndex
    <2>2. PICK i \in DOMAIN toP : toP[i] = m
      BY DEF UpdatesToP, Range
    <2>3. Valid(m)
      BY <1>1, <2>2 DEF IndexInv, ValidUpdate, UpdatesToP
    <2>4. CASE m.index = -1
      <3>1. portfolio[m.user] \in Seq(Holding)
        BY <1>1, <2>3 DEF IndexInv, ServerTypeOK, Valid
      <3>2. FirstOf(m.user, m.stock) # 0 =>
              FirstOf(m.user, m.stock) \in DOMAIN portfolio[m.user]
        BY <3>1, FirstOfFacts, LenProperties
      <3>3. FirstOf(m.user, m.stock) = 0
        BY <2>3, <2>4, <3>1, <3>2, FirstOfFacts DEF Valid
      <3>4. QED
        BY <2>3, <2>4, <3>3 DEF Valid
    <2>5. CASE m.index # -1
      BY <2>3, <2>5 DEF Valid
    <2>6. QED
      BY <2>4, <2>5
  <1>2. QED
    BY <1>1, ConversationWithP, PTL

(***************************************************************************)
(* An order that people agree to is the order that Server P carries out.   *)
(*                                                                         *)
(* OrderInv follows one order through the programs: the retrieve asks for  *)
(* the user and the stock of the request being served, and whatever answer *)
(* is on its way to M, or kept by M while a seller decides, is still what  *)
(* getStock would answer now.  With IndexInv it is inductive.  Then about  *)
(* the positions themselves: a user never gets two in one stock.           *)
(***************************************************************************)
OpFits ==
  /\ mpc \in {"buy_answer", "buy_held"} => req.op = "buy"
  /\ mpc \in {"sell_check", "sell_held", "sell_sleep", "sell_answer"} =>
       req.op = "sell"

RetrieveFits == \A i \in DOMAIN toP : toP[i].t = "retrieve" => toP[i] = Retrieve

HeldFits ==
  \A i \in DOMAIN toM :
    toM[i].t = "held" => toM[i] = getStock(Lower[req.user], req.stock)

PosFits ==
  mpc \in {"sell_sleep", "sell_answer"} =>
    pos = getStock(Lower[req.user], req.stock)

AsOrdered(m) ==
  /\ m.user = Lower[req.user]
  /\ m.stock = req.stock
  /\ m.shares = Wrap(HeldBy(m.user, m.stock) +
                     (IF req.op = "buy" THEN req.shares ELSE -req.shares))

UpdateFits == \A i \in DOMAIN toP : toP[i].t = "update" => AsOrdered(toP[i])

OrderInv == OpFits /\ RetrieveFits /\ HeldFits /\ PosFits /\ UpdateFits

----------------------------------------------------------------------------
(* What getStock answers, against the shares the user holds. *)
LEMMA getStockShares ==
  ASSUME ServerTypeOK, NEW u \in Users, NEW s \in Stocks
  PROVE  LET h == getStock(u, s)
         IN  /\ h.user = u
             /\ h.shares = NA => HeldBy(u, s) = 0
             /\ h.shares # NA => h.stock = s /\ h.shares = HeldBy(u, s)
                                 /\ HeldBy(u, s) \in CInt
  <1>1. CASE u \notin DOMAIN portfolio
    BY <1>1 DEF getStock, HeldBy
  <1>2. CASE u \in DOMAIN portfolio
    <2> DEFINE i == FirstOf(u, s)
    <2>1. portfolio[u] \in Seq(Holding)
      BY <1>2 DEF ServerTypeOK
    <2>2. i \in 0 .. Len(portfolio[u])
      BY <2>1, FirstOfFacts
    <2>3. HeldBy(u, s) = IF i = 0 THEN 0 ELSE portfolio[u][i].quantity
      BY <1>2 DEF HeldBy, SharesIn, FirstOf
    <2> HIDE DEF i
    <2>4. CASE i = 0
      BY <1>2, <2>3, <2>4 DEF getStock, i
    <2>5. CASE i # 0
      <3>1. portfolio[u][i] \in Holding
        BY <2>1, <2>2, <2>5, LenProperties, ElementOfSeq
      <3>2. portfolio[u][i].quantity \in CInt /\ CInt \subseteq Int
        BY <3>1, IntMaxAssumption DEF Holding, CInt
      <3>3. /\ getStock(u, s).user = u /\ getStock(u, s).stock = s
            /\ getStock(u, s).shares = portfolio[u][i].quantity
        BY <1>2, <2>5 DEF getStock, i
      <3>4. getStock(u, s).shares # NA
        BY <3>2, <3>3, NAAssumption
      <3>5. QED
        BY <2>3, <2>5, <3>2, <3>3, <3>4
    <2>6. QED
      BY <2>4, <2>5
  <1>3. QED
    BY <1>1, <1>2

LEMMA WrapSame ==
  ASSUME NEW a \in CInt
  PROVE  Wrap(0 + a) = a
  BY IntMaxAssumption DEF Wrap, CInt

LEMMA WrapMinus ==
  ASSUME NEW a \in CInt, NEW b \in CInt
  PROVE  Wrap(a - b) = Wrap(a + (-b)) /\ Wrap(a + b) = Wrap(b + a)
  BY IntMaxAssumption DEF Wrap, CInt

----------------------------------------------------------------------------
(* When M does not wait for Server P, nothing is under way between them.    *)
LEMMA QuietKeepsOrder ==
  ASSUME IndexInv', mpc' \notin WaitsForP \cup Lost, OpFits', PosFits'
  PROVE  OrderInv'
  <1>1. NoQuestion' /\ NoReply'
    BY DEF IndexInv, OneQuestion, OneReply, NoQuestion, NoReply
  <1>2. QED
    BY <1>1 DEF OrderInv, RetrieveFits, HeldFits, UpdateFits, NoQuestion,
       NoReply, FromP

(* A step that adds no question, reply or position keeps them all right.    *)
LEMMA SameOrder ==
  ASSUME OrderInv, UNCHANGED <<portfolio, req, pos>>, OpFits',
         mpc' \in {"sell_sleep", "sell_answer"} =>
           mpc \in {"sell_sleep", "sell_answer"},
         \A i \in DOMAIN toM' : toM'[i].t = "held" =>
           \E j \in DOMAIN toM : toM[j] = toM'[i],
         \A i \in DOMAIN toP' : toP'[i].t \in {"retrieve", "update"} =>
           \E j \in DOMAIN toP : toP[j] = toP'[i]
  PROVE  OrderInv'
  <1>1. RetrieveFits'
    BY DEF OrderInv, RetrieveFits, Retrieve
  <1>2. UpdateFits'
    <2>1. ASSUME NEW m, AsOrdered(m) PROVE AsOrdered(m)'
      BY <2>1 DEF AsOrdered, HeldBy
    <2>2. ASSUME NEW i \in DOMAIN toP', toP'[i].t = "update"
          PROVE  \E m : toP'[i] = m /\ AsOrdered(m)
      BY <2>2 DEF OrderInv, UpdateFits
    <2>3. QED
      BY <2>1, <2>2 DEF UpdateFits, AsOrdered
  <1>3. getStock(Lower[req.user], req.stock)'
          = getStock(Lower[req.user], req.stock)
    <2>1. portfolio' = portfolio /\ req' = req
      OBVIOUS
    <2>2. FirstOf(Lower[req.user], req.stock)'
            = FirstOf(Lower[req.user], req.stock)
      BY <2>1 DEF FirstOf, SelectInSeq
    <2>3. QED
      BY <2>1, <2>2 DEF getStock
  <1>4. HeldFits' /\ PosFits'
    BY <1>3 DEF OrderInv, HeldFits, PosFits
  <1>5. QED
    BY <1>1, <1>2, <1>4 DEF OrderInv

(* M asks Server P: the question and nothing else is under way.             *)
LEMMA AsksKeepsOrder ==
  ASSUME NoReply', OpFits', mpc' \in WaitsForP, NEW m,
         \A i \in DOMAIN toP' : toP'[i].t = "answer" \/ toP'[i] = m,
         m.t = "retrieve" => m = Retrieve',
         m.t = "update" => AsOrdered(m)'
  PROVE  OrderInv'
  <1>1. RetrieveFits'
    BY DEF RetrieveFits
  <1>2. UpdateFits'
    BY DEF UpdateFits, AsOrdered
  <1>3. HeldFits' /\ PosFits'
    BY DEF HeldFits, PosFits, NoReply, FromP, WaitsForP
  <1>4. QED
    BY <1>1, <1>2, <1>3 DEF OrderInv

LEMMA AppendedQuestion ==
  ASSUME ServerTypeOK, NoQuestion, NEW m, toP' = Append(toP, m)
  PROVE  \A i \in DOMAIN toP' : toP'[i].t = "answer" \/ toP'[i] = m
  <1>1. toP \in Seq(ToP)
    BY DEF ServerTypeOK
  <1>2. QED
    BY <1>1, AppendFacts DEF NoQuestion

LEMMA AppendedTwo ==
  ASSUME ServerTypeOK, NoQuestion, NEW a \in ToP, NEW m \in ToP,
         a.t = "answer", toP' = toP \o <<a, m>>
  PROVE  \A i \in DOMAIN toP' : toP'[i].t = "answer" \/ toP'[i] = m
  <1>1. toP \in Seq(ToP)
    BY DEF ServerTypeOK
  <1>2. toP' = Append(Append(toP, a), m) /\ Append(toP, a) \in Seq(ToP)
    BY <1>1, AppendTwo, AppendFacts
  <1>3. \A i \in DOMAIN Append(toP, a) : Append(toP, a)[i].t = "answer"
    BY <1>1, AppendFacts DEF NoQuestion
  <1>4. QED
    BY <1>2, <1>3, AppendFacts

----------------------------------------------------------------------------
(* The servers and the clients. *)

LEMMA TailIn ==
  ASSUME NEW S, NEW s \in Seq(S), s # <<>>
  PROVE  \A i \in DOMAIN Tail(s) : \E j \in DOMAIN s : s[j] = Tail(s)[i]
  BY TailFacts

LEMMA AppendIn ==
  ASSUME NEW S, NEW s \in Seq(S), NEW m
  PROVE  \A i \in DOMAIN Append(s, m) :
           Append(s, m)[i] = m \/ \E j \in DOMAIN s : s[j] = Append(s, m)[i]
  BY AppendFacts

LEMMA ServerTakes ==
  ASSUME IndexInv, OrderInv, UNCHANGED <<portfolio, mVars>>,
         toP' = toP \/ (toP # <<>> /\ toP' = Tail(toP)),
         NEW m, m.t # "held", toM' = toM \/ toM' = Append(toM, m)
  PROVE  OrderInv'
  <1>1. /\ toP \in Seq(ToP)
        /\ toM \in Seq(ReplyFromA \cup ReplyFromQ \cup ReplyFromP)
    BY DEF IndexInv, ServerTypeOK
  <1>2. \A i \in DOMAIN toP' : \E j \in DOMAIN toP : toP[j] = toP'[i]
    BY <1>1, TailIn
  <1>3. \A i \in DOMAIN toM' : toM'[i].t = "held" =>
          \E j \in DOMAIN toM : toM[j] = toM'[i]
    BY <1>1, AppendIn
  <1>4. UNCHANGED <<mpc, req, pos>> /\ OpFits'
    BY DEF mVars, OrderInv, OpFits
  <1>5. QED
    BY <1>2, <1>3, <1>4, SameOrder

LEMMA AuthKeepsOrder ==
  ASSUME IndexInv, OrderInv, AuthStep
  PROVE  OrderInv'
  <1>1. PICK m : m.t # "held" /\ toM' = Append(toM, m)
    BY DEF AuthStep, AReply
  <1>2. QED
    BY <1>1, ServerTakes DEF AuthStep, AReply, pVars

LEMMA QuoteKeepsOrder ==
  ASSUME IndexInv, OrderInv, QuoteStep
  PROVE  OrderInv'
  <1>1. PICK m : m.t # "held" /\ (toM' = toM \/ toM' = Append(toM, m))
    <2>1. CASE QQuote
      BY <2>1 DEF QQuote
    <2>2. CASE QQuoteAll
      BY <2>2 DEF QQuoteAll
    <2>3. CASE QUpdate
      <3>1. [t |-> "update"].t # "held"
        OBVIOUS
      <3>2. QED
        BY <2>3, <3>1 DEF QUpdate
    <2>4. QED
      BY <2>1, <2>2, <2>3 DEF QuoteStep
  <1>2. QED
    BY <1>1, ServerTakes DEF QuoteStep, QQuote, QQuoteAll, QUpdate, pVars

(* Server P has taken the only question and replies to it. *)
LEMMA ReplyKeepsOrder ==
  ASSUME IndexInv, OrderInv, UNCHANGED mVars, NoReply, toP' = <<>>,
         mpc \in WaitsForP \cup Lost, NEW m, toM' = Append(toM, m),
         m.t = "held" => m = getStock(Lower[req.user], req.stock)'
  PROVE  OrderInv'
  <1>1. toM \in Seq(ReplyFromA \cup ReplyFromQ \cup ReplyFromP)
    BY DEF IndexInv, ServerTypeOK
  <1>2. \A i \in DOMAIN toM' : toM'[i].t = "held" => toM'[i] = m
    BY <1>1, AppendFacts DEF NoReply, FromP
  <1>3. HeldFits'
    BY <1>2 DEF HeldFits
  <1>4. OpFits' /\ RetrieveFits' /\ UpdateFits' /\ PosFits'
    BY DEF OrderInv, OpFits, RetrieveFits, UpdateFits, PosFits, mVars,
           WaitsForP, Lost
  <1>5. QED
    BY <1>3, <1>4 DEF OrderInv

LEMMA RetrieveKeepsOrder ==
  ASSUME IndexInv, OrderInv, PRetrieve, UNCHANGED mVars
  PROVE  OrderInv'
  <1>1. toP \in Seq(ToP) /\ toP # <<>> /\ Head(toP).t = "retrieve"
    BY DEF IndexInv, ServerTypeOK, PRetrieve, PReceives
  <1>2. Head(toP) = Retrieve
    BY <1>1, TailFacts DEF OrderInv, RetrieveFits
  <1>3. toP' = <<>> /\ NoReply /\ mpc \in WaitsForP \cup Lost
    BY <1>1, PTakesQuestion DEF PRetrieve, PReceives
  <1>4. PICK m : m = getStock(Lower[req.user], req.stock)
    OBVIOUS
  <1>5. toM' = Append(toM, m)
    BY <1>2, <1>4 DEF PRetrieve, PReplies, Retrieve
  <1>6. m = getStock(Lower[req.user], req.stock)'
    <2>1. portfolio' = portfolio /\ req' = req
      BY DEF PRetrieve, pVars, mVars
    <2>2. FirstOf(Lower[req.user], req.stock)'
            = FirstOf(Lower[req.user], req.stock)
      BY <2>1 DEF FirstOf, SelectInSeq
    <2>3. QED
      BY <1>4, <2>1, <2>2 DEF getStock
  <1>7. QED
    BY <1>3, <1>5, <1>6, ReplyKeepsOrder

LEMMA PortfolioKeepsOrder ==
  ASSUME IndexInv, OrderInv, PortfolioStep
  PROVE  OrderInv'
  <1>0. UNCHANGED mVars
    BY DEF PortfolioStep
  <1>1. CASE PPosition \/ PCheck
    <2>1. PICK m : m.t # "held" /\ toM' = Append(toM, m)
      BY <1>1 DEF PPosition, PCheck, PReplies
    <2>2. QED
      BY <1>0, <1>1, <2>1, ServerTakes DEF PPosition, PCheck, PReceives, pVars
  <1>2. CASE PRetrieve
    BY <1>0, <1>2, RetrieveKeepsOrder
  <1>3. CASE PUpdateNew \/ PUpdateReplace \/ PUpdateRemove
    <2>1. toP' = <<>> /\ NoReply /\ mpc \in WaitsForP \cup Lost
      BY <1>3, PUpdateFacts DEF PUpdateNew, PUpdateReplace, PUpdateRemove
    <2>2. PICK m : m.t # "held" /\ toM' = Append(toM, m)
      <3>1. CASE PUpdateNew
        BY <3>1 DEF PUpdateNew, PReplies, Result
      <3>2. CASE PUpdateReplace
        <4>1. \/ \E o, n : toM' = Append(toM, Result("sell", o, n))
              \/ \E o, n : toM' = Append(toM, Result("buy", o, n))
          BY <3>2 DEF PUpdateReplace, PReplies
        <4>2. QED
          BY <4>1 DEF Result
      <3>3. CASE PUpdateRemove
        BY <3>3 DEF PUpdateRemove, PReplies, Result
      <3>4. QED
        BY <1>3, <3>1, <3>2, <3>3
    <2>3. QED
      BY <1>0, <2>1, <2>2, ReplyKeepsOrder
  <1>4. CASE PAnswer \/ PFallsOff
    <2>1. PICK m : m = [t |-> "junk"]
      OBVIOUS
    <2>2. m.t # "held" /\ (toM' = toM \/ toM' = Append(toM, m))
      BY <1>4, <2>1 DEF PAnswer, PFallsOff
    <2>3. QED
      BY <1>0, <1>4, <2>2, ServerTakes DEF PAnswer, PFallsOff, PReceives
  <1>5. QED
    BY <1>1, <1>2, <1>3, <1>4 DEF PortfolioStep

LEMMA ClientKeepsOrder ==
  ASSUME IndexInv, OrderInv, NEW c \in Clients, ClientStep(c)
  PROVE  OrderInv'
  <1>1. UNCHANGED <<pVars, mVars>>
    BY DEF ClientStep, ReceiveStep, AnswerStep, CommandStep
  <1>2. UNCHANGED udpVars
    BY DEF ClientStep, ReceiveStep, AnswerStep, CommandStep, CAuth, CShow,
       CValid, COffer, CNoSuchStock, CResult, Receives, CAnswer, CLogin, CAsk,
       CTrade, CLeave, Sends
  <1>3. [t |-> "junk"].t # "held"
    OBVIOUS
  <1>4. QED
    BY <1>1, <1>2, <1>3, ServerTakes DEF pVars, udpVars

----------------------------------------------------------------------------
(* Server M. *)

LEMMA ServeKeepsOrder ==
  ASSUME IndexInv, OrderInv, IndexInv', NEW c \in Clients, ServeStep(c)
  PROVE  OrderInv'
  <1>1. CASE MPosition(c)
    <2>1. PICK m : m = [t |-> "position", user |-> Head(c2m[c]).user]
      OBVIOUS
    <2>2. NoQuestion /\ NoReply
      BY <1>1, ReadsFacts DEF MPosition
    <2>3. NoReply' /\ toP' = Append(toP, m) /\ mpc' = "portfolio"
      BY <1>1, <2>1, <2>2 DEF MPosition, Reads, NoReply
    <2>4. \A i \in DOMAIN toP' : toP'[i].t = "answer" \/ toP'[i] = m
      BY <2>2, <2>3, AppendedQuestion DEF IndexInv
    <2>5. OpFits'
      BY <2>3 DEF OpFits
    <2>6. QED
      BY <2>1, <2>3, <2>4, <2>5, AsksKeepsOrder DEF WaitsForP
  <1>2. CASE MLogin(c) \/ MTransact(c) \/ MClose(c)
               \/ \E type \in {"quote", "quoteall"} : MQuote(c, type)
    <2>1. mpc' \in {"auth", "offer", "poll", "quote"}
      BY <1>2 DEF MLogin, MTransact, MClose, MQuote, mVars
    <2>2. QED
      BY <2>1, QuietKeepsOrder DEF WaitsForP, Lost, OpFits, PosFits
  <1>3. QED
    BY <1>1, <1>2 DEF ServeStep

(* M goes where nothing is asked of Server P: back to poll, to another      *)
(* server or to the client.                                                 *)
LEMMA QuietMainKeepsOrder ==
  ASSUME IndexInv, OrderInv, IndexInv', UNCHANGED <<priceIndex, pVars, cVars>>,
         \/ MAuth \/ MPortfolio \/ MGain \/ MQuoteReply \/ MBuyOffer
         \/ MBuyDenied \/ MBuyNobody \/ MSellUnknown \/ MSellRefused
         \/ MSellDenied \/ MResult
  PROVE  OrderInv'
  <1>1. mpc' \in {"poll", "prices", "buy_answer"}
    BY DEF MAuth, MPortfolio, MGain, MQuoteReply, MBuyOffer, MBuyDenied,
       MBuyNobody, MSellUnknown, MSellRefused, MSellDenied, MResult, Return
  <1>2. mpc' = "buy_answer" => req'.op = "buy"
    BY DEF MAuth, MPortfolio, MGain, MQuoteReply, MBuyOffer, MBuyDenied,
       MBuyNobody, MSellUnknown, MSellRefused, MSellDenied, MResult, Return
  <1>3. QED
    BY <1>1, <1>2, QuietKeepsOrder DEF WaitsForP, Lost, OpFits, PosFits

LEMMA MBuyApprovedKeepsOrder ==
  ASSUME IndexInv, OrderInv, MBuyApproved
  PROVE  OrderInv'
  <1>0. PICK a, m : a = AnswerToP /\ m = Retrieve
    OBVIOUS
  <1>1. mpc \in Trading /\ NoQuestion /\ NoReply /\ a \in ToP /\ a.t = "answer"
    BY <1>0, HearsClientFacts DEF MBuyApproved
  <1>2. m \in ToP
    BY <1>0, <1>1, OrderTyped DEF Retrieve, ToP
  <1>3. toP' = toP \o <<a, m>> /\ mpc' = "buy_held" /\ req' = req
    BY <1>0 DEF MBuyApproved
  <1>4. \A i \in DOMAIN toP' : toP'[i].t = "answer" \/ toP'[i] = m
    BY <1>1, <1>2, <1>3, AppendedTwo DEF IndexInv
  <1>5. NoReply' /\ m = Retrieve' /\ m.t # "update"
    BY <1>0, <1>1, <1>3 DEF MBuyApproved, NoReply, Retrieve
  <1>6. OpFits'
    BY <1>3 DEF OrderInv, OpFits, MBuyApproved, HearsClient
  <1>7. QED
    BY <1>3, <1>4, <1>5, <1>6, AsksKeepsOrder DEF WaitsForP

LEMMA MSellQuotedKeepsOrder ==
  ASSUME IndexInv, OrderInv, MSellQuoted
  PROVE  OrderInv'
  <1>0. PICK m : m = [t |-> "check", user |-> req.user, stock |-> req.stock,
                      shares |-> req.shares]
    OBVIOUS
  <1>1. NoQuestion /\ NoReply'
    BY HearsOthers DEF MSellQuoted, WaitsForP, Lost
  <1>2. toP' = Append(toP, m) /\ mpc' = "sell_check" /\ req' = req
    BY <1>0 DEF MSellQuoted
  <1>3. \A i \in DOMAIN toP' : toP'[i].t = "answer" \/ toP'[i] = m
    BY <1>1, <1>2, AppendedQuestion DEF IndexInv
  <1>4. OpFits'
    BY <1>2 DEF OpFits, MSellQuoted
  <1>5. QED
    BY <1>0, <1>1, <1>2, <1>3, <1>4, AsksKeepsOrder DEF WaitsForP

LEMMA MSellCheckedKeepsOrder ==
  ASSUME IndexInv, OrderInv, MSellChecked
  PROVE  OrderInv'
  <1>0. PICK m : m = Retrieve
    OBVIOUS
  <1>1. NoQuestion /\ NoReply'
    BY HearsP DEF MSellChecked
  <1>2. toP' = Append(toP, m) /\ mpc' = "sell_held" /\ req' = req
    BY <1>0 DEF MSellChecked
  <1>3. \A i \in DOMAIN toP' : toP'[i].t = "answer" \/ toP'[i] = m
    BY <1>1, <1>2, AppendedQuestion DEF IndexInv
  <1>4. m = Retrieve' /\ m.t # "update"
    BY <1>0, <1>2 DEF Retrieve
  <1>5. OpFits'
    BY <1>2 DEF OrderInv, OpFits, MSellChecked, Hears
  <1>6. QED
    BY <1>1, <1>2, <1>3, <1>4, <1>5, AsksKeepsOrder DEF WaitsForP

(* The position M has just read is the position as it is. *)
LEMMA HeardHeld ==
  ASSUME IndexInv, OrderInv, NEW pc, Hears(pc, "held")
  PROVE  Head(toM) = getStock(Lower[req.user], req.stock)
  BY HearsFacts DEF OrderInv, HeldFits

LEMMA MSellPassKeepsOrder ==
  ASSUME IndexInv, OrderInv, IndexInv', MSellPass, UNCHANGED pVars
  PROVE  OrderInv'
  <1>1. Head(toM) = getStock(Lower[req.user], req.stock)
    BY HeardHeld DEF MSellPass
  <1>2. mpc' = "sell_sleep" /\ req' = req /\ pos' = Head(toM)
        /\ portfolio' = portfolio
    BY DEF MSellPass, pVars
  <1>3. FirstOf(Lower[req.user], req.stock)'
          = FirstOf(Lower[req.user], req.stock)
    BY <1>2 DEF FirstOf, SelectInSeq
  <1>4. PosFits'
    BY <1>1, <1>2, <1>3 DEF PosFits, getStock
  <1>5. OpFits'
    BY <1>2 DEF OrderInv, OpFits, MSellPass, Hears
  <1>6. QED
    BY <1>2, <1>4, <1>5, QuietKeepsOrder DEF WaitsForP, Lost

LEMMA MSellOfferKeepsOrder ==
  ASSUME IndexInv, OrderInv, MSellOffer, UNCHANGED pVars
  PROVE  OrderInv'
  <1>1. OpFits'
    BY DEF OrderInv, OpFits, MSellOffer
  <1>2. QED
    BY <1>1, SameOrder DEF MSellOffer, udpVars, pVars

LEMMA MBuyUpdateKeepsOrder ==
  ASSUME IndexInv, OrderInv, MBuyUpdate, UNCHANGED pVars
  PROVE  OrderInv'
  <1>0. PICK m : m = Bought(Head(toM))
    OBVIOUS
  <1> DEFINE u == Lower[req.user]
             s == req.stock
             h == getStock(u, s)
             n == req.shares
  <1>1. NoQuestion /\ NoReply'
    BY HearsP DEF MBuyUpdate
  <1>2. Head(toM) = h /\ h.stock = s
    BY HeardHeld DEF MBuyUpdate
  <1>3. req.user \in Names /\ s \in Stocks /\ n \in CInt /\ req.op = "buy"
    BY OrderTyped DEF MBuyUpdate, Hears, Trading, OrderInv, OpFits
  <1>4. /\ h.user = u
        /\ h.shares = NA => HeldBy(u, s) = 0
        /\ h.shares # NA => h.shares = HeldBy(u, s) /\ HeldBy(u, s) \in CInt
    BY <1>3, UserTyped, getStockShares DEF IndexInv
  <1> HIDE DEF h
  <1>5. m.user = u /\ m.stock = s /\ m.t = "update"
    BY <1>0, <1>2, <1>4 DEF Bought, UpdateP
  <1>6. m.shares = Wrap(HeldBy(u, s) + n)
    <2>1. CASE h.shares = NA
      <3>1. m.shares = n
        BY <1>0, <1>2, <2>1 DEF Bought, UpdateP
      <3>2. QED
        BY <1>3, <1>4, <2>1, <3>1, WrapSame
    <2>2. CASE h.shares # NA
      <3>1. m.shares = Wrap(n + h.shares)
        BY <1>0, <1>2, <2>2 DEF Bought, UpdateP
      <3>2. QED
        BY <1>3, <1>4, <2>2, <3>1, WrapMinus
    <2>3. QED
      BY <2>1, <2>2
  <1>7. AsOrdered(m)
    BY <1>3, <1>5, <1>6 DEF AsOrdered
  <1>8. toP' = Append(toP, m) /\ mpc' = "update" /\ req' = req
        /\ portfolio' = portfolio
    BY <1>0 DEF MBuyUpdate, pVars
  <1>9. AsOrdered(m)'
    BY <1>7, <1>8 DEF AsOrdered, HeldBy
  <1>10. \A i \in DOMAIN toP' : toP'[i].t = "answer" \/ toP'[i] = m
    BY <1>1, <1>8, AppendedQuestion DEF IndexInv
  <1>11. OpFits'
    BY <1>8 DEF OpFits
  <1>12. QED
    BY <1>1, <1>5, <1>8, <1>9, <1>10, <1>11, AsksKeepsOrder DEF WaitsForP

LEMMA MSellApprovedKeepsOrder ==
  ASSUME IndexInv, OrderInv, MSellApproved, UNCHANGED pVars
  PROVE  OrderInv'
  <1> DEFINE u == Lower[req.user]
             s == req.stock
             n == req.shares
             q == Wrap(pos.shares - n)
  <1>0. PICK a, m : a = AnswerToP /\ m = UpdateP(pos, q, pos.price)
    OBVIOUS
  <1>1. /\ mpc \in Trading /\ mpc = "sell_answer" /\ NoQuestion /\ NoReply
        /\ a \in ToP /\ a.t = "answer"
    BY <1>0, HearsClientFacts DEF MSellApproved
  <1>2. req.user \in Names /\ s \in Stocks /\ n \in CInt /\ req.op = "sell"
    BY <1>1, OrderTyped DEF OrderInv, OpFits
  <1>3. pos = getStock(u, s)
    BY <1>1 DEF OrderInv, PosFits
  <1>4. /\ pos \in ReplyFromP /\ pos.t = "held" /\ pos.shares # NA /\ Valid(pos)
    BY <1>1 DEF IndexInv, ValidPos
  <1>5. /\ pos.user = u /\ pos.stock = s
        /\ pos.shares = HeldBy(u, s) /\ HeldBy(u, s) \in CInt
    BY <1>2, <1>3, <1>4, UserTyped, getStockShares DEF IndexInv
  <1>6. m.user = u /\ m.stock = s /\ m.t = "update" /\ m.shares = q
    BY <1>0, <1>5 DEF UpdateP
  <1>7. q = Wrap(HeldBy(u, s) + (-n))
    BY <1>2, <1>5, WrapMinus
  <1>8. AsOrdered(m)
    BY <1>2, <1>6, <1>7 DEF AsOrdered
  <1>9. toP' = toP \o <<a, m>> /\ mpc' = "update" /\ req' = req
        /\ portfolio' = portfolio
    BY <1>0 DEF MSellApproved, pVars
  <1>10. AsOrdered(m)'
    BY <1>8, <1>9 DEF AsOrdered, HeldBy
  <1>11. m \in ToP
    <2>1. pos \in [t : {"held"}, user : Users, stock : Stocks,
                   shares : CInt, price : Money, index : Nat]
      BY <1>4 DEF ReplyFromP
    <2>2. q \in CInt
      BY <1>2, <1>5, WrapInt
    <2>3. QED
      BY <1>0, <1>4, <2>1, <2>2, UpdatePFacts
  <1>12. \A i \in DOMAIN toP' : toP'[i].t = "answer" \/ toP'[i] = m
    BY <1>1, <1>9, <1>11, AppendedTwo DEF IndexInv
  <1>13. NoReply' /\ OpFits'
    BY <1>1, <1>9 DEF MSellApproved, NoReply, OpFits
  <1>14. QED
    BY <1>6, <1>9, <1>10, <1>12, <1>13, AsksKeepsOrder DEF WaitsForP

(* Server M has ended, or no longer knows what it reads. *)
LEMMA LostKeepsOrder ==
  ASSUME IndexInv, OrderInv, UNCHANGED pVars, MBuyThrows \/ MMisread \/ MSigPipe
  PROVE  OrderInv'
  <1>1. toM \in Seq(ReplyFromA \cup ReplyFromQ \cup ReplyFromP)
    BY DEF IndexInv, ServerTypeOK
  <1>2. /\ mpc' \in Lost /\ UNCHANGED <<req, pos, toP>>
        /\ toM' = toM \/ (toM # <<>> /\ toM' = Tail(toM))
    BY DEF MBuyThrows, MMisread, MSigPipe, Hears, Lost, wireVars
  <1>3. \A i \in DOMAIN toM' : \E j \in DOMAIN toM : toM[j] = toM'[i]
    BY <1>1, <1>2, TailIn
  <1>4. OpFits' /\ mpc' \notin {"sell_sleep", "sell_answer"}
    BY <1>2 DEF OpFits, Lost
  <1>5. QED
    BY <1>2, <1>3, <1>4, SameOrder DEF pVars

LEMMA MainKeepsOrder ==
  ASSUME IndexInv, OrderInv, IndexInv', MainStep
  PROVE  OrderInv'
  <1>0. UNCHANGED <<priceIndex, pVars, cVars>>
    BY DEF MainStep
  <1>1. CASE \/ MAuth \/ MPortfolio \/ MGain \/ MQuoteReply \/ MBuyOffer
             \/ MBuyDenied \/ MBuyNobody \/ MSellUnknown \/ MSellRefused
             \/ MSellDenied \/ MResult
    BY <1>0, <1>1, QuietMainKeepsOrder
  <1>2. CASE MBuyApproved \/ MBuyUpdate
    BY <1>0, <1>2, MBuyApprovedKeepsOrder, MBuyUpdateKeepsOrder
  <1>3. CASE \/ MSellQuoted \/ MSellChecked \/ MSellPass \/ MSellOffer
             \/ MSellApproved
    BY <1>0, <1>3, MSellQuotedKeepsOrder, MSellCheckedKeepsOrder,
       MSellPassKeepsOrder, MSellOfferKeepsOrder, MSellApprovedKeepsOrder
  <1>4. CASE MBuyThrows \/ MMisread \/ MSigPipe
    BY <1>0, <1>4, LostKeepsOrder
  <1>5. QED
    BY <1>1, <1>2, <1>3, <1>4 DEF MainStep

----------------------------------------------------------------------------
LEMMA OrderInvInvariant == Spec => []OrderInv
  <1>1. Init => OrderInv
    <2> SUFFICES ASSUME Init PROVE OrderInv
      OBVIOUS
    <2>1. DOMAIN toP = {} /\ DOMAIN toM = {} /\ mpc = "poll"
      BY DEF Init, WireInit, MInit
    <2>2. QED
      BY <2>1 DEF OrderInv, OpFits, RetrieveFits, HeldFits, PosFits, UpdateFits
  <1>2. IndexInv /\ OrderInv /\ [Next]_vars => OrderInv'
    <2> SUFFICES ASSUME IndexInv, OrderInv, [Next]_vars PROVE OrderInv'
      OBVIOUS
    <2>0. IndexInv'
      BY NextKeeps
    <2>1. CASE UNCHANGED vars
      <3>1. UNCHANGED <<toP, toM, portfolio, mpc, req, pos>> /\ OpFits'
        BY <2>1 DEF vars, wireVars, pVars, mVars, OrderInv, OpFits
      <3>2. QED
        BY <3>1, SameOrder
    <2>2. CASE AuthStep \/ QuoteStep \/ PortfolioStep \/ MainStep
      BY <2>0, <2>2, AuthKeepsOrder, QuoteKeepsOrder, PortfolioKeepsOrder,
         MainKeepsOrder
    <2>3. ASSUME NEW c \in Clients, ServeStep(c) \/ ClientStep(c)
          PROVE  OrderInv'
      BY <2>0, <2>3, ServeKeepsOrder, ClientKeepsOrder
    <2>4. QED
      BY <2>1, <2>2, <2>3 DEF Next
  <1>3. QED
    BY <1>1, <1>2, ConversationWithP, PTL DEF Spec

(* Every update that reaches Server P is for the user and the stock of the  *)
(* order being served, and makes the position exactly the shares now held   *)
(* plus (or minus) the shares ordered (operationType of serverM.cpp with    *)
(* updateStock of serverP.cpp): no other order has come in between.         *)
THEOREM TradesAreAsOrdered == Spec => []TradeAsOrdered
  <1>1. OrderInv => TradeAsOrdered
    <2>1. SUFFICES ASSUME OrderInv, NEW m \in UpdatesToP
                   PROVE  AsOrdered(m)
      BY DEF TradeAsOrdered, AsOrdered
    <2>2. PICK i \in DOMAIN toP : toP[i] = m /\ m.t = "update"
      BY DEF UpdatesToP, Range
    <2>3. QED
      BY <2>1, <2>2 DEF OrderInv, UpdateFits
  <1>2. QED
    BY <1>1, OrderInvInvariant, PTL

----------------------------------------------------------------------------
(* Positions stay unique: a consequence of the freshness of the index.      *)

(* Appending a stock that is not there. *)
LEMMA UniqueAppend ==
  ASSUME NEW p \in Seq(Holding), Unique(p), NEW h,
         \A i \in DOMAIN p : p[i].stockName # h.stockName
  PROVE  Unique(Append(p, h))
  BY AppendFacts DEF Unique

(* Changing the shares and the price of a position. *)
LEMMA UniqueReplace ==
  ASSUME NEW p \in Seq(Holding), Unique(p), NEW i \in DOMAIN p, NEW q, NEW a
  PROVE  Unique([p EXCEPT ![i].quantity = q, ![i].avgPrice = a])
  <1> DEFINE n == [p EXCEPT ![i].quantity = q, ![i].avgPrice = a]
             h == [[p[i] EXCEPT !.quantity = q] EXCEPT !.avgPrice = a]
  <1>1. p[i] \in Holding
    BY LenProperties, ElementOfSeq
  <1>2. h.stockName = p[i].stockName
    BY <1>1 DEF Holding
  <1>3. n = [p EXCEPT ![i] = h]
    OBVIOUS
  <1> HIDE DEF h
  <1>4. DOMAIN n = DOMAIN p /\ \A j \in DOMAIN p : n[j].stockName = p[j].stockName
    BY <1>2, <1>3
  <1> HIDE DEF n
  <1>5. Unique(n)
    BY <1>4 DEF Unique
  <1>6. QED
    BY <1>5 DEF n

(* What erase leaves behind: the positions after the gap move up by one.    *)
LEMMA RemoveAtFacts ==
  ASSUME NEW S, NEW p \in Seq(S), NEW i \in 1 .. Len(p)
  PROVE  /\ Len(RemoveAt(p, i)) = Len(p) - 1
         /\ DOMAIN RemoveAt(p, i) = 1 .. Len(p) - 1
         /\ \A j \in 1 .. Len(p) - 1 :
              RemoveAt(p, i)[j] = IF j < i THEN p[j] ELSE p[j + 1]
  <1> DEFINE a == SubSeq(p, 1, i - 1)
             b == SubSeq(p, i + 1, Len(p))
  <1>1. Len(p) \in Nat /\ i \in Nat /\ i >= 1 /\ i <= Len(p)
    BY LenProperties
  <1>2. /\ a \in Seq(S) /\ Len(a) = i - 1
        /\ \A j \in 1 .. i - 1 : a[j] = p[j]
    BY <1>1, SubSeqProperties, LenProperties, ElementOfSeq
  <1>3. /\ b \in Seq(S) /\ Len(b) = Len(p) - i
        /\ \A j \in 1 .. Len(p) - i : b[j] = p[i + j]
    BY <1>1, SubSeqProperties, LenProperties, ElementOfSeq
  <1>4. RemoveAt(p, i) = a \o b
    BY DEF RemoveAt
  <1> HIDE DEF a, b
  <1>5. /\ a \o b \in Seq(S)
        /\ Len(a \o b) = Len(a) + Len(b)
        /\ \A j \in 1 .. Len(a) + Len(b) :
             (a \o b)[j] = IF j <= Len(a) THEN a[j] ELSE b[j - Len(a)]
    BY <1>2, <1>3, ConcatProperties
  <1>6. Len(a \o b) = Len(p) - 1 /\ DOMAIN (a \o b) = 1 .. Len(p) - 1
    BY <1>1, <1>2, <1>3, <1>5, LenProperties
  <1>7. ASSUME NEW j \in 1 .. Len(p) - 1
        PROVE  (a \o b)[j] = IF j < i THEN p[j] ELSE p[j + 1]
    <2>1. CASE j < i
      BY <1>1, <1>2, <1>3, <1>5, <2>1
    <2>2. CASE ~(j < i)
      <3>1. (a \o b)[j] = b[j - Len(a)]
        BY <1>1, <1>2, <1>3, <1>5, <2>2
      <3>2. j - Len(a) \in 1 .. Len(p) - i /\ i + (j - Len(a)) = j + 1
        BY <1>1, <1>2, <2>2
      <3>3. QED
        BY <1>3, <2>2, <3>1, <3>2
    <2>3. QED
      BY <2>1, <2>2
  <1>8. QED
    BY <1>4, <1>6, <1>7

LEMMA UniqueRemove ==
  ASSUME NEW p \in Seq(Holding), Unique(p), NEW i \in 1 .. Len(p)
  PROVE  Unique(RemoveAt(p, i))
  <1>1. SUFFICES ASSUME NEW j \in DOMAIN RemoveAt(p, i),
                        NEW k \in DOMAIN RemoveAt(p, i),
                        RemoveAt(p, i)[j].stockName = RemoveAt(p, i)[k].stockName
                 PROVE  j = k
    BY DEF Unique
  <1> DEFINE from(n) == IF n < i THEN n ELSE n + 1
  <1>2. Len(p) \in Nat /\ i \in Nat /\ DOMAIN p = 1 .. Len(p)
    BY LenProperties
  <1>3. /\ j \in 1 .. Len(p) - 1 /\ k \in 1 .. Len(p) - 1
        /\ RemoveAt(p, i)[j] = p[from(j)] /\ RemoveAt(p, i)[k] = p[from(k)]
    BY RemoveAtFacts
  <1>4. from(j) \in DOMAIN p /\ from(k) \in DOMAIN p
    BY <1>2, <1>3
  <1>5. from(j) = from(k)
    BY <1>1, <1>3, <1>4 DEF Unique
  <1>6. QED
    BY <1>2, <1>3, <1>5

LEMMA StoreUnique ==
  ASSUME OnePositionPerStock, NEW u, NEW h, Unique(h), Store(u, h)
  PROVE  OnePositionPerStock'
  <1>1. \A v \in DOMAIN portfolio' : Unique(portfolio'[v])
    BY DEF OnePositionPerStock, Unique, Store
  <1>2. QED
    BY <1>1 DEF OnePositionPerStock, Unique

LEMMA UpdateKeepsUnique ==
  ASSUME IndexInv, OnePositionPerStock,
         PUpdateNew \/ PUpdateReplace \/ PUpdateRemove
  PROVE  OnePositionPerStock'
  <1> DEFINE m == Head(toP)
             i == m.index + 1
  <1>0. PReceives("update") /\ Valid(m)
    BY PUpdateFacts DEF PUpdateNew, PUpdateReplace, PUpdateRemove
  <1>1. m.user \in DOMAIN portfolio
    BY <1>0 DEF Valid
  <1>2. portfolio[m.user] \in Seq(Holding) /\ Unique(portfolio[m.user])
    BY <1>1 DEF IndexInv, ServerTypeOK, OnePositionPerStock, Unique
  <1>3. CASE PUpdateNew
    <2> DEFINE h == [stockName |-> m.stock, quantity |-> m.shares,
                     avgPrice |-> m.price]
    <2>1. Store(m.user, Append(portfolio[m.user], h)) /\ m.index = -1
      BY <1>1, <1>3 DEF PUpdateNew
    <2>2. \A j \in DOMAIN portfolio[m.user] :
            portfolio[m.user][j].stockName # h.stockName
      BY <1>0, <2>1 DEF Valid
    <2> HIDE DEF h
    <2>3. Unique(Append(portfolio[m.user], h))
      BY <1>2, <2>2, UniqueAppend
    <2>4. QED
      BY <2>1, <2>3, StoreUnique
  <1>4. CASE PUpdateReplace
    <2>1. i # 0 /\ i \in DOMAIN portfolio[m.user]
      BY <1>0, <1>4, PIndexFacts DEF PUpdateReplace
    <2>2. Unique([portfolio[m.user] EXCEPT ![i].quantity = m.shares,
                                           ![i].avgPrice = m.price])
      BY <1>2, <2>1, UniqueReplace
    <2>3. Store(m.user, [portfolio[m.user] EXCEPT ![i].quantity = m.shares,
                                                  ![i].avgPrice = m.price])
      BY <1>4 DEF PUpdateReplace
    <2>4. QED
      BY <2>2, <2>3, StoreUnique
  <1>5. CASE PUpdateRemove
    <2>1. i # 0 /\ i \in 1 .. Len(portfolio[m.user])
      BY <1>0, <1>2, <1>5, PIndexFacts, LenProperties DEF PUpdateRemove
    <2>2. Unique(RemoveAt(portfolio[m.user], i))
      BY <1>2, <2>1, UniqueRemove
    <2>3. \/ Store(m.user, RemoveAt(portfolio[m.user], i))
          \/ UNCHANGED portfolio
      BY <1>5 DEF PUpdateRemove
    <2>4. QED
      BY <2>2, <2>3, StoreUnique DEF OnePositionPerStock
  <1>6. QED
    BY <1>3, <1>4, <1>5

(* Only an update changes the portfolios. *)
LEMMA OnlyUpdatesWrite ==
  ASSUME [Next]_vars
  PROVE  PUpdateNew \/ PUpdateReplace \/ PUpdateRemove \/ UNCHANGED portfolio
  <1>1. CASE UNCHANGED vars
    BY <1>1 DEF vars, pVars
  <1>2. CASE AuthStep \/ QuoteStep \/ MainStep
    BY <1>2 DEF AuthStep, QuoteStep, MainStep, pVars
  <1>3. CASE PortfolioStep
    BY <1>3 DEF PortfolioStep, PPosition, PCheck, PRetrieve, PAnswer, PFallsOff,
       pVars
  <1>4. ASSUME NEW c \in Clients, ServeStep(c) \/ ClientStep(c)
        PROVE  UNCHANGED portfolio
    BY <1>4 DEF ServeStep, ClientStep, ReceiveStep, AnswerStep, CommandStep, pVars
  <1>5. QED
    BY <1>1, <1>2, <1>3, <1>4 DEF Next

(* If portfolios.txt lists no stock twice for a user, no user ever holds a  *)
(* stock twice, so getStock (the first match) and checkStock (the last) of  *)
(* serverP.cpp always speak of the same position.                           *)
THEOREM PositionsStayUnique ==
  ASSUME \A u \in DOMAIN Portfolios : Unique(Portfolios[u])
  PROVE  Spec => []OnePositionPerStock
  <1>1. Init => OnePositionPerStock
    BY DEF Init, PInit, OnePositionPerStock, Unique
  <1>2. IndexInv /\ OnePositionPerStock /\ [Next]_vars => OnePositionPerStock'
    BY OnlyUpdatesWrite, UpdateKeepsUnique DEF OnePositionPerStock
  <1>3. QED
    BY <1>1, <1>2, ConversationWithP, PTL DEF Spec
=============================================================================
