------------------------- MODULE ConversationProofs -------------------------
(***************************************************************************)
(* Server M and the three servers it asks: every wait of M has an answer   *)
(* coming, and the answer is true when it is read.                         *)
(*                                                                         *)
(* AuthInv and QuoteInv say of Server A and Server Q what IndexInv says of *)
(* Server P: no question and no answer while M does not wait for that      *)
(* server, then one question, last in its queue, then one answer.  Once M  *)
(* has ended or has read a wrong datagram (Lost) nothing is promised.      *)
(***************************************************************************)
EXTENDS ExchangeProofs

OfA == {"credentials"}
OfQ == {"quote", "quoteall"}
WaitsForQ == {"prices", "quote", "offer"}

----------------------------------------------------------------------------
(* M never waits for an answer that nobody owes it. *)

LEMMA SomePending ==
  ASSUME Pending # {}
  PROVE  \/ DOMAIN toA # {} \/ DOMAIN toM # {}
         \/ \E i \in DOMAIN toQ : toQ[i].t # "update"
         \/ \E i \in DOMAIN toP : toP[i].t # "answer"
  <1>1. PICK d : d \in Pending
    OBVIOUS
  <1>2. PICK i : \/ i \in DOMAIN toA \/ i \in DOMAIN toM
                 \/ i \in {j \in DOMAIN toQ : toQ[j].t # "update"}
                 \/ i \in {j \in DOMAIN toP : toP[j].t # "answer"}
    BY <1>1 DEF Pending
  <1>3. QED
    BY <1>2

LEMMA StillPending ==
  ASSUME \/ DOMAIN toA' # {} \/ DOMAIN toM' # {}
         \/ \E i \in DOMAIN toQ' : toQ'[i].t # "update"
         \/ \E i \in DOMAIN toP' : toP'[i].t # "answer"
  PROVE  Pending' # {}
  <1>1. ASSUME NEW i \in DOMAIN toA' PROVE Pending' # {}
    <2>1. <<"A", i>> \in Pending'
      BY DEF Pending
    <2>2. QED
      BY <2>1
  <1>2. ASSUME NEW i \in DOMAIN toM' PROVE Pending' # {}
    <2>1. <<"M", i>> \in Pending'
      BY DEF Pending
    <2>2. QED
      BY <2>1
  <1>3. ASSUME NEW i \in DOMAIN toQ', toQ'[i].t # "update" PROVE Pending' # {}
    <2>1. <<"Q", i>> \in Pending'
      BY <1>3 DEF Pending
    <2>2. QED
      BY <2>1
  <1>4. ASSUME NEW i \in DOMAIN toP', toP'[i].t # "answer" PROVE Pending' # {}
    <2>1. <<"P", i>> \in Pending'
      BY <1>4 DEF Pending
    <2>2. QED
      BY <2>1
  <1>5. QED
    BY <1>1, <1>2, <1>3, <1>4

(* A question has been sent, or an answer. *)
LEMMA AnswerComing ==
  ASSUME ServerTypeOK, NEW m, toM' = Append(toM, m)
  PROVE  Pending' # {}
  <1>1. Len(toM) + 1 \in DOMAIN toM'
    BY AppendFacts DEF ServerTypeOK
  <1>2. QED
    BY <1>1, StillPending

LEMMA QuestionSent ==
  ASSUME ServerTypeOK, NEW m,
         \/ toA' = Append(toA, m)
         \/ toQ' = Append(toQ, m) /\ m.t # "update"
         \/ toP' = Append(toP, m) /\ m.t # "answer"
         \/ \E a : toP' = toP \o <<a, m>> /\ m.t # "answer"
  PROVE  Pending' # {}
  <1>0. /\ toA \in Seq(CredentialsToA) /\ toQ \in Seq(QuoteToQ \cup UpdateToQ)
        /\ toP \in Seq(ToP)
    BY DEF ServerTypeOK
  <1>1. CASE toA' = Append(toA, m)
    <2>1. Len(toA) + 1 \in DOMAIN toA'
      BY <1>0, <1>1, AppendFacts
    <2>2. QED
      BY <2>1, StillPending
  <1>2. CASE toQ' = Append(toQ, m) /\ m.t # "update"
    <2>1. Len(toQ) + 1 \in DOMAIN toQ' /\ toQ'[Len(toQ) + 1] = m
      BY <1>0, <1>2, AppendFacts
    <2>2. QED
      BY <1>2, <2>1, StillPending
  <1>3. CASE toP' = Append(toP, m) /\ m.t # "answer"
    <2>1. Len(toP) + 1 \in DOMAIN toP' /\ toP'[Len(toP) + 1] = m
      BY <1>0, <1>3, AppendFacts
    <2>2. QED
      BY <1>3, <2>1, StillPending
  <1>4. ASSUME NEW a, toP' = toP \o <<a, m>>, m.t # "answer"
        PROVE  Pending' # {}
    <2>1. Len(toP) + 2 \in DOMAIN toP' /\ toP'[Len(toP) + 2] = m
      BY <1>0, <1>4
    <2>2. QED
      BY <1>4, <2>1, StillPending
  <1>5. QED
    BY <1>1, <1>2, <1>3, <1>4

(* A server takes what nobody waits for: nothing that is owed goes.         *)
LEMMA PendingStays ==
  ASSUME ServerTypeOK, toA' = toA,
         \/ toQ' = toQ
         \/ toQ # <<>> /\ toQ' = Tail(toQ) /\ Head(toQ).t = "update",
         \/ toP' = toP
         \/ toP # <<>> /\ toP' = Tail(toP) /\ Head(toP).t = "answer",
         DOMAIN toM \subseteq DOMAIN toM', Pending # {}
  PROVE  Pending' # {}
  <1>1. CASE DOMAIN toA # {} \/ DOMAIN toM # {}
    BY <1>1, StillPending
  <1>2. ASSUME NEW i \in DOMAIN toQ, toQ[i].t # "update"
        PROVE  Pending' # {}
    <2>1. CASE toQ' = toQ
      BY <1>2, <2>1, StillPending
    <2>2. CASE toQ # <<>> /\ toQ' = Tail(toQ) /\ Head(toQ).t = "update"
      <3>1. i - 1 \in DOMAIN toQ' /\ toQ'[i - 1] = toQ[i]
        BY <1>2, <2>2 DEF ServerTypeOK
      <3>2. QED
        BY <1>2, <3>1, StillPending
    <2>3. QED
      BY <2>1, <2>2
  <1>3. ASSUME NEW i \in DOMAIN toP, toP[i].t # "answer"
        PROVE  Pending' # {}
    <2>1. CASE toP' = toP
      BY <1>3, <2>1, StillPending
    <2>2. CASE toP # <<>> /\ toP' = Tail(toP) /\ Head(toP).t = "answer"
      <3>1. i - 1 \in DOMAIN toP' /\ toP'[i - 1] = toP[i]
        BY <1>3, <2>2 DEF ServerTypeOK
      <3>2. QED
        BY <1>3, <3>1, StillPending
    <2>3. QED
      BY <2>1, <2>2
  <1>4. QED
    BY <1>1, <1>2, <1>3, SomePending

LEMMA ServersAnswer ==
  ASSUME ServerTypeOK, NeverWaitsInVain,
         AuthStep \/ QuoteStep \/ PortfolioStep
  PROVE  NeverWaitsInVain'
  <1>0. AwaitsDatagram' => AwaitsDatagram
    BY DEF AuthStep, QuoteStep, PortfolioStep, mVars, AwaitsDatagram, Awaited
  <1>1. SUFFICES (\E m : toM' = Append(toM, m)) \/ (Pending # {} => Pending' # {})
    BY <1>0, AnswerComing DEF NeverWaitsInVain
  <1>2. CASE AuthStep
    BY <1>2 DEF AuthStep, AReply
  <1>3. CASE QuoteStep /\ ~QUpdate
    BY <1>3 DEF QuoteStep, QQuote, QQuoteAll
  <1>4. CASE QUpdate
    BY <1>4, PendingStays DEF QUpdate, QReceives
  <1>5. CASE PPosition \/ PCheck \/ PRetrieve
    BY <1>5 DEF PPosition, PCheck, PRetrieve, PReplies
  <1>6. CASE PUpdateNew \/ PUpdateReplace \/ PUpdateRemove
    BY <1>6 DEF PUpdateNew, PUpdateReplace, PUpdateRemove, PReplies
  <1>7. CASE PAnswer \/ PFallsOff
    <2>1. toM' = toM \/ toM' = Append(toM, [t |-> "junk"])
      BY <1>7 DEF PAnswer, PFallsOff
    <2>2. DOMAIN toM \subseteq DOMAIN toM'
      BY <2>1, AppendFacts DEF ServerTypeOK
    <2>3. QED
      BY <1>7, <2>2, PendingStays DEF PAnswer, PFallsOff, PReceives
  <1>8. QED
    BY <1>2, <1>3, <1>4, <1>5, <1>6, <1>7 DEF QuoteStep, PortfolioStep

(* M takes up a request, or goes on with one: it has asked somebody, or it  *)
(* waits for no datagram.                                                   *)
LEMMA ServeAsks ==
  ASSUME IndexInv, NeverWaitsInVain, NEW c \in Clients, ServeStep(c)
  PROVE  NeverWaitsInVain'
  <1>0. ServerTypeOK
    BY DEF IndexInv
  <1>1. CASE MLogin(c)
    BY <1>0, <1>1, QuestionSent DEF MLogin, NeverWaitsInVain
  <1>2. CASE MPosition(c)
    BY <1>0, <1>2, QuestionSent DEF MPosition, NeverWaitsInVain
  <1>3. CASE MTransact(c)
    BY <1>0, <1>3, QuestionSent DEF MTransact, ToQ, NeverWaitsInVain
  <1>4. ASSUME NEW type \in {"quote", "quoteall"}, MQuote(c, type)
        PROVE  NeverWaitsInVain'
    <2>1. Head(c2m[c]).t # "update" /\ toQ' = Append(toQ, Head(c2m[c]))
      BY <1>4 DEF MQuote, Reads, ToQ
    <2>2. QED
      BY <1>0, <2>1, QuestionSent DEF NeverWaitsInVain
  <1>5. CASE MClose(c)
    <2>1. ~AwaitsDatagram'
      BY <1>5 DEF MClose, mVars, AwaitsDatagram, Awaited
    <2>2. QED
      BY <2>1 DEF NeverWaitsInVain
  <1>6. QED
    BY <1>1, <1>2, <1>3, <1>4, <1>5 DEF ServeStep

LEMMA MainAsks ==
  ASSUME IndexInv, MainStep
  PROVE  NeverWaitsInVain'
  <1>0. ServerTypeOK
    BY DEF IndexInv
  <1>1. CASE mpc' \in {"poll", "buy_answer", "sell_sleep", "sell_answer"} \cup Lost
    <2>1. ~AwaitsDatagram'
      BY <1>1 DEF Lost, AwaitsDatagram, Awaited
    <2>2. QED
      BY <2>1 DEF NeverWaitsInVain
  <1>2. CASE \/ MAuth \/ MGain \/ MQuoteReply \/ MBuyOffer \/ MBuyDenied
             \/ MBuyNobody \/ MBuyThrows \/ MSellUnknown \/ MSellRefused
             \/ MSellPass \/ MSellOffer \/ MSellDenied \/ MResult
             \/ MSigPipe \/ MMisread
    BY <1>1, <1>2 DEF MAuth, MGain, MQuoteReply, MBuyOffer, MBuyDenied,
       MBuyNobody, MBuyThrows, MSellUnknown, MSellRefused, MSellPass,
       MSellOffer, MSellDenied, MResult, MSigPipe, MMisread, Return, Lost
  <1>3. CASE MPortfolio
    BY <1>0, <1>3, QuestionSent DEF MPortfolio, ToQ, NeverWaitsInVain
  <1>4. CASE MBuyApproved
    BY <1>0, <1>4, QuestionSent DEF MBuyApproved, Retrieve, NeverWaitsInVain
  <1>5. CASE MBuyUpdate
    <2>1. Bought(Head(toM)).t = "update"
      BY DEF Bought, UpdateP
    <2>2. QED
      BY <1>0, <1>5, <2>1, QuestionSent DEF MBuyUpdate, NeverWaitsInVain
  <1>6. CASE MSellQuoted
    BY <1>0, <1>6, QuestionSent DEF MSellQuoted, NeverWaitsInVain
  <1>7. CASE MSellChecked
    BY <1>0, <1>7, QuestionSent DEF MSellChecked, Retrieve, NeverWaitsInVain
  <1>8. CASE MSellApproved
    <2>1. PICK m : m = UpdateP(pos, Wrap(pos.shares - req.shares), pos.price)
      OBVIOUS
    <2>2. m.t = "update" /\ toP' = toP \o <<AnswerToP, m>>
      BY <1>8, <2>1 DEF MSellApproved, UpdateP
    <2>3. QED
      BY <1>0, <2>2, QuestionSent DEF NeverWaitsInVain
  <1>9. QED
    BY <1>2, <1>3, <1>4, <1>5, <1>6, <1>7, <1>8 DEF MainStep

LEMMA ClientsLeaveUdp ==
  ASSUME NEW c \in Clients, ClientStep(c)
  PROVE  UNCHANGED <<udpVars, priceIndex, pVars, mVars>>
  BY DEF ClientStep, ReceiveStep, AnswerStep, CommandStep, CAuth, CShow,
     CValid, COffer, CNoSuchStock, CResult, Receives, CAnswer, CLogin, CAsk,
     CTrade, CLeave, Sends

(* UDPrecv has no timeout, so a wait for a reply that nobody owes would be  *)
(* for ever (UDPrecv of serverM.cpp, called by operationType):              *)
(* whoever leaves and whatever Server P sends, M never waits like that.     *)
THEOREM NobodyWaitsInVain == Spec => []NeverWaitsInVain
  <1>1. Init => NeverWaitsInVain
    BY DEF Init, MInit, NeverWaitsInVain, AwaitsDatagram, Awaited
  <1>2. IndexInv /\ NeverWaitsInVain /\ [Next]_vars => NeverWaitsInVain'
    <2> SUFFICES ASSUME IndexInv, NeverWaitsInVain, [Next]_vars
                 PROVE  NeverWaitsInVain'
      OBVIOUS
    <2>1. CASE UNCHANGED <<udpVars, mVars>>
      BY <2>1 DEF udpVars, mVars, NeverWaitsInVain, AwaitsDatagram, Awaited,
         Pending
    <2>2. CASE UNCHANGED vars
      BY <2>1, <2>2 DEF vars, wireVars, udpVars
    <2>3. CASE AuthStep \/ QuoteStep \/ PortfolioStep \/ MainStep
      BY <2>3, ServersAnswer, MainAsks DEF IndexInv
    <2>4. ASSUME NEW c \in Clients, ServeStep(c) \/ ClientStep(c)
          PROVE  NeverWaitsInVain'
      BY <2>1, <2>4, ServeAsks, ClientsLeaveUdp
    <2>5. QED
      BY <2>2, <2>3, <2>4 DEF Next
  <1>3. QED
    BY <1>1, <1>2, ConversationWithP, PTL DEF Spec

----------------------------------------------------------------------------
(* The conversation with Server Q. *)

AskedOfQ == IF mpc = "prices" THEN "quoteall"
            ELSE IF mpc = "quote" THEN req.t ELSE "quote"
PricesNow == [s \in Listed |-> CurrentPrice(s)]

QuestionsToQ ==
  \A i \in DOMAIN toQ : toQ[i].t # "update" =>
    /\ i = Len(toQ) /\ mpc \in WaitsForQ
    /\ toQ[i].t = AskedOfQ
    /\ mpc = "offer" => toQ[i].stock = req.stock
    /\ \A j \in DOMAIN toM : toM[j].t \notin OfQ

RepliesOfQ ==
  \A i \in DOMAIN toM : toM[i].t \in OfQ =>
    /\ mpc \in WaitsForQ /\ toQ = <<>>
    /\ toM[i].t = AskedOfQ
    /\ mpc = "offer" => toM[i].price = QuoteOf(req.stock)
    /\ mpc = "prices" => toM[i].prices = PricesNow
    /\ \A j \in DOMAIN toM : toM[j].t \in OfQ => j = i

(* Time moves once per order, and Server Q has moved it before it quotes    *)
(* for the next one.                                                        *)
OneTick ==
  \A i, j \in DOMAIN toQ : toQ[i].t = "update" /\ toQ[j].t = "update" => i = j

OfferFits ==
  mpc \in Trading \ {"offer"} => toQ = <<>> /\ offer = QuoteOf(req.stock)

QuoteAsked == mpc = "quote" => req.t \in OfQ

QuoteInv ==
  mpc \notin Lost =>
    QuestionsToQ /\ RepliesOfQ /\ OneTick /\ OfferFits /\ QuoteAsked

NoQuestionQ == \A i \in DOMAIN toQ : toQ[i].t = "update"
NoReplyQ == \A i \in DOMAIN toM : toM[i].t \notin OfQ

LEMMA QuietQ ==
  ASSUME QuoteInv, mpc \notin WaitsForQ \cup Lost
  PROVE  NoQuestionQ /\ NoReplyQ /\ OneTick
  BY DEF QuoteInv, QuestionsToQ, RepliesOfQ, NoQuestionQ, NoReplyQ

LEMMA QuietKeepsQ ==
  ASSUME NoQuestionQ', NoReplyQ', OneTick', OfferFits', mpc' # "quote"
  PROVE  QuoteInv'
  BY DEF QuoteAsked, QuoteInv, QuestionsToQ, RepliesOfQ, NoQuestionQ, NoReplyQ

LEMMA HeardQ ==
  ASSUME ServerTypeOK, QuoteInv, mpc \notin Lost,
         toM # <<>>, Head(toM).t \in OfQ, toM' = Tail(toM)
  PROVE  toQ = <<>> /\ NoReplyQ'
  <1>1. /\ 1 \in DOMAIN toM /\ Head(toM) = toM[1]
        /\ \A i \in DOMAIN toM' : i + 1 \in DOMAIN toM /\ toM'[i] = toM[i + 1]
    BY TailFacts DEF ServerTypeOK
  <1>2. toQ = <<>> /\ \A j \in DOMAIN toM : toM[j].t \in OfQ => j = 1
    BY <1>1 DEF QuoteInv, RepliesOfQ
  <1>3. \A i \in DOMAIN toM' : i + 1 # 1
    BY DEF ServerTypeOK
  <1>4. QED
    BY <1>1, <1>2, <1>3 DEF NoReplyQ

LEMMA HeardNotQ ==
  ASSUME ServerTypeOK, NoReplyQ, toM # <<>>, toM' = Tail(toM)
  PROVE  NoReplyQ'
  BY TailFacts DEF ServerTypeOK, NoReplyQ

(* M asks Server Q, with no question there and no answer under way. *)
LEMMA AsksQ ==
  ASSUME ServerTypeOK, NoQuestionQ, OneTick, NoReplyQ', NEW m, ToQ(m),
         m.t \in OfQ, mpc' \in WaitsForQ, m.t = AskedOfQ',
         mpc' = "offer" => m.stock = req'.stock
  PROVE  QuoteInv'
  <1>0. toQ \in Seq(QuoteToQ \cup UpdateToQ) /\ toQ' = Append(toQ, m)
    BY DEF ServerTypeOK, ToQ
  <1>1. /\ Len(toQ') = Len(toQ) + 1
        /\ DOMAIN toQ' = DOMAIN toQ \cup {Len(toQ) + 1}
        /\ \A i \in DOMAIN toQ : toQ'[i] = toQ[i]
        /\ toQ'[Len(toQ) + 1] = m
    BY <1>0, AppendFacts
  <1>2. QuestionsToQ'
    BY <1>1 DEF NoQuestionQ, NoReplyQ, QuestionsToQ
  <1>3. RepliesOfQ' /\ OfferFits' /\ QuoteAsked'
    BY DEF NoReplyQ, RepliesOfQ, OfferFits, QuoteAsked, AskedOfQ, WaitsForQ,
           Trading
  <1>4. OneTick'
    BY <1>1 DEF OneTick, OfQ
  <1>5. QED
    BY <1>2, <1>3, <1>4 DEF QuoteInv

(* M tells Server Q to move time, and is done. *)
LEMMA TicksKeepsQ ==
  ASSUME toQ = <<>>, NoReplyQ', Tick, mpc' = "poll"
  PROVE  QuoteInv'
  <1>1. PICK m : m = [t |-> "update", stock |-> req.stock]
    OBVIOUS
  <1>2. toQ' = <<m>> /\ m.t = "update"
    BY <1>1 DEF Tick, ToQ
  <1>3. NoQuestionQ' /\ OneTick'
    BY <1>2 DEF NoQuestionQ, OneTick
  <1>4. OfferFits'
    BY DEF OfferFits, Trading
  <1>5. QED
    BY <1>3, <1>4, QuietKeepsQ

(* M goes on with an order, or is done with a request, without Server Q.    *)
LEMMA GoesOnWithoutQ ==
  ASSUME NoQuestionQ, OneTick, NoReplyQ', UNCHANGED <<toQ, priceIndex>>,
         mpc' # "quote",
         \/ mpc' \notin Trading
         \/ /\ mpc \in Trading \ {"offer"} /\ OfferFits
            /\ UNCHANGED <<req, offer>>
  PROVE  QuoteInv'
  <1>1. NoQuestionQ' /\ OneTick'
    BY DEF NoQuestionQ, OneTick
  <1>2. OfferFits'
    BY DEF OfferFits, QuoteOf, CurrentPrice
  <1>3. QED
    BY <1>1, <1>2, QuietKeepsQ

(* What Server P sends. *)
LEMMA PortfolioReplies ==
  ASSUME PortfolioStep
  PROVE  \/ toM' = toM
         \/ \E m : /\ toM' = Append(toM, m)
                   /\ m.t \in {"position", "check", "held", "result", "nothing",
                               "junk"}
  <1>1. CASE PPosition \/ PCheck
    BY <1>1 DEF PPosition, PCheck, PReplies
  <1>2. CASE PRetrieve
    <2>1. \A u, stock : getStock(u, stock).t = "held"
      BY DEF getStock
    <2>2. QED
      BY <1>2, <2>1 DEF PRetrieve, PReplies
  <1>3. CASE PUpdateNew
    BY <1>3 DEF PUpdateNew, PReplies, Result
  <1>4. CASE PUpdateReplace
    <2>1. \A op, o, n : Result(op, o, n).t = "result"
      BY DEF Result
    <2>2. QED
      BY <1>4, <2>1 DEF PUpdateReplace, PReplies
  <1>5. CASE PUpdateRemove
    BY <1>5 DEF PUpdateRemove, PReplies, Result
  <1>6. CASE PAnswer \/ PFallsOff
    BY <1>6 DEF PAnswer, PFallsOff
  <1>7. QED
    BY <1>1, <1>2, <1>3, <1>4, <1>5, <1>6 DEF PortfolioStep

(* Servers A and P, and the clients. *)
LEMMA OthersKeepQ ==
  ASSUME ServerTypeOK, QuoteInv, UNCHANGED <<toQ, priceIndex, mVars>>,
         toM' = toM \/ (\E m : m.t \notin OfQ /\ toM' = Append(toM, m))
  PROVE  QuoteInv'
  <1>0. UNCHANGED <<mpc, req, offer, PricesNow, AskedOfQ>>
        /\ UNCHANGED QuoteOf(req.stock)
    BY DEF mVars, PricesNow, AskedOfQ, QuoteOf, CurrentPrice
  <1>1. SUFFICES ASSUME mpc \notin Lost PROVE QuoteInv'
    BY <1>0 DEF QuoteInv
  <1>2. QuestionsToQ /\ RepliesOfQ /\ OneTick /\ OfferFits /\ QuoteAsked
    BY <1>1 DEF QuoteInv
  <1>3. \A i \in DOMAIN toM' : toM'[i].t \in OfQ =>
          i \in DOMAIN toM /\ toM'[i] = toM[i]
    <2>1. PICK S : toM \in Seq(S)
      BY DEF ServerTypeOK
    <2>2. CASE toM' = toM
      BY <2>2
    <2>3. CASE \E m : m.t \notin OfQ /\ toM' = Append(toM, m)
      <3>1. PICK m : m.t \notin OfQ /\ toM' = Append(toM, m)
        BY <2>3
      <3>2. /\ DOMAIN toM' = DOMAIN toM \cup {Len(toM) + 1}
            /\ \A i \in DOMAIN toM : toM'[i] = toM[i]
            /\ toM'[Len(toM) + 1] = m
        BY <2>1, <3>1, AppendFacts
      <3>3. QED
        BY <3>1, <3>2
    <2>4. QED
      BY <2>2, <2>3
  <1>4. QuestionsToQ'
    BY <1>0, <1>2, <1>3 DEF QuestionsToQ
  <1>5. RepliesOfQ'
    BY <1>0, <1>2, <1>3 DEF RepliesOfQ
  <1>6. OneTick' /\ OfferFits' /\ QuoteAsked'
    BY <1>0, <1>2 DEF OneTick, OfferFits, QuoteAsked
  <1>7. QED
    BY <1>4, <1>5, <1>6 DEF QuoteInv

(* Server Q takes the only question there is and answers it. *)
LEMMA QAnswersKeeps ==
  ASSUME ServerTypeOK, QuoteInv, UNCHANGED <<priceIndex, mVars>>,
         toQ # <<>>, Head(toQ).t # "update", toQ' = Tail(toQ),
         NEW m, m.t = Head(toQ).t, m.t \in OfQ, toM' = Append(toM, m),
         m.t = "quote" => m.price = QuoteOf(Head(toQ).stock),
         m.t = "quoteall" => m.prices = PricesNow
  PROVE  QuoteInv'
  <1>0. UNCHANGED <<mpc, req, offer, PricesNow, AskedOfQ>>
        /\ UNCHANGED QuoteOf(req.stock)
    BY DEF mVars, PricesNow, AskedOfQ, QuoteOf, CurrentPrice
  <1>1. SUFFICES ASSUME mpc \notin Lost PROVE QuoteInv'
    BY <1>0 DEF QuoteInv
  <1>2. 1 \in DOMAIN toQ /\ Head(toQ) = toQ[1]
    BY TailFacts DEF ServerTypeOK
  <1>3. /\ Len(toQ) = 1 /\ mpc \in WaitsForQ /\ m.t = AskedOfQ
        /\ mpc = "offer" => toQ[1].stock = req.stock
        /\ \A j \in DOMAIN toM : toM[j].t \notin OfQ
    BY <1>1, <1>2 DEF QuoteInv, QuestionsToQ
  <1>4. toQ' = <<>>
    BY <1>3, EmptySeq, TailFacts DEF ServerTypeOK
  <1>5. /\ DOMAIN toM' = DOMAIN toM \cup {Len(toM) + 1}
        /\ \A j \in DOMAIN toM : toM'[j] = toM[j]
        /\ toM'[Len(toM) + 1] = m
    BY AppendFacts DEF ServerTypeOK
  <1>6. \A i \in DOMAIN toM' : toM'[i].t \in OfQ => i = Len(toM) + 1 /\ toM'[i] = m
    BY <1>3, <1>5
  <1>7. /\ mpc = "offer" => m.price = QuoteOf(req.stock)
        /\ mpc = "prices" => m.prices = PricesNow
    BY <1>2, <1>3 DEF AskedOfQ
  <1>8. RepliesOfQ'
    BY <1>0, <1>3, <1>4, <1>6, <1>7 DEF RepliesOfQ
  <1>9. QuestionsToQ' /\ OneTick' /\ OfferFits' /\ QuoteAsked'
    BY <1>0, <1>1, <1>3, <1>4 DEF QuoteInv, QuestionsToQ, OneTick, OfferFits,
       QuoteAsked, WaitsForQ, Trading
  <1>10. QED
    BY <1>8, <1>9 DEF QuoteInv

(* Time moves: nobody is offered a price meanwhile. *)
LEMMA QUpdateKeepsQ ==
  ASSUME ServerTypeOK, QuoteInv, QUpdate, UNCHANGED mVars
  PROVE  QuoteInv'
  <1>0. UNCHANGED <<mpc, req, offer, AskedOfQ, toM>>
    BY DEF mVars, AskedOfQ, QUpdate
  <1>1. SUFFICES ASSUME mpc \notin Lost PROVE QuoteInv'
    BY <1>0 DEF QuoteInv
  <1>2. /\ toQ # <<>> /\ toQ' = Tail(toQ) /\ Len(toQ') = Len(toQ) - 1
        /\ \A i \in DOMAIN toQ' : i + 1 \in DOMAIN toQ /\ toQ'[i] = toQ[i + 1]
    BY TailFacts DEF ServerTypeOK, QUpdate, QReceives
  <1>3. NoReplyQ' /\ mpc \notin Trading \ {"offer"}
    BY <1>0, <1>1, <1>2 DEF QuoteInv, RepliesOfQ, NoReplyQ, OfferFits
  <1>4. QuestionsToQ'
    <2>1. ASSUME NEW i \in DOMAIN toQ', toQ'[i].t # "update"
          PROVE  /\ i = Len(toQ') /\ mpc \in WaitsForQ
                 /\ toQ'[i].t = AskedOfQ
                 /\ mpc = "offer" => toQ'[i].stock = req.stock
      <3>1. i + 1 \in DOMAIN toQ /\ toQ'[i] = toQ[i + 1]
        BY <1>2
      <3>2. i + 1 = Len(toQ)
        BY <1>1, <2>1, <3>1 DEF QuoteInv, QuestionsToQ
      <3>3. i = Len(toQ')
        BY <1>2, <3>2 DEF ServerTypeOK
      <3>4. QED
        BY <1>1, <2>1, <3>1, <3>3 DEF QuoteInv, QuestionsToQ
    <2>2. QED
      BY <1>0, <1>3, <2>1 DEF QuestionsToQ, NoReplyQ
  <1>5. OneTick'
    <2>1. \A i, j \in DOMAIN toQ' : i + 1 = j + 1 => i = j
      BY <1>2 DEF ServerTypeOK
    <2>2. QED
      BY <1>1, <1>2, <2>1 DEF QuoteInv, OneTick
  <1>6. RepliesOfQ' /\ OfferFits' /\ QuoteAsked'
    BY <1>0, <1>1, <1>3 DEF QuoteInv, RepliesOfQ, NoReplyQ, OfferFits, QuoteAsked
  <1>7. QED
    BY <1>4, <1>5, <1>6 DEF QuoteInv

LEMMA ServersKeepQ ==
  ASSUME ServerTypeOK, QuoteInv, AuthStep \/ QuoteStep \/ PortfolioStep
  PROVE  QuoteInv'
  <1>1. CASE AuthStep
    <2>1. PICK m : m.t = "credentials" /\ toM' = Append(toM, m)
      BY <1>1 DEF AuthStep, AReply
    <2>2. QED
      BY <1>1, <2>1, OthersKeepQ DEF AuthStep, AReply, OfQ
  <1>2. CASE QuoteStep
    <2>1. CASE QQuote
      <3>1. PICK m : m = [t |-> "quote", stock |-> Head(toQ).stock,
                          price |-> QuoteOf(Head(toQ).stock)]
        OBVIOUS
      <3>2. QED
        BY <1>2, <2>1, <3>1, QAnswersKeeps DEF QuoteStep, QQuote, QReceives, OfQ
    <2>2. CASE QQuoteAll
      <3>1. PICK m : m = [t |-> "quoteall", prices |-> PricesNow]
        OBVIOUS
      <3>2. QED
        BY <1>2, <2>2, <3>1, QAnswersKeeps
           DEF QuoteStep, QQuoteAll, QReceives, OfQ, PricesNow
    <2>3. CASE QUpdate
      BY <1>2, <2>3, QUpdateKeepsQ DEF QuoteStep
    <2>4. QED
      BY <1>2, <2>1, <2>2, <2>3 DEF QuoteStep
  <1>3. CASE PortfolioStep
    <2>1. toM' = toM \/ (\E m : m.t \notin OfQ /\ toM' = Append(toM, m))
      BY <1>3, PortfolioReplies DEF OfQ
    <2>2. QED
      BY <1>3, <2>1, OthersKeepQ DEF PortfolioStep, PPosition, PCheck, PRetrieve,
         PUpdateNew, PUpdateReplace, PUpdateRemove, PAnswer, PFallsOff, PReplies
  <1>4. QED
    BY <1>1, <1>2, <1>3

LEMMA ServeKeepsQ ==
  ASSUME IndexInv, QuoteInv, NEW c \in Clients, ServeStep(c)
  PROVE  QuoteInv'
  <1>0. ServerTypeOK /\ mpc = "poll"
    BY DEF IndexInv, ServeStep, MLogin, MPosition, MTransact, MClose, MQuote,
       Reads
  <1>1. NoQuestionQ /\ NoReplyQ /\ OneTick
    BY <1>0, QuietQ DEF WaitsForQ, Lost
  <1>2. CASE MLogin(c) \/ MPosition(c) \/ MClose(c)
    <2>1. UNCHANGED <<toQ, toM, priceIndex>> /\ mpc' \notin Trading \cup {"quote"}
      BY <1>0, <1>2 DEF ServeStep, MLogin, MPosition, MClose, Reads, mVars,
         udpVars, Trading
    <2>2. QED
      BY <1>1, <2>1, GoesOnWithoutQ DEF NoReplyQ
  <1>3. CASE MTransact(c)
    <2>1. PICK m : m = [t |-> "quote", stock |-> Head(c2m[c]).stock]
      OBVIOUS
    <2>2. ToQ(m) /\ NoReplyQ' /\ mpc' = "offer" /\ req'.stock = m.stock
      BY <1>1, <1>3, <2>1 DEF MTransact, Reads, NoReplyQ
    <2>3. QED
      BY <1>0, <1>1, <2>1, <2>2, AsksQ DEF AskedOfQ, WaitsForQ, OfQ
  <1>4. ASSUME NEW type \in {"quote", "quoteall"}, MQuote(c, type)
        PROVE  QuoteInv'
    <2>1. PICK m : m = Head(c2m[c])
      OBVIOUS
    <2>2. /\ ToQ(m) /\ NoReplyQ' /\ mpc' = "quote" /\ req'.t = m.t
          /\ m.t \in {"quote", "quoteall"}
      BY <1>1, <1>4, <2>1 DEF MQuote, Reads, NoReplyQ
    <2>3. QED
      BY <1>0, <1>1, <2>2, AsksQ DEF AskedOfQ, WaitsForQ, OfQ
  <1>5. QED
    BY <1>2, <1>3, <1>4 DEF ServeStep

(* M at a step that does not wait for Server Q. *)
LEMMA QuietMainQ ==
  ASSUME IndexInv, QuoteInv, MainStep, mpc \notin WaitsForQ \cup Lost
  PROVE  NoQuestionQ /\ OneTick /\ NoReplyQ'
  <1>1. NoQuestionQ /\ NoReplyQ /\ OneTick
    BY QuietQ
  <1>2. toM' = toM \/ (toM # <<>> /\ toM' = Tail(toM))
    BY DEF MainStep, MAuth, MPortfolio, MGain, MQuoteReply, MBuyOffer, MBuyDenied,
       MBuyNobody, MBuyApproved, MBuyUpdate, MBuyThrows, MSellQuoted,
       MSellChecked, MSellUnknown, MSellRefused, MSellPass, MSellOffer,
       MSellDenied, MSellApproved, MResult, MSigPipe, MMisread, Hears,
       HearsClient, wireVars, udpVars
  <1>3. NoReplyQ'
    BY <1>1, <1>2, HeardNotQ DEF NoReplyQ, IndexInv
  <1>4. QED
    BY <1>1, <1>3

(* The answer of Server Q has come. *)
LEMMA MQuotedKeepsQ ==
  ASSUME IndexInv, QuoteInv, MainStep,
         MGain \/ MQuoteReply \/ MBuyOffer \/ MSellQuoted
  PROVE  QuoteInv'
  <1>0. ServerTypeOK /\ RepliesOfQ /\ QuoteAsked
    BY DEF IndexInv, QuoteInv, Lost, MGain, MQuoteReply, MBuyOffer, MSellQuoted,
       Hears
  <1>1. /\ mpc \in WaitsForQ /\ toM # <<>> /\ toM' = Tail(toM)
        /\ 1 \in DOMAIN toM /\ Head(toM) = toM[1]
        /\ UNCHANGED <<toQ, priceIndex>>
    BY <1>0, TailFacts DEF ServerTypeOK, MGain, MQuoteReply, MBuyOffer, MSellQuoted,
       Hears, MainStep, WaitsForQ
  <1>2. CASE MGain \/ MBuyOffer \/ MSellQuoted
    <2>1. Head(toM).t \in OfQ
      BY <1>2 DEF MGain, MBuyOffer, MSellQuoted, Hears, OfQ
    <2>2. toQ = <<>> /\ NoReplyQ'
      BY <1>0, <1>1, <2>1, HeardQ DEF WaitsForQ, Lost
    <2>3. NoQuestionQ' /\ OneTick'
      BY <1>1, <2>2 DEF NoQuestionQ, OneTick
    <2>4. OfferFits'
      <3>1. CASE MGain
        BY <3>1 DEF MGain, Return, OfferFits, Trading
      <3>2. CASE MBuyOffer \/ MSellQuoted
        <4>1. /\ offer' = toM[1].price /\ mpc = "offer"
              /\ UNCHANGED <<req, priceIndex>>
          BY <1>1, <3>2 DEF MBuyOffer, MSellQuoted, MainStep, Hears
        <4>2. offer' = QuoteOf(req.stock)
          BY <1>0, <1>1, <2>1, <4>1 DEF RepliesOfQ
        <4>3. QED
          BY <1>1, <2>2, <4>1, <4>2 DEF OfferFits, QuoteOf, CurrentPrice
      <3>3. QED
        BY <1>2, <3>1, <3>2
    <2>5. mpc' # "quote"
      BY <1>2 DEF MGain, MBuyOffer, MSellQuoted, Return
    <2>6. QED
      BY <2>2, <2>3, <2>4, <2>5, QuietKeepsQ
  <1>3. CASE MQuoteReply
    <2>1. mpc' = "poll" /\ Head(toM).t \in OfQ
      BY <1>0, <1>3 DEF MQuoteReply, Hears, Return, QuoteAsked
    <2>2. toQ = <<>> /\ NoReplyQ'
      BY <1>0, <1>1, <2>1, HeardQ DEF WaitsForQ, Lost
    <2>3. NoQuestionQ' /\ OneTick' /\ OfferFits'
      BY <1>1, <2>1, <2>2 DEF NoQuestionQ, OneTick, OfferFits, Trading
    <2>4. QED
      BY <2>1, <2>2, <2>3, QuietKeepsQ
  <1>4. QED
    BY <1>2, <1>3

LEMMA MainKeepsQ ==
  ASSUME IndexInv, QuoteInv, MainStep
  PROVE  QuoteInv'
  <1>0. UNCHANGED priceIndex
    BY DEF MainStep
  <1>1. CASE MGain \/ MQuoteReply \/ MBuyOffer \/ MSellQuoted
    BY <1>1, MQuotedKeepsQ
  <1>2. CASE MAuth \/ MBuyNobody \/ MSellUnknown
    <2>1. mpc \notin WaitsForQ \cup Lost /\ mpc' = "poll" /\ UNCHANGED toQ
      BY <1>2 DEF MAuth, MBuyNobody, MSellUnknown, Hears, Return, WaitsForQ, Lost
    <2>2. QED
      BY <1>0, <2>1, QuietMainQ, GoesOnWithoutQ DEF Trading
  <1>3. CASE MPortfolio
    <2>1. PICK m : m = [t |-> "quoteall"]
      OBVIOUS
    <2>2. /\ mpc \notin WaitsForQ \cup Lost /\ ToQ(m) /\ m.t = "quoteall"
          /\ mpc' = "prices"
      BY <1>3, <2>1 DEF MPortfolio, Hears, WaitsForQ, Lost
    <2>3. QED
      BY <2>2, QuietMainQ, AsksQ DEF IndexInv, AskedOfQ, WaitsForQ, OfQ
  <1>4. CASE \/ MBuyApproved \/ MBuyUpdate \/ MSellChecked \/ MSellPass
             \/ MSellOffer \/ MSellApproved
    <2>1. /\ mpc \in Trading \ {"offer"} /\ mpc \notin WaitsForQ \cup Lost
          /\ UNCHANGED <<toQ, req, offer>> /\ mpc' # "quote"
      BY <1>4 DEF MBuyApproved, MBuyUpdate, MSellChecked, MSellPass, MSellOffer,
         MSellApproved, Hears, HearsClient, Trading, WaitsForQ, Lost, udpVars
    <2>2. OfferFits
      BY <2>1 DEF QuoteInv
    <2>3. QED
      BY <1>0, <2>1, <2>2, QuietMainQ, GoesOnWithoutQ
  <1>5. CASE MBuyDenied \/ MSellRefused \/ MSellDenied \/ MResult
    <2>1. /\ mpc \in Trading \ {"offer"} /\ mpc \notin WaitsForQ \cup Lost
          /\ Tick /\ mpc' = "poll"
      BY <1>5 DEF MBuyDenied, MSellRefused, MSellDenied, MResult, Hears,
         HearsClient, Return, Trading, WaitsForQ, Lost
    <2>2. toQ = <<>>
      BY <2>1 DEF QuoteInv, OfferFits
    <2>3. QED
      BY <2>1, <2>2, QuietMainQ, TicksKeepsQ
  <1>6. CASE MBuyThrows \/ MSigPipe \/ MMisread
    BY <1>6 DEF MBuyThrows, MSigPipe, MMisread, QuoteInv, Lost
  <1>7. QED
    BY <1>1, <1>2, <1>3, <1>4, <1>5, <1>6 DEF MainStep

LEMMA NextKeepsQ ==
  ASSUME IndexInv, QuoteInv, [Next]_vars
  PROVE  QuoteInv'
  <1>1. CASE UNCHANGED vars
    BY <1>1, OthersKeepQ DEF vars, wireVars, IndexInv
  <1>2. CASE AuthStep \/ QuoteStep \/ PortfolioStep \/ MainStep
    BY <1>2, ServersKeepQ, MainKeepsQ DEF IndexInv
  <1>3. ASSUME NEW c \in Clients, ClientStep(c)
        PROVE  QuoteInv'
    BY <1>3, ClientsLeaveUdp, OthersKeepQ DEF udpVars, IndexInv
  <1>4. QED
    BY <1>1, <1>2, <1>3, ServeKeepsQ DEF Next

LEMMA ConversationWithQ == Spec => []QuoteInv
  <1>1. Init => QuoteInv
    BY DEF Init, WireInit, MInit, QuoteInv, QuestionsToQ, RepliesOfQ, OneTick,
       OfferFits, QuoteAsked, Trading
  <1>2. QED
    BY <1>1, NextKeepsQ, ConversationWithP, PTL DEF Spec

(* From the moment M reads a quote until the trade is done, the price it    *)
(* works with is the one Server Q would quote: operationType of serverM.cpp *)
(* asks once and never again, and no other order can move time meanwhile    *)
(* (updatePrice of serverQ.cpp).                                            *)
THEOREM OffersStayFresh == Spec => []FreshOffer
  <1>1. QuoteInv => FreshOffer
    BY DEF QuoteInv, OfferFits, FreshOffer, Trading, Lost
  <1>2. QED
    BY <1>1, ConversationWithQ, PTL

----------------------------------------------------------------------------
(* The conversation with Server A. *)

AsksA == [t |-> "credentials", user |-> req.user, code |-> Encrypt[req.password]]
TellsA == [t |-> "credentials", user |-> req.user,
           status |-> IF matchCredentials(req.user, Encrypt[req.password])
                        THEN "SUCCESS" ELSE "FAILURE"]

QuestionsToA ==
  \A i \in DOMAIN toA :
    /\ i = 1 /\ mpc = "auth" /\ toA[i] = AsksA
    /\ \A j \in DOMAIN toM : toM[j].t # "credentials"

RepliesOfA ==
  \A i \in DOMAIN toM : toM[i].t = "credentials" =>
    /\ mpc = "auth" /\ toM[i] = TellsA
    /\ \A j \in DOMAIN toM : toM[j].t = "credentials" => j = i

AuthInv == mpc \notin Lost => QuestionsToA /\ RepliesOfA

NoReplyA == \A i \in DOMAIN toM : toM[i].t # "credentials"

LEMMA QuietA ==
  ASSUME ServerTypeOK, AuthInv, mpc \notin Lost \cup {"auth"}
  PROVE  toA = <<>> /\ NoReplyA
  <1>1. DOMAIN toA = {} /\ NoReplyA
    BY DEF AuthInv, QuestionsToA, RepliesOfA, NoReplyA
  <1>2. QED
    BY <1>1 DEF ServerTypeOK

LEMMA QuietKeepsA ==
  ASSUME toA' = <<>>, NoReplyA'
  PROVE  AuthInv'
  BY DEF AuthInv, QuestionsToA, RepliesOfA, NoReplyA

LEMMA OthersKeepA ==
  ASSUME ServerTypeOK, AuthInv, UNCHANGED <<toA, mVars>>,
         toM' = toM \/ (\E m : m.t # "credentials" /\ toM' = Append(toM, m))
  PROVE  AuthInv'
  <1>0. UNCHANGED <<mpc, AsksA, TellsA>>
    BY DEF mVars, AsksA, TellsA, matchCredentials
  <1>1. \A i \in DOMAIN toM' : toM'[i].t = "credentials" =>
          i \in DOMAIN toM /\ toM'[i] = toM[i]
    <2>1. toM \in Seq(ReplyFromA \cup ReplyFromQ \cup ReplyFromP)
      BY DEF ServerTypeOK
    <2>2. QED
      BY <2>1, AppendFacts
  <1>2. QuestionsToA => QuestionsToA'
    <2>1. SUFFICES ASSUME QuestionsToA, NEW i \in DOMAIN toA
                   PROVE  /\ i = 1 /\ mpc = "auth" /\ toA[i] = AsksA
                          /\ \A j \in DOMAIN toM' : toM'[j].t # "credentials"
      BY <1>0 DEF QuestionsToA
    <2>2. /\ i = 1 /\ mpc = "auth" /\ toA[i] = AsksA
          /\ \A j \in DOMAIN toM : toM[j].t # "credentials"
      BY <2>1 DEF QuestionsToA
    <2>3. QED
      BY <1>1, <2>2
  <1>3. RepliesOfA => RepliesOfA'
    BY <1>0, <1>1 DEF RepliesOfA
  <1>4. QED
    BY <1>0, <1>2, <1>3 DEF AuthInv

LEMMA AuthKeepsA ==
  ASSUME ServerTypeOK, AuthInv, AuthStep
  PROVE  AuthInv'
  <1>0. UNCHANGED <<mpc, req, AsksA, TellsA>>
    BY DEF AuthStep, mVars, AsksA, TellsA, matchCredentials
  <1>1. SUFFICES ASSUME mpc \notin Lost PROVE AuthInv'
    BY <1>0 DEF AuthInv
  <1>2. toA # <<>> /\ toA \in Seq(CredentialsToA) /\ toA' = Tail(toA)
    BY DEF AuthStep, AReply, ServerTypeOK
  <1>3. 1 \in DOMAIN toA /\ Head(toA) = toA[1]
    BY <1>2, TailFacts
  <1>4. /\ DOMAIN toA \subseteq {1} /\ Head(toA) = AsksA /\ mpc = "auth"
        /\ NoReplyA
    BY <1>1, <1>3 DEF AuthInv, QuestionsToA, NoReplyA
  <1>5. toA' = <<>>
    BY <1>2, <1>4
  <1>6. toM' = Append(toM, TellsA)
    BY <1>4 DEF AuthStep, AReply, AsksA, TellsA
  <1>7. \A i \in DOMAIN toM' : toM'[i].t = "credentials" =>
          i = Len(toM) + 1 /\ toM'[i] = TellsA
    BY <1>4, <1>6, AppendFacts DEF ServerTypeOK, NoReplyA
  <1>8. QED
    BY <1>0, <1>4, <1>5, <1>7 DEF AuthInv, QuestionsToA, RepliesOfA

LEMMA MainHears ==
  ASSUME MainStep
  PROVE  toM' = toM \/ (toM # <<>> /\ toM' = Tail(toM))
  BY DEF MainStep, MAuth, MPortfolio, MGain, MQuoteReply, MBuyOffer, MBuyDenied,
     MBuyNobody, MBuyApproved, MBuyUpdate, MBuyThrows, MSellQuoted,
     MSellChecked, MSellUnknown, MSellRefused, MSellPass, MSellOffer,
     MSellDenied, MSellApproved, MResult, MSigPipe, MMisread, Hears,
     HearsClient, wireVars, udpVars

LEMMA MLoginKeepsA ==
  ASSUME ServerTypeOK, AuthInv, NEW c \in Clients, MLogin(c)
  PROVE  AuthInv'
  <1>1. toA = <<>> /\ NoReplyA /\ toM' = toM
    BY QuietA DEF MLogin, Reads, Lost
  <1>2. toA' = <<AsksA'>> /\ mpc' = "auth"
    BY <1>1 DEF MLogin, Reads, AsksA
  <1>3. NoReplyA' /\ DOMAIN toA' = {1} /\ toA'[1] = AsksA'
    BY <1>1, <1>2 DEF NoReplyA
  <1>4. QED
    BY <1>2, <1>3 DEF AuthInv, QuestionsToA, RepliesOfA, NoReplyA

LEMMA HeardNotA ==
  ASSUME ServerTypeOK, NoReplyA, toM # <<>>, toM' = Tail(toM)
  PROVE  NoReplyA'
  BY TailFacts DEF ServerTypeOK, NoReplyA

(* M is told whether the password was right, and by nobody else. *)
LEMMA MAuthFacts ==
  ASSUME ServerTypeOK, AuthInv, MAuth
  PROVE  toA = <<>> /\ NoReplyA' /\ Head(toM) = TellsA
  <1>1. /\ 1 \in DOMAIN toM /\ Head(toM) = toM[1] /\ mpc = "auth"
        /\ Head(toM).t = "credentials"
        /\ \A i \in DOMAIN toM' : i + 1 \in DOMAIN toM /\ toM'[i] = toM[i + 1]
    BY TailFacts DEF ServerTypeOK, MAuth, Hears
  <1>2. /\ Head(toM) = TellsA
        /\ \A j \in DOMAIN toM : toM[j].t = "credentials" => j = 1
    BY <1>1 DEF AuthInv, RepliesOfA, Lost
  <1>3. DOMAIN toA = {}
    BY <1>1 DEF AuthInv, QuestionsToA, Lost
  <1>4. toA = <<>>
    BY <1>3 DEF ServerTypeOK
  <1>5. \A i \in DOMAIN toM' : i + 1 # 1
    BY DEF ServerTypeOK, MAuth, Hears
  <1>6. ASSUME NEW i \in DOMAIN toM' PROVE toM'[i].t # "credentials"
    <2>1. i + 1 \in DOMAIN toM /\ toM'[i] = toM[i + 1] /\ i + 1 # 1
      BY <1>1, <1>5
    <2>2. QED
      BY <1>2, <2>1
  <1>7. QED
    BY <1>2, <1>4, <1>6 DEF NoReplyA

LEMMA NextKeepsA ==
  ASSUME IndexInv, AuthInv, [Next]_vars
  PROVE  AuthInv'
  <1>0. ServerTypeOK
    BY DEF IndexInv
  <1>1. CASE UNCHANGED vars
    BY <1>0, <1>1, OthersKeepA DEF vars, wireVars
  <1>2. CASE AuthStep
    BY <1>0, <1>2, AuthKeepsA
  <1>3. CASE QuoteStep
    <2>1. toM' = toM \/ (\E m : m.t # "credentials" /\ toM' = Append(toM, m))
      BY <1>3 DEF QuoteStep, QQuote, QQuoteAll, QUpdate
    <2>2. QED
      BY <1>0, <1>3, <2>1, OthersKeepA DEF QuoteStep, QQuote, QQuoteAll, QUpdate
  <1>4. CASE PortfolioStep
    <2>1. toM' = toM \/ (\E m : m.t # "credentials" /\ toM' = Append(toM, m))
      BY <1>4, PortfolioReplies
    <2>2. QED
      BY <1>0, <1>4, <2>1, OthersKeepA DEF PortfolioStep, PPosition, PCheck,
         PRetrieve, PUpdateNew, PUpdateReplace, PUpdateRemove, PAnswer,
         PFallsOff, PReplies
  <1>5. CASE MainStep
    <2>1. CASE mpc' \in Lost
      BY <2>1 DEF AuthInv
    <2>2. CASE MAuth
      BY <1>0, <2>2, MAuthFacts, QuietKeepsA DEF MAuth
    <2>3. CASE mpc' \notin Lost /\ ~MAuth
      <3>1. mpc \notin Lost \cup {"auth"} /\ toA' = toA
        BY <1>5, <2>3 DEF MainStep, MPortfolio, MGain, MQuoteReply, MBuyOffer,
           MBuyDenied, MBuyNobody, MBuyApproved, MBuyUpdate, MBuyThrows,
           MSellQuoted, MSellChecked, MSellUnknown, MSellRefused, MSellPass,
           MSellOffer, MSellDenied, MSellApproved, MResult, MSigPipe, MMisread,
           Hears, HearsClient, wireVars, udpVars, Lost
      <3>2. toA = <<>> /\ NoReplyA
        BY <1>0, <3>1, QuietA
      <3>3. NoReplyA'
        BY <1>0, <1>5, <3>2, MainHears, HeardNotA DEF NoReplyA
      <3>4. QED
        BY <3>1, <3>2, <3>3, QuietKeepsA
    <2>4. QED
      BY <2>1, <2>2, <2>3
  <1>6. ASSUME NEW c \in Clients, ServeStep(c)
        PROVE  AuthInv'
    <2>1. CASE MLogin(c)
      BY <1>0, <2>1, MLoginKeepsA
    <2>2. CASE ~MLogin(c)
      <3>1. mpc = "poll" /\ UNCHANGED <<toA, toM>>
        BY <1>6, <2>2 DEF ServeStep, MPosition, MTransact, MClose, MQuote, Reads,
           udpVars
      <3>2. QED
        BY <1>0, <3>1, QuietA, QuietKeepsA DEF NoReplyA, Lost
    <2>3. QED
      BY <2>1, <2>2
  <1>7. ASSUME NEW c \in Clients, ClientStep(c)
        PROVE  AuthInv'
    BY <1>0, <1>7, ClientsLeaveUdp, OthersKeepA DEF udpVars
  <1>8. QED
    BY <1>1, <1>2, <1>3, <1>4, <1>5, <1>6, <1>7 DEF Next

LEMMA ConversationWithA == Spec => []AuthInv
  <1>1. Init => AuthInv
    BY DEF Init, WireInit, AuthInv, QuestionsToA, RepliesOfA
  <1>2. QED
    BY <1>1, NextKeepsA, ConversationWithP, PTL DEF Spec

----------------------------------------------------------------------------
(* What is said between Server M and Server P, beyond the index: the        *)
(* portfolio that is shown and the check of a sell are as things are.       *)

AskedOfP == IF mpc = "portfolio" THEN "position"
            ELSE IF mpc = "sell_check" THEN "check"
            ELSE IF mpc \in {"buy_held", "sell_held"} THEN "retrieve"
            ELSE "update"
AnswersOfP == IF mpc = "portfolio" THEN {"position"}
              ELSE IF mpc = "sell_check" THEN {"check"}
              ELSE IF mpc \in {"buy_held", "sell_held"} THEN {"held"}
              ELSE {"result", "nothing"}

HeldNow == getPortfolio(Lower[req.user])
VerdictNow == checkStock(Lower[req.user], req.stock, req.shares)

QuestionFits(m) ==
  /\ m.t = AskedOfP
  /\ m.t \in {"position", "check"} => m.user = req.user
  /\ m.t = "check" => m.stock = req.stock /\ m.shares = req.shares

ReplyFits(m) ==
  /\ m.t \in AnswersOfP
  /\ m.t = "position" => m.held = HeldNow
  /\ m.t = "check" => m.verdict = VerdictNow

QuestionsToP == \A i \in DOMAIN toP : toP[i].t # "answer" => QuestionFits(toP[i])
RepliesOfP == \A i \in DOMAIN toM : FromP(toM[i]) => ReplyFits(toM[i])

(* What M keeps of a reply is still true while it goes on. *)
KeptFits ==
  /\ mpc = "prices" => pos.t = "position" /\ pos.held = HeldNow
  /\ mpc \in {"sell_held", "sell_sleep", "sell_answer"} => verdict = VerdictNow
  /\ mpc \in {"sell_sleep", "sell_answer"} => verdict # "FAIL"

PortInv == mpc \notin Lost => QuestionsToP /\ RepliesOfP /\ KeptFits

LEMMA NowUnchanged ==
  ASSUME UNCHANGED <<req, portfolio>>
  PROVE  UNCHANGED <<HeldNow, VerdictNow>>
  <1>1. HeldNow' = HeldNow
    BY DEF HeldNow, getPortfolio
  <1>2. LastOf(Lower[req.user], req.stock)' = LastOf(Lower[req.user], req.stock)
    BY DEF LastOf, SelectLastInSeq
  <1>3. VerdictNow' = VerdictNow
    BY <1>2 DEF VerdictNow, checkStock
  <1>4. QED
    BY <1>1, <1>3

LEMMA QuietKeepsPort ==
  ASSUME IndexInv', mpc' \notin WaitsForP \cup Lost, KeptFits'
  PROVE  PortInv'
  BY DEF IndexInv, OneQuestion, OneReply, PortInv, QuestionsToP, RepliesOfP

LEMMA AsksKeepsPort ==
  ASSUME NoReply', NEW m, QuestionFits(m)', KeptFits',
         \A i \in DOMAIN toP' : toP'[i].t = "answer" \/ toP'[i] = m
  PROVE  PortInv'
  <1>1. QuestionsToP'
    BY DEF QuestionsToP, QuestionFits
  <1>2. RepliesOfP'
    BY DEF NoReply, RepliesOfP
  <1>3. QED
    BY <1>1, <1>2 DEF PortInv

(* A step of a server or a client that says nothing between M and P.        *)
LEMMA OthersKeepPort ==
  ASSUME ServerTypeOK, PortInv, UNCHANGED <<mVars, portfolio>>,
         toP' = toP \/ (toP # <<>> /\ toP' = Tail(toP)),
         toM' = toM \/ (\E m : ~FromP(m) /\ toM' = Append(toM, m))
  PROVE  PortInv'
  <1>0. UNCHANGED <<mpc, req, verdict, pos>>
    BY DEF mVars
  <1>1. UNCHANGED <<HeldNow, VerdictNow, AskedOfP, AnswersOfP>>
    BY <1>0, NowUnchanged DEF AskedOfP, AnswersOfP
  <1>2. SUFFICES ASSUME QuestionsToP, RepliesOfP, KeptFits
                 PROVE  QuestionsToP' /\ RepliesOfP' /\ KeptFits'
    BY <1>0 DEF PortInv
  <1>3. QuestionsToP'
    <2>1. \A i \in DOMAIN toP' : \E j \in DOMAIN toP : toP[j] = toP'[i]
      BY TailIn DEF ServerTypeOK
    <2>2. \A m : QuestionFits(m) => QuestionFits(m)'
      BY <1>0, <1>1 DEF QuestionFits
    <2>3. QED
      BY <1>2, <2>1, <2>2 DEF QuestionsToP, QuestionFits
  <1>4. RepliesOfP'
    <2>0. toM \in Seq(ReplyFromA \cup ReplyFromQ \cup ReplyFromP)
      BY DEF ServerTypeOK
    <2>1. \A i \in DOMAIN toM' : FromP(toM'[i]) =>
            \E j \in DOMAIN toM : toM[j] = toM'[i]
      BY <2>0, AppendIn
    <2>2. \A m : ReplyFits(m) => ReplyFits(m)'
      BY <1>0, <1>1 DEF ReplyFits
    <2>3. QED
      BY <1>2, <2>1, <2>2 DEF RepliesOfP, ReplyFits
  <1>5. KeptFits'
    BY <1>0, <1>1, <1>2 DEF KeptFits
  <1>6. QED
    BY <1>3, <1>4, <1>5

(* Server P answers the only question there is. *)
LEMMA PRepliesKeepsPort ==
  ASSUME IndexInv, PortInv, UNCHANGED mVars, toP # <<>>,
         Head(toP).t # "answer", toP' = Tail(toP),
         NEW m, toM' = Append(toM, m),
         QuestionFits(Head(toP)) => ReplyFits(m)' /\ (KeptFits => KeptFits')
  PROVE  PortInv'
  <1>0. ServerTypeOK /\ UNCHANGED mpc
    BY DEF IndexInv, mVars
  <1>1. SUFFICES ASSUME mpc \notin Lost PROVE PortInv'
    BY <1>0 DEF PortInv
  <1>2. 1 \in DOMAIN toP /\ Head(toP) = toP[1] /\ toP' = <<>> /\ NoReply
    BY <1>0, PTakesQuestion, TailFacts DEF ServerTypeOK
  <1>3. QuestionFits(Head(toP)) /\ KeptFits
    BY <1>1, <1>2 DEF PortInv, QuestionsToP
  <1>4. ReplyFits(m)' /\ KeptFits'
    BY <1>3
  <1>5. \A i \in DOMAIN toM' : FromP(toM'[i]) => toM'[i] = m
    BY <1>0, <1>2, AppendFacts DEF ServerTypeOK, NoReply
  <1>6. RepliesOfP'
    BY <1>4, <1>5 DEF RepliesOfP, ReplyFits
  <1>7. QuestionsToP'
    BY <1>2 DEF QuestionsToP
  <1>8. QED
    BY <1>4, <1>6, <1>7 DEF PortInv

(* The update of a sell is a well-formed message. *)
LEMMA SellUpdateTyped ==
  ASSUME IndexInv, OrderInv, MSellApproved
  PROVE  UpdateP(pos, Wrap(pos.shares - req.shares), pos.price) \in ToP
  <1>1. mpc \in Trading /\ mpc = "sell_answer"
    BY HearsClientFacts DEF MSellApproved
  <1>2. /\ pos \in ReplyFromP /\ pos.t = "held" /\ pos.shares # NA /\ Valid(pos)
    BY <1>1 DEF IndexInv, ValidPos
  <1>3. pos \in [t : {"held"}, user : Users, stock : Stocks,
                 shares : CInt, price : Money, index : Nat]
    BY <1>2 DEF ReplyFromP
  <1>4. Wrap(pos.shares - req.shares) \in CInt
    BY <1>1, <1>3, OrderTyped, WrapInt
  <1>5. QED
    BY <1>2, <1>3, <1>4, UpdatePFacts

LEMMA PAnswersKeepPort ==
  ASSUME IndexInv, PortInv, PPosition \/ PCheck \/ PRetrieve, UNCHANGED mVars
  PROVE  PortInv'
  <1>0. UNCHANGED <<mpc, req, verdict, pos, portfolio>>
        /\ toP # <<>> /\ toP' = Tail(toP) /\ Head(toP).t # "answer"
    BY DEF mVars, PPosition, PCheck, PRetrieve, PReceives, pVars
  <1>1. UNCHANGED <<HeldNow, VerdictNow, AskedOfP, AnswersOfP>>
    BY <1>0, NowUnchanged DEF AskedOfP, AnswersOfP
  <1>2. KeptFits => KeptFits'
    BY <1>0, <1>1 DEF KeptFits
  <1>3. CASE PPosition
    <2>1. PICK m : m = [t |-> "position", user |-> Lower[Head(toP).user],
                        held |-> getPortfolio(Lower[Head(toP).user])]
      OBVIOUS
    <2>2. toM' = Append(toM, m) /\ Head(toP).t = "position"
      BY <1>3, <2>1 DEF PPosition, PReplies, PReceives
    <2>3. QuestionFits(Head(toP)) => ReplyFits(m)'
      <3>1. SUFFICES ASSUME QuestionFits(Head(toP)) PROVE ReplyFits(m)'
        OBVIOUS
      <3>2. mpc = "portfolio" /\ Head(toP).user = req.user
        BY <2>2, <3>1 DEF QuestionFits, AskedOfP
      <3>3. m.t = "position" /\ m.held = HeldNow
        BY <2>1, <3>2 DEF HeldNow
      <3>4. "position" \in AnswersOfP'
        BY <1>0, <3>2 DEF AnswersOfP
      <3>5. QED
        BY <1>1, <3>3, <3>4 DEF ReplyFits
    <2>4. QED
      BY <1>0, <1>2, <2>2, <2>3, PRepliesKeepsPort
  <1>4. CASE PCheck
    <2>1. PICK m : m = [t |-> "check",
                        verdict |-> checkStock(Lower[Head(toP).user],
                                       Head(toP).stock, Head(toP).shares)]
      OBVIOUS
    <2>2. toM' = Append(toM, m) /\ Head(toP).t = "check"
      BY <1>4, <2>1 DEF PCheck, PReplies, PReceives
    <2>3. QuestionFits(Head(toP)) => ReplyFits(m)'
      <3>1. SUFFICES ASSUME QuestionFits(Head(toP)) PROVE ReplyFits(m)'
        OBVIOUS
      <3>2. /\ mpc = "sell_check" /\ Head(toP).user = req.user
            /\ Head(toP).stock = req.stock /\ Head(toP).shares = req.shares
        BY <2>2, <3>1 DEF QuestionFits, AskedOfP
      <3>3. m.t = "check" /\ m.verdict = VerdictNow
        BY <2>1, <3>2 DEF VerdictNow
      <3>4. "check" \in AnswersOfP'
        BY <1>0, <3>2 DEF AnswersOfP
      <3>5. QED
        BY <1>1, <3>3, <3>4 DEF ReplyFits
    <2>4. QED
      BY <1>0, <1>2, <2>2, <2>3, PRepliesKeepsPort
  <1>5. CASE PRetrieve
    <2>1. PICK m : m = getStock(Lower[Head(toP).user], Head(toP).stock)
      OBVIOUS
    <2>2. /\ toM' = Append(toM, m) /\ Head(toP).t = "retrieve" /\ m.t = "held"
      BY <1>5, <2>1 DEF PRetrieve, PReplies, PReceives, getStock
    <2>3. QuestionFits(Head(toP)) => ReplyFits(m)'
      BY <1>1, <2>2 DEF QuestionFits, AskedOfP, AnswersOfP, ReplyFits
    <2>4. QED
      BY <1>0, <1>2, <2>2, <2>3, PRepliesKeepsPort
  <1>6. QED
    BY <1>3, <1>4, <1>5

(* The portfolios change only when M waits to hear that they have.          *)
LEMMA PUpdatesKeepPort ==
  ASSUME IndexInv, PortInv, UNCHANGED mVars,
         PUpdateNew \/ PUpdateReplace \/ PUpdateRemove
  PROVE  PortInv'
  <1>0. /\ toP # <<>> /\ toP' = Tail(toP) /\ Head(toP).t = "update"
        /\ UNCHANGED mpc
    BY DEF PUpdateNew, PUpdateReplace, PUpdateRemove, PReceives, mVars
  <1>1. PICK m : toM' = Append(toM, m) /\ m.t \in {"result", "nothing"}
    <2>0. \A op, o, n : Result(op, o, n).t = "result"
      BY DEF Result
    <2>1. CASE PUpdateNew
      BY <2>0, <2>1 DEF PUpdateNew, PReplies
    <2>2. CASE PUpdateReplace
      BY <2>0, <2>2 DEF PUpdateReplace, PReplies
    <2>3. CASE PUpdateRemove
      BY <2>0, <2>3 DEF PUpdateRemove, PReplies
    <2>4. QED
      BY <2>1, <2>2, <2>3
  <1>2. QuestionFits(Head(toP)) => mpc \in {"update"} \cup Lost
    BY <1>0, PTakesQuestion DEF QuestionFits, AskedOfP, WaitsForP
  <1>3. mpc \in {"update"} \cup Lost => ReplyFits(m)' /\ KeptFits'
    BY <1>0, <1>1 DEF ReplyFits, KeptFits, AnswersOfP, Lost
  <1>4. QED
    BY <1>0, <1>1, <1>2, <1>3, PRepliesKeepsPort

LEMMA ServersKeepPort ==
  ASSUME IndexInv, PortInv, AuthStep \/ QuoteStep \/ PortfolioStep
  PROVE  PortInv'
  <1>0. ServerTypeOK
    BY DEF IndexInv
  <1>1. CASE AuthStep
    <2>1. PICK m : m.t = "credentials" /\ toM' = Append(toM, m)
      BY <1>1 DEF AuthStep, AReply
    <2>2. QED
      BY <1>0, <1>1, <2>1, OthersKeepPort DEF AuthStep, AReply, FromP, pVars
  <1>2. CASE QuoteStep
    <2>1. toM' = toM \/ (\E m : ~FromP(m) /\ toM' = Append(toM, m))
      BY <1>2 DEF QuoteStep, QQuote, QQuoteAll, QUpdate, FromP
    <2>2. QED
      BY <1>0, <1>2, <2>1, OthersKeepPort DEF QuoteStep, QQuote, QQuoteAll,
         QUpdate, pVars
  <1>3. CASE PortfolioStep
    <2>1. CASE PAnswer \/ PFallsOff
      <3>1. toM' = toM \/ (\E m : ~FromP(m) /\ toM' = Append(toM, m))
        BY <2>1 DEF PAnswer, PFallsOff, FromP
      <3>2. QED
        BY <1>0, <1>3, <2>1, <3>1, OthersKeepPort
           DEF PortfolioStep, PAnswer, PFallsOff, PReceives
    <2>2. QED
      BY <1>3, <2>1, PAnswersKeepPort, PUpdatesKeepPort DEF PortfolioStep
  <1>4. QED
    BY <1>1, <1>2, <1>3

LEMMA ServeKeepsPort ==
  ASSUME IndexInv, PortInv, IndexInv', NEW c \in Clients, ServeStep(c)
  PROVE  PortInv'
  <1>1. CASE MPosition(c)
    <2>1. PICK m : m = [t |-> "position", user |-> Head(c2m[c]).user]
      OBVIOUS
    <2>2. NoQuestion /\ NoReply
      BY <1>1, ReadsFacts DEF MPosition
    <2>3. /\ NoReply' /\ toP' = Append(toP, m) /\ mpc' = "portfolio"
          /\ req'.user = m.user
      BY <1>1, <2>1, <2>2 DEF MPosition, Reads, NoReply
    <2>4. \A i \in DOMAIN toP' : toP'[i].t = "answer" \/ toP'[i] = m
      BY <2>2, <2>3, AppendedQuestion DEF IndexInv
    <2>5. KeptFits'
      BY <2>3 DEF KeptFits
    <2>6. QuestionFits(m)'
      BY <2>1, <2>3 DEF QuestionFits, AskedOfP
    <2>7. QED
      BY <2>3, <2>4, <2>5, <2>6, AsksKeepsPort
  <1>2. CASE MLogin(c) \/ MTransact(c) \/ MClose(c)
               \/ \E type \in {"quote", "quoteall"} : MQuote(c, type)
    <2>1. mpc' \in {"auth", "offer", "poll", "quote"}
      BY <1>2 DEF MLogin, MTransact, MClose, MQuote, mVars
    <2>2. QED
      BY <2>1, QuietKeepsPort DEF WaitsForP, Lost, KeptFits
  <1>3. QED
    BY <1>1, <1>2 DEF ServeStep

(* The answer of Server P that M has just read is the right one.            *)
LEMMA HeardPort ==
  ASSUME IndexInv, PortInv, NEW pc, pc \in WaitsForP, NEW type, Hears(pc, type),
         type \in {"position", "check", "held", "result", "nothing"}
  PROVE  PortInv /\ mpc \notin Lost /\ ReplyFits(Head(toM)) /\ KeptFits
  <1>1. mpc = pc /\ mpc \notin Lost
    BY DEF Hears, WaitsForP, Lost
  <1>2. 1 \in DOMAIN toM /\ Head(toM) = toM[1] /\ FromP(toM[1])
    BY TailFacts DEF Hears, IndexInv, ServerTypeOK, FromP
  <1>3. QED
    BY <1>1, <1>2 DEF PortInv, RepliesOfP

LEMMA MainKeepsPort ==
  ASSUME IndexInv, OrderInv, PortInv, IndexInv', MainStep
  PROVE  PortInv'
  <1>0. UNCHANGED portfolio
    BY DEF MainStep, pVars
  <1>1. CASE mpc' \in Lost \cup {"poll", "buy_answer"}
    <2>1. KeptFits' \/ mpc' \in Lost
      BY <1>1 DEF KeptFits
    <2>2. QED
      BY <1>1, <2>1, QuietKeepsPort DEF PortInv, WaitsForP
  <1>2. CASE MPortfolio
    <2>1. /\ mpc' = "prices" /\ pos' = Head(toM) /\ UNCHANGED req
          /\ Head(toM).t = "position"
      BY <1>2 DEF MPortfolio, Hears
    <2>2. ReplyFits(Head(toM))
      BY <1>2, HeardPort DEF MPortfolio, WaitsForP
    <2>3. HeldNow' = HeldNow
      BY <1>0, <2>1, NowUnchanged
    <2>4. KeptFits'
      BY <2>1, <2>2, <2>3 DEF KeptFits, ReplyFits
    <2>5. QED
      BY <2>1, <2>4, QuietKeepsPort DEF WaitsForP, Lost
  <1>3. CASE MSellPass \/ MSellOffer
    <2>1. /\ mpc \in {"sell_held", "sell_sleep"} /\ UNCHANGED <<req, verdict>>
          /\ mpc' \in {"sell_sleep", "sell_answer"}
          /\ mpc = "sell_held" => verdict # "FAIL"
      BY <1>3 DEF MSellPass, MSellOffer, Hears
    <2>2. KeptFits
      BY <2>1 DEF PortInv, Lost
    <2>3. VerdictNow' = VerdictNow
      BY <1>0, <2>1, NowUnchanged
    <2>4. KeptFits'
      BY <2>1, <2>2, <2>3 DEF KeptFits
    <2>5. QED
      BY <2>1, <2>4, QuietKeepsPort DEF WaitsForP, Lost
  <1>4. CASE MBuyApproved
    <2>1. PICK a, m : a = AnswerToP /\ m = Retrieve
      OBVIOUS
    <2>2. mpc \in Trading /\ NoQuestion /\ NoReply /\ a \in ToP /\ a.t = "answer"
      BY <1>4, <2>1, HearsClientFacts DEF MBuyApproved
    <2>3. m \in ToP /\ m.t = "retrieve"
      BY <2>1, <2>2, OrderTyped DEF Retrieve, ToP
    <2>4. toP' = toP \o <<a, m>> /\ mpc' = "buy_held" /\ NoReply'
      BY <1>4, <2>1, <2>2 DEF MBuyApproved, NoReply
    <2>5. \A i \in DOMAIN toP' : toP'[i].t = "answer" \/ toP'[i] = m
      BY <2>2, <2>3, <2>4, AppendedTwo DEF IndexInv
    <2>6. KeptFits' /\ QuestionFits(m)'
      BY <2>3, <2>4 DEF KeptFits, QuestionFits, AskedOfP
    <2>7. QED
      BY <2>4, <2>5, <2>6, AsksKeepsPort
  <1>5. CASE MBuyUpdate
    <2>1. PICK m : m = Bought(Head(toM))
      OBVIOUS
    <2>2. NoQuestion /\ NoReply'
      BY <1>5, HearsP DEF MBuyUpdate
    <2>3. m.t = "update" /\ toP' = Append(toP, m) /\ mpc' = "update"
      BY <1>5, <2>1 DEF MBuyUpdate, Bought, UpdateP
    <2>4. \A i \in DOMAIN toP' : toP'[i].t = "answer" \/ toP'[i] = m
      BY <2>2, <2>3, AppendedQuestion DEF IndexInv
    <2>5. KeptFits' /\ QuestionFits(m)'
      BY <2>3 DEF KeptFits, QuestionFits, AskedOfP
    <2>6. QED
      BY <2>2, <2>4, <2>5, AsksKeepsPort
  <1>6. CASE MSellQuoted
    <2>1. PICK m : m = [t |-> "check", user |-> req.user, stock |-> req.stock,
                        shares |-> req.shares]
      OBVIOUS
    <2>2. NoQuestion /\ NoReply'
      BY <1>6, HearsOthers DEF MSellQuoted, WaitsForP, Lost
    <2>3. toP' = Append(toP, m) /\ mpc' = "sell_check" /\ req' = req
      BY <1>6, <2>1 DEF MSellQuoted
    <2>4. \A i \in DOMAIN toP' : toP'[i].t = "answer" \/ toP'[i] = m
      BY <2>2, <2>3, AppendedQuestion DEF IndexInv
    <2>5. KeptFits' /\ QuestionFits(m)'
      BY <2>1, <2>3 DEF KeptFits, QuestionFits, AskedOfP
    <2>6. QED
      BY <2>2, <2>4, <2>5, AsksKeepsPort
  <1>7. CASE MSellChecked
    <2>1. PICK m : m = Retrieve
      OBVIOUS
    <2>2. NoQuestion /\ NoReply'
      BY <1>7, HearsP DEF MSellChecked
    <2>3. /\ toP' = Append(toP, m) /\ mpc' = "sell_held" /\ req' = req
          /\ m.t = "retrieve" /\ verdict' = Head(toM).verdict
          /\ Head(toM).t = "check"
      BY <1>7, <2>1 DEF MSellChecked, Retrieve, Hears
    <2>4. \A i \in DOMAIN toP' : toP'[i].t = "answer" \/ toP'[i] = m
      BY <2>2, <2>3, AppendedQuestion DEF IndexInv
    <2>5. ReplyFits(Head(toM))
      BY <1>7, HeardPort DEF MSellChecked, WaitsForP
    <2>6. VerdictNow' = VerdictNow
      BY <1>0, <2>3, NowUnchanged
    <2>7. KeptFits'
      BY <2>3, <2>5, <2>6 DEF KeptFits, ReplyFits
    <2>8. QuestionFits(m)'
      BY <2>3 DEF QuestionFits, AskedOfP
    <2>9. QED
      BY <2>2, <2>4, <2>7, <2>8, AsksKeepsPort
  <1>8. CASE MSellApproved
    <2>1. PICK a, m : a = AnswerToP
                      /\ m = UpdateP(pos, Wrap(pos.shares - req.shares), pos.price)
      OBVIOUS
    <2>2. /\ mpc \in Trading /\ mpc = "sell_answer" /\ NoQuestion /\ NoReply
          /\ a \in ToP /\ a.t = "answer"
      BY <1>8, <2>1, HearsClientFacts DEF MSellApproved
    <2>3. m \in ToP /\ m.t = "update"
      BY <1>8, <2>1, <2>2, SellUpdateTyped DEF UpdateP
    <2>4. toP' = toP \o <<a, m>> /\ mpc' = "update" /\ NoReply'
      BY <1>8, <2>1, <2>2 DEF MSellApproved, NoReply
    <2>5. \A i \in DOMAIN toP' : toP'[i].t = "answer" \/ toP'[i] = m
      BY <2>2, <2>3, <2>4, AppendedTwo DEF IndexInv
    <2>6. KeptFits' /\ QuestionFits(m)'
      BY <2>3, <2>4 DEF KeptFits, QuestionFits, AskedOfP
    <2>7. QED
      BY <2>4, <2>5, <2>6, AsksKeepsPort
  <1>9. QED
    <2>1. CASE \/ MAuth \/ MGain \/ MQuoteReply \/ MBuyOffer \/ MBuyDenied
               \/ MBuyNobody \/ MBuyThrows \/ MSellUnknown \/ MSellRefused
               \/ MSellDenied \/ MResult \/ MSigPipe \/ MMisread
      <3>1. mpc' \in Lost \cup {"poll", "buy_answer"}
        BY <2>1 DEF MAuth, MGain, MQuoteReply, MBuyOffer, MBuyDenied, MBuyNobody,
           MBuyThrows, MSellUnknown, MSellRefused, MSellDenied, MResult,
           MSigPipe, MMisread, Return, Lost
      <3>2. QED
        BY <1>1, <3>1
    <2>2. QED
      BY <1>2, <1>3, <1>4, <1>5, <1>6, <1>7, <1>8, <2>1 DEF MainStep

LEMMA NextKeepsPort ==
  ASSUME IndexInv, OrderInv, PortInv, IndexInv', [Next]_vars
  PROVE  PortInv'
  <1>1. CASE UNCHANGED vars
    BY <1>1, OthersKeepPort DEF vars, wireVars, pVars, IndexInv
  <1>2. CASE AuthStep \/ QuoteStep \/ PortfolioStep \/ MainStep
    BY <1>2, ServersKeepPort, MainKeepsPort
  <1>3. ASSUME NEW c \in Clients, ClientStep(c)
        PROVE  PortInv'
    <2>1. UNCHANGED <<mVars, portfolio>>
      BY <1>3 DEF ClientStep, ReceiveStep, AnswerStep, CommandStep, pVars
    <2>2. QED
      BY <1>3, <2>1, ClientsLeaveUdp, OthersKeepPort DEF udpVars, IndexInv
  <1>4. QED
    BY <1>1, <1>2, <1>3, ServeKeepsPort DEF Next

LEMMA SaysPort == Spec => []PortInv
  <1>1. Init => PortInv
    BY DEF Init, WireInit, MInit, PortInv, QuestionsToP, RepliesOfP, KeptFits
  <1>2. QED
    BY <1>1, NextKeeps, NextKeepsPort, ConversationWithP, OrderInvInvariant,
       PTL DEF Spec

----------------------------------------------------------------------------
(* A sell never goes below zero: what checkStock allowed when the order was *)
(* taken up is still allowed when updateStock carries it out.               *)

Covered ==
  (\E i \in DOMAIN toP : toP[i].t = "update") =>
    /\ req \in ClientMsg /\ req.t = "transact"
    /\ req.op = "sell" => HeldBy(Lower[req.user], req.stock) >= req.shares

(* Where a stock is listed once, getStock and checkStock find the same      *)
(* position.                                                                *)
LEMMA LastIsFirst ==
  ASSUME OnePositionPerStock, NEW u \in DOMAIN portfolio, NEW s,
         portfolio[u] \in Seq(Holding), FirstOf(u, s) # 0
  PROVE  LastOf(u, s) = FirstOf(u, s)
  <1> DEFINE p == portfolio[u]
             f == FirstOf(u, s)
             I == {i \in 1 .. Len(p) : p[i].stockName = s}
  <1>1. LastOf(u, s) = IF I # {} THEN Max(I) ELSE 0
    BY DEF LastOf, SelectLastInSeq
  <1>2. f \in 1 .. Len(p) /\ p[f].stockName = s
    BY FirstOfFacts, LenProperties
  <1> HIDE DEF f
  <1>3. \A i \in I : i = f
    BY <1>2, LenProperties DEF OnePositionPerStock
  <1>4. I = {f}
    BY <1>2, <1>3
  <1>5. f >= f
    BY <1>2, LenProperties
  <1>6. Max({f}) = f
    BY <1>5 DEF Max
  <1>7. QED
    BY <1>1, <1>4, <1>6 DEF f

(* A check that did not fail, against the position that getStock found.     *)
LEMMA PassedIsCovered ==
  ASSUME ServerTypeOK, OnePositionPerStock, NEW u \in Users, NEW s \in Stocks,
         NEW n \in CInt, getStock(u, s).shares # NA, checkStock(u, s, n) # "FAIL"
  PROVE  HeldBy(u, s) >= n
  <1>1. u \in DOMAIN portfolio /\ FirstOf(u, s) # 0
    BY DEF getStock
  <1>2. portfolio[u] \in Seq(Holding)
    BY <1>1 DEF ServerTypeOK
  <1>3. LastOf(u, s) = FirstOf(u, s)
    BY <1>1, <1>2, LastIsFirst
  <1>4. HeldBy(u, s) = portfolio[u][FirstOf(u, s)].quantity
    BY <1>1 DEF HeldBy, SharesIn, FirstOf
  <1>5. ~(n > HeldBy(u, s))
    BY <1>1, <1>3, <1>4 DEF checkStock
  <1>6. HeldBy(u, s) \in CInt
    BY getStockShares
  <1>7. QED
    BY <1>5, <1>6, IntMaxAssumption DEF CInt

LEMMA MSellApprovedCovered ==
  ASSUME IndexInv, OrderInv, PortInv, OnePositionPerStock, MSellApproved,
         UNCHANGED portfolio
  PROVE  Covered'
  <1>1. mpc \in Trading /\ mpc = "sell_answer"
    BY HearsClientFacts DEF MSellApproved
  <1>2. /\ req.user \in Names /\ req.stock \in Stocks /\ req.shares \in CInt
        /\ req \in ClientMsg /\ req.t = "transact"
    BY <1>1, OrderTyped
  <1>3. /\ pos = getStock(Lower[req.user], req.stock) /\ pos.shares # NA
        /\ VerdictNow # "FAIL"
    BY <1>1 DEF OrderInv, PosFits, IndexInv, ValidPos, PortInv, KeptFits, Lost
  <1>4. HeldBy(Lower[req.user], req.stock) >= req.shares
    BY <1>2, <1>3, UserTyped, PassedIsCovered DEF VerdictNow, IndexInv
  <1>5. UNCHANGED <<req, portfolio>>
    BY DEF MSellApproved
  <1>6. QED
    BY <1>2, <1>4, <1>5 DEF Covered, HeldBy

LEMMA HeldByInt ==
  ASSUME ServerTypeOK, NEW u \in Users, NEW s \in Stocks
  PROVE  HeldBy(u, s) \in CInt
  BY getStockShares, IntMaxAssumption DEF CInt

(* The steps after which an update may be under way. *)
LEMMA UpdateUnderWay ==
  ASSUME IndexInv, [Next]_vars, mpc' \in {"update"} \cup Lost
  PROVE  \/ MBuyUpdate \/ (MSellApproved /\ UNCHANGED portfolio)
         \/ /\ UNCHANGED <<req, offer>>
            /\ toQ = <<>> => UNCHANGED <<toQ, priceIndex>>
            /\ \/ toP' = <<>>
               \/ /\ toP' = toP \/ (toP # <<>> /\ toP' = Tail(toP))
                  /\ UNCHANGED portfolio
  <1>1. CASE UNCHANGED vars
    BY <1>1 DEF vars, wireVars, pVars, mVars
  <1>2. CASE AuthStep \/ QuoteStep
    BY <1>2 DEF QReceives, AuthStep, QuoteStep, AReply, QQuote, QQuoteAll, QUpdate, pVars,
       mVars
  <1>3. CASE PortfolioStep
    <2>1. UNCHANGED <<req, offer, toQ, priceIndex>>
      BY <1>3 DEF PortfolioStep, PPosition, PCheck, PRetrieve, PUpdateNew,
         PUpdateReplace, PUpdateRemove, PAnswer, PFallsOff, PReplies, mVars
    <2>2. CASE PUpdateNew \/ PUpdateReplace \/ PUpdateRemove
      <3>1. PReceives("update")
        BY <2>2 DEF PUpdateNew, PUpdateReplace, PUpdateRemove
      <3>2. QED
        BY <2>1, <3>1, PUpdateFacts
    <2>3. CASE PPosition \/ PCheck \/ PRetrieve \/ PAnswer \/ PFallsOff
      BY <2>1, <2>3 DEF PPosition, PCheck, PRetrieve, PAnswer, PFallsOff,
         PReceives, pVars
    <2>4. QED
      BY <1>3, <2>2, <2>3 DEF PortfolioStep
  <1>4. CASE MainStep
    <2>1. CASE MBuyThrows \/ MSigPipe \/ MMisread
      BY <1>4, <2>1 DEF MainStep, MBuyThrows, MSigPipe, MMisread, wireVars, pVars
    <2>2. CASE ~(MBuyThrows \/ MSigPipe \/ MMisread)
      BY <1>4, <2>2 DEF MainStep, MAuth, MPortfolio, MGain, MQuoteReply, MBuyOffer,
         MBuyDenied, MBuyNobody, MBuyApproved, MSellQuoted, MSellChecked,
         MSellUnknown, MSellRefused, MSellPass, MSellOffer, MSellDenied, MResult,
         Return, Lost, pVars
    <2>3. QED
      BY <2>1, <2>2
  <1>5. ASSUME NEW c \in Clients, ServeStep(c)
        PROVE  FALSE
    <2>1. mpc' \in {"auth", "portfolio", "offer", "poll", "quote"}
      BY <1>5 DEF ServeStep, MLogin, MPosition, MTransact, MClose, MQuote, mVars,
         Reads
    <2>2. QED
      BY <2>1 DEF Lost
  <1>6. ASSUME NEW c \in Clients, ClientStep(c)
        PROVE  UNCHANGED <<req, offer, toP, toQ, priceIndex, portfolio>>
    <2>1. UNCHANGED <<req, offer, priceIndex, portfolio>>
      BY <1>6 DEF ClientStep, ReceiveStep, AnswerStep, CommandStep, pVars, mVars
    <2>2. QED
      BY <1>6, <2>1, ClientsLeaveUdp DEF udpVars
  <1>7. QED
    BY <1>1, <1>2, <1>3, <1>4, <1>5, <1>6 DEF Next

LEMMA NextKeepsCovered ==
  ASSUME IndexInv, OrderInv, PortInv, OnePositionPerStock, Covered,
         IndexInv', PortInv', [Next]_vars
  PROVE  Covered'
  <1>1. CASE mpc' \notin {"update"} \cup Lost
    <2>1. ASSUME NEW i \in DOMAIN toP', toP'[i].t = "update"
          PROVE  FALSE
      <3>1. mpc' \in WaitsForP
        BY <1>1, <2>1 DEF IndexInv, OneQuestion
      <3>2. toP'[i].t = AskedOfP'
        BY <1>1, <2>1 DEF PortInv, QuestionsToP, QuestionFits
      <3>3. QED
        BY <1>1, <2>1, <3>1, <3>2 DEF AskedOfP, WaitsForP
    <2>2. QED
      BY <2>1 DEF Covered
  <1>2. CASE mpc' \in {"update"} \cup Lost
    <2>1. CASE MBuyUpdate
      <3>1. mpc \in Trading /\ req.op = "buy" /\ UNCHANGED req
        BY <2>1 DEF MBuyUpdate, Hears, Trading, OrderInv, OpFits
      <3>2. req \in ClientMsg /\ req.t = "transact"
        BY <3>1, OrderTyped
      <3>3. QED
        BY <3>1, <3>2 DEF Covered
    <2>2. CASE MSellApproved /\ UNCHANGED portfolio
      BY <2>2, MSellApprovedCovered
    <2>3. CASE toP' = <<>>
      BY <2>3 DEF Covered
    <2>4. CASE UNCHANGED <<req, portfolio>>
               /\ (toP' = toP \/ (toP # <<>> /\ toP' = Tail(toP)))
      <3>1. toP \in Seq(ToP)
        BY DEF IndexInv, ServerTypeOK
      <3>2. \A i \in DOMAIN toP' : \E j \in DOMAIN toP : toP[j] = toP'[i]
        BY <2>4, <3>1, TailIn
      <3>3. QED
        BY <2>4, <3>2 DEF Covered, HeldBy
    <2>5. QED
      BY <1>2, <2>1, <2>2, <2>3, <2>4, UpdateUnderWay
  <1>3. QED
    BY <1>1, <1>2

LEMMA CoveredInvariant ==
  ASSUME \A u \in DOMAIN Portfolios : Unique(Portfolios[u])
  PROVE  Spec => []Covered
  <1>1. Init => Covered
    BY DEF Init, WireInit, Covered
  <1>2. Spec => []OnePositionPerStock
    BY PositionsStayUnique
  <1>3. QED
    BY <1>1, <1>2, NextKeepsCovered, NextKeeps, ConversationWithP,
       OrderInvInvariant, SaysPort, PTL DEF Spec

(* The int arithmetic of a covered sale does not wrap around. *)
LEMMA WrapCovered ==
  ASSUME NEW h \in CInt, NEW n \in CInt, n > 0, h >= n
  PROVE  Wrap(h + (-n)) = h - n /\ h - n >= 0
  BY IntMaxAssumption DEF Wrap, CInt

(* An update changes the shares of one position, which is the one that the  *)
(* update names, and leaves all others alone.                               *)
LEMMA KeptChanges ==
  ASSUME IndexInv, OnePositionPerStock,
         PUpdateNew \/ PUpdateReplace \/ PUpdateRemove, NEW m, m = Head(toP),
         NEW u \in DOMAIN portfolio, NEW i \in DOMAIN portfolio[u], Kept(u, i),
         portfolio'[u][i].quantity # portfolio[u][i].quantity
  PROVE  /\ PReceives("update") /\ u = m.user /\ i = m.index + 1
         /\ portfolio'[u][i].quantity = m.shares
         /\ portfolio'[u][i].avgPrice = m.price /\ m.shares # 0
  <1> DEFINE k == m.index + 1
             p == portfolio[m.user]
  <1>0. PReceives("update")
    BY DEF PUpdateNew, PUpdateReplace, PUpdateRemove
  <1>1. m.user \in DOMAIN portfolio
    BY <1>0, PUpdateFacts DEF Valid
  <1>2. p \in Seq(Holding) /\ Unique(p)
    BY <1>1 DEF IndexInv, ServerTypeOK, OnePositionPerStock, Unique
  <1>3. CASE UNCHANGED portfolio[u]
    BY <1>3
  <1>4. CASE u = m.user /\ PUpdateNew
    <2>1. PICK e : Store(m.user, Append(p, e))
      BY <1>1, <1>4 DEF PUpdateNew
    <2>2. portfolio'[u] = Append(p, e)
      BY <1>4, <2>1 DEF Store
    <2>3. portfolio'[u][i] = portfolio[u][i]
      BY <1>2, <1>4, <2>2, AppendFacts
    <2>4. QED
      BY <2>3
  <1>5. CASE u = m.user /\ PUpdateReplace
    <2> DEFINE e == [[p[k] EXCEPT !.quantity = m.shares] EXCEPT !.avgPrice = m.price]
    <2>1. k # 0 /\ m.shares # 0 /\ k \in DOMAIN p /\ p[k] \in Holding
      BY <1>0, <1>5, PIndexFacts DEF PUpdateReplace
    <2>2. portfolio'[u] = [p EXCEPT ![k] = e]
      BY <1>5 DEF PUpdateReplace, Store
    <2>3. CASE i = k
      BY <1>0, <1>5, <2>1, <2>2, <2>3 DEF Holding
    <2>4. CASE i # k
      BY <1>5, <2>2, <2>4
    <2>5. QED
      BY <2>3, <2>4
  <1>6. CASE u = m.user /\ PUpdateRemove /\ ~UNCHANGED portfolio
    <2>1. k # 0 /\ k \in 1 .. Len(p)
      BY <1>0, <1>2, <1>6, PIndexFacts, LenProperties DEF PUpdateRemove
    <2>2. portfolio'[u] = RemoveAt(p, k)
      BY <1>6 DEF PUpdateRemove, Store
    <2>3. i \in DOMAIN RemoveAt(p, k) /\ portfolio'[u][i].stockName = p[i].stockName
      BY <1>6, <2>2 DEF Kept
    <2>4. /\ DOMAIN RemoveAt(p, k) = 1 .. Len(p) - 1
          /\ \A j \in 1 .. Len(p) - 1 :
               RemoveAt(p, k)[j] = IF j < k THEN p[j] ELSE p[j + 1]
      BY <1>2, <2>1, RemoveAtFacts
    <2>5. i \in 1 .. Len(p) - 1 /\ portfolio'[u][i] = IF i < k THEN p[i] ELSE p[i + 1]
      BY <2>2, <2>3, <2>4
    <2>6. i + 1 \in DOMAIN p /\ i + 1 # i /\ i \in DOMAIN p
      BY <1>2, <1>6, <2>5, LenProperties
    <2>7. portfolio'[u][i] = p[i]
      BY <1>2, <2>3, <2>5, <2>6 DEF Unique
    <2>8. QED
      BY <1>6, <2>7
  <1>7. CASE u # m.user
    BY <1>3, <1>7 DEF PUpdateNew, PUpdateReplace, PUpdateRemove, Store
  <1>8. QED
    BY <1>3, <1>4, <1>5, <1>6, <1>7

LEMMA QuantityInt ==
  ASSUME ServerTypeOK, NEW u \in DOMAIN portfolio, NEW i \in DOMAIN portfolio[u]
  PROVE  portfolio[u][i].quantity \in Int
  <1>1. portfolio[u] \in Seq(Holding)
    BY DEF ServerTypeOK
  <1>2. portfolio[u][i] \in Holding
    BY <1>1, LenProperties, ElementOfSeq
  <1>3. QED
    BY <1>2, IntMaxAssumption DEF Holding, CInt

(* The update of a covered sale leaves the position it sells from positive. *)
LEMMA SaleKeepsPositive ==
  ASSUME IndexInv, OrderInv, OnePositionPerStock, Covered,
         PUpdateNew \/ PUpdateReplace \/ PUpdateRemove,
         NEW u \in DOMAIN portfolio, NEW i \in DOMAIN portfolio[u], Sold(u, i),
         req.op = "sell", req.shares > 0
  PROVE  portfolio'[u][i].quantity > 0
  <1> DEFINE m == Head(toP)
             h == HeldBy(Lower[req.user], req.stock)
             n == req.shares
  <1>0. Kept(u, i) /\ portfolio'[u][i].quantity # portfolio[u][i].quantity
    BY QuantityInt DEF Sold, IndexInv
  <1>1. /\ PReceives("update") /\ i = m.index + 1
        /\ portfolio'[u][i].quantity = m.shares /\ m.shares # 0
    BY <1>0, KeptChanges
  <1>2. m \in [t : {"update"}, user : Users, stock : Stocks,
               shares : CInt, price : Money, index : Int]
    BY <1>1, PUpdateFacts
  <1>3. 1 \in DOMAIN toP /\ m = toP[1] /\ m.t = "update"
    BY <1>1, TailFacts DEF IndexInv, ServerTypeOK, PReceives
  <1>4. AsOrdered(m)
    BY <1>3 DEF OrderInv, UpdateFits
  <1>5. req \in ClientMsg /\ req.t = "transact" /\ h >= n
    BY <1>3 DEF Covered
  <1>6. n \in CInt /\ req.user \in Names /\ req.stock \in Stocks
    BY <1>5 DEF ClientMsg
  <1>7. h \in CInt
    BY <1>4, <1>6, UserTyped, HeldByInt DEF AsOrdered, IndexInv
  <1>8. m.shares = Wrap(h + (-n))
    BY <1>4 DEF AsOrdered
  <1>9. m.shares >= 0
    BY <1>5, <1>6, <1>7, <1>8, WrapCovered, IntMaxAssumption DEF CInt
  <1>10. m.shares \in Int
    BY <1>2, IntMaxAssumption DEF CInt
  <1> HIDE DEF m, h, n
  <1>11. QED
    BY <1>1, <1>9, <1>10

(* Whatever people type, and whoever leaves or types over whom, a sell of a *)
(* positive number of shares never leaves a position at zero or below: the  *)
(* last of several checks of the order (checkStock of serverP.cpp, the      *)
(* verdict M keeps, the index M sends back) still holds at updateStock.     *)
THEOREM SalesAreCovered ==
  ASSUME \A u \in DOMAIN Portfolios : Unique(Portfolios[u])
  PROVE  Spec => NoOversell
  <1>1. IndexInv /\ OrderInv /\ OnePositionPerStock /\ Covered /\ [Next]_vars
          => [\A u \in DOMAIN portfolio : \A i \in DOMAIN portfolio[u] :
                Sold(u, i) /\ req.op = "sell" /\ req.shares > 0 =>
                  portfolio'[u][i].quantity > 0]_portfolio
    BY OnlyUpdatesWrite, SaleKeepsPositive
  <1>2. Spec => []OnePositionPerStock
    BY PositionsStayUnique
  <1>3. QED
    BY <1>1, <1>2, ConversationWithP, OrderInvInvariant, CoveredInvariant, PTL
       DEF Spec, NoOversell
=============================================================================
