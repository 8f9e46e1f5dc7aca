---------------------------- MODULE TradeProofs ----------------------------
(***************************************************************************)
(* What a trade does to a position, and what the client is told of it.     *)
(*                                                                         *)
(* TradeInv says that an update on its way to Server P is what M would     *)
(* compute from the portfolio and the prices of this moment: whatever has  *)
(* happened since M read them, they still are what they were.  From it     *)
(* follow, in this order: that every client in recv is answered or will be *)
(* (Remembered), or in which four ways it may not be (NobodyIsLost), that  *)
(* positions and their average prices stay sound (Account), that the       *)
(* result a client is told is the order it placed (ResultFits,             *)
(* ResultHere), and what a trade does to an average price.                 *)
(***************************************************************************)
EXTENDS DialogueProofs, FiniteSetTheorems

StockNow == getStock(Lower[req.user], req.stock)
UpdateNow ==
  IF req.op = "buy"
    THEN Bought(StockNow)
    ELSE UpdateP(StockNow, Wrap(StockNow.shares - req.shares), StockNow.price)

UpdateAtP == \E i \in DOMAIN toP : toP[i].t = "update"

TradeInv ==
  UpdateAtP =>
    /\ \A i \in DOMAIN toP : toP[i].t = "update" => toP[i] = UpdateNow
    /\ req \in ClientMsg /\ req.t = "transact"
    /\ toQ = <<>> /\ offer = QuoteOf(req.stock)
    /\ IF req.op = "buy" THEN offer # NA ELSE StockNow.shares # NA

----------------------------------------------------------------------------
LEMMA StockNowUnchanged ==
  ASSUME UNCHANGED <<req, portfolio>>
  PROVE  UNCHANGED StockNow
  <1>1. FirstOf(Lower[req.user], req.stock)' = FirstOf(Lower[req.user], req.stock)
    BY DEF FirstOf, SelectInSeq
  <1>2. QED
    BY <1>1 DEF StockNow, getStock

LEMMA UpdateNowUnchanged ==
  ASSUME UNCHANGED <<req, offer, portfolio>>
  PROVE  UNCHANGED UpdateNow
  <1>1. UNCHANGED StockNow
    BY StockNowUnchanged
  <1>2. QED
    BY <1>1 DEF UpdateNow, Bought, UpdateP

LEMMA QuoteUnchanged ==
  ASSUME UNCHANGED priceIndex, NEW s
  PROVE  QuoteOf(s)' = QuoteOf(s)
  BY DEF QuoteOf, CurrentPrice, Listed

(* M sends an update: only confirmations can be before it. *)
LEMMA UpdateSent ==
  ASSUME IndexInv, IndexInv', NEW m, NEW j \in DOMAIN toP', toP'[j] = m,
         m.t = "update", NEW i \in DOMAIN toP', toP'[i].t = "update"
  PROVE  toP'[i] = m
  BY DEF IndexInv, OneQuestion

LEMMA SendsUpdateNow ==
  ASSUME Agreed, IndexInv', mpc \in Trading \ {"offer"}, mpc \notin Lost,
         UNCHANGED <<req, offer, portfolio, priceIndex, toQ>>,
         NEW m, NEW j \in DOMAIN toP', toP'[j] = m, m.t = "update", m = UpdateNow,
         IF req.op = "buy" THEN offer # NA ELSE StockNow.shares # NA
  PROVE  TradeInv'
  <1>1. \A i \in DOMAIN toP' : toP'[i].t = "update" => toP'[i] = UpdateNow
    BY UpdateSent DEF Agreed
  <1>2. req \in ClientMsg /\ req.t = "transact"
    BY OrderTyped DEF Agreed, IndexInv
  <1>3. toQ = <<>> /\ offer = QuoteOf(req.stock)
    BY DEF Agreed, QuoteInv, OfferFits
  <1>4. UNCHANGED <<UpdateNow, StockNow, QuoteOf(req.stock)>>
    BY UpdateNowUnchanged, StockNowUnchanged, QuoteUnchanged
  <1>5. QED
    BY <1>1, <1>2, <1>3, <1>4 DEF TradeInv

LEMMA MBuyUpdateSends ==
  ASSUME Agreed, IndexInv', MBuyUpdate, UNCHANGED <<portfolio, priceIndex>>
  PROVE  TradeInv'
  <1>1. /\ mpc = "buy_held" /\ mpc \in Trading \ {"offer"} /\ mpc \notin Lost
        /\ toM # <<>> /\ Head(toM).t = "held" /\ offer # NA
    BY DEF MBuyUpdate, Hears, Trading, Lost
  <1>2. Head(toM) = toM[1] /\ 1 \in DOMAIN toM
    BY <1>1, QueuesTyped
  <1>3. Head(toM) = StockNow /\ req.op = "buy"
    BY <1>1, <1>2 DEF Agreed, OrderInv, HeldFits, OpFits, StockNow
  <1>4. PICK m : m = Bought(Head(toM))
    OBVIOUS
  <1>5. m.t = "update" /\ m = UpdateNow
    BY <1>3, <1>4 DEF UpdateNow, Bought, UpdateP
  <1>6. toP' = Append(toP, m) /\ UNCHANGED <<req, offer, toQ>>
    BY <1>4 DEF MBuyUpdate, tcpVars
  <1>7. Len(toP) + 1 \in DOMAIN toP' /\ toP'[Len(toP) + 1] = m
    BY <1>6, QueuesTyped, AppendFacts
  <1>8. QED
    BY <1>1, <1>3, <1>5, <1>6, <1>7, SendsUpdateNow

LEMMA MSellApprovedSends ==
  ASSUME Agreed, IndexInv', MSellApproved, UNCHANGED <<portfolio, priceIndex>>
  PROVE  TradeInv'
  <1>1. mpc = "sell_answer" /\ mpc \in Trading \ {"offer"} /\ mpc \notin Lost
    BY DEF MSellApproved, HearsClient, Trading, Lost
  <1>2. pos = StockNow /\ req.op = "sell" /\ pos.shares # NA
    BY <1>1 DEF Agreed, OrderInv, PosFits, OpFits, StockNow, IndexInv, ValidPos
  <1>3. PICK m : m = UpdateP(pos, Wrap(pos.shares - req.shares), pos.price)
    OBVIOUS
  <1>4. m.t = "update" /\ m = UpdateNow
    BY <1>2, <1>3 DEF UpdateNow, UpdateP
  <1>5. toP' = toP \o <<AnswerToP, m>> /\ UNCHANGED <<req, offer, toQ>>
    BY <1>3 DEF MSellApproved
  <1>6. toP \in Seq(ToP)
    BY QueuesTyped
  <1>7. Len(toP) + 2 \in DOMAIN toP' /\ toP'[Len(toP) + 2] = m
    BY <1>5, <1>6
  <1>8. QED
    BY <1>1, <1>2, <1>4, <1>5, <1>7, SendsUpdateNow

LEMMA MainLeavesServers ==
  ASSUME [Next]_vars, MBuyUpdate \/ MSellApproved
  PROVE  UNCHANGED <<portfolio, priceIndex>>
  <1>1. mpc \in {"buy_held", "sell_answer"} /\ mpc' = "update"
    BY DEF MBuyUpdate, MSellApproved, Hears, HearsClient
  <1>2. CASE AuthStep \/ QuoteStep \/ PortfolioStep \/ UNCHANGED vars
    BY <1>1, <1>2 DEF AuthStep, QuoteStep, PortfolioStep, mVars, vars
  <1>3. CASE MainStep
    BY <1>3 DEF MainStep, pVars
  <1>4. CASE \E c \in Clients : ServeStep(c) \/ ClientStep(c)
    BY <1>1, <1>4 DEF ServeStep, ClientStep, ReceiveStep, AnswerStep, CommandStep,
       pVars, mVars
  <1>5. QED
    BY <1>2, <1>3, <1>4 DEF Next

LEMMA UpdateThere ==
  ASSUME Agreed', UpdateAtP'
  PROVE  mpc' \in {"update"} \cup Lost
  <1>1. PICK i \in DOMAIN toP' : toP'[i].t = "update"
    BY DEF UpdateAtP
  <1>2. mpc' \in WaitsForP \cup Lost
    BY <1>1 DEF Agreed, IndexInv, OneQuestion
  <1>3. mpc' \notin Lost => toP'[i].t = AskedOfP'
    BY <1>1 DEF Agreed, PortInv, QuestionsToP, QuestionFits
  <1>4. QED
    BY <1>1, <1>2, <1>3 DEF AskedOfP, WaitsForP

LEMMA NextKeepsTrade ==
  ASSUME Agreed, TradeInv, Agreed', [Next]_vars
  PROVE  TradeInv'
  <1>1. CASE mpc' \notin {"update"} \cup Lost
    BY <1>1, UpdateThere DEF TradeInv
  <1>2. CASE MBuyUpdate
    BY <1>2, MainLeavesServers, MBuyUpdateSends DEF Agreed
  <1>3. CASE MSellApproved
    BY <1>3, MainLeavesServers, MSellApprovedSends DEF Agreed
  <1>4. CASE toP' = <<>>
    BY <1>4 DEF TradeInv, UpdateAtP
  <1>5. CASE /\ UNCHANGED <<req, offer, portfolio>>
             /\ toQ = <<>> => UNCHANGED <<toQ, priceIndex>>
             /\ toP' = toP \/ (toP # <<>> /\ toP' = Tail(toP))
    <2>0. toP \in Seq(ToP)
      BY QueuesTyped
    <2>1. SUFFICES ASSUME UpdateAtP' PROVE TradeInv'
      BY DEF TradeInv
    <2>2. \A i \in DOMAIN toP' : \E j \in DOMAIN toP : toP[j] = toP'[i]
      BY <1>5, <2>0, TailIn
    <2>3. UpdateAtP
      BY <2>1, <2>2 DEF UpdateAtP
    <2>4. toQ = <<>> /\ UNCHANGED <<toQ, priceIndex>>
      BY <1>5, <2>3 DEF TradeInv
    <2>5. UNCHANGED <<UpdateNow, StockNow, QuoteOf(req.stock)>>
      BY <1>5, <2>4, UpdateNowUnchanged, StockNowUnchanged, QuoteUnchanged
    <2>6. QED
      BY <1>5, <2>2, <2>3, <2>4, <2>5 DEF TradeInv
  <1>6. QED
    BY <1>1, <1>2, <1>3, <1>4, <1>5, UpdateUnderWay DEF Agreed

LEMMA TradeInvariant == Spec => []TradeInv
  <1>1. Init => TradeInv
    BY DEF Init, WireInit, TradeInv, UpdateAtP
  <1>2. Agreed /\ TradeInv /\ Agreed' /\ [Next]_vars => TradeInv'
    BY NextKeepsTrade
  <1>3. QED
    BY <1>1, <1>2, AgreedInvariant, PTL DEF Spec

----------------------------------------------------------------------------
(* What an update is made of. *)

LEMMA StockNowFacts ==
  ASSUME ServerTypeOK, NEW u, u = Lower[req.user], u \in DOMAIN portfolio
  PROVE  /\ portfolio[u] \in Seq(Holding)
         /\ \/ /\ StockNow.shares = NA /\ StockNow.index = -1
               /\ \A i \in DOMAIN portfolio[u] : portfolio[u][i].stockName # req.stock
            \/ \E i \in DOMAIN portfolio[u] :
                 /\ portfolio[u][i].stockName = req.stock
                 /\ StockNow.shares = portfolio[u][i].quantity
                 /\ StockNow.price = RoundCent(portfolio[u][i].avgPrice)
                 /\ StockNow.index = i - 1
  <1> DEFINE i == FirstOf(u, req.stock)
  <1>1. portfolio[u] \in Seq(Holding)
    BY DEF ServerTypeOK
  <1>2. /\ i \in 0 .. Len(portfolio[u])
        /\ i # 0 => portfolio[u][i].stockName = req.stock
        /\ i = 0 => \A j \in DOMAIN portfolio[u] :
                      portfolio[u][j].stockName # req.stock
    BY <1>1, FirstOfFacts
  <1>3. i # 0 => i \in DOMAIN portfolio[u]
    BY <1>1, <1>2, LenProperties
  <1> HIDE DEF i
  <1>4. CASE i = 0
    BY <1>1, <1>2, <1>4 DEF StockNow, getStock, i
  <1>5. CASE i # 0
    BY <1>1, <1>2, <1>3, <1>5 DEF StockNow, getStock, i
  <1>6. QED
    BY <1>4, <1>5

LEMMA HoldingFacts ==
  ASSUME ServerTypeOK, NEW u \in DOMAIN portfolio, NEW i \in DOMAIN portfolio[u]
  PROVE  /\ portfolio[u][i] \in Holding
         /\ portfolio[u][i].quantity \in CInt
         /\ portfolio[u][i].avgPrice \in Money
         /\ portfolio[u][i].stockName \in Stocks
  <1>1. portfolio[u] \in Seq(Holding)
    BY DEF ServerTypeOK
  <1>2. portfolio[u][i] \in Holding
    BY <1>1, ElementOfSeq, LenProperties
  <1>3. QED
    BY <1>2 DEF Holding

(* An update opens a position, or changes the one that getStock finds. *)
LEMMA UpdateIs ==
  ASSUME Agreed, TradeInv, PReceives("update"),
         NEW m, m = Head(toP), NEW u, u = m.user
  PROVE  /\ u = Lower[req.user] /\ m.stock = req.stock /\ u \in DOMAIN portfolio
         /\ portfolio[u] \in Seq(Holding)
         /\ req \in ClientMsg /\ req.t = "transact" /\ req.shares \in CInt
         /\ req.op \in {"buy", "sell"} /\ req.user \in Names /\ req.stock \in Stocks
         /\ offer = QuoteOf(req.stock) /\ offer \in Int \cup {NA}
         /\ req.op = "buy" => offer \in Int
         /\ \/ /\ req.op = "buy" /\ m.index = -1
               /\ m.shares = req.shares /\ m.price = avgBuyPrice(req.shares, offer)
               /\ \A i \in DOMAIN portfolio[u] : portfolio[u][i].stockName # m.stock
            \/ \E i \in DOMAIN portfolio[u] :
                 /\ m.index = i - 1 /\ portfolio[u][i].stockName = m.stock
                 /\ req.op = "buy" =>
                      /\ m.shares = Wrap(req.shares + portfolio[u][i].quantity)
                      /\ m.price = avgBuyPriceNew(req.shares, offer,
                                     portfolio[u][i].quantity,
                                     RoundCent(portfolio[u][i].avgPrice))
                 /\ req.op = "sell" =>
                      /\ m.shares = Wrap(portfolio[u][i].quantity - req.shares)
                      /\ m.price = RoundCent(portfolio[u][i].avgPrice)
  <1>0. ServerTypeOK
    BY DEF Agreed, IndexInv
  <1>1. m.t = "update" /\ 1 \in DOMAIN toP /\ m = toP[1]
    BY QueuesTyped DEF PReceives
  <1>2. /\ m = UpdateNow /\ UpdateAtP
        /\ req \in ClientMsg /\ req.t = "transact" /\ offer = QuoteOf(req.stock)
        /\ IF req.op = "buy" THEN offer # NA ELSE StockNow.shares # NA
    BY <1>1 DEF TradeInv, UpdateAtP
  <1>3. u \in DOMAIN portfolio
    BY PUpdateFacts DEF Agreed, Valid
  <1>4. /\ req.op \in {"buy", "sell"} /\ req.shares \in CInt /\ req.user \in Names
        /\ req.stock \in Stocks
    BY <1>2 DEF ClientMsg
  <1>5. offer \in Int \cup {NA} /\ (req.op = "buy" => offer \in Int)
    BY <1>0, <1>2 DEF ServerTypeOK
  <1>6. PICK h : h = StockNow
    OBVIOUS
  <1>7. h.user = Lower[req.user] /\ m.user = h.user /\ m.stock = h.stock
    BY <1>2, <1>6 DEF UpdateNow, Bought, UpdateP, StockNow, getStock
  <1>8. h.stock = req.stock
    BY <1>3, <1>6, <1>7 DEF StockNow, getStock
  <1>9. portfolio[u] \in Seq(Holding)
    BY <1>0, <1>3, <1>7, StockNowFacts
  <1>10. CASE h.shares = NA
    <2>1. /\ req.op = "buy" /\ m.index = h.index /\ m.shares = req.shares
          /\ m.price = avgBuyPrice(req.shares, offer)
      BY <1>2, <1>4, <1>6, <1>10 DEF UpdateNow, Bought, UpdateP
    <2>2. \A i \in DOMAIN portfolio[u] : portfolio[u][i].quantity # NA
      BY <1>0, <1>3, HoldingFacts, NAAssumption, IntMaxAssumption DEF CInt
    <2>3. h.index = -1
          /\ \A i \in DOMAIN portfolio[u] : portfolio[u][i].stockName # req.stock
      BY <1>0, <1>3, <1>6, <1>7, <1>10, <2>2, StockNowFacts
    <2>4. QED
      BY <1>2, <1>3, <1>4, <1>5, <1>7, <1>8, <1>9, <2>1, <2>3
  <1>11. CASE h.shares # NA
    <2>1. PICK i \in DOMAIN portfolio[u] :
            /\ portfolio[u][i].stockName = req.stock
            /\ h.shares = portfolio[u][i].quantity
            /\ h.price = RoundCent(portfolio[u][i].avgPrice)
            /\ h.index = i - 1
      BY <1>0, <1>3, <1>6, <1>7, <1>11, StockNowFacts
    <2>2. req.op = "buy" =>
            /\ m.index = h.index /\ m.shares = Wrap(req.shares + h.shares)
            /\ m.price = avgBuyPriceNew(req.shares, offer, h.shares, h.price)
      BY <1>2, <1>6, <1>11 DEF UpdateNow, Bought, UpdateP
    <2>3. req.op = "sell" =>
            /\ m.index = h.index /\ m.shares = Wrap(h.shares - req.shares)
            /\ m.price = h.price
      BY <1>2, <1>6 DEF UpdateNow, UpdateP
    <2>4. m.index = i - 1
      BY <1>4, <2>1, <2>2, <2>3
    <2>5. QED
      BY <1>2, <1>3, <1>4, <1>5, <1>7, <1>8, <1>9, <2>1, <2>2, <2>3, <2>4
  <1>12. QED
    BY <1>10, <1>11

----------------------------------------------------------------------------
(* What clients send. *)

IsTrade(c, m) ==
  \E op \in {"buy", "sell"}, s \in Stocks, n \in Shares :
    /\ CTrade(c, op, s, n) /\ WithinBound(c, op, s, n)
    /\ m = [t |-> "transact", op |-> op, user |-> member[c], stock |-> s,
            shares |-> n]

LEMMA ClientSends ==
  ASSUME ServerTypeOK, NEW c \in Clients, ClientStep(c)
  PROVE  /\ \A d \in Clients : d # c => c2m'[d] = c2m[d]
         /\ \/ c2m'[c] = c2m[c]
            \/ \E m : c2m'[c] = Append(c2m[c], m) /\ (m.t # "transact" \/ IsTrade(c, m))
  <1>0. ASSUME NEW m, m.t # "transact", c2m' = [c2m EXCEPT ![c] = Append(@, m)]
        PROVE  /\ \A d \in Clients : d # c => c2m'[d] = c2m[d]
               /\ c2m'[c] = Append(c2m[c], m) /\ m.t # "transact"
    BY <1>0 DEF ServerTypeOK
  <1>1. CASE CNoSuchStock(c) \/ AnswerStep(c) \/ CLogin(c) \/ \E m : CAsk(c, m)
    <2>1. PICK m : m.t # "transact" /\ c2m' = [c2m EXCEPT ![c] = Append(@, m)]
      <3>1. CASE CNoSuchStock(c)
        BY <3>1 DEF CNoSuchStock, Answer
      <3>2. CASE AnswerStep(c)
        BY <3>2 DEF AnswerStep, CAnswer, Sends, Answer
      <3>3. CASE CLogin(c)
        BY <3>3 DEF CLogin, Sends
      <3>4. CASE \E m : CAsk(c, m)
        BY <3>4 DEF CAsk, Sends
      <3>5. QED
        BY <1>1, <3>1, <3>2, <3>3, <3>4
    <2>2. QED
      BY <1>0, <2>1
  <1>2. CASE CAuth(c) \/ CShow(c) \/ CValid(c) \/ COffer(c) \/ CResult(c) \/ CLeave(c)
    BY <1>2 DEF CAuth, CShow, CValid, COffer, CResult, CLeave, Receives
  <1>3. ASSUME NEW op \in {"buy", "sell"}, NEW s \in Stocks, NEW n \in Shares,
               CTrade(c, op, s, n), WithinBound(c, op, s, n)
        PROVE  /\ \A d \in Clients : d # c => c2m'[d] = c2m[d]
               /\ \E m : c2m'[c] = Append(c2m[c], m) /\ IsTrade(c, m)
    <2>1. PICK m : m = [t |-> "transact", op |-> op, user |-> member[c],
                        stock |-> s, shares |-> n]
      OBVIOUS
    <2>2. c2m' = [c2m EXCEPT ![c] = Append(@, m)]
      BY <1>3, <2>1 DEF CTrade, Sends
    <2>3. IsTrade(c, m)
      BY <1>3, <2>1 DEF IsTrade
    <2>4. QED
      BY <2>2, <2>3 DEF ServerTypeOK
  <1>4. QED
    BY <1>1, <1>2, <1>3 DEF ClientStep, ReceiveStep, CommandStep

(* Whoever moves: what waits at M's end of a connection stays, is taken, or *)
(* becomes one message longer.                                              *)
LEMMA OthersTake ==
  ASSUME ServerTypeOK, Serving, [Next]_vars, NEW d \in Clients, ~ClientStep(d)
  PROVE  c2m'[d] = c2m[d] \/ c2m'[d] = <<>>
  <1>1. CASE UNCHANGED tcpVars
    BY <1>1 DEF tcpVars
  <1>2. CASE AuthStep \/ QuoteStep \/ PortfolioStep \/ UNCHANGED vars
    <2>1. UNCHANGED tcpVars
      BY <1>2 DEF AuthStep, AReply, QuoteStep, QQuote, QQuoteAll, QUpdate, PortfolioStep,
         PPosition, PCheck, PRetrieve, PUpdateNew, PUpdateReplace, PUpdateRemove,
         PAnswer, PFallsOff, PReplies, vars, wireVars, tcpVars
    <2>2. QED
      BY <1>1, <2>1
  <1>3. CASE MainStep
    <2>1. UNCHANGED c2m \/ (TakeAll(cur) /\ mpc \in Programs)
      BY <1>3 DEF MainStep, MAuth, MPortfolio, MGain, MQuoteReply, MBuyOffer,
         MBuyDenied, MBuyApproved, MBuyUpdate, MBuyNobody, MBuyThrows, MSellQuoted,
         MSellChecked, MSellUnknown, MSellRefused, MSellPass, MSellOffer, MSellDenied,
         MSellApproved, MResult, MSigPipe, MMisread, HearsClient, tcpVars, wireVars,
         Programs
    <2>2. QED
      BY <2>1 DEF TakeAll, ServerTypeOK
  <1>4. ASSUME NEW c \in Clients, ServeStep(c)
        PROVE  c2m'[d] = c2m[d] \/ c2m'[d] = <<>>
    <2>1. UNCHANGED c2m \/ TakeAll(c)
      BY <1>4 DEF ServeStep, MLogin, MPosition, MTransact, MQuote, MClose, Reads
    <2>2. QED
      BY <2>1 DEF TakeAll, ServerTypeOK
  <1>5. ASSUME NEW c \in Clients, ClientStep(c), c # d
        PROVE  c2m'[d] = c2m[d]
    BY <1>5, ClientSends
  <1>6. QED
    BY <1>2, <1>3, <1>4, <1>5 DEF Next

(* Orders carry a number of shares that somebody typed. *)
SharesTyped ==
  /\ \A c \in Clients : \A i \in DOMAIN c2m[c] :
       c2m[c][i].t = "transact" => c2m[c][i].shares \in Shares
  /\ mpc \in Trading \/ UpdateAtP => req.shares \in Shares

LEMMA ClientSharesTyped ==
  ASSUME ServerTypeOK, Serving, SharesTyped, [Next]_vars, NEW d \in Clients,
         NEW i \in DOMAIN c2m'[d], c2m'[d][i].t = "transact"
  PROVE  c2m'[d][i].shares \in Shares
  <1>1. CASE c2m'[d] = c2m[d]
    BY <1>1 DEF SharesTyped
  <1>2. CASE c2m'[d] = <<>>
    BY <1>2
  <1>3. ASSUME NEW m, c2m'[d] = Append(c2m[d], m), m.t # "transact" \/ IsTrade(d, m)
        PROVE  c2m'[d][i].shares \in Shares
    <2>1. c2m[d] \in Seq(ClientMsg)
      BY DEF ServerTypeOK
    <2>2. (i \in DOMAIN c2m[d] /\ c2m'[d][i] = c2m[d][i]) \/ c2m'[d][i] = m
      BY <1>3, <2>1, AppendFacts
    <2>3. IsTrade(d, m) => m.shares \in Shares
      BY DEF IsTrade
    <2>4. QED
      BY <1>3, <2>2, <2>3 DEF SharesTyped
  <1>4. QED
    BY <1>1, <1>2, <1>3, ClientSends, OthersTake

(* The steps that change the order being carried out. *)
LEMMA OrderTaken ==
  ASSUME [Next]_vars, mpc' \in Trading \cup Lost
  PROVE  \/ UNCHANGED <<cur, req>> /\ (mpc' \in Trading => mpc \in Trading)
         \/ \E c \in Clients : MTransact(c)
  <1>1. CASE AuthStep \/ QuoteStep \/ PortfolioStep \/ UNCHANGED vars
    BY <1>1 DEF AuthStep, QuoteStep, PortfolioStep, mVars, vars
  <1>2. CASE MainStep
    BY <1>2 DEF MainStep, MAuth, MPortfolio, MGain, MQuoteReply, MBuyOffer,
       MBuyDenied, MBuyApproved, MBuyUpdate, MBuyNobody, MBuyThrows, MSellQuoted,
       MSellChecked, MSellUnknown, MSellRefused, MSellPass, MSellOffer, MSellDenied,
       MSellApproved, MResult, MSigPipe, MMisread, HearsClient, Hears, Return,
       Trading, Lost
  <1>3. ASSUME NEW c \in Clients, ServeStep(c)
        PROVE  MTransact(c) \/ (UNCHANGED <<cur, req>> /\ (mpc' \in Trading => mpc \in Trading))
    BY <1>3 DEF ServeStep, MLogin, MPosition, MTransact, MQuote, MClose, Trading, Lost,
       mVars, Reads
  <1>4. ASSUME NEW c \in Clients, ClientStep(c)
        PROVE  UNCHANGED mVars
    BY <1>4 DEF ClientStep, ReceiveStep, AnswerStep, CommandStep
  <1>5. QED
    BY <1>1, <1>2, <1>3, <1>4 DEF Next, mVars

LEMMA NextKeepsShares ==
  ASSUME Agreed, SharesTyped, Agreed', [Next]_vars
  PROVE  SharesTyped'
  <1>0. ServerTypeOK /\ Serving
    BY DEF Agreed, IndexInv
  <1>1. ASSUME mpc' \in Trading \/ UpdateAtP'
        PROVE  req'.shares \in Shares
    <2>1. mpc' \in Trading \cup Lost
      BY <1>1, UpdateThere DEF Trading
    <2>2. CASE \E c \in Clients : MTransact(c)
      <3>1. PICK c \in Clients : MTransact(c)
        BY <2>2
      <3>2. /\ c2m[c] # <<>> /\ req' = Head(c2m[c]) /\ Head(c2m[c]).t = "transact"
        BY <3>1 DEF MTransact, Reads
      <3>3. c2m[c] \in Seq(ClientMsg)
        BY <1>0 DEF ServerTypeOK
      <3>4. Head(c2m[c]) = c2m[c][1] /\ 1 \in DOMAIN c2m[c]
        BY <3>2, <3>3, TailFacts
      <3>5. QED
        BY <3>2, <3>4 DEF SharesTyped
    <2>3. CASE UNCHANGED <<cur, req>> /\ (mpc' \in Trading => mpc \in Trading)
      <3>1. CASE mpc' \in Trading
        BY <2>3, <3>1 DEF SharesTyped
      <3>2. CASE mpc' \in Lost /\ UpdateAtP'
        <4>1. CASE UpdateAtP
          BY <2>3, <4>1 DEF SharesTyped
        <4>2. CASE ~UpdateAtP
          <5>1. ~(MBuyUpdate \/ MSellApproved)
            BY <3>2 DEF MBuyUpdate, MSellApproved, Lost
          <5>2. toP' = <<>> \/ toP' = toP \/ (toP # <<>> /\ toP' = Tail(toP))
            BY <3>2, <5>1, UpdateUnderWay DEF Agreed
          <5>3. toP \in Seq(ToP)
            BY QueuesTyped
          <5>4. \A i \in DOMAIN toP' : \E j \in DOMAIN toP : toP[j] = toP'[i]
            BY <5>2, <5>3, TailIn
          <5>5. QED
            BY <3>2, <4>2, <5>4 DEF UpdateAtP
        <4>3. QED
          BY <4>1, <4>2
      <3>3. QED
        BY <1>1, <2>1, <3>1, <3>2
    <2>4. QED
      BY <2>1, <2>2, <2>3, OrderTaken
  <1>2. QED
    BY <1>0, <1>1, ClientSharesTyped DEF SharesTyped

LEMMA SharesAreTyped == Spec => []SharesTyped
  <1>1. Init => SharesTyped
    BY DEF Init, WireInit, MInit, SharesTyped, UpdateAtP, Trading
  <1>2. Agreed /\ SharesTyped /\ Agreed' /\ [Next]_vars => SharesTyped'
    BY NextKeepsShares
  <1>3. QED
    BY <1>1, <1>2, AgreedInvariant, PTL DEF Spec

----------------------------------------------------------------------------
(* Server P always has something to say of an update, if nobody orders      *)
(* nothing.                                                                 *)

NeverNothing == \A i \in DOMAIN toM : toM[i].t # "nothing"

LEMMA WrapZero ==
  ASSUME NEW n \in CInt, Wrap(n + 0) = 0 \/ Wrap(0 - n) = 0
  PROVE  n = 0
  BY IntMaxAssumption DEF Wrap, CInt

LEMMA RemovesShares ==
  ASSUME Agreed, TradeInv, req.shares # 0, PReceives("update"),
         NEW m, m = Head(toP), m.shares = 0, m.index + 1 # 0
  PROVE  portfolio[m.user][m.index + 1].quantity # 0
  <1>1. PICK u : u = m.user
    OBVIOUS
  <1>2. /\ u \in DOMAIN portfolio /\ portfolio[u] \in Seq(Holding)
        /\ req.op \in {"buy", "sell"} /\ req.shares \in CInt
    BY <1>1, UpdateIs
  <1>3. PICK i \in DOMAIN portfolio[u] :
          /\ m.index = i - 1
          /\ req.op = "buy" => m.shares = Wrap(req.shares + portfolio[u][i].quantity)
          /\ req.op = "sell" => m.shares = Wrap(portfolio[u][i].quantity - req.shares)
    <2>1. m.index # -1
      BY PUpdateFacts DEF Agreed
    <2>2. QED
      BY <1>1, <2>1, UpdateIs
  <1>4. m.index + 1 = i
    BY <1>2, <1>3, LenProperties
  <1>5. PICK n \in CInt : n = req.shares
    BY <1>2
  <1>6. Wrap(n + 0) # 0 /\ Wrap(0 - n) # 0
    BY <1>5, WrapZero
  <1>7. QED
    BY <1>1, <1>2, <1>3, <1>4, <1>5, <1>6

LEMMA NextKeepsNothing ==
  ASSUME Agreed, TradeInv, SharesTyped, 0 \notin Shares, NeverNothing, [Next]_vars
  PROVE  NeverNothing'
  <1>0. toM \in Seq(ReplyFromA \cup ReplyFromQ \cup ReplyFromP)
    BY QueuesTyped
  <1>1. CASE MainStep \/ \E c \in Clients : ServeStep(c)
    BY <1>0, <1>1, MainTakes, TailFacts DEF NeverNothing
  <1>2. ASSUME NEW m, toM' = Append(toM, m), m.t # "nothing"
        PROVE  NeverNothing'
    BY <1>0, <1>2, AppendFacts DEF NeverNothing
  <1>3. CASE AuthStep
    BY <1>2, <1>3 DEF AuthStep, AReply
  <1>4. CASE QuoteStep
    BY <1>2, <1>4 DEF QuoteStep, QQuote, QQuoteAll, QUpdate, NeverNothing
  <1>5. CASE PUpdateNew \/ PUpdateReplace \/ PUpdateRemove
    <2>1. \A op, o, n : Result(op, o, n).t = "result"
      BY DEF Result
    <2>2. ~PUpdateRemove => \E m : toM' = Append(toM, m) /\ m.t # "nothing"
      <3>1. CASE PUpdateNew
        BY <2>1, <3>1 DEF PUpdateNew, PReplies
      <3>2. CASE PUpdateReplace
        BY <2>1, <3>2 DEF PUpdateReplace, PReplies
      <3>3. QED
        BY <1>5, <3>1, <3>2
    <2>3. CASE PUpdateRemove
      <3>1. PICK m : m = Head(toP)
        OBVIOUS
      <3>2. PReceives("update") /\ m.index + 1 # 0 /\ m.shares = 0
        BY <2>3, <3>1 DEF PUpdateRemove
      <3>3. req.shares # 0
        <4>1. 1 \in DOMAIN toP /\ m = toP[1] /\ m.t = "update"
          BY <3>1, <3>2, QueuesTyped DEF PReceives
        <4>2. req.shares \in Shares
          BY <4>1 DEF SharesTyped, UpdateAtP
        <4>3. QED
          BY <4>2
      <3>4. portfolio[m.user][m.index + 1].quantity # 0
        BY <3>1, <3>2, <3>3, RemovesShares
      <3>5. QED
        BY <1>2, <2>1, <2>3, <3>1, <3>4 DEF PUpdateRemove, PReplies
    <2>4. QED
      BY <1>2, <2>2, <2>3
  <1>6. CASE PPosition \/ PCheck \/ PRetrieve
    BY <1>2, <1>6, getStockTag DEF PPosition, PCheck, PRetrieve, PReplies
  <1>7. CASE PAnswer \/ PFallsOff
    BY <1>2, <1>7 DEF PAnswer, PFallsOff, NeverNothing
  <1>8. CASE UNCHANGED vars \/ \E c \in Clients : ClientStep(c)
    <2>1. toM' = toM
      BY <1>8, ClientsLeaveUdp DEF vars, wireVars, udpVars
    <2>2. QED
      BY <2>1 DEF NeverNothing
  <1>9. QED
    BY <1>1, <1>3, <1>4, <1>5, <1>6, <1>7, <1>8 DEF Next, PortfolioStep

LEMMA NothingIsNeverSaid ==
  ASSUME 0 \notin Shares
  PROVE  Spec => []NeverNothing
  <1>1. Init => NeverNothing
    BY DEF Init, WireInit, NeverNothing
  <1>2. Agreed /\ TradeInv /\ SharesTyped /\ NeverNothing /\ [Next]_vars => NeverNothing'
    BY NextKeepsNothing
  <1>3. QED
    BY <1>1, <1>2, AgreedInvariant, TradeInvariant, SharesAreTyped, PTL DEF Spec

(* Whatever is typed: an empty reply is one to an order for no shares.      *)
NothingOfNone == \A i \in DOMAIN toM : toM[i].t = "nothing" => req.shares = 0

LEMMA MainKeepsRequest ==
  ASSUME MainStep, mpc' # "poll"
  PROVE  req' = req
  BY DEF MainStep, MAuth, MPortfolio, MGain, MQuoteReply, MBuyOffer,
     MBuyDenied, MBuyApproved, MBuyUpdate, MBuyNobody, MBuyThrows, MSellQuoted,
     MSellChecked, MSellUnknown, MSellRefused, MSellPass, MSellOffer, MSellDenied,
     MSellApproved, MResult, MSigPipe, MMisread, Return

LEMMA NextKeepsNone ==
  ASSUME Agreed, TradeInv, NothingOfNone, Agreed', [Next]_vars
  PROVE  NothingOfNone'
  <1>0. toM \in Seq(ReplyFromA \cup ReplyFromQ \cup ReplyFromP)
    BY QueuesTyped
  <1>1. CASE MainStep \/ \E c \in Clients : ServeStep(c)
    <2>1. SUFFICES ASSUME NEW k \in DOMAIN toM', toM'[k].t = "nothing"
                   PROVE  req'.shares = 0
      BY DEF NothingOfNone
    <2>2. PICK j \in DOMAIN toM : toM[j] = toM'[k]
      BY <1>0, <1>1, <2>1, MainTakes, TailIn
    <2>3. mpc \in WaitsForP \cup Lost /\ mpc' \in WaitsForP \cup Lost
      BY <2>1, <2>2 DEF Agreed, IndexInv, OneReply, FromP
    <2>4. mpc # "poll" /\ mpc' # "poll"
      BY <2>3 DEF WaitsForP, Lost
    <2>5. MainStep
      BY <1>1, <2>4 DEF ServeStep, MLogin, MPosition, MTransact, MQuote, MClose, Reads
    <2>6. QED
      BY <2>1, <2>2, <2>4, <2>5, MainKeepsRequest DEF NothingOfNone
  <1>2. ASSUME NEW m, toM' = Append(toM, m), m.t = "nothing" => req.shares = 0, req' = req
        PROVE  NothingOfNone'
    BY <1>0, <1>2, AppendFacts DEF NothingOfNone
  <1>3. CASE AuthStep
    BY <1>2, <1>3 DEF AuthStep, AReply, mVars
  <1>4. CASE QuoteStep
    BY <1>2, <1>4 DEF QuoteStep, QQuote, QQuoteAll, QUpdate, mVars, NothingOfNone
  <1>5. CASE PortfolioStep /\ (PUpdateNew \/ PUpdateReplace \/ PUpdateRemove)
    <2>1. req' = req
      BY <1>5 DEF PortfolioStep, mVars
    <2>2. \A op, o, n : Result(op, o, n).t = "result"
      BY DEF Result
    <2>3. CASE PUpdateNew \/ PUpdateReplace
      <3>1. \E m : toM' = Append(toM, m) /\ m.t # "nothing"
        <4>1. CASE PUpdateNew
          BY <2>2, <4>1 DEF PUpdateNew, PReplies
        <4>2. CASE PUpdateReplace
          BY <2>2, <4>2 DEF PUpdateReplace, PReplies
        <4>3. QED
          BY <2>3, <4>1, <4>2
      <3>2. QED
        BY <1>2, <2>1, <3>1
    <2>4. CASE PUpdateRemove
      <3>1. PICK m : m = Head(toP)
        OBVIOUS
      <3>2. PReceives("update") /\ m.index + 1 # 0 /\ m.shares = 0
        BY <2>4, <3>1 DEF PUpdateRemove
      <3>3. portfolio[m.user][m.index + 1].quantity = 0 => req.shares = 0
        BY <3>1, <3>2, RemovesShares
      <3>4. \E n : toM' = Append(toM, n) /\ (n.t = "nothing" => req.shares = 0)
        <4>1. CASE portfolio[m.user][m.index + 1].quantity = 0
          BY <2>4, <3>1, <3>3, <4>1 DEF PUpdateRemove, PReplies
        <4>2. CASE portfolio[m.user][m.index + 1].quantity # 0
          BY <2>2, <2>4, <3>1, <4>2 DEF PUpdateRemove, PReplies
        <4>3. QED
          BY <4>1, <4>2
      <3>5. QED
        BY <1>2, <2>1, <3>4
    <2>5. QED
      BY <1>5, <2>3, <2>4
  <1>6. CASE PortfolioStep /\ (PPosition \/ PCheck \/ PRetrieve)
    <2>1. req' = req
      BY <1>6 DEF PortfolioStep, mVars
    <2>2. QED
      BY <1>2, <1>6, <2>1 DEF PPosition, PCheck, PRetrieve, PReplies, getStock
  <1>7. CASE PortfolioStep /\ (PAnswer \/ PFallsOff)
    <2>1. req' = req
      BY <1>7 DEF PortfolioStep, mVars
    <2>2. QED
      BY <1>2, <1>7, <2>1 DEF PAnswer, PFallsOff, NothingOfNone
  <1>8. CASE UNCHANGED vars \/ \E c \in Clients : ClientStep(c)
    <2>1. toM' = toM /\ req' = req
      BY <1>8, ClientsLeaveUdp DEF vars, wireVars, udpVars, mVars, ClientStep,
         ReceiveStep, AnswerStep, CommandStep
    <2>2. QED
      BY <2>1 DEF NothingOfNone
  <1>9. QED
    BY <1>1, <1>3, <1>4, <1>5, <1>6, <1>7, <1>8 DEF Next, PortfolioStep

LEMMA NothingIsOfNone == Spec => []NothingOfNone
  <1>1. Init => NothingOfNone
    BY DEF Init, WireInit, NothingOfNone
  <1>2. Agreed /\ TradeInv /\ NothingOfNone /\ Agreed' /\ [Next]_vars => NothingOfNone'
    BY NextKeepsNone
  <1>3. QED
    BY <1>1, <1>2, AgreedInvariant, TradeInvariant, PTL DEF Spec

----------------------------------------------------------------------------
(* What clients are sent. *)

LEMMA ClientHears ==
  ASSUME ViewTyped, NEW c \in Clients, ClientStep(c)
  PROVE  /\ \A d \in Clients : d # c => UNCHANGED <<m2c[d], conn[d]>>
         /\ m2c'[c] = <<>> \/ UNCHANGED <<m2c[c], conn[c]>>
  <1>1. CASE CLeave(c)
    BY <1>1 DEF ViewTyped, CLeave, HangUp
  <1>2. CASE CLogin(c) \/ AnswerStep(c) \/ (\E m : CAsk(c, m))
             \/ \E op, s, n : CTrade(c, op, s, n)
    BY <1>2 DEF CLogin, AnswerStep, CAnswer, CAsk, CTrade, Sends
  <1>3. CASE ReceiveStep(c)
    BY <1>3 DEF ViewTyped, ReceiveStep, CAuth, CShow, CValid, COffer, CNoSuchStock,
       CResult, Receives
  <1>4. QED
    BY <1>1, <1>2, <1>3 DEF ClientStep, CommandStep

LEMMA MainSends ==
  ASSUME Agreed, MainStep \/ (\E c \in Clients : ServeStep(c)), NEW d \in Clients
  PROVE  /\ conn'[d] = "open" <=> conn[d] = "open"
         /\ \/ m2c'[d] = m2c[d]
            \/ \E m : /\ MainStep /\ Deliver(cur, m) /\ d = cur /\ conn[d] = "open"
                      /\ m2c'[d] = Append(m2c[d], m)
  <1>0. ViewTyped /\ ServerTypeOK /\ IndexInv /\ QuoteInv /\ PortInv
    BY DEF Agreed, IndexInv, DialogueInv
  <1>1. ASSUME NEW c \in Clients, TakeAll(c), UNCHANGED m2c
        PROVE  (conn'[d] = "open" <=> conn[d] = "open") /\ m2c'[d] = m2c[d]
    BY <1>0, <1>1, TakeAllFacts
  <1>2. CASE MainStep
    <2>1. ASSUME NEW m, Deliver(cur, m), cur \in Clients
          PROVE  /\ conn'[d] = "open" <=> conn[d] = "open"
                 /\ \/ m2c'[d] = m2c[d]
                    \/ /\ MainStep /\ Deliver(cur, m) /\ d = cur /\ conn[d] = "open"
                       /\ m2c'[d] = Append(m2c[d], m)
      <3>1. /\ conn'[cur] = "open" <=> conn[cur] = "open"
            /\ conn[cur] = "open" => m2c'[cur] = Append(m2c[cur], m)
            /\ \A e \in Clients : e # cur => UNCHANGED <<m2c[e], conn[e]>>
        BY <1>0, <2>1, DeliverFacts
      <3>2. conn[cur] # "open" => m2c' = m2c
        BY <2>1 DEF Deliver
      <3>3. QED
        BY <1>2, <2>1, <3>1, <3>2
    <2>2. QED
      BY <1>0, <1>1, <1>2, <2>1, MainDelivers
  <1>3. ASSUME NEW c \in Clients, ServeStep(c)
        PROVE  (conn'[d] = "open" <=> conn[d] = "open") /\ m2c'[d] = m2c[d]
    <2>1. UNCHANGED m2c /\ (TakeAll(c) \/ MClose(c))
      BY <1>3 DEF ServeStep, MLogin, MPosition, MTransact, MQuote, Reads, MClose
    <2>2. CASE MClose(c)
      BY <1>0, <2>1, <2>2 DEF MClose, ViewTyped
    <2>3. QED
      BY <1>1, <2>1, <2>2
  <1>4. QED
    BY <1>2, <1>3

LEMMA ServersSendNobody ==
  ASSUME AuthStep \/ QuoteStep \/ PortfolioStep \/ UNCHANGED vars
  PROVE  UNCHANGED <<tcpVars, mVars, cVars>>
  BY DEF AuthStep, AReply, QuoteStep, QQuote, QQuoteAll, QUpdate, PortfolioStep,
     PPosition, PCheck, PRetrieve, PUpdateNew, PUpdateReplace, PUpdateRemove, PAnswer,
     PFallsOff, PReplies, vars, wireVars, tcpVars

(* Nothing waits for a client that has left. *)
GoneDeaf == \A c \in Clients : conn[c] # "open" => m2c[c] = <<>>

LEMMA NextKeepsDeaf ==
  ASSUME Agreed, GoneDeaf, [Next]_vars
  PROVE  GoneDeaf'
  <1>0. ViewTyped
    BY DEF Agreed, DialogueInv
  <1>1. CASE AuthStep \/ QuoteStep \/ PortfolioStep \/ UNCHANGED vars
    BY <1>1, ServersSendNobody DEF GoneDeaf, tcpVars
  <1>2. CASE MainStep \/ \E c \in Clients : ServeStep(c)
    BY <1>2, MainSends DEF GoneDeaf
  <1>3. CASE \E c \in Clients : ClientStep(c)
    BY <1>0, <1>3, ClientHears DEF GoneDeaf
  <1>4. QED
    BY <1>1, <1>2, <1>3 DEF Next

LEMMA GoneHearNothing == Spec => []GoneDeaf
  <1>1. Init => GoneDeaf
    BY DEF Init, WireInit, GoneDeaf
  <1>2. Agreed /\ GoneDeaf /\ [Next]_vars => GoneDeaf'
    BY NextKeepsDeaf
  <1>3. QED
    BY <1>1, <1>2, AgreedInvariant, PTL DEF Spec

----------------------------------------------------------------------------
(* Nobody is forgotten. *)

(* Who does not type ahead is at the prompt while M has yet to read the N.  *)
SaidNo ==
  \A c \in Clients :
    c2m[c] # <<>> /\ Head(c2m[c]).t = "answer" /\ Head(c2m[c]).text = "N" =>
      cpc[c] \in {"prompt", "gone"}

Remembered ==
  \A c \in Clients : cpc[c] \in AtSocket =>
    c2m[c] # <<>> \/ (cur = c /\ mpc # "poll") \/ m2c[c] # <<>>

LEMMA AppendNonEmpty ==
  ASSUME NEW S, NEW s \in Seq(S), NEW m
  PROVE  Append(s, m) # <<>> /\ Head(Append(s, m)) = IF s = <<>> THEN m ELSE Head(s)
  <1>1. Append(s, m) # <<>>
    <2>1. Len(Append(s, m)) = Len(s) + 1 /\ Len(s) \in Nat
      BY AppendFacts, LenProperties
    <2>2. Len(Append(s, m)) # 0 /\ Len(<<>>) = 0
      BY <2>1
    <2>3. QED
      BY <2>2
  <1>2. CASE s = <<>>
    BY <1>1, <1>2, AppendEmpty
  <1>3. CASE s # <<>>
    <2>1. Head(s) = s[1] /\ 1 \in DOMAIN s
      BY <1>3, TailFacts
    <2>2. Append(s, m)[1] = s[1]
      BY <2>1, AppendFacts
    <2>3. QED
      BY <1>1, <1>3, <2>1, <2>2
  <1>4. QED
    BY <1>2, <1>3

LEMMA ClientKeepsSaidNo ==
  ASSUME PacedTyping = TRUE, ServerTypeOK, SaidNo, NEW c \in Clients, ClientStep(c)
  PROVE  SaidNo'
  <1>0. cpc \in [Clients -> AtKeyboard \cup AtSocket \cup {"gone"}]
        /\ c2m[c] \in Seq(ClientMsg)
    BY DEF ServerTypeOK
  <1>1. ASSUME NEW d \in Clients, d # c
        PROVE  UNCHANGED <<c2m[d], cpc[d]>>
    <2>1. c2m'[d] = c2m[d]
      BY <1>1, ClientSends
    <2>2. cpc'[d] = cpc[d]
      BY <1>0, <1>1 DEF ClientStep, ReceiveStep, AnswerStep, CommandStep, CLogin, CAuth,
         CAsk, CShow, CTrade, CValid, COffer, CNoSuchStock, CAnswer, CResult, CLeave,
         Prompt, Goto
    <2>3. QED
      BY <2>1, <2>2
  <1>2. ASSUME c2m'[c] # <<>>, Head(c2m'[c]).t = "answer", Head(c2m'[c]).text = "N"
        PROVE  cpc'[c] \in {"prompt", "gone"}
    <2>1. ASSUME NEW m, c2m' = [c2m EXCEPT ![c] = Append(@, m)]
          PROVE  Head(c2m'[c]) = IF c2m[c] = <<>> THEN m ELSE Head(c2m[c])
      <3>1. c2m'[c] = Append(c2m[c], m)
        BY <2>1 DEF ServerTypeOK
      <3>2. QED
        BY <1>0, <3>1, AppendNonEmpty
    <2>2. CASE CLeave(c)
      BY <1>0, <2>2 DEF CLeave
    <2>3. CASE ReceiveStep(c) /\ ~CNoSuchStock(c)
      <3>1. c2m' = c2m /\ cpc[c] \notin {"prompt", "gone"}
        BY <2>3 DEF ReceiveStep, CAuth, CShow, CValid, COffer, CResult, Receives
      <3>2. QED
        BY <1>2, <3>1 DEF SaidNo
    <2>4. CASE CNoSuchStock(c)
      BY <1>0, <2>4 DEF CNoSuchStock, Prompt, Goto
    <2>5. CASE CLogin(c)
      <3>1. PICK pair : Sends(c, [t |-> "credentials", user |-> pair[1],
                                  password |-> pair[2]])
        BY <2>5 DEF CLogin
      <3>2. PICK m : m = [t |-> "credentials", user |-> pair[1],
                          password |-> pair[2]]
        OBVIOUS
      <3>3. c2m' = [c2m EXCEPT ![c] = Append(@, m)] /\ m.t = "credentials"
        BY <3>1, <3>2 DEF Sends
      <3>4. c2m[c] # <<>> /\ Head(c2m[c]) = Head(c2m'[c])
        BY <1>2, <2>1, <3>3
      <3>5. cpc[c] = "login"
        BY <2>5 DEF CLogin
      <3>6. QED
        BY <1>2, <3>4, <3>5 DEF SaidNo
    <2>5a. CASE AnswerStep(c)
      <3>1. PICK text : CAnswer(c, text)
        BY <2>5a DEF AnswerStep
      <3>2. PICK m : m = Answer(text)
        OBVIOUS
      <3>3. /\ c2m' = [c2m EXCEPT ![c] = Append(@, m)] /\ m.text = text
            /\ cpc[c] = "confirm"
        BY <3>1, <3>2 DEF CAnswer, Sends, Answer
      <3>4. text = "N" => cpc'[c] = "prompt"
        BY <1>0, <3>1 DEF CAnswer, Prompt, Goto
      <3>5. CASE c2m[c] = <<>>
        BY <1>2, <2>1, <3>3, <3>4, <3>5
      <3>6. CASE c2m[c] # <<>>
        <4>1. Head(c2m[c]) = Head(c2m'[c])
          BY <2>1, <3>3, <3>6
        <4>2. QED
          BY <1>2, <3>3, <3>6, <4>1 DEF SaidNo
      <3>7. QED
        BY <3>5, <3>6
    <2>6. CASE (\E m : CAsk(c, m)) \/ \E op, s, n : CTrade(c, op, s, n)
      <3>1. PICK m : c2m[c] = <<>> /\ c2m' = [c2m EXCEPT ![c] = Append(@, m)]
                     /\ m.t # "answer"
        <4>1. CASE \E m : CAsk(c, m)
          BY <4>1 DEF CAsk, AtPrompt, Sends
        <4>2. CASE \E op, s, n : CTrade(c, op, s, n)
          <5>1. PICK op, s, n : CTrade(c, op, s, n)
            BY <4>2
          <5>2. PICK m : m = [t |-> "transact", op |-> op, user |-> member[c],
                              stock |-> s, shares |-> n]
            OBVIOUS
          <5>3. c2m' = [c2m EXCEPT ![c] = Append(@, m)] /\ m.t = "transact"
            BY <5>1, <5>2 DEF CTrade, Sends
          <5>4. c2m[c] = <<>>
            BY <5>1 DEF CTrade, AtPrompt
          <5>5. QED
            BY <5>3, <5>4
        <4>3. QED
          BY <2>6, <4>1, <4>2
      <3>2. QED
        BY <1>2, <2>1, <3>1
    <2>7. QED
      BY <2>2, <2>3, <2>4, <2>5, <2>5a, <2>6 DEF ClientStep, CommandStep
  <1>3. QED
    BY <1>1, <1>2 DEF SaidNo

LEMMA NextKeepsSaidNo ==
  ASSUME PacedTyping = TRUE, Agreed, SaidNo, [Next]_vars
  PROVE  SaidNo'
  <1>0. ServerTypeOK /\ Serving
    BY DEF Agreed, IndexInv
  <1>1. CASE \E c \in Clients : ClientStep(c)
    BY <1>0, <1>1, ClientKeepsSaidNo
  <1>2. CASE ~ \E c \in Clients : ClientStep(c)
    <2>1. UNCHANGED cpc
      BY <1>2 DEF Next, AuthStep, QuoteStep, PortfolioStep, MainStep, ServeStep, cVars,
         vars
    <2>2. \A d \in Clients : c2m'[d] = c2m[d] \/ c2m'[d] = <<>>
      BY <1>0, <1>2, OthersTake
    <2>3. QED
      BY <2>1, <2>2 DEF SaidNo
  <1>3. QED
    BY <1>1, <1>2

LEMMA SaidNoInvariant ==
  ASSUME PacedTyping = TRUE
  PROVE  Spec => []SaidNo
  <1>1. Init => SaidNo
    BY DEF Init, WireInit, SaidNo
  <1>2. Agreed /\ SaidNo /\ [Next]_vars => SaidNo'
    BY NextKeepsSaidNo
  <1>3. QED
    BY <1>1, <1>2, AgreedInvariant, PTL DEF Spec

(* Server P never drops a user's entry.                                     *)
LEMMA OwnersStay ==
  ASSUME [Next]_vars
  PROVE  DOMAIN portfolio \subseteq DOMAIN portfolio'
  <1>1. ASSUME NEW u, NEW held, Store(u, held)
        PROVE  DOMAIN portfolio \subseteq DOMAIN portfolio'
    BY <1>1 DEF Store
  <1>2. QED
    BY <1>1, OnlyUpdatesWrite DEF PUpdateNew, PUpdateReplace, PUpdateRemove

MembersHold == DOMAIN Members \subseteq DOMAIN portfolio

LEMMA MembersHoldInvariant ==
  ASSUME DOMAIN Members \subseteq DOMAIN Portfolios
  PROVE  Spec => []MembersHold
  <1>1. Init => MembersHold
    BY DEF Init, PInit, MembersHold
  <1>2. MembersHold /\ [Next]_vars => MembersHold'
    BY OwnersStay DEF MembersHold
  <1>3. QED
    BY <1>1, <1>2, PTL DEF Spec

(* Whoever has said yes and gets no update is not in Server P's map.        *)
LEMMA BuyerIsUnknown ==
  ASSUME Agreed, MBuyNobody, cpc[cur] # "gone"
  PROVE  /\ mpc = "buy_held" /\ cur \in Clients /\ cpc[cur] = "result"
         /\ member[cur] = req.user /\ Lower[member[cur]] \notin DOMAIN portfolio
  <1>1. mpc = "buy_held" /\ mpc \in Programs /\ toM # <<>> /\ Head(toM).t = "held"
        /\ Head(toM).stock # req.stock
    BY DEF MBuyNobody, Hears, Programs
  <1>2. cur \in Clients /\ Serve(cur)
    BY <1>1, ServedFacts DEF Agreed, DialogueInv, IndexInv, Serving
  <1>3. cpc[cur] = "result" /\ member[cur] = req.user
    BY <1>1, <1>2 DEF Serve, IsOrder
  <1>4. Head(toM) = getStock(Lower[req.user], req.stock)
    BY <1>1, QueuesTyped DEF Agreed, OrderInv, HeldFits
  <1>5. Lower[req.user] \in DOMAIN portfolio =>
          getStock(Lower[req.user], req.stock).stock = req.stock
    BY DEF getStock
  <1>6. QED
    BY <1>1, <1>2, <1>3, <1>4, <1>5

LEMMA BuyerIsKnown ==
  ASSUME Agreed, Authenticated, MembersHold, MBuyNobody
  PROVE  cpc[cur] = "gone"
  BY BuyerIsUnknown DEF Authenticated, MembersHold

(* M says something to a client at every end of its request but three: when *)
(* the client has said no, has no portfolio, or Server P had nothing to say. *)
LEMMA ReturnsTell ==
  ASSUME Agreed, MainStep, mpc' = "poll"
  PROVE  \/ \E m : Deliver(cur, m) /\ mpc \in Programs
         \/ mpc \in {"buy_answer", "sell_answer"} /\ c2m[cur] # <<>>
            /\ Head(c2m[cur]).t = "answer" /\ Head(c2m[cur]).text = "N"
         \/ MBuyNobody
         \/ mpc = "update" /\ 1 \in DOMAIN toM /\ toM[1].t = "nothing"
  <1>1. CASE MAuth \/ MGain \/ MQuoteReply \/ MSellUnknown \/ MSellRefused
    BY <1>1 DEF MAuth, MGain, MQuoteReply, MSellUnknown, MSellRefused, Hears, Programs
  <1>2. CASE MResult
    BY <1>2, QueuesTyped DEF MResult, Hears, Programs
  <1>3. CASE MBuyDenied \/ MSellDenied
    <2>1. mpc \in {"buy_answer", "sell_answer"} /\ AnswerRead = "N"
      BY <1>3 DEF MBuyDenied, MSellDenied, HearsClient
    <2>2. QED
      BY <2>1 DEF AnswerRead
  <1>4. QED
    <2>1. ~(MPortfolio \/ MBuyOffer \/ MBuyApproved \/ MBuyUpdate \/ MBuyThrows
            \/ MSellQuoted \/ MSellChecked \/ MSellPass \/ MSellOffer
            \/ MSellApproved \/ MSigPipe \/ MMisread)
      BY DEF MPortfolio, MBuyOffer, MBuyApproved, MBuyUpdate, MBuyThrows, MSellQuoted,
         MSellChecked, MSellPass, MSellOffer, MSellApproved, MSigPipe, MMisread
    <2>2. QED
      BY <1>1, <1>2, <1>3, <2>1 DEF MainStep

LEMMA GoesOnServing ==
  ASSUME MainStep, mpc' # "poll"
  PROVE  cur' = cur
  BY DEF MainStep, MAuth, MPortfolio, MGain, MQuoteReply, MBuyOffer,
     MBuyDenied, MBuyApproved, MBuyUpdate, MBuyNobody, MBuyThrows, MSellQuoted,
     MSellChecked, MSellUnknown, MSellRefused, MSellPass, MSellOffer, MSellDenied,
     MSellApproved, MResult, MSigPipe, MMisread, Return

LEMMA MainTakesOnly ==
  ASSUME MainStep, ServerTypeOK, NEW d \in Clients, d # cur
  PROVE  c2m'[d] = c2m[d]
  <1>1. UNCHANGED c2m \/ TakeAll(cur)
    BY DEF MainStep, MAuth, MPortfolio, MGain, MQuoteReply, MBuyOffer,
       MBuyDenied, MBuyApproved, MBuyUpdate, MBuyNobody, MBuyThrows, MSellQuoted,
       MSellChecked, MSellUnknown, MSellRefused, MSellPass, MSellOffer, MSellDenied,
       MSellApproved, MResult, MSigPipe, MMisread, HearsClient, tcpVars, wireVars
  <1>2. QED
    BY <1>1 DEF TakeAll, ServerTypeOK

LEMMA MainRemembers ==
  ASSUME Agreed, Authenticated, MembersHold, NeverNothing, SaidNo, Remembered,
         MainStep
  PROVE  Remembered'
  <1>0. ViewTyped /\ ServerTypeOK /\ cpc' = cpc
    BY DEF Agreed, DialogueInv, IndexInv, MainStep, cVars
  <1>1. SUFFICES ASSUME NEW d \in Clients, cpc[d] \in AtSocket
                 PROVE  \/ c2m'[d] # <<>> \/ m2c'[d] # <<>>
                        \/ cur' = d /\ mpc' # "poll"
    BY <1>0 DEF Remembered
  <1>2. CASE d # cur
    <2>1. c2m'[d] = c2m[d] /\ m2c'[d] = m2c[d]
      BY <1>0, <1>2, MainTakesOnly, MainSends
    <2>2. QED
      BY <1>1, <1>2, <2>1 DEF Remembered
  <1>3. CASE d = cur /\ mpc' # "poll"
    BY <1>3, GoesOnServing
  <1>4. CASE d = cur /\ mpc' = "poll"
    <2>1. cpc[cur] # "gone" /\ cpc[cur] # "prompt"
      BY <1>1, <1>4 DEF AtSocket
    <2>2. ~MBuyNobody
      BY <2>1, BuyerIsKnown
    <2>3. ~ (c2m[cur] # <<>> /\ Head(c2m[cur]).t = "answer" /\ Head(c2m[cur]).text = "N")
      BY <1>4, <2>1 DEF SaidNo
    <2>4. PICK m : Deliver(cur, m) /\ mpc \in Programs
      <3>1. ~(1 \in DOMAIN toM /\ toM[1].t = "nothing")
        BY DEF NeverNothing
      <3>2. QED
        BY <1>4, <2>2, <2>3, <3>1, ReturnsTell
    <2>5. conn[cur] = "open"
      BY <2>1, <2>4, ServedFacts DEF Agreed, DialogueInv
    <2>6. m2c'[cur] = Append(m2c[cur], m) /\ m2c[cur] \in Seq(ToClient)
      BY <1>0, <1>4, <2>4, <2>5, DeliverFacts DEF ViewTyped
    <2>7. QED
      BY <1>4, <2>6, AppendNonEmpty
  <1>5. QED
    BY <1>2, <1>3, <1>4

LEMMA ServeRemembers ==
  ASSUME ServerTypeOK, Remembered, NEW c \in Clients, ServeStep(c)
  PROVE  Remembered'
  <1>1. UNCHANGED <<m2c, cpc>> /\ mpc = "poll"
    BY DEF ServeStep, MLogin, MPosition, MTransact, MQuote, MClose, Reads, cVars
  <1>2. CASE MClose(c)
    BY <1>1, <1>2 DEF MClose, mVars, Remembered
  <1>3. CASE ~MClose(c)
    <2>1. cur' = c /\ mpc' # "poll" /\ TakeAll(c)
      BY <1>3 DEF ServeStep, MLogin, MPosition, MTransact, MQuote, Reads
    <2>2. \A d \in Clients : d # c => c2m'[d] = c2m[d]
      BY <2>1 DEF TakeAll, ServerTypeOK
    <2>3. QED
      BY <1>1, <2>1, <2>2 DEF Remembered
  <1>4. QED
    BY <1>2, <1>3

LEMMA ClientRemembers ==
  ASSUME Agreed, Remembered, NEW c \in Clients, ClientStep(c)
  PROVE  Remembered'
  <1>0. /\ ServerTypeOK /\ Talk /\ UNCHANGED mVars
        /\ cpc \in [Clients -> AtKeyboard \cup AtSocket \cup {"gone"}]
        /\ c2m \in [Clients -> Seq(ClientMsg)]
    BY DEF Agreed, DialogueInv, IndexInv, ServerTypeOK, ClientStep, ReceiveStep,
       AnswerStep, CommandStep
  <1>1. ASSUME NEW d \in Clients, d # c, cpc'[d] \in AtSocket
        PROVE  c2m'[d] # <<>> \/ (cur' = d /\ mpc' # "poll") \/ m2c'[d] # <<>>
    <2>1. c2m'[d] = c2m[d] /\ m2c'[d] = m2c[d]
      BY <1>0, <1>1, ClientSends, ClientHears DEF Agreed, DialogueInv
    <2>2. cpc'[d] = cpc[d]
      BY <1>0, <1>1 DEF ClientStep, ReceiveStep, AnswerStep, CommandStep, CLogin, CAuth,
         CAsk, CShow, CTrade, CValid, COffer, CNoSuchStock, CAnswer, CResult, CLeave,
         Prompt, Goto
    <2>3. QED
      BY <1>0, <1>1, <2>1, <2>2 DEF Remembered, mVars
  <1>2. ASSUME cpc'[c] \in AtSocket
        PROVE  c2m'[c] # <<>> \/ (cur' = c /\ mpc' # "poll") \/ m2c'[c] # <<>>
    <2>1. ASSUME NEW m, Sends(c, m)
          PROVE  c2m'[c] # <<>>
      <3>1. c2m'[c] = Append(c2m[c], m) /\ c2m[c] \in Seq(ClientMsg)
        BY <1>0, <2>1 DEF Sends
      <3>2. QED
        BY <3>1, AppendNonEmpty
    <2>2. CASE CLogin(c) \/ AnswerStep(c) \/ (\E m : CAsk(c, m))
               \/ \E op, s, n : CTrade(c, op, s, n)
      BY <2>1, <2>2 DEF CLogin, AnswerStep, CAnswer, CAsk, CTrade
    <2>3. CASE CValid(c)
      <3>1. ~Prompt(c)
        BY <1>0, <1>2 DEF Prompt, Goto, AtSocket
      <3>2. /\ cpc[c] = "valid" /\ m2c[c] # <<>>
            /\ ~(Len(m2c[c]) = 1 /\ Head(m2c[c]).text \in {"FAIL", "stock_FAIL"})
        BY <2>3, <3>1 DEF CValid, Receives
      <3>3. Served(c)
        BY <1>0, <3>2, Arrived DEF Talk, Replies
      <3>4. QED
        BY <1>0, <3>3 DEF Served, Programs, mVars
    <2>4. CASE CAuth(c) \/ CShow(c) \/ COffer(c) \/ CNoSuchStock(c) \/ CResult(c)
               \/ CLeave(c)
      BY <1>0, <1>2, <2>4 DEF CAuth, CShow, COffer, CNoSuchStock, CResult, CLeave,
         Prompt, Goto, AtSocket
    <2>5. QED
      BY <2>2, <2>3, <2>4 DEF ClientStep, ReceiveStep, CommandStep
  <1>3. QED
    BY <1>1, <1>2 DEF Remembered

LEMMA NextRemembers ==
  ASSUME Agreed, Authenticated, MembersHold, NeverNothing, SaidNo, Remembered,
         [Next]_vars
  PROVE  Remembered'
  <1>1. CASE AuthStep \/ QuoteStep \/ PortfolioStep \/ UNCHANGED vars
    BY <1>1, ServersSendNobody DEF Remembered, tcpVars, mVars, cVars
  <1>2. CASE MainStep
    BY <1>2, MainRemembers
  <1>3. CASE \E c \in Clients : ServeStep(c) \/ ClientStep(c)
    BY <1>3, ServeRemembers, ClientRemembers DEF Agreed, IndexInv
  <1>4. QED
    BY <1>1, <1>2, <1>3 DEF Next

(* What has arrived at a client is of the kind it waits for.                *)
LEMMA ArrivedFits ==
  ASSUME Agreed, GoneDeaf, NEW c \in Clients, m2c[c] # <<>>
  PROVE  /\ cpc[c] \in AtSocket
         /\ cpc[c] = "auth"   => Head(m2c[c]).t = "credentials"
         /\ cpc[c] = "show"   => Head(m2c[c]).t \in {"quote", "quoteall", "gain"}
         /\ cpc[c] = "valid"  => Head(m2c[c]).t = "verdict"
         /\ cpc[c] = "offer"  => Head(m2c[c]).t = "quote"
         /\ cpc[c] = "result" => Head(m2c[c]).t = "result"
  <1>1. cpc[c] # "gone" /\ TalkOf(c) /\ ServerTypeOK
    BY DEF GoneDeaf, Agreed, DialogueInv, Talk, TalkOf, IndexInv
  <1>2. CASE Served(c)
    BY <1>1, <1>2, Arrived DEF AtSocket, Verdict
  <1>3. CASE ~Served(c)
    <2>1. Replies(c, Head(m2c[c]))
      BY <1>1, <1>3, Arrived
    <2>2. QED
      BY <2>1 DEF Replies, AtSocket
  <1>4. QED
    BY <1>2, <1>3

(* Nobody who waits for Server M is forgotten, and what reaches a client is *)
(* what it is about to parse, as long as people wait for M to read a line   *)
(* before they type the next, order some shares, and everybody with a       *)
(* password has a portfolio.  Each condition is needed: M reads two lines   *)
(* as one, has nothing to say of an order for no shares (updateStock's ""), *)
(* and drops the order of a user without portfolio (operationType).         *)
THEOREM NobodyIsForgotten ==
  ASSUME PacedTyping = TRUE, 0 \notin Shares,
         DOMAIN Members \subseteq DOMAIN Portfolios
  PROVE  Spec => []NobodyForgotten
  <1>1. Init => Remembered
    BY DEF Init, CInit, Remembered, AtSocket
  <1>2. /\ Agreed /\ Authenticated /\ MembersHold /\ NeverNothing /\ SaidNo
        /\ Remembered /\ [Next]_vars
        => Remembered'
    BY NextRemembers
  <1>3. ASSUME Agreed, GoneDeaf, Remembered
        PROVE  NobodyForgotten
    <2>1. \A c \in Clients : cpc[c] \in AtSocket =>
            c2m[c] # <<>> \/ cur = c \/ m2c[c] # <<>>
      BY <1>3 DEF Remembered
    <2>2. ASSUME NEW c \in Clients, m2c[c] # <<>>
          PROVE  Head(m2c[c]).t \in
                   CASE cpc[c] = "auth"   -> {"credentials"}
                     [] cpc[c] = "show"   -> {"quote", "quoteall", "gain"}
                     [] cpc[c] = "valid"  -> {"verdict"}
                     [] cpc[c] = "offer"  -> {"quote"}
                     [] cpc[c] = "result" -> {"result"}
                     [] OTHER             -> {}
      BY <1>3, <2>2, ArrivedFits DEF AtSocket
    <2>3. QED
      BY <2>1, <2>2 DEF NobodyForgotten
  <1>4. QED
    BY <1>1, <1>2, <1>3, AgreedInvariant, GoneHearNothing, MembersAreAuthenticated,
       MembersHoldInvariant, NothingIsNeverSaid, SaidNoInvariant, PTL DEF Spec

(* Whatever is typed: a client whose last word M has yet to read is N has   *)
(* gone on to the prompt.                                                   *)
JustSaidNo ==
  \A c \in Clients :
    Len(c2m[c]) = 1 /\ Head(c2m[c]).t = "answer" /\ Head(c2m[c]).text = "N" =>
      cpc[c] \in {"prompt", "gone"}

LEMMA OneAppended ==
  ASSUME NEW S, NEW s \in Seq(S), NEW m, Len(Append(s, m)) = 1
  PROVE  s = <<>> /\ Head(Append(s, m)) = m
  <1>1. Len(Append(s, m)) = Len(s) + 1 /\ Len(s) \in Nat
    BY AppendFacts, LenProperties
  <1>2. s = <<>>
    BY <1>1, EmptySeq
  <1>3. QED
    BY <1>2, AppendEmpty

LEMMA ClientKeepsJustSaidNo ==
  ASSUME ServerTypeOK, JustSaidNo, NEW c \in Clients, ClientStep(c)
  PROVE  JustSaidNo'
  <1>0. cpc \in [Clients -> AtKeyboard \cup AtSocket \cup {"gone"}]
        /\ c2m[c] \in Seq(ClientMsg)
    BY DEF ServerTypeOK
  <1>1. ASSUME NEW d \in Clients, d # c
        PROVE  UNCHANGED <<c2m[d], cpc[d]>>
    <2>1. c2m'[d] = c2m[d]
      BY <1>1, ClientSends
    <2>2. cpc'[d] = cpc[d]
      BY <1>0, <1>1 DEF ClientStep, ReceiveStep, AnswerStep, CommandStep, CLogin, CAuth,
         CAsk, CShow, CTrade, CValid, COffer, CNoSuchStock, CAnswer, CResult, CLeave,
         Prompt, Goto
    <2>3. QED
      BY <2>1, <2>2
  <1>2. ASSUME Len(c2m'[c]) = 1, Head(c2m'[c]).t = "answer", Head(c2m'[c]).text = "N"
        PROVE  cpc'[c] \in {"prompt", "gone"}
    <2>1. ASSUME NEW m, c2m' = [c2m EXCEPT ![c] = Append(@, m)]
          PROVE  Head(c2m'[c]) = m
      <3>1. c2m'[c] = Append(c2m[c], m)
        BY <2>1 DEF ServerTypeOK
      <3>2. QED
        BY <1>0, <1>2, <3>1, OneAppended
    <2>2. CASE CLeave(c) \/ CNoSuchStock(c)
      BY <1>0, <2>2 DEF CLeave, CNoSuchStock, Prompt, Goto
    <2>3. CASE ReceiveStep(c) /\ ~CNoSuchStock(c)
      <3>1. c2m' = c2m /\ cpc[c] \notin {"prompt", "gone"}
        BY <2>3 DEF ReceiveStep, CAuth, CShow, CValid, COffer, CResult, Receives
      <3>2. QED
        BY <1>2, <3>1 DEF JustSaidNo
    <2>4. CASE CLogin(c) \/ (\E m : CAsk(c, m)) \/ \E op, s, n : CTrade(c, op, s, n)
      <3>1. PICK m : c2m' = [c2m EXCEPT ![c] = Append(@, m)] /\ m.t # "answer"
        <4>1. CASE CLogin(c)
          <5>1. PICK pair : Sends(c, [t |-> "credentials", user |-> pair[1],
                                      password |-> pair[2]])
            BY <4>1 DEF CLogin
          <5>2. PICK m : m = [t |-> "credentials", user |-> pair[1],
                              password |-> pair[2]]
            OBVIOUS
          <5>3. c2m' = [c2m EXCEPT ![c] = Append(@, m)] /\ m.t = "credentials"
            BY <5>1, <5>2 DEF Sends
          <5>4. QED
            BY <5>3
        <4>2. CASE \E m : CAsk(c, m)
          BY <4>2 DEF CAsk, Sends
        <4>3. CASE \E op, s, n : CTrade(c, op, s, n)
          <5>1. PICK op, s, n : CTrade(c, op, s, n)
            BY <4>3
          <5>2. PICK m : m = [t |-> "transact", op |-> op, user |-> member[c],
                              stock |-> s, shares |-> n]
            OBVIOUS
          <5>3. c2m' = [c2m EXCEPT ![c] = Append(@, m)] /\ m.t = "transact"
            BY <5>1, <5>2 DEF CTrade, Sends
          <5>4. QED
            BY <5>3
        <4>4. QED
          BY <2>4, <4>1, <4>2, <4>3
      <3>2. QED
        BY <1>2, <2>1, <3>1
    <2>5. CASE AnswerStep(c)
      <3>1. PICK text : CAnswer(c, text)
        BY <2>5 DEF AnswerStep
      <3>2. PICK m : m = Answer(text)
        OBVIOUS
      <3>3. c2m' = [c2m EXCEPT ![c] = Append(@, m)] /\ m.text = text
        BY <3>1, <3>2 DEF CAnswer, Sends, Answer
      <3>4. text = "N"
        BY <1>2, <2>1, <3>3
      <3>5. QED
        BY <1>0, <3>1, <3>4 DEF CAnswer, Prompt, Goto
    <2>6. QED
      BY <2>2, <2>3, <2>4, <2>5 DEF ClientStep, CommandStep
  <1>3. QED
    BY <1>1, <1>2 DEF JustSaidNo

LEMMA NextKeepsJustSaidNo ==
  ASSUME Agreed, JustSaidNo, [Next]_vars
  PROVE  JustSaidNo'
  <1>0. ServerTypeOK /\ Serving
    BY DEF Agreed, IndexInv
  <1>1. CASE \E c \in Clients : ClientStep(c)
    BY <1>0, <1>1, ClientKeepsJustSaidNo
  <1>2. CASE ~ \E c \in Clients : ClientStep(c)
    <2>1. UNCHANGED cpc
      BY <1>2 DEF Next, AuthStep, QuoteStep, PortfolioStep, MainStep, ServeStep, cVars,
         vars
    <2>2. \A d \in Clients : c2m'[d] = c2m[d] \/ c2m'[d] = <<>>
      BY <1>0, <1>2, OthersTake
    <2>3. Len(<<>>) # 1
      OBVIOUS
    <2>4. QED
      BY <2>1, <2>2, <2>3 DEF JustSaidNo
  <1>3. QED
    BY <1>1, <1>2

LEMMA JustSaidNoInvariant == Spec => []JustSaidNo
  <1>1. Init => JustSaidNo
    BY DEF Init, WireInit, JustSaidNo
  <1>2. Agreed /\ JustSaidNo /\ [Next]_vars => JustSaidNo'
    BY NextKeepsJustSaidNo
  <1>3. QED
    BY <1>1, <1>2, AgreedInvariant, PTL DEF Spec

LEMMA MainRuns ==
  ASSUME MainStep
  PROVE  mpc \in Programs /\ mpc \notin Lost /\ cpc' = cpc
  BY DEF MainStep, MAuth, MPortfolio, MGain, MQuoteReply, MBuyOffer,
     MBuyDenied, MBuyApproved, MBuyUpdate, MBuyNobody, MBuyThrows, MSellQuoted,
     MSellChecked, MSellUnknown, MSellRefused, MSellPass, MSellOffer, MSellDenied,
     MSellApproved, MResult, MSigPipe, MMisread, AtSend, Hears, HearsClient, Programs,
     Lost, cVars

(* M comes to wait for an answer by sending its client the question.        *)
LEMMA AsksFirst ==
  ASSUME MainStep, mpc' \in {"buy_answer", "sell_answer"}
  PROVE  \E m : Deliver(cur, m)
  BY DEF MainStep, MAuth, MPortfolio, MGain, MQuoteReply, MBuyOffer,
     MBuyDenied, MBuyApproved, MBuyUpdate, MBuyNobody, MBuyThrows, MSellQuoted,
     MSellChecked, MSellUnknown, MSellRefused, MSellPass, MSellOffer, MSellDenied,
     MSellApproved, MResult, MSigPipe, MMisread, Return

LEMMA MainLoses ==
  ASSUME Agreed, NothingOfNone, JustSaidNo, MainStep, NEW d \in Clients,
         ~NothingComes(d), NothingComes(d)'
  PROVE  MayLose(d)
  <1>0. /\ ViewTyped /\ ServerTypeOK /\ cpc' = cpc
        /\ mpc \in Programs /\ mpc \notin Lost
    BY MainRuns DEF Agreed, DialogueInv, IndexInv
  <1>1. /\ cpc[d] \in AtSocket /\ cpc[d] \notin {"gone", "prompt"}
        /\ c2m'[d] = <<>> /\ m2c'[d] = <<>> /\ mpc' \notin Lost
        /\ cur' = d => mpc' \in {"poll", "buy_answer", "sell_answer"}
    BY <1>0 DEF NothingComes, AtSocket
  <1>2. CASE d # cur
    <2>1. c2m'[d] = c2m[d] /\ m2c'[d] = m2c[d]
      BY <1>0, <1>2, MainTakesOnly, MainSends
    <2>2. QED
      BY <1>0, <1>1, <1>2, <2>1 DEF NothingComes
  <1>3. ASSUME d = cur, NEW m, Deliver(cur, m)
        PROVE  FALSE
    <2>1. conn[cur] = "open"
      BY <1>0, <1>1, <1>3, ServedFacts DEF Agreed, DialogueInv
    <2>2. m2c'[cur] = Append(m2c[cur], m) /\ m2c[cur] \in Seq(ToClient)
      BY <1>0, <1>3, <2>1, DeliverFacts DEF ViewTyped
    <2>3. QED
      BY <1>1, <1>3, <2>2, AppendNonEmpty
  <1>4. CASE d = cur /\ mpc' # "poll"
    <2>1. mpc' \in {"buy_answer", "sell_answer"}
      BY <1>1, <1>4, GoesOnServing
    <2>2. QED
      BY <1>3, <1>4, <2>1, AsksFirst
  <1>5. CASE d = cur /\ mpc' = "poll"
    <2>1. CASE mpc \in {"buy_answer", "sell_answer"} /\ c2m[cur] # <<>>
               /\ Head(c2m[cur]).t = "answer" /\ Head(c2m[cur]).text = "N"
      <3>1. Len(c2m[d]) # 1
        BY <1>1, <1>5, <2>1 DEF JustSaidNo
      <3>2. c2m[d] \in Seq(ClientMsg) /\ c2m[d] # <<>>
        BY <1>0, <1>5, <2>1 DEF ServerTypeOK
      <3>3. Len(c2m[d]) \in Nat /\ Len(c2m[d]) # 0
        BY <3>2, LenProperties, EmptySeq
      <3>4. Len(c2m[d]) > 1
        <4>1. \A n \in Nat : n # 0 /\ n # 1 => n > 1
          OBVIOUS
        <4>2. QED
          BY <3>1, <3>3, <4>1
      <3>5. QED
        BY <1>5, <2>1, <3>4 DEF MayLose
    <2>2. CASE MBuyNobody
      BY <1>1, <1>5, <2>2, BuyerIsUnknown DEF MayLose
    <2>3. CASE mpc = "update" /\ 1 \in DOMAIN toM /\ toM[1].t = "nothing"
      <3>1. req.shares = 0
        BY <2>3 DEF NothingOfNone
      <3>2. IsOrder(d, req)
        BY <1>0, <1>1, <1>5, <2>3, ServedFacts DEF Agreed, DialogueInv, Serve
      <3>3. QED
        BY <1>5, <2>3, <3>1, <3>2 DEF MayLose, IsOrder
    <2>4. QED
      BY <1>3, <1>5, <2>1, <2>2, <2>3, ReturnsTell
  <1>6. QED
    BY <1>2, <1>4, <1>5

LEMMA ServeLoses ==
  ASSUME ServerTypeOK, NEW c \in Clients, ServeStep(c), NEW d \in Clients,
         NothingComes(d)'
  PROVE  NothingComes(d)
  <1>1. UNCHANGED <<m2c, cpc>> /\ mpc = "poll"
    BY DEF ServeStep, MLogin, MPosition, MTransact, MQuote, MClose, Reads, cVars
  <1>2. CASE MClose(c)
    BY <1>1, <1>2 DEF MClose, mVars, NothingComes
  <1>3. CASE ~MClose(c)
    <2>1. cur' = c /\ TakeAll(c) /\ mpc' \in {"auth", "portfolio", "quote", "offer"}
      BY <1>3 DEF ServeStep, MLogin, MPosition, MTransact, MQuote, Reads
    <2>2. d # c
      BY <2>1 DEF NothingComes
    <2>3. c2m'[d] = c2m[d]
      BY <2>1, <2>2 DEF TakeAll, ServerTypeOK
    <2>4. QED
      BY <1>1, <2>3 DEF NothingComes, Lost
  <1>4. QED
    BY <1>2, <1>3

LEMMA ClientLoses ==
  ASSUME Agreed, NEW c \in Clients, ClientStep(c), NEW d \in Clients,
         ~NothingComes(d), NothingComes(d)'
  PROVE  MayLose(d)
  <1>0. /\ ServerTypeOK /\ Talk /\ UNCHANGED mVars
        /\ cpc \in [Clients -> AtKeyboard \cup AtSocket \cup {"gone"}]
        /\ c2m \in [Clients -> Seq(ClientMsg)]
    BY DEF Agreed, DialogueInv, IndexInv, ServerTypeOK, ClientStep, ReceiveStep,
       AnswerStep, CommandStep
  <1>1. /\ cpc'[d] \in AtSocket /\ c2m'[d] = <<>> /\ m2c'[d] = <<>>
        /\ mpc \notin Lost
        /\ cur = d => mpc \in {"poll", "buy_answer", "sell_answer"}
    BY <1>0 DEF NothingComes, mVars
  <1>2. CASE d # c
    <2>1. c2m'[d] = c2m[d] /\ m2c'[d] = m2c[d]
      BY <1>0, <1>2, ClientSends, ClientHears DEF Agreed, DialogueInv
    <2>2. cpc'[d] = cpc[d]
      BY <1>0, <1>2 DEF ClientStep, ReceiveStep, AnswerStep, CommandStep, CLogin, CAuth,
         CAsk, CShow, CTrade, CValid, COffer, CNoSuchStock, CAnswer, CResult, CLeave,
         Prompt, Goto
    <2>3. QED
      BY <1>1, <2>1, <2>2 DEF NothingComes
  <1>3. CASE d = c
    <2>1. ASSUME NEW m, Sends(c, m)
          PROVE  FALSE
      <3>1. c2m'[c] = Append(c2m[c], m) /\ c2m[c] \in Seq(ClientMsg)
        BY <1>0, <2>1 DEF Sends
      <3>2. QED
        BY <1>1, <1>3, <3>1, AppendNonEmpty
    <2>2. ~(CLogin(c) \/ AnswerStep(c) \/ (\E m : CAsk(c, m))
            \/ \E op, s, n : CTrade(c, op, s, n))
      BY <2>1 DEF CLogin, AnswerStep, CAnswer, CAsk, CTrade
    <2>3. ~(CAuth(c) \/ CShow(c) \/ COffer(c) \/ CNoSuchStock(c) \/ CResult(c)
            \/ CLeave(c))
      BY <1>0, <1>1, <1>3 DEF CAuth, CShow, COffer, CNoSuchStock, CResult, CLeave,
         Prompt, Goto, AtSocket
    <2>4. CValid(c)
      BY <2>2, <2>3 DEF ClientStep, ReceiveStep, CommandStep
    <2>5. ~Prompt(c)
      BY <1>0, <1>1, <1>3 DEF Prompt, Goto, AtSocket
    <2>6. /\ cpc[c] = "valid" /\ m2c[c] # <<>>
          /\ ~(Len(m2c[c]) = 1 /\ Head(m2c[c]).text \in {"FAIL", "stock_FAIL"})
      BY <2>4, <2>5 DEF CValid, Receives
    <2>7. Served(c) /\ mpc = "sell_answer"
      <3>1. Served(c)
        BY <1>0, <2>6, Arrived DEF Talk, Replies
      <3>2. mpc \in {"sell_sleep", "sell_answer"}
        BY <1>0, <2>6, <3>1, Arrived DEF Talk
      <3>3. QED
        BY <1>1, <1>3, <3>1, <3>2 DEF Served
    <2>8. Serve(c)
      BY <1>0, <2>6, <2>7 DEF Talk, TalkOf
    <2>9. Len(m2c[c]) = 2
      BY <2>6, <2>7, <2>8 DEF Serve, Declined, Deciding, Passed
    <2>10. QED
      BY <1>3, <2>6, <2>9 DEF MayLose
  <1>4. QED
    BY <1>2, <1>3

(* NobodyIsLostBut, for any clients, whatever they type and whenever they   *)
(* leave, however slow they read, and any members and portfolios: the four  *)
(* ways it names are all there are (operationType, parseTransact).          *)
THEOREM NobodyIsLost == Spec => NobodyIsLostBut
  <1>1. ASSUME Agreed, NothingOfNone, JustSaidNo, [Next]_vars, NEW d \in Clients,
               ~NothingComes(d), NothingComes(d)'
        PROVE  MayLose(d)
    <2>1. CASE AuthStep \/ QuoteStep \/ PortfolioStep \/ UNCHANGED vars
      <3>1. UNCHANGED <<tcpVars, mVars, cVars>>
        BY <2>1, ServersSendNobody
      <3>2. NothingComes(d)' <=> NothingComes(d)
        BY <3>1 DEF NothingComes, tcpVars, mVars, cVars
      <3>3. QED
        BY <1>1, <3>2
    <2>2. CASE MainStep
      BY <1>1, <2>2, MainLoses
    <2>3. CASE \E c \in Clients : ServeStep(c) \/ ClientStep(c)
      BY <1>1, <2>3, ServeLoses, ClientLoses DEF Agreed, IndexInv
    <2>4. QED
      BY <1>1, <2>1, <2>2, <2>3 DEF Next
  <1>2. Agreed /\ NothingOfNone /\ JustSaidNo /\ [Next]_vars =>
          \A c \in Clients : ~NothingComes(c) /\ NothingComes(c)' => MayLose(c)
    BY <1>1
  <1>3. QED
    BY <1>2, AgreedInvariant, NothingIsOfNone, JustSaidNoInvariant, PTL
       DEF Spec, NobodyIsLostBut

----------------------------------------------------------------------------
(* Whose order is being carried out has sent nothing else. *)

TakenAll ==
  mpc \in {"buy_held", "update"} \/ UpdateAtP =>
    /\ cur \in Clients
    /\ c2m[cur] = <<>> /\ m2c[cur] = <<>> /\ cpc[cur] \in {"result", "gone"}

LEMMA OthersView ==
  ASSUME Agreed, NEW c \in Clients, ClientStep(c), NEW d \in Clients, d # c
  PROVE  SameView(d)
  <1>0. ServerTypeOK /\ ViewTyped
    BY DEF Agreed, IndexInv, DialogueInv
  <1>1. c2m'[d] = c2m[d] /\ m2c'[d] = m2c[d] /\ conn'[d] = conn[d]
    BY <1>0, ClientSends, ClientHears
  <1>2. UNCHANGED <<cpc[d], member[d], order[d], seen[d]>>
    BY <1>0 DEF ServerTypeOK, ViewTyped, ClientStep, ReceiveStep, AnswerStep,
       CommandStep, CLogin, CAuth, CAsk, CShow, CTrade, CValid, COffer, CNoSuchStock,
       CAnswer, CResult, CLeave, Prompt, Goto
  <1>3. QED
    BY <1>1, <1>2 DEF SameView

(* An update is on its way after an approval, or was before. *)
LEMMA UpdateComes ==
  ASSUME Agreed, Agreed', [Next]_vars, UpdateAtP'
  PROVE  UpdateAtP \/ MBuyUpdate \/ MSellApproved
  <1>1. mpc' \in {"update"} \cup Lost
    BY UpdateThere
  <1>2. CASE toP' = <<>>
    BY <1>2 DEF UpdateAtP
  <1>3. CASE toP' = toP \/ (toP # <<>> /\ toP' = Tail(toP))
    <2>1. toP \in Seq(ToP)
      BY QueuesTyped
    <2>2. \A i \in DOMAIN toP' : \E j \in DOMAIN toP : toP[j] = toP'[i]
      BY <1>3, <2>1, TailIn
    <2>3. QED
      BY <2>2 DEF UpdateAtP
  <1>4. QED
    BY <1>1, <1>2, <1>3, UpdateUnderWay DEF Agreed

LEMMA ApprovedTakesAll ==
  ASSUME Agreed, GoneDeaf', Agreed', MBuyApproved \/ MSellApproved, UNCHANGED cVars
  PROVE  TakenAll'
  <1>1. /\ cur \in Clients /\ cur' = cur /\ TakeAll(cur)
        /\ mpc' \in {"buy_held", "update"} /\ mpc' \in Programs
    BY DEF MBuyApproved, MSellApproved, HearsClient, Programs, Agreed, IndexInv, Serving
  <1>2. c2m'[cur] = <<>>
    BY <1>1, TakeAllFacts DEF Agreed, IndexInv, DialogueInv
  <1>3. CASE cpc'[cur] = "gone"
    <2>1. conn'[cur] # "open"
      BY <1>1, <1>3 DEF Agreed, DialogueInv, Talk, TalkOf
    <2>2. QED
      BY <1>1, <1>2, <1>3, <2>1 DEF TakenAll, GoneDeaf
  <1>4. CASE cpc'[cur] # "gone"
    <2>1. Served(cur)'
      BY <1>1 DEF Served
    <2>2. Serve(cur)'
      BY <1>1, <1>4, <2>1 DEF Agreed, DialogueInv, Talk, TalkOf
    <2>3. QED
      BY <1>1, <2>2 DEF Serve, Quiet, TakenAll
  <1>5. QED
    BY <1>3, <1>4

LEMMA ClientStaysTaken ==
  ASSUME Agreed, TakenAll, NEW c \in Clients, ClientStep(c)
  PROVE  TakenAll'
  <1>0. UNCHANGED <<mVars, toP>> /\ ServerTypeOK /\ ViewTyped
    BY ClientsLeaveUdp DEF Agreed, IndexInv, DialogueInv, ClientStep, ReceiveStep,
       AnswerStep, CommandStep, udpVars
  <1>1. SUFFICES ASSUME mpc \in {"buy_held", "update"} \/ UpdateAtP
                 PROVE  /\ cur \in Clients /\ c2m'[cur] = <<>> /\ m2c'[cur] = <<>>
                        /\ cpc'[cur] \in {"result", "gone"}
    BY <1>0 DEF TakenAll, UpdateAtP, mVars
  <1>2. /\ cur \in Clients /\ c2m[cur] = <<>> /\ m2c[cur] = <<>>
        /\ cpc[cur] \in {"result", "gone"}
    BY <1>1 DEF TakenAll
  <1>3. CASE cur # c
    <2>1. PICK d \in Clients : d = cur
      BY <1>2
    <2>2. SameView(d)
      BY <1>3, <2>1, OthersView
    <2>3. QED
      BY <1>2, <2>1, <2>2 DEF SameView
  <1>4. CASE cur = c
    <2>1. CLeave(c)
      BY <1>2, <1>4 DEF ClientStep, ReceiveStep, AnswerStep, CommandStep, AtPrompt,
         CLogin, CAuth, CAsk, CShow, CTrade, CValid, COffer, CNoSuchStock, CAnswer,
         CResult, Receives
    <2>2. c2m' = c2m /\ m2c'[c] = <<>> /\ cpc'[c] = "gone"
      BY <1>0, <2>1 DEF CLeave, HangUp, ServerTypeOK, ViewTyped
    <2>3. QED
      BY <1>2, <1>4, <2>2
  <1>5. QED
    BY <1>3, <1>4

LEMMA NextTakesAll ==
  ASSUME Agreed, TakenAll, Agreed', GoneDeaf', [Next]_vars
  PROVE  TakenAll'
  <1>1. CASE AuthStep \/ QuoteStep \/ PortfolioStep \/ UNCHANGED vars
    <2>1. UNCHANGED <<tcpVars, mVars, cVars>>
      BY <1>1, ServersSendNobody
    <2>2. UpdateAtP' => UpdateAtP
      <3>1. ~MBuyUpdate /\ ~MSellApproved
        BY <2>1 DEF MBuyUpdate, MSellApproved, Hears, HearsClient, mVars
      <3>2. QED
        BY <3>1, UpdateComes
    <2>3. QED
      BY <2>1, <2>2 DEF TakenAll, tcpVars, mVars, cVars
  <1>2. CASE MainStep
    <2>1. CASE MBuyApproved \/ MSellApproved
      BY <1>2, <2>1, ApprovedTakesAll DEF MainStep
    <2>2. CASE MBuyUpdate \/ MBuyThrows \/ MSigPipe \/ MMisread
      <3>1. UNCHANGED <<tcpVars, cVars, cur>>
        BY <1>2, <2>2 DEF MainStep, MBuyUpdate, MBuyThrows, MSigPipe, MMisread,
           wireVars, tcpVars
      <3>2. mpc' \in {"buy_held", "update"} => mpc = "buy_held"
        BY <2>2 DEF MBuyUpdate, MBuyThrows, MSigPipe, MMisread, Hears
      <3>3. UpdateAtP' => UpdateAtP \/ mpc = "buy_held"
        BY <2>2, UpdateComes DEF MBuyUpdate, Hears, MBuyThrows, MSigPipe, MMisread,
           MSellApproved
      <3>4. QED
        BY <3>1, <3>2, <3>3 DEF TakenAll, tcpVars, cVars
    <2>3. CASE ~(MBuyApproved \/ MSellApproved \/ MBuyUpdate \/ MBuyThrows
                 \/ MSigPipe \/ MMisread)
      <3>1. mpc' \notin {"buy_held", "update"} \cup Lost
        BY <1>2, <2>3 DEF MainStep, MAuth, MPortfolio, MGain, MQuoteReply, MBuyOffer,
           MBuyDenied, MBuyNobody, MSellQuoted, MSellChecked, MSellUnknown,
           MSellRefused, MSellPass, MSellOffer, MSellDenied, MResult, Return, Lost
      <3>2. ~UpdateAtP'
        BY <3>1, UpdateThere
      <3>3. QED
        BY <3>1, <3>2 DEF TakenAll
    <2>4. QED
      BY <2>1, <2>2, <2>3
  <1>3. ASSUME NEW c \in Clients, ServeStep(c)
        PROVE  TakenAll'
    <2>1. mpc' \notin {"buy_held", "update"} \cup Lost
      BY <1>3 DEF ServeStep, MLogin, MPosition, MTransact, MQuote, MClose, mVars, Reads,
         Lost
    <2>2. ~UpdateAtP'
      BY <2>1, UpdateThere
    <2>3. QED
      BY <2>1, <2>2 DEF TakenAll
  <1>4. CASE \E c \in Clients : ClientStep(c)
    BY <1>4, ClientStaysTaken
  <1>5. QED
    BY <1>1, <1>2, <1>3, <1>4 DEF Next

LEMMA TakenAllInvariant == Spec => []TakenAll
  <1>1. Init => TakenAll
    BY DEF Init, WireInit, MInit, TakenAll, UpdateAtP
  <1>2. /\ Agreed /\ TakenAll /\ Agreed' /\ GoneDeaf' /\ [Next]_vars
        => TakenAll'
    BY NextTakesAll
  <1>3. QED
    BY <1>1, <1>2, AgreedInvariant, GoneHearNothing, PTL DEF Spec

----------------------------------------------------------------------------
(* Every position has shares in it.                                        *)
(*                                                                         *)
(* Account bounds a position from above by the number of clients that have *)
(* no purchase of that stock for that user under way: whoever places one   *)
(* finds at most MaxHeld shares, whoever completes one adds at most        *)
(* MaxHeld.  So no int wraps around, and a purchase leaves a position      *)
(* positive; a sale does because it is covered.                            *)

BuyOrder(m, u, s) ==
  m.t = "transact" /\ m.op = "buy" /\ Lower[m.user] = u /\ m.stock = s

Ordering == mpc \in Trading \ {"update"} \/ UpdateAtP

Buying(c, u, s) ==
  \/ \E i \in DOMAIN c2m[c] : BuyOrder(c2m[c][i], u, s)
  \/ cur = c /\ Ordering /\ BuyOrder(req, u, s)

Idle(u, s) == {c \in Clients : ~Buying(c, u, s)}
Most(u, s) == MaxHeld * (1 + Cardinality(Idle(u, s)))

Account ==
  \A u \in DOMAIN portfolio : \A i \in DOMAIN portfolio[u] :
    /\ portfolio[u][i].avgPrice # NaN
    /\ \A s \in Stocks : portfolio[u][i].stockName = s =>
         portfolio[u][i].quantity \in 1 .. Most(u, s)

LEMMA MostFacts ==
  ASSUME SoundStart, NEW I \in SUBSET Clients, NEW J \in SUBSET Clients, I \subseteq J
  PROVE  /\ MaxHeld * (1 + Cardinality(I)) \in Nat
         /\ MaxHeld * (1 + Cardinality(J)) \in Nat
         /\ MaxHeld <= MaxHeld * (1 + Cardinality(I))
         /\ MaxHeld * (1 + Cardinality(I)) <= MaxHeld * (1 + Cardinality(J))
         /\ MaxHeld * (1 + Cardinality(J)) <= IntMax
         /\ \A x \in J \ I : MaxHeld * (1 + Cardinality(I)) + MaxHeld
                               <= MaxHeld * (1 + Cardinality(J))
  <1>1. IsFiniteSet(Clients) /\ IsFiniteSet(I) /\ IsFiniteSet(J)
    BY FS_Subset DEF SoundStart
  <1>2. /\ Cardinality(I) \in Nat /\ Cardinality(J) \in Nat
        /\ Cardinality(Clients) \in Nat
    BY <1>1, FS_CardinalityType
  <1>3. Cardinality(I) <= Cardinality(J) /\ Cardinality(J) <= Cardinality(Clients)
    BY <1>1, FS_Subset
  <1>4. \A x \in J \ I : Cardinality(I) + 1 <= Cardinality(J)
    <2>1. SUFFICES ASSUME NEW x \in J \ I PROVE Cardinality(I) + 1 <= Cardinality(J)
      OBVIOUS
    <2>2. Cardinality(I \cup {x}) = Cardinality(I) + 1
      BY <1>1, FS_AddElement
    <2>3. Cardinality(I \cup {x}) <= Cardinality(J)
      BY <1>1, FS_Subset
    <2>4. QED
      BY <2>2, <2>3
  <1>5. \A a, b \in Nat : a <= b => MaxHeld * (1 + a) <= MaxHeld * (1 + b)
    BY BoundAssumption
  <1>6. \A a \in Nat : /\ MaxHeld * (1 + a) \in Nat
                       /\ MaxHeld <= MaxHeld * (1 + a)
                       /\ MaxHeld * (1 + (a + 1)) = MaxHeld * (1 + a) + MaxHeld
    BY BoundAssumption
  <1>7. MaxHeld * (1 + Cardinality(J)) <= IntMax
    <2>1. /\ MaxHeld * (1 + Cardinality(J)) <= MaxHeld * (1 + Cardinality(Clients))
          /\ MaxHeld * (1 + Cardinality(Clients)) <= IntMax
      BY <1>2, <1>3, <1>5 DEF SoundStart
    <2>2. /\ MaxHeld * (1 + Cardinality(J)) \in Nat
          /\ MaxHeld * (1 + Cardinality(Clients)) \in Nat
      BY <1>2, <1>6
    <2>3. QED
      BY <2>1, <2>2, IntMaxAssumption
  <1>8. ASSUME NEW x \in J \ I
        PROVE  MaxHeld * (1 + Cardinality(I)) + MaxHeld <= MaxHeld * (1 + Cardinality(J))
    <2>1. Cardinality(I) + 1 \in Nat /\ Cardinality(I) + 1 <= Cardinality(J)
      BY <1>2, <1>4
    <2>2. MaxHeld * (1 + (Cardinality(I) + 1)) <= MaxHeld * (1 + Cardinality(J))
      BY <1>2, <1>5, <2>1
    <2>3. QED
      BY <1>2, <1>6, <2>2
  <1>9. QED
    BY <1>2, <1>3, <1>5, <1>6, <1>7, <1>8

LEMMA AfterUpdate ==
  ASSUME [Next]_vars, mpc = "update"
  PROVE  mpc' \in {"update", "poll"} \cup Lost
  <1>1. CASE AuthStep \/ QuoteStep \/ PortfolioStep \/ UNCHANGED vars
    BY <1>1, ServersSendNobody DEF mVars
  <1>2. CASE MainStep
    BY <1>2 DEF MainStep, MAuth, MPortfolio, MGain, MQuoteReply, MBuyOffer,
       MBuyDenied, MBuyApproved, MBuyUpdate, MBuyNobody, MBuyThrows, MSellQuoted,
       MSellChecked, MSellUnknown, MSellRefused, MSellPass, MSellOffer, MSellDenied,
       MSellApproved, MResult, MSigPipe, MMisread, HearsClient, Hears, Return, Lost
  <1>3. ASSUME NEW c \in Clients, ServeStep(c) \/ ClientStep(c)
        PROVE  mpc' = mpc
    BY <1>3 DEF ServeStep, MLogin, MPosition, MTransact, MQuote, MClose, Reads, mVars,
       ClientStep, ReceiveStep, AnswerStep, CommandStep
  <1>4. QED
    BY <1>1, <1>2, <1>3 DEF Next

LEMMA OrderingComes ==
  ASSUME Agreed, Agreed', [Next]_vars, Ordering'
  PROVE  \/ UNCHANGED <<cur, req>> /\ Ordering
         \/ \E c \in Clients : MTransact(c)
  <1>1. mpc' \in Trading \cup Lost
    BY UpdateThere DEF Ordering, Trading
  <1>2. CASE UNCHANGED <<cur, req>> /\ (mpc' \in Trading => mpc \in Trading)
    <2>1. CASE UpdateAtP'
      <3>1. UpdateAtP \/ mpc \in {"buy_held", "sell_answer"}
        BY <2>1, UpdateComes DEF MBuyUpdate, MSellApproved, Hears, HearsClient
      <3>2. QED
        BY <1>2, <3>1 DEF Ordering, Trading
    <2>2. CASE mpc' \in Trading \ {"update"}
      <3>1. mpc # "update"
        BY <2>2, AfterUpdate DEF Trading, Lost
      <3>2. QED
        BY <1>2, <2>2, <3>1 DEF Ordering
    <2>3. QED
      BY <2>1, <2>2 DEF Ordering
  <1>3. QED
    BY <1>1, <1>2, OrderTaken

Purchase(c, u, s) ==
  \E n \in Shares : /\ CTrade(c, "buy", s, n) /\ WithinBound(c, "buy", s, n)
                    /\ u = Lower[member[c]]

(* A purchase under way was under way before, or is placed now. *)
LEMMA BuyingComes ==
  ASSUME Agreed, Agreed', [Next]_vars, NEW c \in Clients, NEW u, NEW s, Buying(c, u, s)'
  PROVE  Buying(c, u, s) \/ Purchase(c, u, s)
  <1>0. ServerTypeOK /\ Serving /\ c2m[c] \in Seq(ClientMsg)
    BY DEF Agreed, IndexInv, ServerTypeOK
  <1>1. ASSUME NEW i \in DOMAIN c2m'[c], BuyOrder(c2m'[c][i], u, s)
        PROVE  Buying(c, u, s) \/ Purchase(c, u, s)
    <2>1. CASE c2m'[c] = c2m[c]
      BY <1>1, <2>1 DEF Buying
    <2>2. CASE c2m'[c] = <<>>
      BY <1>1, <2>2
    <2>3. ASSUME NEW m, c2m'[c] = Append(c2m[c], m), m.t # "transact" \/ IsTrade(c, m)
          PROVE  Buying(c, u, s) \/ Purchase(c, u, s)
      <3>1. (i \in DOMAIN c2m[c] /\ c2m'[c][i] = c2m[c][i]) \/ c2m'[c][i] = m
        BY <1>0, <1>1, <2>3, AppendFacts
      <3>2. CASE i \in DOMAIN c2m[c] /\ c2m'[c][i] = c2m[c][i]
        BY <1>1, <3>2 DEF Buying
      <3>3. CASE c2m'[c][i] = m
        <4>1. m.t = "transact" /\ m.op = "buy" /\ Lower[m.user] = u /\ m.stock = s
          BY <1>1, <3>3 DEF BuyOrder
        <4>2. PICK op \in {"buy", "sell"}, st \in Stocks, n \in Shares :
                /\ CTrade(c, op, st, n) /\ WithinBound(c, op, st, n)
                /\ m = [t |-> "transact", op |-> op, user |-> member[c], stock |-> st,
                        shares |-> n]
          BY <2>3, <4>1 DEF IsTrade
        <4>3. op = "buy" /\ st = s /\ u = Lower[member[c]]
          BY <4>1, <4>2
        <4>4. QED
          BY <4>2, <4>3 DEF Purchase
      <3>4. QED
        BY <3>1, <3>2, <3>3
    <2>4. QED
      BY <1>0, <2>1, <2>2, <2>3, ClientSends, OthersTake
  <1>2. ASSUME cur' = c, Ordering', BuyOrder(req, u, s)'
        PROVE  Buying(c, u, s)
    <2>1. CASE UNCHANGED <<cur, req>> /\ Ordering
      BY <1>2, <2>1 DEF Buying, BuyOrder
    <2>2. CASE \E d \in Clients : MTransact(d)
      <3>1. MTransact(c)
        BY <1>2, <2>2 DEF MTransact, Reads
      <3>2. c2m[c] # <<>> /\ req' = Head(c2m[c])
        BY <3>1 DEF MTransact, Reads
      <3>3. Head(c2m[c]) = c2m[c][1] /\ 1 \in DOMAIN c2m[c]
        BY <1>0, <3>2, TailFacts
      <3>4. BuyOrder(c2m[c][1], u, s)
        BY <1>2, <3>2, <3>3 DEF BuyOrder
      <3>5. QED
        BY <3>3, <3>4 DEF Buying
    <2>3. QED
      BY <1>2, <2>1, <2>2, OrderingComes
  <1>3. CASE \E i \in DOMAIN c2m'[c] : BuyOrder(c2m'[c][i], u, s)
    BY <1>1, <1>3
  <1>4. CASE cur' = c /\ Ordering' /\ BuyOrder(req, u, s)'
    BY <1>2, <1>4
  <1>5. QED
    BY <1>3, <1>4 DEF Buying, BuyOrder

LEMMA IdleStays ==
  ASSUME Agreed, Agreed', [Next]_vars, NEW u, NEW s,
         \A c \in Clients : ~Purchase(c, u, s)
  PROVE  Idle(u, s) \subseteq Idle(u, s)'
  <1>1. ASSUME NEW c \in Clients, ~Buying(c, u, s)
        PROVE  ~Buying(c, u, s)'
    BY <1>1, BuyingComes
  <1>2. QED
    BY <1>1 DEF Idle

LEMMA MostStays ==
  ASSUME SoundStart, NEW u, NEW s, Idle(u, s) \subseteq Idle(u, s)'
  PROVE  1 .. Most(u, s) \subseteq 1 .. Most(u, s)'
  <1>1. PICK I \in SUBSET Clients : I = Idle(u, s)
    BY DEF Idle
  <1>2. PICK J \in SUBSET Clients : J = Idle(u, s)'
    BY DEF Idle
  <1>3. /\ MaxHeld * (1 + Cardinality(I)) \in Nat /\ MaxHeld * (1 + Cardinality(J)) \in Nat
        /\ MaxHeld * (1 + Cardinality(I)) <= MaxHeld * (1 + Cardinality(J))
    BY <1>1, <1>2, MostFacts
  <1>4. Most(u, s) = MaxHeld * (1 + Cardinality(I))
        /\ Most(u, s)' = MaxHeld * (1 + Cardinality(J))
    BY <1>1, <1>2 DEF Most
  <1>5. QED
    BY <1>3, <1>4

LEMMA MostIsMost ==
  ASSUME SoundStart, NEW u, NEW s
  PROVE  /\ Most(u, s) \in Nat /\ MaxHeld <= Most(u, s) /\ Most(u, s) <= IntMax
         /\ (\E c \in Clients : Buying(c, u, s)) => Most(u, s) + MaxHeld <= IntMax
  <1>1. PICK I \in SUBSET Clients : I = Idle(u, s)
    BY DEF Idle
  <1>2. Most(u, s) = MaxHeld * (1 + Cardinality(I))
    BY <1>1 DEF Most
  <1>3. ASSUME NEW c \in Clients, Buying(c, u, s)
        PROVE  Most(u, s) + MaxHeld <= IntMax
    <2>1. c \in Clients \ I
      BY <1>1, <1>3 DEF Idle
    <2>2. PICK a : a = MaxHeld * (1 + Cardinality(I))
      OBVIOUS
    <2>3. PICK b : b = MaxHeld * (1 + Cardinality(Clients))
      OBVIOUS
    <2>4. a \in Nat /\ b \in Nat /\ a + MaxHeld <= b /\ b <= IntMax
      BY <2>1, <2>2, <2>3, MostFacts
    <2>5. QED
      BY <1>2, <2>2, <2>4, BoundAssumption, IntMaxAssumption
  <1>4. QED
    BY <1>2, <1>3, MostFacts

(* Prices of positions with shares in them are numbers. *)
LEMMA RatioNumber ==
  ASSUME NEW a \in Int, NEW b \in Int, b # 0
  PROVE  Ratio(a, b) \in Int
  BY RoundDivInt DEF Ratio

LEMMA OpenedPrice ==
  ASSUME NEW n \in Int, n > 0, NEW p \in Int
  PROVE  avgBuyPrice(n, p) \in Int
  <1>1. n * p \in Int /\ p # NaN
    BY NaNAssumption
  <1>2. QED
    BY <1>1, RatioNumber DEF avgBuyPrice

LEMMA AddedPrice ==
  ASSUME NEW n \in Int, n > 0, NEW p \in Int, NEW q \in Int, q > 0, NEW a \in Int,
         n + q <= IntMax
  PROVE  Wrap(n + q) = n + q /\ avgBuyPriceNew(n, p, q, a) \in Int
  <1>1. Wrap(n + q) = n + q
    BY IntMaxAssumption DEF Wrap
  <1>2. PICK x \in Int : x = avgBuyPrice(q, a)
    BY OpenedPrice
  <1>3. PICK y \in Int : y = avgBuyPrice(n, p)
    BY OpenedPrice
  <1>4. NaN \notin {x, y}
    BY NaNAssumption
  <1>5. q * x + n * y \in Int /\ n + q \in Int /\ n + q # 0
    OBVIOUS
  <1>6. avgBuyPriceNew(n, p, q, a) = Ratio(q * x + n * y, n + q)
    BY <1>1, <1>2, <1>3, <1>4 DEF avgBuyPriceNew
  <1>7. QED
    BY <1>1, <1>5, <1>6, RatioNumber

LEMMA RoundedNumber ==
  ASSUME NEW p \in Money, p # NaN
  PROVE  RoundCent(p) \in Int
  <1>1. p \in Int /\ Cent \in Int /\ Cent # 0
    BY CentAssumption DEF Money
  <1>2. RoundDiv(p, Cent) \in Int
    BY <1>1, RoundDivInt
  <1>3. QED
    BY <1>1, <1>2 DEF RoundCent

(* A user's shares of a stock are those of the one position in it. *)
LEMMA HeldIsIt ==
  ASSUME ServerTypeOK, OnePositionPerStock, NEW u \in DOMAIN portfolio,
         NEW i \in DOMAIN portfolio[u], NEW s, portfolio[u][i].stockName = s
  PROVE  HeldBy(u, s) = portfolio[u][i].quantity
  <1>1. portfolio[u] \in Seq(Holding)
    BY DEF ServerTypeOK
  <1>2. PICK k : k = FirstOf(u, s)
    OBVIOUS
  <1>3. /\ k \in 0 .. Len(portfolio[u])
        /\ k # 0 => portfolio[u][k].stockName = s
        /\ k = 0 => \A j \in DOMAIN portfolio[u] : portfolio[u][j].stockName # s
    BY <1>1, <1>2, FirstOfFacts
  <1>4. k # 0 /\ k \in DOMAIN portfolio[u]
    BY <1>1, <1>3, LenProperties
  <1>5. k = i
    BY <1>3, <1>4 DEF OnePositionPerStock
  <1>6. HeldBy(u, s) = portfolio[u][k].quantity
    BY <1>2, <1>4 DEF HeldBy, SharesIn, FirstOf
  <1>7. QED
    BY <1>5, <1>6

(* The update of an order, in numbers that do not wrap around. *)
LEMMA UpdateSums ==
  ASSUME SoundStart, Agreed, TradeInv, SharesTyped, TakenAll, Covered,
         OnePositionPerStock, Account, PReceives("update"),
         NEW m, m = Head(toP), NEW u, u = m.user, NEW n, n = req.shares
  PROVE  /\ n \in Int /\ n > 0 /\ n <= MaxHeld
         /\ u = Lower[req.user] /\ m.stock = req.stock /\ req.op \in {"buy", "sell"}
         /\ u \in DOMAIN portfolio /\ portfolio[u] \in Seq(Holding)
         /\ m.price # NaN
         /\ req.op = "buy" => \E c \in Clients : c = cur /\ Buying(c, u, m.stock)
         /\ \/ req.op = "buy" /\ m.index = -1 /\ m.shares = n
            \/ \E i \in DOMAIN portfolio[u] :
                 /\ m.index = i - 1 /\ portfolio[u][i].stockName = m.stock
                 /\ portfolio[u][i].quantity \in 1 .. Most(u, m.stock)
                 /\ m.shares = IF req.op = "buy" THEN portfolio[u][i].quantity + n
                                                 ELSE portfolio[u][i].quantity - n
                 /\ m.shares >= 0
  <1>0. ServerTypeOK
    BY DEF Agreed, IndexInv
  <1>1. m.t = "update" /\ 1 \in DOMAIN toP /\ m = toP[1] /\ UpdateAtP
    BY QueuesTyped DEF PReceives, UpdateAtP
  <1>2. n \in Int /\ n > 0 /\ n <= MaxHeld
    <2>1. n \in Shares
      BY <1>1 DEF SharesTyped
    <2>2. n \in 1 .. MaxHeld
      BY <2>1 DEF SoundStart
    <2>3. QED
      BY <2>2, BoundAssumption
  <1>3. /\ u = Lower[req.user] /\ m.stock = req.stock /\ u \in DOMAIN portfolio
        /\ portfolio[u] \in Seq(Holding)
        /\ req \in ClientMsg /\ req.t = "transact" /\ req.op \in {"buy", "sell"}
        /\ offer \in Int \cup {NA} /\ (req.op = "buy" => offer \in Int)
    BY UpdateIs
  <1>4. req.op = "buy" => \E c \in Clients : c = cur /\ Buying(c, u, m.stock)
    <2>1. cur \in Clients /\ Ordering
      BY <1>1 DEF TakenAll, Ordering
    <2>2. req.op = "buy" => BuyOrder(req, u, m.stock)
      BY <1>3 DEF BuyOrder
    <2>3. QED
      BY <2>1, <2>2 DEF Buying
  <1>5. CASE /\ req.op = "buy" /\ m.index = -1
             /\ m.shares = n /\ m.price = avgBuyPrice(n, offer)
    <2>1. avgBuyPrice(n, offer) \in Int
      BY <1>2, <1>3, <1>5, OpenedPrice
    <2>2. QED
      BY <1>2, <1>3, <1>4, <1>5, <2>1, NaNAssumption
  <1>6. ASSUME NEW i \in DOMAIN portfolio[u],
               m.index = i - 1, portfolio[u][i].stockName = m.stock,
               req.op = "buy" =>
                 /\ m.shares = Wrap(n + portfolio[u][i].quantity)
                 /\ m.price = avgBuyPriceNew(n, offer, portfolio[u][i].quantity,
                                             RoundCent(portfolio[u][i].avgPrice)),
               req.op = "sell" =>
                 /\ m.shares = Wrap(portfolio[u][i].quantity - n)
                 /\ m.price = RoundCent(portfolio[u][i].avgPrice)
        PROVE  /\ m.price # NaN /\ m.shares >= 0
               /\ portfolio[u][i].quantity \in 1 .. Most(u, m.stock)
               /\ m.shares = IF req.op = "buy" THEN portfolio[u][i].quantity + n
                                               ELSE portfolio[u][i].quantity - n
    <2>1. PICK q : q = portfolio[u][i].quantity
      OBVIOUS
    <2>2. PICK a : a = RoundCent(portfolio[u][i].avgPrice)
      OBVIOUS
    <2>3. /\ q \in 1 .. Most(u, m.stock) /\ portfolio[u][i].avgPrice # NaN
          /\ portfolio[u][i].avgPrice \in Money
      BY <1>0, <1>3, <1>6, <2>1, HoldingFacts DEF Account
    <2>4. a \in Int
      BY <2>2, <2>3, RoundedNumber
    <2>5. Most(u, m.stock) \in Nat /\ q \in Int /\ q > 0 /\ q <= Most(u, m.stock)
      BY <2>3, MostIsMost
    <2>6. CASE req.op = "buy"
      <3>1. n + q <= IntMax
        <4>1. Most(u, m.stock) + MaxHeld <= IntMax
          BY <1>4, <2>6, MostIsMost
        <4>2. QED
          BY <1>2, <2>5, <4>1, BoundAssumption, IntMaxAssumption
      <3>2. PICK p \in Int : p = offer
        BY <1>3, <2>6
      <3>3. Wrap(n + q) = n + q /\ avgBuyPriceNew(n, p, q, a) \in Int
        BY <1>2, <2>4, <2>5, <3>1, AddedPrice
      <3>4. m.shares = Wrap(n + q) /\ m.price = avgBuyPriceNew(n, p, q, a)
        BY <1>6, <2>1, <2>2, <2>6, <3>2
      <3>5. QED
        BY <1>2, <2>1, <2>3, <2>5, <2>6, <3>3, <3>4, NaNAssumption
    <2>7. CASE req.op = "sell"
      <3>1. HeldBy(Lower[req.user], req.stock) >= n
        BY <1>1, <2>7 DEF Covered
      <3>2. HeldBy(u, m.stock) = q
        BY <1>0, <1>3, <1>6, <2>1, HeldIsIt
      <3>3. q >= n
        BY <1>3, <3>1, <3>2
      <3>4. Most(u, m.stock) <= IntMax
        BY MostIsMost
      <3>5. q - n <= IntMax /\ q - n >= 0
        BY <1>2, <2>5, <3>3, <3>4, IntMaxAssumption
      <3>6. Wrap(q - n) = q - n
        BY <1>2, <2>5, <3>5, IntMaxAssumption DEF Wrap
      <3>7. QED
        BY <1>6, <2>1, <2>2, <2>3, <2>4, <2>7, <3>5, <3>6, NaNAssumption
    <2>8. QED
      BY <1>3, <2>6, <2>7
  <1>7. \/ /\ req.op = "buy" /\ m.index = -1
           /\ m.shares = n /\ m.price = avgBuyPrice(n, offer)
        \/ \E i \in DOMAIN portfolio[u] :
             /\ m.index = i - 1 /\ portfolio[u][i].stockName = m.stock
             /\ req.op = "buy" =>
                 /\ m.shares = Wrap(n + portfolio[u][i].quantity)
                 /\ m.price = avgBuyPriceNew(n, offer, portfolio[u][i].quantity,
                                             RoundCent(portfolio[u][i].avgPrice))
             /\ req.op = "sell" =>
                 /\ m.shares = Wrap(portfolio[u][i].quantity - n)
                 /\ m.price = RoundCent(portfolio[u][i].avgPrice)
    BY UpdateIs
  <1>8. CASE \E i \in DOMAIN portfolio[u] :
             /\ m.index = i - 1 /\ portfolio[u][i].stockName = m.stock
             /\ req.op = "buy" =>
                 /\ m.shares = Wrap(n + portfolio[u][i].quantity)
                 /\ m.price = avgBuyPriceNew(n, offer, portfolio[u][i].quantity,
                                             RoundCent(portfolio[u][i].avgPrice))
             /\ req.op = "sell" =>
                 /\ m.shares = Wrap(portfolio[u][i].quantity - n)
                 /\ m.price = RoundCent(portfolio[u][i].avgPrice)
    <2>1. \E i \in DOMAIN portfolio[u] :
             /\ m.index = i - 1 /\ portfolio[u][i].stockName = m.stock
             /\ m.price # NaN /\ m.shares >= 0
             /\ portfolio[u][i].quantity \in 1 .. Most(u, m.stock)
             /\ m.shares = IF req.op = "buy" THEN portfolio[u][i].quantity + n
                                             ELSE portfolio[u][i].quantity - n
      BY <1>6, <1>8
    <2>2. QED
      BY <1>2, <1>3, <1>4, <2>1
  <1>9. QED
    BY <1>5, <1>7, <1>8

----------------------------------------------------------------------------
(* The update reaches Server P. *)

LEMMA UpdateHere ==
  ASSUME Agreed, UpdateAtP
  PROVE  mpc \in {"update"} \cup Lost
  <1>1. PICK i \in DOMAIN toP : toP[i].t = "update"
    BY DEF UpdateAtP
  <1>2. mpc \in WaitsForP \cup Lost
    BY <1>1 DEF Agreed, IndexInv, OneQuestion
  <1>3. mpc \notin Lost => toP[i].t = AskedOfP
    BY <1>1 DEF Agreed, PortInv, QuestionsToP, QuestionFits
  <1>4. QED
    BY <1>1, <1>2, <1>3 DEF AskedOfP, WaitsForP

(* The update has been carried out: the purchase is no longer under way. *)
LEMMA UpdateCompletes ==
  ASSUME Agreed, TakenAll, PReceives("update"), UNCHANGED <<tcpVars, mVars>>,
         NEW u, NEW s
  PROVE  \E c \in Clients : c = cur /\ ~Buying(c, u, s)'
  <1>1. 1 \in DOMAIN toP /\ toP[1].t = "update"
    BY QueuesTyped DEF PReceives
  <1>2. UpdateAtP
    BY <1>1 DEF UpdateAtP
  <1>3. PICK c \in Clients : c = cur
    BY <1>2 DEF TakenAll
  <1>4. c2m'[c] = <<>>
    BY <1>2, <1>3 DEF TakenAll, tcpVars
  <1>5. mpc' \in {"update"} \cup Lost
    BY <1>2, UpdateHere DEF mVars
  <1>6. toP' = <<>>
    BY PUpdateFacts DEF Agreed
  <1>7. ~Ordering'
    BY <1>5, <1>6 DEF Ordering, UpdateAtP, Trading, Lost
  <1>8. QED
    BY <1>3, <1>4, <1>7 DEF Buying

LEMMA MostGrows ==
  ASSUME SoundStart, NEW u, NEW s, Idle(u, s) \subseteq Idle(u, s)',
         NEW c \in Clients, Buying(c, u, s), ~Buying(c, u, s)'
  PROVE  /\ Most(u, s)' \in Nat /\ Most(u, s) \in Nat
         /\ Most(u, s) + MaxHeld <= Most(u, s)'
  <1>1. PICK I \in SUBSET Clients : I = Idle(u, s)
    BY DEF Idle
  <1>2. PICK J \in SUBSET Clients : J = Idle(u, s)'
    BY DEF Idle
  <1>3. c \in J \ I /\ I \subseteq J
    BY <1>1, <1>2 DEF Idle
  <1>4. PICK a : a = MaxHeld * (1 + Cardinality(I))
    OBVIOUS
  <1>5. PICK b : b = MaxHeld * (1 + Cardinality(J))
    OBVIOUS
  <1>6. a \in Nat /\ b \in Nat /\ a + MaxHeld <= b
    BY <1>3, <1>4, <1>5, MostFacts
  <1>7. Most(u, s) = a /\ Most(u, s)' = b
    BY <1>1, <1>2, <1>4, <1>5 DEF Most
  <1>8. QED
    BY <1>6, <1>7

LEMMA MostAfter ==
  ASSUME SoundStart, NEW u, NEW s
  PROVE  Most(u, s)' \in Nat /\ MaxHeld <= Most(u, s)'
  <1>1. PICK J \in SUBSET Clients : J = Idle(u, s)'
    BY DEF Idle
  <1>2. PICK b : b = MaxHeld * (1 + Cardinality(J))
    OBVIOUS
  <1>3. b \in Nat /\ MaxHeld <= b
    BY <1>2, MostFacts
  <1>4. Most(u, s)' = b
    BY <1>1, <1>2 DEF Most
  <1>5. QED
    BY <1>3, <1>4

(* What the positions are after an update: what they were, but for one. *)
LEMMA UpdateWrites ==
  ASSUME SoundStart, Agreed, TradeInv, SharesTyped, TakenAll, Covered,
         OnePositionPerStock, Account,
         PUpdateNew \/ PUpdateReplace \/ PUpdateRemove,
         NEW m, m = Head(toP), NEW v \in DOMAIN portfolio', NEW j \in DOMAIN portfolio'[v]
  PROVE  \/ v \in DOMAIN portfolio /\ \E i \in DOMAIN portfolio[v] :
              portfolio'[v][j] = portfolio[v][i]
         \/ /\ v = m.user
            /\ portfolio'[v][j].stockName = m.stock
            /\ portfolio'[v][j].avgPrice # NaN
            /\ portfolio'[v][j].quantity \in Int /\ portfolio'[v][j].quantity > 0
            /\ portfolio'[v][j].quantity <= Most(v, m.stock)
                 + (IF req.op = "buy" THEN MaxHeld ELSE 0)
            /\ req.op = "buy" => \E c \in Clients : c = cur /\ Buying(c, v, m.stock)
  <1>0. PReceives("update") /\ IndexInv
    BY DEF PUpdateNew, PUpdateReplace, PUpdateRemove, Agreed
  <1>1. PICK u : u = m.user
    OBVIOUS
  <1>2. PICK n : n = req.shares
    OBVIOUS
  <1>3. /\ n \in Int /\ n > 0 /\ n <= MaxHeld
        /\ req.op \in {"buy", "sell"}
        /\ u \in DOMAIN portfolio /\ portfolio[u] \in Seq(Holding)
        /\ m.price # NaN
        /\ req.op = "buy" => \E c \in Clients : c = cur /\ Buying(c, u, m.stock)
        /\ \/ req.op = "buy" /\ m.index = -1 /\ m.shares = n
           \/ \E i \in DOMAIN portfolio[u] :
                /\ m.index = i - 1 /\ portfolio[u][i].stockName = m.stock
                /\ portfolio[u][i].quantity \in 1 .. Most(u, m.stock)
                /\ m.shares = IF req.op = "buy" THEN portfolio[u][i].quantity + n
                                                ELSE portfolio[u][i].quantity - n
                /\ m.shares >= 0
    BY <1>0, <1>1, <1>2, UpdateSums
  <1>4. PICK x : x = Most(u, m.stock)
    OBVIOUS
  <1>5. x \in Nat /\ MaxHeld <= x /\ MaxHeld \in Nat
    BY <1>4, MostIsMost, BoundAssumption
  <1>6. Len(portfolio[u]) \in Nat /\ DOMAIN portfolio[u] = 1 .. Len(portfolio[u])
    BY <1>3, LenProperties
  <1>7. CASE UNCHANGED portfolio
    BY <1>7
  <1>8. CASE v # u
    <2>1. v \in DOMAIN portfolio /\ portfolio'[v] = portfolio[v]
      BY <1>1, <1>3, <1>8 DEF PUpdateNew, PUpdateReplace, PUpdateRemove, Store
    <2>2. QED
      BY <2>1
  <1>9. CASE v = u /\ PUpdateNew
    <2>1. PICK e : e = [stockName |-> m.stock, quantity |-> m.shares,
                        avgPrice |-> m.price]
      OBVIOUS
    <2>2. m.index = -1 /\ portfolio'[u] = Append(portfolio[u], e)
      BY <1>1, <1>3, <1>9, <2>1 DEF PUpdateNew, Store
    <2>3. req.op = "buy" /\ m.shares = n
      BY <1>3, <1>6, <2>2
    <2>4. \/ j \in DOMAIN portfolio[u] /\ portfolio'[u][j] = portfolio[u][j]
          \/ portfolio'[u][j] = e
      BY <1>3, <1>9, <2>2, AppendFacts
    <2>5. e.stockName = m.stock /\ e.avgPrice = m.price /\ e.quantity = n
      BY <2>1, <2>3
    <2>6. e.quantity \in Int /\ e.quantity > 0 /\ e.quantity <= x + MaxHeld
      BY <1>3, <1>5, <2>5
    <2>7. QED
      BY <1>1, <1>3, <1>4, <1>9, <2>3, <2>4, <2>5, <2>6
  <1>10. CASE v = u /\ PUpdateReplace
    <2>1. m.index + 1 # 0 /\ m.shares # 0
      BY <1>1, <1>10 DEF PUpdateReplace
    <2>2. PICK i \in DOMAIN portfolio[u] :
                /\ m.index = i - 1 /\ portfolio[u][i].stockName = m.stock
                /\ portfolio[u][i].quantity \in 1 .. Most(u, m.stock)
                /\ m.shares = IF req.op = "buy" THEN portfolio[u][i].quantity + n
                                                ELSE portfolio[u][i].quantity - n
                /\ m.shares >= 0
      BY <1>3, <2>1
    <2>3. PICK e : e = [[portfolio[u][i] EXCEPT !.quantity = m.shares]
                          EXCEPT !.avgPrice = m.price]
      OBVIOUS
    <2>4. m.index + 1 = i
      BY <1>6, <2>2
    <2>5. portfolio'[u] = [portfolio[u] EXCEPT ![i] = e]
      BY <1>1, <1>10, <2>3, <2>4 DEF PUpdateReplace, Store
    <2>6. portfolio[u][i] \in Holding
      BY <1>0, <1>3, HoldingFacts DEF IndexInv
    <2>7. e.stockName = m.stock /\ e.quantity = m.shares /\ e.avgPrice = m.price
      BY <2>2, <2>3, <2>6 DEF Holding
    <2>8. /\ m.shares \in Int /\ m.shares > 0
          /\ m.shares <= x + (IF req.op = "buy" THEN MaxHeld ELSE 0)
      BY <1>3, <1>4, <1>5, <2>1, <2>2
    <2>9. IF j = i THEN portfolio'[u][j] = e
                   ELSE j \in DOMAIN portfolio[u] /\ portfolio'[u][j] = portfolio[u][j]
      BY <1>10, <2>2, <2>5
    <2>10. QED
      BY <1>1, <1>3, <1>4, <1>10, <2>7, <2>8, <2>9
  <1>11. CASE v = u /\ PUpdateRemove /\ ~UNCHANGED portfolio
    <2>1. PICK k : k = m.index + 1
      OBVIOUS
    <2>2. k \in 1 .. Len(portfolio[u])
      BY <1>0, <1>1, <1>6, <1>11, <2>1, PIndexFacts DEF PUpdateRemove
    <2>3. portfolio'[u] = RemoveAt(portfolio[u], k)
      BY <1>1, <1>11, <2>1 DEF PUpdateRemove, Store
    <2>4. /\ DOMAIN RemoveAt(portfolio[u], k) = 1 .. Len(portfolio[u]) - 1
          /\ \A l \in 1 .. Len(portfolio[u]) - 1 :
               RemoveAt(portfolio[u], k)[l] =
                 IF l < k THEN portfolio[u][l] ELSE portfolio[u][l + 1]
      BY <1>3, <2>2, RemoveAtFacts
    <2>5. j \in 1 .. Len(portfolio[u]) - 1
          /\ portfolio'[u][j] = IF j < k THEN portfolio[u][j] ELSE portfolio[u][j + 1]
      BY <1>11, <2>3, <2>4
    <2>6. j \in DOMAIN portfolio[u] /\ j + 1 \in DOMAIN portfolio[u]
      BY <1>6, <2>5
    <2>7. QED
      BY <1>3, <1>11, <2>5, <2>6
  <1>12. QED
    BY <1>7, <1>8, <1>9, <1>10, <1>11

LEMMA OnlyServerPWrites ==
  ASSUME [Next]_vars
  PROVE  \/ UNCHANGED portfolio
         \/ /\ PortfolioStep /\ UNCHANGED <<tcpVars, mVars, cVars>>
            /\ PUpdateNew \/ PUpdateReplace \/ PUpdateRemove
  <1>1. CASE PortfolioStep
    BY <1>1, OnlyUpdatesWrite, ServersSendNobody
  <1>2. CASE UNCHANGED vars \/ AuthStep \/ QuoteStep \/ MainStep
    BY <1>2 DEF vars, pVars, AuthStep, QuoteStep, MainStep
  <1>3. ASSUME NEW c \in Clients, ServeStep(c) \/ ClientStep(c)
        PROVE  UNCHANGED portfolio
    BY <1>3 DEF ServeStep, ClientStep, ReceiveStep, AnswerStep, CommandStep, pVars
  <1>4. QED
    BY <1>1, <1>2, <1>3 DEF Next

LEMMA NobodyOrders ==
  ASSUME ServerTypeOK, UNCHANGED cVars, NEW c \in Clients, NEW u, NEW s
  PROVE  ~Purchase(c, u, s)
  <1>1. SUFFICES ASSUME NEW n \in Shares, CTrade(c, "buy", s, n) PROVE FALSE
    BY DEF Purchase
  <1>2. cpc[c] = "prompt" /\ cpc'[c] = "offer"
    BY <1>1 DEF CTrade, AtPrompt, Goto, ServerTypeOK
  <1>3. QED
    BY <1>2 DEF cVars

LEMMA UpdateKeepsAccount ==
  ASSUME SoundStart, Agreed, TradeInv, SharesTyped, TakenAll, Covered,
         OnePositionPerStock, Account, Agreed', [Next]_vars,
         UNCHANGED <<tcpVars, mVars, cVars>>,
         PUpdateNew \/ PUpdateReplace \/ PUpdateRemove
  PROVE  Account'
  <1>1. SUFFICES ASSUME NEW v \in DOMAIN portfolio', NEW j \in DOMAIN portfolio'[v]
                 PROVE  /\ portfolio'[v][j].avgPrice # NaN
                        /\ \A s \in Stocks : portfolio'[v][j].stockName = s =>
                             portfolio'[v][j].quantity \in 1 .. Most(v, s)'
    BY DEF Account
  <1>2. PICK m : m = Head(toP)
    OBVIOUS
  <1>3. ServerTypeOK /\ PReceives("update")
    BY DEF PUpdateNew, PUpdateReplace, PUpdateRemove, Agreed, IndexInv
  <1>4. ASSUME NEW s
        PROVE  Idle(v, s) \subseteq Idle(v, s)' /\ 1 .. Most(v, s) \subseteq 1 .. Most(v, s)'
    <2>1. Idle(v, s) \subseteq Idle(v, s)'
      BY <1>3, NobodyOrders, IdleStays
    <2>2. QED
      BY <2>1, MostStays
  <1>5. CASE v \in DOMAIN portfolio /\ \E i \in DOMAIN portfolio[v] :
              portfolio'[v][j] = portfolio[v][i]
    <2>1. PICK i \in DOMAIN portfolio[v] : portfolio'[v][j] = portfolio[v][i]
      BY <1>5
    <2>2. /\ portfolio[v][i].avgPrice # NaN
          /\ \A s \in Stocks : portfolio[v][i].stockName = s =>
               portfolio[v][i].quantity \in 1 .. Most(v, s)
      BY <1>5 DEF Account
    <2>3. QED
      BY <1>4, <2>1, <2>2
  <1>6. CASE /\ v = m.user
             /\ portfolio'[v][j].stockName = m.stock
             /\ portfolio'[v][j].avgPrice # NaN
             /\ portfolio'[v][j].quantity \in Int /\ portfolio'[v][j].quantity > 0
             /\ portfolio'[v][j].quantity <= Most(v, m.stock)
                  + (IF req.op = "buy" THEN MaxHeld ELSE 0)
             /\ req.op = "buy" => \E c \in Clients : c = cur /\ Buying(c, v, m.stock)
    <2>1. PICK q : q = portfolio'[v][j].quantity
      OBVIOUS
    <2>2. PICK a : a = Most(v, m.stock)
      OBVIOUS
    <2>3. PICK b : b = Most(v, m.stock)'
      OBVIOUS
    <2>4. /\ q \in Int /\ q > 0 /\ q <= a + (IF req.op = "buy" THEN MaxHeld ELSE 0)
          /\ a \in Nat /\ b \in Nat /\ MaxHeld \in Nat
      BY <1>6, <2>1, <2>2, <2>3, MostIsMost, MostAfter, BoundAssumption
    <2>5. CASE req.op = "buy"
      <3>1. PICK c \in Clients : c = cur /\ Buying(c, v, m.stock)
        BY <1>6, <2>5
      <3>2. ~Buying(c, v, m.stock)'
        BY <1>3, <3>1, UpdateCompletes
      <3>3. a + MaxHeld <= b
        BY <1>4, <2>2, <2>3, <3>1, <3>2, MostGrows
      <3>4. q <= b
        BY <2>4, <2>5, <3>3
      <3>5. QED
        BY <1>6, <2>1, <2>3, <2>4, <3>4
    <2>6. CASE req.op # "buy"
      <3>1. q \in 1 .. a
        BY <2>4, <2>6
      <3>2. q \in 1 .. b
        BY <1>4, <2>2, <2>3, <3>1
      <3>3. QED
        BY <1>6, <2>1, <2>3, <3>2
    <2>7. QED
      BY <2>5, <2>6
  <1>7. QED
    BY <1>2, <1>5, <1>6, UpdateWrites

(* Whoever orders a purchase found few enough shares to stay within bounds. *)
LEMMA OrderKeepsAccount ==
  ASSUME SoundStart, Agreed, OnePositionPerStock, Account, Agreed', [Next]_vars,
         UNCHANGED portfolio
  PROVE  Account'
  <1>1. SUFFICES ASSUME NEW u \in DOMAIN portfolio, NEW i \in DOMAIN portfolio[u]
                 PROVE  /\ portfolio[u][i].avgPrice # NaN
                        /\ \A s \in Stocks : portfolio[u][i].stockName = s =>
                             portfolio[u][i].quantity \in 1 .. Most(u, s)'
    BY DEF Account
  <1>2. PICK s : s = portfolio[u][i].stockName
    OBVIOUS
  <1>3. PICK q : q = portfolio[u][i].quantity
    OBVIOUS
  <1>4. ServerTypeOK
    BY DEF Agreed, IndexInv
  <1>5. q \in 1 .. Most(u, s) /\ q \in Int /\ portfolio[u][i].avgPrice # NaN
    BY <1>2, <1>3, <1>4, HoldingFacts DEF Account
  <1>6. ASSUME NEW c \in Clients, Purchase(c, u, s)
        PROVE  q \in 1 .. Most(u, s)'
    <2>1. PICK n \in Shares : WithinBound(c, "buy", s, n) /\ u = Lower[member[c]]
      BY <1>6 DEF Purchase
    <2>2. HeldBy(u, s) = q
      BY <1>2, <1>3, <1>4, HeldIsIt
    <2>3. q + n \in -MaxHeld .. MaxHeld
      BY <2>1, <2>2 DEF WithinBound
    <2>4. n \in 1 .. MaxHeld
      BY DEF SoundStart
    <2>5. PICK b : b = Most(u, s)'
      OBVIOUS
    <2>6. b \in Nat /\ MaxHeld <= b
      BY <2>5, MostAfter
    <2>7. q \in 1 .. b
      BY <1>5, <2>3, <2>4, <2>6, BoundAssumption
    <2>8. QED
      BY <2>5, <2>7
  <1>7. CASE \A c \in Clients : ~Purchase(c, u, s)
    <2>1. Idle(u, s) \subseteq Idle(u, s)'
      BY <1>7, IdleStays
    <2>2. 1 .. Most(u, s) \subseteq 1 .. Most(u, s)'
      BY <2>1, MostStays
    <2>3. QED
      BY <1>2, <1>3, <1>5, <2>2
  <1>8. QED
    BY <1>2, <1>3, <1>5, <1>6, <1>7

LEMMA AccountInvariant ==
  ASSUME SoundStart
  PROVE  Spec => []Account
  <1>1. Init => Account
    <2>1. ASSUME Init, NEW u \in DOMAIN portfolio, NEW i \in DOMAIN portfolio[u]
          PROVE  /\ portfolio[u][i].avgPrice # NaN
                 /\ \A s \in Stocks : portfolio[u][i].quantity \in 1 .. Most(u, s)
      <3>1. /\ portfolio[u][i].quantity \in 1 .. MaxHeld
            /\ portfolio[u][i].avgPrice # NaN
        BY <2>1 DEF SoundStart, Init, PInit
      <3>2. ASSUME NEW s \in Stocks
            PROVE  portfolio[u][i].quantity \in 1 .. Most(u, s)
        <4>1. PICK b : b = Most(u, s)
          OBVIOUS
        <4>2. b \in Nat /\ MaxHeld <= b
          BY <4>1, MostIsMost
        <4>3. portfolio[u][i].quantity \in 1 .. b
          BY <3>1, <4>2, BoundAssumption
        <4>4. QED
          BY <4>1, <4>3
      <3>3. QED
        BY <3>1, <3>2
    <2>2. QED
      BY <2>1 DEF Account
  <1>2. /\ Agreed /\ TradeInv /\ SharesTyped /\ TakenAll /\ Covered
        /\ OnePositionPerStock /\ Account /\ Agreed' /\ [Next]_vars
        => Account'
    BY OnlyServerPWrites, UpdateKeepsAccount, OrderKeepsAccount
  <1>3. \A u \in DOMAIN Portfolios : Unique(Portfolios[u])
    BY DEF SoundStart
  <1>4. Spec => []OnePositionPerStock /\ []Covered
    BY <1>3, PositionsStayUnique, CoveredInvariant
  <1>5. QED
    BY <1>1, <1>2, <1>4, AgreedInvariant, TradeInvariant, SharesAreTyped,
       TakenAllInvariant, PTL DEF Spec

(* As long as people type positive numbers, positions stay positive and     *)
(* their average prices are numbers, however many clients buy and sell the  *)
(* same stock of the same user and whatever they answer (updateStock of     *)
(* serverP.cpp trusts the numbers Server M sends).                          *)
THEOREM PositionsStaySound ==
  ASSUME SoundStart
  PROVE  Spec => []SoundPositions
  <1>1. Agreed /\ Account => SoundPositions
    <2>1. SUFFICES ASSUME Agreed, Account, NEW u \in DOMAIN portfolio,
                          NEW h \in Range(portfolio[u])
                   PROVE  h.quantity > 0 /\ h.avgPrice # NaN
      BY DEF SoundPositions
    <2>2. PICK i \in DOMAIN portfolio[u] : h = portfolio[u][i]
      BY DEF Range
    <2>3. PICK s \in Stocks : s = portfolio[u][i].stockName
      BY <2>1, <2>2, HoldingFacts DEF Agreed, IndexInv
    <2>4. h.quantity \in 1 .. Most(u, s) /\ h.avgPrice # NaN
      BY <2>1, <2>2, <2>3 DEF Account
    <2>5. PICK q : q = h.quantity
      OBVIOUS
    <2>6. PICK b : b = Most(u, s)
      OBVIOUS
    <2>7. b \in Nat /\ q \in 1 .. b
      BY <2>4, <2>5, <2>6, MostIsMost
    <2>8. QED
      BY <2>4, <2>5, <2>7
  <1>2. QED
    BY <1>1, AgreedInvariant, AccountInvariant, PTL

----------------------------------------------------------------------------
(* What Server P answers to an update is what was ordered.                  *)

OrderDone == [t |-> "result", op |-> req.op, user |-> Lower[req.user],
              stock |-> req.stock, shares |-> req.shares]

LEMMA UpdateReply ==
  ASSUME SoundStart, Agreed, TradeInv, SharesTyped, TakenAll, Covered,
         OnePositionPerStock, Account,
         PUpdateNew \/ PUpdateReplace \/ PUpdateRemove,
         NEW m, m = Head(toP), NEW u, u = m.user, NEW n, n = req.shares
  PROVE  toM' = Append(toM, OrderDone)
  <1>0. PReceives("update")
    BY DEF PUpdateNew, PUpdateReplace, PUpdateRemove
  <1>1. /\ n \in Int /\ n > 0 /\ n <= MaxHeld
        /\ u = Lower[req.user] /\ m.stock = req.stock /\ req.op \in {"buy", "sell"}
        /\ u \in DOMAIN portfolio /\ portfolio[u] \in Seq(Holding)
        /\ \/ req.op = "buy" /\ m.index = -1 /\ m.shares = n
           \/ \E i \in DOMAIN portfolio[u] :
                /\ m.index = i - 1 /\ portfolio[u][i].stockName = m.stock
                /\ portfolio[u][i].quantity \in 1 .. Most(u, m.stock)
                /\ m.shares = IF req.op = "buy" THEN portfolio[u][i].quantity + n
                                                ELSE portfolio[u][i].quantity - n
                /\ m.shares >= 0
    BY <1>0, UpdateSums
  <1>2. Wrap(n) = n
    <2>1. MaxHeld <= Most(u, m.stock) /\ Most(u, m.stock) <= IntMax
          /\ Most(u, m.stock) \in Nat
      BY MostIsMost
    <2>2. n <= IntMax
      BY <1>1, <2>1, BoundAssumption, IntMaxAssumption
    <2>3. QED
      BY <1>1, <2>2, IntMaxAssumption DEF Wrap
  <1>3. Len(portfolio[u]) \in Nat /\ DOMAIN portfolio[u] = 1 .. Len(portfolio[u])
    BY <1>1, LenProperties
  <1>4. \A op : Result(op, m, n) = [t |-> "result", op |-> op, user |-> Lower[req.user],
                                    stock |-> req.stock, shares |-> req.shares]
    BY <1>1 DEF Result
  <1>5. CASE PUpdateNew
    <2>1. m.index = -1 /\ toM' = Append(toM, Result("buy", m, m.shares))
      BY <1>5 DEF PUpdateNew, PReplies
    <2>2. req.op = "buy" /\ m.shares = n
      BY <1>1, <1>3, <2>1
    <2>3. QED
      BY <1>4, <2>1, <2>2 DEF OrderDone
  <1>6. CASE PUpdateReplace \/ PUpdateRemove
    <2>1. m.index + 1 # 0
      BY <1>6 DEF PUpdateReplace, PUpdateRemove
    <2>2. PICK i \in DOMAIN portfolio[u] :
                /\ m.index = i - 1
                /\ portfolio[u][i].quantity \in 1 .. Most(u, m.stock)
                /\ m.shares = IF req.op = "buy" THEN portfolio[u][i].quantity + n
                                                ELSE portfolio[u][i].quantity - n
      BY <1>1, <2>1
    <2>3. PICK q : q = portfolio[u][i].quantity
      OBVIOUS
    <2>4. q \in Int /\ q > 0 /\ m.index + 1 = i
          /\ m.shares = IF req.op = "buy" THEN q + n ELSE q - n
      BY <1>3, <2>2, <2>3
    <2>5. CASE PUpdateReplace
      <3>1. toM' = Append(toM, IF q > m.shares
                                 THEN Result("sell", m, Wrap(q - m.shares))
                                 ELSE Result("buy", m, Wrap(m.shares - q)))
        BY <2>3, <2>4, <2>5 DEF PUpdateReplace, PReplies
      <3>2. CASE req.op = "buy"
        <4>1. ~(q > m.shares) /\ m.shares - q = n
          BY <1>1, <2>4, <3>2
        <4>2. QED
          BY <1>2, <1>4, <3>1, <3>2, <4>1 DEF OrderDone
      <3>3. CASE req.op = "sell"
        <4>1. q > m.shares /\ q - m.shares = n
          BY <1>1, <2>4, <3>3
        <4>2. QED
          BY <1>2, <1>4, <3>1, <3>3, <4>1 DEF OrderDone
      <3>4. QED
        BY <1>1, <3>2, <3>3
    <2>6. CASE PUpdateRemove
      <3>1. m.shares = 0
        BY <2>6 DEF PUpdateRemove
      <3>2. req.op = "sell" /\ q = n /\ q # 0
        BY <1>1, <2>4, <3>1
      <3>3. toM' = Append(toM, Result("sell", m, q))
        BY <2>3, <2>4, <2>6, <3>2 DEF PUpdateRemove, PReplies
      <3>4. QED
        BY <1>4, <3>2, <3>3 DEF OrderDone
    <2>7. QED
      BY <1>6, <2>5, <2>6
  <1>7. QED
    BY <1>5, <1>6

ResultFits == \A i \in DOMAIN toM : toM[i].t = "result" => toM[i] = OrderDone

LEMMA ResultThere ==
  ASSUME Agreed', [Next]_vars, Agreed, NEW i \in DOMAIN toM', toM'[i].t = "result"
  PROVE  req' = req
  <1>1. FromP(toM'[i])
    BY DEF FromP
  <1>2. mpc' \in WaitsForP \cup Lost
    BY <1>1 DEF Agreed, IndexInv, OneReply
  <1>3. mpc' \notin Lost => "result" \in AnswersOfP'
    BY <1>1 DEF Agreed, PortInv, RepliesOfP, ReplyFits
  <1>4. mpc' \in {"update"} \cup Lost
    BY <1>2, <1>3 DEF AnswersOfP, WaitsForP
  <1>5. QED
    BY <1>4, UpdateUnderWay DEF Agreed, MBuyUpdate, MSellApproved

LEMMA NextKeepsResult ==
  ASSUME SoundStart, Agreed, TradeInv, SharesTyped, TakenAll, Covered,
         OnePositionPerStock, Account, ResultFits, Agreed', [Next]_vars
  PROVE  ResultFits'
  <1>0. toM \in Seq(ReplyFromA \cup ReplyFromQ \cup ReplyFromP)
    BY QueuesTyped
  <1>1. SUFFICES ASSUME NEW i \in DOMAIN toM', toM'[i].t = "result"
                 PROVE  toM'[i] = OrderDone
    BY ResultThere DEF ResultFits, OrderDone
  <1>2. CASE MainStep \/ \E c \in Clients : ServeStep(c)
    BY <1>0, <1>1, <1>2, MainTakes, TailFacts DEF ResultFits
  <1>3. ASSUME NEW m, toM' = Append(toM, m), m.t # "result" \/ m = OrderDone
        PROVE  toM'[i] = OrderDone
    BY <1>0, <1>1, <1>3, AppendFacts DEF ResultFits
  <1>4. CASE toM' = toM
    BY <1>1, <1>4 DEF ResultFits
  <1>5. CASE AuthStep
    BY <1>3, <1>5 DEF AuthStep, AReply
  <1>6. CASE QuoteStep
    BY <1>3, <1>4, <1>6 DEF QuoteStep, QQuote, QQuoteAll, QUpdate
  <1>7. CASE PUpdateNew \/ PUpdateReplace \/ PUpdateRemove
    BY <1>3, <1>7, UpdateReply
  <1>8. CASE PPosition \/ PCheck \/ PRetrieve
    BY <1>3, <1>8, getStockTag DEF PPosition, PCheck, PRetrieve, PReplies
  <1>9. CASE PAnswer \/ PFallsOff
    BY <1>3, <1>4, <1>9 DEF PAnswer, PFallsOff
  <1>10. CASE UNCHANGED vars \/ \E c \in Clients : ClientStep(c)
    BY <1>4, <1>10, ClientsLeaveUdp DEF vars, wireVars, udpVars
  <1>11. QED
    BY <1>2, <1>5, <1>6, <1>7, <1>8, <1>9, <1>10 DEF Next, PortfolioStep

LEMMA ResultsFit ==
  ASSUME SoundStart
  PROVE  Spec => []ResultFits
  <1>1. Init => ResultFits
    BY DEF Init, WireInit, ResultFits
  <1>2. /\ Agreed /\ TradeInv /\ SharesTyped /\ TakenAll /\ Covered
        /\ OnePositionPerStock /\ Account /\ ResultFits /\ Agreed' /\ [Next]_vars
        => ResultFits'
    BY NextKeepsResult
  <1>3. \A u \in DOMAIN Portfolios : Unique(Portfolios[u])
    BY DEF SoundStart
  <1>4. Spec => []OnePositionPerStock /\ []Covered
    BY <1>3, PositionsStayUnique, CoveredInvariant
  <1>5. QED
    BY <1>1, <1>2, <1>4, AgreedInvariant, TradeInvariant, SharesAreTyped,
       TakenAllInvariant, AccountInvariant, PTL DEF Spec

----------------------------------------------------------------------------
(* What a client is told is what it ordered. *)

ResultHere ==
  \A c \in Clients : \A i \in DOMAIN m2c[c] : m2c[c][i].t = "result" =>
    /\ m2c[c][i].op = order[c].op /\ m2c[c][i].stock = order[c].stock
    /\ m2c[c][i].shares = order[c].shares /\ m2c[c][i].user = Lower[member[c]]

LEMMA MainTells ==
  ASSUME Agreed, MainStep
  PROVE  \/ UNCHANGED m2c
         \/ \E m : /\ Deliver(cur, m)
                   /\ m.t = "result" =>
                        mpc = "update" /\ toM # <<>> /\ m = Head(toM)
  <1>1. CASE MAuth \/ MGain \/ MBuyOffer \/ MSellUnknown \/ MSellRefused \/ MSellPass
             \/ MSellOffer
    BY <1>1 DEF MAuth, MGain, MBuyOffer, MSellUnknown, MSellRefused, MSellPass,
       MSellOffer, Hears, Verdict
  <1>2. CASE MQuoteReply
    <2>1. mpc = "quote" /\ Head(toM).t = req.t /\ Deliver(cur, Head(toM))
      BY <1>2 DEF MQuoteReply, Hears
    <2>2. req.t \in OfQ
      BY <2>1 DEF Agreed, QuoteInv, QuoteAsked, Lost
    <2>3. QED
      BY <2>1, <2>2 DEF OfQ
  <1>3. CASE MResult
    BY <1>3 DEF MResult, Hears
  <1>4. CASE MPortfolio \/ MBuyDenied \/ MBuyApproved \/ MBuyUpdate \/ MBuyNobody
             \/ MBuyThrows \/ MSellQuoted \/ MSellChecked \/ MSellDenied
             \/ MSellApproved \/ MSigPipe \/ MMisread
    BY <1>4 DEF MPortfolio, MBuyDenied, MBuyApproved, MBuyUpdate, MBuyNobody,
       MBuyThrows, MSellQuoted, MSellChecked, MSellDenied, MSellApproved, MSigPipe,
       MMisread, HearsClient, tcpVars, wireVars
  <1>5. QED
    BY <1>1, <1>2, <1>3, <1>4 DEF MainStep

LEMMA MainKeepsHere ==
  ASSUME Agreed, ResultFits, ResultHere, MainStep
  PROVE  ResultHere'
  <1>0. ViewTyped /\ UNCHANGED <<order, member>>
        /\ toM \in Seq(ReplyFromA \cup ReplyFromQ \cup ReplyFromP)
    BY QueuesTyped DEF Agreed, DialogueInv, MainStep, cVars
  <1>1. SUFFICES ASSUME NEW c \in Clients, NEW i \in DOMAIN m2c'[c],
                        m2c'[c][i].t = "result"
                 PROVE  /\ m2c'[c][i].op = order[c].op
                        /\ m2c'[c][i].stock = order[c].stock
                        /\ m2c'[c][i].shares = order[c].shares
                        /\ m2c'[c][i].user = Lower[member[c]]
    BY <1>0 DEF ResultHere
  <1>2. CASE m2c'[c] = m2c[c]
    BY <1>1, <1>2 DEF ResultHere
  <1>3. ASSUME NEW m, Deliver(cur, m), c = cur, conn[c] = "open",
               m.t = "result" => mpc = "update" /\ toM # <<>> /\ m = Head(toM)
        PROVE  /\ m2c'[c][i].op = order[c].op
               /\ m2c'[c][i].stock = order[c].stock
               /\ m2c'[c][i].shares = order[c].shares
               /\ m2c'[c][i].user = Lower[member[c]]
    <2>1. m2c'[c] = Append(m2c[c], m) /\ m2c[c] \in Seq(ToClient)
      BY <1>0, <1>3, DeliverFacts DEF ViewTyped
    <2>2. (i \in DOMAIN m2c[c] /\ m2c'[c][i] = m2c[c][i]) \/ m2c'[c][i] = m
      BY <1>1, <2>1, AppendFacts
    <2>3. CASE i \in DOMAIN m2c[c] /\ m2c'[c][i] = m2c[c][i]
      BY <1>1, <2>3 DEF ResultHere
    <2>4. CASE m2c'[c][i] = m
      <3>1. mpc = "update" /\ m = toM[1] /\ 1 \in DOMAIN toM /\ m.t = "result"
        BY <1>1, <1>3, <2>4, QueuesTyped
      <3>2. m = OrderDone
        BY <3>1 DEF ResultFits
      <3>3. Served(c) /\ cpc[c] # "gone"
        BY <1>3, <3>1 DEF Served, Programs, Agreed, DialogueInv, Talk, TalkOf
      <3>4. IsOrder(c, req)
        BY <3>1, <3>3 DEF Agreed, DialogueInv, Talk, TalkOf, Serve
      <3>5. /\ m.op = req.op /\ m.stock = req.stock /\ m.shares = req.shares
            /\ m.user = Lower[req.user]
        BY <3>2 DEF OrderDone
      <3>6. QED
        BY <2>4, <3>4, <3>5 DEF IsOrder
    <2>5. QED
      BY <2>2, <2>3, <2>4
  <1>4. CASE UNCHANGED m2c
    BY <1>2, <1>4
  <1>5. ASSUME NEW m, Deliver(cur, m),
               m.t = "result" => mpc = "update" /\ toM # <<>> /\ m = Head(toM)
        PROVE  (c = cur /\ conn[c] = "open") \/ m2c'[c] = m2c[c]
    BY <1>0, <1>5, MainSends
  <1>6. QED
    BY <1>2, <1>3, <1>4, <1>5, MainTells

LEMMA ClientKeepsHere ==
  ASSUME Agreed, GoneDeaf, ResultHere, NEW c \in Clients, ClientStep(c)
  PROVE  ResultHere'
  <1>0. ViewTyped
    BY DEF Agreed, DialogueInv
  <1>1. ASSUME NEW d \in Clients, d # c
        PROVE  UNCHANGED <<m2c[d], order[d], member[d]>>
    BY <1>1, OthersView DEF SameView
  <1>2. m2c'[c] = <<>>
    <2>1. CASE m2c[c] = <<>>
      BY <1>0, <2>1, ClientHears
    <2>2. CASE m2c[c] # <<>>
      <3>1. cpc[c] \notin AtKeyboard
        BY <2>2, ArrivedFits DEF AtSocket, AtKeyboard
      <3>2. ReceiveStep(c) \/ CLeave(c)
        BY <3>1 DEF ClientStep, AnswerStep, CAnswer, CommandStep, CLogin, CAsk, CTrade,
           AtPrompt, AtKeyboard
      <3>3. QED
        BY <1>0, <3>2 DEF ViewTyped, ReceiveStep, CAuth, CShow, CValid, COffer,
           CNoSuchStock, CResult, Receives, CLeave, HangUp
    <2>3. QED
      BY <2>1, <2>2
  <1>3. QED
    BY <1>1, <1>2 DEF ResultHere

LEMMA NextKeepsHere ==
  ASSUME Agreed, GoneDeaf, ResultFits, ResultHere, [Next]_vars
  PROVE  ResultHere'
  <1>1. CASE AuthStep \/ QuoteStep \/ PortfolioStep \/ UNCHANGED vars
    BY <1>1, ServersSendNobody DEF ResultHere, tcpVars, cVars
  <1>2. CASE MainStep
    BY <1>2, MainKeepsHere
  <1>3. ASSUME NEW c \in Clients, ServeStep(c)
        PROVE  ResultHere'
    <2>1. UNCHANGED <<m2c, cVars>>
      BY <1>3 DEF ServeStep, MLogin, MPosition, MTransact, MQuote, MClose, Reads
    <2>2. QED
      BY <2>1 DEF ResultHere, cVars
  <1>4. CASE \E c \in Clients : ClientStep(c)
    BY <1>4, ClientKeepsHere
  <1>5. QED
    BY <1>1, <1>2, <1>3, <1>4 DEF Next

(* The result a client shows is the order that it placed itself, not that   *)
(* of another client and not what updateStock of serverP.cpp happens to     *)
(* infer from the old and the new quantity: as long as positive numbers are *)
(* typed and no int overflows, the inference is right.                      *)
THEOREM ResultsAreTheOrders ==
  ASSUME SoundStart
  PROVE  Spec => []ResultIsTheOrder
  <1>1. Init => ResultHere
    BY DEF Init, WireInit, ResultHere
  <1>2. Agreed /\ GoneDeaf /\ ResultFits /\ ResultHere /\ [Next]_vars => ResultHere'
    BY NextKeepsHere
  <1>3. ResultHere => ResultIsTheOrder
    <2>1. SUFFICES ASSUME ResultHere, NEW c \in Clients, NEW m \in Range(m2c[c]),
                          m.t = "result"
                   PROVE  /\ <<m.op, m.stock, m.shares>>
                               = <<order[c].op, order[c].stock, order[c].shares>>
                          /\ m.user = Lower[member[c]]
      BY DEF ResultIsTheOrder
    <2>2. PICK i \in DOMAIN m2c[c] : m = m2c[c][i]
      BY DEF Range
    <2>3. QED
      BY <2>1, <2>2 DEF ResultHere
  <1>4. QED
    BY <1>1, <1>2, <1>3, AgreedInvariant, GoneHearNothing, ResultsFit, PTL DEF Spec

----------------------------------------------------------------------------
(* What a trade does to the average price: rounding, and division.          *)

LEMMA DivFacts ==
  ASSUME NEW x \in Int, NEW d \in Int, d > 0
  PROVE  x \div d \in Int /\ d * (x \div d) <= x /\ x < d * (x \div d) + d
  OBVIOUS

(* The nearest whole number is at most one half away. *)
LEMMA RoundDivNear ==
  ASSUME NEW a \in Int, NEW b \in Int, b > 0
  PROVE  /\ RoundDiv(a, b) \in Int
         /\ 2 * (b * RoundDiv(a, b)) <= 2 * a + b
         /\ 2 * a + b < 2 * (b * RoundDiv(a, b)) + 2 * b
  <1>1. PICK x \in Int : x = 2 * a + b
    OBVIOUS
  <1>2. PICK d \in Int : d = 2 * b /\ d > 0
    OBVIOUS
  <1>3. PICK k \in Int : k = x \div d
    BY <1>2, DivFacts
  <1>4. RoundDiv(a, b) = k
    BY <1>1, <1>2, <1>3 DEF RoundDiv
  <1>5. d * k <= x /\ x < d * k + d
    BY <1>2, <1>3, DivFacts
  <1>6. d * k = 2 * (b * k)
    BY <1>2
  <1>7. QED
    BY <1>1, <1>2, <1>4, <1>5, <1>6

(* ... and stays between whole numbers that the quotient is between. *)
LEMMA RoundDivBetween ==
  ASSUME NEW x \in Int, NEW b \in Int, b > 0, NEW k \in Int
  PROVE  /\ b * k <= x => k <= RoundDiv(x, b)
         /\ x <= b * k => RoundDiv(x, b) <= k
  <1>1. PICK r \in Int : r = RoundDiv(x, b)
    BY RoundDivNear
  <1>2. PICK t \in Int : t = b * r
    OBVIOUS
  <1>3. 2 * t <= 2 * x + b /\ 2 * x + b < 2 * t + 2 * b
    BY <1>1, <1>2, RoundDivNear
  <1>4. \A c \in Int : c >= 1 => b * c >= b
    OBVIOUS
  <1>5. ASSUME b * k <= x, r < k PROVE FALSE
    <2>1. b * (k - r) >= b
      BY <1>4, <1>5
    <2>2. b * (k - r) = b * k - t
      BY <1>2
    <2>3. b * k \in Int
      OBVIOUS
    <2>4. QED
      BY <1>3, <1>5, <2>1, <2>2, <2>3
  <1>6. ASSUME x <= b * k, k < r PROVE FALSE
    <2>1. b * (r - k) >= b
      BY <1>4, <1>6
    <2>2. b * (r - k) = t - b * k
      BY <1>2
    <2>3. b * k \in Int
      OBVIOUS
    <2>4. QED
      BY <1>3, <1>6, <2>1, <2>2, <2>3
  <1>7. QED
    BY <1>1, <1>5, <1>6

LEMMA RoundedNear ==
  ASSUME NEW p \in Int
  PROVE  RoundCent(p) \in Int /\ 2 * Abs(RoundCent(p) - p) <= Cent
  <1>1. PICK k \in Int : k = RoundDiv(p, Cent)
    BY CentAssumption, RoundDivNear
  <1>2. PICK t \in Int : t = Cent * k
    BY CentAssumption
  <1>3. 2 * t <= 2 * p + Cent /\ 2 * p + Cent < 2 * t + 2 * Cent
    BY <1>1, <1>2, CentAssumption, RoundDivNear
  <1>4. RoundCent(p) = t
    BY <1>1, <1>2, NaNAssumption DEF RoundCent
  <1>5. t - p \in Int /\ 2 * (t - p) <= Cent /\ 2 * (-(t - p)) <= Cent
    BY <1>3, CentAssumption
  <1>6. QED
    BY <1>4, <1>5 DEF Abs

LEMMA OpenedAtOffer ==
  ASSUME NEW n \in Int, n > 0, NEW p \in Int
  PROVE  avgBuyPrice(n, p) = p
  <1>1. PICK x \in Int : x = n * p
    OBVIOUS
  <1>2. PICK r \in Int : r = RoundDiv(x, n)
    BY RoundDivNear
  <1>3. p <= r /\ r <= p
    BY <1>1, <1>2, RoundDivBetween
  <1>4. avgBuyPrice(n, p) = r
    BY <1>1, <1>2, NaNAssumption DEF avgBuyPrice, Ratio
  <1>5. QED
    BY <1>3, <1>4

(* An average of two prices is between them. *)
LEMMA AddedBetween ==
  ASSUME NEW n \in Int, n > 0, NEW p \in Int, NEW q \in Int, q > 0, NEW a \in Int,
         n + q <= IntMax
  PROVE  avgBuyPriceNew(n, p, q, a) \in (IF a <= p THEN a .. p ELSE p .. a)
  <1>1. Wrap(n + q) = n + q
    BY AddedPrice
  <1>2. avgBuyPrice(q, a) = a /\ avgBuyPrice(n, p) = p /\ NaN \notin {a, p}
    BY OpenedAtOffer, NaNAssumption
  <1>3. PICK x \in Int : x = q * a + n * p
    OBVIOUS
  <1>4. PICK b \in Int : b = n + q /\ b > 0
    OBVIOUS
  <1>5. avgBuyPriceNew(n, p, q, a) = RoundDiv(x, b)
    BY <1>1, <1>2, <1>3, <1>4 DEF avgBuyPriceNew, Ratio
  <1>6. ASSUME NEW k \in Int
        PROVE  /\ k <= a /\ k <= p => b * k <= x
               /\ a <= k /\ p <= k => x <= b * k
    <2>1. b * k = q * k + n * k
      BY <1>4
    <2>2. \A c, d, e \in Int : c > 0 /\ d <= e => c * d <= c * e
      OBVIOUS
    <2>3. (k <= a => q * k <= q * a) /\ (k <= p => n * k <= n * p)
      BY <2>2
    <2>4. (a <= k => q * a <= q * k) /\ (p <= k => n * p <= n * k)
      BY <2>2
    <2>5. q * k \in Int /\ n * k \in Int /\ q * a \in Int /\ n * p \in Int
      OBVIOUS
    <2>6. QED
      BY <1>3, <2>1, <2>3, <2>4, <2>5
  <1>7. PICK r \in Int : r = RoundDiv(x, b)
    BY <1>4, RoundDivNear
  <1>8. \A k \in Int : /\ k <= a /\ k <= p => k <= r
                       /\ a <= k /\ p <= k => r <= k
    BY <1>4, <1>6, <1>7, RoundDivBetween
  <1>9. QED
    BY <1>5, <1>7, <1>8

(* Of a position that keeps its stock and changes its quantity: which order *)
(* did it, and what became of the price.                                    *)
LEMMA TradedPrice ==
  ASSUME SoundStart, Agreed, TradeInv, SharesTyped, TakenAll, Covered,
         OnePositionPerStock, Account,
         PUpdateNew \/ PUpdateReplace \/ PUpdateRemove,
         NEW u \in DOMAIN portfolio, NEW i \in DOMAIN portfolio[u], Kept(u, i),
         NEW q, q = portfolio[u][i].quantity, portfolio'[u][i].quantity # q,
         NEW n, n = req.shares, NEW a, a = RoundCent(portfolio[u][i].avgPrice)
  PROVE  /\ n \in Int /\ n > 0 /\ q \in Int /\ q > 0
         /\ portfolio[u][i].avgPrice \in Int
         /\ \/ /\ req.op = "sell" /\ portfolio'[u][i].quantity = q - n
               /\ portfolio'[u][i].avgPrice = a
            \/ /\ req.op = "buy" /\ portfolio'[u][i].quantity = q + n
               /\ n + q <= IntMax
               /\ CurrentPrice(portfolio[u][i].stockName) \in Int
               /\ portfolio'[u][i].avgPrice =
                    avgBuyPriceNew(n, CurrentPrice(portfolio[u][i].stockName), q, a)
  <1>0. ServerTypeOK /\ IndexInv
    BY DEF Agreed, IndexInv
  <1>1. PICK m : m = Head(toP)
    OBVIOUS
  <1>2. /\ PReceives("update") /\ u = m.user /\ i = m.index + 1
        /\ portfolio'[u][i].quantity = m.shares
        /\ portfolio'[u][i].avgPrice = m.price
    BY <1>0, <1>1, KeptChanges
  <1>3. portfolio[u] \in Seq(Holding)
    BY <1>0 DEF ServerTypeOK
  <1>4. Len(portfolio[u]) \in Nat /\ DOMAIN portfolio[u] = 1 .. Len(portfolio[u])
    BY <1>3, LenProperties
  <1>5. /\ n \in Int /\ n > 0 /\ n <= MaxHeld
        /\ m.stock = req.stock /\ req.op \in {"buy", "sell"}
        /\ req.op = "buy" => \E c \in Clients : c = cur /\ Buying(c, u, m.stock)
        /\ \/ req.op = "buy" /\ m.index = -1 /\ m.shares = n
           \/ \E k \in DOMAIN portfolio[u] :
                /\ m.index = k - 1 /\ portfolio[u][k].stockName = m.stock
                /\ portfolio[u][k].quantity \in 1 .. Most(u, m.stock)
                /\ m.shares = IF req.op = "buy" THEN portfolio[u][k].quantity + n
                                                ELSE portfolio[u][k].quantity - n
                /\ m.shares >= 0
    <2>1. PReceives("update") /\ u = m.user
      BY <1>2
    <2>2. QED
      BY <1>1, <2>1, UpdateSums
  <1>6. /\ portfolio[u][i].stockName = m.stock /\ q \in 1 .. Most(u, m.stock)
        /\ m.shares = IF req.op = "buy" THEN q + n ELSE q - n
    BY <1>2, <1>4, <1>5
  <1>7. /\ offer = QuoteOf(req.stock) /\ (req.op = "buy" => offer \in Int)
        /\ \/ req.op = "buy" /\ m.index = -1
           \/ \E k \in DOMAIN portfolio[u] :
                /\ m.index = k - 1
                /\ req.op = "buy" =>
                     m.price = avgBuyPriceNew(n, offer, portfolio[u][k].quantity,
                                              RoundCent(portfolio[u][k].avgPrice))
                /\ req.op = "sell" => m.price = RoundCent(portfolio[u][k].avgPrice)
    BY <1>1, <1>2, UpdateIs
  <1>8. /\ req.op = "buy" => m.price = avgBuyPriceNew(n, offer, q, a)
        /\ req.op = "sell" => m.price = a
    BY <1>2, <1>4, <1>7
  <1>9. q \in Int /\ q > 0 /\ q <= Most(u, m.stock) /\ Most(u, m.stock) \in Nat
    BY <1>6, MostIsMost
  <1>10. portfolio[u][i].avgPrice \in Int
    BY <1>0, HoldingFacts DEF Account, Money
  <1>11. CASE req.op = "buy"
    <2>1. offer = CurrentPrice(m.stock) /\ offer \in Int
      BY <1>5, <1>7, <1>11, NAAssumption DEF QuoteOf
    <2>2. Most(u, m.stock) + MaxHeld <= IntMax
      BY <1>5, <1>11, MostIsMost
    <2>3. n + q <= IntMax
      BY <1>5, <1>9, <2>2, BoundAssumption, IntMaxAssumption
    <2>4. QED
      BY <1>2, <1>5, <1>6, <1>8, <1>9, <1>10, <1>11, <2>1, <2>3
  <1>12. QED
    BY <1>2, <1>5, <1>6, <1>8, <1>9, <1>10, <1>11

LEMMA SellsKeepPrice ==
  ASSUME SoundStart, Agreed, TradeInv, SharesTyped, TakenAll, Covered,
         OnePositionPerStock, Account, [Next]_vars
  PROVE  [\A u \in DOMAIN portfolio : \A i \in DOMAIN portfolio[u] :
            Sold(u, i) =>
              2 * Abs(portfolio'[u][i].avgPrice - portfolio[u][i].avgPrice) <= Cent
         ]_portfolio
  <1>1. SUFFICES ASSUME PUpdateNew \/ PUpdateReplace \/ PUpdateRemove,
                        NEW u \in DOMAIN portfolio, NEW i \in DOMAIN portfolio[u],
                        Sold(u, i)
                 PROVE  2 * Abs(portfolio'[u][i].avgPrice - portfolio[u][i].avgPrice)
                          <= Cent
    BY OnlyServerPWrites
  <1>2. PICK q : q = portfolio[u][i].quantity
    OBVIOUS
  <1>3. PICK n : n = req.shares
    OBVIOUS
  <1>4. PICK p : p = portfolio[u][i].avgPrice
    OBVIOUS
  <1>5. PICK a : a = RoundCent(p)
    OBVIOUS
  <1>6. Kept(u, i) /\ portfolio'[u][i].quantity < q
    BY <1>1, <1>2 DEF Sold
  <1>7. q \in Int
    BY <1>1, <1>2, QuantityInt DEF Agreed, IndexInv
  <1>8. portfolio'[u][i].quantity # q
    BY <1>6, <1>7
  <1>9. /\ n \in Int /\ n > 0 /\ p \in Int
        /\ \/ portfolio'[u][i].quantity = q - n /\ portfolio'[u][i].avgPrice = a
           \/ portfolio'[u][i].quantity = q + n
    BY <1>1, <1>2, <1>3, <1>4, <1>5, <1>6, <1>8, TradedPrice
  <1>10. portfolio'[u][i].avgPrice = a
    BY <1>6, <1>7, <1>9
  <1>11. QED
    BY <1>4, <1>5, <1>9, <1>10, RoundedNear

LEMMA BuysAverage ==
  ASSUME SoundStart, Agreed, TradeInv, SharesTyped, TakenAll, Covered,
         OnePositionPerStock, Account, [Next]_vars
  PROVE  [\A u \in DOMAIN portfolio : \A i \in DOMAIN portfolio[u] :
            Added(u, i) =>
              LET old  == RoundCent(portfolio[u][i].avgPrice)
                  paid == CurrentPrice(portfolio[u][i].stockName)
              IN  portfolio'[u][i].avgPrice \in
                    (IF old <= paid THEN old .. paid ELSE paid .. old)
         ]_portfolio
  <1>1. SUFFICES ASSUME PUpdateNew \/ PUpdateReplace \/ PUpdateRemove,
                        NEW u \in DOMAIN portfolio, NEW i \in DOMAIN portfolio[u],
                        Added(u, i), NEW a, a = RoundCent(portfolio[u][i].avgPrice),
                        NEW p, p = CurrentPrice(portfolio[u][i].stockName)
                 PROVE  portfolio'[u][i].avgPrice \in IF a <= p THEN a .. p ELSE p .. a
    BY OnlyServerPWrites
  <1>2. PICK q : q = portfolio[u][i].quantity
    OBVIOUS
  <1>3. PICK n : n = req.shares
    OBVIOUS
  <1>4. Kept(u, i) /\ portfolio'[u][i].quantity > q
    BY <1>1, <1>2 DEF Added
  <1>5. q \in Int
    BY <1>1, <1>2, QuantityInt DEF Agreed, IndexInv
  <1>6. portfolio'[u][i].quantity # q
    BY <1>4, <1>5
  <1>7. /\ n \in Int /\ n > 0 /\ q > 0 /\ portfolio[u][i].avgPrice \in Int
        /\ \/ portfolio'[u][i].quantity = q - n
           \/ /\ portfolio'[u][i].quantity = q + n /\ n + q <= IntMax /\ p \in Int
              /\ portfolio'[u][i].avgPrice = avgBuyPriceNew(n, p, q, a)
    BY <1>1, <1>2, <1>3, <1>4, <1>6, TradedPrice
  <1>8. a \in Int
    BY <1>1, <1>7, RoundedNear
  <1>9. /\ n + q <= IntMax /\ p \in Int
        /\ portfolio'[u][i].avgPrice = avgBuyPriceNew(n, p, q, a)
    BY <1>4, <1>5, <1>7
  <1>10. avgBuyPriceNew(n, p, q, a) \in IF a <= p THEN a .. p ELSE p .. a
    BY <1>5, <1>7, <1>8, <1>9, AddedBetween
  <1>11. QED
    BY <1>9, <1>10

(* A sell leaves the average price where it was, to the half cent that      *)
(* getStock's two decimals lose: serverM.cpp sends back with the update the *)
(* price it read before the person was asked, and by then no other trade    *)
(* has changed it.                                                          *)
THEOREM SellsKeepTheAverage ==
  ASSUME SoundStart
  PROVE  Spec => SellKeepsAverage
  <1>1. /\ Agreed /\ TradeInv /\ SharesTyped /\ TakenAll /\ Covered
        /\ OnePositionPerStock /\ Account /\ [Next]_vars
        => [\A u \in DOMAIN portfolio : \A i \in DOMAIN portfolio[u] :
              Sold(u, i) =>
                2 * Abs(portfolio'[u][i].avgPrice - portfolio[u][i].avgPrice) <= Cent
           ]_portfolio
    BY SellsKeepPrice
  <1>2. \A u \in DOMAIN Portfolios : Unique(Portfolios[u])
    BY DEF SoundStart
  <1>3. Spec => []OnePositionPerStock /\ []Covered
    BY <1>2, PositionsStayUnique, CoveredInvariant
  <1>4. QED
    BY <1>1, <1>3, AgreedInvariant, TradeInvariant, SharesAreTyped, TakenAllInvariant,
       AccountInvariant, PTL DEF Spec, SellKeepsAverage

(* Buying more of a stock moves its average price to between the old        *)
(* average and the price at Server Q when Server P writes it: avgBuyPrice   *)
(* and the division in MBuyUpdate neither overflow nor overshoot, and the   *)
(* price the person said Y to has not been passed meanwhile.                *)
THEOREM BuysAverageBetween ==
  ASSUME SoundStart
  PROVE  Spec => BuyAveragesBetween
  <1>1. /\ Agreed /\ TradeInv /\ SharesTyped /\ TakenAll /\ Covered
        /\ OnePositionPerStock /\ Account /\ [Next]_vars
        => [\A u \in DOMAIN portfolio : \A i \in DOMAIN portfolio[u] :
              Added(u, i) =>
                LET old  == RoundCent(portfolio[u][i].avgPrice)
                    paid == CurrentPrice(portfolio[u][i].stockName)
                IN  portfolio'[u][i].avgPrice \in
                      (IF old <= paid THEN old .. paid ELSE paid .. old)
           ]_portfolio
    BY BuysAverage
  <1>2. \A u \in DOMAIN Portfolios : Unique(Portfolios[u])
    BY DEF SoundStart
  <1>3. Spec => []OnePositionPerStock /\ []Covered
    BY <1>2, PositionsStayUnique, CoveredInvariant
  <1>4. QED
    BY <1>1, <1>3, AgreedInvariant, TradeInvariant, SharesAreTyped, TakenAllInvariant,
       AccountInvariant, PTL DEF Spec, BuyAveragesBetween
=============================================================================
