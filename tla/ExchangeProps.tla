--------------------------- MODULE ExchangeProps ---------------------------
(***************************************************************************)
(* What the exchange must keep true, stated over the state of all five     *)
(* programs.                                                               *)
(***************************************************************************)
EXTENDS Exchange

UpdatesToP == {m \in Range(toP) : m.t = "update"}

AwaitsDatagram == Awaited # {}

(* Requests that will be answered, and answers, now between the servers:    *)
(* which queue each is in, and where.                                       *)
Pending ==
       {"A"} \X DOMAIN toA
  \cup {"Q"} \X {i \in DOMAIN toQ : toQ[i].t # "update"}
  \cup {"P"} \X {i \in DOMAIN toP : toP[i].t # "answer"}
  \cup {"M"} \X DOMAIN toM

(* Server M matches a reply to its question only by the order of arrival on *)
(* one socket (UDPrecv looks at no sender): so there must be exactly one    *)
(* question or answer under way while M waits, none while it does not, and  *)
(* the answer must be of the type M is about to parse.                      *)
OneConversation ==
  /\ AwaitsDatagram => \E d \in Pending : Pending = {d}
  /\ ~AwaitsDatagram => Pending = {}
  /\ \A m \in Range(toM) : m.t \in Awaited

(* The same as far as it goes when answers other than Y and N, junk from    *)
(* Server P and the end of its process are reckoned with: M never waits for *)
(* a reply that no server has been asked for (UDPrecv has no timeout).      *)
NeverWaitsInVain == AwaitsDatagram => Pending # {}

(* A client blocked in recv is not forgotten: its message is on the way to  *)
(* M, M is serving it, or the reply waits for it, and that reply is of the  *)
(* kind the client is about to parse.                                       *)
NobodyForgotten ==
  \A c \in Clients :
    /\ cpc[c] \in AtSocket => c2m[c] # <<>> \/ cur = c \/ m2c[c] # <<>>
    /\ m2c[c] # <<>> =>
         Head(m2c[c]).t \in
           CASE cpc[c] = "auth"   -> {"credentials"}
             [] cpc[c] = "show"   -> {"quote", "quoteall", "gain"}
             [] cpc[c] = "valid"  -> {"verdict"}
             [] cpc[c] = "offer"  -> {"quote"}
             [] cpc[c] = "result" -> {"result"}
             [] OTHER             -> {}

(* The vector index Server P hands out with a position is used much later,  *)
(* after the person has answered: when the update arrives, that index must  *)
(* still hold the stock, and -1 must still mean there is none.              *)
FreshIndex ==
  \A m \in UpdatesToP :
    /\ m.user \in DOMAIN portfolio
    /\ IF m.index = -1
         THEN FirstOf(m.user, m.stock) = 0
         ELSE /\ m.index + 1 \in DOMAIN portfolio[m.user]
              /\ portfolio[m.user][m.index + 1].stockName = m.stock

(* Why the index stays fresh, from any number of clients, whatever they     *)
(* type and whenever they leave: M has at most one question or update at    *)
(* Server P, whose reply it has not read, so nobody else's update can come  *)
(* between the retrieve and the update of one order (UDPrecv after every    *)
(* UDPsend to PORT_PORT that is answered).                                  *)
WaitsForP == {"portfolio", "sell_check", "buy_held", "sell_held", "update"}
Trading   == {"offer", "buy_answer", "buy_held", "sell_check", "sell_held",
              "sell_sleep", "sell_answer", "update"}
Lost      == {"desync", "dead"}

FromP(m) == m.t \in {"position", "check", "held", "result", "nothing"}

Serving ==
  /\ mpc \in Programs => cur \in Clients
  /\ mpc \in Trading => req \in ClientMsg /\ req.t = "transact"

OneQuestion ==
  \A i \in DOMAIN toP : toP[i].t # "answer" =>
    i = Len(toP) /\ mpc \in WaitsForP \cup Lost

OneReply ==
  \A i \in DOMAIN toM : FromP(toM[i]) =>
    /\ mpc \in WaitsForP \cup Lost
    /\ \A j \in DOMAIN toP : toP[j].t = "answer"
    /\ \A j \in DOMAIN toM : FromP(toM[j]) => j = i

(* What an index says of the portfolio it came from. *)
Valid(m) ==
  /\ m.user \in DOMAIN portfolio
  /\ IF m.index = -1
       THEN \A i \in DOMAIN portfolio[m.user] :
              portfolio[m.user][i].stockName # m.stock
       ELSE /\ m.index + 1 \in DOMAIN portfolio[m.user]
            /\ portfolio[m.user][m.index + 1].stockName = m.stock

ValidReply ==
  \A i \in DOMAIN toM :
    toM[i].t = "held" /\ toM[i].stock # NA => Valid(toM[i])

ValidPos ==
  mpc \in {"sell_sleep", "sell_answer"} =>
    pos \in ReplyFromP /\ pos.t = "held" /\ pos.shares # NA /\ Valid(pos)

ValidUpdate ==
  \A i \in DOMAIN toP : toP[i].t = "update" => Valid(toP[i])

IndexInv ==
  /\ ServerTypeOK /\ Serving
  /\ OneQuestion /\ OneReply
  /\ ValidReply /\ ValidPos /\ ValidUpdate

(* The price a person is asked to accept, and is charged, is the current    *)
(* price at Server Q from the moment M read it until the trade is done.     *)
FreshOffer ==
  mpc \in {"buy_answer", "buy_held", "sell_check", "sell_held",
           "sell_sleep", "sell_answer", "update"} =>
    offer = QuoteOf(req.stock)

(* Whenever a person is looking at "Proceed? (Y/N)", M waits for that       *)
(* person's answer about that very order, at the price on the screen.       *)
AskedIsServed ==
  \A c \in Clients : cpc[c] = "confirm" =>
    /\ cur = c
    /\ mpc = IF order[c].op = "buy" THEN "buy_answer" ELSE "sell_answer"
    /\ <<req.op, req.stock, req.shares>>
         = <<order[c].op, order[c].stock, order[c].shares>>
    /\ Lower[req.user] = Lower[member[c]]
    /\ seen[c] = offer

(* An update that reaches Server P changes the position of the client being *)
(* served, in the stock it named, by the shares it named.                   *)
TradeAsOrdered ==
  \A m \in UpdatesToP :
    /\ m.user = Lower[req.user]
    /\ m.stock = req.stock
    /\ m.shares = Wrap(HeldBy(m.user, m.stock) +
                       (IF req.op = "buy" THEN req.shares ELSE -req.shares))

(* "The server only updates a user's portfolio with their permission"       *)
(* (README.md:13): an update on its way to Server P follows a Y.            *)
OnlyWithPermission ==
  UpdatesToP # {} => confirmation = "Y"

(* The result a client displays is the order it placed: operation, stock    *)
(* and number of shares (updateStock infers all but the stock).             *)
ResultIsTheOrder ==
  \A c \in Clients : \A m \in Range(m2c[c]) :
    m.t = "result" =>
      /\ <<m.op, m.stock, m.shares>>
           = <<order[c].op, order[c].stock, order[c].shares>>
      /\ m.user = Lower[member[c]]

(* However trades interleave and whatever is typed, a user never has two    *)
(* positions in one stock (getStock would find the first, checkStock the    *)
(* last).                                                                   *)
OnePositionPerStock ==
  \A u \in DOMAIN portfolio : \A i, j \in DOMAIN portfolio[u] :
    portfolio[u][i].stockName = portfolio[u][j].stockName => i = j

(* As long as people type positive numbers, every position has shares in it *)
(* and an average price that is a number.                                   *)
SoundPositions ==
  \A u \in DOMAIN portfolio : \A h \in Range(portfolio[u]) :
    h.quantity > 0 /\ h.avgPrice # NaN

(* The portfolio and the quotes that M combines into a gain come from two   *)
(* servers at two moments: both must still be current when M adds them up.  *)
GainIsCurrent ==
  mpc = "prices" /\ toM # <<>> =>
    /\ pos.held = getPortfolio(Lower[req.user])
    /\ Head(toM).prices = [s \in Listed |-> CurrentPrice(s)]

(* Past the login a client is somebody whose password Server A accepted,    *)
(* also when several log in at once and their replies cross the servers.    *)
Authenticated ==
  \A c \in Clients : cpc[c] \notin {"login", "auth", "gone"} =>
    \E pair \in LoginAs[c] :
      /\ pair[1] = member[c]
      /\ Lower[pair[1]] \in DOMAIN Members
      /\ Members[Lower[pair[1]]] = Encrypt[pair[2]]

----------------------------------------------------------------------------
Abs(x) == IF x < 0 THEN -x ELSE x

(* The step keeps position i of user u, with fewer or with more shares. *)
Kept(u, i) ==
  /\ i \in DOMAIN portfolio[u] \cap DOMAIN portfolio'[u]
  /\ portfolio'[u][i].stockName = portfolio[u][i].stockName
Sold(u, i) ==
  Kept(u, i) /\ portfolio'[u][i].quantity < portfolio[u][i].quantity
Added(u, i) ==
  Kept(u, i) /\ portfolio'[u][i].quantity > portfolio[u][i].quantity

(* A sell leaves the average price of the remaining shares where it was,    *)
(* to within the half cent lost when M writes back the price that getStock  *)
(* printed.                                                                 *)
SellKeepsAverage ==
  [][\A u \in DOMAIN portfolio : \A i \in DOMAIN portfolio[u] :
       Sold(u, i) =>
         2 * Abs(portfolio'[u][i].avgPrice - portfolio[u][i].avgPrice) <= Cent
    ]_portfolio

(* Buying more of a stock moves its average price to somewhere between the  *)
(* old average (to the half cent) and the price paid.                       *)
BuyAveragesBetween ==
  [][\A u \in DOMAIN portfolio : \A i \in DOMAIN portfolio[u] :
       Added(u, i) =>
         LET old  == RoundCent(portfolio[u][i].avgPrice)
             paid == CurrentPrice(portfolio[u][i].stockName)
         IN  portfolio'[u][i].avgPrice \in
               (IF old <= paid THEN old .. paid ELSE paid .. old)
    ]_portfolio

(* Whatever is typed, and whoever leaves, a sell of a positive number of    *)
(* shares never takes a position below zero.                                *)
NoOversell ==
  [][\A u \in DOMAIN portfolio : \A i \in DOMAIN portfolio[u] :
       Sold(u, i) /\ req.op = "sell" /\ req.shares > 0 =>
         portfolio'[u][i].quantity > 0
    ]_portfolio

(* Nobody is left waiting in recv, with nothing under way to or from Server *)
(* M and M's next word not due to him, in any way but four: M reads his N   *)
(* together with the command he typed behind it (operationType looks at the *)
(* first field only), he reads PASS and the quote as one text, he buys and  *)
(* has no portfolio, or he orders no shares (updateStock's "").             *)
NothingComes(c) ==
  /\ cpc[c] \in AtSocket /\ c2m[c] = <<>> /\ m2c[c] = <<>>
  /\ cur = c => mpc \in {"poll", "buy_answer", "sell_answer"}
  /\ mpc \notin Lost

MayLose(c) ==
  \/ cur = c /\ mpc \in {"buy_answer", "sell_answer"} /\ Len(c2m[c]) > 1
  \/ cpc[c] = "valid" /\ Len(m2c[c]) > 1
  \/ cur = c /\ mpc = "buy_held" /\ Lower[member[c]] \notin DOMAIN portfolio
  \/ cur = c /\ mpc = "update" /\ order[c].shares = 0

NobodyIsLostBut ==
  [][\A c \in Clients : ~NothingComes(c) /\ NothingComes(c)' => MayLose(c)]_vars

----------------------------------------------------------------------------
(* The exchange as a Brokerage.  An order is what M is serving: agreed once *)
(* M has been told Y, filled once Server P has answered the update.  Time   *)
(* has moved when M has sent the update to Server Q.                        *)
Stage == CASE mpc \in {"offer", "buy_answer", "sell_check", "sell_held",
                        "sell_sleep", "sell_answer"} -> "placed"
           [] mpc = "update" /\ toM # <<>> -> "filled"
           [] OTHER -> "agreed"

Deal ==
  IF req = NA \/ req.t # "transact" THEN NA
  ELSE [by |-> cur, owner |-> Lower[req.user], op |-> req.op,
        stock |-> req.stock, lot |-> req.shares, stage |-> Stage]

(* The updates on their way to Server Q, by stock. *)
Ticks(s) == {k \in DOMAIN toQ : toQ[k].t = "update" /\ toQ[k].stock = s}

Holdings == [u \in DOMAIN portfolio |-> [s \in Stocks |-> HeldBy(u, s)]]
Clock == [s \in Listed |->
            (priceIndex[s] + Cardinality(Ticks(s))) % Len(Prices[s])]

Broker == INSTANCE Brokerage WITH
  Customers <- Clients, Owners <- DOMAIN Portfolios, Stocks <- Stocks,
  NA <- NA, Lots <- Shares, Limit <- MaxHeld * (1 + Cardinality(Clients)),
  Start <- [u \in DOMAIN Portfolios |-> [s \in Stocks |->
              SharesIn(Portfolios[u], s)]],
  Cycle <- [s \in Listed |-> Len(Prices[s])],
  shares <- Holdings, clock <- Clock, deal <- Deal

(* "No request" and "no order" are neither. *)
ASSUME NoneAssumption == NA \notin ClientMsg \cup Broker!Orders

(* The five programs together do what a Brokerage does: one order at a      *)
(* time, every sale covered, every agreed order filled once and exactly,    *)
(* time moved once per order (operationType and what it makes P and Q do).  *)
ImplementsBrokerage == Broker!Spec

----------------------------------------------------------------------------
(* What some of the theorems suppose of an instance.                        *)

Unique(p) == \A i, j \in DOMAIN p : p[i].stockName = p[j].stockName => i = j

(* Positive positions to start with, positive numbers typed, and ints wide  *)
(* enough for all clients' purchases together.                              *)
SoundStart ==
  /\ IsFiniteSet(Clients)
  /\ Shares \subseteq 1 .. MaxHeld
  /\ MaxHeld * (1 + Cardinality(Clients)) <= IntMax
  /\ \A u \in DOMAIN Portfolios :
       /\ Unique(Portfolios[u])
       /\ \A i \in DOMAIN Portfolios[u] :
            /\ Portfolios[u][i].quantity \in 1 .. MaxHeld
            /\ Portfolios[u][i].avgPrice # NaN

(* Also, people answer Y or N, clients stay, and whoever can log in has a   *)
(* portfolio.                                                               *)
OrderlyInstance ==
  /\ SoundStart
  /\ Typed \subseteq {"Y", "N"} /\ Quitters = {}
  /\ DOMAIN Members \subseteq DOMAIN Portfolios

----------------------------------------------------------------------------
(* Fairness.  Every server is a loop around a blocking receive, so a server *)
(* with a datagram takes it, M goes on when its reply is there, and a       *)
(* client reads what has arrived.  The poll loop scans every descriptor     *)
(* before it polls again, so a connection that stays readable is served     *)
(* though M turns to others in between.                                     *)
ServersRun ==
  /\ WF_vars(AuthStep) /\ WF_vars(QuoteStep) /\ WF_vars(PortfolioStep)
  /\ WF_vars(MainStep)
  /\ \A c \in Clients : WF_vars(ReceiveStep(c)) /\ SF_vars(ServeStep(c))

(* People who are asked do answer. *)
PeopleAnswer == \A c \in Clients : WF_vars(AnswerStep(c))

ServerSpec == Spec /\ ServersRun
FairSpec == ServerSpec /\ PeopleAnswer

(* Every request of every client is answered: nobody stays blocked in recv, *)
(* as long as the people who are asked Y or N answer.                       *)
EveryRequestAnswered ==
  \A c \in Clients : cpc[c] \in AtSocket ~> cpc[c] \notin AtSocket

(* "it will mul;tiplex and allow each client to interact with the server"   *)
(* (README.md:7): a request that needs no confirmation is answered whatever *)
(* other people do.                                                         *)
EachClientInteracts ==
  \A c \in Clients : cpc[c] \in {"auth", "show"} ~>
                     cpc[c] \notin {"auth", "show"}

(* Every order for a listed stock that M takes up, filled, refused or       *)
(* declined, in the end moves that stock to another price.                  *)
OrdersMoveTime ==
  \A s \in Listed : \A k \in 0 .. Len(Prices[s]) - 1 :
    Len(Prices[s]) > 1 /\ priceIndex[s] = k /\ Deal # NA /\ Deal.stock = s
    ~> priceIndex[s] # k

(* "for(;;)--and you thought it would never end!" (serverM.cpp:942) *)
NeverEnds == mpc # "dead"

(* README.md:36 and :47 list <Y/N>;<buy> and <Y/N>;<sell> among the         *)
(* messages of an order: whatever the person answers, Server P is told of   *)
(* it before M turns to anything else.                                      *)
AnswersAreForwarded ==
  [][(mpc \in {"buy_answer", "sell_answer"} /\ mpc' # mpc) =>
       Len(toP') > Len(toP) /\ toP'[Len(toP) + 1].t = "answer"]_<<mpc, toP>>
=============================================================================
