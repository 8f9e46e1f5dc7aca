---------------------------- MODULE MainServer ----------------------------
(***************************************************************************)
(* serverM.cpp: one thread that polls the client connections and carries   *)
(* out each request to its end before it polls again.  mpc names the       *)
(* blocking call M waits in, the other variables are the locals of         *)
(* operationType that are still to be read there.  One action runs from    *)
(* one blocking call to the next.                                          *)
(***************************************************************************)
EXTENDS Wire

CONSTANTS Encrypt,       \* passwordEncrypt, a function from Passwords to Codes
          SleepSuffices  \* TRUE: a client takes PASS within M's sleep(1)

ASSUME EncryptAssumption == Encrypt \in [Passwords -> Codes]
ASSUME SleepAssumption == SleepSuffices \in BOOLEAN

VARIABLES mpc,      \* the blocking call, "dead", or "desync" (see MMisread)
          cur,      \* the client being served
          req,      \* its request
          offer,    \* the price Server Q quoted
          verdict,  \* Server P's answer to the check
          pos,      \* Server P's answer to the retrieve or position
          confirmation  \* the client's answer

mVars == <<mpc, cur, req, offer, verdict, pos, confirmation>>

MInit ==
  /\ mpc = "poll"
  /\ cur = NA /\ req = NA /\ offer = NA /\ verdict = NA /\ pos = NA
  /\ confirmation = NA

Return ==
  /\ mpc' = "poll"
  /\ cur' = NA /\ req' = NA /\ offer' = NA /\ verdict' = NA /\ pos' = NA
  /\ confirmation' = NA

(* The main loop reads a request from client c: recv, then operationType. *)
Reads(c, type) ==
  /\ mpc = "poll"
  /\ c2m[c] # <<>>
  /\ Head(c2m[c]).t = type
  /\ TakeAll(c)
  /\ cur' = c
  /\ req' = Head(c2m[c])
  /\ UNCHANGED <<offer, verdict, pos, confirmation, m2c, toM>>

(* M is blocked at pc in UDPrecv and a reply of this type arrives. *)
Hears(pc, type) ==
  /\ mpc = pc
  /\ toM # <<>>
  /\ Head(toM).t = type
  /\ toM' = Tail(toM)

ToQ(m) == toQ' = Append(toQ, m)
(* Mutant of Tick: no update for Server Q. *)
TickForgotten == UNCHANGED toQ

Tick == ToQ([t |-> "update", stock |-> req.stock])

Verdict(text) == [t |-> "verdict", text |-> text]

----------------------------------------------------------------------------
MLogin(c) ==
  /\ Reads(c, "credentials")
  /\ toA' = Append(toA, [t |-> "credentials", user |-> Head(c2m[c]).user,
                         code |-> Encrypt[Head(c2m[c]).password]])
  /\ mpc' = "auth"
  /\ UNCHANGED <<toQ, toP>>

MAuth ==
  /\ Hears("auth", "credentials")
  /\ Deliver(cur, Head(toM))
  /\ Return
  /\ UNCHANGED <<toA, toQ, toP, c2m>>

MPosition(c) ==
  /\ Reads(c, "position")
  /\ toP' = Append(toP, [t |-> "position", user |-> Head(c2m[c]).user])
  /\ mpc' = "portfolio"
  /\ UNCHANGED <<toA, toQ>>

MPortfolio ==
  /\ Hears("portfolio", "position")
  /\ pos' = Head(toM)
  /\ ToQ([t |-> "quoteall"])
  /\ mpc' = "prices"
  /\ UNCHANGED <<cur, req, offer, verdict, confirmation, toA, toP, tcpVars>>

(* constructNewMsg: the portfolio, and the profit at all current quotes. *)
MGain ==
  /\ Hears("prices", "quoteall")
  /\ Deliver(cur, [t |-> "gain", held |-> pos.held,
                   profit |-> IF pos.held = NA THEN 0
                              ELSE profitCalc(Head(toM).prices, pos.held)])
  /\ Return
  /\ UNCHANGED <<toA, toQ, toP, c2m>>

MQuote(c, type) ==
  /\ type \in {"quote", "quoteall"}
  /\ Reads(c, type)
  /\ ToQ(Head(c2m[c]))
  /\ mpc' = "quote"
  /\ UNCHANGED <<toA, toP>>

MQuoteReply ==
  /\ Hears("quote", req.t)
  /\ Deliver(cur, Head(toM))
  /\ Return
  /\ UNCHANGED <<toA, toQ, toP, c2m>>

----------------------------------------------------------------------------
(* Mutant of MTransact: time moves on as soon as the quote is asked for. *)
MTransactTicksEarly(c) ==
  /\ Reads(c, "transact")
  /\ toQ' = toQ \o <<[t |-> "quote", stock |-> Head(c2m[c]).stock],
                     [t |-> "update", stock |-> Head(c2m[c]).stock]>>
  /\ mpc' = "offer"
  /\ UNCHANGED <<toA, toP>>

(* transact: both operations first ask for a quote. *)
MTransact(c) ==
  /\ Reads(c, "transact")
  /\ ToQ([t |-> "quote", stock |-> Head(c2m[c]).stock])
  /\ mpc' = "offer"
  /\ UNCHANGED <<toA, toP>>

(* buy: the quote goes to the client and M waits for its answer. *)
MBuyOffer ==
  /\ mpc = "offer" /\ req.op = "buy"
  /\ Hears("offer", "quote")
  /\ Deliver(cur, Head(toM))
  /\ offer' = Head(toM).price
  /\ mpc' = "buy_answer"
  /\ UNCHANGED <<cur, req, verdict, pos, confirmation, toA, toQ, toP, c2m>>

(* TCPrecv(client) and the first field of what it returns: the text of an   *)
(* answer, another word, or nothing at all from a client that is gone.      *)
AnswerRead ==
  IF c2m[cur] # <<>> /\ Head(c2m[cur]).t = "answer"
    THEN Head(c2m[cur]).text ELSE "other"

(* Mutant of HearsClient: the receive does not block. *)
HearsClientAtOnce(pc) == mpc = pc /\ TakeAll(cur) /\ UNCHANGED m2c

HearsClient(pc) ==
  /\ mpc = pc
  /\ c2m[cur] # <<>> \/ conn[cur] # "open"
  /\ TakeAll(cur)
  /\ UNCHANGED m2c

MBuyDenied ==
  /\ HearsClient("buy_answer")
  /\ AnswerRead = "N"
  /\ Tick
  /\ Return
  /\ UNCHANGED <<toA, toP, toM>>

Retrieve == [t |-> "retrieve", user |-> req.user, stock |-> req.stock]
AnswerToP == [t |-> "answer", op |-> req.op, text |-> AnswerRead]

MBuyApproved ==
  /\ HearsClient("buy_answer")
  /\ AnswerRead # "N"
  /\ toP' = toP \o <<AnswerToP, Retrieve>>
  /\ confirmation' = AnswerRead
  /\ mpc' = "buy_held"
  /\ UNCHANGED <<cur, req, offer, verdict, pos, toA, toQ, toM>>

(* Mutants of UpdateP: an index that counts from 1; the quoted price where  *)
(* the average price belongs.                                               *)
UpdatePFromOne(held, shares, price) ==
  [t |-> "update", user |-> held.user, stock |-> held.stock,
   shares |-> shares, price |-> price, index |-> held.index + 1]
UpdatePAtOffer(held, shares, price) ==
  [t |-> "update", user |-> held.user, stock |-> held.stock,
   shares |-> shares, price |-> offer, index |-> held.index]

UpdateP(held, shares, price) ==
  [t |-> "update", user |-> held.user, stock |-> held.stock,
   shares |-> shares, price |-> price, index |-> held.index]

(* Mutant of Bought: forgets the shares already held. *)
BoughtAlone(held) == UpdateP(held, req.shares, offer)

(* Quantity and average price of the position after the purchase. *)
Bought(held) ==
  IF held.shares = NA
    THEN UpdateP(held, req.shares, avgBuyPrice(req.shares, offer))
    ELSE UpdateP(held, Wrap(req.shares + held.shares),
                 avgBuyPriceNew(req.shares, offer, held.shares, held.price))

MBuyUpdate ==
  /\ Hears("buy_held", "held")
  /\ Head(toM).stock = req.stock
  /\ offer # NA
  /\ toP' = Append(toP, Bought(Head(toM)))
  /\ mpc' = "update"
  /\ UNCHANGED <<cur, req, offer, verdict, pos, confirmation, toA, toQ, tcpVars>>

(* The user has no portfolio: neither branch is taken. *)
MBuyNobody ==
  /\ Hears("buy_held", "held")
  /\ Head(toM).stock # req.stock
  /\ Return
  /\ UNCHANGED <<toA, toQ, toP, tcpVars>>

(* stod("NA") throws and nothing catches it. *)
MBuyThrows ==
  /\ Hears("buy_held", "held")
  /\ Head(toM).stock = req.stock
  /\ offer = NA
  /\ mpc' = "dead"
  /\ UNCHANGED <<cur, req, offer, verdict, pos, confirmation, toA, toQ, toP, tcpVars>>

----------------------------------------------------------------------------
(* Mutant of MSellQuoted: both questions to Server P at once. *)
MSellQuotedTogether ==
  /\ mpc = "offer" /\ req.op = "sell"
  /\ Hears("offer", "quote")
  /\ offer' = Head(toM).price
  /\ toP' = toP \o <<[t |-> "check", user |-> req.user, stock |-> req.stock,
                      shares |-> req.shares], Retrieve>>
  /\ mpc' = "sell_check"
  /\ UNCHANGED <<cur, req, verdict, pos, confirmation, toA, toQ, tcpVars>>

MSellQuoted ==
  /\ mpc = "offer" /\ req.op = "sell"
  /\ Hears("offer", "quote")
  /\ offer' = Head(toM).price
  /\ toP' = Append(toP, [t |-> "check", user |-> req.user,
                         stock |-> req.stock, shares |-> req.shares])
  /\ mpc' = "sell_check"
  /\ UNCHANGED <<cur, req, verdict, pos, confirmation, toA, toQ, tcpVars>>

MSellChecked ==
  /\ Hears("sell_check", "check")
  /\ verdict' = Head(toM).verdict
  /\ toP' = Append(toP, Retrieve)
  /\ mpc' = "sell_held"
  /\ UNCHANGED <<cur, req, offer, pos, confirmation, toA, toQ, tcpVars>>

(* No position and no such stock: refused, and time does not move. *)
MSellUnknown ==
  /\ Hears("sell_held", "held")
  /\ Head(toM).shares = NA /\ offer = NA
  /\ Deliver(cur, Verdict("stock_FAIL"))
  /\ Return
  /\ UNCHANGED <<toA, toQ, toP, c2m>>

(* Mutant of MSellRefused: the client is not told. *)
MSellRefusedSilently ==
  /\ Hears("sell_held", "held")
  /\ Head(toM).shares # NA /\ verdict = "FAIL"
  /\ Tick
  /\ Return
  /\ UNCHANGED <<toA, toP, tcpVars>>

(* No position, or not enough shares in it. *)
MSellRefused ==
  /\ Hears("sell_held", "held")
  /\ \/ Head(toM).shares = NA /\ offer # NA
     \/ Head(toM).shares # NA /\ verdict = "FAIL"
  /\ Deliver(cur, Verdict("FAIL"))
  /\ Tick
  /\ Return
  /\ UNCHANGED <<toA, toP, c2m>>

MSellPass ==
  /\ Hears("sell_held", "held")
  /\ Head(toM).shares # NA /\ verdict # "FAIL"
  /\ Deliver(cur, Verdict("PASS"))
  /\ pos' = Head(toM)
  /\ mpc' = "sell_sleep"
  /\ UNCHANGED <<cur, req, offer, verdict, confirmation, toA, toQ, toP, c2m>>

(* After sleep(1), the quote. *)
MSellOffer ==
  /\ mpc = "sell_sleep"
  /\ SleepSuffices => m2c[cur] = <<>>
  /\ Deliver(cur, [t |-> "quote", stock |-> req.stock, price |-> offer])
  /\ mpc' = "sell_answer"
  /\ UNCHANGED <<cur, req, offer, verdict, pos, confirmation, udpVars, c2m>>

MSellDenied ==
  /\ HearsClient("sell_answer")
  /\ AnswerRead = "N"
  /\ toP' = Append(toP, AnswerToP)
  /\ Tick
  /\ Return
  /\ UNCHANGED <<toA, toM>>

MSellApproved ==
  /\ HearsClient("sell_answer")
  /\ AnswerRead # "N"
  /\ toP' = toP \o <<AnswerToP,
                     UpdateP(pos, Wrap(pos.shares - req.shares), pos.price)>>
  /\ confirmation' = AnswerRead
  /\ mpc' = "update"
  /\ UNCHANGED <<cur, req, offer, verdict, pos, toA, toQ, toM>>

(* The result of the update goes to the client and time moves on.  Sending  *)
(* an empty string sends nothing.                                           *)
MResult ==
  /\ \/ Hears("update", "result") /\ Deliver(cur, Head(toM))
     \/ /\ Hears("update", "nothing")
        /\ conn[cur] # "broken"
        /\ UNCHANGED <<m2c, conn>>
  /\ Tick
  /\ Return
  /\ UNCHANGED <<toA, toP, c2m>>

----------------------------------------------------------------------------
(* recv returned 0 or an error: close and drop the descriptor. *)
MClose(c) ==
  /\ mpc = "poll"
  /\ conn[c] \in {"fin", "reset", "broken"}
  /\ c2m[c] = <<>>
  /\ conn' = [conn EXCEPT ![c] = "closed"]
  /\ UNCHANGED <<mVars, udpVars, c2m, m2c>>

(* The reply types each UDPrecv is written for. *)
Awaited ==
  CASE mpc = "auth"       -> {"credentials"}
    [] mpc = "portfolio"  -> {"position"}
    [] mpc = "prices"     -> {"quoteall"}
    [] mpc = "quote"      -> {req.t}
    [] mpc = "offer"      -> {"quote"}
    [] mpc = "sell_check" -> {"check"}
    [] mpc \in {"buy_held", "sell_held"} -> {"held"}
    [] mpc = "update"     -> {"result", "nothing"}
    [] OTHER -> {}

AtSend ==
  \/ mpc = "sell_sleep"
  \/ /\ mpc \in {"auth", "prices", "quote", "offer", "sell_held", "update"}
     /\ mpc = "offer" => req.op = "buy"
     /\ toM # <<>>
     /\ Head(toM).t \in Awaited

(* send() on a connection the peer has reset: SIGPIPE, which nobody blocks. *)
MSigPipe ==
  /\ AtSend
  /\ conn[cur] = "broken"
  /\ mpc' = "dead"
  /\ UNCHANGED <<cur, req, offer, verdict, pos, confirmation, wireVars>>

(* M takes whatever datagram comes first as the answer to its question.     *)
(* What it then does depends on the text; the model follows it no further.  *)
MMisread ==
  /\ mpc \in {"auth", "portfolio", "prices", "quote", "offer", "sell_check",
              "buy_held", "sell_held", "update"}
  /\ toM # <<>>
  /\ Head(toM).t \notin Awaited
  /\ toM' = Tail(toM)
  /\ mpc' = "desync"
  /\ UNCHANGED <<cur, req, offer, verdict, pos, confirmation, toA, toQ, toP, tcpVars>>
=============================================================================
