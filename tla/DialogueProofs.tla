--------------------------- MODULE DialogueProofs ---------------------------
(***************************************************************************)
(* Server M and its clients: what is under way on every connection, and    *)
(* what each program believes the other is doing.                          *)
(*                                                                         *)
(* Talk says of one client where it and M are in their dialogue.  A client *)
(* that is not being served has nothing under way, or its request, or the  *)
(* reply to it (Rest); one that is being served waits where M's program    *)
(* for its request supposes it (Serve).  A client that has left is         *)
(* promised nothing.  The last part adds what holds where people answer Y  *)
(* or N and stay (Undisturbed).                                            *)
(***************************************************************************)
EXTENDS ConversationProofs

ViewTyped ==
  /\ conn \in [Clients -> ConnStates]
  /\ m2c \in [Clients -> Seq(ToClient)]
  /\ order \in [Clients -> [op : {"buy", "sell"}, stock : Stocks,
                            shares : CInt] \cup {NA}]
  /\ seen \in [Clients -> Int \cup {NA}]

Quiet(c) == c2m[c] = <<>> /\ m2c[c] = <<>>

IsOrder(c, m) ==
  /\ m.t = "transact" /\ m.user = member[c]
  /\ order[c] = [op |-> m.op, stock |-> m.stock, shares |-> m.shares]

(* What a client waits for once it has sent an order. *)
Waits(m) == IF m.op = "sell" THEN "valid" ELSE "offer"

Requests(c, m) ==
  \/ /\ m.t = "credentials" /\ cpc[c] = "auth"
     /\ <<m.user, m.password>> \in LoginAs[c] /\ member[c] = m.user
  \/ m.t \in {"position", "quote", "quoteall"} /\ cpc[c] = "show"
  \/ IsOrder(c, m) /\ cpc[c] = Waits(m)

Accepted(c) ==
  \E pair \in LoginAs[c] :
    /\ pair[1] = member[c]
    /\ Lower[pair[1]] \in DOMAIN Members
    /\ Members[Lower[pair[1]]] = Encrypt[pair[2]]

Replies(c, m) ==
  \/ /\ m.t = "credentials" /\ cpc[c] = "auth"
     /\ m.status = "SUCCESS" => Accepted(c)
  \/ m.t \in {"quote", "quoteall", "gain"} /\ cpc[c] = "show"
  \/ m.t = "verdict" /\ m.text \in {"FAIL", "stock_FAIL"} /\ cpc[c] = "valid"
  \/ m.t = "result" /\ cpc[c] = "result"

Rest(c) ==
  \/ Quiet(c) /\ cpc[c] # "confirm"
  \/ Len(c2m[c]) = 1 /\ m2c[c] = <<>> /\ Requests(c, Head(c2m[c]))
  \/ Len(m2c[c]) = 1 /\ c2m[c] = <<>> /\ Replies(c, Head(m2c[c]))

(* The client has said N and gone on: the rest may be its next command.     *)
Declined(c) ==
  /\ m2c[c] = <<>> /\ c2m[c] # <<>>
  /\ Head(c2m[c]).t = "answer" /\ Head(c2m[c]).text = "N"
  /\ cpc[c] \in {"prompt", "show", "valid", "offer"}

(* The client is shown the offer, decides, or has said yes. *)
Deciding(c) ==
  \/ /\ cpc[c] = "offer" /\ c2m[c] = <<>>
     /\ Len(m2c[c]) = 1 /\ Head(m2c[c]).t = "quote" /\ Head(m2c[c]).price = offer
  \/ cpc[c] = "confirm" /\ Quiet(c) /\ seen[c] = offer /\ offer # NA
  \/ /\ cpc[c] = "result" /\ m2c[c] = <<>> /\ offer # NA
     /\ Len(c2m[c]) = 1 /\ Head(c2m[c]).t = "answer"
     /\ Head(c2m[c]).text \in Typed \ {"N"}

(* The client is told that its sell is possible, or waits for the offer.    *)
Passed(c) ==
  /\ c2m[c] = <<>>
  /\ \/ cpc[c] = "valid" /\ m2c[c] # <<>> /\ Head(m2c[c]) = Verdict("PASS")
     \/ cpc[c] = "offer" /\ m2c[c] = <<>>

Serve(c) ==
  /\ mpc = "auth" =>
       /\ Quiet(c) /\ cpc[c] = "auth"
       /\ <<req.user, req.password>> \in LoginAs[c] /\ member[c] = req.user
  /\ mpc \in {"portfolio", "prices", "quote"} => Quiet(c) /\ cpc[c] = "show"
  /\ mpc \in {"offer", "sell_check", "sell_held"} =>
       Quiet(c) /\ cpc[c] = Waits(req) /\ IsOrder(c, req)
  /\ mpc = "sell_sleep" =>
       IsOrder(c, req) /\ Passed(c) /\ (cpc[c] = "valid" => Len(m2c[c]) = 1)
  /\ mpc \in {"buy_answer", "sell_answer"} =>
       \/ Declined(c)
       \/ IsOrder(c, req) /\ Deciding(c)
       \/ /\ mpc = "sell_answer" /\ IsOrder(c, req)
          /\ Passed(c) /\ (cpc[c] = "valid" => Len(m2c[c]) = 2)
  /\ mpc \in {"buy_held", "update"} =>
       /\ Quiet(c) /\ cpc[c] = "result" /\ IsOrder(c, req)
       /\ offer # NA /\ confirmation \in Typed \ {"N"}

Served(c) == cur = c /\ mpc \in Programs

TalkOf(c) ==
  /\ conn[c] = "open" <=> cpc[c] # "gone"
  /\ cpc[c] # "gone" => IF Served(c) THEN Serve(c) ELSE Rest(c)

Talk == \A c \in Clients : TalkOf(c)

DialogueInv == ViewTyped /\ Talk

----------------------------------------------------------------------------
(* Who does not move sees nothing move. *)

SameView(c) ==
  UNCHANGED <<conn[c], cpc[c], c2m[c], m2c[c], member[c], order[c], seen[c]>>

LEMMA RestSame ==
  ASSUME NEW c \in Clients, SameView(c), Rest(c)
  PROVE  Rest(c)'
  <1>1. \A m : Requests(c, m) => Requests(c, m)'
    BY DEF SameView, Requests, IsOrder
  <1>2. \A m : Replies(c, m) => Replies(c, m)'
    BY DEF SameView, Replies, Accepted
  <1>3. CASE Quiet(c) /\ cpc[c] # "confirm"
    BY <1>3 DEF SameView, Rest, Quiet
  <1>4. CASE Len(c2m[c]) = 1 /\ m2c[c] = <<>> /\ Requests(c, Head(c2m[c]))
    <2>1. PICK m : m = Head(c2m[c])
      OBVIOUS
    <2>2. Requests(c, m)' /\ m = Head(c2m[c])'
      BY <1>1, <1>4, <2>1 DEF SameView
    <2>3. QED
      BY <1>4, <2>2 DEF SameView, Rest, Requests, IsOrder, Waits
  <1>5. CASE Len(m2c[c]) = 1 /\ c2m[c] = <<>> /\ Replies(c, Head(m2c[c]))
    <2>1. PICK m : m = Head(m2c[c])
      OBVIOUS
    <2>2. Replies(c, m)' /\ m = Head(m2c[c])'
      BY <1>2, <1>5, <2>1 DEF SameView
    <2>3. QED
      BY <1>5, <2>2 DEF SameView, Rest, Replies
  <1>6. QED
    BY <1>3, <1>4, <1>5 DEF Rest

LEMMA ServeSame ==
  ASSUME NEW c \in Clients, SameView(c), UNCHANGED mVars, Serve(c)
  PROVE  Serve(c)'
  BY DEF SameView, mVars, Serve, Quiet, IsOrder, Waits, Passed, Declined, Deciding,
     Verdict

LEMMA OthersTalk ==
  ASSUME NEW c \in Clients, SameView(c), TalkOf(c),
         UNCHANGED mVars \/ (~Served(c) /\ ~Served(c)')
  PROVE  TalkOf(c)'
  <1>1. conn'[c] = conn[c] /\ cpc'[c] = cpc[c]
    BY DEF SameView
  <1>2. CASE cpc[c] = "gone"
    BY <1>1, <1>2 DEF TalkOf
  <1>3. CASE cpc[c] # "gone" /\ Served(c)
    <2>1. Serve(c) /\ UNCHANGED mVars
      BY <1>3 DEF TalkOf
    <2>2. Serve(c)' /\ Served(c)'
      BY <1>3, <2>1, ServeSame DEF Served, mVars
    <2>3. QED
      BY <1>1, <2>2 DEF TalkOf
  <1>4. CASE cpc[c] # "gone" /\ ~Served(c)
    <2>1. Rest(c)' /\ ~Served(c)'
      BY <1>4, RestSame DEF TalkOf, Served, mVars
    <2>2. QED
      BY <1>1, <1>4, <2>1 DEF TalkOf
  <1>5. QED
    BY <1>2, <1>3, <1>4

(* A client takes a step: M and the other clients do not.                   *)
LEMMA ClientTalks ==
  ASSUME NEW c \in Clients, ViewTyped, ServerTypeOK, Talk, UNCHANGED mVars,
         \A d \in Clients : d # c => SameView(d),
         conn'[c] = "open" <=> cpc'[c] # "gone",
         cpc'[c] # "gone" => IF Served(c) THEN Serve(c)' ELSE Rest(c)'
  PROVE  Talk'
  <1>1. TalkOf(c)'
    BY DEF TalkOf, Served, mVars
  <1>2. \A d \in Clients : d # c => TalkOf(d)'
    BY OthersTalk DEF Talk
  <1>3. QED
    BY <1>1, <1>2 DEF Talk

----------------------------------------------------------------------------
(* Where a client is, by what it does next. *)

LEMMA AtLogin ==
  ASSUME NEW c \in Clients, ServerTypeOK, TalkOf(c), cpc[c] = "login"
  PROVE  ~Served(c) /\ Quiet(c) /\ conn[c] = "open"
  <1>1. conn[c] = "open" /\ (IF Served(c) THEN Serve(c) ELSE Rest(c))
    BY DEF TalkOf
  <1>2. ~Served(c)
    BY <1>1 DEF Served, Programs, Serve, Waits, Passed, Declined, Deciding
  <1>3. QED
    BY <1>1, <1>2 DEF Rest, Requests, Replies, Waits

LEMMA AtPromptFacts ==
  ASSUME NEW c \in Clients, ServerTypeOK, TalkOf(c), cpc[c] = "prompt"
  PROVE  /\ conn[c] = "open"
         /\ IF Served(c)
              THEN mpc \in {"buy_answer", "sell_answer"} /\ Declined(c)
              ELSE Quiet(c)
  <1>1. conn[c] = "open" /\ (IF Served(c) THEN Serve(c) ELSE Rest(c))
    BY DEF TalkOf
  <1>2. CASE Served(c)
    BY <1>1, <1>2 DEF Served, Programs, Serve, Waits, Passed, Declined, Deciding
  <1>3. CASE ~Served(c)
    BY <1>1, <1>3 DEF Rest, Requests, Replies, Waits
  <1>4. QED
    BY <1>1, <1>2, <1>3

(* Something has arrived at the client. *)
LEMMA Arrived ==
  ASSUME NEW c \in Clients, ServerTypeOK, TalkOf(c), cpc[c] # "gone",
         m2c[c] # <<>>
  PROVE  /\ conn[c] = "open" /\ c2m[c] = <<>>
         /\ ~Served(c) => Len(m2c[c]) = 1 /\ Replies(c, Head(m2c[c]))
         /\ Served(c) =>
              /\ mpc \in {"sell_sleep", "buy_answer", "sell_answer"}
              /\ IsOrder(c, req)
              /\ \/ /\ cpc[c] = "valid" /\ mpc \in {"sell_sleep", "sell_answer"}
                    /\ Head(m2c[c]) = Verdict("PASS")
                 \/ /\ cpc[c] = "offer" /\ mpc \in {"buy_answer", "sell_answer"}
                    /\ Len(m2c[c]) = 1 /\ Head(m2c[c]).t = "quote"
                    /\ Head(m2c[c]).price = offer
  <1>1. conn[c] = "open" /\ (IF Served(c) THEN Serve(c) ELSE Rest(c))
    BY DEF TalkOf
  <1>2. CASE Served(c)
    BY <1>1, <1>2 DEF Served, Programs, Serve, Quiet, Passed, Declined, Deciding
  <1>3. CASE ~Served(c)
    BY <1>1, <1>3 DEF Rest, Quiet
  <1>4. QED
    BY <1>1, <1>2, <1>3

LEMMA AtConfirm ==
  ASSUME NEW c \in Clients, ServerTypeOK, TalkOf(c), cpc[c] = "confirm"
  PROVE  /\ conn[c] = "open" /\ Served(c)
         /\ mpc \in {"buy_answer", "sell_answer"} /\ IsOrder(c, req)
         /\ Quiet(c) /\ seen[c] = offer /\ offer # NA
  <1>1. conn[c] = "open" /\ (IF Served(c) THEN Serve(c) ELSE Rest(c))
    BY DEF TalkOf
  <1>2. Served(c)
    BY <1>1 DEF Rest, Requests, Replies, Waits
  <1>3. QED
    BY <1>1, <1>2 DEF Served, Programs, Serve, Waits, Passed, Declined, Deciding

LEMMA AppendEmpty ==
  ASSUME NEW m
  PROVE  Len(Append(<<>>, m)) = 1 /\ Head(Append(<<>>, m)) = m
         /\ Append(<<>>, m) # <<>>
  OBVIOUS

----------------------------------------------------------------------------
(* The clients. *)

LEMMA CLoginTalks ==
  ASSUME NEW c \in Clients, ViewTyped, ServerTypeOK, Talk, UNCHANGED mVars,
         CLogin(c)
  PROVE  Talk'
  <1>1. PICK pair \in LoginAs[c] :
          /\ Sends(c, [t |-> "credentials", user |-> pair[1],
                       password |-> pair[2]])
          /\ member' = [member EXCEPT ![c] = pair[1]]
    BY DEF CLogin
  <1>2. PICK m : m = [t |-> "credentials", user |-> pair[1],
                      password |-> pair[2]]
    OBVIOUS
  <1>3. ~Served(c) /\ Quiet(c) /\ conn[c] = "open"
    BY AtLogin DEF Talk, CLogin
  <1>4. /\ c2m'[c] = Append(<<>>, m) /\ m2c'[c] = <<>> /\ cpc'[c] = "auth"
        /\ member'[c] = pair[1] /\ conn'[c] = "open"
    BY <1>1, <1>2, <1>3 DEF ServerTypeOK, CLogin, Sends, Goto, Quiet
  <1>5. Len(c2m'[c]) = 1 /\ Head(c2m'[c]) = m
    BY <1>4, AppendEmpty
  <1>6. m.t = "credentials" /\ m.user = pair[1] /\ <<m.user, m.password>> = pair
    BY <1>2, ClientAssumption
  <1>7. Rest(c)'
    BY <1>1, <1>4, <1>5, <1>6 DEF Rest, Requests
  <1>8. \A d \in Clients : d # c => SameView(d)
    BY <1>1 DEF ServerTypeOK, CLogin, Sends, Goto, SameView
  <1>9. QED
    BY <1>3, <1>4, <1>7, <1>8, ClientTalks

LEMMA CAuthTalks ==
  ASSUME NEW c \in Clients, ViewTyped, ServerTypeOK, Talk, UNCHANGED mVars,
         CAuth(c)
  PROVE  Talk'
  <1>1. cpc[c] = "auth" /\ m2c[c] # <<>> /\ TalkOf(c)
    BY DEF CAuth, Receives, Talk
  <1>2. conn[c] = "open" /\ c2m[c] = <<>> /\ ~Served(c)
    BY <1>1, Arrived
  <1>3. /\ c2m'[c] = <<>> /\ m2c'[c] = <<>> /\ conn'[c] = "open"
        /\ cpc'[c] \in {"prompt", "login"}
    BY <1>2 DEF ViewTyped, ServerTypeOK, CAuth, Receives, Goto
  <1>4. Rest(c)'
    BY <1>3 DEF Rest, Quiet
  <1>5. \A d \in Clients : d # c => SameView(d)
    BY DEF ViewTyped, ServerTypeOK, CAuth, Receives, Goto, SameView
  <1>6. QED
    BY <1>2, <1>3, <1>4, <1>5, ClientTalks

LEMMA CShowTalks ==
  ASSUME NEW c \in Clients, ViewTyped, ServerTypeOK, Talk, UNCHANGED mVars,
         CShow(c)
  PROVE  Talk'
  <1>1. cpc[c] = "show" /\ m2c[c] # <<>> /\ TalkOf(c)
    BY DEF CShow, Receives, Talk
  <1>2. conn[c] = "open" /\ c2m[c] = <<>> /\ ~Served(c)
    BY <1>1, Arrived
  <1>3. /\ c2m'[c] = <<>> /\ m2c'[c] = <<>> /\ conn'[c] = "open"
        /\ cpc'[c] = "prompt"
    BY <1>2 DEF ViewTyped, ServerTypeOK, CShow, Receives, Goto
  <1>4. Rest(c)'
    BY <1>3 DEF Rest, Quiet
  <1>5. \A d \in Clients : d # c => SameView(d)
    BY DEF ViewTyped, ServerTypeOK, CShow, Receives, Goto, SameView
  <1>6. QED
    BY <1>2, <1>3, <1>4, <1>5, ClientTalks

LEMMA CResultTalks ==
  ASSUME NEW c \in Clients, ViewTyped, ServerTypeOK, Talk, UNCHANGED mVars,
         CResult(c)
  PROVE  Talk'
  <1>1. cpc[c] = "result" /\ m2c[c] # <<>> /\ TalkOf(c)
    BY DEF CResult, Receives, Talk
  <1>2. conn[c] = "open" /\ c2m[c] = <<>> /\ ~Served(c)
    BY <1>1, Arrived
  <1>3. /\ c2m'[c] = <<>> /\ m2c'[c] = <<>> /\ conn'[c] = "open"
        /\ cpc'[c] = "prompt"
    BY <1>2 DEF ViewTyped, ServerTypeOK, CResult, Receives, Goto, Prompt
  <1>4. Rest(c)'
    BY <1>3 DEF Rest, Quiet
  <1>5. \A d \in Clients : d # c => SameView(d)
    BY DEF ViewTyped, ServerTypeOK, CResult, Receives, Goto, Prompt, SameView
  <1>6. QED
    BY <1>2, <1>3, <1>4, <1>5, ClientTalks

(* A request from the prompt, or one typed too early after an N. *)
LEMMA PromptSends ==
  ASSUME NEW c \in Clients, ServerTypeOK, Talk, UNCHANGED mVars,
         cpc[c] = "prompt", NEW m, c2m'[c] = Append(c2m[c], m),
         UNCHANGED <<conn[c], m2c[c]>>, cpc'[c] \in {"show", "valid", "offer"},
         Requests(c, m)'
  PROVE  /\ conn'[c] = "open"
         /\ IF Served(c) THEN Serve(c)' ELSE Rest(c)'
  <1>1. /\ conn[c] = "open"
        /\ IF Served(c)
             THEN mpc \in {"buy_answer", "sell_answer"} /\ Declined(c)
             ELSE Quiet(c)
    BY AtPromptFacts DEF Talk
  <1>2. CASE Served(c)
    <2>1. c2m[c] \in Seq(ClientMsg) /\ c2m[c] # <<>>
      BY <1>1, <1>2 DEF ServerTypeOK, Declined
    <2>2. c2m'[c] # <<>> /\ Head(c2m'[c]) = Head(c2m[c])
      BY <2>1
    <2>3. Declined(c)'
      BY <1>1, <1>2, <2>2 DEF Declined
    <2>4. Serve(c)'
      BY <1>1, <1>2, <2>3 DEF Serve, mVars
    <2>5. QED
      BY <1>1, <1>2, <2>4
  <1>3. CASE ~Served(c)
    <2>1. c2m'[c] = Append(<<>>, m) /\ m2c'[c] = <<>>
      BY <1>1, <1>3 DEF Quiet
    <2>2. Len(c2m'[c]) = 1 /\ Head(c2m'[c]) = m
      BY <2>1, AppendEmpty
    <2>3. Rest(c)'
      BY <2>1, <2>2 DEF Rest, Requests, IsOrder, Waits
    <2>4. QED
      BY <1>1, <1>3, <2>3
  <1>4. QED
    BY <1>2, <1>3

LEMMA CAskTalks ==
  ASSUME NEW c \in Clients, ViewTyped, ServerTypeOK, Talk, UNCHANGED mVars,
         NEW m, CAsk(c, m)
  PROVE  Talk'
  <1>1. /\ c2m'[c] = Append(c2m[c], m) /\ cpc[c] = "prompt" /\ cpc'[c] = "show"
        /\ UNCHANGED <<conn[c], m2c[c]>>
        /\ m.t \in {"position", "quote", "quoteall"}
    BY DEF ServerTypeOK, CAsk, AtPrompt, Sends, Goto
  <1>2. Requests(c, m)'
    BY <1>1 DEF Requests
  <1>3. conn'[c] = "open" /\ (IF Served(c) THEN Serve(c)' ELSE Rest(c)')
    BY <1>1, <1>2, PromptSends
  <1>4. \A d \in Clients : d # c => SameView(d)
    BY DEF ServerTypeOK, CAsk, Sends, Goto, SameView
  <1>5. QED
    BY <1>1, <1>3, <1>4, ClientTalks

LEMMA CTradeTalks ==
  ASSUME NEW c \in Clients, ViewTyped, ServerTypeOK, Talk, UNCHANGED mVars,
         NEW op, NEW stock, NEW shares, CTrade(c, op, stock, shares)
  PROVE  Talk'
  <1>0. PICK m : m = [t |-> "transact", op |-> op, user |-> member[c],
                      stock |-> stock, shares |-> shares]
    OBVIOUS
  <1>1. /\ c2m'[c] = Append(c2m[c], m) /\ cpc[c] = "prompt"
        /\ cpc'[c] = (IF op = "sell" THEN "valid" ELSE "offer")
        /\ UNCHANGED <<conn[c], m2c[c], member[c]>>
        /\ order'[c] = [op |-> op, stock |-> stock, shares |-> shares]
    BY <1>0 DEF ServerTypeOK, ViewTyped, CTrade, AtPrompt, Sends, Goto
  <1>2. IsOrder(c, m)' /\ cpc'[c] = Waits(m)
    BY <1>0, <1>1 DEF IsOrder, Waits
  <1>3. Requests(c, m)'
    BY <1>2 DEF Requests
  <1>4. conn'[c] = "open" /\ (IF Served(c) THEN Serve(c)' ELSE Rest(c)')
    BY <1>1, <1>3, PromptSends
  <1>5. \A d \in Clients : d # c => SameView(d)
    BY DEF ServerTypeOK, ViewTyped, CTrade, Sends, Goto, SameView
  <1>6. QED
    BY <1>1, <1>4, <1>5, ClientTalks

LEMMA CValidTalks ==
  ASSUME NEW c \in Clients, ViewTyped, ServerTypeOK, Talk, UNCHANGED mVars,
         CValid(c)
  PROVE  Talk'
  <1>1. cpc[c] = "valid" /\ m2c[c] # <<>> /\ TalkOf(c)
    BY DEF CValid, Receives, Talk
  <1>2. conn[c] = "open" /\ c2m[c] = <<>>
    BY <1>1, Arrived
  <1>3. /\ c2m'[c] = <<>> /\ m2c'[c] = <<>> /\ conn'[c] = "open"
        /\ member'[c] = member[c]
    BY <1>2 DEF ViewTyped, ServerTypeOK, CValid, Receives
  <1>4. CASE Served(c)
    <2>1. /\ mpc \in {"sell_sleep", "sell_answer"} /\ IsOrder(c, req)
          /\ Head(m2c[c]) = Verdict("PASS")
      BY <1>1, <1>4, Arrived
    <2>2. Head(m2c[c]).text \notin {"FAIL", "stock_FAIL"}
      BY <2>1 DEF Verdict
    <2>3. cpc'[c] = "offer" /\ order'[c] = order[c]
      BY <2>2 DEF ServerTypeOK, CValid, Goto
    <2>4. Passed(c)' /\ IsOrder(c, req)'
      BY <1>3, <2>1, <2>3 DEF Passed, IsOrder, mVars
    <2>5. Serve(c)'
      BY <2>1, <2>3, <2>4 DEF Serve, mVars
    <2>6. QED
      <3>1. \A d \in Clients : d # c => SameView(d)
        BY <2>2 DEF ServerTypeOK, ViewTyped, CValid, Receives, Goto, SameView
      <3>2. QED
        BY <1>3, <1>4, <2>3, <2>5, <3>1, ClientTalks
  <1>5. CASE ~Served(c)
    <2>1. Len(m2c[c]) = 1 /\ Head(m2c[c]).text \in {"FAIL", "stock_FAIL"}
      BY <1>1, <1>5, Arrived DEF Replies
    <2>2. cpc'[c] = "prompt"
      BY <2>1 DEF ServerTypeOK, CValid, Prompt, Goto
    <2>3. Rest(c)'
      BY <1>3, <2>2 DEF Rest, Quiet
    <2>4. \A d \in Clients : d # c => SameView(d)
      BY <2>1 DEF ServerTypeOK, ViewTyped, CValid, Receives, Prompt, Goto, SameView
    <2>5. QED
      BY <1>3, <1>5, <2>2, <2>3, <2>4, ClientTalks
  <1>6. QED
    BY <1>4, <1>5

LEMMA COfferTalks ==
  ASSUME NEW c \in Clients, ViewTyped, ServerTypeOK, Talk, UNCHANGED mVars,
         COffer(c)
  PROVE  Talk'
  <1>1. cpc[c] = "offer" /\ m2c[c] # <<>> /\ TalkOf(c) /\ Head(m2c[c]).price # NA
    BY DEF COffer, Receives, Talk
  <1>2. Served(c)
    BY <1>1, Arrived DEF Replies
  <1>3. /\ conn[c] = "open" /\ c2m[c] = <<>> /\ IsOrder(c, req)
        /\ mpc \in {"buy_answer", "sell_answer"} /\ Head(m2c[c]).price = offer
    BY <1>1, <1>2, Arrived
  <1>4. /\ c2m'[c] = <<>> /\ m2c'[c] = <<>> /\ conn'[c] = "open"
        /\ cpc'[c] = "confirm" /\ seen'[c] = offer
        /\ UNCHANGED <<member[c], order[c]>>
    BY <1>3 DEF ViewTyped, ServerTypeOK, COffer, Receives, Goto
  <1>5. Deciding(c)' /\ IsOrder(c, req)'
    BY <1>1, <1>3, <1>4 DEF Deciding, Quiet, IsOrder, mVars
  <1>6. Serve(c)'
    BY <1>3, <1>5 DEF Serve, mVars
  <1>7. \A d \in Clients : d # c => SameView(d)
    BY DEF ServerTypeOK, ViewTyped, COffer, Receives, Goto, SameView
  <1>8. QED
    BY <1>2, <1>4, <1>6, <1>7, ClientTalks

(* An N is on its way to M. *)
LEMMA SaysNo ==
  ASSUME NEW c \in Clients, mpc \in {"buy_answer", "sell_answer"},
         UNCHANGED mVars, c2m'[c] = Append(<<>>, Answer("N")), m2c'[c] = <<>>,
         cpc'[c] = "prompt"
  PROVE  Serve(c)'
  <1>1. c2m'[c] # <<>> /\ Head(c2m'[c]) = Answer("N")
    BY AppendEmpty
  <1>2. Declined(c)'
    BY <1>1 DEF Declined, Answer
  <1>3. QED
    BY <1>2 DEF Serve, mVars

LEMMA CNoSuchStockTalks ==
  ASSUME NEW c \in Clients, ViewTyped, ServerTypeOK, Talk, UNCHANGED mVars,
         CNoSuchStock(c)
  PROVE  Talk'
  <1>1. cpc[c] = "offer" /\ m2c[c] # <<>> /\ TalkOf(c)
    BY DEF CNoSuchStock, Talk
  <1>2. Served(c)
    BY <1>1, Arrived DEF Replies
  <1>3. /\ conn[c] = "open" /\ c2m[c] = <<>>
        /\ mpc \in {"buy_answer", "sell_answer"}
    BY <1>1, <1>2, Arrived
  <1>4. /\ c2m'[c] = Append(<<>>, Answer("N")) /\ m2c'[c] = <<>>
        /\ conn'[c] = "open" /\ cpc'[c] = "prompt"
    BY <1>3 DEF ViewTyped, ServerTypeOK, CNoSuchStock, Prompt, Goto
  <1>5. Serve(c)'
    BY <1>3, <1>4, SaysNo
  <1>6. \A d \in Clients : d # c => SameView(d)
    BY DEF ServerTypeOK, ViewTyped, CNoSuchStock, Prompt, Goto, SameView
  <1>7. QED
    BY <1>2, <1>4, <1>5, <1>6, ClientTalks

LEMMA CAnswerTalks ==
  ASSUME NEW c \in Clients, ViewTyped, ServerTypeOK, Talk, UNCHANGED mVars,
         NEW text \in Typed, CAnswer(c, text)
  PROVE  Talk'
  <1>1. cpc[c] = "confirm" /\ TalkOf(c)
    BY DEF CAnswer, Talk
  <1>2. /\ conn[c] = "open" /\ Served(c) /\ Quiet(c) /\ offer # NA
        /\ mpc \in {"buy_answer", "sell_answer"} /\ IsOrder(c, req)
    BY <1>1, AtConfirm
  <1>3. /\ c2m'[c] = Append(<<>>, Answer(text)) /\ m2c'[c] = <<>>
        /\ conn'[c] = "open" /\ member'[c] = member[c]
    BY <1>2 DEF ServerTypeOK, CAnswer, Sends, Quiet
  <1>4. CASE text = "N"
    <2>1. cpc'[c] = "prompt"
      BY <1>4 DEF ServerTypeOK, CAnswer, Prompt, Goto
    <2>2. Serve(c)'
      BY <1>2, <1>3, <1>4, <2>1, SaysNo
    <2>3. \A d \in Clients : d # c => SameView(d)
      BY <1>4 DEF ServerTypeOK, ViewTyped, CAnswer, Sends, Prompt, Goto, SameView
    <2>4. QED
      BY <1>2, <1>3, <2>1, <2>2, <2>3, ClientTalks
  <1>5. CASE text # "N"
    <2>1. cpc'[c] = "result" /\ order'[c] = order[c]
      BY <1>5 DEF ServerTypeOK, CAnswer, Goto
    <2>2. Len(c2m'[c]) = 1 /\ Head(c2m'[c]) = Answer(text)
      BY <1>3, AppendEmpty
    <2>3. Deciding(c)' /\ IsOrder(c, req)'
      BY <1>2, <1>3, <1>5, <2>1, <2>2 DEF Deciding, IsOrder, Answer, mVars
    <2>4. Serve(c)'
      BY <1>2, <2>3 DEF Serve, mVars
    <2>5. \A d \in Clients : d # c => SameView(d)
      BY <1>5 DEF ServerTypeOK, ViewTyped, CAnswer, Sends, Goto, SameView
    <2>6. QED
      BY <1>2, <1>3, <2>1, <2>4, <2>5, ClientTalks
  <1>6. QED
    BY <1>4, <1>5

LEMMA CLeaveTalks ==
  ASSUME NEW c \in Clients, ViewTyped, ServerTypeOK, Talk, UNCHANGED mVars,
         CLeave(c)
  PROVE  Talk'
  <1>1. cpc'[c] = "gone" /\ conn'[c] # "open"
    BY DEF ViewTyped, ServerTypeOK, CLeave, HangUp
  <1>2. \A d \in Clients : d # c => SameView(d)
    BY DEF ViewTyped, ServerTypeOK, CLeave, HangUp, SameView
  <1>3. QED
    BY <1>1, <1>2, ClientTalks

LEMMA ClientStepTalks ==
  ASSUME NEW c \in Clients, ViewTyped, ServerTypeOK, Talk, ClientStep(c)
  PROVE  Talk'
  <1>0. UNCHANGED mVars
    BY DEF ClientStep, ReceiveStep, AnswerStep, CommandStep
  <1>1. CASE ReceiveStep(c)
    BY <1>0, <1>1, CAuthTalks, CShowTalks, CValidTalks, COfferTalks,
       CNoSuchStockTalks, CResultTalks DEF ReceiveStep
  <1>2. CASE AnswerStep(c)
    BY <1>0, <1>2, CAnswerTalks DEF AnswerStep
  <1>3. CASE CommandStep(c)
    <2>1. \/ CLogin(c) \/ CLeave(c) \/ (\E m : CAsk(c, m))
          \/ \E op, s, n : CTrade(c, op, s, n)
      BY <1>3 DEF CommandStep
    <2>2. QED
      BY <1>0, <2>1, CLoginTalks, CLeaveTalks, CAskTalks, CTradeTalks
  <1>4. QED
    BY <1>1, <1>2, <1>3 DEF ClientStep

----------------------------------------------------------------------------
(* Server M. *)

LEMMA MainTalks ==
  ASSUME NEW c \in Clients, Talk, Served(c), UNCHANGED cVars,
         \A d \in Clients : d # c =>
           UNCHANGED <<c2m[d], m2c[d], conn[d]>>,
         conn'[c] = "open" <=> conn[c] = "open",
         \/ cur' = c /\ mpc' \in Programs /\ (cpc[c] # "gone" => Serve(c)')
         \/ mpc' \notin Programs /\ (cpc[c] # "gone" => Rest(c)')
  PROVE  Talk'
  <1>1. ASSUME NEW d \in Clients, d # c
        PROVE  TalkOf(d)'
    <2>1. ~Served(d) /\ ~Served(d)'
      BY <1>1 DEF Served
    <2>2. SameView(d)
      BY <1>1 DEF SameView, cVars
    <2>3. QED
      BY <2>1, <2>2, OthersTalk DEF Talk
  <1>2. TalkOf(c)'
    <2>1. cpc' = cpc /\ (conn[c] = "open" <=> cpc[c] # "gone")
      BY DEF cVars, Talk, TalkOf
    <2>2. QED
      BY <2>1 DEF TalkOf, Served
  <1>3. QED
    BY <1>1, <1>2 DEF Talk

(* The client M is serving. *)
LEMMA ServedFacts ==
  ASSUME IndexInv, Talk, NEW c, c = cur, mpc \in Programs
  PROVE  /\ c \in Clients /\ Served(c)
         /\ cpc[c] # "gone" => Serve(c) /\ conn[c] = "open"
  BY DEF IndexInv, Serving, Talk, TalkOf, Served

LEMMA DeliverFacts ==
  ASSUME ViewTyped, NEW c \in Clients, NEW m, Deliver(c, m)
  PROVE  /\ conn'[c] = "open" <=> conn[c] = "open"
         /\ conn[c] = "open" => m2c'[c] = Append(m2c[c], m)
         /\ \A d \in Clients : d # c => UNCHANGED <<m2c[d], conn[d]>>
  BY DEF ViewTyped, Deliver

LEMMA TakeAllFacts ==
  ASSUME ViewTyped, ServerTypeOK, NEW c \in Clients, TakeAll(c)
  PROVE  /\ conn'[c] = "open" <=> conn[c] = "open"
         /\ c2m'[c] = <<>>
         /\ \A d \in Clients : d # c => UNCHANGED <<c2m[d], conn[d]>>
  BY DEF ViewTyped, ServerTypeOK, TakeAll

(* M's last word on a request. *)
LEMMA TellsAndReturns ==
  ASSUME IndexInv, ViewTyped, Talk, NEW c, c = cur, mpc \in Programs,
         NEW m, Deliver(c, m), Return, UNCHANGED <<c2m, cVars>>,
         cpc[c] # "gone" => Quiet(c) /\ Replies(c, m)
  PROVE  Talk'
  <1>1. c \in Clients /\ Served(c) /\ (cpc[c] # "gone" => conn[c] = "open")
    BY ServedFacts
  <1>2. /\ conn'[c] = "open" <=> conn[c] = "open"
        /\ conn[c] = "open" => m2c'[c] = Append(m2c[c], m)
        /\ \A d \in Clients : d # c => UNCHANGED <<m2c[d], conn[d]>>
    BY <1>1, DeliverFacts
  <1>3. ASSUME cpc[c] # "gone"
        PROVE  Rest(c)'
    <2>1. m2c'[c] = Append(<<>>, m) /\ c2m'[c] = <<>>
      BY <1>1, <1>2, <1>3 DEF Quiet
    <2>2. Len(m2c'[c]) = 1 /\ Head(m2c'[c]) = m
      BY <2>1, AppendEmpty
    <2>3. Replies(c, m)'
      BY <1>3 DEF Replies, Accepted, cVars
    <2>4. QED
      BY <2>1, <2>2, <2>3 DEF Rest, Replies, Accepted
  <1>4. mpc' \notin Programs
    BY DEF Return, Programs
  <1>5. QED
    BY <1>1, <1>2, <1>3, <1>4, MainTalks

LEMMA MAuthTalks ==
  ASSUME IndexInv, AuthInv, ViewTyped, Talk, MAuth, UNCHANGED cVars
  PROVE  Talk'
  <1>0. PICK c, m : c = cur /\ m = TellsA
    OBVIOUS
  <1>1. mpc = "auth" /\ mpc \in Programs
    BY DEF MAuth, Hears, Programs
  <1>2. Deliver(c, m)
    BY <1>0, MAuthFacts DEF MAuth, IndexInv
  <1>3. ASSUME cpc[c] # "gone"
        PROVE  Quiet(c) /\ Replies(c, m)
    <2>1. /\ Quiet(c) /\ cpc[c] = "auth"
          /\ <<req.user, req.password>> \in LoginAs[c] /\ member[c] = req.user
      BY <1>0, <1>1, <1>3, ServedFacts DEF Serve
    <2>2. m.t = "credentials"
      BY <1>0 DEF TellsA
    <2>3. m.status = "SUCCESS" =>
            matchCredentials(req.user, Encrypt[req.password])
      BY <1>0 DEF TellsA
    <2>4. m.status = "SUCCESS" => Accepted(c)
      <3>1. SUFFICES ASSUME m.status = "SUCCESS" PROVE Accepted(c)
        OBVIOUS
      <3>2. PICK pair : pair = <<req.user, req.password>>
        OBVIOUS
      <3>3. pair \in LoginAs[c] /\ pair[1] = req.user /\ pair[2] = req.password
        BY <2>1, <3>2
      <3>4. QED
        BY <2>1, <2>3, <3>1, <3>3 DEF Accepted, matchCredentials
    <2>5. QED
      BY <2>1, <2>2, <2>4 DEF Replies
  <1>4. QED
    BY <1>0, <1>1, <1>2, <1>3, TellsAndReturns DEF MAuth

LEMMA MGainTalks ==
  ASSUME IndexInv, QuoteInv, ViewTyped, Talk, UNCHANGED cVars,
         MGain \/ MQuoteReply
  PROVE  Talk'
  <1>1. mpc \in {"prices", "quote"} /\ mpc \in Programs
    BY DEF MGain, MQuoteReply, Hears, Programs
  <1>2. PICK c, m : /\ c = cur /\ Deliver(c, m)
                    /\ m.t \in {"quote", "quoteall", "gain"}
    <2>1. CASE MGain
      BY <2>1 DEF MGain
    <2>2. CASE MQuoteReply
      <3>1. Head(toM).t \in OfQ
        BY <2>2 DEF MQuoteReply, Hears, QuoteInv, QuoteAsked, Lost
      <3>2. QED
        BY <2>2, <3>1 DEF MQuoteReply, OfQ
    <2>3. QED
      BY <2>1, <2>2
  <1>3. cpc[c] # "gone" => Quiet(c) /\ Replies(c, m)
    BY <1>1, <1>2, ServedFacts DEF Serve, Replies
  <1>4. QED
    BY <1>1, <1>2, <1>3, TellsAndReturns DEF MGain, MQuoteReply

LEMMA MSellRefusedTalks ==
  ASSUME IndexInv, OrderInv, ViewTyped, Talk, UNCHANGED cVars,
         MSellUnknown \/ MSellRefused
  PROVE  Talk'
  <1>1. mpc = "sell_held" /\ mpc \in Programs /\ req.op = "sell"
    BY DEF MSellUnknown, MSellRefused, Hears, Programs, OrderInv, OpFits
  <1>2. PICK c, m : /\ c = cur /\ Deliver(c, m) /\ m.t = "verdict"
                    /\ m.text \in {"FAIL", "stock_FAIL"}
    BY DEF MSellUnknown, MSellRefused, Verdict
  <1>3. cpc[c] # "gone" => Quiet(c) /\ Replies(c, m)
    BY <1>1, <1>2, ServedFacts DEF Serve, Waits, Replies
  <1>4. QED
    BY <1>1, <1>2, <1>3, TellsAndReturns DEF MSellUnknown, MSellRefused

(* M says nothing to the client. *)
LEMMA MSilentTalks ==
  ASSUME IndexInv, Talk, UNCHANGED <<tcpVars, cVars>>, mpc \in Programs,
         NEW c, c = cur,
         \/ cur' = c /\ mpc' \in Programs /\ (cpc[c] # "gone" => Serve(c)')
         \/ mpc' \notin Programs /\ (cpc[c] # "gone" => Rest(c)')
  PROVE  Talk'
  <1>1. c \in Clients /\ Served(c)
    BY ServedFacts
  <1>2. QED
    BY <1>1, MainTalks DEF tcpVars

LEMMA MResultTalks ==
  ASSUME IndexInv, ViewTyped, Talk, UNCHANGED cVars, MResult
  PROVE  Talk'
  <1>0. PICK c : c = cur
    OBVIOUS
  <1>1. mpc = "update" /\ mpc \in Programs
    BY DEF MResult, Hears, Programs
  <1>2. cpc[c] # "gone" => Quiet(c) /\ cpc[c] = "result"
    BY <1>0, <1>1, ServedFacts DEF Serve
  <1>3. CASE Hears("update", "result") /\ Deliver(cur, Head(toM))
    <2>1. PICK m : m = Head(toM) /\ m.t = "result"
      BY <1>3 DEF Hears
    <2>2. cpc[c] # "gone" => Quiet(c) /\ Replies(c, m)
      BY <1>2, <2>1 DEF Replies
    <2>3. QED
      BY <1>0, <1>1, <1>3, <2>1, <2>2, TellsAndReturns DEF MResult
  <1>4. CASE UNCHANGED <<m2c, conn>>
    <2>1. UNCHANGED tcpVars /\ mpc' \notin Programs
      BY <1>4 DEF MResult, tcpVars, Return, Programs
    <2>2. cpc[c] # "gone" => Rest(c)'
      BY <1>2, <2>1 DEF Rest, Quiet, tcpVars, cVars
    <2>3. QED
      BY <1>0, <1>1, <2>1, <2>2, MSilentTalks
  <1>5. QED
    BY <1>3, <1>4 DEF MResult

LEMMA MGoesOnTalks ==
  ASSUME IndexInv, Talk, UNCHANGED cVars,
         MPortfolio \/ MBuyUpdate \/ MSellQuoted \/ MSellChecked
  PROVE  Talk'
  <1>0. PICK c : c = cur
    OBVIOUS
  <1>1. /\ mpc \in Programs /\ mpc' \in Programs /\ cur' = c /\ UNCHANGED tcpVars
        /\ \/ mpc = "portfolio" /\ mpc' = "prices"
           \/ /\ mpc = "buy_held" /\ mpc' = "update"
              /\ UNCHANGED <<req, offer, confirmation>>
           \/ /\ mpc \in {"offer", "sell_check"} /\ UNCHANGED req
              /\ mpc' \in {"sell_check", "sell_held"}
    BY <1>0 DEF MPortfolio, MBuyUpdate, MSellQuoted, MSellChecked, Hears, Programs
  <1>2. ASSUME cpc[c] # "gone"
        PROVE  Serve(c)'
    <2>1. Serve(c)
      BY <1>0, <1>1, <1>2, ServedFacts
    <2>2. /\ Quiet(c) => Quiet(c)'
          /\ UNCHANGED req => (IsOrder(c, req) => IsOrder(c, req)')
      BY <1>1 DEF Quiet, IsOrder, tcpVars, cVars
    <2>3. QED
      BY <1>1, <2>1, <2>2 DEF Serve, Waits, cVars
  <1>3. QED
    BY <1>0, <1>1, <1>2, MSilentTalks

LEMMA MLostTalks ==
  ASSUME IndexInv, Talk, UNCHANGED cVars,
         MBuyNobody \/ MBuyThrows \/ MMisread \/ MSigPipe
  PROVE  Talk'
  <1>0. PICK c : c = cur
    OBVIOUS
  <1>1. /\ mpc \in Programs /\ mpc' \notin Programs /\ UNCHANGED tcpVars
        /\ mpc \in {"sell_sleep", "buy_answer", "sell_answer"} =>
             conn[c] = "broken"
    BY <1>0 DEF MBuyNobody, MBuyThrows, MMisread, MSigPipe, AtSend, Hears, Programs,
       Return, wireVars, tcpVars
  <1>2. ASSUME cpc[c] # "gone"
        PROVE  Rest(c)'
    <2>1. Serve(c) /\ conn[c] = "open"
      BY <1>0, <1>1, <1>2, ServedFacts
    <2>2. Quiet(c) /\ cpc[c] # "confirm"
      BY <1>1, <2>1 DEF Serve, Programs, Waits
    <2>3. QED
      BY <1>1, <2>2 DEF Rest, Quiet, tcpVars, cVars
  <1>3. QED
    BY <1>0, <1>1, <1>2, MSilentTalks

(* M tells the client something and goes on. *)
LEMMA MTellsTalks ==
  ASSUME IndexInv, ViewTyped, Talk, NEW c, c = cur, mpc \in Programs,
         NEW m, Deliver(c, m), cur' = c, mpc' \in Programs,
         UNCHANGED <<c2m, cVars>>,
         cpc[c] # "gone" /\ m2c'[c] = Append(m2c[c], m) => Serve(c)'
  PROVE  Talk'
  <1>1. c \in Clients /\ Served(c) /\ (cpc[c] # "gone" => conn[c] = "open")
    BY ServedFacts
  <1>2. /\ conn'[c] = "open" <=> conn[c] = "open"
        /\ conn[c] = "open" => m2c'[c] = Append(m2c[c], m)
        /\ \A d \in Clients : d # c => UNCHANGED <<m2c[d], conn[d]>>
    BY <1>1, DeliverFacts
  <1>3. QED
    BY <1>1, <1>2, MainTalks

LEMMA MBuyOfferTalks ==
  ASSUME IndexInv, ViewTyped, Talk, UNCHANGED cVars, MBuyOffer
  PROVE  Talk'
  <1>0. PICK c, m : c = cur /\ m = Head(toM)
    OBVIOUS
  <1>1. /\ mpc = "offer" /\ mpc \in Programs /\ mpc' = "buy_answer"
        /\ mpc' \in Programs /\ cur' = c /\ Deliver(c, m)
        /\ UNCHANGED <<c2m, req>> /\ req.op = "buy"
        /\ m.t = "quote" /\ offer' = m.price
    BY <1>0 DEF MBuyOffer, Hears, Programs
  <1>2. ASSUME cpc[c] # "gone", m2c'[c] = Append(m2c[c], m)
        PROVE  Serve(c)'
    <2>1. Quiet(c) /\ cpc[c] = "offer" /\ IsOrder(c, req)
      BY <1>0, <1>1, <1>2, ServedFacts DEF Serve, Waits
    <2>2. Len(m2c'[c]) = 1 /\ Head(m2c'[c]) = m
      BY <1>2, <2>1, AppendEmpty DEF Quiet
    <2>3. Deciding(c)' /\ IsOrder(c, req)'
      BY <1>1, <2>1, <2>2 DEF Deciding, IsOrder, Quiet, cVars
    <2>4. QED
      BY <1>1, <2>3 DEF Serve
  <1>3. QED
    BY <1>0, <1>1, <1>2, MTellsTalks

LEMMA MSellPassTalks ==
  ASSUME IndexInv, OrderInv, ViewTyped, Talk, UNCHANGED cVars, MSellPass
  PROVE  Talk'
  <1>0. PICK c, m : c = cur /\ m = Verdict("PASS")
    OBVIOUS
  <1>1. /\ mpc = "sell_held" /\ mpc \in Programs /\ mpc' = "sell_sleep"
        /\ mpc' \in Programs /\ cur' = c /\ Deliver(c, m)
        /\ UNCHANGED <<c2m, req>> /\ req.op = "sell"
    BY <1>0 DEF MSellPass, Hears, Programs, OrderInv, OpFits
  <1>2. ASSUME cpc[c] # "gone", m2c'[c] = Append(m2c[c], m)
        PROVE  Serve(c)'
    <2>1. Quiet(c) /\ cpc[c] = "valid" /\ IsOrder(c, req)
      BY <1>0, <1>1, <1>2, ServedFacts DEF Serve, Waits
    <2>2. Len(m2c'[c]) = 1 /\ Head(m2c'[c]) = m /\ m2c'[c] # <<>>
      BY <1>2, <2>1, AppendEmpty DEF Quiet
    <2>3. Passed(c)' /\ IsOrder(c, req)'
      BY <1>0, <1>1, <2>1, <2>2 DEF Passed, IsOrder, Quiet, cVars, Verdict
    <2>4. QED
      BY <1>1, <2>2, <2>3 DEF Serve
  <1>3. QED
    BY <1>0, <1>1, <1>2, MTellsTalks

LEMMA MSellOfferTalks ==
  ASSUME IndexInv, ViewTyped, Talk, UNCHANGED cVars, MSellOffer
  PROVE  Talk'
  <1>0. PICK c, m : /\ c = cur
                    /\ m = [t |-> "quote", stock |-> req.stock, price |-> offer]
    OBVIOUS
  <1>1. /\ mpc = "sell_sleep" /\ mpc \in Programs /\ mpc' = "sell_answer"
        /\ mpc' \in Programs /\ cur' = c /\ Deliver(c, m)
        /\ UNCHANGED <<c2m, req, offer>> /\ m.t = "quote" /\ m.price = offer
    BY <1>0 DEF MSellOffer, Programs
  <1>2. ASSUME cpc[c] # "gone", m2c'[c] = Append(m2c[c], m)
        PROVE  Serve(c)'
    <2>1. /\ IsOrder(c, req) /\ Passed(c)
          /\ cpc[c] = "valid" => Len(m2c[c]) = 1
      BY <1>0, <1>1, <1>2, ServedFacts DEF Serve
    <2>2. IsOrder(c, req)' /\ cpc'[c] = cpc[c] /\ c2m'[c] = <<>>
      BY <1>1, <2>1 DEF IsOrder, Passed, cVars
    <2>3. CASE cpc[c] = "valid"
      <3>1. m2c[c] \in Seq(ToClient) /\ m2c[c] # <<>> /\ Head(m2c[c]) = Verdict("PASS")
        BY <1>0, <1>1, <2>1, <2>3, ServedFacts DEF ViewTyped, Passed
      <3>2. Len(m2c'[c]) = 2 /\ Head(m2c'[c]) = Head(m2c[c]) /\ m2c'[c] # <<>>
        BY <1>2, <2>1, <2>3, <3>1
      <3>3. Passed(c)'
        BY <2>2, <2>3, <3>1, <3>2 DEF Passed, Verdict
      <3>4. QED
        BY <1>1, <2>2, <2>3, <3>2, <3>3 DEF Serve
    <2>4. CASE cpc[c] # "valid"
      <3>1. cpc[c] = "offer" /\ m2c'[c] = Append(<<>>, m)
        BY <1>2, <2>1, <2>4 DEF Passed
      <3>2. Len(m2c'[c]) = 1 /\ Head(m2c'[c]) = m
        BY <3>1, AppendEmpty
      <3>3. Deciding(c)'
        BY <1>1, <2>2, <3>1, <3>2 DEF Deciding
      <3>4. QED
        BY <1>1, <2>2, <3>3 DEF Serve
    <2>5. QED
      BY <2>3, <2>4
  <1>3. QED
    BY <1>0, <1>1, <1>2, MTellsTalks

(* M hears the client's answer. *)
LEMMA MHearsTalks ==
  ASSUME IndexInv, ViewTyped, Talk, UNCHANGED cVars, NEW pc,
         pc \in {"buy_answer", "sell_answer"}, HearsClient(pc), NEW c, c = cur,
         \/ AnswerRead = "N" /\ mpc' \notin Programs
         \/ /\ AnswerRead # "N" /\ mpc' \in {"buy_held", "update"} /\ cur' = cur
            /\ UNCHANGED <<req, offer>> /\ confirmation' = AnswerRead
  PROVE  Talk'
  <1>0. mpc = pc /\ mpc \in Programs /\ TakeAll(c) /\ m2c' = m2c
        /\ ServerTypeOK
    BY DEF HearsClient, Programs, IndexInv
  <1>1. /\ c \in Clients /\ Served(c)
        /\ cpc[c] # "gone" => Serve(c) /\ conn[c] = "open"
    BY <1>0, ServedFacts
  <1>2. /\ conn'[c] = "open" <=> conn[c] = "open"
        /\ c2m'[c] = <<>>
        /\ \A d \in Clients : d # c => UNCHANGED <<c2m[d], conn[d]>>
    BY <1>0, <1>1, TakeAllFacts
  <1>3. ASSUME cpc[c] # "gone"
        PROVE  \/ Declined(c)
               \/ /\ cpc[c] = "result" /\ m2c[c] = <<>> /\ offer # NA
                  /\ IsOrder(c, req) /\ AnswerRead \in Typed \ {"N"}
    <2>1. c2m[c] # <<>>
      BY <1>1, <1>3 DEF HearsClient
    <2>2. Declined(c) \/ (IsOrder(c, req) /\ Deciding(c))
      BY <1>0, <1>1, <1>3, <2>1 DEF Serve, Passed
    <2>3. QED
      BY <2>1, <2>2 DEF Deciding, Quiet, AnswerRead
  <1>4. CASE AnswerRead = "N" /\ mpc' \notin Programs
    <2>1. cpc[c] # "gone" => m2c[c] = <<>> /\ cpc[c] # "confirm"
      BY <1>3, <1>4 DEF Declined
    <2>2. cpc[c] # "gone" => Rest(c)'
      BY <1>0, <1>2, <2>1 DEF Rest, Quiet, cVars
    <2>3. QED
      BY <1>0, <1>1, <1>2, <1>4, <2>2, MainTalks
  <1>5. CASE /\ AnswerRead # "N" /\ mpc' \in {"buy_held", "update"} /\ cur' = cur
             /\ UNCHANGED <<req, offer>> /\ confirmation' = AnswerRead
    <2>1. ASSUME cpc[c] # "gone"
          PROVE  Serve(c)'
      <3>1. /\ cpc[c] = "result" /\ m2c[c] = <<>> /\ offer # NA
            /\ IsOrder(c, req) /\ AnswerRead \in Typed \ {"N"}
        BY <1>3, <1>5, <2>1 DEF Declined, AnswerRead
      <3>2. Quiet(c)' /\ cpc'[c] = "result" /\ IsOrder(c, req)'
        BY <1>0, <1>2, <1>5, <3>1 DEF Quiet, IsOrder, cVars
      <3>3. QED
        BY <1>5, <3>1, <3>2 DEF Serve
    <2>2. mpc' \in Programs
      BY <1>5 DEF Programs
    <2>3. QED
      BY <1>0, <1>1, <1>2, <1>5, <2>1, <2>2, MainTalks
  <1>6. QED
    BY <1>4, <1>5

LEMMA MAnsweredTalks ==
  ASSUME IndexInv, ViewTyped, Talk, UNCHANGED cVars,
         MBuyDenied \/ MBuyApproved \/ MSellDenied \/ MSellApproved
  PROVE  Talk'
  <1>1. CASE MBuyDenied \/ MSellDenied
    <2>1. PICK pc \in {"buy_answer", "sell_answer"} : HearsClient(pc)
      BY <1>1 DEF MBuyDenied, MSellDenied
    <2>2. AnswerRead = "N" /\ mpc' \notin Programs
      BY <1>1 DEF MBuyDenied, MSellDenied, Return, Programs
    <2>3. QED
      BY <2>1, <2>2, MHearsTalks
  <1>2. CASE MBuyApproved \/ MSellApproved
    <2>1. PICK pc \in {"buy_answer", "sell_answer"} : HearsClient(pc)
      BY <1>2 DEF MBuyApproved, MSellApproved
    <2>2. /\ AnswerRead # "N" /\ mpc' \in {"buy_held", "update"} /\ cur' = cur
          /\ UNCHANGED <<req, offer>> /\ confirmation' = AnswerRead
      BY <1>2 DEF MBuyApproved, MSellApproved
    <2>3. QED
      BY <2>1, <2>2, MHearsTalks
  <1>3. QED
    BY <1>1, <1>2

LEMMA MainStepTalks ==
  ASSUME IndexInv, OrderInv, AuthInv, QuoteInv, ViewTyped, Talk, MainStep
  PROVE  Talk'
  <1>0. UNCHANGED cVars
    BY DEF MainStep
  <1>1. QED
    BY <1>0, MAuthTalks, MGainTalks, MSellRefusedTalks, MResultTalks, MGoesOnTalks,
       MLostTalks, MBuyOfferTalks, MSellPassTalks, MSellOfferTalks,
       MAnsweredTalks DEF MainStep

----------------------------------------------------------------------------
(* M takes up a request, or closes a connection. *)

LEMMA ReadsTalks ==
  ASSUME NEW c \in Clients, ViewTyped, ServerTypeOK, Talk, UNCHANGED cVars,
         NEW type, Reads(c, type), NEW m, m = Head(c2m[c]), mpc' \in Programs,
         cpc[c] # "gone" /\ Requests(c, m) /\ Quiet(c)' => Serve(c)'
  PROVE  Talk'
  <1>1. /\ \A d \in Clients : ~Served(d)
        /\ c2m[c] # <<>> /\ TakeAll(c) /\ m2c' = m2c /\ cur' = c
    BY DEF Reads, Served, Programs
  <1>2. /\ conn'[c] = "open" <=> conn[c] = "open"
        /\ c2m'[c] = <<>>
        /\ \A d \in Clients : d # c => UNCHANGED <<c2m[d], conn[d]>>
    BY <1>1, TakeAllFacts
  <1>3. TalkOf(c)'
    <2>1. (conn[c] = "open" <=> cpc[c] # "gone") /\ cpc' = cpc
      BY DEF Talk, TalkOf, cVars
    <2>2. ASSUME cpc[c] # "gone"
          PROVE  Serve(c)'
      <3>1. Rest(c)
        BY <1>1, <2>2 DEF Talk, TalkOf
      <3>2. m2c[c] = <<>> /\ Requests(c, m)
        BY <1>1, <3>1 DEF Rest, Quiet
      <3>3. QED
        BY <1>1, <1>2, <2>2, <3>2 DEF Quiet
    <2>3. QED
      BY <1>1, <1>2, <2>1, <2>2 DEF TalkOf, Served
  <1>4. ASSUME NEW d \in Clients, d # c
        PROVE  TalkOf(d)'
    <2>1. ~Served(d) /\ ~Served(d)' /\ SameView(d)
      BY <1>1, <1>2, <1>4 DEF Served, SameView, cVars
    <2>2. QED
      BY <2>1, OthersTalk DEF Talk
  <1>5. QED
    BY <1>3, <1>4 DEF Talk

LEMMA MTakesUpTalks ==
  ASSUME NEW c \in Clients, ViewTyped, ServerTypeOK, Talk, UNCHANGED cVars,
         \/ MLogin(c) \/ MPosition(c) \/ MTransact(c)
         \/ \E type \in {"quote", "quoteall"} : MQuote(c, type)
  PROVE  Talk'
  <1>0. PICK m : m = Head(c2m[c])
    OBVIOUS
  <1>1. CASE MLogin(c)
    <2>1. /\ Reads(c, "credentials") /\ mpc' = "auth" /\ mpc' \in Programs
          /\ m.t = "credentials" /\ req' = m
      BY <1>0, <1>1 DEF MLogin, Reads, Programs
    <2>2. ASSUME Requests(c, m), Quiet(c)'
          PROVE  Serve(c)'
      BY <2>1, <2>2 DEF Requests, IsOrder, Serve, cVars
    <2>3. QED
      BY <1>0, <2>1, <2>2, ReadsTalks
  <1>2. CASE MPosition(c) \/ \E type \in {"quote", "quoteall"} : MQuote(c, type)
    <2>1. PICK type \in {"position", "quote", "quoteall"} :
            /\ Reads(c, type) /\ mpc' \in {"portfolio", "quote"}
            /\ m.t = type /\ req' = m
      BY <1>0, <1>2 DEF MPosition, MQuote, Reads
    <2>2. mpc' \in Programs
      BY <2>1 DEF Programs
    <2>3. ASSUME Requests(c, m), Quiet(c)'
          PROVE  Serve(c)'
      BY <2>1, <2>3 DEF Requests, IsOrder, Serve, cVars
    <2>4. QED
      BY <1>0, <2>1, <2>2, <2>3, ReadsTalks
  <1>3. CASE MTransact(c)
    <2>1. /\ Reads(c, "transact") /\ mpc' = "offer" /\ mpc' \in Programs
          /\ m.t = "transact" /\ req' = m
      BY <1>0, <1>3 DEF MTransact, Reads, Programs
    <2>2. ASSUME Requests(c, m), Quiet(c)'
          PROVE  Serve(c)'
      <3>1. IsOrder(c, m) /\ cpc[c] = Waits(m)
        BY <2>1, <2>2 DEF Requests
      <3>2. IsOrder(c, m)' /\ cpc' = cpc /\ (IsOrder(c, m)' => IsOrder(c, req)')
        BY <2>1, <3>1 DEF IsOrder, cVars
      <3>3. QED
        BY <2>1, <2>2, <3>1, <3>2 DEF Serve, Waits
    <2>3. QED
      BY <1>0, <2>1, <2>2, ReadsTalks
  <1>4. QED
    BY <1>1, <1>2, <1>3

LEMMA MCloseTalks ==
  ASSUME NEW c \in Clients, ViewTyped, Talk, UNCHANGED cVars, MClose(c)
  PROVE  Talk'
  <1>1. conn[c] # "open" /\ conn'[c] # "open" /\ cpc'[c] = cpc[c]
    BY DEF MClose, ViewTyped, cVars
  <1>2. TalkOf(c)'
    BY <1>1 DEF Talk, TalkOf
  <1>3. ASSUME NEW d \in Clients, d # c
        PROVE  TalkOf(d)'
    <2>1. SameView(d) /\ UNCHANGED mVars
      BY <1>3 DEF MClose, ViewTyped, SameView, cVars
    <2>2. QED
      BY <2>1, OthersTalk DEF Talk
  <1>4. QED
    BY <1>2, <1>3 DEF Talk

LEMMA ServeStepTalks ==
  ASSUME NEW c \in Clients, ViewTyped, ServerTypeOK, Talk, ServeStep(c)
  PROVE  Talk'
  BY MTakesUpTalks, MCloseTalks DEF ServeStep

LEMMA SameTalks ==
  ASSUME Talk, UNCHANGED <<tcpVars, mVars, cVars>>
  PROVE  Talk'
  <1>1. \A d \in Clients : SameView(d) /\ UNCHANGED mVars
    BY DEF SameView, tcpVars, cVars
  <1>2. QED
    BY <1>1, OthersTalk DEF Talk

LEMMA ServersTalk ==
  ASSUME Talk, AuthStep \/ QuoteStep \/ PortfolioStep
  PROVE  Talk'
  BY SameTalks
     DEF AuthStep, AReply, QuoteStep, QQuote, QQuoteAll, QUpdate, PortfolioStep,
         PPosition, PCheck, PRetrieve, PUpdateNew, PUpdateReplace, PUpdateRemove,
         PAnswer, PFallsOff, PReplies

----------------------------------------------------------------------------
(* What clients are told, and what they keep, has its type. *)

LEMMA DeliverTyped ==
  ASSUME ViewTyped, NEW c \in Clients, NEW m \in ToClient, Deliver(c, m)
  PROVE  conn' \in [Clients -> ConnStates] /\ m2c' \in [Clients -> Seq(ToClient)]
  <1>1. m2c[c] \in Seq(ToClient)
    BY DEF ViewTyped
  <1>2. Append(m2c[c], m) \in Seq(ToClient)
    BY <1>1
  <1>3. QED
    BY <1>2 DEF ViewTyped, ConnStates, Deliver

LEMMA HearsTyped ==
  ASSUME IndexInv, NEW pc, NEW type, Hears(pc, type)
  PROVE  /\ type = "credentials" => Head(toM) \in ReplyFromA
         /\ type \in OfQ => Head(toM) \in ReplyFromQ
         /\ type = "quote" => /\ Head(toM).stock \in Stocks
                              /\ Head(toM).price \in Int \cup {NA}
         /\ type = "quoteall" => Head(toM).prices \in [Listed -> Int]
         /\ type = "result" => Head(toM) \in ToClient
  <1>1. PICK m : m = Head(toM)
    OBVIOUS
  <1>2. m \in ReplyFromA \cup ReplyFromQ \cup ReplyFromP /\ m.t = type
    BY <1>1, HearsFacts
  <1>3. type = "credentials" => m \in ReplyFromA
    BY <1>2 DEF ReplyFromQ, ReplyFromP
  <1>4. type \in OfQ => m \in ReplyFromQ
    BY <1>2 DEF ReplyFromA, ReplyFromP, OfQ
  <1>5. type = "result" => m \in ToClient
    BY <1>2 DEF ReplyFromA, ReplyFromQ, ReplyFromP, ToClient
  <1>6. /\ type = "quote" => m.stock \in Stocks /\ m.price \in Int \cup {NA}
        /\ type = "quoteall" => m.prices \in [Listed -> Int]
    BY <1>2, <1>4 DEF OfQ, ReplyFromQ
  <1>7. QED
    BY <1>1, <1>3, <1>4, <1>5, <1>6

LEMMA PortfolioTyped ==
  ASSUME ServerTypeOK, NEW u
  PROVE  getPortfolio(u) \in Seq(Holding) \cup {NA}
  <1>1. CASE u \in Users
    BY <1>1, getPortfolioTyped
  <1>2. CASE u \notin Users
    BY <1>2 DEF ServerTypeOK, getPortfolio
  <1>3. QED
    BY <1>1, <1>2

LEMMA GainTyped ==
  ASSUME IndexInv, PortInv, MGain
  PROVE  [t |-> "gain", held |-> pos.held,
          profit |-> IF pos.held = NA THEN 0
                     ELSE profitCalc(Head(toM).prices, pos.held)] \in ToClient
  <1>1. PICK held, prices : held = pos.held /\ prices = Head(toM).prices
    OBVIOUS
  <1>2. held = HeldNow
    BY <1>1 DEF MGain, Hears, PortInv, KeptFits, Lost
  <1>3. held \in Seq(Holding) \cup {NA}
    BY <1>2, PortfolioTyped DEF HeldNow, IndexInv
  <1>4. prices \in [Listed -> Int]
    BY <1>1, HearsTyped DEF MGain
  <1>5. PICK profit :
          profit = IF held = NA THEN 0 ELSE profitCalc(prices, held)
    OBVIOUS
  <1>6. profit \in Money
    BY <1>3, <1>4, <1>5, ProfitMoney DEF Money
  <1>7. [t |-> "gain", held |-> held, profit |-> profit] \in ToClient
    BY <1>3, <1>6 DEF ToClient
  <1>8. QED
    BY <1>1, <1>5, <1>7

LEMMA VerdictsTyped ==
  \A text \in {"PASS", "FAIL", "stock_FAIL"} : Verdict(text) \in ToClient
  BY DEF Verdict, ToClient

LEMMA MOfferTyped ==
  ASSUME IndexInv, MSellOffer
  PROVE  [t |-> "quote", stock |-> req.stock, price |-> offer] \in ToClient
  <1>1. req.stock \in Stocks
    BY OrderTyped DEF MSellOffer, Trading
  <1>2. offer \in Int \cup {NA}
    BY DEF IndexInv, ServerTypeOK
  <1>3. QED
    BY <1>1, <1>2 DEF ToClient, ReplyFromQ

LEMMA MainDelivers ==
  ASSUME IndexInv, QuoteInv, PortInv, MainStep
  PROVE  \/ UNCHANGED <<m2c, conn>>
         \/ TakeAll(cur) /\ UNCHANGED m2c /\ cur \in Clients
         \/ \E m \in ToClient : Deliver(cur, m) /\ cur \in Clients
  <1>0. mpc \in Programs => cur \in Clients
    BY DEF IndexInv, Serving
  <1>1. CASE MAuth
    <2>1. cur \in Clients /\ Head(toM) \in ToClient
      BY <1>0, <1>1, HearsTyped DEF MAuth, Hears, Programs, ToClient
    <2>2. QED
      BY <1>1, <2>1 DEF MAuth
  <1>2. CASE MGain
    <2>1. cur \in Clients
      BY <1>0, <1>2 DEF MGain, Hears, Programs
    <2>2. QED
      BY <1>2, <2>1, GainTyped DEF MGain
  <1>3. CASE MQuoteReply
    <2>1. mpc = "quote" /\ cur \in Clients /\ Hears("quote", req.t)
      BY <1>0, <1>3 DEF MQuoteReply, Hears, Programs
    <2>2. req.t \in OfQ
      BY <2>1 DEF QuoteInv, QuoteAsked, Lost
    <2>3. Head(toM) \in ToClient
      BY <2>1, <2>2, HearsTyped DEF ToClient
    <2>4. QED
      BY <1>3, <2>1, <2>3 DEF MQuoteReply
  <1>4. CASE MBuyOffer
    <2>1. cur \in Clients /\ Head(toM) \in ToClient
      BY <1>0, <1>4, HearsTyped DEF MBuyOffer, Hears, Programs, ToClient, OfQ
    <2>2. QED
      BY <1>4, <2>1 DEF MBuyOffer
  <1>5. CASE MSellUnknown \/ MSellRefused \/ MSellPass
    <2>1. cur \in Clients
      BY <1>0, <1>5 DEF MSellUnknown, MSellRefused, MSellPass, Hears, Programs
    <2>2. QED
      BY <1>5, <2>1, VerdictsTyped DEF MSellUnknown, MSellRefused, MSellPass
  <1>6. CASE MSellOffer
    <2>1. cur \in Clients
      BY <1>0, <1>6 DEF MSellOffer, Programs
    <2>2. QED
      BY <1>6, <2>1, MOfferTyped DEF MSellOffer
  <1>7. CASE MResult
    <2>1. cur \in Clients
      BY <1>0, <1>7 DEF MResult, Hears, Programs
    <2>2. QED
      BY <1>7, <2>1, HearsTyped DEF MResult
  <1>8. CASE MBuyDenied \/ MBuyApproved \/ MSellDenied \/ MSellApproved
    <2>1. mpc \in Programs
      BY <1>8 DEF MBuyDenied, MBuyApproved, MSellDenied, MSellApproved,
                  HearsClient, Programs
    <2>2. QED
      BY <1>0, <1>8, <2>1 DEF MBuyDenied, MBuyApproved, MSellDenied, MSellApproved,
                              HearsClient
  <1>9. CASE \/ MPortfolio \/ MBuyUpdate \/ MBuyNobody \/ MBuyThrows
             \/ MSellQuoted \/ MSellChecked \/ MSigPipe \/ MMisread
    BY <1>9 DEF MPortfolio, MBuyUpdate, MBuyNobody, MBuyThrows, MSellQuoted,
                MSellChecked, MSigPipe, MMisread, tcpVars, wireVars
  <1>10. QED
    BY <1>1, <1>2, <1>3, <1>4, <1>5, <1>6, <1>7, <1>8, <1>9 DEF MainStep

LEMMA MainKeepsView ==
  ASSUME IndexInv, QuoteInv, PortInv, ViewTyped, MainStep
  PROVE  ViewTyped'
  <1>1. UNCHANGED <<order, seen>>
    BY DEF MainStep, cVars
  <1>2. conn' \in [Clients -> ConnStates] /\ m2c' \in [Clients -> Seq(ToClient)]
    <2>1. CASE UNCHANGED <<m2c, conn>>
      BY <2>1 DEF ViewTyped
    <2>2. CASE TakeAll(cur) /\ UNCHANGED m2c /\ cur \in Clients
      BY <2>2 DEF ViewTyped, TakeAll, ConnStates
    <2>3. CASE \E m \in ToClient : Deliver(cur, m) /\ cur \in Clients
      BY <2>3, DeliverTyped
    <2>4. QED
      BY <2>1, <2>2, <2>3, MainDelivers
  <1>3. QED
    BY <1>1, <1>2 DEF ViewTyped

LEMMA ServeStepKeepsView ==
  ASSUME ViewTyped, NEW c \in Clients, ServeStep(c)
  PROVE  ViewTyped'
  <1>1. UNCHANGED <<order, seen, m2c>> /\ (TakeAll(c) \/ MClose(c))
    BY DEF ServeStep, MLogin, MPosition, MTransact, MQuote, Reads, MClose, cVars
  <1>2. conn' \in [Clients -> ConnStates]
    BY <1>1 DEF ViewTyped, TakeAll, MClose, ConnStates
  <1>3. QED
    BY <1>1, <1>2 DEF ViewTyped

LEMMA ReceiveKeepsView ==
  ASSUME ViewTyped, ServerTypeOK, Talk, NEW c \in Clients, ReceiveStep(c)
  PROVE  ViewTyped'
  <1>0. <<>> \in Seq(ToClient)
    OBVIOUS
  <1>1. conn' = conn /\ m2c' \in [Clients -> Seq(ToClient)]
    BY <1>0 DEF ViewTyped, ReceiveStep, CAuth, CShow, CValid, COffer, CNoSuchStock,
           CResult, Receives
  <1>2. CASE COffer(c)
    <2>1. cpc[c] = "offer" /\ m2c[c] # <<>> /\ TalkOf(c)
      BY <1>2 DEF COffer, Receives, Talk
    <2>2. Head(m2c[c]).t = "quote"
      BY <2>1, Arrived DEF Replies
    <2>3. PICK m : m = Head(m2c[c])
      OBVIOUS
    <2>4. m \in ToClient
      BY <2>1, <2>3 DEF ViewTyped
    <2>5. m.price \in Int \cup {NA}
      BY <2>2, <2>3, <2>4 DEF ToClient, ReplyFromA, ReplyFromQ
    <2>6. order' = order /\ seen' = [seen EXCEPT ![c] = m.price]
      BY <1>2, <2>3 DEF COffer
    <2>7. QED
      BY <1>1, <2>5, <2>6 DEF ViewTyped
  <1>3. CASE ~COffer(c)
    <2>1. \/ UNCHANGED <<order, seen>>
          \/ order' = [order EXCEPT ![c] = NA] /\ seen' = [seen EXCEPT ![c] = NA]
      BY <1>3 DEF ReceiveStep, CAuth, CShow, CValid, CNoSuchStock, CResult, Prompt
    <2>2. QED
      BY <1>1, <2>1 DEF ViewTyped
  <1>4. QED
    BY <1>2, <1>3

LEMMA ClientKeepsView ==
  ASSUME ViewTyped, ServerTypeOK, Talk, NEW c \in Clients, ClientStep(c)
  PROVE  ViewTyped'
  <1>1. CASE ReceiveStep(c)
    BY <1>1, ReceiveKeepsView
  <1>2. CASE AnswerStep(c)
    BY <1>2 DEF AnswerStep, CAnswer, Sends, Prompt, ViewTyped
  <1>3. CASE CommandStep(c)
    <2>1. CASE CLogin(c) \/ \E m : CAsk(c, m)
      BY <2>1 DEF CLogin, CAsk, Sends, ViewTyped
    <2>2. CASE \E op \in {"buy", "sell"}, s \in Stocks, n \in Shares :
                 CTrade(c, op, s, n)
      <3>1. PICK op \in {"buy", "sell"}, s \in Stocks, n \in Shares :
              CTrade(c, op, s, n)
        BY <2>2
      <3>2. n \in CInt
        BY ClientAssumption
      <3>3. [op |-> op, stock |-> s, shares |-> n] \in
              [op : {"buy", "sell"}, stock : Stocks, shares : CInt]
        BY <3>2
      <3>4. QED
        BY <3>1, <3>3 DEF CTrade, Sends, ViewTyped
    <2>3. CASE CLeave(c)
      BY <2>3 DEF CLeave, HangUp, ViewTyped, ConnStates
    <2>4. QED
      BY <1>3, <2>1, <2>2, <2>3 DEF CommandStep
  <1>4. QED
    BY <1>1, <1>2, <1>3 DEF ClientStep

LEMMA ServersKeepView ==
  ASSUME ViewTyped, AuthStep \/ QuoteStep \/ PortfolioStep
  PROVE  ViewTyped'
  <1>1. UNCHANGED <<tcpVars, cVars>>
    BY DEF AuthStep, AReply, QuoteStep, QQuote, QQuoteAll, QUpdate, PortfolioStep,
         PPosition, PCheck, PRetrieve, PUpdateNew, PUpdateReplace, PUpdateRemove,
         PAnswer, PFallsOff, PReplies
  <1>2. QED
    BY <1>1 DEF ViewTyped, tcpVars, cVars

LEMMA DialogueInit == Init => DialogueInv
  <1>1. SUFFICES ASSUME Init PROVE DialogueInv
    OBVIOUS
  <1>2. ViewTyped
    BY <1>1 DEF Init, WireInit, CInit, ViewTyped, ConnStates
  <1>3. ASSUME NEW c \in Clients
        PROVE  TalkOf(c)
    <2>1. conn[c] = "open" /\ cpc[c] = "login" /\ Quiet(c) /\ ~Served(c)
      BY <1>1, <1>3 DEF Init, WireInit, CInit, MInit, Quiet, Served, Programs
    <2>2. QED
      BY <2>1 DEF TalkOf, Rest
  <1>4. QED
    BY <1>2, <1>3 DEF DialogueInv, Talk

LEMMA NextKeepsDialogue ==
  ASSUME IndexInv, OrderInv, AuthInv, QuoteInv, PortInv, DialogueInv, [Next]_vars
  PROVE  DialogueInv'
  <1>0. ServerTypeOK /\ ViewTyped /\ Talk
    BY DEF IndexInv, DialogueInv
  <1>1. CASE AuthStep \/ QuoteStep \/ PortfolioStep
    BY <1>0, <1>1, ServersTalk, ServersKeepView DEF DialogueInv
  <1>2. CASE MainStep
    BY <1>0, <1>2, MainStepTalks, MainKeepsView DEF DialogueInv
  <1>3. ASSUME NEW c \in Clients, ServeStep(c)
        PROVE  DialogueInv'
    BY <1>0, <1>3, ServeStepTalks, ServeStepKeepsView DEF DialogueInv
  <1>4. ASSUME NEW c \in Clients, ClientStep(c)
        PROVE  DialogueInv'
    BY <1>0, <1>4, ClientStepTalks, ClientKeepsView DEF DialogueInv
  <1>5. CASE UNCHANGED vars
    <2>1. UNCHANGED <<tcpVars, mVars, cVars>>
      BY <1>5 DEF vars, wireVars, tcpVars
    <2>2. QED
      BY <1>0, <2>1, SameTalks DEF DialogueInv, ViewTyped, tcpVars, cVars
  <1>6. QED
    BY <1>1, <1>2, <1>3, <1>4, <1>5 DEF Next

(* Server M and every client are, at every moment, where the other supposes *)
(* them to be (login, quote, transact and getPortfolio of client.cpp;       *)
(* operationType of serverM.cpp).                                           *)
THEOREM DialogueHolds == Spec => []DialogueInv
  <1>1. IndexInv /\ OrderInv /\ AuthInv /\ QuoteInv /\ PortInv /\ DialogueInv
          /\ [Next]_vars => DialogueInv'
    BY NextKeepsDialogue
  <1>2. QED
    BY <1>1, DialogueInit, ConversationWithP, OrderInvInvariant, ConversationWithA,
       ConversationWithQ, SaysPort, PTL DEF Spec

(* Every variable of every program keeps to what its program puts there:    *)
(* ints that have wrapped, sums of doubles with a NaN among them, price     *)
(* indices inside their list, and on every channel the messages its reader  *)
(* is written for (README e), updatePrice, profitCalc, parseTransact).      *)
THEOREM TypesAreKept == Spec => []TypeOK
  <1>1. IndexInv /\ DialogueInv => TypeOK
    BY DEF IndexInv, DialogueInv, ViewTyped, TypeOK
  <1>2. QED
    BY <1>1, DialogueHolds, ConversationWithP, PTL

(* However many clients trade, type ahead and leave, M waits for the answer *)
(* of the person who is looking at a price, about the order that person     *)
(* placed, at the price on the screen (operationType's TCPrecv takes the    *)
(* next text from that client, whatever it answers).                        *)
THEOREM WhoIsAskedIsServed == Spec => []AskedIsServed
  <1>1. ASSUME IndexInv, OrderInv, DialogueInv
        PROVE  AskedIsServed
    <2>1. SUFFICES ASSUME NEW c \in Clients, cpc[c] = "confirm"
                   PROVE  /\ cur = c
                          /\ mpc = IF order[c].op = "buy" THEN "buy_answer"
                                                          ELSE "sell_answer"
                          /\ <<req.op, req.stock, req.shares>>
                               = <<order[c].op, order[c].stock, order[c].shares>>
                          /\ Lower[req.user] = Lower[member[c]]
                          /\ seen[c] = offer
      BY DEF AskedIsServed
    <2>2. /\ Served(c) /\ mpc \in {"buy_answer", "sell_answer"}
          /\ IsOrder(c, req) /\ seen[c] = offer
      BY <1>1, <2>1, AtConfirm DEF IndexInv, DialogueInv, Talk
    <2>3. order[c].op = req.op /\ order[c].stock = req.stock
          /\ order[c].shares = req.shares /\ member[c] = req.user
      BY <2>2 DEF IsOrder
    <2>4. mpc = IF req.op = "buy" THEN "buy_answer" ELSE "sell_answer"
      BY <1>1, <2>2 DEF OrderInv, OpFits
    <2>5. QED
      BY <2>2, <2>3, <2>4 DEF Served
  <1>2. QED
    BY <1>1, DialogueHolds, ConversationWithP, OrderInvInvariant, PTL

----------------------------------------------------------------------------
(* Who is past the login. *)

LEMMA AuthAccepts ==
  ASSUME NEW c \in Clients, ServerTypeOK, TalkOf(c), CAuth(c),
         Head(m2c[c]).status = "SUCCESS"
  PROVE  Accepted(c)
  <1>1. cpc[c] = "auth" /\ m2c[c] # <<>>
    BY DEF CAuth, Receives
  <1>2. Replies(c, Head(m2c[c]))
    BY <1>1, Arrived
  <1>3. QED
    BY <1>1, <1>2 DEF Replies

LEMMA ClientStaysAccepted ==
  ASSUME ServerTypeOK, Talk, NEW c \in Clients, ClientStep(c), Authenticated
  PROVE  Authenticated'
  <1>0. Authenticated <=>
          \A d \in Clients : cpc[d] \notin {"login", "auth", "gone"} => Accepted(d)
    BY DEF Authenticated, Accepted
  <1>1. ASSUME NEW d \in Clients, cpc'[d] \notin {"login", "auth", "gone"}
        PROVE  Accepted(d)'
    <2>1. CASE d # c
      <3>1. cpc'[d] = cpc[d] /\ member'[d] = member[d]
        BY <2>1 DEF ServerTypeOK, ClientStep, ReceiveStep, AnswerStep, CommandStep,
           CLogin, CAuth, CAsk, CShow, CTrade, CValid, COffer, CNoSuchStock, CAnswer,
           CResult, CLeave, Prompt, Goto
      <3>2. QED
        BY <1>0, <1>1, <3>1 DEF Accepted
    <2>2. CASE d = c
      <3>1. ~CLogin(c) /\ ~CLeave(c)
        BY <1>1, <2>2 DEF ServerTypeOK, CLogin, CLeave, Goto
      <3>2. member'[c] = member[c]
        BY <3>1 DEF ClientStep, ReceiveStep, AnswerStep, CommandStep,
           CAuth, CAsk, CShow, CTrade, CValid, COffer, CNoSuchStock, CAnswer, CResult
      <3>3. CASE CAuth(c)
        <4>1. Head(m2c[c]).status = "SUCCESS"
          BY <1>1, <2>2, <3>3 DEF ServerTypeOK, CAuth, Goto
        <4>2. Accepted(c)
          BY <3>3, <4>1, AuthAccepts DEF Talk
        <4>3. QED
          BY <2>2, <3>2, <4>2 DEF Accepted
      <3>4. CASE ~CAuth(c)
        <4>1. cpc[c] \notin {"login", "auth", "gone"}
          BY <3>1, <3>4 DEF ClientStep, ReceiveStep, AnswerStep, CommandStep, AtPrompt,
             CAsk, CShow, CTrade, CValid, COffer, CNoSuchStock, CAnswer, CResult,
             Receives
        <4>2. QED
          BY <1>0, <2>2, <3>2, <4>1 DEF Accepted
      <3>5. QED
        BY <3>3, <3>4
    <2>3. QED
      BY <2>1, <2>2
  <1>2. QED
    BY <1>1 DEF Authenticated, Accepted

LEMMA NextKeepsAuthenticated ==
  ASSUME ServerTypeOK, Talk, Authenticated, [Next]_vars
  PROVE  Authenticated'
  <1>1. CASE \E c \in Clients : ClientStep(c)
    BY <1>1, ClientStaysAccepted
  <1>2. CASE ~ \E c \in Clients : ClientStep(c)
    <2>1. UNCHANGED cVars
      BY <1>2 DEF Next, AuthStep, QuoteStep, PortfolioStep, MainStep, ServeStep, vars
    <2>2. QED
      BY <2>1 DEF Authenticated, cVars
  <1>3. QED
    BY <1>1, <1>2

(* Past the login a client is somebody whose password Server A accepted:    *)
(* the replies to several logins at once do not get exchanged on their way  *)
(* through M (login, process_data of serverA.cpp, operationType).           *)
THEOREM MembersAreAuthenticated == Spec => []Authenticated
  <1>1. Init => Authenticated
    BY DEF Init, CInit, Authenticated
  <1>2. IndexInv /\ DialogueInv /\ Authenticated /\ [Next]_vars => Authenticated'
    BY NextKeepsAuthenticated DEF IndexInv, DialogueInv
  <1>3. QED
    BY <1>1, <1>2, ConversationWithP, DialogueHolds, PTL DEF Spec

----------------------------------------------------------------------------
(* What people may rely on who answer Y or N, when no client ends.          *)
(* Undisturbed: nothing disturbs the conversations.  Server P knows every   *)
(* confirmation, Server M never reads a datagram meant for another question *)
(* and nobody is in the way of the clients' orders.  The runs Permission    *)
(* and Gone show what happens otherwise.                                    *)
Undisturbed ==
  /\ \A c \in Clients : cpc[c] # "gone"
  /\ mpc \notin Lost
  /\ \A i \in DOMAIN toP : toP[i].t = "answer" => Silent(toP[i])
  /\ \A i \in DOMAIN toM : toM[i].t # "junk"

(* What has been proved of every instance. *)
Agreed ==
  IndexInv /\ OrderInv /\ AuthInv /\ QuoteInv /\ PortInv /\ DialogueInv

LEMMA AgreedInvariant == Spec => []Agreed
  <1>1. IndexInv /\ OrderInv /\ AuthInv /\ QuoteInv /\ PortInv /\ DialogueInv
          => Agreed
    BY DEF Agreed
  <1>2. QED
    BY <1>1, ConversationWithP, OrderInvInvariant, ConversationWithA,
       ConversationWithQ, SaysPort, DialogueHolds, PTL

(* The answer M reads is one that was typed. *)
LEMMA AnswerIsTyped ==
  ASSUME Agreed, NEW pc \in {"buy_answer", "sell_answer"}, HearsClient(pc),
         cpc[cur] # "gone"
  PROVE  AnswerRead \in Typed \cup {"N"}
  <1>0. mpc = pc /\ mpc \in Programs
    BY DEF HearsClient, Programs
  <1>1. /\ cur \in Clients /\ Serve(cur) /\ conn[cur] = "open"
        /\ c2m[cur] # <<>>
    BY <1>0, ServedFacts DEF Agreed, DialogueInv, HearsClient
  <1>2. Declined(cur) \/ Deciding(cur)
    BY <1>0, <1>1 DEF Serve, Passed
  <1>3. QED
    BY <1>1, <1>2 DEF Declined, Deciding, Quiet, AnswerRead

(* Nothing but what M waits for ever reaches its socket. *)
LEMMA RepliesAwaited ==
  ASSUME Agreed, mpc \notin Lost, NEW i \in DOMAIN toM, toM[i].t # "junk"
  PROVE  toM[i].t \in Awaited
  <1>1. PICK m : m = toM[i]
    OBVIOUS
  <1>2. toM \in Seq(ReplyFromA \cup ReplyFromQ \cup ReplyFromP)
    BY DEF Agreed, IndexInv, ServerTypeOK
  <1>3. m \in ReplyFromA \cup ReplyFromQ \cup ReplyFromP
    BY <1>1, <1>2, ElementOfSeq, LenProperties
  <1>4. m.t = "credentials" \/ m.t \in OfQ \/ FromP(m) \/ m.t = "junk"
    BY <1>3 DEF ReplyFromA, ReplyFromQ, ReplyFromP, OfQ, FromP
  <1>5. CASE m.t = "credentials"
    <2>1. mpc = "auth"
      BY <1>1, <1>5 DEF Agreed, AuthInv, RepliesOfA
    <2>2. QED
      BY <1>1, <1>5, <2>1 DEF Awaited
  <1>6. CASE m.t \in OfQ
    <2>1. mpc \in WaitsForQ /\ m.t = AskedOfQ
      BY <1>1, <1>6 DEF Agreed, QuoteInv, RepliesOfQ
    <2>2. QED
      BY <1>1, <2>1 DEF Awaited, AskedOfQ, WaitsForQ
  <1>7. CASE FromP(m)
    <2>1. mpc \in WaitsForP
      BY <1>1, <1>7 DEF Agreed, IndexInv, OneReply
    <2>2. m.t \in AnswersOfP
      BY <1>1, <1>7 DEF Agreed, PortInv, RepliesOfP, ReplyFits
    <2>3. QED
      BY <1>1, <2>1, <2>2 DEF Awaited, AnswersOfP, WaitsForP
  <1>8. QED
    BY <1>1, <1>4, <1>5, <1>6, <1>7

----------------------------------------------------------------------------
(* Nothing disturbs. *)

LEMMA MainNotLost ==
  ASSUME Agreed, Undisturbed, MainStep
  PROVE  mpc' \notin Lost
  <1>1. mpc \in Programs =>
          cur \in Clients /\ Serve(cur) /\ conn[cur] = "open"
    BY ServedFacts DEF Agreed, DialogueInv, Undisturbed, IndexInv, Serving
  <1>2. ~MBuyThrows
    <2>1. mpc = "buy_held" => offer # NA
      BY <1>1 DEF Serve, Programs
    <2>2. QED
      BY <2>1 DEF MBuyThrows, Hears
  <1>3. ~MSigPipe
    <2>1. AtSend => mpc \in Programs
      BY DEF AtSend, Programs
    <2>2. QED
      BY <1>1, <2>1 DEF MSigPipe
  <1>4. ~MMisread
    <2>1. toM # <<>> => 1 \in DOMAIN toM /\ Head(toM) = toM[1]
      BY TailFacts DEF Agreed, IndexInv, ServerTypeOK
    <2>2. toM # <<>> => Head(toM).t \in Awaited
      BY <2>1, RepliesAwaited DEF Undisturbed
    <2>3. QED
      BY <2>2 DEF MMisread
  <1>5. QED
    BY <1>2, <1>3, <1>4 DEF MainStep, Undisturbed, Lost, Return, MAuth, MPortfolio,
       MGain, MQuoteReply, MBuyOffer, MBuyDenied, MBuyApproved, MBuyUpdate,
       MBuyNobody, MSellQuoted, MSellChecked, MSellUnknown, MSellRefused, MSellPass,
       MSellOffer, MSellDenied, MSellApproved, MResult

(* What M sends to Server P. *)
LEMMA MainToP ==
  ASSUME Agreed, MainStep \/ \E c \in Clients : ServeStep(c)
  PROVE  \/ toP' = toP
         \/ \E m : toP' = Append(toP, m) /\ m.t # "answer"
         \/ MSellDenied /\ toP' = Append(toP, AnswerToP)
         \/ /\ MBuyApproved \/ MSellApproved
            /\ \E m \in ToP : toP' = toP \o <<AnswerToP, m>> /\ m.t # "answer"
  <1>1. CASE MBuyApproved
    <2>1. Retrieve \in ToP /\ Retrieve.t # "answer"
      BY <1>1, OrderTyped DEF Agreed, MBuyApproved, HearsClient, Trading, Retrieve, ToP
    <2>2. QED
      BY <1>1, <2>1 DEF MBuyApproved
  <1>2. CASE MSellApproved
    <2>1. PICK m : m = UpdateP(pos, Wrap(pos.shares - req.shares), pos.price)
      OBVIOUS
    <2>2. m \in ToP /\ m.t = "update"
      BY <1>2, <2>1, SellUpdateTyped DEF Agreed, UpdateP
    <2>3. QED
      BY <1>2, <2>1, <2>2 DEF MSellApproved
  <1>3. CASE MainStep /\ ~MBuyApproved /\ ~MSellApproved
    BY <1>3 DEF MainStep, MAuth, MPortfolio, MGain, MQuoteReply, MBuyOffer, MBuyDenied,
       MBuyUpdate, MBuyNobody, MBuyThrows, MSellQuoted, MSellChecked, MSellUnknown,
       MSellRefused, MSellPass, MSellOffer, MSellDenied, MResult, MSigPipe, MMisread,
       Bought, UpdateP, Retrieve, udpVars, wireVars
  <1>4. CASE \E c \in Clients : ServeStep(c)
    BY <1>4 DEF ServeStep, MLogin, MPosition, MTransact, MQuote, MClose, udpVars
  <1>5. QED
    BY <1>1, <1>2, <1>3, <1>4

LEMMA AnswerToPSilent ==
  ASSUME Typed \subseteq {"Y", "N"}, Agreed, Undisturbed,
         MSellDenied \/ MBuyApproved \/ MSellApproved
  PROVE  AnswerToP \in ToP /\ AnswerToP.t = "answer" /\ Silent(AnswerToP)
  <1>1. /\ mpc \in {"buy_answer", "sell_answer"} /\ HearsClient(mpc)
        /\ mpc = "buy_answer" => AnswerRead # "N"
    BY DEF MSellDenied, MBuyApproved, MSellApproved, HearsClient
  <1>2. cur \in Clients /\ req.op \in {"buy", "sell"}
        /\ (mpc = "buy_answer" <=> req.op = "buy")
    BY <1>1, OrderTyped DEF Agreed, OrderInv, OpFits, Trading
  <1>3. AnswerRead \in {"Y", "N"}
    BY <1>1, <1>2, AnswerIsTyped DEF Undisturbed
  <1>4. QED
    BY <1>1, <1>2, <1>3 DEF AnswerToP, Silent, ToP, Answers

LEMMA QueuesTyped ==
  ASSUME Agreed
  PROVE  /\ toP \in Seq(ToP)
         /\ toM \in Seq(ReplyFromA \cup ReplyFromQ \cup ReplyFromP)
         /\ toP # <<>> => Head(toP) = toP[1] /\ 1 \in DOMAIN toP
         /\ toM # <<>> => Head(toM) = toM[1] /\ 1 \in DOMAIN toM
  <1>1. /\ toP \in Seq(ToP)
        /\ toM \in Seq(ReplyFromA \cup ReplyFromQ \cup ReplyFromP)
    BY DEF Agreed, IndexInv, ServerTypeOK
  <1>2. QED
    BY <1>1, TailFacts

LEMMA MainTakes ==
  ASSUME MainStep \/ \E c \in Clients : ServeStep(c)
  PROVE  toM' = toM \/ (toM # <<>> /\ toM' = Tail(toM))
  BY DEF MainStep, ServeStep, MLogin, MPosition, MTransact, MQuote, MClose, Reads,
     MAuth, MPortfolio, MGain, MQuoteReply, MBuyOffer, MBuyDenied, MBuyApproved,
     MBuyUpdate, MBuyNobody, MBuyThrows, MSellQuoted, MSellChecked, MSellUnknown,
     MSellRefused, MSellPass, MSellOffer, MSellDenied, MSellApproved, MResult,
     MSigPipe, MMisread, Hears, udpVars, wireVars

LEMMA MainKeepsUndisturbed ==
  ASSUME Typed \subseteq {"Y", "N"}, Agreed, Undisturbed,
         MainStep \/ \E c \in Clients : ServeStep(c)
  PROVE  Undisturbed'
  <1>0. /\ toP \in Seq(ToP)
        /\ toM \in Seq(ReplyFromA \cup ReplyFromQ \cup ReplyFromP)
    BY QueuesTyped
  <1>1. \A c \in Clients : cpc'[c] # "gone"
    BY DEF Undisturbed, MainStep, ServeStep, cVars
  <1>2. mpc' \notin Lost
    <2>1. CASE MainStep
      BY <2>1, MainNotLost
    <2>2. CASE \E c \in Clients : ServeStep(c)
      BY <2>2 DEF Undisturbed, ServeStep, MLogin, MPosition, MTransact, MQuote, MClose,
         mVars, Lost
    <2>3. QED
      BY <2>1, <2>2
  <1>3. \A i \in DOMAIN toP' : toP'[i].t = "answer" => Silent(toP'[i])
    <2>1. CASE toP' = toP
      BY <2>1 DEF Undisturbed
    <2>2. CASE \E m : toP' = Append(toP, m) /\ m.t # "answer"
      BY <1>0, <2>2, AppendFacts DEF Undisturbed
    <2>3. CASE MSellDenied /\ toP' = Append(toP, AnswerToP)
      BY <1>0, <2>3, AnswerToPSilent, AppendFacts DEF Undisturbed
    <2>4. CASE /\ MBuyApproved \/ MSellApproved
               /\ \E m \in ToP : toP' = toP \o <<AnswerToP, m>> /\ m.t # "answer"
      <3>1. PICK a, m \in ToP :
              a = AnswerToP /\ toP' = toP \o <<a, m>> /\ m.t # "answer"
        BY <2>4, AnswerToPSilent
      <3>2. a.t = "answer" /\ Silent(a)
        BY <2>4, <3>1, AnswerToPSilent
      <3>3. toP' = Append(Append(toP, a), m) /\ Append(toP, a) \in Seq(ToP)
        BY <1>0, <3>1, AppendTwo, AppendFacts
      <3>4. \A i \in DOMAIN Append(toP, a) :
              Append(toP, a)[i].t = "answer" => Silent(Append(toP, a)[i])
        BY <1>0, <3>2, AppendFacts DEF Undisturbed
      <3>5. QED
        BY <3>1, <3>3, <3>4, AppendFacts
    <2>5. QED
      BY <2>1, <2>2, <2>3, <2>4, MainToP
  <1>4. \A i \in DOMAIN toM' : toM'[i].t # "junk"
    <2>1. toM' = toM \/ (toM # <<>> /\ toM' = Tail(toM))
      BY MainTakes
    <2>2. QED
      BY <1>0, <2>1, TailFacts DEF Undisturbed
  <1>5. QED
    BY <1>1, <1>2, <1>3, <1>4 DEF Undisturbed

LEMMA getStockTag ==
  ASSUME NEW u, NEW s
  PROVE  getStock(u, s).t = "held"
  BY DEF getStock

LEMMA ServersKeepUndisturbed ==
  ASSUME Agreed, Undisturbed, AuthStep \/ QuoteStep \/ PortfolioStep
  PROVE  Undisturbed'
  <1>0. /\ toP \in Seq(ToP)
        /\ toM \in Seq(ReplyFromA \cup ReplyFromQ \cup ReplyFromP)
    BY QueuesTyped
  <1>1. UNCHANGED <<mpc, cpc>>
    BY DEF AuthStep, QuoteStep, PortfolioStep, mVars, cVars
  <1>2. ~PFallsOff
    BY QueuesTyped DEF Undisturbed, PFallsOff, PReceives
  <1>3. toP' = toP \/ (toP # <<>> /\ toP' = Tail(toP))
    BY DEF AuthStep, AReply, QuoteStep, QQuote, QQuoteAll, QUpdate, PortfolioStep,
       PPosition, PCheck, PRetrieve, PUpdateNew, PUpdateReplace, PUpdateRemove,
       PAnswer, PFallsOff, PReceives
  <1>4. toM' = toM \/ \E m : toM' = Append(toM, m) /\ m.t # "junk"
    <2>1. CASE AuthStep \/ QuoteStep
      BY <2>1 DEF AuthStep, AReply, QuoteStep, QQuote, QQuoteAll, QUpdate
    <2>2. CASE PRetrieve
      BY <2>2, getStockTag DEF PRetrieve, PReplies
    <2>3. CASE PPosition \/ PCheck \/ PAnswer
      BY <2>3 DEF PPosition, PCheck, PAnswer, PReplies
    <2>4. CASE PUpdateNew \/ PUpdateReplace \/ PUpdateRemove
      <3>1. \A op, o, n : Result(op, o, n).t = "result"
        BY DEF Result
      <3>2. [t |-> "nothing"].t = "nothing"
        OBVIOUS
      <3>3. CASE PUpdateNew
        BY <3>1, <3>3 DEF PUpdateNew, PReplies
      <3>4. CASE PUpdateReplace
        BY <3>1, <3>4 DEF PUpdateReplace, PReplies
      <3>5. CASE PUpdateRemove
        BY <3>1, <3>2, <3>5 DEF PUpdateRemove, PReplies
      <3>6. QED
        BY <2>4, <3>3, <3>4, <3>5
    <2>5. QED
      BY <1>2, <2>1, <2>2, <2>3, <2>4 DEF PortfolioStep
  <1>5. \A i \in DOMAIN toP' : toP'[i].t = "answer" => Silent(toP'[i])
    BY <1>0, <1>3, TailFacts DEF Undisturbed
  <1>6. \A i \in DOMAIN toM' : toM'[i].t # "junk"
    BY <1>0, <1>4, AppendFacts DEF Undisturbed
  <1>7. QED
    BY <1>1, <1>5, <1>6 DEF Undisturbed

LEMMA NextKeepsUndisturbed ==
  ASSUME Typed \subseteq {"Y", "N"}, Quitters = {}, Agreed, Undisturbed,
         [Next]_vars
  PROVE  Undisturbed'
  <1>1. CASE AuthStep \/ QuoteStep \/ PortfolioStep
    BY <1>1, ServersKeepUndisturbed
  <1>2. CASE MainStep \/ \E c \in Clients : ServeStep(c)
    BY <1>2, MainKeepsUndisturbed
  <1>3. ASSUME NEW c \in Clients, ClientStep(c)
        PROVE  Undisturbed'
    <2>1. UNCHANGED <<udpVars, mVars>>
      BY <1>3 DEF ClientStep, ReceiveStep, AnswerStep, CommandStep, CLogin, CAuth, CAsk,
         CShow, CTrade, CValid, COffer, CNoSuchStock, CAnswer, CResult, CLeave, Sends,
         Receives
    <2>2. ~CLeave(c) /\ cpc \in [Clients -> AtKeyboard \cup AtSocket \cup {"gone"}]
      BY DEF CLeave, Agreed, IndexInv, ServerTypeOK
    <2>3. \A d \in Clients : cpc'[d] # "gone"
      BY <1>3, <2>2 DEF Undisturbed, ClientStep, ReceiveStep, AnswerStep, CommandStep,
         CLogin, CAuth, CAsk, CShow, CTrade, CValid, COffer, CNoSuchStock, CAnswer,
         CResult, Prompt, Goto
    <2>4. QED
      BY <2>1, <2>3 DEF Undisturbed, udpVars, mVars
  <1>4. CASE UNCHANGED vars
    BY <1>4 DEF Undisturbed, vars, wireVars, mVars, cVars
  <1>5. QED
    BY <1>1, <1>2, <1>3, <1>4 DEF Next

LEMMA NothingDisturbs ==
  ASSUME Typed \subseteq {"Y", "N"}, Quitters = {}
  PROVE  Spec => []Undisturbed
  <1>1. Init => Undisturbed
    BY DEF Init, WireInit, MInit, CInit, Undisturbed, Lost
  <1>2. Agreed /\ Undisturbed /\ [Next]_vars => Undisturbed'
    BY NextKeepsUndisturbed
  <1>3. QED
    BY <1>1, <1>2, AgreedInvariant, PTL DEF Spec

----------------------------------------------------------------------------
(* Nobody's portfolio changes without a Y. *)

LEMMA UpdateMeansUpdate ==
  ASSUME Agreed, mpc \notin Lost, NEW i \in DOMAIN toP, toP[i].t = "update"
  PROVE  mpc = "update"
  <1>1. mpc \in WaitsForP
    BY DEF Agreed, IndexInv, OneQuestion
  <1>2. toP[i].t = AskedOfP
    BY DEF Agreed, PortInv, QuestionsToP, QuestionFits
  <1>3. QED
    BY <1>1, <1>2 DEF AskedOfP, WaitsForP

(* "The server only updates a user's portfolio with their permission"       *)
(* (README.md:13), where people answer Y or N and no client ends: an update *)
(* on its way to Server P was approved with a Y by the client it is for.    *)
THEOREM UpdatesArePermitted ==
  ASSUME Typed \subseteq {"Y", "N"}, Quitters = {}
  PROVE  Spec => []OnlyWithPermission
  <1>1. ASSUME Agreed, Undisturbed
        PROVE  OnlyWithPermission
    <2>1. SUFFICES ASSUME UpdatesToP # {} PROVE confirmation = "Y"
      BY DEF OnlyWithPermission
    <2>2. PICK i \in DOMAIN toP : toP[i].t = "update"
      BY <2>1 DEF UpdatesToP, Range
    <2>3. mpc = "update" /\ mpc \in Programs
      BY <1>1, <2>2, UpdateMeansUpdate DEF Undisturbed, Programs
    <2>4. cur \in Clients /\ Serve(cur)
      BY <1>1, <2>3, ServedFacts DEF Agreed, DialogueInv, Undisturbed, IndexInv, Serving
    <2>5. confirmation \in Typed \ {"N"}
      BY <2>3, <2>4 DEF Serve
    <2>6. QED
      BY <2>5
  <1>2. QED
    BY <1>1, AgreedInvariant, NothingDisturbs, PTL

(* The gain a person is shown is computed from the portfolio and the prices *)
(* of one moment, though they come from two servers one after the other     *)
(* (operationType, position; constructNewMsg).                              *)
THEOREM GainsAreCurrent ==
  ASSUME Typed \subseteq {"Y", "N"}, Quitters = {}
  PROVE  Spec => []GainIsCurrent
  <1>1. ASSUME Agreed, Undisturbed
        PROVE  GainIsCurrent
    <2>1. SUFFICES ASSUME mpc = "prices", toM # <<>>
                   PROVE  /\ pos.held = getPortfolio(Lower[req.user])
                          /\ Head(toM).prices = [s \in Listed |-> CurrentPrice(s)]
      BY DEF GainIsCurrent
    <2>2. mpc \notin Lost
      BY <1>1 DEF Undisturbed
    <2>3. pos.held = HeldNow
      BY <1>1, <2>1, <2>2 DEF Agreed, PortInv, KeptFits
    <2>4. Head(toM) = toM[1] /\ 1 \in DOMAIN toM
      BY <1>1, <2>1, QueuesTyped
    <2>5. toM[1].t = "quoteall"
      <3>1. toM[1].t \in Awaited
        BY <1>1, <2>2, <2>4, RepliesAwaited DEF Undisturbed
      <3>2. QED
        BY <2>1, <3>1 DEF Awaited
    <2>6. toM[1].prices = PricesNow
      BY <1>1, <2>1, <2>2, <2>4, <2>5 DEF Agreed, QuoteInv, RepliesOfQ, OfQ
    <2>7. QED
      BY <2>3, <2>4, <2>6 DEF HeldNow, PricesNow
  <1>2. QED
    BY <1>1, AgreedInvariant, NothingDisturbs, PTL

----------------------------------------------------------------------------
(* One question or one answer. *)

LEMMA ReplyHere ==
  ASSUME Agreed, Undisturbed, NEW i \in DOMAIN toM
  PROVE  toM[i].t \in Awaited
  BY RepliesAwaited DEF Undisturbed

(* What M waits for tells whose reply it is. *)
LEMMA WhoReplies ==
  ASSUME Agreed, Undisturbed, NEW i \in DOMAIN toM
  PROVE  /\ mpc = "auth" => toM[i].t = "credentials"
         /\ mpc \in WaitsForQ => toM[i].t \in OfQ
         /\ mpc \in WaitsForP => FromP(toM[i])
         /\ mpc \in {"auth"} \cup WaitsForQ \cup WaitsForP
  <1>1. toM[i].t \in Awaited
    BY ReplyHere
  <1>2. mpc = "quote" => req.t \in OfQ
    BY DEF Agreed, Undisturbed, QuoteInv, QuoteAsked
  <1>3. QED
    BY <1>1, <1>2 DEF Awaited, OfQ, FromP, WaitsForQ, WaitsForP

LEMMA OneReplyOnly ==
  ASSUME Agreed, Undisturbed, NEW i \in DOMAIN toM, NEW j \in DOMAIN toM
  PROVE  i = j
  <1>1. CASE mpc = "auth"
    <2>1. toM[i].t = "credentials" /\ toM[j].t = "credentials"
      BY <1>1, WhoReplies
    <2>2. QED
      BY <2>1 DEF Agreed, Undisturbed, AuthInv, RepliesOfA
  <1>2. CASE mpc \in WaitsForQ
    <2>1. toM[i].t \in OfQ /\ toM[j].t \in OfQ
      BY <1>2, WhoReplies
    <2>2. QED
      BY <2>1 DEF Agreed, Undisturbed, QuoteInv, RepliesOfQ
  <1>3. CASE mpc \in WaitsForP
    <2>1. FromP(toM[i]) /\ FromP(toM[j])
      BY <1>3, WhoReplies
    <2>2. QED
      BY <2>1 DEF Agreed, IndexInv, OneReply
  <1>4. QED
    BY <1>1, <1>2, <1>3, WhoReplies

LEMMA QuestionAtA ==
  ASSUME Agreed, Undisturbed, NEW i \in DOMAIN toA
  PROVE  mpc = "auth" /\ i = 1 /\ DOMAIN toM = {}
  <1>1. /\ i = 1 /\ mpc = "auth"
        /\ \A j \in DOMAIN toM : toM[j].t # "credentials"
    BY DEF Agreed, Undisturbed, AuthInv, QuestionsToA
  <1>2. QED
    BY <1>1, WhoReplies

LEMMA QuestionAtQ ==
  ASSUME Agreed, Undisturbed, NEW i \in DOMAIN toQ, toQ[i].t # "update"
  PROVE  mpc \in WaitsForQ /\ i = Len(toQ) /\ DOMAIN toM = {}
  <1>1. /\ i = Len(toQ) /\ mpc \in WaitsForQ
        /\ \A j \in DOMAIN toM : toM[j].t \notin OfQ
    BY DEF Agreed, Undisturbed, QuoteInv, QuestionsToQ
  <1>2. QED
    BY <1>1, WhoReplies

LEMMA QuestionAtP ==
  ASSUME Agreed, Undisturbed, NEW i \in DOMAIN toP, toP[i].t # "answer"
  PROVE  mpc \in WaitsForP /\ i = Len(toP) /\ DOMAIN toM = {}
  <1>1. i = Len(toP) /\ mpc \in WaitsForP
    BY DEF Agreed, Undisturbed, IndexInv, OneQuestion
  <1>2. \A j \in DOMAIN toM : ~FromP(toM[j])
    BY DEF Agreed, IndexInv, OneReply
  <1>3. QED
    BY <1>1, <1>2, WhoReplies

(* One of the queues, and only one, holds one thing to wait for. *)
LEMMA PendingIsOne ==
  ASSUME Agreed, Undisturbed, NEW d \in Pending
  PROVE  Pending = {d} /\ AwaitsDatagram
  <1>1. CASE DOMAIN toM # {}
    <2>1. PICK i \in DOMAIN toM : TRUE
      BY <1>1
    <2>2. DOMAIN toM = {i}
      BY OneReplyOnly
    <2>3. /\ DOMAIN toA = {} /\ {j \in DOMAIN toQ : toQ[j].t # "update"} = {}
          /\ {j \in DOMAIN toP : toP[j].t # "answer"} = {}
      BY <1>1, QuestionAtA, QuestionAtQ, QuestionAtP
    <2>4. Pending = {<<"M", i>>}
      BY <2>2, <2>3 DEF Pending
    <2>5. QED
      BY <2>1, <2>4, ReplyHere DEF AwaitsDatagram
  <1>2. CASE DOMAIN toM = {} /\ DOMAIN toA # {}
    <2>1. mpc = "auth" /\ DOMAIN toA = {1}
      BY <1>2, QuestionAtA
    <2>2. {j \in DOMAIN toQ : toQ[j].t # "update"} = {}
      BY <2>1, QuestionAtQ DEF WaitsForQ
    <2>3. {j \in DOMAIN toP : toP[j].t # "answer"} = {}
      BY <2>1, QuestionAtP DEF WaitsForP
    <2>4. Pending = {<<"A", 1>>}
      BY <1>2, <2>1, <2>2, <2>3 DEF Pending
    <2>5. QED
      BY <2>1, <2>4 DEF AwaitsDatagram, Awaited
  <1>3. CASE /\ DOMAIN toM = {} /\ DOMAIN toA = {}
             /\ {j \in DOMAIN toQ : toQ[j].t # "update"} # {}
    <2>1. mpc \in WaitsForQ /\ {j \in DOMAIN toQ : toQ[j].t # "update"} = {Len(toQ)}
      BY <1>3, QuestionAtQ
    <2>2. {j \in DOMAIN toP : toP[j].t # "answer"} = {}
      BY <2>1, QuestionAtP DEF WaitsForP, WaitsForQ
    <2>3. Pending = {<<"Q", Len(toQ)>>}
      BY <1>3, <2>1, <2>2 DEF Pending
    <2>4. QED
      BY <2>1, <2>3 DEF AwaitsDatagram, Awaited, WaitsForQ
  <1>4. CASE /\ DOMAIN toM = {} /\ DOMAIN toA = {}
             /\ {j \in DOMAIN toQ : toQ[j].t # "update"} = {}
    <2>1. {j \in DOMAIN toP : toP[j].t # "answer"} # {}
      BY <1>4 DEF Pending
    <2>2. /\ mpc \in WaitsForP
          /\ {j \in DOMAIN toP : toP[j].t # "answer"} = {Len(toP)}
      BY <2>1, QuestionAtP
    <2>3. Pending = {<<"P", Len(toP)>>}
      BY <1>4, <2>2 DEF Pending
    <2>4. QED
      BY <2>2, <2>3 DEF AwaitsDatagram, Awaited, WaitsForP
  <1>5. QED
    BY <1>1, <1>2, <1>3, <1>4

(* Server M, which cannot tell whose reply a datagram is, has exactly one   *)
(* question or answer under way while it waits, none while it does not, and *)
(* nothing else ever reaches its socket (UDPsend, UDPrecv).                 *)
THEOREM ConversationsAreSingle ==
  ASSUME Typed \subseteq {"Y", "N"}, Quitters = {}
  PROVE  Spec => []OneConversation
  <1>1. ASSUME Agreed, Undisturbed, NeverWaitsInVain
        PROVE  OneConversation
    <2>1. AwaitsDatagram => \E d \in Pending : Pending = {d}
      BY <1>1, PendingIsOne DEF NeverWaitsInVain
    <2>2. ~AwaitsDatagram => Pending = {}
      BY <1>1, PendingIsOne
    <2>3. \A m \in Range(toM) : m.t \in Awaited
      BY <1>1, ReplyHere DEF Range
    <2>4. QED
      BY <2>1, <2>2, <2>3 DEF OneConversation
  <1>2. QED
    BY <1>1, AgreedInvariant, NothingDisturbs, NobodyWaitsInVain, PTL
=============================================================================
