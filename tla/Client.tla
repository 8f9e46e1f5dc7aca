------------------------------ MODULE Client ------------------------------
(***************************************************************************)
(* client.cpp and the person at its keyboard.  cpc names the call the      *)
(* client is blocked in: waiting for the person (login, prompt, confirm)   *)
(* or for Server M (the others).                                           *)
(***************************************************************************)
EXTENDS Wire

CONSTANTS LoginAs,      \* client -> the <<name, password>> pairs typed there
          Typed,        \* answers people give to "Proceed? (Y/N)"
          Shares,       \* numbers of shares people type
          Commands,     \* commands people use
          PacedTyping,  \* TRUE: nobody types before M has read the last line
          Quitters      \* clients that may exit or be killed

ASSUME ClientAssumption ==
  /\ LoginAs \in [Clients -> SUBSET (Names \X Passwords)]
  /\ Typed \subseteq Answers
  /\ Shares \subseteq CInt
  /\ PacedTyping \in BOOLEAN
  /\ Quitters \subseteq Clients

VARIABLES cpc,    \* where each client is
          member, \* the name it logged in with, as typed
          order,  \* the buy or sell command it is carrying out
          seen    \* the price on its screen while it asks for confirmation

cVars == <<cpc, member, order, seen>>

AtKeyboard == {"login", "prompt", "confirm"}
AtSocket == {"auth", "show", "valid", "offer", "result"}

CInit ==
  /\ cpc = [c \in Clients |-> "login"]
  /\ member = [c \in Clients |-> NA]
  /\ order = [c \in Clients |-> NA]
  /\ seen = [c \in Clients |-> NA]

Goto(c, pc) == cpc' = [cpc EXCEPT ![c] = pc]

Sends(c, m) ==
  /\ c2m' = [c2m EXCEPT ![c] = Append(@, m)]
  /\ UNCHANGED <<udpVars, m2c, conn>>

(* recvString: everything that has arrived. *)
Receives(c, pc) ==
  /\ cpc[c] = pc
  /\ m2c[c] # <<>>
  /\ m2c' = [m2c EXCEPT ![c] = <<>>]
  /\ UNCHANGED <<udpVars, c2m, conn>>

(* Back to the command prompt, the command's locals gone. *)
Prompt(c) ==
  /\ Goto(c, "prompt")
  /\ order' = [order EXCEPT ![c] = NA]
  /\ seen' = [seen EXCEPT ![c] = NA]

CLogin(c) ==
  /\ cpc[c] = "login"
  /\ \E pair \in LoginAs[c] :
       /\ Sends(c, [t |-> "credentials", user |-> pair[1],
                    password |-> pair[2]])
       /\ member' = [member EXCEPT ![c] = pair[1]]
  /\ Goto(c, "auth")
  /\ UNCHANGED <<order, seen>>

CAuth(c) ==
  /\ Receives(c, "auth")
  /\ Goto(c, IF Head(m2c[c]).status = "SUCCESS" THEN "prompt" ELSE "login")
  /\ UNCHANGED <<member, order, seen>>

AtPrompt(c, command) ==
  /\ cpc[c] = "prompt"
  /\ command \in Commands
  /\ PacedTyping => c2m[c] = <<>>

CAsk(c, m) ==
  /\ m \in    [t : {"quoteall"}] \cup [t : {"quote"}, stock : Stocks]
         \cup [t : {"position"}, user : {member[c]}]
  /\ AtPrompt(c, m.t)
  /\ Sends(c, m)
  /\ Goto(c, "show")
  /\ UNCHANGED <<member, order, seen>>

CShow(c) ==
  /\ Receives(c, "show")
  /\ Goto(c, "prompt")
  /\ UNCHANGED <<member, order, seen>>

CTrade(c, op, stock, shares) ==
  /\ AtPrompt(c, op)
  /\ Sends(c, [t |-> "transact", op |-> op, user |-> member[c],
               stock |-> stock, shares |-> shares])
  /\ order' = [order EXCEPT ![c] = [op |-> op, stock |-> stock,
                                    shares |-> shares]]
  /\ Goto(c, IF op = "sell" THEN "valid" ELSE "offer")
  /\ UNCHANGED <<member, seen>>

(* The verdict on a sell.  Anything but exactly FAIL or stock_FAIL passes,  *)
(* a PASS that arrived glued to the quote included.                         *)
CValid(c) ==
  /\ Receives(c, "valid")
  /\ UNCHANGED member
  /\ IF Len(m2c[c]) = 1 /\ Head(m2c[c]).text \in {"FAIL", "stock_FAIL"}
       THEN Prompt(c)
       ELSE Goto(c, "offer") /\ UNCHANGED <<order, seen>>

Answer(text) == [t |-> "answer", text |-> text]

(* parseTransact with a price: show it and ask. *)
COffer(c) ==
  /\ Receives(c, "offer")
  /\ Head(m2c[c]).price # NA
  /\ seen' = [seen EXCEPT ![c] = Head(m2c[c]).price]
  /\ Goto(c, "confirm")
  /\ UNCHANGED <<member, order>>

(* parseTransact without one: the client itself answers N. *)
CNoSuchStock(c) ==
  /\ cpc[c] = "offer"
  /\ m2c[c] # <<>>
  /\ Head(m2c[c]).price = NA
  /\ m2c' = [m2c EXCEPT ![c] = <<>>]
  /\ c2m' = [c2m EXCEPT ![c] = Append(@, Answer("N"))]
  /\ Prompt(c)
  /\ UNCHANGED <<member, udpVars, conn>>

(* The person's answer.  A first line other than Y and N is asked again     *)
(* once; the second line is sent whatever it is.                            *)
CAnswer(c, text) ==
  /\ cpc[c] = "confirm"
  /\ Sends(c, Answer(text))
  /\ UNCHANGED member
  /\ IF text = "N" THEN Prompt(c)
                   ELSE Goto(c, "result") /\ UNCHANGED <<order, seen>>

CResult(c) ==
  /\ Receives(c, "result")
  /\ Prompt(c)
  /\ UNCHANGED member

(* exit at the prompt, or the death of the process anywhere. *)
CLeave(c) ==
  /\ c \in Quitters
  /\ cpc[c] # "gone"
  /\ HangUp(c)
  /\ cpc' = [cpc EXCEPT ![c] = "gone"]
  /\ member' = [member EXCEPT ![c] = NA]
  /\ order' = [order EXCEPT ![c] = NA]
  /\ seen' = [seen EXCEPT ![c] = NA]
  /\ UNCHANGED <<udpVars, c2m>>
=============================================================================
