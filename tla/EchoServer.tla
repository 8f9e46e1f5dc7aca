----------------------------- MODULE EchoServer -----------------------------
(***************************************************************************)
(* MainServerExp.cpp, the first form of Server M: the poll loop, and for   *)
(* each message an echo to its sender.  One buffer serves all clients.  It *)
(* is neither cleared before recv nor terminated after it, as Server M's   *)
(* is, so the text made of it runs on into older and longer messages.      *)
(***************************************************************************)
EXTENDS PollLoop, SequencesExt

CONSTANTS Nul,     \* the byte that ends a C string
          Size,    \* bytes in buf, 512 in the code
          MaxHeard \* bound: messages received

ASSUME BufferAssumption == Nul \notin Data /\ Size \in Nat \ {0} /\ MaxHeard \in Nat

VARIABLES up,    \* the process runs
          buf,   \* the buffer, whatever the stack held at the start
          reset, \* left clients whose kernel has answered a send with RST
          echo,  \* the last message: its sender, what it was, what was sent
                 \* back and to whom
          heard  \* history: all that recv has returned

echoVars == <<up, buf, reset, echo, heard>>
vars     == <<loopVars, echoVars>>

NoEcho == [from |-> Listener, sent |-> <<>>, back |-> <<>>, to |-> Listener]

EchoInit ==
  /\ Init
  /\ up = TRUE /\ reset = {}
  /\ buf \in [1 .. Size -> Data \cup {Nul}]
  /\ echo = NoEcho
  /\ heard = <<>>

EchoLoop ==
  /\ up
  /\ PollReturns \/ Pass \/ AcceptFails \/ \E c \in Clients : Drop(c)
  /\ UNCHANGED echoVars

EchoAccept ==
  /\ up /\ Accept
  /\ reset' = reset \ {Head(backlog)}
  /\ UNCHANGED <<up, buf, echo, heard>>

(* recv puts at most the size of the buffer at its start. *)
Taken(c) == SubSeq(inbox[c], 1, Min({Size, Len(inbox[c])}))

(* Mutant of Received: what is received goes to the end of the buffer. *)
ReceivedBehind(c) ==
  [k \in 1 .. Size |->
     IF k > Size - Len(Taken(c)) THEN Taken(c)[k - Size + Len(Taken(c))] ELSE buf[k]]
Received(c) ==
  [k \in 1 .. Size |-> IF k \in DOMAIN Taken(c) THEN Taken(c)[k] ELSE buf[k]]

(* string newMessage(buf): up to the first Nul; without one it goes on     *)
(* behind the buffer, where some bytes are before a Nul.                   *)
Text(b) ==
  IF \E k \in DOMAIN b : b[k] = Nul
    THEN {SubSeq(b, 1, (CHOOSE k \in DOMAIN b :
            b[k] = Nul /\ \A l \in 1 .. k - 1 : b[l] # Nul) - 1)}
    ELSE {b} \cup {Append(b, d) : d \in Data}

EchoServe(c) ==
  /\ up /\ Len(heard) < MaxHeard
  /\ Served(c)
  /\ buf' = Received(c)
  /\ inbox' = [inbox EXCEPT ![c] = SubSeq(@, Len(Taken(c)) + 1, Len(@))]
  /\ heard' = Append(heard, Taken(c))
  /\ \E text \in Text(buf') :
       echo' = [from |-> c, sent |-> Taken(c), back |-> text, to |-> c]
  /\ IF c \in hung \cap reset THEN up' = FALSE ELSE UNCHANGED up
  /\ reset' = IF c \in hung THEN reset \cup {c} ELSE reset
  /\ UNCHANGED <<pfds, fd_size, backlog, hung>>

EchoClient(c) ==
  /\ up /\ Len(heard) < MaxHeard
  /\ ClientStep(c)
  /\ UNCHANGED echoVars

EchoNext ==
  \/ EchoLoop \/ EchoAccept
  \/ \E c \in Clients : EchoServe(c) \/ EchoClient(c)

EchoSpec == EchoInit /\ [][EchoNext]_vars

----------------------------------------------------------------------------
(* What a client wrote is sent back to it whole and first, though the      *)
(* buffer is never cleared; what follows is the end of the last message    *)
(* that was longer, whoever sent it, or what the stack held if there was   *)
(* none (recv and newMessage in main).                                     *)
Longer(k) == {n \in DOMAIN heard : Len(heard[n]) >= k}
EchoIsHeard ==
  /\ IsPrefix(echo.sent, echo.back)
  /\ \A k \in Len(echo.sent) + 1 .. Size :
       Longer(k) # {} =>
         Len(echo.back) >= k /\ echo.back[k] = heard[Max(Longer(k))][k]
=============================================================================
