----------------------------- MODULE ChatServer -----------------------------
(***************************************************************************)
(* testPollServer.cpp, the practice server whose poll loop Server M has    *)
(* taken over: what one client says is sent to every other one.  The send  *)
(* loop walks the descriptor table inside the scan, waits for a client     *)
(* that does not read, and is ended by SIGPIPE on a client that has left.  *)
(***************************************************************************)
EXTENDS PollLoop, SequencesExt

CONSTANTS Capacity, \* messages a client may leave unread before send waits
          MaxSaid   \* bound: people come, go and write until so much is said

ASSUME ChatAssumption == Capacity \in Nat \ {0} /\ MaxSaid \in Nat

VARIABLES up,     \* the process runs
          sender, \* sender_fd while the send loop runs, else Listener
          j,      \* index of the send loop, from 0
          unread, \* messages sent to a client that it has not read
          reset,  \* left clients whose kernel has answered a send with RST
          said,   \* history: what recv has returned, and from whom
          joined, \* history: Len(said) when a client was accepted
          got     \* history: what was sent to a client since

sendVars == <<up, sender, j, unread, reset>>
pastVars == <<said, joined, got>>
chatVars == <<sendVars, pastVars>>
vars     == <<loopVars, chatVars>>

ChatInit ==
  /\ Init
  /\ up = TRUE /\ sender = Listener /\ j = 0
  /\ unread = [c \in Clients |-> 0] /\ reset = {}
  /\ said = <<>>
  /\ joined = [c \in Clients |-> 0] /\ got = [c \in Clients |-> <<>>]

(* The scan goes on: no send loop is under way. *)
Scanning == up /\ sender = Listener

ChatPoll == Scanning /\ (PollReturns \/ Pass \/ AcceptFails) /\ UNCHANGED chatVars

ChatAccept ==
  /\ Scanning /\ Accept
  /\ joined' = [joined EXCEPT ![Head(backlog)] = Len(said)]
  /\ UNCHANGED <<sendVars, said, got>>

(* With the connection goes what its client has not read. *)
ChatDrop(c) ==
  /\ Scanning /\ Drop(c)
  /\ unread' = [unread EXCEPT ![c] = 0]
  /\ reset' = reset \ {c}
  /\ got' = [got EXCEPT ![c] = <<>>]
  /\ joined' = [joined EXCEPT ![c] = 0]
  /\ UNCHANGED <<up, sender, j, said>>

(* recv has returned what c wrote; the send loop starts. *)
ChatServe(c) ==
  /\ Scanning
  /\ Serve(c)
  /\ said' = Append(said, [from |-> c, data |-> inbox[c]])
  /\ sender' = c
  /\ j' = 0
  /\ UNCHANGED <<up, unread, reset, joined, got>>

(* The send loop stands at the entry of fd; it is the last one. *)
SendsTo(fd) == up /\ sender # Listener /\ j < Len(pfds) /\ pfds[j + 1].fd = fd

Advance == j' = j + 1 /\ UNCHANGED <<loopVars, sender, said, joined>>

(* Mutant of Excepted: the loop does not move on. *)
ExceptedStands ==
  /\ SendsTo(Listener) \/ SendsTo(sender)
  /\ UNCHANGED vars

(* Except the listener and ourselves. *)
Excepted ==
  /\ SendsTo(Listener) \/ SendsTo(sender)
  /\ Advance /\ UNCHANGED <<up, unread, reset, got>>

(* send puts the message into the client's socket, or waits for room. *)
SendTo(c) ==
  /\ SendsTo(c) /\ c # sender /\ c \notin hung
  /\ unread[c] < Capacity
  /\ unread' = [unread EXCEPT ![c] = @ + 1]
  /\ got' = [got EXCEPT ![c] = Append(@, Last(said))]
  /\ Advance /\ UNCHANGED <<up, reset>>

(* The client has left: its kernel answers the first send with a reset. *)
SendIsReset(c) ==
  /\ SendsTo(c) /\ c # sender /\ c \in hung \ reset
  /\ reset' = reset \cup {c}
  /\ Advance /\ UNCHANGED <<up, unread, got>>

(* The next one raises SIGPIPE, which the program does not handle. *)
SigPipe(c) ==
  /\ SendsTo(c) /\ c # sender /\ c \in hung \cap reset
  /\ up' = FALSE
  /\ UNCHANGED <<loopVars, sender, j, unread, reset, pastVars>>

(* Mutant of SendDone: the loop ends one entry early. *)
SendDoneEarly ==
  /\ up /\ sender # Listener /\ j >= Len(pfds) - 1
  /\ sender' = Listener
  /\ UNCHANGED <<loopVars, up, j, unread, reset, pastVars>>

SendDone ==
  /\ up /\ sender # Listener /\ j = Len(pfds)
  /\ sender' = Listener
  /\ UNCHANGED <<loopVars, up, j, unread, reset, pastVars>>

ChatRead(c) ==
  /\ unread[c] > 0 /\ c \notin hung
  /\ unread' = [unread EXCEPT ![c] = 0]
  /\ UNCHANGED <<loopVars, up, sender, j, reset, pastVars>>

ChatClient(c) ==
  /\ up /\ Len(said) < MaxSaid
  /\ ClientStep(c)
  /\ UNCHANGED chatVars

SendLoop ==
  Excepted \/ SendDone \/ \E c \in Clients : SendTo(c) \/ SendIsReset(c) \/ SigPipe(c)

ServerStep ==
  \/ ChatPoll \/ ChatAccept \/ SendLoop
  \/ \E c \in Clients : ChatServe(c) \/ ChatDrop(c)

ChatNext == ServerStep \/ \E c \in Clients : ChatRead(c) \/ ChatClient(c)

ChatSpec == ChatInit /\ [][ChatNext]_vars

----------------------------------------------------------------------------
(* What c should have heard: all that others have said since it came.  The *)
(* message of a send loop that has not come to c yet is not among it.      *)
Told(c) ==
  IF sender = Listener \/ \E k \in 1 .. j : k <= Len(pfds) /\ pfds[k].fd = c
    THEN Len(said) ELSE Len(said) - 1

(* A conversation without what c itself has said.                          *)
ByOthers(c, messages) ==
  LET upTo[k \in 0 .. Len(messages)] ==
        IF k = 0 THEN <<>>
        ELSE IF messages[k].from = c THEN upTo[k - 1]
        ELSE Append(upTo[k - 1], messages[k])
  IN  upTo[Len(messages)]

Expected(c) == ByOthers(c, SubSeq(said, joined[c] + 1, Told(c)))

(* Everyone who is connected has been sent all that the others have said   *)
(* since, once, in the one order in which the server has read it, and      *)
(* nothing of their own, while people come, leave and write (the send loop *)
(* over a table that del_from_pfds reorders).                              *)
EveryoneHearsTheOthers ==
  \A c \in Open \ hung : got[c] = Expected(c)

(* A send loop ends, even when it has to wait for a reader, or the server  *)
(* has been ended by SIGPIPE.                                              *)
SendLoopEnds == sender # Listener ~> sender = Listener \/ ~up
=============================================================================
