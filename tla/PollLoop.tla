------------------------------ MODULE PollLoop ------------------------------
(***************************************************************************)
(* The loop of main in serverM.cpp (and, word for word, of the practice    *)
(* servers testPollServer.cpp and MainServerExp.cpp): a table of           *)
(* descriptors with the events poll reported for each, and a scan that     *)
(* accepts, serves and closes while it walks the table, so that the table  *)
(* grows and shrinks under the scan's index.                               *)
(*                                                                         *)
(* A descriptor is named by the client at its other end.  What a request   *)
(* makes Server M do is MainServer's; here it is one step.                 *)
(***************************************************************************)
EXTENDS Integers, Sequences, FiniteSets

CONSTANTS Clients,   \* processes that connect, close and connect again
          Listener,  \* the listening socket
          Data,      \* what clients send
          Room,      \* fd_size at the start, 5 in the code
          MaxOpen,   \* connections the process may have open (EMFILE beyond)
          Queue,     \* connections that wait to be accepted, 10 in the code
          MaxUnread  \* bound: messages a client leaves unread

ASSUME ListenerAssumption == Listener \notin Clients
ASSUME ClientsAssumption == IsFiniteSet(Clients)
ASSUME RoomAssumption == Room \in Nat \ {0}
ASSUME LimitAssumption == MaxOpen \in Nat /\ Queue \in Nat /\ MaxUnread \in Nat

VARIABLES pfds,     \* the table: its length is fd_count
          fd_size,  \* entries there is room for
          i,        \* index of the scan, from 0; >= fd_count when it is over
          backlog,  \* connections not yet accepted
          inbox,    \* data a client has sent and nobody has received
          hung,     \* clients that have closed their end
          skips     \* history: how often in a row a scan passed over a client
                    \* that poll had reported

tableVars  == <<pfds, fd_size, i>>
kernelVars == <<backlog, inbox, hung>>
loopVars   == <<pfds, fd_size, i, backlog, inbox, hung, skips>>

Entry == [fd : Clients \cup {Listener}, revents : BOOLEAN]

Init ==
  /\ pfds = <<[fd |-> Listener, revents |-> FALSE]>>
  /\ fd_size = Room
  /\ i = 1
  /\ backlog = <<>>
  /\ inbox = [c \in Clients |-> <<>>]
  /\ hung = {}
  /\ skips = [c \in Clients |-> 0]

Queued == {backlog[k] : k \in DOMAIN backlog}
Listed == {pfds[k].fd : k \in DOMAIN pfds}
Open   == Listed \ {Listener}

----------------------------------------------------------------------------
(* The clients. *)
Connect(c) ==
  /\ c \notin Queued \cup Listed
  /\ Len(backlog) < Queue
  /\ backlog' = Append(backlog, c)
  /\ UNCHANGED <<tableVars, inbox, hung, skips>>

Write(c, d) ==
  /\ c \in (Queued \cup Listed) \ hung
  /\ Len(inbox[c]) < MaxUnread
  /\ inbox' = [inbox EXCEPT ![c] = Append(@, d)]
  /\ UNCHANGED <<tableVars, backlog, hung, skips>>

Close(c) ==
  /\ c \in (Queued \cup Listed) \ hung
  /\ hung' = hung \cup {c}
  /\ UNCHANGED <<tableVars, backlog, inbox, skips>>

----------------------------------------------------------------------------
(* What poll reports: POLLIN on the listener for a connection to accept, on *)
(* a connection for data, and POLLIN or POLLHUP for a closed one.           *)
Ready(fd) ==
  \/ fd = Listener /\ backlog # <<>>
  \/ fd \in Clients /\ (inbox[fd] # <<>> \/ fd \in hung)

PollReturns ==
  /\ i >= Len(pfds)
  /\ \E fd \in Listed : Ready(fd)
  /\ pfds' = [k \in DOMAIN pfds |->
                [fd |-> pfds[k].fd, revents |-> Ready(pfds[k].fd)]]
  /\ i' = 0
  /\ UNCHANGED <<fd_size, kernelVars, skips>>

(* Mutants of add_to_pfds: the events of the slot are not cleared; the new  *)
(* entry goes to the front, behind the listener.                            *)
add_to_pfdsUncleared(fd) ==
  /\ fd_size' = IF Len(pfds) = fd_size THEN 2 * fd_size ELSE fd_size
  /\ pfds' = Append(pfds, [fd |-> fd, revents |-> TRUE])
add_to_pfdsFront(fd) ==
  /\ fd_size' = IF Len(pfds) = fd_size THEN 2 * fd_size ELSE fd_size
  /\ pfds' = <<pfds[1], [fd |-> fd, revents |-> FALSE]>>
               \o SubSeq(pfds, 2, Len(pfds))

add_to_pfds(fd) ==
  /\ fd_size' = IF Len(pfds) = fd_size THEN 2 * fd_size ELSE fd_size
  /\ pfds' = Append(pfds, [fd |-> fd, revents |-> FALSE])

(* Mutant of del_from_pfds: the count is taken down before the last entry   *)
(* is copied.                                                               *)
del_from_pfdsCountFirst(k) ==
  pfds' = [j \in 1 .. Len(pfds) - 1 |->
             IF j = k THEN pfds[Len(pfds) - 1] ELSE pfds[j]]

(* The last entry is copied over entry k. *)
del_from_pfds(k) ==
  pfds' = [j \in 1 .. Len(pfds) - 1 |->
             IF j = k THEN pfds[Len(pfds)] ELSE pfds[j]]

(* The scan stands at an entry whose descriptor is fd and for which poll    *)
(* has reported something.                                                  *)
At(fd) ==
  /\ i < Len(pfds)
  /\ pfds[i + 1].fd = fd
  /\ pfds[i + 1].revents

Pass ==
  /\ i < Len(pfds)
  /\ ~pfds[i + 1].revents
  /\ i' = i + 1
  /\ UNCHANGED <<pfds, fd_size, kernelVars, skips>>

Accept ==
  /\ At(Listener)
  /\ backlog # <<>>
  /\ Cardinality(Open) < MaxOpen
  /\ add_to_pfds(Head(backlog))
  /\ backlog' = Tail(backlog)
  /\ i' = i + 1
  /\ UNCHANGED <<inbox, hung, skips>>

(* accept returns -1: main says so and goes on; the connection stays in the *)
(* queue.                                                                   *)
AcceptFails ==
  /\ At(Listener)
  /\ backlog # <<>>
  /\ Cardinality(Open) >= MaxOpen
  /\ i' = i + 1
  /\ UNCHANGED <<pfds, fd_size, kernelVars, skips>>

(* recv returns data. *)
Served(c) ==
  /\ At(c)
  /\ inbox[c] # <<>>
  /\ i' = i + 1
  /\ skips' = [skips EXCEPT ![c] = 0]

(* ... and operationType carries the request out. *)
Serve(c) ==
  /\ Served(c)
  /\ inbox' = [inbox EXCEPT ![c] = <<>>]
  /\ UNCHANGED <<pfds, fd_size, backlog, hung>>

(* The client whose entry is copied over the one being deleted: the scan    *)
(* goes on behind it.                                                       *)
PassedOver(c) ==
  /\ i + 1 # Len(pfds)
  /\ pfds[Len(pfds)].fd = c
  /\ pfds[Len(pfds)].revents

(* recv returns 0 or an error: close the descriptor and drop its entry. *)
Drop(c) ==
  /\ At(c)
  /\ inbox[c] = <<>> /\ c \in hung
  /\ del_from_pfds(i + 1)
  /\ hung' = hung \ {c}
  /\ i' = i + 1
  /\ skips' = [d \in Clients |-> IF d = c THEN 0
                                 ELSE IF PassedOver(d) THEN skips[d] + 1
                                 ELSE skips[d]]
  /\ UNCHANGED <<fd_size, backlog, inbox>>

LoopStep ==
  \/ PollReturns \/ Pass \/ Accept \/ AcceptFails
  \/ \E c \in Clients : Drop(c)

ClientStep(c) == Connect(c) \/ Close(c) \/ \E d \in Data : Write(c, d)

Next ==
  \/ LoopStep
  \/ \E c \in Clients : Serve(c) \/ ClientStep(c)

Spec == Init /\ [][Next]_loopVars

----------------------------------------------------------------------------
TypeOK ==
  /\ pfds \in Seq(Entry)
  /\ fd_size \in Nat
  /\ i \in Nat
  /\ backlog \in Seq(Clients)
  /\ inbox \in [Clients -> Seq(Data)]
  /\ hung \subseteq Clients
  /\ skips \in [Clients -> Nat]

(* The listener comes first, every open connection once, and none of them  *)
(* waits to be accepted (add_to_pfds, del_from_pfds).                       *)
EntriesAreRight ==
  /\ Len(pfds) >= 1 /\ pfds[1].fd = Listener
  /\ \A k, l \in DOMAIN pfds : pfds[k].fd = pfds[l].fd => k = l
  /\ \A k, l \in DOMAIN backlog : backlog[k] = backlog[l] => k = l
  /\ Queued \cap Listed = {}
  /\ \A c \in Clients : c \in hung \/ inbox[c] # <<>> => c \in Queued \cup Listed

(* The table is never written behind its end, and the scan stays inside it  *)
(* though entries vanish under it: deleting the last entry leaves the index *)
(* one behind the end, where the loop stops (realloc in add_to_pfds).       *)
RoomInTable == Len(pfds) <= fd_size /\ i <= Len(pfds) + 1

(* However the table has grown and shrunk under the scan, it lists every    *)
(* open connection once, within its room: a lost entry would be a client    *)
(* that is never heard again, a second one a recv on a closed descriptor    *)
(* (add_to_pfds, del_from_pfds).                                            *)
TableIsSound == EntriesAreRight /\ RoomInTable

(* revents is a report of the past when the scan comes to it.  What it      *)
(* reported must still be there, for accept and recv block otherwise and    *)
(* with them every client.                                                  *)
ReportsHold ==
  \A k \in DOMAIN pfds : k > i /\ pfds[k].revents => Ready(pfds[k].fd)

(* del_from_pfds moves the last entry into the slot the scan leaves, and    *)
(* that client waits for another round, where the same may happen again.    *)
(* But it comes closer to the front each time, so it is passed over fewer   *)
(* times than there are connections.                                        *)
BoundedBypass ==
  \A k \in DOMAIN pfds :
    pfds[k].fd # Listener => k - 1 + skips[pfds[k].fd] <= Cardinality(Clients)
=============================================================================
