----------------------------- MODULE LoopProofs -----------------------------
(***************************************************************************)
(* Proofs about the loops that serve many clients: the poll loop of Server *)
(* M (PollLoop), the server that forks a child for each client (ForkServer)*)
(* and the chat server around the poll loop (ChatServer).                  *)
(***************************************************************************)
EXTENDS ChatServer, ForkServer, FiniteSetTheorems, SequenceTheorems,
        WellFoundedInduction, TLAPS

(***************************************************************************)
(* PollLoop, for any number of clients, any size of the table and any      *)
(* limits: the scan of main over a table that changes under it.            *)
(***************************************************************************)

(* What is needed of the table besides TypeOK and EntriesAreRight: the     *)
(* listener is not the table's to delete, and a client that is not in the  *)
(* table has not been passed over yet.                                     *)
SkipsInv == \A c \in Clients : c \notin Listed => skips[c] = 0

LoopInv ==
  /\ TypeOK
  /\ EntriesAreRight
  /\ fd_size >= 1 /\ RoomInTable
  /\ ReportsHold
  /\ SkipsInv

LEMMA LoopStarts == Init => LoopInv
<1> SUFFICES ASSUME Init PROVE LoopInv  OBVIOUS
<1>1. /\ pfds \in Seq(Entry) /\ Len(pfds) = 1
      /\ pfds[1] = [fd |-> Listener, revents |-> FALSE]
  BY DEF Init, Entry
<1>2. /\ backlog \in Seq(Clients) /\ Len(backlog) = 0
      /\ inbox \in [Clients -> Seq(Data)] /\ \A c \in Clients : inbox[c] = <<>>
      /\ skips \in [Clients -> Nat] /\ \A c \in Clients : skips[c] = 0
  BY DEF Init
<1>3. TypeOK        BY <1>1, <1>2, RoomAssumption DEF Init, TypeOK
<1>4. EntriesAreRight
  BY <1>1, <1>2, ListenerAssumption DEF Init, EntriesAreRight, Queued, Listed
<1>5. RoomInTable /\ fd_size >= 1
  BY <1>1, RoomAssumption DEF Init, RoomInTable
<1>6. ReportsHold   BY <1>1 DEF Init, ReportsHold
<1>7. SkipsInv      BY <1>2 DEF SkipsInv
<1> QED BY <1>3, <1>4, <1>5, <1>6, <1>7 DEF LoopInv

----------------------------------------------------------------------------
(* The table after one more entry. *)
LEMMA Appending ==
  ASSUME TypeOK, NEW c \in Clients, add_to_pfds(c)
  PROVE  /\ pfds' \in Seq(Entry)
         /\ Len(pfds') = Len(pfds) + 1
         /\ \A k \in 1 .. Len(pfds) : pfds'[k] = pfds[k]
         /\ pfds'[Len(pfds) + 1] = [fd |-> c, revents |-> FALSE]
         /\ Listed' = Listed \cup {c}
<1>1. /\ pfds' \in Seq(Entry)
      /\ Len(pfds') = Len(pfds) + 1
      /\ \A k \in 1 .. Len(pfds) : pfds'[k] = pfds[k]
      /\ pfds'[Len(pfds) + 1] = [fd |-> c, revents |-> FALSE]
  BY DEF TypeOK, add_to_pfds, Entry
<1>2. DOMAIN pfds = 1 .. Len(pfds) /\ DOMAIN pfds' = 1 .. Len(pfds) + 1
  BY <1>1 DEF TypeOK
<1>3. Listed' = Listed \cup {c}
  <2>1. Listed' = {pfds'[k].fd : k \in 1 .. Len(pfds) + 1}
    BY <1>2 DEF Listed
  <2>2. Listed = {pfds[k].fd : k \in 1 .. Len(pfds)}
    BY <1>2 DEF Listed
  <2>3. Len(pfds) \in Nat  BY DEF TypeOK
  <2> QED BY <1>1, <2>1, <2>2, <2>3
<1> QED BY <1>1, <1>3

(* The table after the last entry has been copied over entry n.            *)
LEMMA Deleting ==
  ASSUME TypeOK, NEW n \in 1 .. Len(pfds), del_from_pfds(n)
  PROVE  /\ pfds' \in Seq(Entry)
         /\ Len(pfds') = Len(pfds) - 1
         /\ \A k \in 1 .. Len(pfds') :
              pfds'[k] = IF k = n THEN pfds[Len(pfds)] ELSE pfds[k]
<1>1. Len(pfds) \in Nat /\ Len(pfds) - 1 \in Nat /\ DOMAIN pfds = 1 .. Len(pfds)
  BY DEF TypeOK
<1>2. \A k \in 1 .. Len(pfds) : pfds[k] \in Entry
  BY DEF TypeOK
<1>3. pfds' = [k \in 1 .. Len(pfds) - 1 |->
                 IF k = n THEN pfds[Len(pfds)] ELSE pfds[k]]
  BY DEF del_from_pfds
<1>4. \A k \in 1 .. Len(pfds) - 1 : pfds'[k] \in Entry
  BY <1>1, <1>2, <1>3
<1>5. pfds' \in Seq(Entry) /\ Len(pfds') = Len(pfds) - 1
  BY <1>1, <1>3, <1>4
<1> QED BY <1>3, <1>5

(* A scan that has reported descriptor fd at its index stands inside the   *)
(* table.                                                                  *)
LEMMA AtIsInside ==
  ASSUME TypeOK, NEW fd, At(fd)
  PROVE  /\ i \in Nat /\ Len(pfds) \in Nat /\ i + 1 \in 1 .. Len(pfds)
         /\ pfds[i + 1].fd = fd /\ DOMAIN pfds = 1 .. Len(pfds)
  BY DEF TypeOK, At

(* The queue after accept has taken its first connection. *)
LEMMA Dequeuing ==
  ASSUME TypeOK, EntriesAreRight, backlog # <<>>, backlog' = Tail(backlog)
  PROVE  /\ Head(backlog) \in Clients
         /\ backlog' \in Seq(Clients)
         /\ Queued' = Queued \ {Head(backlog)}
         /\ \A k, l \in DOMAIN backlog' : backlog'[k] = backlog'[l] => k = l
<1> DEFINE n == Len(backlog)
<1>1. /\ backlog \in Seq(Clients) /\ n \in Nat /\ n >= 1
      /\ DOMAIN backlog = 1 .. n /\ Head(backlog) = backlog[1]
  BY DEF TypeOK
<1>2. /\ backlog' \in Seq(Clients) /\ DOMAIN backlog' = 1 .. n - 1
      /\ \A k \in 1 .. n - 1 : backlog'[k] = backlog[k + 1]
  BY <1>1
<1>3. \A k, l \in 1 .. n : backlog[k] = backlog[l] => k = l
  BY <1>1 DEF EntriesAreRight
<1>4. \A k, l \in DOMAIN backlog' : backlog'[k] = backlog'[l] => k = l
  <2> SUFFICES ASSUME NEW k \in 1 .. n - 1, NEW l \in 1 .. n - 1,
                      backlog'[k] = backlog'[l]
               PROVE  k = l
    BY <1>2
  <2>1. k + 1 \in 1 .. n /\ l + 1 \in 1 .. n  BY <1>1
  <2>2. backlog[k + 1] = backlog[l + 1]  BY <1>2
  <2>3. k + 1 = l + 1  BY <1>3, <2>1, <2>2
  <2> QED BY <2>3
<1>5. Queued' = Queued \ {Head(backlog)}
  <2>1. Queued' = {backlog[k + 1] : k \in 1 .. n - 1}
    BY <1>2 DEF Queued
  <2>2. Queued = {backlog[k] : k \in 1 .. n}
    BY <1>1 DEF Queued
  <2>3. \A k \in 1 .. n - 1 : k + 1 \in 1 .. n /\ k + 1 # 1
    BY <1>1
  <2>4. \A k \in 1 .. n - 1 : backlog[k + 1] # backlog[1]
    BY <1>1, <1>3, <2>3
  <2>5. \A k \in 1 .. n : k # 1 => k - 1 \in 1 .. n - 1 /\ (k - 1) + 1 = k
    BY <1>1
  <2>6. Queued' \subseteq Queued \ {Head(backlog)}
    BY <1>1, <2>1, <2>2, <2>3, <2>4
  <2>7. Queued \ {Head(backlog)} \subseteq Queued'
    BY <1>1, <2>1, <2>2, <2>5
  <2> QED BY <2>6, <2>7
<1> QED BY <1>1, <1>2, <1>4, <1>5

----------------------------------------------------------------------------
(* What a client does leaves the table alone and can only make more ready. *)
LEMMA ConnectKeeps ==
  ASSUME LoopInv, NEW c \in Clients, Connect(c)
  PROVE  LoopInv'
<1> DEFINE n == Len(backlog)
<1>1. /\ backlog \in Seq(Clients) /\ n \in Nat /\ DOMAIN backlog = 1 .. n
      /\ UNCHANGED <<pfds, fd_size, i, inbox, hung, skips>>
  BY DEF LoopInv, TypeOK, Connect, tableVars
<1>2. /\ backlog' \in Seq(Clients) /\ DOMAIN backlog' = 1 .. n + 1
      /\ \A k \in 1 .. n : backlog'[k] = backlog[k]
      /\ backlog'[n + 1] = c /\ backlog' # <<>>
  BY <1>1 DEF Connect
<1>3. Queued' = Queued \cup {c}
  <2>1. Queued' = {backlog'[k] : k \in 1 .. n + 1}  BY <1>2 DEF Queued
  <2>2. Queued = {backlog[k] : k \in 1 .. n}        BY <1>1 DEF Queued
  <2> QED BY <1>1, <1>2, <2>1, <2>2
<1>4. Listed' = Listed  BY <1>1 DEF Listed
<1>5. TypeOK'  BY <1>1, <1>2 DEF LoopInv, TypeOK
<1>6. EntriesAreRight'
  <2>1. c \notin Queued \cup Listed  BY DEF Connect
  <2>2. \A k \in 1 .. n : backlog[k] \in Queued  BY <1>1 DEF Queued
  <2>3. \A k, l \in DOMAIN backlog' : backlog'[k] = backlog'[l] => k = l
    BY <1>1, <1>2, <2>1, <2>2 DEF LoopInv, EntriesAreRight
  <2> QED BY <1>1, <1>3, <1>4, <2>1, <2>3 DEF LoopInv, EntriesAreRight
<1>7. ReportsHold'  BY <1>1, <1>2 DEF LoopInv, ReportsHold, Ready
<1>8. fd_size' >= 1 /\ RoomInTable' /\ SkipsInv'
  BY <1>1, <1>4 DEF LoopInv, RoomInTable, SkipsInv
<1> QED BY <1>5, <1>6, <1>7, <1>8 DEF LoopInv

LEMMA WriteKeeps ==
  ASSUME LoopInv, NEW c \in Clients, NEW d \in Data, Write(c, d)
  PROVE  LoopInv'
<1>1. /\ UNCHANGED <<pfds, fd_size, i, backlog, hung, skips>>
      /\ inbox' = [inbox EXCEPT ![c] = Append(@, d)]
      /\ inbox \in [Clients -> Seq(Data)]
  BY DEF LoopInv, TypeOK, Write, tableVars
<1>2. /\ inbox' \in [Clients -> Seq(Data)]
      /\ \A e \in Clients : inbox[e] # <<>> => inbox'[e] # <<>>
      /\ \A e \in Clients : e # c => inbox'[e] = inbox[e]
  BY <1>1
<1>3. Listed' = Listed /\ Queued' = Queued  BY <1>1 DEF Listed, Queued
<1>4. TypeOK'        BY <1>1, <1>2 DEF LoopInv, TypeOK
<1>5. EntriesAreRight'  BY <1>1, <1>2, <1>3 DEF LoopInv, EntriesAreRight, Write
<1>6. ReportsHold'   BY <1>1, <1>2 DEF LoopInv, ReportsHold, Ready
<1>7. fd_size' >= 1 /\ RoomInTable' /\ SkipsInv'
  BY <1>1, <1>3 DEF LoopInv, RoomInTable, SkipsInv
<1> QED BY <1>4, <1>5, <1>6, <1>7 DEF LoopInv

LEMMA CloseKeeps ==
  ASSUME LoopInv, NEW c \in Clients, Close(c)
  PROVE  LoopInv'
<1>1. /\ UNCHANGED <<pfds, fd_size, i, backlog, inbox, skips>>
      /\ hung' = hung \cup {c}
  BY DEF Close, tableVars
<1>2. Listed' = Listed /\ Queued' = Queued  BY <1>1 DEF Listed, Queued
<1>3. TypeOK'        BY <1>1 DEF LoopInv, TypeOK
<1>4. EntriesAreRight'  BY <1>1, <1>2 DEF LoopInv, EntriesAreRight, Close
<1>5. ReportsHold'   BY <1>1 DEF LoopInv, ReportsHold, Ready
<1>6. fd_size' >= 1 /\ RoomInTable' /\ SkipsInv'
  BY <1>1, <1>2 DEF LoopInv, RoomInTable, SkipsInv
<1> QED BY <1>3, <1>4, <1>5, <1>6 DEF LoopInv

----------------------------------------------------------------------------
(* What the loop does. *)
LEMMA PollReturnsKeeps ==
  ASSUME LoopInv, PollReturns
  PROVE  LoopInv'
<1> DEFINE n == Len(pfds)
<1>1. n \in Nat /\ DOMAIN pfds = 1 .. n /\ \A k \in 1 .. n : pfds[k] \in Entry
  BY DEF LoopInv, TypeOK
<1>2. pfds' = [k \in 1 .. n |-> [fd |-> pfds[k].fd, revents |-> Ready(pfds[k].fd)]]
  BY <1>1 DEF PollReturns
<1>3. /\ UNCHANGED <<fd_size, backlog, inbox, hung, skips>> /\ i' = 0
  BY DEF PollReturns, kernelVars
<1>4. \A k \in 1 .. n : pfds'[k] \in Entry
  BY <1>1, <1>2 DEF Entry, Ready
<1>5. pfds' \in Seq(Entry) /\ Len(pfds') = n /\ DOMAIN pfds' = 1 .. n
  BY <1>1, <1>2, <1>4
<1>6. /\ Queued' = Queued
      /\ Listed' = Listed
  BY <1>1, <1>2, <1>3, <1>5 DEF Listed, Queued
<1>7. TypeOK'        BY <1>3, <1>5 DEF LoopInv, TypeOK
<1>8. EntriesAreRight'
  BY <1>1, <1>2, <1>3, <1>5, <1>6 DEF LoopInv, EntriesAreRight
<1>9. RoomInTable' /\ fd_size' >= 1
  BY <1>1, <1>3, <1>5 DEF LoopInv, RoomInTable
<1>10. ReportsHold'
  <2>1. \A k \in 1 .. n : pfds'[k].revents => Ready(pfds'[k].fd)
    BY <1>2
  <2> QED BY <1>3, <1>5, <2>1 DEF ReportsHold, Ready
<1>11. SkipsInv'     BY <1>3, <1>6 DEF LoopInv, SkipsInv
<1> QED BY <1>7, <1>8, <1>9, <1>10, <1>11 DEF LoopInv

(* The scan goes on to the next entry and nothing else happens. *)
LEMMA StepOnKeeps ==
  ASSUME LoopInv, i < Len(pfds), i' = i + 1,
         UNCHANGED <<pfds, fd_size, kernelVars, skips>>
  PROVE  LoopInv'
<1>1. /\ UNCHANGED <<pfds, fd_size, backlog, inbox, hung, skips>>
      /\ i \in Nat /\ Len(pfds) \in Nat
  BY DEF kernelVars, LoopInv, TypeOK
<1>2. Listed' = Listed /\ Queued' = Queued  BY <1>1 DEF Listed, Queued
<1>3. TypeOK'        BY <1>1 DEF LoopInv, TypeOK
<1>4. EntriesAreRight'  BY <1>1, <1>2 DEF LoopInv, EntriesAreRight
<1>5. RoomInTable' /\ fd_size' >= 1  BY <1>1 DEF LoopInv, RoomInTable
<1>6. ReportsHold'
  <2>1. DOMAIN pfds = 1 .. Len(pfds)  BY DEF LoopInv, TypeOK
  <2> QED BY <1>1, <2>1 DEF LoopInv, ReportsHold, Ready
<1>7. SkipsInv'      BY <1>1, <1>2 DEF LoopInv, SkipsInv
<1> QED BY <1>3, <1>4, <1>5, <1>6, <1>7 DEF LoopInv

(* A new connection goes behind the last entry: the table doubles when it  *)
(* is full, and the entry says nothing yet.                                *)
LEMMA AcceptKeeps ==
  ASSUME LoopInv, Accept
  PROVE  LoopInv'
<1> DEFINE n == Len(pfds)
           c == Head(backlog)
<1>1. /\ TypeOK /\ EntriesAreRight /\ backlog # <<>> /\ backlog' = Tail(backlog)
      /\ UNCHANGED <<inbox, hung, skips>> /\ i' = i + 1
      /\ At(Listener) /\ add_to_pfds(c)
  BY DEF LoopInv, Accept
<1>2. /\ c \in Clients /\ backlog' \in Seq(Clients)
      /\ Queued' = Queued \ {c}
      /\ \A k, l \in DOMAIN backlog' : backlog'[k] = backlog'[l] => k = l
  BY <1>1, Dequeuing
<1>3. /\ pfds' \in Seq(Entry) /\ Len(pfds') = n + 1
      /\ \A k \in 1 .. n : pfds'[k] = pfds[k]
      /\ pfds'[n + 1] = [fd |-> c, revents |-> FALSE]
      /\ Listed' = Listed \cup {c}
  BY <1>1, <1>2, Appending
<1>4. /\ i \in Nat /\ n \in Nat /\ i + 1 \in 1 .. n
      /\ pfds[i + 1].fd = Listener /\ DOMAIN pfds = 1 .. n
  BY <1>1, AtIsInside
<1>5. c \in Queued /\ c \notin Listed
  <2>1. c = backlog[1] /\ 1 \in DOMAIN backlog  BY <1>1 DEF TypeOK
  <2> QED BY <1>1, <2>1 DEF Queued, EntriesAreRight
<1>6. DOMAIN pfds' = 1 .. n + 1  BY <1>3
<1>7. fd_size' \in Nat /\ fd_size' >= n + 1
  <2>1. fd_size' = IF n = fd_size THEN 2 * fd_size ELSE fd_size
    BY <1>1 DEF add_to_pfds
  <2>2. fd_size \in Nat /\ fd_size >= 1 /\ n <= fd_size
    BY DEF LoopInv, TypeOK, RoomInTable
  <2>3. CASE n = fd_size
    <3>1. 2 * fd_size \in Nat /\ 2 * fd_size >= fd_size + 1  BY <2>2
    <3>2. fd_size' = 2 * fd_size  BY <2>1, <2>3
    <3>3. fd_size + 1 = n + 1  BY <2>3
    <3> QED BY <3>1, <3>2, <3>3
  <2>4. CASE n # fd_size
    <3>1. n \in Nat  BY <1>4
    <3>2. fd_size >= n + 1  BY <2>2, <2>4, <3>1
    <3>3. fd_size' = fd_size  BY <2>1, <2>4
    <3> QED BY <2>2, <3>2, <3>3
  <2> QED BY <2>3, <2>4
<1>8. TypeOK'  BY <1>1, <1>2, <1>3, <1>4, <1>7 DEF TypeOK
<1>9. EntriesAreRight'
  <2>1. \A k \in 1 .. n : pfds[k].fd \in Listed  BY <1>4 DEF Listed
  <2>2. \A k, l \in DOMAIN pfds' : pfds'[k].fd = pfds'[l].fd => k = l
    <3>1. \A k, l \in 1 .. n : pfds[k].fd = pfds[l].fd => k = l
      BY <1>1, <1>4 DEF EntriesAreRight
    <3>2. \A k \in 1 .. n : pfds'[k].fd # c
      BY <1>3, <1>5, <2>1
    <3>3. pfds'[n + 1].fd = c  BY <1>3
    <3>4. \A k \in 1 .. n + 1 : k \in 1 .. n \/ k = n + 1  BY <1>4
    <3> QED BY <1>3, <1>6, <3>1, <3>2, <3>3, <3>4
  <2>3. Len(pfds') >= 1 /\ pfds'[1].fd = Listener
    BY <1>1, <1>3, <1>4 DEF EntriesAreRight
  <2>4. Queued' \cap Listed' = {} /\ Queued' \cup Listed' = Queued \cup Listed
    BY <1>1, <1>2, <1>3, <1>5 DEF EntriesAreRight
  <2> QED BY <1>1, <1>2, <2>2, <2>3, <2>4 DEF EntriesAreRight
<1>10. RoomInTable' /\ fd_size' >= 1
  BY <1>1, <1>3, <1>4, <1>7 DEF RoomInTable
<1>11. ReportsHold'
  <2> SUFFICES ASSUME NEW k \in 1 .. n + 1, k > i', pfds'[k].revents
               PROVE  /\ pfds'[k].fd \in Clients
                      /\ inbox'[pfds'[k].fd] # <<>> \/ pfds'[k].fd \in hung'
    BY <1>6 DEF ReportsHold, Ready
  <2>1. k # n + 1  BY <1>3
  <2>2. k \in 1 .. n /\ k > i /\ k # i + 1  BY <1>1, <1>4, <2>1
  <2>3. Ready(pfds[k].fd) /\ pfds[k].fd # Listener
    BY <1>1, <1>3, <1>4, <2>2 DEF LoopInv, ReportsHold, EntriesAreRight
  <2> QED BY <1>1, <1>3, <2>2, <2>3 DEF Ready
<1>12. SkipsInv'  BY <1>1, <1>3 DEF LoopInv, SkipsInv
<1> QED BY <1>8, <1>9, <1>10, <1>11, <1>12 DEF LoopInv

LEMMA ServeKeeps ==
  ASSUME LoopInv, NEW c \in Clients, Serve(c)
  PROVE  LoopInv'
<1> DEFINE n == Len(pfds)
<1>1. /\ TypeOK /\ EntriesAreRight /\ At(c)
      /\ UNCHANGED <<pfds, fd_size, backlog, hung>> /\ i' = i + 1
      /\ inbox' = [inbox EXCEPT ![c] = <<>>]
      /\ skips' = [skips EXCEPT ![c] = 0]
  BY DEF LoopInv, Serve, Served
<1>2. /\ i \in Nat /\ n \in Nat /\ i + 1 \in 1 .. n
      /\ pfds[i + 1].fd = c /\ DOMAIN pfds = 1 .. n
  BY <1>1, AtIsInside
<1>3. /\ inbox' \in [Clients -> Seq(Data)] /\ inbox'[c] = <<>>
      /\ \A e \in Clients : e # c => inbox'[e] = inbox[e]
      /\ skips' \in [Clients -> Nat]
      /\ \A e \in Clients : skips'[e] = IF e = c THEN 0 ELSE skips[e]
  BY <1>1 DEF TypeOK
<1>4. Listed' = Listed /\ Queued' = Queued  BY <1>1 DEF Listed, Queued
<1>5. TypeOK'        BY <1>1, <1>2, <1>3 DEF TypeOK
<1>6. EntriesAreRight'  BY <1>1, <1>3, <1>4 DEF EntriesAreRight
<1>7. RoomInTable' /\ fd_size' >= 1  BY <1>1, <1>2 DEF LoopInv, RoomInTable
<1>8. ReportsHold'
  <2> SUFFICES ASSUME NEW k \in 1 .. n, k > i', pfds[k].revents
               PROVE  Ready(pfds[k].fd)'
    BY <1>1, <1>2 DEF ReportsHold, Ready
  <2>1. k > i /\ k # i + 1  BY <1>1, <1>2
  <2>2. Ready(pfds[k].fd) /\ pfds[k].fd # c
    BY <1>1, <1>2, <2>1 DEF LoopInv, ReportsHold, EntriesAreRight
  <2> QED BY <1>1, <1>3, <2>2 DEF Ready
<1>9. SkipsInv'      BY <1>3, <1>4 DEF LoopInv, SkipsInv
<1> QED BY <1>5, <1>6, <1>7, <1>8, <1>9 DEF LoopInv

(* Closing a connection takes it out of the table and nobody else.         *)
LEMMA DroppingTakesOut ==
  ASSUME TypeOK, EntriesAreRight, NEW c \in Clients, Drop(c)
  PROVE  Listed' = Listed \ {c}
<1> DEFINE n == Len(pfds)
<1>1. At(c) /\ del_from_pfds(i + 1)  BY DEF Drop
<1>2. /\ i \in Nat /\ n \in Nat /\ i + 1 \in 1 .. n
      /\ pfds[i + 1].fd = c /\ DOMAIN pfds = 1 .. n
  BY <1>1, AtIsInside
<1>20. i \in Nat /\ n \in Nat /\ i + 1 <= n  BY <1>2
<1>3. /\ pfds' \in Seq(Entry) /\ Len(pfds') = n - 1
      /\ \A k \in 1 .. n - 1 :
           pfds'[k] = IF k = i + 1 THEN pfds[n] ELSE pfds[k]
  BY <1>1, <1>2, Deleting
<1>4. DOMAIN pfds' = 1 .. n - 1  BY <1>2, <1>3
<1>5. \A k, l \in 1 .. n : pfds[k].fd = pfds[l].fd => k = l
  BY <1>1, <1>2 DEF EntriesAreRight
<1>7. Listed = {pfds[k].fd : k \in 1 .. n}        BY <1>2 DEF Listed
<1>8. Listed' = {pfds'[k].fd : k \in 1 .. n - 1}  BY <1>4 DEF Listed
<1>9. Listed' \subseteq Listed \ {c}
  <2> SUFFICES ASSUME NEW k \in 1 .. n - 1
               PROVE  pfds'[k].fd \in Listed \ {c}
    BY <1>8
  <2>1. CASE k = i + 1
    <3>1. n \in 1 .. n /\ n # i + 1  BY <1>20, <2>1
    <3> QED BY <1>2, <1>3, <1>5, <1>7, <2>1, <3>1
  <2>2. CASE k # i + 1
    <3>1. k \in 1 .. n  BY <1>2
    <3> QED BY <1>2, <1>3, <1>5, <1>7, <2>2, <3>1
  <2> QED BY <2>1, <2>2
<1>10. Listed \ {c} \subseteq Listed'
  <2> SUFFICES ASSUME NEW k \in 1 .. n, k # i + 1
               PROVE  pfds[k].fd \in Listed'
    BY <1>2, <1>7
  <2>1. CASE k = n
    <3>1. i + 1 \in 1 .. n - 1  BY <1>20, <2>1
    <3> QED BY <1>3, <1>8, <2>1, <3>1
  <2>2. CASE k # n
    <3>1. k \in 1 .. n - 1  BY <1>20, <2>2
    <3> QED BY <1>3, <1>8, <3>1
  <2> QED BY <2>1, <2>2
<1> QED BY <1>9, <1>10

(* Deleting entry i + 1 copies the last one over it, which the scan has    *)
(* then behind it; no other entry moves.                                   *)
LEMMA DropKeeps ==
  ASSUME LoopInv, NEW c \in Clients, Drop(c)
  PROVE  LoopInv'
<1> DEFINE n == Len(pfds)
<1>1. /\ TypeOK /\ EntriesAreRight /\ At(c) /\ del_from_pfds(i + 1)
      /\ UNCHANGED <<fd_size, backlog, inbox>> /\ i' = i + 1
      /\ hung' = hung \ {c} /\ inbox[c] = <<>>
      /\ skips' = [d \in Clients |-> IF d = c THEN 0
                                     ELSE IF PassedOver(d) THEN skips[d] + 1
                                     ELSE skips[d]]
  BY DEF LoopInv, Drop
<1>2. /\ i \in Nat /\ n \in Nat /\ i + 1 \in 1 .. n
      /\ pfds[i + 1].fd = c /\ DOMAIN pfds = 1 .. n
  BY <1>1, AtIsInside
<1>20. i \in Nat /\ n \in Nat /\ i + 1 <= n  BY <1>2
<1>3. /\ pfds' \in Seq(Entry) /\ Len(pfds') = n - 1
      /\ \A k \in 1 .. n - 1 :
           pfds'[k] = IF k = i + 1 THEN pfds[n] ELSE pfds[k]
  BY <1>1, <1>2, Deleting
<1>4. DOMAIN pfds' = 1 .. n - 1  BY <1>2, <1>3
<1>5. \A k, l \in 1 .. n : pfds[k].fd = pfds[l].fd => k = l
  BY <1>1, <1>2 DEF EntriesAreRight
<1>6. i + 1 # 1 /\ pfds[1].fd = Listener
  BY <1>1, <1>2, ListenerAssumption DEF EntriesAreRight
<1>7. Listed' = Listed \ {c}  BY DroppingTakesOut DEF LoopInv
<1>8. Queued' = Queued  BY <1>1 DEF Queued
<1>9. /\ skips' \in [Clients -> Nat] /\ skips'[c] = 0
      /\ \A d \in Clients : d # c =>
           skips'[d] = IF PassedOver(d) THEN skips[d] + 1 ELSE skips[d]
  BY <1>1 DEF TypeOK
<1>10. TypeOK'  BY <1>1, <1>2, <1>3, <1>9 DEF TypeOK
<1>11. EntriesAreRight'
  <2>1. \A k, l \in 1 .. n - 1 : pfds'[k].fd = pfds'[l].fd => k = l
    <3> SUFFICES ASSUME NEW k \in 1 .. n - 1, NEW l \in 1 .. n - 1,
                        pfds'[k].fd = pfds'[l].fd
                 PROVE  k = l
      OBVIOUS
    <3> DEFINE old(m) == IF m = i + 1 THEN n ELSE m
    <3>1. old(k) \in 1 .. n /\ old(l) \in 1 .. n  BY <1>2
    <3>2. pfds'[k] = pfds[old(k)] /\ pfds'[l] = pfds[old(l)]  BY <1>3
    <3>3. old(k) = old(l)  BY <1>5, <3>1, <3>2
    <3> QED BY <1>2, <3>3
  <2>2. Len(pfds') >= 1 /\ pfds'[1].fd = Listener
    <3>1. n >= 2 /\ 1 \in 1 .. n - 1  BY <1>2, <1>6
    <3> QED BY <1>3, <1>6, <3>1
  <2>3. Queued' \cap Listed' = {}  BY <1>1, <1>7, <1>8 DEF EntriesAreRight
  <2>4. \A d \in Clients :
          d \in hung' \/ inbox'[d] # <<>> => d \in Queued' \cup Listed'
    BY <1>1, <1>7, <1>8 DEF EntriesAreRight
  <2> QED BY <1>1, <1>4, <2>1, <2>2, <2>3, <2>4 DEF EntriesAreRight
<1>12. RoomInTable' /\ fd_size' >= 1
  BY <1>1, <1>2, <1>3 DEF LoopInv, TypeOK, RoomInTable
<1>13. ReportsHold'
  <2> SUFFICES ASSUME NEW k \in 1 .. n - 1, k > i + 1, pfds'[k].revents
               PROVE  \/ pfds'[k].fd = Listener /\ backlog # <<>>
                      \/ /\ pfds'[k].fd \in Clients
                         /\ inbox[pfds'[k].fd] # <<>> \/ pfds'[k].fd \in hung'
    BY <1>1, <1>4 DEF ReportsHold, Ready
  <2>1. k \in 1 .. n /\ k > i /\ k # i + 1 /\ pfds'[k] = pfds[k]
    BY <1>2, <1>3
  <2>2. Ready(pfds[k].fd) /\ pfds[k].fd # c
    BY <1>2, <1>5, <2>1 DEF LoopInv, ReportsHold
  <2> QED BY <1>1, <2>1, <2>2 DEF Ready
<1>14. SkipsInv'
  <2> SUFFICES ASSUME NEW d \in Clients, d # c, d \notin Listed
               PROVE  skips'[d] = 0
    BY <1>7, <1>9 DEF SkipsInv
  <2>1. ~PassedOver(d)
    <3>1. n \in DOMAIN pfds  BY <1>2
    <3> QED BY <3>1 DEF PassedOver, Listed
  <2> QED BY <1>9, <2>1 DEF LoopInv, SkipsInv
<1> QED BY <1>10, <1>11, <1>12, <1>13, <1>14 DEF LoopInv

LEMMA NextKeeps ==
  ASSUME LoopInv, [Next]_loopVars
  PROVE  LoopInv'
<1>1. CASE PollReturns  BY <1>1, PollReturnsKeeps
<1>2. CASE Pass         BY <1>2, StepOnKeeps DEF Pass
<1>3. CASE Accept       BY <1>3, AcceptKeeps
<1>4. CASE AcceptFails  BY <1>4, StepOnKeeps DEF AcceptFails, At
<1>5. ASSUME NEW c \in Clients, Drop(c)   PROVE LoopInv'  BY <1>5, DropKeeps
<1>6. ASSUME NEW c \in Clients, Serve(c)  PROVE LoopInv'  BY <1>6, ServeKeeps
<1>7. ASSUME NEW c \in Clients, ClientStep(c)  PROVE LoopInv'
  BY <1>7, ConnectKeeps, CloseKeeps, WriteKeeps DEF ClientStep
<1>8. CASE UNCHANGED loopVars
  <2>1. UNCHANGED <<pfds, fd_size, i, backlog, inbox, hung, skips>>
    BY <1>8 DEF loopVars
  <2>2. Listed' = Listed /\ Queued' = Queued  BY <2>1 DEF Listed, Queued
  <2> QED BY <2>1, <2>2 DEF LoopInv, TypeOK, EntriesAreRight, RoomInTable,
             ReportsHold, Ready, SkipsInv
<1> QED BY <1>1, <1>2, <1>3, <1>4, <1>5, <1>6, <1>7, <1>8 DEF Next, LoopStep

(* The inductive invariant of the poll loop. *)
THEOREM LoopInvariance == Spec => []LoopInv
<1> QED BY LoopStarts, NextKeeps, PTL DEF Spec

(* No entry of the table is lost or doubled, however it grows and shrinks  *)
(* under the scan, there is always room for it, and the scan does not run  *)
(* past its end (add_to_pfds, del_from_pfds).                              *)
THEOREM TableStaysSound == Spec => []TableIsSound
<1>1. LoopInv => TableIsSound  BY DEF LoopInv, TableIsSound
<1> QED BY LoopInvariance, <1>1, PTL

(* Neither accept nor recv blocks: what poll reported is still there when  *)
(* the scan comes to it (revents in main).                                 *)
THEOREM ReportsStayTrue == Spec => []ReportsHold
<1>1. LoopInv => ReportsHold  BY DEF LoopInv
<1> QED BY LoopInvariance, <1>1, PTL

----------------------------------------------------------------------------
(* While somebody waits to be accepted the table, listener included, has   *)
(* at most as many entries as there are clients.                           *)
LEMMA RoomForOneMore ==
  ASSUME LoopInv, NEW c \in Clients, c \notin Listed
  PROVE  Len(pfds) <= Cardinality(Clients)
<1> DEFINE n == Len(pfds)
           f == [k \in 1 .. n |-> IF k = 1 THEN c ELSE pfds[k].fd]
<1>1. /\ n \in Nat /\ DOMAIN pfds = 1 .. n /\ \A k \in 1 .. n : pfds[k] \in Entry
      /\ pfds[1].fd = Listener /\ n >= 1
      /\ \A k, l \in 1 .. n : pfds[k].fd = pfds[l].fd => k = l
  BY DEF LoopInv, TypeOK, EntriesAreRight
<1>2. \A k \in 1 .. n : k # 1 => pfds[k].fd \in Clients /\ pfds[k].fd # c
  <2> SUFFICES ASSUME NEW k \in 1 .. n, k # 1
               PROVE  pfds[k].fd \in Clients /\ pfds[k].fd # c
    OBVIOUS
  <2>1. 1 \in 1 .. n  BY <1>1
  <2>2. pfds[k].fd # Listener  BY <1>1, <2>1
  <2>3. pfds[k].fd \in Listed  BY <1>1 DEF Listed
  <2> QED BY <1>1, <2>2, <2>3 DEF Entry
<1>3. f \in [1 .. n -> Clients]  BY <1>2
<1>4. \A k, l \in 1 .. n : f[k] = f[l] => k = l  BY <1>1, <1>2
<1>5. /\ IsFiniteSet(1 .. n) /\ Cardinality(1 .. n) = n
  BY <1>1, FS_Interval
<1>6. IsFiniteSet(Clients) /\ Cardinality(Clients) \in Nat
  BY ClientsAssumption, FS_CardinalityType
<1>7. ASSUME Cardinality(Clients) < Cardinality(1 .. n)  PROVE FALSE
  <2> HIDE DEF f, n
  <2>1. \E x, y \in 1 .. n : x # y /\ f[x] = f[y]
    BY <1>3, <1>5, <1>6, <1>7, FS_PigeonHole
  <2> QED BY <1>4, <2>1
<1> QED BY <1>1, <1>5, <1>6, <1>7

LEMMA InitIsUnpassed == Init => BoundedBypass
<1> SUFFICES ASSUME Init PROVE BoundedBypass  OBVIOUS
<1>1. DOMAIN pfds = {1} /\ pfds[1].fd = Listener  BY DEF Init
<1> QED BY <1>1 DEF BoundedBypass

(* A step that keeps the table and only forgets how often was passed over. *)
LEMMA SameTableKeepsBypass ==
  ASSUME LoopInv, BoundedBypass, Len(pfds') = Len(pfds),
         DOMAIN pfds' = DOMAIN pfds,
         \A k \in DOMAIN pfds : pfds'[k].fd = pfds[k].fd,
         \A d \in Clients : skips'[d] \in Nat /\ skips'[d] <= skips[d]
  PROVE  BoundedBypass'
<1> SUFFICES ASSUME NEW k \in DOMAIN pfds, pfds[k].fd # Listener
             PROVE  k - 1 + skips'[pfds[k].fd] <= Cardinality(Clients)
  BY DEF BoundedBypass
<1>1. k \in Nat /\ pfds[k].fd \in Clients
  <2>1. pfds \in Seq(Entry) /\ k \in 1 .. Len(pfds)  BY DEF LoopInv, TypeOK
  <2>2. pfds[k] \in Entry  BY <2>1
  <2> QED BY <2>1, <2>2 DEF Entry
<1>2. skips[pfds[k].fd] \in Nat  BY <1>1 DEF LoopInv, TypeOK
<1>3. k - 1 + skips[pfds[k].fd] <= Cardinality(Clients)
  BY DEF BoundedBypass
<1>4. Cardinality(Clients) \in Nat  BY ClientsAssumption, FS_CardinalityType
<1> QED BY <1>1, <1>2, <1>3, <1>4

LEMMA AcceptKeepsBypass ==
  ASSUME LoopInv, BoundedBypass, Accept
  PROVE  BoundedBypass'
<1> DEFINE n == Len(pfds)
           c == Head(backlog)
<1>1. /\ TypeOK /\ EntriesAreRight /\ backlog # <<>> /\ backlog' = Tail(backlog)
      /\ add_to_pfds(c) /\ skips' = skips
  BY DEF LoopInv, Accept
<1>2. c \in Clients  BY <1>1, Dequeuing
<1>3. /\ Len(pfds') = n + 1 /\ DOMAIN pfds' = 1 .. n + 1
      /\ \A k \in 1 .. n : pfds'[k] = pfds[k]
      /\ pfds'[n + 1].fd = c
  <2>1. /\ pfds' \in Seq(Entry) /\ Len(pfds') = n + 1
        /\ \A k \in 1 .. n : pfds'[k] = pfds[k]
        /\ pfds'[n + 1] = [fd |-> c, revents |-> FALSE]
    BY <1>1, <1>2, Appending
  <2> QED BY <2>1
<1>4. n \in Nat /\ DOMAIN pfds = 1 .. n  BY <1>1 DEF TypeOK
<1>5. c \notin Listed
  <2>1. c = backlog[1] /\ 1 \in DOMAIN backlog  BY <1>1 DEF TypeOK
  <2> QED BY <1>1, <2>1 DEF Queued, EntriesAreRight
<1>6. skips[c] = 0 /\ n <= Cardinality(Clients)
  BY <1>2, <1>5, RoomForOneMore DEF LoopInv, SkipsInv
<1>7. ASSUME NEW k \in 1 .. n, pfds[k].fd # Listener
      PROVE  k - 1 + skips[pfds[k].fd] <= Cardinality(Clients)
  BY <1>4, <1>7 DEF BoundedBypass
<1>8. (n + 1) - 1 + skips[c] <= Cardinality(Clients)
  <2>1. Cardinality(Clients) \in Nat  BY ClientsAssumption, FS_CardinalityType
  <2> QED BY <1>4, <1>6, <2>1
<1>9. \A k \in 1 .. n + 1 : k \in 1 .. n \/ k = n + 1  BY <1>4
<1> QED BY <1>1, <1>3, <1>7, <1>8, <1>9 DEF BoundedBypass

LEMMA DropKeepsBypass ==
  ASSUME LoopInv, BoundedBypass, NEW c \in Clients, Drop(c)
  PROVE  BoundedBypass'
<1> DEFINE n == Len(pfds)
<1>1. /\ TypeOK /\ At(c) /\ del_from_pfds(i + 1)
      /\ skips' = [d \in Clients |-> IF d = c THEN 0
                                     ELSE IF PassedOver(d) THEN skips[d] + 1
                                     ELSE skips[d]]
  BY DEF LoopInv, Drop
<1>2. /\ i \in Nat /\ n \in Nat /\ i + 1 \in 1 .. n
      /\ pfds[i + 1].fd = c /\ DOMAIN pfds = 1 .. n
  BY <1>1, AtIsInside
<1>3. /\ i \in Nat /\ n \in Nat /\ i + 1 <= n
  BY <1>2
<1>4. /\ DOMAIN pfds' = 1 .. n - 1
      /\ \A k \in 1 .. n - 1 :
           pfds'[k] = IF k = i + 1 THEN pfds[n] ELSE pfds[k]
  <2>1. /\ pfds' \in Seq(Entry) /\ Len(pfds') = n - 1
        /\ \A k \in 1 .. Len(pfds') :
             pfds'[k] = IF k = i + 1 THEN pfds[n] ELSE pfds[k]
    BY <1>1, <1>2, Deleting
  <2> QED BY <1>3, <2>1
<1>5. /\ \A k \in 1 .. n : pfds[k].fd \in Clients \cup {Listener}
      /\ \A d \in Clients : skips[d] \in Nat
      /\ \A k, l \in 1 .. n : pfds[k].fd = pfds[l].fd => k = l
  <2>1. \A k \in 1 .. n : pfds[k] \in Entry  BY <1>1 DEF TypeOK
  <2>2. \A d \in Clients : skips[d] \in Nat   BY <1>1 DEF TypeOK
  <2>3. \A k, l \in 1 .. n : pfds[k].fd = pfds[l].fd => k = l
    BY <1>2 DEF LoopInv, EntriesAreRight
  <2> QED BY <2>1, <2>2, <2>3 DEF Entry
<1>6. Cardinality(Clients) \in Nat  BY ClientsAssumption, FS_CardinalityType
<1>7. ASSUME NEW k \in 1 .. n, pfds[k].fd # Listener
      PROVE  k - 1 + skips[pfds[k].fd] <= Cardinality(Clients)
  BY <1>2, <1>7 DEF BoundedBypass
<1> SUFFICES ASSUME NEW k \in 1 .. n - 1, pfds'[k].fd # Listener
             PROVE  k - 1 + skips'[pfds'[k].fd] <= Cardinality(Clients)
  BY <1>4 DEF BoundedBypass
<1>8. CASE k = i + 1
  <2> DEFINE d == pfds[n].fd
  <2>1. n \in 1 .. n /\ n # i + 1 /\ k <= n - 1  BY <1>3, <1>8
  <2>2. pfds'[k].fd = d /\ d \in Clients  BY <1>4, <1>5, <1>8, <2>1
  <2>3. skips'[d] \in Nat /\ skips'[d] <= skips[d] + 1  BY <1>1, <1>5, <2>2
  <2>4. n - 1 + skips[d] <= Cardinality(Clients)  BY <1>7, <2>1, <2>2
  <2>5. skips[d] \in Nat  BY <1>5, <2>2
  <2>6. k - 1 + skips'[d] <= n - 1 + skips[d]  BY <1>3, <2>1, <2>3, <2>5
  <2> QED BY <1>3, <1>6, <2>2, <2>3, <2>4, <2>5, <2>6
<1>9. CASE k # i + 1
  <2> DEFINE d == pfds[k].fd
  <2>1. k \in 1 .. n /\ k # n /\ n \in 1 .. n  BY <1>3
  <2>2. pfds'[k].fd = d /\ d \in Clients  BY <1>4, <1>5, <1>9, <2>1
  <2>3. ~PassedOver(d)  BY <1>5, <2>1 DEF PassedOver
  <2>4. d # c  BY <1>2, <1>5, <1>9, <2>1
  <2>5. skips'[d] = skips[d]  BY <1>1, <2>2, <2>3, <2>4
  <2> QED BY <1>7, <2>1, <2>2, <2>5
<1> QED BY <1>8, <1>9

(* Whoever else comes and goes, a client that poll reports is passed over  *)
(* in a row less often than there are clients, though del_from_pfds moves  *)
(* the last entry behind the scan.                                         *)
THEOREM BypassIsBounded == Spec => []BoundedBypass
<1>1. ASSUME LoopInv, BoundedBypass, [Next]_loopVars  PROVE BoundedBypass'
  <2>1. CASE Accept  BY <1>1, <2>1, AcceptKeepsBypass
  <2>2. CASE \E c \in Clients : Drop(c)
    BY <1>1, <2>2, DropKeepsBypass
  <2>3. CASE \/ PollReturns \/ Pass \/ AcceptFails \/ UNCHANGED loopVars
             \/ \E c \in Clients : Serve(c) \/ ClientStep(c)
    <3>1. /\ Len(pfds') = Len(pfds) /\ DOMAIN pfds' = DOMAIN pfds
          /\ \A k \in DOMAIN pfds : pfds'[k].fd = pfds[k].fd
      <4>1. CASE PollReturns
        <5>1. /\ DOMAIN pfds = 1 .. Len(pfds) /\ Len(pfds) \in Nat
              /\ pfds' = [k \in 1 .. Len(pfds) |->
                            [fd |-> pfds[k].fd, revents |-> Ready(pfds[k].fd)]]
          BY <1>1, <4>1 DEF LoopInv, TypeOK, PollReturns
        <5> QED BY <5>1
      <4>2. CASE pfds' = pfds  BY <4>2
      <4> QED BY <2>3, <4>1, <4>2 DEF Pass, AcceptFails, loopVars, Serve,
                 ClientStep, Connect, Write, Close, tableVars
    <3>2. \A d \in Clients : skips'[d] \in Nat /\ skips'[d] <= skips[d]
      <4>1. \A d \in Clients : skips[d] \in Nat  BY <1>1 DEF LoopInv, TypeOK
      <4>2. CASE skips' = skips  BY <4>1, <4>2
      <4>3. ASSUME NEW c \in Clients, Serve(c)
            PROVE  \A d \in Clients : skips'[d] \in Nat /\ skips'[d] <= skips[d]
        BY <1>1, <4>1, <4>3 DEF Serve, Served, LoopInv, TypeOK
      <4> QED BY <2>3, <4>2, <4>3 DEF PollReturns, Pass, AcceptFails, loopVars,
                 ClientStep, Connect, Write, Close
    <3> QED BY <1>1, <3>1, <3>2, SameTableKeepsBypass
  <2> QED BY <1>1, <2>1, <2>2, <2>3 DEF Next, LoopStep
<1> QED BY LoopInvariance, InitIsUnpassed, <1>1, PTL DEF Spec

----------------------------------------------------------------------------
(***************************************************************************)
(* ForkServer, for any number of clients and processes: what main, the     *)
(* children and the handler of SIGCHLD do to each other's state in every   *)
(* interleaving.                                                           *)
(***************************************************************************)

(* What main has open and whose error errno is, for each place main can be *)
(* at.  While the handler runs, the error is in saved_errno.               *)
MainInv ==
  /\ pc \in {"accept", "perror"} => newFd = None
  /\ pc \in {"fork", "close"} => newFd # None
  /\ pc = "perror" =>
       (IF hpc = "off" THEN errno ELSE saved) = "ECONNABORTED"

ForkInv == ForkTypeOK /\ NoZombieForgotten /\ HoldsOneConnection /\ MainInv

LEMMA ForkStarts == ForkInit => ForkInv
<1> SUFFICES ASSUME ForkInit PROVE ForkInv  OBVIOUS
<1>1. Free \in [state : {"free", "runs", "greeted", "zombie"},
                fd : Callers \cup {None}]
  BY DEF Free
<1>2. ForkTypeOK
  <2>1. child \in [Procs -> [state : {"free", "runs", "greeted", "zombie"},
                            fd : Callers \cup {None}]]
    BY <1>1 DEF ForkInit
  <2>2. client \in [Callers -> {"out", "waits", "accepted", "greeted"}]
    BY DEF ForkInit
  <2>3. waiting \in Seq(Callers)
    BY DEF ForkInit
  <2> QED BY <2>1, <2>2, <2>3 DEF ForkInit, ForkTypeOK, Errors
<1>3. NoZombieForgotten  BY DEF ForkInit, NoZombieForgotten, With, Free
<1>4. HoldsOneConnection BY DEF ForkInit, HoldsOneConnection
<1>5. MainInv            BY DEF ForkInit, MainInv
<1> QED BY <1>2, <1>3, <1>4, <1>5 DEF ForkInv

(* The clients change neither main's state nor the handler's. *)
LEMMA ClientKeeps ==
  ASSUME ForkInv, NEW c \in Callers, Call(c) \/ Abort(c) \/ Receive(c)
  PROVE  ForkInv'
  BY DEF ForkInv, ForkTypeOK, NoZombieForgotten, HoldsOneConnection, MainInv, With,
         Call, Abort, Receive, handlerVars, mainVars

LEMMA MainKeeps ==
  ASSUME ForkInv, MainStep
  PROVE  ForkInv'
<1> USE DEF ForkInv, NoZombieForgotten, HoldsOneConnection, MainInv, With, MainAt,
            handlerVars
<1>1. CASE AcceptCall
  <2>1. Head(waiting) \in Callers /\ Tail(waiting) \in Seq(Callers)
    BY <1>1 DEF ForkTypeOK, AcceptCall
  <2> QED BY <1>1, <2>1, NoneAssumption DEF ForkTypeOK, AcceptCall
<1>2. CASE AcceptCallFails
  <2>1. Head(waiting) \in Callers /\ Tail(waiting) \in Seq(Callers)
    BY <1>2 DEF ForkTypeOK, AcceptCallFails
  <2> QED BY <1>2, <2>1 DEF ForkTypeOK, AcceptCallFails, Errors
<1>3. CASE PError     BY <1>3 DEF ForkTypeOK, PError
<1>4. CASE Fork       BY <1>4 DEF ForkTypeOK, Fork
<1>5. CASE ForkFails  BY <1>5 DEF ForkTypeOK, ForkFails, Errors
<1>6. CASE CloseNewFd BY <1>6 DEF ForkTypeOK, CloseNewFd
<1> QED BY <1>1, <1>2, <1>3, <1>4, <1>5, <1>6 DEF MainStep

LEMMA ChildKeeps ==
  ASSUME ForkInv, NEW p \in Procs, ChildStep(p)
  PROVE  ForkInv'
<1> USE DEF ForkInv, NoZombieForgotten, HoldsOneConnection, MainInv, With, mainVars,
            handlerVars
<1>1. CASE Greet(p) BY <1>1 DEF ForkTypeOK, Greet
<1>2. CASE Exit(p)  BY <1>2 DEF ForkTypeOK, Exit
<1> QED BY <1>1, <1>2 DEF ChildStep

(* The handler leaves the loop of waitpid only when no zombie is left, and *)
(* puts back the errno it has found.                                       *)
LEMMA HandlerKeeps ==
  ASSUME ForkInv, HandlerStep
  PROVE  ForkInv'
<1> USE DEF ForkInv, NoZombieForgotten, HoldsOneConnection, MainInv, With, mainVars,
            handlerVars
<1>1. CASE Signal   BY <1>1 DEF ForkTypeOK, Signal
<1>2. CASE NoneLeft BY <1>2 DEF ForkTypeOK, NoneLeft, Errors
<1>3. CASE Restore  BY <1>3 DEF ForkTypeOK, Restore
<1>4. ASSUME NEW p \in Procs, Reap(p) PROVE ForkInv'
  BY <1>4 DEF ForkTypeOK, Reap, Free
<1> QED BY <1>1, <1>2, <1>3, <1>4 DEF HandlerStep

(* The inductive invariant: type, zombies, descriptors and errno together. *)
THEOREM ForkInvariance == ForkSpec => []ForkInv
<1>1. ASSUME ForkInv, [ForkNext]_forkVars PROVE ForkInv'
  <2>1. CASE ForkNext
    BY <1>1, <2>1, MainKeeps, HandlerKeeps, ChildKeeps, ClientKeeps DEF ForkNext
  <2>2. CASE UNCHANGED forkVars
    BY <1>1, <2>2 DEF forkVars, ForkInv, ForkTypeOK, NoZombieForgotten, HoldsOneConnection,
       MainInv, With
  <2> QED BY <1>1, <2>1, <2>2
<1> QED BY ForkStarts, <1>1, PTL DEF ForkSpec

(* No ended child is forgotten, though signals are not counted             *)
(* (sigchld_handler).                                                      *)
THEOREM NoZombieIsForgotten == ForkSpec => []NoZombieForgotten
<1>1. ForkInv => NoZombieForgotten  BY DEF ForkInv
<1> QED BY ForkInvariance, <1>1, PTL

(* perror prints accept's error whenever the handler runs (saved_errno).   *)
THEOREM ErrnoStaysAccepts == ForkSpec => []ErrnoIsAccepts
<1>1. ForkInv => ErrnoIsAccepts  BY DEF ForkInv, MainInv, ErrnoIsAccepts, MainAt
<1> QED BY ForkInvariance, <1>1, PTL

(* main never has two connections open (close(new_fd)).                    *)
THEOREM OneConnectionIsHeld == ForkSpec => []HoldsOneConnection
<1>1. ForkInv => HoldsOneConnection  BY DEF ForkInv
<1> QED BY ForkInvariance, <1>1, PTL

----------------------------------------------------------------------------

----------------------------------------------------------------------------
(***************************************************************************)
(* ChatServer, for any number of clients and messages: who has heard what. *)
(* What the recursive function in ByOthers computes is found by way of the *)
(* least number at which it would be something else.                       *)
(***************************************************************************)
LEMMA LeastNumber ==
  ASSUME NEW S \in SUBSET Nat, S # {}
  PROVE  \E x \in S : \A y \in S : x =< y
<1> DEFINE R == {ss \in Nat \X Nat : ss[1] < ss[2]}
<1>1. IsWellFoundedOn(R, Nat)
  BY NatLessThanWellFounded DEF OpToRel
<1> HIDE DEF R
<1>2. PICK x \in S : \A y \in S : ~ (<<y, x>> \in R)
  BY <1>1, WFMin
<1>3. ASSUME NEW y \in S PROVE x =< y
  <2>1. x \in Nat /\ y \in Nat  OBVIOUS
  <2>2. y < x => <<y, x>> \in R  BY <2>1 DEF R
  <2> QED BY <1>2, <2>1, <2>2
<1> QED BY <1>3

(* What ByOthers computes of the first n messages.                         *)
OthersUpTo(f, c, ms, n) ==
  f = [k \in 0 .. n |-> IF k = 0 THEN <<>>
                        ELSE IF ms[k].from = c THEN f[k - 1]
                        ELSE Append(f[k - 1], ms[k])]

LEMMA OthersExist ==
  ASSUME NEW c, NEW ms
  PROVE  \A n \in Nat : \E f : OthersUpTo(f, c, ms, n)
<1> DEFINE Bad == {n \in Nat : ~ \E f : OthersUpTo(f, c, ms, n)}
<1>1. SUFFICES ASSUME Bad # {} PROVE FALSE  OBVIOUS
<1>2. PICK n \in Bad : \A k \in Bad : n =< k  BY <1>1, LeastNumber
<1>3. n # 0
  <2> DEFINE f == [k \in 0 .. 0 |-> <<>>]
  <2>1. OthersUpTo(f, c, ms, 0)  BY DEF OthersUpTo
  <2> QED BY <1>2, <2>1
<1>4. n - 1 \in Nat /\ n - 1 \notin Bad  BY <1>2, <1>3
<1>5. PICK f : OthersUpTo(f, c, ms, n - 1)  BY <1>4
<1> DEFINE last == IF ms[n].from = c THEN f[n - 1] ELSE Append(f[n - 1], ms[n])
           g == [k \in 0 .. n |-> IF k = n THEN last ELSE f[k]]
<1>6. ASSUME NEW k \in 0 .. n
      PROVE  g[k] = IF k = 0 THEN <<>>
                    ELSE IF ms[k].from = c THEN g[k - 1]
                    ELSE Append(g[k - 1], ms[k])
  <2>1. CASE k = n  BY <1>3, <1>4, <2>1
  <2>2. CASE k # n
    <3>1. k \in 0 .. n - 1 /\ g[k] = f[k]  BY <1>4, <2>2
    <3>2. f[k] = IF k = 0 THEN <<>>
                 ELSE IF ms[k].from = c THEN f[k - 1]
                 ELSE Append(f[k - 1], ms[k])
      BY <1>5, <3>1 DEF OthersUpTo
    <3>3. k # 0 => k - 1 \in 0 .. n - 1 /\ g[k - 1] = f[k - 1]
      BY <1>4, <3>1
    <3> HIDE DEF g
    <3> QED BY <3>1, <3>2, <3>3
  <2> QED BY <2>1, <2>2
<1>7. OthersUpTo(g, c, ms, n)  BY <1>6 DEF OthersUpTo
<1> QED BY <1>2, <1>7

LEMMA OthersStep ==
  ASSUME NEW c, NEW ms, NEW n \in Nat, NEW f, OthersUpTo(f, c, ms, n)
  PROVE  /\ f[0] = <<>>
         /\ \A k \in 1 .. n : f[k] = IF ms[k].from = c THEN f[k - 1]
                                     ELSE Append(f[k - 1], ms[k])
<1>1. 0 \in 0 .. n  OBVIOUS
<1>2. f[0] = <<>>  BY <1>1 DEF OthersUpTo
<1>3. ASSUME NEW k \in 1 .. n
      PROVE  f[k] = IF ms[k].from = c THEN f[k - 1] ELSE Append(f[k - 1], ms[k])
  <2>1. k \in 0 .. n /\ k # 0  OBVIOUS
  <2> QED BY <2>1 DEF OthersUpTo
<1> QED BY <1>2, <1>3

LEMMA OthersAgree ==
  ASSUME NEW c, NEW q, NEW r, NEW m \in Nat, NEW n \in Nat, m <= n,
         \A k \in 1 .. m : q[k] = r[k],
         NEW f, OthersUpTo(f, c, q, m), NEW g, OthersUpTo(g, c, r, n)
  PROVE  \A k \in 0 .. m : f[k] = g[k]
<1> DEFINE Bad == {k \in 0 .. m : f[k] # g[k]}
<1>1. SUFFICES ASSUME Bad # {} PROVE FALSE  OBVIOUS
<1>2. PICK k \in Bad : \A l \in Bad : k =< l
  <2>1. Bad \in SUBSET Nat  OBVIOUS
  <2> QED BY <1>1, <2>1, LeastNumber
<1>3. f[0] = <<>> /\ g[0] = <<>>  BY OthersStep
<1>4. k \in 1 .. m /\ k \in 1 .. n  BY <1>2, <1>3
<1>5. k - 1 \in 0 .. m /\ k - 1 \notin Bad  BY <1>2, <1>4
<1>6. f[k] = IF q[k].from = c THEN f[k - 1] ELSE Append(f[k - 1], q[k])
  BY <1>4, OthersStep
<1>7. g[k] = IF r[k].from = c THEN g[k - 1] ELSE Append(g[k - 1], r[k])
  BY <1>4, OthersStep
<1>8. q[k] = r[k]  BY <1>4
<1> QED BY <1>2, <1>5, <1>6, <1>7, <1>8

LEMMA OthersIs ==
  ASSUME NEW c, NEW S, NEW ms \in Seq(S), NEW f, OthersUpTo(f, c, ms, Len(ms))
  PROVE  ByOthers(c, ms) = f[Len(ms)]
<1> DEFINE g == CHOOSE g : g = [k \in 0 .. Len(ms) |->
                  IF k = 0 THEN <<>>
                  ELSE IF ms[k].from = c THEN g[k - 1]
                  ELSE Append(g[k - 1], ms[k])]
<1>1. Len(ms) \in Nat  BY LenProperties
<1>2. OthersUpTo(g, c, ms, Len(ms))  BY <1>1, OthersExist DEF OthersUpTo
<1>3. ByOthers(c, ms) = g[Len(ms)]  BY DEF ByOthers
<1> HIDE DEF g
<1>4. \A k \in 0 .. Len(ms) : f[k] = g[k]  BY <1>1, <1>2, OthersAgree
<1> QED BY <1>1, <1>3, <1>4

LEMMA OthersOfNothing == ASSUME NEW c PROVE ByOthers(c, <<>>) = <<>>
<1>1. <<>> \in Seq({}) /\ Len(<<>>) = 0  BY EmptySeq
<1>2. PICK n, e : n = 0 /\ e = <<>>  OBVIOUS
<1>3. n \in Nat  BY <1>2
<1>4. PICK f : OthersUpTo(f, c, e, n)  BY <1>3, OthersExist
<1>5. f[0] = <<>>
  <2>1. 0 \in 0 .. n  BY <1>2
  <2> QED BY <1>4, <2>1 DEF OthersUpTo
<1> QED BY <1>1, <1>2, <1>4, <1>5, OthersIs

LEMMA OthersOneMore ==
  ASSUME NEW c, NEW S, NEW ms \in Seq(S), NEW m \in S
  PROVE  ByOthers(c, Append(ms, m))
           = IF m.from = c THEN ByOthers(c, ms) ELSE Append(ByOthers(c, ms), m)
<1> DEFINE r == Append(ms, m)
           n == Len(ms)
<1>1. /\ n \in Nat /\ r \in Seq(S) /\ Len(r) = n + 1 /\ r[n + 1] = m
      /\ n + 1 \in Nat /\ n + 1 \in 1 .. n + 1 /\ (n + 1) - 1 = n
      /\ \A k \in 1 .. n : r[k] = ms[k]
  BY LenProperties, AppendProperties
<1> HIDE DEF r, n
<1>2. PICK f : OthersUpTo(f, c, ms, n)  BY <1>1, OthersExist
<1>3. PICK g : OthersUpTo(g, c, r, n + 1)  BY <1>1, OthersExist
<1>4. f[n] = g[n]
  <2>1. n <= n + 1 /\ n \in 0 .. n /\ \A k \in 1 .. n : ms[k] = r[k]  BY <1>1
  <2>2. PICK l : l = n + 1  OBVIOUS
  <2>3. /\ n \in Nat /\ l \in Nat /\ n <= l
        /\ OthersUpTo(f, c, ms, n) /\ OthersUpTo(g, c, r, l)
    BY <1>1, <1>2, <1>3, <2>1, <2>2
  <2>4. \A k \in 0 .. n : f[k] = g[k]
    <3>1. \A q, s : \A a, b \in Nat :
            a <= b /\ (\A k \in 1 .. a : q[k] = s[k])
            /\ OthersUpTo(f, c, q, a) /\ OthersUpTo(g, c, s, b)
            => \A k \in 0 .. a : f[k] = g[k]
      <4> TAKE q, s
      <4> TAKE a, b \in Nat
      <4> HAVE a <= b /\ (\A k \in 1 .. a : q[k] = s[k])
            /\ OthersUpTo(f, c, q, a) /\ OthersUpTo(g, c, s, b)
      <4> QED BY OthersAgree
    <3> QED BY <2>1, <2>3, <3>1
  <2> QED BY <2>1, <2>4
<1>5. g[n + 1] = IF m.from = c THEN g[n] ELSE Append(g[n], m)
  <2>1. g[n + 1] = IF r[n + 1].from = c THEN g[(n + 1) - 1]
                   ELSE Append(g[(n + 1) - 1], r[n + 1])
    BY <1>1, <1>3, OthersStep
  <2> QED BY <1>1, <2>1
<1>6. ByOthers(c, ms) = f[n] /\ ByOthers(c, r) = g[n + 1]
  BY <1>1, <1>2, <1>3, OthersIs DEF n
<1> QED BY <1>4, <1>5, <1>6 DEF r

(* A piece of a conversation that goes on to message n.                    *)
LEMMA PieceGrows ==
  ASSUME NEW S, NEW s \in Seq(S), NEW a \in Nat \ {0}, NEW n \in 1 .. Len(s), a <= n
  PROVE  /\ SubSeq(s, a, n) = Append(SubSeq(s, a, n - 1), s[n])
         /\ SubSeq(s, a, n - 1) \in Seq(S) /\ s[n] \in S
<1> DEFINE p == SubSeq(s, a, n - 1)
           q == SubSeq(s, a, n)
<1>1. Len(s) \in Nat /\ \A k \in 1 .. Len(s) : s[k] \in S
  BY LenProperties, ElementOfSeq
<1>2. /\ p \in Seq(S) /\ Len(p) = n - a
      /\ \A k \in 1 .. n - a : p[k] = s[a + k - 1]
  <2>1. a \in Int /\ n - 1 \in Int /\ \A k \in a .. n - 1 : s[k] \in S
    BY <1>1
  <2>2. /\ p \in Seq(S) /\ Len(p) = (IF a <= n - 1 THEN (n - 1) - a + 1 ELSE 0)
        /\ \A k \in 1 .. (n - 1) - a + 1 : p[k] = s[a + k - 1]
    BY <2>1, SubSeqProperties
  <2> QED BY <2>2
<1>3. /\ q \in Seq(S) /\ Len(q) = n - a + 1
      /\ \A k \in 1 .. n - a + 1 : q[k] = s[a + k - 1]
  <2>1. a \in Int /\ n \in Int /\ \A k \in a .. n : s[k] \in S
    BY <1>1
  <2>2. /\ q \in Seq(S) /\ Len(q) = (IF a <= n THEN n - a + 1 ELSE 0)
        /\ \A k \in 1 .. n - a + 1 : q[k] = s[a + k - 1]
    BY <2>1, SubSeqProperties
  <2> QED BY <2>2
<1>4. s[n] \in S  BY <1>1
<1> HIDE DEF p, q
<1>5. PICK e, r : e = s[n] /\ r = Append(p, e)  OBVIOUS
<1>6. /\ r \in Seq(S) /\ Len(r) = n - a + 1 /\ r[n - a + 1] = s[n]
      /\ \A k \in 1 .. n - a : r[k] = p[k]
  <2>1. p \in Seq(S) /\ e \in S  BY <1>2, <1>4, <1>5
  <2>2. /\ Append(p, e) \in Seq(S) /\ Len(Append(p, e)) = Len(p) + 1
        /\ Append(p, e)[Len(p) + 1] = e
        /\ \A k \in 1 .. Len(p) : Append(p, e)[k] = p[k]
    BY <2>1, AppendProperties
  <2> QED BY <1>2, <1>5, <2>2
<1>7. \A k \in 1 .. n - a + 1 : r[k] = q[k]
  <2>1. q[n - a + 1] = s[n]
    <3>1. n - a + 1 \in 1 .. n - a + 1 /\ a + (n - a + 1) - 1 = n  OBVIOUS
    <3> QED BY <1>3, <3>1
  <2>2. \A k \in 1 .. n - a : q[k] = p[k]
    BY <1>2, <1>3
  <2> QED BY <1>6, <2>1, <2>2
<1>8. r = q  BY <1>3, <1>6, <1>7, SeqEqual
<1> QED BY <1>2, <1>4, <1>5, <1>8 DEF p, q

LEMMA PieceStays ==
  ASSUME NEW S, NEW s \in Seq(S), NEW m \in S, NEW a \in Nat \ {0}
  PROVE  SubSeq(Append(s, m), a, Len(s)) = SubSeq(s, a, Len(s))
<1> DEFINE n == Len(s)
<1>1. PICK r : r = Append(s, m)  OBVIOUS
<1>2. /\ n \in Nat /\ r \in Seq(S) /\ Len(r) = n + 1
      /\ \A k \in 1 .. n : r[k] = s[k] /\ s[k] \in S
  BY <1>1, LenProperties, ElementOfSeq, AppendProperties
<1> HIDE DEF n
<1>3. PICK l : l = IF a <= n THEN n - a + 1 ELSE 0  OBVIOUS
<1>4. /\ SubSeq(s, a, n) \in Seq(S) /\ Len(SubSeq(s, a, n)) = l
      /\ \A k \in 1 .. n - a + 1 : SubSeq(s, a, n)[k] = s[a + k - 1]
  BY <1>2, <1>3, SubSeqProperties
<1>5. /\ SubSeq(r, a, n) \in Seq(S) /\ Len(SubSeq(r, a, n)) = l
      /\ \A k \in 1 .. n - a + 1 : SubSeq(r, a, n)[k] = r[a + k - 1]
  <2>1. \A k \in a .. n : r[k] \in S  BY <1>2
  <2> QED BY <1>2, <1>3, <2>1, SubSeqProperties
<1>6. \A k \in 1 .. l : k \in 1 .. n - a + 1 /\ a + k - 1 \in 1 .. n
  BY <1>2, <1>3
<1>7. \A k \in 1 .. l : SubSeq(r, a, n)[k] = SubSeq(s, a, n)[k]
  BY <1>2, <1>4, <1>5, <1>6
<1> QED BY <1>1, <1>4, <1>5, <1>7, SeqEqual DEF n

LEMMA PieceEmpty ==
  ASSUME NEW S, NEW s \in Seq(S)
  PROVE  SubSeq(s, Len(s) + 1, Len(s)) = <<>>
BY LenProperties, SubSeqEmpty

(* What holds of a conversation besides: who is connected has come before  *)
(* what is said, the message under way is the sender's, and who is not     *)
(* connected has been sent nothing.                                        *)
Said == [from : Clients, data : Seq(Data)]

ChatInv ==
  /\ LoopInv
  /\ said \in Seq(Said)
  /\ sender \in Clients \cup {Listener}
  /\ j \in Nat
  /\ joined \in [Clients -> Nat]
  /\ got \in [Clients -> Seq(Said)]
  /\ \A c \in Open : joined[c] <= Len(said)
  /\ sender # Listener =>
       /\ Len(said) # 0 /\ said[Len(said)].from = sender
       /\ \A c \in Open : joined[c] < Len(said)
  /\ \A c \in Clients \ Open : got[c] = <<>>
  /\ EveryoneHearsTheOthers

LEMMA ChatStarts == ChatInit => ChatInv
<1> SUFFICES ASSUME ChatInit PROVE ChatInv  OBVIOUS
<1>1. LoopInv  BY LoopStarts DEF ChatInit
<1>2. Open = {}  BY DEF ChatInit, Init, Open, Listed
<1>3. said \in Seq(Said) /\ got \in [Clients -> Seq(Said)]
  BY DEF ChatInit
<1> QED BY <1>1, <1>2, <1>3 DEF ChatInit, ChatInv, EveryoneHearsTheOthers

LEMMA OpenAreClients ==
  ASSUME LoopInv, NEW c \in Open
  PROVE  c \in Clients /\ c # Listener
<1>1. c \in Listed /\ c # Listener  BY DEF Open
<1>2. PICK k \in DOMAIN pfds : c = pfds[k].fd  BY <1>1 DEF Listed
<1>3. pfds \in Seq(Entry)  BY DEF LoopInv, TypeOK
<1>4. pfds[k] \in Entry  BY <1>3
<1> QED BY <1>1, <1>2, <1>4 DEF Entry

(* A step that leaves the table's descriptors and the conversation alone.  *)
LEMMA QuietKeepsChat ==
  ASSUME ChatInv, LoopInv',
         Len(pfds') = Len(pfds), DOMAIN pfds' = DOMAIN pfds,
         \A k \in DOMAIN pfds : pfds'[k].fd = pfds[k].fd,
         hung \subseteq hung',
         UNCHANGED <<sender, j, said, joined, got>>
  PROVE  ChatInv'
<1>1. Open' = Open  BY DEF Open, Listed
<1>2. DOMAIN pfds = 1 .. Len(pfds) /\ Len(pfds) \in Nat /\ j \in Nat
  BY DEF ChatInv, LoopInv, TypeOK
<1>3. ASSUME NEW c \in Open PROVE Told(c)' = Told(c)
  BY <1>2 DEF Told
<1>4. ASSUME NEW c \in Open' \ hung' PROVE got'[c] = Expected(c)'
  <2>1. c \in Open \ hung  BY <1>1, <1>4
  <2>2. got[c] = Expected(c)  BY <2>1 DEF ChatInv, EveryoneHearsTheOthers
  <2>3. Told(c)' = Told(c)  BY <1>3, <2>1
  <2> QED BY <2>2, <2>3 DEF Expected
<1>5. EveryoneHearsTheOthers'  BY <1>4 DEF EveryoneHearsTheOthers
<1> QED BY <1>1, <1>5 DEF ChatInv

LEMMA AcceptKeepsChat ==
  ASSUME ChatInv, LoopInv', ChatAccept
  PROVE  ChatInv'
<1> DEFINE n == Head(backlog)
<1>1. /\ sender = Listener /\ Accept
      /\ joined' = [joined EXCEPT ![n] = Len(said)]
      /\ UNCHANGED <<sender, j, said, got, hung>>
  BY DEF ChatAccept, Scanning, sendVars, Accept
<1>2. /\ TypeOK /\ EntriesAreRight /\ backlog # <<>> /\ backlog' = Tail(backlog)
      /\ add_to_pfds(n)
  BY <1>1 DEF ChatInv, LoopInv, Accept
<1>3. n \in Clients  BY <1>2, Dequeuing
<1>4. Listed' = Listed \cup {n}  BY <1>2, <1>3, Appending
<1>5. Open' = Open \cup {n} /\ n \notin Open
  <2>1. n = backlog[1] /\ 1 \in DOMAIN backlog  BY <1>2 DEF TypeOK
  <2>2. n \in Queued /\ n \notin Listed
    BY <1>2, <2>1 DEF Queued, EntriesAreRight
  <2> QED BY <1>3, <1>4, <2>2, ListenerAssumption DEF Open
<1>6. Len(said) \in Nat  BY LenProperties DEF ChatInv
<1>7. /\ joined' \in [Clients -> Nat] /\ joined'[n] = Len(said)
      /\ \A c \in Clients : c # n => joined'[c] = joined[c]
  BY <1>1, <1>3, <1>6 DEF ChatInv
<1>8. ASSUME NEW c PROVE Told(c)' = Len(said) /\ Told(c) = Len(said)
  BY <1>1 DEF Told
<1>9. ASSUME NEW c \in Open' \ hung' PROVE got'[c] = Expected(c)'
  <2>1. CASE c = n
    <3>1. got'[n] = <<>>  BY <1>1, <1>3, <1>5 DEF ChatInv
    <3>2. Expected(c)' = ByOthers(c, SubSeq(said, Len(said) + 1, Len(said)))
      BY <1>1, <1>7, <1>8, <2>1 DEF Expected
    <3>3. SubSeq(said, Len(said) + 1, Len(said)) = <<>>
      BY PieceEmpty DEF ChatInv
    <3> QED BY <2>1, <3>1, <3>2, <3>3, OthersOfNothing
  <2>2. CASE c # n
    <3>1. c \in Open \ hung  BY <1>1, <1>5, <1>9, <2>2
    <3>2. c \in Clients  BY <3>1, OpenAreClients DEF ChatInv
    <3>3. got[c] = Expected(c)  BY <3>1 DEF ChatInv, EveryoneHearsTheOthers
    <3>4. joined'[c] = joined[c] /\ said' = said /\ Told(c)' = Told(c)
      BY <1>1, <1>7, <1>8, <2>2, <3>2
    <3>5. Expected(c)' = Expected(c)  BY <3>4 DEF Expected
    <3> QED BY <1>1, <3>3, <3>5
  <2> QED BY <2>1, <2>2
<1>10. EveryoneHearsTheOthers'  BY <1>9 DEF EveryoneHearsTheOthers
<1>11. \A c \in Open' : joined'[c] <= Len(said')
  <2> SUFFICES ASSUME NEW c \in Open' PROVE joined'[c] <= Len(said)
    BY <1>1
  <2>1. CASE c = n  BY <1>6, <1>7, <2>1
  <2>2. CASE c # n
    <3>1. c \in Open /\ c \in Clients
      BY <1>5, <2>2, OpenAreClients DEF ChatInv
    <3> QED BY <1>7, <2>2, <3>1 DEF ChatInv
  <2> QED BY <2>1, <2>2
<1> QED BY <1>1, <1>5, <1>7, <1>10, <1>11 DEF ChatInv

LEMMA DropKeepsChat ==
  ASSUME ChatInv, LoopInv', NEW d \in Clients, ChatDrop(d)
  PROVE  ChatInv'
<1>1. /\ sender = Listener /\ Drop(d)
      /\ got' = [got EXCEPT ![d] = <<>>]
      /\ joined' = [joined EXCEPT ![d] = 0]
      /\ UNCHANGED <<sender, j, said>>
      /\ hung' = hung \ {d}
  BY DEF ChatDrop, Scanning, Drop
<1>2. Open' = Open \ {d}
  BY <1>1, DroppingTakesOut, ListenerAssumption DEF ChatInv, LoopInv, Open
<1>3. /\ joined' \in [Clients -> Nat] /\ got' \in [Clients -> Seq(Said)]
      /\ got'[d] = <<>>
      /\ \A c \in Clients : c # d => joined'[c] = joined[c] /\ got'[c] = got[c]
  <2>1. <<>> \in Seq(Said)  OBVIOUS
  <2> QED BY <1>1, <2>1 DEF ChatInv
<1>4. ASSUME NEW c PROVE Told(c)' = Told(c)
  BY <1>1 DEF Told
<1>5. ASSUME NEW c \in Open' \ hung' PROVE got'[c] = Expected(c)'
  <2>1. c \in Open \ hung /\ c # d  BY <1>1, <1>2, <1>5
  <2>2. c \in Clients  BY <2>1, OpenAreClients DEF ChatInv
  <2>3. got[c] = Expected(c)  BY <2>1 DEF ChatInv, EveryoneHearsTheOthers
  <2>4. joined'[c] = joined[c] /\ got'[c] = got[c] /\ Told(c)' = Told(c)
    BY <1>3, <1>4, <2>1, <2>2
  <2>5. Expected(c)' = Expected(c)  BY <1>1, <2>4 DEF Expected
  <2> QED BY <2>3, <2>4, <2>5
<1>6. EveryoneHearsTheOthers'  BY <1>5 DEF EveryoneHearsTheOthers
<1>7. \A c \in Open' : joined'[c] <= Len(said')
  <2> SUFFICES ASSUME NEW c \in Open' PROVE joined'[c] <= Len(said)
    BY <1>1
  <2>1. c \in Open /\ c # d /\ c \in Clients
    BY <1>2, OpenAreClients DEF ChatInv
  <2> QED BY <1>3, <2>1 DEF ChatInv
<1>8. \A c \in Clients \ Open' : got'[c] = <<>>
  BY <1>2, <1>3 DEF ChatInv
<1> QED BY <1>1, <1>3, <1>6, <1>7, <1>8 DEF ChatInv

LEMMA ServeKeepsChat ==
  ASSUME ChatInv, LoopInv', NEW d \in Clients, ChatServe(d)
  PROVE  ChatInv'
<1> DEFINE m == [from |-> d, data |-> inbox[d]]
<1>1. /\ sender = Listener /\ sender' = d /\ j' = 0
      /\ said' = Append(said, m)
      /\ UNCHANGED <<pfds, hung, joined, got>>
  BY DEF ChatServe, Scanning, Serve
<1>2. m \in Said  BY DEF ChatInv, LoopInv, TypeOK, Said
<1> HIDE DEF m
<1>3. /\ said \in Seq(Said) /\ Len(said) \in Nat
      /\ said' \in Seq(Said) /\ Len(said') = Len(said) + 1
      /\ said'[Len(said')] = m
  <2>1. said \in Seq(Said)  BY DEF ChatInv
  <2>2. said' \in Seq(Said) /\ Len(said') = Len(said) + 1
        /\ said'[Len(said) + 1] = m
    BY <1>1, <1>2, <2>1, AppendProperties
  <2> QED BY <2>1, <2>2, LenProperties
<1>4. m.from = d /\ d # Listener  BY ListenerAssumption DEF m
<1>5. Open' = Open  BY <1>1 DEF Open, Listed
<1>6. ASSUME NEW c PROVE Told(c) = Len(said) /\ Told(c)' = Len(said)
  <2>1. Told(c) = Len(said)  BY <1>1 DEF Told
  <2>2. Told(c)' = Len(said') - 1  BY <1>1, <1>4 DEF Told
  <2> QED BY <1>3, <2>1, <2>2
<1>7. ASSUME NEW c \in Open \ hung PROVE got'[c] = Expected(c)'
  <2>1. c \in Clients  BY OpenAreClients DEF ChatInv
  <2>2. joined[c] + 1 \in Nat \ {0}  BY <2>1 DEF ChatInv
  <2>3. SubSeq(Append(said, m), joined[c] + 1, Len(said))
          = SubSeq(said, joined[c] + 1, Len(said))
    BY <1>2, <1>3, <2>2, PieceStays
  <2>4. Expected(c)' = ByOthers(c, SubSeq(Append(said, m), joined[c] + 1, Len(said)))
    BY <1>1, <1>6 DEF Expected
  <2>5. Expected(c) = ByOthers(c, SubSeq(said, joined[c] + 1, Len(said)))
    BY <1>6 DEF Expected
  <2>6. got[c] = Expected(c)  BY DEF ChatInv, EveryoneHearsTheOthers
  <2> QED BY <1>1, <2>3, <2>4, <2>5, <2>6
<1>8. EveryoneHearsTheOthers'
  BY <1>1, <1>5, <1>7 DEF EveryoneHearsTheOthers
<1>9. \A c \in Open : joined[c] <= Len(said) /\ joined[c] \in Nat
  BY OpenAreClients DEF ChatInv
<1>10. \A c \in Open' : joined'[c] <= Len(said') /\ joined'[c] < Len(said')
  BY <1>1, <1>3, <1>5, <1>9
<1>11. Len(said') # 0 /\ said'[Len(said')].from = sender'
  BY <1>1, <1>3, <1>4
<1>12. \A c \in Clients \ Open' : got'[c] = <<>>
  BY <1>1, <1>5 DEF ChatInv
<1>13. j' \in Nat /\ sender' \in Clients  BY <1>1
<1> QED BY <1>1, <1>3, <1>8, <1>10, <1>11, <1>12, <1>13 DEF ChatInv

(* The message under way is new to the client the send loop comes to, and  *)
(* nobody else's message count changes.                                    *)
LEMMA Advancing ==
  ASSUME ChatInv, NEW fd, SendsTo(fd), Advance, NEW c
  PROVE  /\ c # fd => Told(c)' = Told(c)
         /\ c = fd => Told(c) = Len(said) - 1 /\ Told(c)' = Len(said)
<1>1. /\ j \in Nat /\ j < Len(pfds) /\ Len(pfds) \in Nat
      /\ pfds[j + 1].fd = fd /\ sender # Listener
      /\ j' = j + 1 /\ UNCHANGED <<pfds, sender, said>>
  BY DEF ChatInv, LoopInv, TypeOK, SendsTo, Advance, loopVars
<1>2. \A k \in 1 .. j + 1 : k \in 1 .. j \/ k = j + 1  BY <1>1
<1>3. \A k \in 1 .. j : k \in 1 .. j + 1  BY <1>1
<1>4. j + 1 \in 1 .. j + 1 /\ j + 1 <= Len(pfds)  BY <1>1
<1>5. ASSUME c # fd PROVE Told(c)' = Told(c)
  <2>1. (\E k \in 1 .. j' : k <= Len(pfds) /\ pfds[k].fd = c)
          <=> \E k \in 1 .. j : k <= Len(pfds) /\ pfds[k].fd = c
    BY <1>1, <1>2, <1>3, <1>5
  <2> QED BY <1>1, <2>1 DEF Told
<1>6. ASSUME c = fd PROVE Told(c) = Len(said) - 1 /\ Told(c)' = Len(said)
  <2>1. ASSUME NEW k \in 1 .. j, k <= Len(pfds), pfds[k].fd = c PROVE FALSE
    <3>1. k \in DOMAIN pfds /\ j + 1 \in DOMAIN pfds
      BY <1>1, <2>1 DEF ChatInv, LoopInv, TypeOK
    <3>2. k = j + 1
      BY <1>1, <1>6, <2>1, <3>1 DEF ChatInv, LoopInv, EntriesAreRight
    <3> QED BY <1>1, <3>2
  <2>2. Told(c) = Len(said) - 1  BY <1>1, <2>1 DEF Told
  <2>3. \E k \in 1 .. j' : k <= Len(pfds') /\ pfds'[k].fd = c
    BY <1>1, <1>4, <1>6
  <2>4. Told(c)' = Len(said')  BY <2>3 DEF Told
  <2> QED BY <1>1, <2>2, <2>4
<1> QED BY <1>5, <1>6

LEMMA OneMoreForAClient ==
  ASSUME ChatInv, sender # Listener, NEW c \in Open
  PROVE  ByOthers(c, SubSeq(said, joined[c] + 1, Len(said)))
           = IF c = sender
               THEN ByOthers(c, SubSeq(said, joined[c] + 1, Len(said) - 1))
               ELSE Append(ByOthers(c, SubSeq(said, joined[c] + 1, Len(said) - 1)),
                           said[Len(said)])
<1>1. /\ said \in Seq(Said) /\ Len(said) # 0 /\ said[Len(said)].from = sender
      /\ joined[c] < Len(said)
  BY DEF ChatInv
<1>2. joined[c] \in Nat  BY OpenAreClients DEF ChatInv
<1>3. Len(said) \in Nat  BY <1>1, LenProperties
<1>4. /\ joined[c] + 1 \in Nat \ {0} /\ Len(said) \in 1 .. Len(said)
      /\ joined[c] + 1 <= Len(said)
  BY <1>1, <1>2, <1>3
<1>5. PICK p : p = SubSeq(said, joined[c] + 1, Len(said) - 1)  OBVIOUS
<1>6. PICK m : m = said[Len(said)]  OBVIOUS
<1>7. /\ SubSeq(said, joined[c] + 1, Len(said)) = Append(p, m)
      /\ p \in Seq(Said) /\ m \in Said
  BY <1>1, <1>4, <1>5, <1>6, PieceGrows
<1>8. ByOthers(c, Append(p, m))
        = IF m.from = c THEN ByOthers(c, p) ELSE Append(ByOthers(c, p), m)
  BY <1>7, OthersOneMore
<1> QED BY <1>1, <1>5, <1>6, <1>7, <1>8

(* The send loop comes to an entry that is sent nothing: the listener's,   *)
(* the sender's own or one of a client that has left.                      *)
LEMMA SilentKeepsChat ==
  ASSUME ChatInv, LoopInv', NEW fd, SendsTo(fd), Advance, UNCHANGED got,
         fd = Listener \/ fd = sender \/ fd \in hung
  PROVE  ChatInv'
<1>1. /\ j \in Nat /\ j' = j + 1 /\ sender # Listener
      /\ UNCHANGED <<pfds, hung, sender, said, joined, got>>
  BY DEF ChatInv, SendsTo, Advance, loopVars
<1>2. Open' = Open  BY <1>1 DEF Open, Listed
<1>3. ASSUME NEW c \in Open \ hung PROVE got'[c] = Expected(c)'
  <2>1. got[c] = Expected(c)  BY DEF ChatInv, EveryoneHearsTheOthers
  <2>2. CASE c # fd
    <3>1. Told(c)' = Told(c)  BY <2>2, Advancing
    <3> QED BY <1>1, <2>1, <3>1 DEF Expected
  <2>3. CASE c = fd
    <3>1. c = sender  BY <2>3, OpenAreClients DEF ChatInv
    <3>2. Told(c) = Len(said) - 1 /\ Told(c)' = Len(said)
      BY <2>3, Advancing
    <3>3. Expected(c) = ByOthers(c, SubSeq(said, joined[c] + 1, Len(said) - 1))
      BY <3>2 DEF Expected
    <3>4. Expected(c)' = ByOthers(c, SubSeq(said, joined[c] + 1, Len(said)))
      BY <1>1, <3>2 DEF Expected
    <3> QED BY <1>1, <2>1, <3>1, <3>3, <3>4, OneMoreForAClient
  <2> QED BY <2>2, <2>3
<1>4. EveryoneHearsTheOthers'
  BY <1>1, <1>2, <1>3 DEF EveryoneHearsTheOthers
<1>5. j' \in Nat  BY <1>1
<1> QED BY <1>1, <1>2, <1>4, <1>5 DEF ChatInv

LEMMA SendToKeepsChat ==
  ASSUME ChatInv, LoopInv', NEW d \in Clients, SendTo(d)
  PROVE  ChatInv'
<1>1. /\ j \in Nat /\ j' = j + 1 /\ sender # Listener /\ d # sender
      /\ SendsTo(d) /\ Advance
      /\ UNCHANGED <<pfds, hung, sender, said, joined>>
      /\ got' = [got EXCEPT ![d] = Append(@, said[Len(said)])]
  BY DEF ChatInv, SendTo, SendsTo, Advance, loopVars, Last
<1>2. Open' = Open  BY <1>1 DEF Open, Listed
<1>3. d \in Open
  <2>1. j + 1 \in DOMAIN pfds /\ pfds[j + 1].fd = d
    BY <1>1 DEF ChatInv, LoopInv, TypeOK, SendsTo
  <2> QED BY <2>1, ListenerAssumption DEF Open, Listed
<1>4. said[Len(said)] \in Said
  <2>1. said \in Seq(Said) /\ Len(said) # 0  BY <1>1 DEF ChatInv
  <2>2. Len(said) \in 1 .. Len(said)  BY <2>1, LenProperties
  <2> QED BY <2>1, <2>2, ElementOfSeq
<1>5. /\ got' \in [Clients -> Seq(Said)]
      /\ got'[d] = Append(got[d], said[Len(said)])
      /\ \A c \in Clients : c # d => got'[c] = got[c]
  <2>1. got \in [Clients -> Seq(Said)]  BY DEF ChatInv
  <2>2. Append(got[d], said[Len(said)]) \in Seq(Said)
    BY <1>4, <2>1, AppendProperties
  <2> QED BY <1>1, <2>1, <2>2
<1>6. ASSUME NEW c \in Open \ hung PROVE got'[c] = Expected(c)'
  <2>1. got[c] = Expected(c)  BY DEF ChatInv, EveryoneHearsTheOthers
  <2>2. CASE c # d
    <3>1. Told(c)' = Told(c)  BY <1>1, <2>2, Advancing
    <3>2. got'[c] = got[c]  BY <1>5, <2>2, OpenAreClients DEF ChatInv
    <3> QED BY <1>1, <2>1, <3>1, <3>2 DEF Expected
  <2>3. CASE c = d
    <3>1. Told(c) = Len(said) - 1 /\ Told(c)' = Len(said)
      BY <1>1, <2>3, Advancing
    <3>2. Expected(c) = ByOthers(c, SubSeq(said, joined[c] + 1, Len(said) - 1))
      BY <3>1 DEF Expected
    <3>3. Expected(c)' = ByOthers(c, SubSeq(said, joined[c] + 1, Len(said)))
      BY <1>1, <3>1 DEF Expected
    <3> QED BY <1>1, <1>5, <2>1, <2>3, <3>2, <3>3, OneMoreForAClient
  <2> QED BY <2>2, <2>3
<1>7. EveryoneHearsTheOthers'
  BY <1>1, <1>2, <1>6 DEF EveryoneHearsTheOthers
<1>8. \A c \in Clients \ Open' : got'[c] = <<>>
  BY <1>2, <1>3, <1>5 DEF ChatInv
<1>9. j' \in Nat  BY <1>1
<1> QED BY <1>1, <1>2, <1>5, <1>7, <1>8, <1>9 DEF ChatInv

(* At the end of the send loop everyone in the table has had a turn.       *)
LEMMA DoneKeepsChat ==
  ASSUME ChatInv, LoopInv', SendDone
  PROVE  ChatInv'
<1>1. /\ sender # Listener /\ sender' = Listener /\ j = Len(pfds)
      /\ UNCHANGED <<pfds, hung, j, said, joined, got>>
  BY DEF SendDone, loopVars, pastVars
<1>2. Open' = Open  BY <1>1 DEF Open, Listed
<1>3. ASSUME NEW c \in Open \ hung PROVE got'[c] = Expected(c)'
  <2>1. got[c] = Expected(c)  BY DEF ChatInv, EveryoneHearsTheOthers
  <2>2. PICK k \in DOMAIN pfds : pfds[k].fd = c  BY DEF Open, Listed
  <2>3. k \in 1 .. j /\ k <= Len(pfds)
    BY <1>1 DEF ChatInv, LoopInv, TypeOK
  <2>4. Told(c) = Len(said)  BY <2>2, <2>3 DEF Told
  <2>5. Told(c)' = Len(said)  BY <1>1 DEF Told
  <2> QED BY <1>1, <2>1, <2>4, <2>5 DEF Expected
<1>4. EveryoneHearsTheOthers'
  BY <1>1, <1>2, <1>3 DEF EveryoneHearsTheOthers
<1> QED BY <1>1, <1>2, <1>4 DEF ChatInv

(* Around what the send loop does, the chat server is the poll loop.       *)
LEMMA ChatStepIsLoopStep == [ChatNext]_vars => [Next]_loopVars
<1>1. ASSUME ChatPoll PROVE Next
  BY <1>1 DEF ChatPoll, Next, LoopStep
<1>2. ASSUME ChatAccept PROVE Next
  BY <1>2 DEF ChatAccept, Next, LoopStep
<1>3. ASSUME NEW c \in Clients, ChatDrop(c) PROVE Next
  BY <1>3 DEF ChatDrop, Next, LoopStep
<1>4. ASSUME NEW c \in Clients, ChatServe(c) PROVE Next
  BY <1>4 DEF ChatServe, Next
<1>5. ASSUME NEW c \in Clients, ChatClient(c) PROVE Next
  BY <1>5 DEF ChatClient, Next
<1>6. ASSUME NEW c \in Clients, ChatRead(c) PROVE UNCHANGED loopVars
  BY <1>6 DEF ChatRead
<1>7. ASSUME SendLoop PROVE UNCHANGED loopVars
  BY <1>7 DEF SendLoop, Excepted, SendDone, SendTo, SendIsReset, SigPipe, Advance
<1>8. ASSUME UNCHANGED vars PROVE UNCHANGED loopVars  BY <1>8 DEF vars
<1> QED BY <1>1, <1>2, <1>3, <1>4, <1>5, <1>6, <1>7, <1>8 DEF ChatNext, ServerStep

LEMMA ChatNextKeeps ==
  ASSUME ChatInv, [ChatNext]_vars
  PROVE  ChatInv'
<1>1. LoopInv'  BY ChatStepIsLoopStep, NextKeeps DEF ChatInv
<1>2. DOMAIN pfds = 1 .. Len(pfds)  BY DEF ChatInv, LoopInv, TypeOK
<1>3. ASSUME UNCHANGED <<pfds, sender, j, said, joined, got>>,
             hung \subseteq hung'
      PROVE  ChatInv'
  BY <1>1, <1>3, QuietKeepsChat
<1>4. CASE ChatPoll
  <2>1. UNCHANGED <<sender, j, said, joined, got>>
    BY <1>4 DEF ChatPoll, chatVars, sendVars, pastVars
  <2>2. CASE PollReturns
    <3>1. /\ pfds' = [k \in DOMAIN pfds |->
                        [fd |-> pfds[k].fd, revents |-> Ready(pfds[k].fd)]]
          /\ hung' = hung
      BY <2>2 DEF PollReturns, kernelVars
    <3>2. DOMAIN pfds' = DOMAIN pfds /\ \A k \in DOMAIN pfds : pfds'[k].fd = pfds[k].fd
      BY <3>1
    <3>3. DOMAIN pfds' = 1 .. Len(pfds') /\ Len(pfds') \in Nat /\ Len(pfds) \in Nat
      BY <1>1 DEF ChatInv, LoopInv, TypeOK
    <3>4. Len(pfds') = Len(pfds)  BY <1>2, <3>2, <3>3
    <3> QED BY <1>1, <2>1, <3>1, <3>2, <3>4, QuietKeepsChat
  <2>3. CASE Pass
    BY <1>3, <2>1, <2>3 DEF Pass, kernelVars
  <2>4. CASE AcceptFails
    BY <1>3, <2>1, <2>4 DEF AcceptFails, kernelVars
  <2> QED BY <1>4, <2>2, <2>3, <2>4 DEF ChatPoll
<1>5. CASE ChatAccept  BY <1>1, <1>5, AcceptKeepsChat
<1>6. CASE SendLoop
  <2>1. CASE Excepted
    <3>1. Advance /\ UNCHANGED got /\ (SendsTo(Listener) \/ SendsTo(sender))
      BY <2>1 DEF Excepted
    <3> QED BY <1>1, <3>1, SilentKeepsChat
  <2>2. CASE SendDone  BY <1>1, <2>2, DoneKeepsChat
  <2>3. ASSUME NEW c \in Clients, SendTo(c) PROVE ChatInv'
    BY <1>1, <2>3, SendToKeepsChat
  <2>4. ASSUME NEW c \in Clients, SendIsReset(c) PROVE ChatInv'
    <3>1. Advance /\ UNCHANGED got /\ SendsTo(c) /\ c \in hung
      BY <2>4 DEF SendIsReset
    <3> QED BY <1>1, <3>1, SilentKeepsChat
  <2>5. ASSUME NEW c \in Clients, SigPipe(c) PROVE ChatInv'
    BY <1>3, <2>5 DEF SigPipe, loopVars, pastVars
  <2> QED BY <1>6, <2>1, <2>2, <2>3, <2>4, <2>5 DEF SendLoop
<1>7. ASSUME NEW c \in Clients, ChatServe(c) PROVE ChatInv'
  BY <1>1, <1>7, ServeKeepsChat
<1>8. ASSUME NEW c \in Clients, ChatDrop(c) PROVE ChatInv'
  BY <1>1, <1>8, DropKeepsChat
<1>9. ASSUME NEW c \in Clients, ChatRead(c) PROVE ChatInv'
  BY <1>3, <1>9 DEF ChatRead, loopVars, pastVars
<1>10. ASSUME NEW c \in Clients, ChatClient(c) PROVE ChatInv'
  <2>1. UNCHANGED <<sender, j, said, joined, got>> /\ ClientStep(c)
    BY <1>10 DEF ChatClient, chatVars, sendVars, pastVars
  <2>2. UNCHANGED pfds /\ hung \subseteq hung'
    BY <2>1 DEF ClientStep, Connect, Close, Write, tableVars
  <2> QED BY <1>3, <2>1, <2>2
<1>11. CASE UNCHANGED vars
  BY <1>3, <1>11 DEF vars, loopVars, chatVars, sendVars, pastVars
<1> QED BY <1>4, <1>5, <1>6, <1>7, <1>8, <1>9, <1>10, <1>11
        DEF ChatNext, ServerStep

(* Everyone who is connected is sent all that the others have said since,  *)
(* once and in the order in which the server has read it, however people   *)
(* come and leave between (the send loop of testPollServer.cpp).           *)
THEOREM EveryoneIsTold == ChatSpec => []EveryoneHearsTheOthers
<1>1. ChatInv => EveryoneHearsTheOthers  BY DEF ChatInv
<1> QED BY ChatStarts, ChatNextKeeps, <1>1, PTL DEF ChatSpec
=============================================================================
