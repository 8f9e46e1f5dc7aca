----------------------------- MODULE PartsProofs -----------------------------
(***************************************************************************)
(* Proofs about the parts that work by themselves: how the programs come   *)
(* by their sockets (OpenSocket), the readers of the tables (TableText),   *)
(* the echo server (EchoServer), the practice programs for datagrams       *)
(* (Talkers), the encryption of passwords (Caesar) and the files that the  *)
(* servers read when they start (StartUp).                                 *)
(***************************************************************************)
EXTENDS OpenSocket, TableText, EchoServer, Talkers, Caesar, StartUp,
        FiniteSetTheorems, SequenceTheorems, WellFoundedInduction, TLAPS

(* A set of natural numbers has a least element.                            *)
LEMMA LeastExists ==
  ASSUME NEW S \in SUBSET Nat, S # {}
  PROVE  \E x \in S : \A y \in S : x =< y
  <1> DEFINE R == {ss \in Nat \X Nat : ss[1] < ss[2]}
  <1>1. IsWellFoundedOn(R, Nat)
    BY NatLessThanWellFounded DEF OpToRel
  <1> HIDE DEF R
  <1>2. PICK x \in S : \A y \in S : ~ (<<y, x>> \in R)
    BY <1>1, WFMin
  <1>3. ASSUME NEW y \in S PROVE x =< y
    <2>1. x \in Nat /\ y \in Nat
      OBVIOUS
    <2>2. y < x => <<y, x>> \in R
      BY <2>1 DEF R
    <2>3. QED
      BY <1>2, <2>1, <2>2
  <1>4. QED
    BY <1>3

(***************************************************************************)
(* OpenSocket, for any number of addresses and descriptors: what the loop  *)
(* over the addresses leaves open, function by function.                   *)
(***************************************************************************)
(* Functions that have returned: one descriptor, ready for use, or none     *)
(* where every address failed and nobody looked.                            *)
Delivered(k) ==
  \/ Opened(k) = {results[k]} /\ fds[results[k]].ready
  \/ Opened(k) = {} /\ program[k].none = "ignore"

(* The function in hand has a descriptor from socket to close, and no more. *)
InHand ==
  /\ pc \in {"resolve", "socket"} => Opened(This) = {}
  /\ pc \in {"reuse", "attach", "listen"} => Opened(This) = {sockfd}
  /\ pc = "listen" => fds[sockfd].ready

LoopTypeOK ==
  /\ pc \in {"resolve", "socket", "reuse", "attach", "listen", "runs", "ended"}
  /\ results \in Seq(Int)
  /\ Len(program) \in Nat \ {0} /\ DOMAIN program = 1 .. Len(program)
  /\ pc \notin {"runs", "ended"} => Len(results) < Len(program)
  /\ pc = "runs" => Len(results) = Len(program)
  /\ addrs \in Nat /\ p \in Nat \ {0} /\ sockfd \in Int

Descriptors ==
  /\ OpenFds \subseteq 0 .. MaxFd
  /\ fds = [fd \in OpenFds |-> fds[fd]]
  /\ \A fd \in OpenFds : /\ fds[fd] = [by |-> fds[fd].by, ready |-> fds[fd].ready]
                         /\ fds[fd].by \in 0 .. This

SocketInv ==
  /\ LoopTypeOK
  /\ Descriptors
  /\ \A k \in DOMAIN results : Delivered(k)
  /\ InHand

LEMMA ProgramsAreSequences ==
  ASSUME NEW f \in Programs
  PROVE  DOMAIN f = 1 .. Len(f) /\ Len(f) \in Nat \ {0}
  BY DEF Programs, MainM, MainA, MainP, MainQ, MainClient, testPollServer, MainServerExp,
         TestServer, TestClient, udp_listener, udp_talker, UDPtalkerTest

LEMMA SocketStarts == SocketInit => SocketInv
<1> SUFFICES ASSUME SocketInit PROVE SocketInv  OBVIOUS
<1>1. program \in Programs /\ pc = "resolve" /\ addrs = 0 /\ p = 1 /\ sockfd = -1
      /\ fds = [fd \in 0 .. 2 |-> Std] /\ results = <<>>
  BY DEF SocketInit
<1>2. This = 1 /\ results \in Seq(Int) /\ Len(results) = 0 /\ DOMAIN results = {}
  BY <1>1 DEF This
<1>3. OpenFds = 0 .. 2 /\ OpenFds \subseteq 0 .. MaxFd
  BY <1>1, FdAssumption DEF OpenFds
<1>4. \A fd \in OpenFds : fds[fd] = [by |-> 0, ready |-> TRUE]
  BY <1>1, <1>3 DEF Std
<1>5. Opened(This) = {}
  BY <1>2, <1>4 DEF Opened
<1>6. QED
  BY <1>1, <1>2, <1>3, <1>4, <1>5, ProgramsAreSequences
  DEF SocketInv, LoopTypeOK, Descriptors, InHand

(* A step that opens and closes nothing.                                    *)
LEMMA NothingOpened ==
  ASSUME SocketInv, UNCHANGED <<program, fds, results>>,
         addrs' \in Nat, p' \in Nat \ {0}, sockfd' \in Int,
         \/ pc' = "ended"
         \/ pc' = "socket" /\ pc \in {"resolve", "socket"}
         \/ pc' = "attach" /\ pc = "reuse" /\ UNCHANGED sockfd
  PROVE  SocketInv'
  BY DEF SocketInv, LoopTypeOK, Descriptors, InHand, Delivered, Opened, OpenFds, This

LEMMA SocketKeeps ==
  ASSUME SocketInv, Socket
  PROVE  SocketInv'
<1> DEFINE free == (0 .. MaxFd) \ OpenFds
<1>1. PICK new \in free :
        /\ sockfd' = new
        /\ fds' = [fd \in OpenFds \cup {new} |->
                     IF fd \in OpenFds THEN fds[fd] ELSE [by |-> This, ready |-> FALSE]]
  <2>1. free # {} /\ free \subseteq Nat  BY FdAssumption DEF Socket
  <2>2. Min(free) \in free
    <3>1. PICK x \in free : \A y \in free : x <= y
      BY <2>1, LeastExists
    <3>2. QED  BY <3>1 DEF Min
  <2>3. QED  BY <2>2 DEF Socket
<1>2. /\ pc = "socket" /\ pc' \in {"attach", "reuse"}
      /\ UNCHANGED <<program, addrs, p, results>>
  BY DEF Socket, Goto, AfterSocket
<1>3. /\ results \in Seq(Int) /\ This \in Nat /\ This' = This
      /\ DOMAIN results = 1 .. Len(results) /\ \A k \in DOMAIN results : k # This
  BY <1>2 DEF This, SocketInv, LoopTypeOK
<1>4. OpenFds' = OpenFds \cup {new} /\ new \notin OpenFds /\ new \in 0 .. MaxFd
  BY <1>1 DEF OpenFds
<1>5. /\ \A fd \in OpenFds : fds'[fd] = fds[fd]
      /\ fds'[new] = [by |-> This, ready |-> FALSE]
  BY <1>1, <1>4
<1>6. \A k \in DOMAIN results : Opened(k)' = Opened(k)
  BY <1>2, <1>3, <1>4, <1>5 DEF Opened
<1>7. Opened(This) = {} /\ Opened(This)' = {new}
  <2>1. Opened(This) = {}  BY <1>2 DEF SocketInv, InHand
  <2>2. QED  BY <1>3, <1>4, <1>5, <2>1 DEF Opened
<1>8. \A k \in DOMAIN results : Delivered(k)'
  <2> SUFFICES ASSUME NEW k \in DOMAIN results PROVE Delivered(k)'  OBVIOUS
  <2>1. Delivered(k)  BY DEF SocketInv
  <2>2. results[k] \in Opened(k) => results[k] \in OpenFds  BY DEF Opened
  <2>3. QED  BY <1>2, <1>5, <1>6, <2>1, <2>2 DEF Delivered
<1>9. InHand'
  BY <1>1, <1>2, <1>7 DEF InHand
<1>10. fds' = [fd \in OpenFds' |-> fds'[fd]]  BY <1>1, <1>4
<1>11. \A fd \in OpenFds' : /\ fds'[fd] = [by |-> fds'[fd].by, ready |-> fds'[fd].ready]
                            /\ fds'[fd].by \in 0 .. This
  BY <1>3, <1>4, <1>5 DEF SocketInv, Descriptors
<1>12. Descriptors'  BY <1>3, <1>4, <1>10, <1>11 DEF SocketInv, Descriptors
<1>13. LoopTypeOK'  BY <1>1, <1>2 DEF SocketInv, LoopTypeOK
<1>14. QED  BY <1>2, <1>8, <1>9, <1>12, <1>13 DEF SocketInv

LEMMA AttachKeeps ==
  ASSUME SocketInv, Attach
  PROVE  SocketInv'
<1>1. /\ pc = "attach" /\ pc' = "listen"
      /\ fds' = [fds EXCEPT ![sockfd].ready = TRUE]
      /\ UNCHANGED <<program, addrs, p, sockfd, results>>
  BY DEF Attach, Goto
<1>2. sockfd \in Opened(This) /\ Opened(This) = {sockfd} /\ sockfd \in OpenFds
  BY <1>1 DEF SocketInv, InHand, Opened
<1>3. OpenFds' = OpenFds  BY <1>1 DEF OpenFds, SocketInv, Descriptors
<1>4. /\ \A fd \in OpenFds \ {sockfd} : fds'[fd] = fds[fd]
      /\ fds'[sockfd] = [by |-> fds[sockfd].by, ready |-> TRUE]
  <2>1. fds[sockfd] = [by |-> fds[sockfd].by, ready |-> fds[sockfd].ready]
    BY <1>2 DEF SocketInv, Descriptors
  <2>2. fds'[sockfd] = [fds[sockfd] EXCEPT !.ready = TRUE]
    BY <1>1, <1>2 DEF OpenFds, SocketInv, Descriptors
  <2>3. \A fd \in OpenFds \ {sockfd} : fds'[fd] = fds[fd]
    BY <1>1 DEF OpenFds, SocketInv, Descriptors
  <2>4. QED  BY <2>1, <2>2, <2>3
<1>5. \A fd \in OpenFds : fds'[fd].by = fds[fd].by /\ (fds[fd].ready => fds'[fd].ready)
  BY <1>4
<1>6. \A k : Opened(k)' = Opened(k)  BY <1>3, <1>5 DEF Opened
<1>7. This' = This  BY <1>1 DEF This
<1>8. \A k \in DOMAIN results : Delivered(k)'
  <2> SUFFICES ASSUME NEW k \in DOMAIN results PROVE Delivered(k)'  OBVIOUS
  <2>1. Delivered(k)  BY DEF SocketInv
  <2>2. results[k] \in Opened(k) => results[k] \in OpenFds  BY DEF Opened
  <2>3. QED  BY <1>1, <1>5, <1>6, <2>1, <2>2 DEF Delivered
<1>9. InHand'  BY <1>1, <1>2, <1>4, <1>6, <1>7 DEF InHand
<1>10. fds' = [fd \in OpenFds' |-> fds'[fd]]  BY <1>1, <1>3 DEF OpenFds
<1>11. \A fd \in OpenFds' : /\ fds'[fd] = [by |-> fds'[fd].by, ready |-> fds'[fd].ready]
                            /\ fds'[fd].by \in 0 .. This
  <2> SUFFICES ASSUME NEW fd \in OpenFds
               PROVE  /\ fds'[fd] = [by |-> fds'[fd].by, ready |-> fds'[fd].ready]
                      /\ fds'[fd].by \in 0 .. This
    BY <1>3
  <2>1. /\ fds[fd] = [by |-> fds[fd].by, ready |-> fds[fd].ready]
        /\ fds[fd].by \in 0 .. This
    BY DEF SocketInv, Descriptors
  <2>2. CASE fd = sockfd  BY <1>4, <2>1, <2>2
  <2>3. CASE fd # sockfd  BY <1>4, <2>1, <2>3
  <2>4. QED  BY <2>2, <2>3
<1>12. Descriptors'  BY <1>3, <1>7, <1>10, <1>11 DEF SocketInv, Descriptors
<1>13. LoopTypeOK'  BY <1>1 DEF SocketInv, LoopTypeOK
<1>14. QED  BY <1>1, <1>8, <1>9, <1>12, <1>13 DEF SocketInv

LEMMA AttachFailsKeeps ==
  ASSUME SocketInv, AttachFails
  PROVE  SocketInv'
<1>1. /\ pc = "attach" /\ pc' = "socket" /\ p' = p + 1
      /\ fds' = [fd \in OpenFds \ {sockfd} |-> fds[fd]]
      /\ UNCHANGED <<program, addrs, sockfd, results>>
  BY DEF AttachFails, Goto
<1>2. Opened(This) = {sockfd} /\ sockfd \in OpenFds /\ fds[sockfd].by = This
  <2>1. Opened(This) = {sockfd}  BY <1>1 DEF SocketInv, InHand
  <2>2. QED  BY <2>1 DEF Opened
<1>3. OpenFds' = OpenFds \ {sockfd} /\ \A fd \in OpenFds' : fds'[fd] = fds[fd]
  BY <1>1 DEF OpenFds
<1>4. This' = This /\ This \in Nat /\ \A k \in DOMAIN results : k # This
  BY <1>1 DEF This, SocketInv, LoopTypeOK
<1>5. Opened(This)' = {}  BY <1>2, <1>3, <1>4 DEF Opened
<1>6. \A k \in DOMAIN results : Opened(k)' = Opened(k)
  BY <1>2, <1>3, <1>4 DEF Opened
<1>7. \A k \in DOMAIN results : Delivered(k)'
  <2> SUFFICES ASSUME NEW k \in DOMAIN results PROVE Delivered(k)'  OBVIOUS
  <2>1. Delivered(k)  BY DEF SocketInv
  <2>2. results[k] \in Opened(k)' => results[k] \in OpenFds'  BY <1>1 DEF Opened
  <2>3. QED  BY <1>1, <1>3, <1>6, <2>1, <2>2 DEF Delivered
<1>8. InHand'  BY <1>1, <1>5 DEF InHand
<1>9. Descriptors'  BY <1>1, <1>3, <1>4 DEF SocketInv, Descriptors
<1>10. LoopTypeOK'  BY <1>1 DEF SocketInv, LoopTypeOK
<1>11. QED  BY <1>1, <1>7, <1>8, <1>9, <1>10 DEF SocketInv

(* A function returns: its descriptor, ready, or, if nobody looks, whatever *)
(* its local variable holds.                                                *)
LEMMA ReturnKeeps ==
  ASSUME SocketInv, pc \in {"socket", "listen"}, Return(sockfd, fds),
         pc = "socket" => Policy.none = "ignore"
  PROVE  SocketInv'
<1>1. /\ results' = Append(results, sockfd) /\ fds' = fds
      /\ pc' = IF This < Len(program) THEN "resolve" ELSE "runs"
      /\ addrs' = 0 /\ p' = 1
      /\ UNCHANGED <<program, sockfd>>
  BY DEF Return
<1>2. /\ results \in Seq(Int) /\ sockfd \in Int /\ Len(results) < Len(program)
      /\ Len(program) \in Nat \ {0}
  BY DEF SocketInv, LoopTypeOK
<1>3. PICK n \in Nat : /\ n = This /\ This' = n + 1 /\ n = Len(results) + 1
                      /\ DOMAIN results = 1 .. n - 1
  BY <1>1, <1>2 DEF This
<1>4. /\ results' \in Seq(Int) /\ Len(results') = n /\ DOMAIN results' = 1 .. n
      /\ results'[n] = sockfd /\ \A k \in DOMAIN results : results'[k] = results[k]
  BY <1>1, <1>2, <1>3
<1>5. OpenFds' = OpenFds /\ \A k : Opened(k)' = Opened(k)
  BY <1>1 DEF OpenFds, Opened
<1>6. Opened(n + 1)' = {}
  <2>1. \A fd \in OpenFds : fds[fd].by \in 0 .. n  BY <1>3 DEF SocketInv, Descriptors
  <2>2. Opened(n + 1) = {}  BY <1>3, <2>1 DEF Opened
  <2>3. QED  BY <1>5, <2>2
<1>7. Delivered(n)'
  <2>1. CASE pc = "listen"
    <3>1. Opened(n) = {sockfd} /\ fds[sockfd].ready
      BY <1>3, <2>1 DEF SocketInv, InHand
    <3>2. QED  BY <1>1, <1>4, <1>5, <3>1 DEF Delivered
  <2>2. CASE pc = "socket"
    <3>1. Opened(n) = {} /\ program[n].none = "ignore"
      BY <1>3, <2>2 DEF SocketInv, InHand, Policy
    <3>2. QED  BY <1>1, <1>4, <1>5, <3>1 DEF Delivered
  <2>3. QED  BY <2>1, <2>2
<1>8. \A k \in DOMAIN results' : Delivered(k)'
  <2> SUFFICES ASSUME NEW k \in DOMAIN results' PROVE Delivered(k)'  OBVIOUS
  <2>1. CASE k \in DOMAIN results
    <3>1. Delivered(k)  BY <2>1 DEF SocketInv
    <3>2. QED  BY <1>1, <1>4, <1>5, <2>1, <3>1 DEF Delivered
  <2>2. CASE k = n  BY <1>7, <2>2
  <2>3. QED  BY <1>3, <1>4, <2>1, <2>2
<1>9. InHand'  BY <1>1, <1>3, <1>6 DEF InHand
<1>10. Descriptors'
  BY <1>1, <1>3, <1>5 DEF SocketInv, Descriptors
<1>11. LoopTypeOK'
  <2>1. DOMAIN program = 1 .. Len(program)  BY DEF SocketInv, LoopTypeOK
  <2>2. \/ n < Len(program) /\ pc' = "resolve"
        \/ n = Len(program) /\ pc' = "runs"
    BY <1>1, <1>2, <1>3
  <2>3. /\ Len(program') \in Nat \ {0} /\ DOMAIN program' = 1 .. Len(program')
        /\ addrs' \in Nat /\ p' \in Nat \ {0} /\ sockfd' \in Int
    BY <1>1, <1>2, <2>1
  <2>4. /\ pc' \notin {"runs", "ended"} => Len(results') < Len(program')
        /\ pc' = "runs" => Len(results') = Len(program')
    BY <1>1, <1>4, <2>2
  <2>5. QED  BY <1>4, <2>2, <2>3, <2>4 DEF LoopTypeOK
<1>12. QED  BY <1>8, <1>9, <1>10, <1>11 DEF SocketInv

LEMMA SocketInvariance == SocketSpec => []SocketInv
<1>1. SocketInv /\ [SocketNext]_socketVars => SocketInv'
  <2> SUFFICES ASSUME SocketInv, [SocketNext]_socketVars PROVE SocketInv'  OBVIOUS
  <2>0. addrs \in Nat /\ p \in Nat \ {0} /\ sockfd \in Int  BY DEF SocketInv, LoopTypeOK
  <2>1. CASE UNCHANGED socketVars
    BY <2>1 DEF socketVars, SocketInv, LoopTypeOK, Descriptors, InHand, Delivered, Opened, OpenFds, This
  <2>2. CASE Resolve
    <3>1. addrs' \in Nat  BY <2>2, AddrAssumption DEF Resolve
    <3>2. QED  BY <2>0, <2>2, <3>1, NothingOpened DEF Resolve, Goto
  <2>3. CASE ResolveIgnored
    <3>1. sockfd' \in Int  BY <2>0, <2>3, FdAssumption DEF ResolveIgnored, End
    <3>2. QED  BY <2>0, <2>3, <3>1, NothingOpened DEF ResolveIgnored, End, Goto
  <2>4. CASE SocketFails
    BY <2>0, <2>4, NothingOpened DEF SocketFails
  <2>5. CASE Reuse
    BY <2>0, <2>5, NothingOpened DEF Reuse, Goto
  <2>6. CASE ResolveFails \/ ReuseFails \/ ListenFails \/ (NoneWorked /\ End)
    BY <2>0, <2>6, NothingOpened DEF ResolveFails, ReuseFails, ListenFails, End, Goto
  <2>7. CASE NoneWorked /\ ~End
    BY <2>7, ReturnKeeps DEF NoneWorked
  <2>8. CASE Listen  BY <2>8, ReturnKeeps DEF Listen
  <2>9. QED
    BY <2>1, <2>2, <2>3, <2>4, <2>5, <2>6, <2>7, <2>8,
       SocketKeeps, AttachKeeps, AttachFailsKeeps
    DEF SocketNext, SocketStep
<1>2. QED  BY <1>1, SocketStarts, PTL DEF SocketSpec

(* WorksOrSaysSo, for any number of addresses and descriptors and whatever  *)
(* calls fail: a function that does not ignore failure has given main a     *)
(* socket of its own, bound or connected, when the program runs.            *)
THEOREM StartsOrSaysSo == SocketSpec => []WorksOrSaysSo
<1>1. SocketInv => WorksOrSaysSo
  <2> SUFFICES ASSUME SocketInv, pc = "runs", NEW k \in DOMAIN program,
                      program[k].none # "ignore" \/ Opened(k) # {}
               PROVE  results[k] \in Opened(k) /\ fds[results[k]].ready
    BY DEF WorksOrSaysSo
  <2>1. k \in DOMAIN results  BY DEF SocketInv, LoopTypeOK
  <2>2. QED  BY <2>1 DEF SocketInv, Delivered
<1>2. QED  BY <1>1, SocketInvariance, PTL

(* NothingLeaks: a socket that could not be bound or connected is closed    *)
(* again before the next address is tried.                                  *)
THEOREM StartsWithoutLeaks == SocketSpec => []NothingLeaks
<1>1. SocketInv => NothingLeaks
  <2> SUFFICES ASSUME SocketInv, pc = "runs", NEW k \in DOMAIN program
               PROVE  Cardinality(Opened(k)) <= 1
    BY DEF NothingLeaks
  <2>1. k \in DOMAIN results  BY DEF SocketInv, LoopTypeOK
  <2>2. Opened(k) = {} \/ Opened(k) = {results[k]}
    BY <2>1 DEF SocketInv, Delivered
  <2>3. QED  BY <2>2, FS_EmptySet, FS_Singleton
<1>2. QED  BY <1>1, SocketInvariance, PTL

(***************************************************************************)
(* TableText, for tables of any length: the number of fields read says how *)
(* many rows are complete and how much of the next one has been read.      *)
(***************************************************************************)
Row == [1 .. w -> Names \cup Cells]

SentIsATable ==
  /\ reader \in Readers /\ unknown \in BOOLEAN
  /\ unknown => sent = <<>> /\ w = 3
  /\ sent \in Seq(Row)
  /\ \A k \in DOMAIN sent : sent[k][1] \in Names /\ \A j \in 2 .. w : sent[k][j] \in Cells

(* n rows have been read, and c fields of the next one.                     *)
ReadSoFar(n, c) ==
  /\ n <= Len(sent) /\ c < w /\ (c > 0 => n < Len(sent))
  /\ parseNum = 2 + w * n + c
  /\ Len(table) = n
  /\ \A k \in 1 .. n : table[k] = sent[k] /\ ~Reserved(k)
  /\ \A j \in 1 .. c : row[j] = sent[n + 1][j]
  /\ c > 0 => ~Reserved(n + 1)

WhenDone ==
  done => /\ Len(table) < Len(sent) => Reserved(Len(table) + 1)
          /\ reader.profit /\ ~unknown /\ Len(table) = Len(sent) => shown = "profit"

TextInv ==
  /\ SentIsATable
  /\ table \in Seq(Row) /\ row = [j \in 1 .. w |-> row[j]] /\ done \in BOOLEAN
  /\ \/ parseNum \in {0, 1} /\ table = <<>> /\ ~done
     \/ \E n, c \in Nat : ReadSoFar(n, c)
  /\ WhenDone

LEMMA ReaderFacts ==
  ASSUME reader \in Readers
  PROVE  /\ w \in {2, 3}
         /\ w = 3 => reader.na \in {"always", "first"}
  BY DEF Readers, QuotesOfM, PositionsOfM, QuotesOfClient, PositionsOfClient, w

(* Where a field is: rows of a width have the fields in turn.               *)
LEMMA FieldOfRow ==
  ASSUME NEW width \in {2, 3}, NEW n \in Nat, NEW c \in Nat, c < width, NEW len \in Nat
  PROVE  /\ (width * n + c) % width = c /\ (width * n + c) \div width = n
         /\ width * n \in Nat /\ width * len \in Nat
         /\ n < len => width * n + c + 1 <= width * len
         /\ n <= len => width * n <= width * len
         /\ width * (n + 1) = width * n + width
         /\ n = len => width * n = width * len
         /\ width * n = 0 => n = 0
<1>1. CASE width = 2  BY <1>1
<1>2. CASE width = 3  BY <1>2
<1>3. QED  BY <1>1, <1>2

(* The next field of an unfinished table is that of its row and column; it  *)
(* ends the table if it is a name and reserved, and only then.              *)
LEMMA NextField ==
  ASSUME TextInv, NEW n \in Nat, NEW c \in Nat, ReadSoFar(n, c), n < Len(sent)
  PROVE  /\ Column(parseNum + 1) = c + 1
         /\ Field(parseNum + 1) = sent[n + 1][c + 1]
         /\ Ends(parseNum + 1) <=> c = 0 /\ Reserved(n + 1)
<1>1. w \in {2, 3} /\ Len(sent) \in Nat /\ n + 1 \in DOMAIN sent
  BY ReaderFacts DEF TextInv, SentIsATable
<1>2. parseNum + 1 = 3 + w * n + c /\ c < w  BY <1>1, FieldOfRow DEF ReadSoFar
<1>3. w * n \in Nat  BY <1>1, <1>2, FieldOfRow
<1>4. (parseNum + 1) - 3 = w * n + c  BY <1>2, <1>3
<1>5. Column(parseNum + 1) = c + 1
  BY <1>1, <1>2, <1>4, FieldOfRow DEF Column
<1>6. ~unknown  BY DEF TextInv, SentIsATable
<1>7. Body = 2 + w * Len(sent)  BY <1>6 DEF Body
<1>8. parseNum + 1 > 2 /\ parseNum + 1 <= Body
  BY <1>1, <1>2, <1>3, <1>7, FieldOfRow
<1>9. Field(parseNum + 1) = sent[n + 1][c + 1]
  <2> DEFINE f == parseNum + 1
  <2>1. f - 3 = w * n + c  BY <1>4
  <2>2. (f - 3) \div w = n /\ (f - 3) % w = c  BY <1>1, <1>2, <2>1, FieldOfRow
  <2>3. f # 1 /\ f # 2 /\ f > 2 /\ f <= Body  BY <1>2, <1>3, <1>8
  <2> HIDE DEF f
  <2>4. f # 1 /\ f # 2 /\ f > 2 /\ f <= Body /\ ~unknown =>
          Field(f) = sent[((f - 3) \div w) + 1][((f - 3) % w) + 1]
    <3>1. Body \in Int  BY <1>1, <1>7, FieldOfRow
    <3>2. f \in Int  BY <1>2, <1>3 DEF f
    <3>3. SUFFICES ASSUME f # 1, f # 2, f > 2, f <= Body, ~unknown
                   PROVE  Field(f) = sent[((f - 3) \div w) + 1][((f - 3) % w) + 1]
      OBVIOUS
    <3>4. f # Body + 1 /\ f # Body + 2 /\ f # Body + 3  BY <3>1, <3>2, <3>3
    <3>5. QED  BY <3>3, <3>4 DEF Field
  <2>5. Field(f) = sent[n + 1][c + 1]  BY <1>6, <2>2, <2>3, <2>4
  <2>6. QED  BY <2>5 DEF f
<1>10. parseNum + 1 = 3 <=> n = 0 /\ c = 0
  BY <1>1, <1>2, <1>3, FieldOfRow
<1>11. CASE c = 0
  <2>1. Field(parseNum + 1) = sent[n + 1][1]  BY <1>9, <1>11
  <2>2. parseNum + 1 = 3 <=> n + 1 = 1  BY <1>10, <1>11
  <2>3. Ends(parseNum + 1) <=> Reserved(n + 1)  BY <2>1, <2>2 DEF Ends, Reserved
  <2>4. QED  BY <1>5, <1>9, <1>11, <2>3
<1>12. CASE c # 0
  <2>0. c + 1 \in 2 .. w  BY <1>1, <1>2, <1>12
  <2>1. sent[n + 1][c + 1] \in Cells
    BY <1>1, <2>0 DEF TextInv, SentIsATable
  <2>2. QED  BY <1>5, <1>9, <1>12, <2>1, CellsAssumption DEF Ends
<1>13. QED  BY <1>5, <1>9, <1>11, <1>12

(* Behind the last row is the word end, and NA where there is no table.     *)
LEMMA EndField ==
  ASSUME TextInv, NEW n \in Nat, NEW c \in Nat, ReadSoFar(n, c), n = Len(sent)
  PROVE  /\ Ends(parseNum + 1)
         /\ ~unknown => Field(parseNum + 1) = "end" /\ Field(parseNum + 3) = "profit"
<1>1. w \in {2, 3} /\ Len(sent) \in Nat /\ c = 0
  BY ReaderFacts DEF TextInv, SentIsATable, ReadSoFar
<1>2. parseNum = 2 + w * n /\ w * n \in Nat  BY <1>1, FieldOfRow DEF ReadSoFar
<1>3. CASE unknown
  <2>1. n = 0 /\ w = 3 /\ reader.na \in {"always", "first"}
    BY <1>3, ReaderFacts DEF TextInv, SentIsATable
  <2>2. Body = 3 /\ parseNum + 1 = 3  BY <1>2, <1>3, <2>1 DEF Body
  <2>3. Field(3) = "NA"  BY <1>3, <2>2 DEF Field
  <2>4. QED  BY <1>3, <2>1, <2>2, <2>3 DEF Ends
<1>4. CASE ~unknown
  <2>1. Body = 2 + w * n  BY <1>4 DEF Body
  <2>2. parseNum + 1 = Body + 1 /\ parseNum + 3 = Body + 3 /\ Body \in Nat /\ Body >= 2
    BY <1>2, <2>1
  <2>3. Field(Body + 1) = "end" /\ Field(Body + 3) = "profit"
    BY <2>2 DEF Field
  <2>4. QED  BY <2>2, <2>3 DEF Ends
<1>5. QED  BY <1>3, <1>4

LEMMA TableStarts == TableInit => TextInv
<1> SUFFICES ASSUME TableInit PROVE TextInv  OBVIOUS
<1>1. reader \in Readers /\ unknown \in BOOLEAN /\ (unknown => sent = <<>> /\ w = 3)
      /\ parseNum = 0 /\ row = [c \in 1 .. w |-> ""] /\ table = <<>> /\ done = FALSE
  BY DEF TableInit
<1>2. sent \in Seq(Row)
  <2>1. PICK n \in 0 .. MaxRows : sent \in [1 .. n -> Row]
    BY DEF TableInit, Rows, Row
  <2>2. n \in Nat  BY RowsAssumption
  <2>3. QED  BY <2>1, <2>2
<1>3. \A k \in DOMAIN sent : sent[k][1] \in Names /\ \A j \in 2 .. w : sent[k][j] \in Cells
  BY DEF TableInit
<1>4. SentIsATable  BY <1>1, <1>2, <1>3 DEF SentIsATable
<1>5. table \in Seq(Row)
  <2>1. table = <<>>  BY <1>1
  <2>2. QED  BY <2>1
<1>6. row = [j \in 1 .. w |-> row[j]]  BY <1>1
<1>7. QED  BY <1>1, <1>4, <1>5, <1>6 DEF TextInv, WhenDone

LEMMA SkipKeeps ==
  ASSUME TextInv, Skip
  PROVE  TextInv'
<1>1. /\ ~done /\ parseNum < 2 /\ parseNum' = parseNum + 1
      /\ UNCHANGED <<reader, sent, unknown, row, table, done, shown>>
  BY DEF Skip, Reading
<1>2. w \in {2, 3} /\ Len(sent) \in Nat  BY ReaderFacts DEF TextInv, SentIsATable
<1>3. parseNum \in {0, 1} /\ table = <<>>
  <2> SUFFICES ASSUME NEW n \in Nat, NEW c \in Nat, ReadSoFar(n, c) PROVE FALSE
    BY DEF TextInv
  <2>1. w * n \in Nat /\ parseNum = 2 + w * n + c
    BY <1>2, FieldOfRow DEF ReadSoFar
  <2>2. QED  BY <1>1, <2>1
<1>4. CASE parseNum = 0
  BY <1>1, <1>3, <1>4 DEF TextInv, SentIsATable, WhenDone, Row, w
<1>5. CASE parseNum = 1
  <2>1. parseNum' = 2 /\ w * 0 = 0  BY <1>1, <1>2, <1>5
  <2>2. ReadSoFar(0, 0)'
    BY <1>1, <1>2, <1>3, <2>1 DEF ReadSoFar, w
  <2>3. QED
    BY <1>1, <2>2 DEF TextInv, SentIsATable, WhenDone, Row, w, Reserved
<1>6. QED  BY <1>3, <1>4, <1>5

LEMMA StopKeeps ==
  ASSUME TextInv, Stop
  PROVE  TextInv'
<1>1. /\ ~done /\ parseNum >= 2 /\ Ends(parseNum + 1) /\ done' = TRUE
      /\ UNCHANGED <<reader, sent, unknown, parseNum, row, table>>
      /\ shown' = IF reader.profit /\ Field(parseNum + 1) = "end"
                    THEN Field(parseNum + 3) ELSE shown
  BY DEF Stop, Reading
<1>2. PICK n \in Nat, c \in Nat : ReadSoFar(n, c)  BY <1>1 DEF TextInv
<1>3. ReadSoFar(n, c)'  BY <1>1, <1>2 DEF ReadSoFar, w, Reserved
<1>4. n = Len(table) /\ n <= Len(sent) /\ Len(sent) \in Nat
  BY <1>2 DEF ReadSoFar, TextInv, SentIsATable
<1>5. n < Len(sent) => Reserved(n + 1)  BY <1>1, <1>2, NextField
<1>6. n = Len(sent) /\ ~unknown /\ reader.profit => shown' = "profit"
  BY <1>1, <1>2, EndField
<1>7. WhenDone'
  BY <1>1, <1>4, <1>5, <1>6 DEF WhenDone, Reserved
<1>8. QED
  BY <1>1, <1>3, <1>7 DEF TextInv, SentIsATable, Row, w

LEMMA TakeKeeps ==
  ASSUME TextInv, Take
  PROVE  TextInv'
<1>1. /\ ~done /\ parseNum >= 2 /\ ~Ends(parseNum + 1) /\ parseNum' = parseNum + 1
      /\ row' = [row EXCEPT ![Column(parseNum + 1)] = Field(parseNum + 1)]
      /\ table' = IF Column(parseNum + 1) = w THEN Append(table, row') ELSE table
      /\ UNCHANGED <<reader, sent, unknown, done, shown>>
  BY DEF Take, Reading
<1>2. PICK n \in Nat, c \in Nat : ReadSoFar(n, c)  BY <1>1 DEF TextInv
<1>3. PICK width \in {2, 3} : width = w  BY ReaderFacts DEF TextInv, SentIsATable
<1>4. n < Len(sent) /\ Len(sent) \in Nat /\ n + 1 \in DOMAIN sent
  BY <1>1, <1>2, EndField DEF ReadSoFar, TextInv, SentIsATable
<1>5. /\ c < width /\ parseNum = 2 + width * n + c /\ width * n \in Nat
      /\ width * (n + 1) = width * n + width
  BY <1>2, <1>3, FieldOfRow DEF ReadSoFar
<1>6. /\ Column(parseNum + 1) = c + 1 /\ Field(parseNum + 1) = sent[n + 1][c + 1]
      /\ ~Reserved(n + 1)
  <2>1. c > 0 => ~Reserved(n + 1)  BY <1>2 DEF ReadSoFar
  <2>2. QED  BY <1>1, <1>2, <1>4, <2>1, NextField
<1>7. /\ row' = [j \in 1 .. width |-> row'[j]]
      /\ \A j \in 1 .. c + 1 : row'[j] = sent[n + 1][j]
  <2>1. row = [j \in 1 .. width |-> row[j]]  BY <1>3 DEF TextInv
  <2>2. row' = [j \in 1 .. width |-> IF j = c + 1 THEN sent[n + 1][c + 1] ELSE row[j]]
    BY <1>1, <1>6, <2>1
  <2>3. \A j \in 1 .. c : row[j] = sent[n + 1][j]  BY <1>2 DEF ReadSoFar
  <2>4. QED  BY <1>5, <2>2, <2>3
<1>8. /\ table \in Seq(Row) /\ Len(table) = n /\ sent \in Seq(Row)
      /\ \A k \in 1 .. n : table[k] = sent[k] /\ ~Reserved(k)
  BY <1>2 DEF TextInv, SentIsATable, ReadSoFar
<1>9. /\ \A k : Reserved(k)' = Reserved(k)
      /\ w' = w /\ Row' = Row /\ SentIsATable'
  BY <1>1 DEF TextInv, Reserved, w, Row, SentIsATable
<1>10. WhenDone'  BY <1>1 DEF WhenDone
<1>11. CASE c + 1 = width
  <2>1. row' = sent[n + 1]
    <3>1. sent[n + 1] \in [1 .. width -> Names \cup Cells]
      BY <1>3, <1>4, <1>8 DEF Row
    <3>2. QED  BY <1>7, <1>11, <3>1
  <2>2. row' \in Row  BY <1>4, <1>8, <2>1
  <2>3. table' = Append(table, row')  BY <1>1, <1>3, <1>6, <1>11
  <2>4. table' \in Seq(Row) /\ Len(table') = n + 1
        /\ \A k \in 1 .. n + 1 : table'[k] = sent[k] /\ ~Reserved(k)
    BY <1>6, <1>8, <2>1, <2>2, <2>3
  <2>5. parseNum' = 2 + width * (n + 1) + 0
    BY <1>1, <1>5, <1>11
  <2>6. ReadSoFar(n + 1, 0)'
    <3>1. n + 1 <= Len(sent) /\ 0 < width /\ 1 .. 0 = {}  BY <1>3, <1>4
    <3>2. w' = width /\ sent' = sent  BY <1>1, <1>3, <1>9
    <3>3. \A k \in 1 .. n + 1 : table'[k] = sent'[k] /\ ~Reserved(k)'
      BY <1>9, <2>4, <3>2
    <3>4. QED  BY <2>4, <2>5, <3>1, <3>2, <3>3 DEF ReadSoFar
  <2>7. n + 1 \in Nat /\ 0 \in Nat  OBVIOUS
  <2>8. (\E m, d \in Nat : ReadSoFar(m, d))'  BY <2>6, <2>7
  <2>9. row' = [j \in 1 .. w' |-> row'[j]] /\ done' \in BOOLEAN
    BY <1>1, <1>3, <1>7, <1>9 DEF TextInv
  <2>10. QED  BY <1>9, <1>10, <2>4, <2>8, <2>9 DEF TextInv
<1>12. CASE c + 1 # width
  <2>1. table' = table  BY <1>1, <1>3, <1>6, <1>12
  <2>2. parseNum' = 2 + width * n + (c + 1) /\ c + 1 < width
    BY <1>1, <1>5, <1>12
  <2>3. ReadSoFar(n, c + 1)'
    BY <1>1, <1>3, <1>4, <1>6, <1>7, <1>8, <1>9, <2>1, <2>2 DEF ReadSoFar
  <2>4. (\E m, d \in Nat : ReadSoFar(m, d))'  BY <2>3
  <2>5. row' = [j \in 1 .. w' |-> row'[j]] /\ done' \in BOOLEAN
    BY <1>1, <1>3, <1>7, <1>9 DEF TextInv
  <2>6. QED  BY <1>8, <1>9, <1>10, <2>1, <2>4, <2>5 DEF TextInv
<1>13. QED  BY <1>11, <1>12

LEMMA TextInvariance == TableSpec => []TextInv
<1>1. TextInv /\ [TableNext]_tableTextVars => TextInv'
  <2> SUFFICES ASSUME TextInv, [TableNext]_tableTextVars PROVE TextInv'  OBVIOUS
  <2>1. CASE UNCHANGED tableTextVars
    BY <2>1 DEF tableTextVars, TextInv, SentIsATable, ReadSoFar, WhenDone, Reserved, Row, w
  <2>2. QED  BY <2>1, SkipKeeps, StopKeeps, TakeKeeps DEF TableNext
<1>2. QED  BY <1>1, TableStarts, PTL DEF TableSpec

(* TableAsSent, for tables of any length and stocks of any name: columns    *)
(* never slip (constructNewMsg, parseAllQuotes, parsePortfolio).            *)
THEOREM TablesAreAsSent == TableSpec => []TableAsSent
<1>1. TextInv => TableAsSent
  <2> SUFFICES ASSUME TextInv PROVE TableAsSent  OBVIOUS
  <2>1. /\ Len(table) <= Len(sent)
        /\ \A k \in DOMAIN table : table[k] = sent[k] /\ ~Reserved(k)
    <3>1. CASE table = <<>>  BY <3>1 DEF TextInv, SentIsATable
    <3>2. ASSUME NEW n \in Nat, NEW c \in Nat, ReadSoFar(n, c)
          PROVE  /\ Len(table) <= Len(sent)
                 /\ \A k \in DOMAIN table : table[k] = sent[k] /\ ~Reserved(k)
      BY <3>2 DEF ReadSoFar, TextInv
    <3>3. QED  BY <3>1, <3>2 DEF TextInv
  <2>2. QED  BY <2>1 DEF TextInv, WhenDone, TableAsSent
<1>2. QED  BY <1>1, TextInvariance, PTL

(***************************************************************************)
(* EchoServer, for any buffer and any messages: each byte of the buffer is *)
(* of the last message that was long enough to write it.                   *)
(***************************************************************************)
BufferIsOld ==
  \A k \in 1 .. Size : Longer(k) # {} => buf[k] = heard[Max(Longer(k))][k]

EchoInv ==
  /\ inbox \in [Clients -> Seq(Data)]
  /\ heard \in Seq(Seq(Data))
  /\ buf \in [1 .. Size -> Data \cup {Nul}]
  /\ BufferIsOld
  /\ EchoIsHeard

LEMMA GreatestIsMax ==
  ASSUME NEW S \in SUBSET Int, NEW x \in S, \A y \in S : x >= y
  PROVE  Max(S) = x
<1>1. Max(S) \in S /\ \A y \in S : Max(S) >= y  BY DEF Max
<1>2. x \in Int /\ Max(S) \in Int /\ x >= Max(S) /\ Max(S) >= x  BY <1>1
<1>3. QED  BY <1>2

LEMMA MaxExists ==
  ASSUME NEW len \in Nat, NEW S \in SUBSET (1 .. len), S # {}
  PROVE  Max(S) \in S /\ \A y \in S : Max(S) >= y
<1> DEFINE T == {len - y : y \in S}
<1>1. T \in SUBSET Nat /\ T # {}
  <2>1. \A y \in S : len - y \in Nat  OBVIOUS
  <2>2. QED  BY <2>1
<1>2. PICK t \in T : \A u \in T : t <= u  BY <1>1, LeastExists
<1>3. PICK x \in S : t = len - x  BY <1>2
<1>4. \A y \in S : x >= y
  <2> TAKE y \in S
  <2>1. len - x <= len - y  BY <1>2, <1>3
  <2>2. QED  BY <2>1
<1>5. S \in SUBSET Int  OBVIOUS
<1>6. QED  BY <1>3, <1>4, <1>5, GreatestIsMax

(* The last message of at least k bytes, before and after one more.         *)
LEMMA LongerFacts ==
  ASSUME heard \in Seq(Seq(Data)), NEW k \in Nat \ {0}, Longer(k) # {}
  PROVE  /\ Max(Longer(k)) \in DOMAIN heard
         /\ k \in DOMAIN heard[Max(Longer(k))]
         /\ heard[Max(Longer(k))][k] \in Data
<1>1. Len(heard) \in Nat /\ Longer(k) \in SUBSET (1 .. Len(heard))  BY DEF Longer
<1>2. Max(Longer(k)) \in Longer(k)  BY <1>1, MaxExists
<1>3. Max(Longer(k)) \in DOMAIN heard /\ Len(heard[Max(Longer(k))]) >= k
  BY <1>2 DEF Longer
<1>4. heard[Max(Longer(k))] \in Seq(Data)  BY <1>3
<1>5. QED  BY <1>3, <1>4

LEMMA OneMoreHeard ==
  ASSUME heard \in Seq(Seq(Data)), NEW m \in Seq(Data), heard' = Append(heard, m),
         NEW k \in Nat \ {0}, Longer(k)' # {}
  PROVE  /\ heard'[Max(Longer(k)')][k]
              = IF Len(m) >= k THEN m[k] ELSE heard[Max(Longer(k))][k]
         /\ Len(m) < k => Longer(k) # {}
<1> DEFINE last == Len(heard) + 1
<1>1. /\ DOMAIN heard' = 1 .. last /\ heard'[last] = m /\ last \in Nat
      /\ \A n \in DOMAIN heard : heard'[n] = heard[n]
      /\ DOMAIN heard = 1 .. Len(heard) /\ Len(heard) \in Nat /\ Len(m) \in Nat
  OBVIOUS
<1>2. CASE Len(m) >= k
  <2>1. last \in Longer(k)'  BY <1>1, <1>2 DEF Longer
  <2>2. \A n \in Longer(k)' : last >= n  BY <1>1 DEF Longer
  <2>3. Longer(k)' \in SUBSET Int  BY <1>1 DEF Longer
  <2>4. Max(Longer(k)') = last  BY <2>1, <2>2, <2>3, GreatestIsMax
  <2>5. QED  BY <1>1, <1>2, <2>4
<1>3. CASE Len(m) < k
  <2>1. Longer(k)' = Longer(k)
    BY <1>1, <1>3 DEF Longer
  <2>2. Max(Longer(k)) \in DOMAIN heard  BY <2>1, LongerFacts
  <2>3. ~(Len(m) >= k)  BY <1>1, <1>3
  <2>4. QED  BY <1>1, <2>1, <2>2, <2>3
<1>4. Len(m) >= k \/ Len(m) < k  BY <1>1
<1>5. QED  BY <1>2, <1>3, <1>4

(* newMessage takes what is before the first Nul, so every byte that has    *)
(* none before it.                                                          *)
LEMMA TextFacts ==
  ASSUME NEW b \in [1 .. Size -> Data \cup {Nul}], NEW text \in Text(b),
         NEW k \in 1 .. Size, \A l \in 1 .. k : b[l] # Nul
  PROVE  /\ Len(text) \in Nat /\ Len(text) >= k /\ DOMAIN text = 1 .. Len(text)
         /\ \A l \in 1 .. k : text[l] = b[l]
<1>1. Size \in Nat \ {0} /\ b \in Seq(Data \cup {Nul}) /\ Len(b) = Size
      /\ DOMAIN b = 1 .. Size
  BY BufferAssumption
<1>2. CASE \E z \in DOMAIN b : b[z] = Nul
  <2> DEFINE ends == {z \in DOMAIN b : b[z] = Nul}
             First(z) == z \in DOMAIN b /\ b[z] = Nul /\ \A l \in 1 .. z - 1 : b[l] # Nul
             first == CHOOSE z \in DOMAIN b : b[z] = Nul /\ \A l \in 1 .. z - 1 : b[l] # Nul
  <2>1. ends \in SUBSET Nat /\ ends # {}  BY <1>1, <1>2
  <2>2. PICK z \in ends : \A y \in ends : z <= y  BY <2>1, LeastExists
  <2>3. z \in DOMAIN b /\ b[z] = Nul /\ \A l \in 1 .. z - 1 : b[l] # Nul
    BY <1>1, <2>2
  <2>4. first \in 1 .. Size /\ b[first] = Nul
    BY <1>1, <2>3
  <2>5. text = SubSeq(b, 1, first - 1)  BY <1>2 DEF Text
  <2> HIDE DEF first
  <2>6. first > k  BY <2>4
  <2>7. QED  BY <1>1, <2>4, <2>5, <2>6
<1>3. CASE ~\E z \in DOMAIN b : b[z] = Nul
  <2>1. text = b \/ \E d \in Data : text = Append(b, d)  BY <1>3 DEF Text
  <2>2. QED  BY <1>1, <2>1
<1>4. QED  BY <1>2, <1>3

LEMMA TakenFacts ==
  ASSUME NEW c \in Clients, inbox \in [Clients -> Seq(Data)], inbox[c] # <<>>
  PROVE  /\ Taken(c) \in Seq(Data) /\ Len(Taken(c)) \in 1 .. Size
         /\ SubSeq(inbox[c], Len(Taken(c)) + 1, Len(inbox[c])) \in Seq(Data)
<1> DEFINE n == Min({Size, Len(inbox[c])})
<1>1. Size \in Nat \ {0} /\ inbox[c] \in Seq(Data) /\ Len(inbox[c]) \in Nat \ {0}
  BY BufferAssumption
<1>2. n \in 1 .. Size /\ n <= Len(inbox[c])
  <2>1. \E x \in {Size, Len(inbox[c])} : \A y \in {Size, Len(inbox[c])} : x <= y
    BY <1>1
  <2>2. n \in {Size, Len(inbox[c])} /\ \A y \in {Size, Len(inbox[c])} : n <= y
    BY <2>1 DEF Min
  <2>3. QED  BY <1>1, <2>2
<1>3. Taken(c) = SubSeq(inbox[c], 1, n)  BY DEF Taken
<1> HIDE DEF n
<1>4. Taken(c) \in Seq(Data) /\ Len(Taken(c)) = n  BY <1>1, <1>2, <1>3
<1>5. QED  BY <1>1, <1>2, <1>4

LEMMA EchoStarts == EchoInit => EchoInv
<1> SUFFICES ASSUME EchoInit PROVE EchoInv  OBVIOUS
<1>1. heard = <<>> /\ echo = NoEcho /\ buf \in [1 .. Size -> Data \cup {Nul}]
      /\ inbox = [c \in Clients |-> <<>>]
  BY DEF EchoInit, Init
<1>2. \A k : Longer(k) = {}  BY <1>1 DEF Longer
<1>3. EchoIsHeard
  BY <1>1, <1>2 DEF EchoIsHeard, NoEcho, IsPrefix
<1>4. QED  BY <1>1, <1>2, <1>3 DEF EchoInv, BufferIsOld

LEMMA EchoServeKeeps ==
  ASSUME EchoInv, NEW c \in Clients, EchoServe(c)
  PROVE  EchoInv'
<1>1. PICK m \in Seq(Data) : m = Taken(c)
  BY TakenFacts DEF EchoServe, Served, EchoInv
<1>2. PICK text \in Text(buf') : echo' = [from |-> c, sent |-> m, back |-> text, to |-> c]
  BY <1>1 DEF EchoServe
<1>3. /\ buf' = [k \in 1 .. Size |-> IF k \in DOMAIN m THEN m[k] ELSE buf[k]]
      /\ heard' = Append(heard, m)
      /\ inbox' = [inbox EXCEPT ![c] = SubSeq(@, Len(m) + 1, Len(@))]
      /\ inbox[c] # <<>>
  BY <1>1 DEF EchoServe, Received, Served
<1>4. /\ Len(m) \in 1 .. Size /\ Size \in Nat \ {0}
      /\ SubSeq(inbox[c], Len(m) + 1, Len(inbox[c])) \in Seq(Data)
  BY <1>1, <1>3, TakenFacts, BufferAssumption DEF EchoInv
<1>5. buf' \in [1 .. Size -> Data \cup {Nul}]
  BY <1>3, <1>4 DEF EchoInv
<1>6. inbox' \in [Clients -> Seq(Data)] /\ heard' \in Seq(Seq(Data))
  BY <1>3, <1>4 DEF EchoInv
<1>7. ASSUME NEW k \in 1 .. Size, Longer(k)' # {}
      PROVE  buf'[k] = heard'[Max(Longer(k)')][k] /\ buf'[k] \in Data
  <2>1. k \in Nat \ {0} /\ heard \in Seq(Seq(Data))  BY <1>4 DEF EchoInv
  <2>2. /\ heard'[Max(Longer(k)')][k]
             = IF Len(m) >= k THEN m[k] ELSE heard[Max(Longer(k))][k]
        /\ Len(m) < k => Longer(k) # {}
    BY <1>3, <1>7, <2>1, OneMoreHeard
  <2>3. CASE Len(m) >= k
    <3>1. k \in DOMAIN m /\ m[k] \in Data  BY <2>1, <2>3
    <3>2. QED  BY <1>3, <2>2, <2>3, <3>1
  <2>4. CASE Len(m) < k
    <3>1. k \notin DOMAIN m  BY <2>1, <2>4
    <3>2. Longer(k) # {} /\ ~(Len(m) >= k)  BY <1>4, <2>1, <2>2, <2>4
    <3>3. buf[k] = heard[Max(Longer(k))][k]  BY <3>2 DEF EchoInv, BufferIsOld
    <3>4. heard[Max(Longer(k))][k] \in Data  BY <2>1, <3>2, LongerFacts
    <3>5. QED  BY <1>3, <2>2, <3>1, <3>2, <3>3, <3>4
  <2>5. QED  BY <1>4, <2>1, <2>3, <2>4
<1>8. BufferIsOld'
  BY <1>7 DEF BufferIsOld
<1>9. \A k \in 1 .. Len(m) : buf'[k] = m[k] /\ m[k] \in Data
  BY <1>3, <1>4
<1>10. IsPrefix(m, text)
  <2>1. \A l \in 1 .. Len(m) : buf'[l] # Nul  BY <1>9, BufferAssumption
  <2>2. /\ Len(text) \in Nat /\ Len(text) >= Len(m) /\ DOMAIN text = 1 .. Len(text)
        /\ \A l \in 1 .. Len(m) : text[l] = buf'[l]
    BY <1>2, <1>4, <1>5, <2>1, TextFacts
  <2>3. SubSeq(m, 1, Len(m)) = [l \in 1 .. Len(m) |-> m[l]]  BY <1>4
  <2>4. SubSeq(text, 1, Len(m)) = [l \in 1 .. Len(m) |-> text[l]]  BY <1>4, <2>2
  <2>5. QED  BY <1>4, <1>9, <2>2, <2>3, <2>4 DEF IsPrefix
<1>11. ASSUME NEW k \in Len(m) + 1 .. Size, Longer(k)' # {}
       PROVE  Len(text) >= k /\ text[k] = heard'[Max(Longer(k)')][k]
  <2>1. k \in 1 .. Size /\ k \in Nat  BY <1>4
  <2>2. ASSUME NEW l \in 1 .. k PROVE buf'[l] # Nul
    <3>1. l \in 1 .. Size /\ Longer(l)' # {}
      <4>1. PICK n \in DOMAIN heard' : Len(heard'[n]) >= k  BY <1>11 DEF Longer
      <4>2. heard'[n] \in Seq(Data)  BY <1>6, <4>1
      <4>3. Len(heard'[n]) >= l  BY <2>1, <4>1, <4>2
      <4>4. n \in Longer(l)'  BY <4>1, <4>3 DEF Longer
      <4>5. QED  BY <1>4, <2>1, <4>4
    <3>2. QED  BY <1>7, <3>1, BufferAssumption
  <2>3. Len(text) >= k /\ text[k] = buf'[k]
    <3>1. k \in 1 .. k  BY <2>1
    <3>2. QED  BY <1>2, <1>5, <2>1, <2>2, <3>1, TextFacts
  <2>4. QED  BY <1>7, <1>11, <2>1, <2>3
<1>12. EchoIsHeard'
  <2>1. echo'.sent = m /\ echo'.back = text  BY <1>2
  <2>2. QED  BY <1>10, <1>11, <2>1 DEF EchoIsHeard
<1>13. QED  BY <1>5, <1>6, <1>8, <1>12 DEF EchoInv

LEMMA EchoInvariance == EchoSpec => []EchoInv
<1>1. EchoInv /\ [EchoNext]_vars => EchoInv'
  <2> SUFFICES ASSUME EchoInv, [EchoNext]_vars PROVE EchoInv'  OBVIOUS
  <2>1. ASSUME UNCHANGED <<heard, buf, echo>>, inbox' \in [Clients -> Seq(Data)]
        PROVE  EchoInv'
    BY <2>1 DEF EchoInv, BufferIsOld, EchoIsHeard, Longer
  <2>2. CASE UNCHANGED vars
    BY <2>1, <2>2 DEF vars, echoVars, loopVars, EchoInv
  <2>3. CASE EchoLoop
    BY <2>1, <2>3 DEF EchoLoop, echoVars, PollReturns, Pass, AcceptFails, Drop,
                      kernelVars, EchoInv
  <2>4. CASE EchoAccept
    BY <2>1, <2>4 DEF EchoAccept, Accept, EchoInv
  <2>5. ASSUME NEW c \in Clients, EchoClient(c) PROVE EchoInv'
    <3>1. UNCHANGED <<heard, buf, echo>>  BY <2>5 DEF EchoClient, echoVars
    <3>2. inbox' \in [Clients -> Seq(Data)]
      <4>1. CASE UNCHANGED inbox  BY <4>1 DEF EchoInv
      <4>2. ASSUME NEW d \in Data, Write(c, d) PROVE inbox' \in [Clients -> Seq(Data)]
        BY <4>2 DEF Write, EchoInv
      <4>3. QED  BY <2>5, <4>1, <4>2 DEF EchoClient, ClientStep, Connect, Close
    <3>3. QED  BY <2>1, <3>1, <3>2
  <2>6. QED
    BY <2>2, <2>3, <2>4, <2>5, EchoServeKeeps DEF EchoNext
<1>2. QED  BY <1>1, EchoStarts, PTL DEF EchoSpec

(* EchoIsHeard, for any clients, any buffer and whatever the stack held:    *)
(* what is sent back starts with what was said and ends with the last       *)
(* longer message (newMessage of MainServerExp.cpp).                        *)
THEOREM EchoesAreHeard == EchoSpec => []EchoIsHeard
  BY EchoInvariance, PTL DEF EchoInv

(***************************************************************************)
(* Talkers, for packets of any bytes and any length, any buffers and       *)
(* however many packets wait: whatever the network loses, doubles and      *)
(* reorders, what lies at a port was sent to it, and the packet a receiver *)
(* has read lies at the start of its buffer.                               *)
(***************************************************************************)
Messages == Seq(AnyByte)
IsSentTo(r, m) == \E d \in packets : d.to = Port[r] /\ d.bytes = m

(* The buffer starts with what was received of m.                          *)
StartsWith(r, m) ==
  /\ numbytes[r] = Len(Kept(r, m))
  /\ \A k \in 1 .. numbytes[r] : buffer[r][k] = m[k]

ReceiverOK(r) ==
  /\ listens[r] \in {"off", "waits", "got"}
  /\ buffer[r] \in Buffers(r)
  /\ arrived[r] \in Seq(Messages)
  /\ \A k \in DOMAIN arrived[r] : IsSentTo(r, arrived[r][k])
  /\ listens[r] = "got" => \E m \in Messages : IsSentTo(r, m) /\ StartsWith(r, m)

TalkInv ==
  /\ DOMAIN listens = Receivers /\ DOMAIN buffer = Receivers
  /\ DOMAIN numbytes = Receivers /\ DOMAIN taken = Receivers
  /\ DOMAIN arrived = Receivers
  /\ \A d \in packets : d.bytes \in Messages
  /\ \A r \in Receivers : ReceiverOK(r)
  /\ TextIsOneDatagram

LEMMA BufferSize ==
  ASSUME NEW r \in Receivers
  PROVE  MaxBufLen[r] \in Nat \ {0} /\ Cleared(r) \in Buffers(r) /\ Fresh(r) \subseteq Buffers(r)
  BY SizeAssumption DEF Cleared, Fresh, Buffers, AnyByte

LEMMA KeptIsPrefix ==
  ASSUME NEW r \in Receivers, NEW m \in Messages
  PROVE  /\ Len(Kept(r, m)) \in 0 .. MaxBufLen[r] - 1 /\ Len(Kept(r, m)) <= Len(m)
         /\ Kept(r, m) \in Messages
         /\ \A k \in 1 .. Len(Kept(r, m)) : Kept(r, m)[k] = m[k]
<1> DEFINE max == MaxBufLen[r] - 1
           n == Min({max, Len(m)})
<1>1. max \in Nat /\ Len(m) \in Nat  BY BufferSize DEF Messages
<1> HIDE DEF max
<1>2. n \in {max, Len(m)} /\ n <= max /\ n <= Len(m)
  <2>1. CASE max <= Len(m)
    <3>1. \E x \in {max, Len(m)} : \A y \in {max, Len(m)} : x <= y  BY <1>1, <2>1
    <3>2. QED  BY <1>1, <3>1 DEF Min
  <2>2. CASE Len(m) <= max
    <3>1. \E x \in {max, Len(m)} : \A y \in {max, Len(m)} : x <= y  BY <1>1, <2>2
    <3>2. QED  BY <1>1, <3>1 DEF Min
  <2>3. QED  BY <1>1, <2>1, <2>2
<1>3. n \in Nat  BY <1>1, <1>2
<1>4. Kept(r, m) = SubSeq(m, 1, n)  BY DEF Kept, max
<1> HIDE DEF n
<1>5. Len(Kept(r, m)) = n /\ Kept(r, m) \in Messages
      /\ \A k \in 1 .. n : Kept(r, m)[k] = m[k]
  BY <1>1, <1>2, <1>3, <1>4 DEF Messages
<1>6. QED  BY <1>1, <1>2, <1>3, <1>5 DEF max

LEMMA LeastIsMin ==
  ASSUME NEW S \in SUBSET Nat, NEW e \in S, \A k \in S : e <= k
  PROVE  Min(S) = e
<1>1. PICK x \in S : x = Min(S) /\ \A k \in S : x <= k  BY DEF Min
<1>2. x \in Nat /\ e \in Nat /\ e <= x /\ x <= e  BY <1>1
<1>3. x = e  BY <1>2
<1>4. QED  BY <1>1, <1>3

(* A buffer that starts with a text and goes on with EndByte reads as the  *)
(* text does.                                                              *)
LEMMA BehindIsNotRead ==
  ASSUME NEW s \in Messages, NEW b \in Messages, Len(b) > Len(s),
         \A k \in 1 .. Len(s) : b[k] = s[k], b[Len(s) + 1] = EndByte
  PROVE  CString(b) = CString(s)
<1> DEFINE inS == {k \in DOMAIN s : s[k] = EndByte}
           inB == {k \in DOMAIN b : b[k] = EndByte}
<1>1. /\ Len(s) \in Nat /\ Len(b) \in Nat
      /\ DOMAIN s = 1 .. Len(s) /\ DOMAIN b = 1 .. Len(b)
  BY DEF Messages
<1>2. inS \in SUBSET Nat /\ inB \in SUBSET Nat  BY <1>1
<1>3. inS \subseteq inB /\ inB \cap 1 .. Len(s) = inS /\ Len(s) + 1 \in inB  BY <1>1
<1>s. CString(s) = IF inS = {} THEN s ELSE SubSeq(s, 1, Min(inS) - 1)  BY DEF CString
<1>b. CString(b) = IF inB = {} THEN b ELSE SubSeq(b, 1, Min(inB) - 1)  BY DEF CString
<1>4. ASSUME NEW e \in inB, \A k \in inB : e <= k
      PROVE  CString(b) = SubSeq(b, 1, e - 1)
  <2> HIDE DEF inB
  <2>1. Min(inB) = e  BY <1>2, <1>4, LeastIsMin
  <2>2. QED  BY <1>4, <1>b, <2>1
<1>5. CASE inS = {}
  <2>1. \A k \in inB : Len(s) + 1 <= k  BY <1>1, <1>3, <1>5
  <2>2. CString(b) = SubSeq(b, 1, Len(s))  BY <1>1, <1>3, <1>4, <2>1
  <2>3. SubSeq(b, 1, Len(s)) = s
    <3>1. /\ SubSeq(b, 1, Len(s)) \in Messages /\ Len(SubSeq(b, 1, Len(s))) = Len(s)
          /\ \A k \in 1 .. Len(s) : SubSeq(b, 1, Len(s))[k] = s[k]
      BY <1>1 DEF Messages
    <3>2. QED  BY <1>1, <3>1, SeqEqual DEF Messages
  <2>4. QED  BY <1>5, <1>s, <2>2, <2>3
<1>6. CASE inS # {}
  <2>1. PICK e \in inS : \A k \in inS : e <= k
    <3> HIDE DEF inS
    <3> QED  BY <1>2, <1>6, LeastExists
  <2>2. e \in inB /\ e \in 1 .. Len(s)  BY <1>1, <1>3
  <2>3. \A k \in inB : e <= k
    <3> TAKE k \in inB
    <3>1. CASE k \in 1 .. Len(s)  BY <1>3, <2>1, <3>1
    <3>2. CASE k \notin 1 .. Len(s)  BY <1>1, <2>2, <3>2
    <3>3. QED  BY <3>1, <3>2
  <2>4. CString(b) = SubSeq(b, 1, e - 1)  BY <1>4, <2>2, <2>3
  <2>5. CString(s) = SubSeq(s, 1, e - 1)
    <3> HIDE DEF inS
    <3>1. Min(inS) = e  BY <1>2, <2>1, LeastIsMin
    <3>2. QED  BY <1>6, <1>s, <3>1
  <2>6. SubSeq(b, 1, e - 1) = SubSeq(s, 1, e - 1)
    <3>1. /\ SubSeq(b, 1, e - 1) \in Messages /\ SubSeq(s, 1, e - 1) \in Messages
          /\ Len(SubSeq(b, 1, e - 1)) = e - 1 /\ Len(SubSeq(s, 1, e - 1)) = e - 1
          /\ \A k \in 1 .. e - 1 : SubSeq(b, 1, e - 1)[k] = SubSeq(s, 1, e - 1)[k]
      BY <1>1, <2>2 DEF Messages
    <3>2. QED  BY <3>1, SeqEqual DEF Messages
  <2>7. QED  BY <2>4, <2>5, <2>6
<1>7. QED  BY <1>5, <1>6

LEMMA TalkStarts == TalkInit => TalkInv
  BY BufferSize DEF TalkInit, TalkInv, ReceiverOK, TextIsOneDatagram

(* More packets change nothing of what was sent before.                    *)
LEMMA SendToKeeps ==
  ASSUME TalkInv, NEW port, NEW m \in Messages, SendTo(port, m)
  PROVE  TalkInv'
<1>1. /\ packets' = packets \cup {[to |-> port, bytes |-> m]}
      /\ UNCHANGED <<listens, buffer, numbytes, taken, arrived>>
  BY DEF SendTo
<1>2. \A d \in packets' : d.bytes \in Messages  BY <1>1 DEF TalkInv
<1>3. packets \subseteq packets'  BY <1>1
<1>4. ASSUME NEW r \in Receivers PROVE ReceiverOK(r)'
  BY <1>1, <1>3 DEF TalkInv, ReceiverOK, IsSentTo, StartsWith
<1>5. TextIsOneDatagram'  BY <1>1, <1>3 DEF TalkInv, TextIsOneDatagram
<1>6. QED  BY <1>1, <1>2, <1>4, <1>5 DEF TalkInv

(* What a step of one receiver owes: its own state.                        *)
LEMMA OthersRest ==
  ASSUME TalkInv, NEW r \in Receivers, UNCHANGED packets,
         ReceiverOK(r)', taken'[r] = taken[r],
         \A x \in Receivers \ {r} :
           /\ listens'[x] = listens[x] /\ buffer'[x] = buffer[x]
           /\ numbytes'[x] = numbytes[x] /\ arrived'[x] = arrived[x]
           /\ taken'[x] = taken[x],
         DOMAIN listens' = Receivers, DOMAIN buffer' = Receivers,
         DOMAIN numbytes' = Receivers, DOMAIN taken' = Receivers,
         DOMAIN arrived' = Receivers
  PROVE  TalkInv'
<1>1. ASSUME NEW x \in Receivers \ {r} PROVE ReceiverOK(x)'
  <2>1. ReceiverOK(x)  BY DEF TalkInv
  <2>2. \A m : IsSentTo(x, m)' = IsSentTo(x, m)  BY DEF IsSentTo
  <2>3. \A m : StartsWith(x, m)' = StartsWith(x, m)  BY <1>1 DEF StartsWith
  <2>4. QED  BY <1>1, <2>1, <2>2, <2>3 DEF ReceiverOK
<1>2. TextIsOneDatagram'  BY DEF TalkInv, TextIsOneDatagram
<1>3. QED  BY <1>1, <1>2 DEF TalkInv

LEMMA ArrivesKeeps ==
  ASSUME TalkInv, NEW r \in Receivers, Arrives(r)
  PROVE  TalkInv'
<1>1. PICK d \in packets : d.to = Port[r]
                           /\ arrived' = [arrived EXCEPT ![r] = Append(@, d.bytes)]
  BY DEF Arrives
<1>2. UNCHANGED <<listens, buffer, numbytes, taken, packets>>  BY DEF Arrives
<1>3. d.bytes \in Messages /\ IsSentTo(r, d.bytes)  BY <1>1 DEF TalkInv, IsSentTo
<1>4. ReceiverOK(r)  BY DEF TalkInv
<1>5. arrived'[r] = Append(arrived[r], d.bytes)  BY <1>1 DEF TalkInv
<1>6. \A m : IsSentTo(r, m)' = IsSentTo(r, m) /\ StartsWith(r, m)' = StartsWith(r, m)
  BY <1>2 DEF IsSentTo, StartsWith
<1>7. arrived'[r] \in Seq(Messages)
      /\ \A k \in DOMAIN arrived'[r] : IsSentTo(r, arrived'[r][k])
  BY <1>3, <1>4, <1>5 DEF ReceiverOK
<1>8. ReceiverOK(r)'  BY <1>2, <1>4, <1>6, <1>7 DEF ReceiverOK
<1>9. QED  BY <1>1, <1>2, <1>8, OthersRest DEF TalkInv

(* A program starts, or ends.                                              *)
LEMMA BindKeeps ==
  ASSUME TalkInv, NEW r \in Receivers, Bind(r) \/ RecvFails(r)
  PROVE  TalkInv'
<1>1. CASE Bind(r)
  <2>1. PICK b \in Fresh(r) : buffer' = [buffer EXCEPT ![r] = b]  BY <1>1 DEF Bind
  <2>2. /\ listens' = [listens EXCEPT ![r] = "waits"]
        /\ taken' = [taken EXCEPT ![r] = <<>>]
        /\ UNCHANGED <<numbytes, arrived, packets>>
    BY <1>1 DEF Bind
  <2>3. ReceiverOK(r)  BY DEF TalkInv
  <2>4. ReceiverOK(r)'
    BY <2>1, <2>2, <2>3, BufferSize DEF TalkInv, ReceiverOK, IsSentTo
  <2>5. \A x \in Receivers : ReceiverOK(x)'
    BY <2>1, <2>2, <2>4 DEF TalkInv, ReceiverOK, IsSentTo, StartsWith
  <2>6. TextIsOneDatagram'  BY <2>2 DEF TalkInv, TextIsOneDatagram
  <2>7. QED  BY <2>1, <2>2, <2>5, <2>6 DEF TalkInv
<1>2. CASE RecvFails(r)
  <2>1. /\ listens' = [listens EXCEPT ![r] = "off"]
        /\ arrived' = [arrived EXCEPT ![r] = <<>>]
        /\ UNCHANGED <<buffer, numbytes, taken, packets>>
    BY <1>2 DEF RecvFails, Closes
  <2>2. ReceiverOK(r)  BY DEF TalkInv
  <2>3. ReceiverOK(r)'  BY <2>1, <2>2 DEF TalkInv, ReceiverOK
  <2>4. QED  BY <2>1, <2>3, OthersRest DEF TalkInv
<1>3. QED  BY <1>1, <1>2

LEMMA RecvFromKeeps ==
  ASSUME TalkInv, NEW r \in Receivers, RecvFrom(r)
  PROVE  TalkInv'
<1>0. ReceiverOK(r)  BY DEF TalkInv
<1>1. PICK m \in Messages : m = Head(arrived[r]) /\ IsSentTo(r, m) /\ arrived[r] # <<>>
  BY <1>0 DEF RecvFrom, ReceiverOK
<1> DEFINE bytes == Kept(r, m)
<1>2. /\ numbytes' = [numbytes EXCEPT ![r] = Len(bytes)]
      /\ buffer' = [buffer EXCEPT ![r] =
           [k \in DOMAIN @ |-> IF k <= Len(bytes) THEN bytes[k] ELSE @[k]]]
      /\ arrived' = [arrived EXCEPT ![r] = Tail(@)]
      /\ listens' = [listens EXCEPT ![r] = "got"]
      /\ UNCHANGED <<taken, packets>>
  BY <1>1 DEF RecvFrom
<1>3. /\ Len(bytes) \in 0 .. MaxBufLen[r] - 1 /\ bytes \in Messages
      /\ \A k \in 1 .. Len(bytes) : bytes[k] = m[k]
  BY KeptIsPrefix
<1> HIDE DEF bytes
<1>4. DOMAIN buffer[r] = 1 .. MaxBufLen[r] /\ MaxBufLen[r] \in Nat
  BY <1>0, BufferSize DEF ReceiverOK, Buffers
<1>5. buffer'[r] = [k \in 1 .. MaxBufLen[r] |->
                      IF k <= Len(bytes) THEN bytes[k] ELSE buffer[r][k]]
  BY <1>2, <1>4 DEF TalkInv
<1>6. buffer'[r] \in Buffers(r)
  BY <1>0, <1>3, <1>4, <1>5 DEF ReceiverOK, Buffers, Messages
<1>7. StartsWith(r, m)'
  <2>1. numbytes'[r] = Len(bytes)  BY <1>2 DEF TalkInv
  <2>2. QED  BY <1>3, <1>4, <1>5, <2>1 DEF StartsWith, bytes
<1>8. arrived'[r] = Tail(arrived[r]) /\ listens'[r] = "got"  BY <1>2 DEF TalkInv
<1>9. arrived'[r] \in Seq(Messages)
      /\ \A k \in DOMAIN arrived'[r] : IsSentTo(r, arrived'[r][k])
  BY <1>0, <1>1, <1>8 DEF ReceiverOK
<1>10. \A x : IsSentTo(r, x)' = IsSentTo(r, x)  BY <1>2 DEF IsSentTo
<1>11. ReceiverOK(r)'  BY <1>1, <1>6, <1>7, <1>8, <1>9, <1>10 DEF ReceiverOK
<1>12. QED  BY <1>2, <1>11, OthersRest DEF TalkInv

(* What the receiver takes from its buffer is the packet it has read.      *)
LEMMA TextIsOfPacket ==
  ASSUME TalkInv, NEW r \in Receivers, listens[r] = "got"
  PROVE  /\ Terminated(r) \in Buffers(r)
         /\ \E d \in packets : d.to = Port[r] /\ CString(Terminated(r)) = CString(Kept(r, d.bytes))
<1>0. ReceiverOK(r)  BY DEF TalkInv
<1>1. PICK m \in Messages : IsSentTo(r, m) /\ StartsWith(r, m)  BY <1>0 DEF ReceiverOK
<1> DEFINE s == Kept(r, m)   b == Terminated(r)
<1>2. /\ Len(s) \in 0 .. MaxBufLen[r] - 1 /\ s \in Messages /\ numbytes[r] = Len(s)
      /\ \A k \in 1 .. Len(s) : s[k] = m[k] /\ buffer[r][k] = m[k]
  BY <1>1, KeptIsPrefix DEF StartsWith
<1> HIDE DEF s
<1>3. MaxBufLen[r] \in Nat /\ buffer[r] \in [1 .. MaxBufLen[r] -> AnyByte]
  BY <1>0, BufferSize DEF ReceiverOK, Buffers
<1>4. b \in [1 .. MaxBufLen[r] -> AnyByte] /\ b[Len(s) + 1] = EndByte
      /\ \A k \in 1 .. Len(s) : b[k] = s[k]
  BY <1>2, <1>3 DEF Terminated, AnyByte
<1> HIDE DEF b
<1>5. b \in Messages /\ Len(b) = MaxBufLen[r]  BY <1>3, <1>4, SeqDef DEF Messages
<1>6. CString(b) = CString(s)
  <2>1. Len(b) > Len(s)  BY <1>2, <1>3, <1>5
  <2>2. QED  BY <1>2, <1>4, <1>5, <2>1, BehindIsNotRead
<1>7. QED  BY <1>1, <1>4, <1>6 DEF IsSentTo, Buffers, b, s

(* Both receivers take the text, and the next buffer is terminated or      *)
(* cleared.                                                                *)
LEMMA TakesTextKeeps ==
  ASSUME TalkInv, NEW r \in Receivers, TakesText(r),
         NEW b \in Buffers(r), buffer' = [buffer EXCEPT ![r] = b],
         \/ Closes(r)
         \/ listens' = [listens EXCEPT ![r] = "waits"] /\ UNCHANGED arrived
  PROVE  TalkInv'
<1>1. /\ listens[r] = "got" /\ taken' = [taken EXCEPT ![r] = CString(Terminated(r))]
      /\ UNCHANGED <<numbytes, packets>>
  BY DEF TakesText
<1>2. \A x \in Receivers : ReceiverOK(x)  BY DEF TalkInv
<1>3. /\ DOMAIN listens' = Receivers /\ DOMAIN arrived' = Receivers
      /\ listens'[r] \in {"off", "waits"}
      /\ arrived'[r] = arrived[r] \/ arrived'[r] = <<>>
      /\ \A x \in Receivers \ {r} : listens'[x] = listens[x] /\ arrived'[x] = arrived[x]
  BY DEF Closes, TalkInv
<1>4. \A x, m : IsSentTo(x, m)' = IsSentTo(x, m)  BY <1>1 DEF IsSentTo
<1>5. ReceiverOK(r)'
  <2>1. buffer'[r] = b  BY DEF TalkInv
  <2>2. ReceiverOK(r)  BY <1>2
  <2>3. arrived'[r] \in Seq(Messages)
        /\ \A k \in DOMAIN arrived'[r] : IsSentTo(r, arrived'[r][k])
    <3>1. CASE arrived'[r] = arrived[r]  BY <2>2, <3>1 DEF ReceiverOK
    <3>2. CASE arrived'[r] = <<>>  BY <3>2
    <3>3. QED  BY <1>3, <3>1, <3>2
  <2>4. Buffers(r)' = Buffers(r)  BY DEF Buffers
  <2>5. listens'[r] # "got"  BY <1>3
  <2>6. QED  BY <1>3, <1>4, <2>1, <2>3, <2>4, <2>5 DEF ReceiverOK
<1>6. ASSUME NEW x \in Receivers \ {r} PROVE ReceiverOK(x)'
  <2>1. \A m : StartsWith(x, m)' = StartsWith(x, m)
    BY <1>1, <1>6 DEF StartsWith, TalkInv
  <2>2. buffer'[x] = buffer[x]  BY <1>6 DEF TalkInv
  <2>3. QED  BY <1>2, <1>3, <1>4, <1>6, <2>1, <2>2 DEF ReceiverOK
<1>7. TextIsOneDatagram'
  <2>1. PICK d \in packets :
          d.to = Port[r] /\ CString(Terminated(r)) = CString(Kept(r, d.bytes))
    BY <1>1, TextIsOfPacket
  <2>2. taken'[r] = CString(Kept(r, d.bytes))  BY <1>1, <2>1 DEF TalkInv
  <2>3. \A x \in Receivers \ {r} : taken'[x] = taken[x]  BY <1>1 DEF TalkInv
  <2>4. QED  BY <1>1, <2>1, <2>2, <2>3 DEF TalkInv, TextIsOneDatagram
<1>8. QED  BY <1>1, <1>3, <1>5, <1>6, <1>7 DEF TalkInv

LEMMA ReceiversTake ==
  ASSUME TalkInv, PrintAndClose \/ ProcessData
  PROVE  TalkInv'
<1>1. CASE PrintAndClose
  <2> DEFINE r == "udp_listener"
  <2>1. TakesText(r) /\ Closes(r) /\ buffer' = [buffer EXCEPT ![r] = Terminated(r)]
    BY <1>1 DEF PrintAndClose
  <2>2. r \in Receivers  BY DEF Receivers
  <2>3. Terminated(r) \in Buffers(r)  BY <2>1, <2>2, TextIsOfPacket DEF TakesText
  <2> HIDE DEF r
  <2>4. QED  BY <2>1, <2>2, <2>3, TakesTextKeeps
<1>2. CASE ProcessData
  <2> DEFINE r == "serverP"
  <2>1. /\ TakesText(r) /\ buffer' = [buffer EXCEPT ![r] = Cleared(r)]
        /\ \/ Closes(r)
           \/ listens' = [listens EXCEPT ![r] = "waits"] /\ UNCHANGED arrived
    BY <1>2 DEF ProcessData
  <2>2. r \in Receivers  BY DEF Receivers
  <2> HIDE DEF r
  <2>3. QED  BY <2>1, <2>2, BufferSize, TakesTextKeeps
<1>3. QED  BY <1>1, <1>2

LEMMA TalkInvariance == TalkSpec => []TalkInv
<1>1. TalkInv /\ [TalkNext]_talkVars => TalkInv'
  <2> SUFFICES ASSUME TalkInv, [TalkNext]_talkVars PROVE TalkInv'  OBVIOUS
  <2>1. CASE UNCHANGED talkVars
    BY <2>1 DEF talkVars, TalkInv, ReceiverOK, IsSentTo, StartsWith, TextIsOneDatagram
  <2>2. CASE TalkerSends \/ TestSends \/ OtherSends
    <3>1. PICK port, m : m \in Messages /\ SendTo(port, m)
      <4>1. Seq(Bytes) \subseteq Messages  BY DEF Messages, AnyByte
      <4>2. BoundedSeq(Bytes, MaxBytes) \subseteq Seq(Bytes)
            /\ BoundedSeq(AnyByte, MaxBytes) \subseteq Messages
        BY SizeAssumption DEF BoundedSeq, SeqOf, Messages
      <4>3. QED  BY <2>2, <4>1, <4>2, ByteAssumption
            DEF TalkerSends, TestSends, OtherSends
    <3>2. QED  BY <3>1, SendToKeeps
  <2>3. CASE \E r \in Receivers : Arrives(r) \/ ReceiverStep(r)
    BY <2>3, ArrivesKeeps, BindKeeps, RecvFromKeeps DEF ReceiverStep
  <2>4. QED
    BY <2>1, <2>2, <2>3, ReceiversTake DEF TalkNext
<1>2. QED  BY <1>1, TalkStarts, PTL DEF TalkSpec

(* TextIsOneDatagram (udp_listener.cpp, listen_pkts of serverP.cpp), for   *)
(* any buffers, any packets of anybody and however many are lost, doubled  *)
(* or overtaken: the text a receiver takes from its buffer is that of one  *)
(* packet that was sent to its port, cut off where the buffer ends.        *)
THEOREM OneDatagramIsTaken == TalkSpec => []TextIsOneDatagram
  BY TalkInvariance, PTL DEF TalkInv

(***************************************************************************)
(* Caesar: the password code of Server M can be read back, for any         *)
(* alphabets, any shift that is not longer than the shortest of them, and  *)
(* any password.                                                           *)
(***************************************************************************)

(* What % does where passwordEncrypt uses it: at most one alphabet is      *)
(* taken off.                                                              *)
LEMMA WrapOnce ==
  ASSUME NEW m \in Nat \ {0}, NEW n \in 0 .. 2 * m - 1
  PROVE  n % m = IF n < m THEN n ELSE n - m
<1>1. CASE n < m  BY <1>1
<1>2. CASE n >= m
  <2>1. n = m * 1 + (n - m) /\ n - m \in 0 .. m - 1  BY <1>2
  <2> QED BY <2>1
<1> QED BY <1>1, <1>2

(* One character: shifting keeps its alphabet, and can be undone. *)
LEMMA ShiftCanBeUndone ==
  ASSUME NEW c \in Char
  PROVE  Shifted(c) \in Char /\ Unshifted(Shifted(c)) = c
<1>1. CASE \E r \in Rest : c = <<"rest", r>>
  <2>1. c[1] \notin Alphabets  BY <1>1, AlphabetAssumption
  <2> QED BY <2>1 DEF Shifted, Unshifted
<1>2. ASSUME NEW a \in Alphabets, NEW n \in 0 .. Length[a] - 1, c = <<a, n>>
      PROVE  Shifted(c) \in Char /\ Unshifted(Shifted(c)) = c
  <2>0. PICK m \in Nat \ {0} : m = Length[a] /\ Shift \in 0 .. m
    BY AlphabetAssumption
  <2>1. PICK k : k = (n + Shift) % m  OBVIOUS
  <2>2. k = IF n + Shift < m THEN n + Shift ELSE n + Shift - m
    <3>1. PICK x \in 0 .. 2 * m - 1 : x = n + Shift  BY <2>0
    <3>2. x % m = IF x < m THEN x ELSE x - m  BY WrapOnce
    <3>3. k = x % m  BY <2>1, <3>1
    <3>4. k = IF x < m THEN x ELSE x - m  BY <3>2, <3>3
    <3> QED BY <2>0, <3>1, <3>4
  <2>3. k \in 0 .. m - 1  BY <2>0, <2>2
  <2>4. (k + m - Shift) % m = n
    <3>1. PICK x \in 0 .. 2 * m - 1 : x = k + m - Shift  BY <2>0, <2>3
    <3>2. x % m = IF x < m THEN x ELSE x - m  BY WrapOnce
    <3>3. (IF x < m THEN x ELSE x - m) = n  BY <2>0, <2>2, <3>1
    <3> QED BY <3>1, <3>2, <3>3
  <2>5. Shifted(c) = <<a, k>>  BY <1>2, <2>0, <2>1 DEF Shifted
  <2>6. <<a, k>> \in Char  BY <2>0, <2>3 DEF Char
  <2>7. Unshifted(<<a, k>>) = <<a, (k + m - Shift) % m>>
    BY <2>0 DEF Unshifted
  <2> QED BY <1>2, <2>4, <2>5, <2>6, <2>7
<1> QED BY <1>1, <1>2 DEF Char

(* What the for loop has done is the shift of what it has passed, and what *)
(* it has not come to is the end of the password.                          *)
CodeInv ==
  /\ password \in Seq(Char) /\ encryptedPassword \in Seq(Char)
  /\ rest \in Seq(Char)
  /\ Len(encryptedPassword) + Len(rest) = Len(password)
  /\ \A k \in 1 .. Len(encryptedPassword) :
       encryptedPassword[k] = Shifted(password[k])
  /\ \A k \in 1 .. Len(rest) :
       rest[k] = password[Len(encryptedPassword) + k]

LEMMA LoopKeeps ==
  ASSUME CodeInv, Encrypt
  PROVE  CodeInv'
<1> DEFINE c == Head(rest)
           n == Len(encryptedPassword)
<1>1. rest # <<>> /\ c \in Char /\ Len(rest) >= 1 /\ c = password[n + 1]
  BY DEF CodeInv, Encrypt
<1>2. Shifted(c) \in Char  BY <1>1, ShiftCanBeUndone
<1>3. /\ encryptedPassword' \in Seq(Char) /\ Len(encryptedPassword') = n + 1
      /\ rest' \in Seq(Char) /\ Len(rest') = Len(rest) - 1
      /\ password' = password
  BY <1>1, <1>2 DEF CodeInv, Encrypt
<1>4. ASSUME NEW k \in 1 .. Len(encryptedPassword')
      PROVE  encryptedPassword'[k] = Shifted(password[k])
  <2>1. CASE k <= n      BY <1>1, <1>3, <1>4, <2>1 DEF CodeInv, Encrypt
  <2>2. CASE k = n + 1   BY <1>1, <1>2, <2>2 DEF CodeInv, Encrypt
  <2> QED BY <1>3, <1>4, <2>1, <2>2 DEF CodeInv
<1>5. ASSUME NEW k \in 1 .. Len(rest')
      PROVE  rest'[k] = password[Len(encryptedPassword') + k]
  <2>1. rest'[k] = rest[k + 1]  BY <1>1, <1>3 DEF CodeInv, Encrypt
  <2>2. k + 1 \in 1 .. Len(rest) /\ n + (k + 1) = (n + 1) + k
    BY <1>1, <1>3 DEF CodeInv
  <2> QED BY <1>3, <2>1, <2>2 DEF CodeInv
<1>6. Len(encryptedPassword') + Len(rest') = Len(password')
  <2>1. n \in Nat /\ Len(rest) \in Nat /\ n + Len(rest) = Len(password)
    BY DEF CodeInv
  <2> QED BY <1>3, <2>1
<1>7. password' \in Seq(Char)  BY <1>3 DEF CodeInv
<1> QED BY <1>3, <1>4, <1>5, <1>6, <1>7 DEF CodeInv

(* Whatever the password, what has been sent to Server A can be read back: *)
(* no two passwords have one code (passwordEncrypt).                       *)
THEOREM PasswordsStayApart == CaesarSpec => []CanBeReadBack
<1>1. CaesarInit => CodeInv
  BY PasswordAssumption DEF CaesarInit, CodeInv
<1>2. ASSUME CodeInv, [Encrypt]_caesarVars PROVE CodeInv'
  <2>1. CASE Encrypt         BY <1>2, <2>1, LoopKeeps
  <2>2. CASE UNCHANGED caesarVars  BY <1>2, <2>2 DEF caesarVars, CodeInv
  <2> QED BY <1>2, <2>1, <2>2
<1>3. CodeInv => CanBeReadBack
  <2> SUFFICES ASSUME CodeInv, NEW k \in DOMAIN encryptedPassword
               PROVE  Unshifted(encryptedPassword[k]) = password[k]
    BY DEF CodeInv, CanBeReadBack
  <2>1. k \in 1 .. Len(encryptedPassword) /\ k \in 1 .. Len(password)
    BY DEF CodeInv
  <2>2. encryptedPassword[k] = Shifted(password[k]) /\ password[k] \in Char
    BY <2>1 DEF CodeInv
  <2> QED BY <2>2, ShiftCanBeUndone
<1> QED BY <1>1, <1>2, <1>3, PTL DEF CaesarSpec

----------------------------------------------------------------------------
(***************************************************************************)
(* The data files (StartUp), for any files: what has been read of one when *)
(* getline comes to its next line.                                         *)
(***************************************************************************)
LinesRead == {n \in DOMAIN file : n < next}

FileTyped == /\ file \in Seq(Seq(Words) \ {<<>>})
             /\ next \in 1 .. Len(file) + 1

LEMMA FileStarts == FileInit => FileTyped /\ LinesRead = {}
<1> SUFFICES ASSUME FileInit PROVE FileTyped /\ LinesRead = {}  OBVIOUS
<1>1. file \in Seq(Seq(Words) \ {<<>>}) /\ next = 1
  BY FilesAssumption DEF FileInit
<1>2. DOMAIN file = 1 .. Len(file) /\ Len(file) \in Nat  BY <1>1
<1>3. QED  BY <1>1, <1>2 DEF FileTyped, LinesRead

LEMMA LineFacts ==
  ASSUME FileTyped, NEW n \in DOMAIN file
  PROVE  /\ file[n] \in Seq(Words)
         /\ Len(file[n]) \in Nat \ {0} /\ DOMAIN file[n] = 1 .. Len(file[n])
         /\ Head(file[n]) = file[n][1]
         /\ \A k \in 1 .. Len(file[n]) : file[n][k] \in Words
         /\ file[n][1] \in Words /\ Small[file[n][1]] \in Words
<1>1. file[n] \in Seq(Words) /\ file[n] # <<>>  BY DEF FileTyped
<1>2. Len(file[n]) \in Nat \ {0} /\ DOMAIN file[n] = 1 .. Len(file[n])
  BY <1>1
<1>3. \A k \in 1 .. Len(file[n]) : file[n][k] \in Words  BY <1>1
<1>4. Head(file[n]) = file[n][1]  BY <1>1
<1>5. file[n][1] \in Words  BY <1>2, <1>3
<1>6. QED  BY <1>1, <1>2, <1>3, <1>4, <1>5, WordsAssumption

LEMMA OneLineMore ==
  ASSUME FileTyped, NEW s, GetLine(s)
  PROVE  /\ FileTyped' /\ next \in DOMAIN file /\ next' = next + 1
         /\ LinesRead' = LinesRead \cup {next}
         /\ \A n \in LinesRead : n < next /\ n \in DOMAIN file
         /\ server = s /\ ~ended /\ UNCHANGED <<server, file>>
<1>1. /\ next <= Len(file) /\ next' = next + 1 /\ UNCHANGED <<server, file>>
      /\ server = s /\ ~ended
  BY DEF GetLine
<1>2. /\ Len(file) \in Nat /\ DOMAIN file = 1 .. Len(file)
      /\ next \in 1 .. Len(file) + 1
  BY DEF FileTyped
<1>3. next \in DOMAIN file /\ next' \in 1 .. Len(file) + 1  BY <1>1, <1>2
<1>4. FileTyped'  BY <1>1, <1>3 DEF FileTyped
<1>5. LinesRead' = LinesRead \cup {next}
  <2>1. \A n \in DOMAIN file : n < next + 1 <=> n < next \/ n = next
    BY <1>2
  <2>2. QED  BY <1>1, <1>3, <2>1 DEF LinesRead
<1>6. QED  BY <1>1, <1>3, <1>4, <1>5 DEF LinesRead

(* At the end all lines have been read. *)
LEMMA AllLinesRead ==
  ASSUME FileTyped, next > Len(file)
  PROVE  LinesRead = DOMAIN file /\ DOMAIN file = 1 .. Len(file) /\ Len(file) \in Nat
<1>1. Len(file) \in Nat /\ DOMAIN file = 1 .. Len(file)  BY DEF FileTyped
<1>2. \A n \in 1 .. Len(file) : n < next  BY <1>1 DEF FileTyped
<1>3. QED  BY <1>1, <1>2 DEF LinesRead

----------------------------------------------------------------------------
(* members.txt: of a member's lines the last one read counts.              *)
MembersSoFar ==
  server = "A" =>
    /\ DOMAIN loginInfo = {Small[file[n][1]] : n \in LinesRead}
    /\ \A n \in LinesRead :
         (\A l \in LinesRead : l > n => Small[file[l][1]] # Small[file[n][1]])
           => loginInfo[Small[file[n][1]]] = AfterFirst(file[n])

LEMMA ReadMemberKeeps ==
  ASSUME FileTyped, MembersSoFar, ReadMember
  PROVE  MembersSoFar'
<1>1. /\ next \in DOMAIN file
      /\ LinesRead' = LinesRead \cup {next}
      /\ \A n \in LinesRead : n < next /\ n \in DOMAIN file
      /\ server = "A" /\ UNCHANGED <<server, file>>
  BY OneLineMore DEF ReadMember
<1>2. PICK u, pw : u = Small[file[next][1]] /\ pw = AfterFirst(file[next])
  OBVIOUS
<1>3. /\ DOMAIN loginInfo' = DOMAIN loginInfo \cup {u}
      /\ loginInfo'[u] = pw
      /\ \A v \in DOMAIN loginInfo : v # u => loginInfo'[v] = loginInfo[v]
  <2>1. FirstWord(file[next]) = file[next][1]
    BY <1>1, LineFacts DEF FirstWord
  <2>2. loginInfo' = Put(u, pw)  BY <1>2, <2>1 DEF ReadMember, Line
  <2>3. QED  BY <2>2 DEF Put
<1>4. DOMAIN loginInfo' = {Small[file[n][1]] : n \in LinesRead'}
  BY <1>1, <1>2, <1>3 DEF MembersSoFar
<1>5. ASSUME NEW n \in LinesRead',
             \A l \in LinesRead' : l > n => Small[file[l][1]] # Small[file[n][1]]
      PROVE  loginInfo'[Small[file[n][1]]] = AfterFirst(file[n])
  <2>1. CASE n = next  BY <1>2, <1>3, <2>1
  <2>2. CASE n # next
    <3>1. n \in LinesRead /\ n < next  BY <1>1, <2>2
    <3>2. next > n /\ next \in LinesRead'  BY <1>1, <3>1 DEF FileTyped
    <3>3. Small[file[n][1]] # u  BY <1>2, <1>5, <3>2
    <3>4. /\ loginInfo[Small[file[n][1]]] = AfterFirst(file[n])
          /\ Small[file[n][1]] \in DOMAIN loginInfo
      BY <1>1, <1>5, <3>1 DEF MembersSoFar
    <3>5. QED  BY <1>3, <3>3, <3>4
  <2>3. QED  BY <2>1, <2>2
<1>6. QED  BY <1>1, <1>4, <1>5 DEF MembersSoFar

LEMMA MembersAtTheEnd ==
  ASSUME FileTyped, MembersSoFar
  PROVE  MembersAreListed
<1> SUFFICES ASSUME AllRead("A")
             PROVE  /\ DOMAIN loginInfo = {u \in Words : MembersLines(u) # {}}
                    /\ \A u \in DOMAIN loginInfo :
                         loginInfo[u] = AfterFirst(file[Max(MembersLines(u))])
  BY DEF MembersAreListed, AfterFirst
<1>1. server = "A" /\ next > Len(file)  BY DEF AllRead
<1>2. LinesRead = DOMAIN file /\ DOMAIN file = 1 .. Len(file) /\ Len(file) \in Nat
  BY <1>1, AllLinesRead
<1>3. DOMAIN loginInfo = {Small[file[n][1]] : n \in DOMAIN file}
  BY <1>1, <1>2 DEF MembersSoFar
<1>4. \A n \in DOMAIN file : Small[file[n][1]] \in Words  BY LineFacts
<1>5. DOMAIN loginInfo = {u \in Words : MembersLines(u) # {}}
  BY <1>3, <1>4 DEF MembersLines
<1>6. ASSUME NEW u \in DOMAIN loginInfo
      PROVE  loginInfo[u] = AfterFirst(file[Max(MembersLines(u))])
  <2>1. PICK n : n = Max(MembersLines(u))  OBVIOUS
  <2>2. MembersLines(u) \in SUBSET (1 .. Len(file)) /\ MembersLines(u) # {}
    BY <1>2, <1>5 DEF MembersLines
  <2>3. n \in MembersLines(u) /\ \A l \in MembersLines(u) : n >= l
    BY <1>2, <2>1, <2>2, MaxExists
  <2>4. n \in DOMAIN file /\ Small[file[n][1]] = u  BY <2>3 DEF MembersLines
  <2>5. \A l \in DOMAIN file : l > n => Small[file[l][1]] # u
    BY <1>2, <2>3, <2>4 DEF MembersLines
  <2>6. QED  BY <1>1, <1>2, <2>1, <2>4, <2>5 DEF MembersSoFar
<1>7. QED  BY <1>5, <1>6

----------------------------------------------------------------------------
(* quotes.txt: every list comes from a line, the last one of its stock.    *)
PricesRead(line) == [k \in DOMAIN PricesOn(line) |-> Number[PricesOn(line)[k]]]

QuotesSoFar ==
  /\ \A s \in DOMAIN quotes :
       \E n \in LinesRead : file[n][1] = s /\ quotes[s] = PricesRead(file[n])
  /\ server = "Q" /\ ~ended =>
       \A n \in LinesRead :
         (\A l \in LinesRead : l > n => file[l][1] # file[n][1])
           => /\ file[n][1] \in DOMAIN quotes
              /\ quotes[file[n][1]] = PricesRead(file[n])

LEMMA ReadStockKeeps ==
  ASSUME FileTyped, QuotesSoFar, ReadStock
  PROVE  QuotesSoFar'
<1>1. /\ next \in DOMAIN file
      /\ LinesRead' = LinesRead \cup {next}
      /\ \A n \in LinesRead : n < next /\ n \in DOMAIN file
      /\ server = "Q" /\ ~ended /\ UNCHANGED <<server, file>>
  BY OneLineMore DEF ReadStock
<1>2. PICK s, ps : s = file[next][1] /\ ps = PricesRead(file[next])
  OBVIOUS
<1>3. /\ DOMAIN quotes' = DOMAIN quotes \cup {s}
      /\ quotes'[s] = ps
      /\ \A v \in DOMAIN quotes : v # s => quotes'[v] = quotes[v]
  <2>1. FirstWord(file[next]) = s
    BY <1>1, <1>2, LineFacts DEF FirstWord
  <2>2. quotes' = [v \in DOMAIN quotes \cup {s} |-> IF v = s THEN ps ELSE quotes[v]]
    BY <1>2, <2>1 DEF ReadStock, Line, PricesRead
  <2>3. QED  BY <2>2
<1>4. ASSUME NEW v \in DOMAIN quotes'
      PROVE  \E n \in LinesRead' : file[n][1] = v /\ quotes'[v] = PricesRead(file[n])
  <2>1. CASE v = s  BY <1>1, <1>2, <1>3, <2>1
  <2>2. CASE v # s
    <3>1. v \in DOMAIN quotes /\ quotes'[v] = quotes[v]  BY <1>3, <2>2
    <3>2. QED  BY <1>1, <3>1 DEF QuotesSoFar
  <2>3. QED  BY <2>1, <2>2
<1>5. ASSUME NEW n \in LinesRead',
             \A l \in LinesRead' : l > n => file[l][1] # file[n][1]
      PROVE  /\ file[n][1] \in DOMAIN quotes'
             /\ quotes'[file[n][1]] = PricesRead(file[n])
  <2>1. CASE n = next  BY <1>2, <1>3, <2>1
  <2>2. CASE n # next
    <3>1. n \in LinesRead /\ n < next  BY <1>1, <2>2
    <3>2. next > n /\ next \in LinesRead'  BY <1>1, <3>1 DEF FileTyped
    <3>3. file[n][1] # s  BY <1>2, <1>5, <3>2
    <3>4. /\ file[n][1] \in DOMAIN quotes
          /\ quotes[file[n][1]] = PricesRead(file[n])
      BY <1>1, <1>5, <3>1 DEF QuotesSoFar
    <3>5. QED  BY <1>3, <3>3, <3>4
  <2>3. QED  BY <2>1, <2>2
<1>6. QED  BY <1>1, <1>4, <1>5 DEF QuotesSoFar

(* What there is of prices on a line of two words or more.                 *)
LEMMA PricesOfLine ==
  ASSUME FileTyped, NEW n \in DOMAIN file, NEW len, len = Len(file[n]), len > 1
  PROVE  /\ \A k \in 2 .. len : file[n][k] # "" =>
              /\ k - 1 \in DOMAIN PricesOn(file[n])
              /\ PricesOn(file[n])[k - 1] = file[n][k]
         /\ (len > 2 \/ file[n][2] # "") => 1 \in DOMAIN PricesOn(file[n])
<1>1. file[n] \in Seq(Words) /\ len \in Nat /\ file[n] # <<>>
  BY LineFacts
<1>2. PICK prices : prices = Tail(file[n])  OBVIOUS
<1>3. /\ prices \in Seq(Words) /\ Len(prices) = len - 1
      /\ \A k \in 1 .. len - 1 : prices[k] = file[n][k + 1]
  BY <1>1, <1>2
<1>4. PricesOn(file[n])
        = IF file[n][len] = "" THEN SubSeq(prices, 1, len - 2) ELSE prices
  <2>1. AfterFirst(file[n]) = prices  BY <1>2 DEF AfterFirst, HasBlank
  <2>2. len - 1 \in 1 .. len - 1 /\ (len - 1) + 1 = len  BY <1>1
  <2>3. prices[len - 1] = file[n][len]  BY <1>3, <2>2
  <2>4. Last(prices) = file[n][len]  BY <1>3, <2>3 DEF Last
  <2>5. Front(prices) = SubSeq(prices, 1, len - 2)
    <3>1. (len - 1) - 1 = len - 2  BY <1>1
    <3>2. QED  BY <1>3, <3>1 DEF Front
  <2>6. QED  BY <2>1, <2>4, <2>5 DEF PricesOn
<1>5. /\ DOMAIN SubSeq(prices, 1, len - 2) = 1 .. len - 2
      /\ \A k \in 1 .. len - 2 : SubSeq(prices, 1, len - 2)[k] = prices[k]
  <2>1. /\ SubSeq(prices, 1, len - 2) = [k \in 1 .. (len - 2 - 1 + 1) |-> prices[1 + k - 1]]
        /\ len - 2 - 1 + 1 = len - 2
    BY <1>1, <1>3
  <2>2. \A k \in 1 .. len - 2 : 1 + k - 1 = k  BY <1>1
  <2>3. QED  BY <2>1, <2>2
<1>6. DOMAIN prices = 1 .. len - 1  BY <1>1, <1>3
<1>7. ASSUME NEW k \in 2 .. len, file[n][k] # ""
      PROVE  /\ k - 1 \in DOMAIN PricesOn(file[n])
             /\ PricesOn(file[n])[k - 1] = file[n][k]
  <2>1. k - 1 \in 1 .. len - 1 /\ (k - 1) + 1 = k  BY <1>1
  <2>2. prices[k - 1] = file[n][k]  BY <1>3, <2>1
  <2>3. CASE file[n][len] = ""
    <3>1. k # len  BY <1>7, <2>3
    <3>2. k - 1 \in 1 .. len - 2  BY <1>1, <3>1
    <3>3. QED  BY <1>4, <1>5, <2>2, <2>3, <3>2
  <2>4. CASE file[n][len] # ""  BY <1>4, <1>6, <2>1, <2>2, <2>4
  <2>5. QED  BY <2>3, <2>4
<1>8. ASSUME len > 2 \/ file[n][2] # ""  PROVE 1 \in DOMAIN PricesOn(file[n])
  <2>1. CASE file[n][len] = ""
    <3>1. len # 2
      <4>1. ASSUME len = 2 PROVE FALSE
        <5>1. file[n][2] = ""  BY <2>1, <4>1
        <5>2. len > 2  BY <1>8, <5>1
        <5>3. QED  BY <4>1, <5>2
      <4>2. QED  BY <4>1
    <3>2. 1 \in 1 .. len - 2  BY <1>1, <3>1
    <3>3. QED  BY <1>4, <1>5, <2>1, <3>2
  <2>2. CASE file[n][len] # ""
    <3>1. 1 \in 1 .. len - 1  BY <1>1
    <3>2. QED  BY <1>4, <1>6, <2>2, <3>1
  <2>3. QED  BY <2>1, <2>2
<1>9. QED  BY <1>7, <1>8

LEMMA QuotesAtTheEnd ==
  ASSUME FileTyped, QuotesSoFar
  PROVE  PricesAreListed
<1> SUFFICES ASSUME AllRead("Q"), NEW s \in Words, QuotesLines(s) # {}
             PROVE  LET line == file[Max(QuotesLines(s))]
                    IN  /\ s \in DOMAIN quotes
                        /\ \A k \in 2 .. Len(line) : line[k] # "" =>
                             /\ k - 1 \in DOMAIN quotes[s]
                             /\ quotes[s][k - 1] = Number[line[k]]
  BY DEF PricesAreListed
<1>1. server = "Q" /\ ~ended /\ next > Len(file)  BY DEF AllRead
<1>2. LinesRead = DOMAIN file /\ DOMAIN file = 1 .. Len(file) /\ Len(file) \in Nat
  BY <1>1, AllLinesRead
<1>3. PICK n : n = Max(QuotesLines(s))  OBVIOUS
<1>4. QuotesLines(s) \in SUBSET (1 .. Len(file))  BY <1>2 DEF QuotesLines
<1>5. n \in QuotesLines(s) /\ \A l \in QuotesLines(s) : n >= l
  BY <1>2, <1>3, <1>4, MaxExists
<1>6. n \in DOMAIN file /\ file[n][1] = s  BY <1>5 DEF QuotesLines
<1>7. \A l \in DOMAIN file : l > n => file[l][1] # s
  BY <1>2, <1>5, <1>6 DEF QuotesLines
<1>8. s \in DOMAIN quotes /\ quotes[s] = PricesRead(file[n])
  BY <1>1, <1>2, <1>6, <1>7 DEF QuotesSoFar
<1>9. ASSUME NEW k \in 2 .. Len(file[n]), file[n][k] # ""
      PROVE  k - 1 \in DOMAIN quotes[s] /\ quotes[s][k - 1] = Number[file[n][k]]
  <2>1. Len(file[n]) \in Nat /\ Len(file[n]) > 1  BY <1>6, LineFacts
  <2>2. /\ k - 1 \in DOMAIN PricesOn(file[n])
        /\ PricesOn(file[n])[k - 1] = file[n][k]
    BY <1>6, <1>9, <2>1, PricesOfLine
  <2>3. QED  BY <1>8, <2>2 DEF PricesRead
<1>10. QED  BY <1>3, <1>8, <1>9

LEMMA CarefulLinesHavePrices ==
  ASSUME FileTyped, QuotesSoFar
  PROVE  NoEmptyList
<1> SUFFICES ASSUME \A n \in DOMAIN file : Careful(file[n]),
                    NEW s \in DOMAIN quotes, quotes[s] = <<>>
             PROVE  FALSE
  BY DEF NoEmptyList
<1>1. PICK n \in LinesRead : quotes[s] = PricesRead(file[n])  BY DEF QuotesSoFar
<1>2. n \in DOMAIN file /\ Careful(file[n])  BY DEF LinesRead
<1>3. PICK line : line = file[n]  OBVIOUS
<1>4. line \in Seq(Words) /\ Len(line) \in Nat \ {0} /\ DOMAIN line = 1 .. Len(line)
  BY <1>2, <1>3, LineFacts
<1>5. 1 \in DOMAIN PricesOn(line)
  <2>1. CASE Len(line) = 1
    <3>1. AfterFirst(line) = line  BY <2>1 DEF AfterFirst, HasBlank
    <3>2. line[1] # ""
      <4>1. ASSUME line[1] = "" PROVE line = <<"">>
        <5>0. PICK none \in Words : none = ""  BY WordsAssumption
        <5>1. PICK e : e = <<none>>  OBVIOUS
        <5>2. e \in Seq(Words) /\ Len(e) = 1 /\ e[1] = none  BY <5>1
        <5>3. line \in Seq(Words) /\ Len(line) = 1  BY <1>4, <2>1
        <5>4. \A k \in 1 .. Len(line) : k = 1  BY <5>3
        <5>5. \A k \in 1 .. Len(line) : line[k] = e[k]
          BY <4>1, <5>0, <5>2, <5>4
        <5>6. line = e  BY <5>2, <5>3, <5>5, SeqEqual
        <5>7. QED  BY <5>0, <5>1, <5>6
      <4>2. QED  BY <1>2, <1>3, <4>1 DEF Careful, EmptyLine
    <3>3. PricesOn(line) = line  BY <2>1, <3>1, <3>2 DEF PricesOn, Last
    <3>4. QED  BY <1>4, <2>1, <3>3
  <2>2. CASE Len(line) > 1
    <3>1. ~(Len(line) = 2 /\ line[2] = "")  BY <1>2, <1>3 DEF Careful
    <3>2. Len(line) # 2 => Len(line) > 2  BY <1>4, <2>2
    <3>3. Len(line) > 2 \/ line[2] # ""  BY <3>1, <3>2
    <3>4. QED  BY <1>2, <1>3, <2>2, <3>3, PricesOfLine
  <2>3. QED  BY <1>4, <2>1, <2>2
<1>6. 1 \in DOMAIN PricesRead(line)  BY <1>5 DEF PricesRead
<1>7. 1 \notin DOMAIN <<>>  OBVIOUS
<1>8. QED  BY <1>1, <1>3, <1>6, <1>7

----------------------------------------------------------------------------
(* portfolios.txt: the positions of user line m among the first n lines.   *)
PositionsTo(f, m, n) ==
  f = [k \in 0 .. n |-> IF k = 0 THEN <<>>
                        ELSE IF IsPositionOf(m, k) THEN Append(f[k - 1], Position(file[k]))
                        ELSE f[k - 1]]

LEMMA PositionsExist ==
  ASSUME NEW m
  PROVE  \A n \in Nat : \E f : PositionsTo(f, m, n)
<1> DEFINE Bad == {n \in Nat : ~ \E f : PositionsTo(f, m, n)}
<1>1. SUFFICES ASSUME Bad # {} PROVE FALSE  OBVIOUS
<1>2. PICK n \in Bad : \A k \in Bad : n =< k  BY <1>1, LeastExists
<1>3. n # 0
  <2> DEFINE f == [k \in 0 .. 0 |-> <<>>]
  <2>1. PositionsTo(f, m, 0)  BY DEF PositionsTo
  <2>2. QED  BY <1>2, <2>1
<1>4. n - 1 \in Nat /\ n - 1 \notin Bad  BY <1>2, <1>3
<1>5. PICK f : PositionsTo(f, m, n - 1)  BY <1>4
<1> DEFINE last == IF IsPositionOf(m, n) THEN Append(f[n - 1], Position(file[n]))
                   ELSE f[n - 1]
           g == [k \in 0 .. n |-> IF k = n THEN last ELSE f[k]]
<1>6. ASSUME NEW k \in 0 .. n
      PROVE  g[k] = IF k = 0 THEN <<>>
                    ELSE IF IsPositionOf(m, k) THEN Append(g[k - 1], Position(file[k]))
                    ELSE g[k - 1]
  <2>1. CASE k = n  BY <1>3, <1>4, <2>1
  <2>2. CASE k # n
    <3>1. k \in 0 .. n - 1 /\ g[k] = f[k]  BY <1>4, <2>2
    <3>2. f[k] = IF k = 0 THEN <<>>
                 ELSE IF IsPositionOf(m, k) THEN Append(f[k - 1], Position(file[k]))
                 ELSE f[k - 1]
      BY <1>5, <3>1 DEF PositionsTo
    <3>3. k # 0 => k - 1 \in 0 .. n - 1 /\ g[k - 1] = f[k - 1]
      BY <1>4, <3>1
    <3> HIDE DEF g
    <3>4. QED  BY <3>1, <3>2, <3>3
  <2>3. QED  BY <2>1, <2>2
<1>7. PositionsTo(g, m, n)  BY <1>6 DEF PositionsTo
<1>8. QED  BY <1>2, <1>7

LEMMA SamePositions ==
  ASSUME UNCHANGED file, NEW m, NEW f, PositionsTo(f, m, Len(file))'
  PROVE  PositionsTo(f, m, Len(file))
<1>1. ASSUME NEW k PROVE IsPositionOf(m, k)' <=> IsPositionOf(m, k)
  BY DEF IsPositionOf, UserLines
<1>2. QED  BY <1>1 DEF PositionsTo

(* What line n adds to the positions of user line m. *)
LEMMA PositionsStep ==
  ASSUME NEW m, NEW n \in Nat, NEW f, PositionsTo(f, m, n), NEW k \in 1 .. n
  PROVE  /\ IsPositionOf(m, k) => f[k] = Append(f[k - 1], Position(file[k]))
         /\ ~IsPositionOf(m, k) => f[k] = f[k - 1]
<1>1. k \in 0 .. n /\ k # 0  OBVIOUS
<1>2. QED  BY <1>1 DEF PositionsTo

LEMMA NoPositionsAbove ==
  ASSUME NEW m \in Nat, NEW n \in Nat, m <= n, NEW f, PositionsTo(f, m, n)
  PROVE  f[m] = <<>>
<1> DEFINE Bad == {k \in 0 .. m : f[k] # <<>>}
<1>1. SUFFICES ASSUME Bad # {} PROVE FALSE  OBVIOUS
<1>2. PICK k \in Bad : \A l \in Bad : k =< l
  <2>1. Bad \in SUBSET Nat  OBVIOUS
  <2>2. QED  BY <1>1, <2>1, LeastExists
<1>3. k # 0
  <2>1. 0 \in 0 .. n  OBVIOUS
  <2>2. f[0] = <<>>  BY <2>1 DEF PositionsTo
  <2>3. QED  BY <1>2, <2>2
<1>4. k \in 1 .. n /\ k - 1 \in 0 .. m /\ k - 1 \notin Bad  BY <1>2, <1>3
<1>5. ~IsPositionOf(m, k)  BY <1>2 DEF IsPositionOf
<1>6. f[k] = f[k - 1]  BY <1>4, <1>5, PositionsStep
<1>7. QED  BY <1>2, <1>4, <1>6

(* The user lines above line n.                                            *)
UsersAbove(n) == {m \in UserLines : m < n}

(* The map pf holds the users above line top, of two lines of one user the *)
(* later one, with their positions among the first n lines.                *)
Stored(pf, top, n) ==
  /\ DOMAIN pf = {LowerLine(file[m]) : m \in UsersAbove(top)}
  /\ \A m \in UsersAbove(top) :
       (\A l \in UsersAbove(top) : l > m => LowerLine(file[l]) # LowerLine(file[m]))
         => \A f : PositionsTo(f, m, Len(file)) => pf[LowerLine(file[m])] = f[n]

NobodyYet == /\ userID = Nobody /\ UsersAbove(next) = {}
             /\ portfolio = [u \in {} |-> <<>>]

ReadsOf(top) ==
  /\ top \in UsersAbove(next) /\ \A l \in UsersAbove(next) : l <= top
  /\ userID = LowerLine(file[top])
  /\ \A f : PositionsTo(f, top, Len(file)) => stocks = f[next - 1]
  /\ Stored(portfolio, top, next - 1)

PortfoliosSoFar ==
  /\ server = "P" /\ ~ended /\ ~returned =>
       NobodyYet \/ \E top \in DOMAIN file : ReadsOf(top)
  /\ returned => next > Len(file) /\ Stored(portfolio, next, Len(file))

(* A user's name is not empty, so that it is told from nobody. *)
LEMMA UserIsSomebody ==
  ASSUME FileTyped, NEW m \in UserLines
  PROVE  LowerLine(file[m]) # Nobody
<1>1. m \in DOMAIN file /\ IsUser(file[m])  BY DEF UserLines
<1>2. PICK line : line = file[m]  OBVIOUS
<1>3. /\ line \in Seq(Words) /\ Len(line) \in Nat \ {0} /\ DOMAIN line = 1 .. Len(line)
      /\ \A k \in 1 .. Len(line) : line[k] \in Words
  BY <1>1, <1>2, LineFacts
<1>4. line # <<"">>  BY <1>1, <1>2 DEF IsUser, EmptyLine
<1>5. SUFFICES ASSUME LowerLine(line) = <<"">> PROVE FALSE
  BY <1>2 DEF Nobody, EmptyLine
<1>6. PICK none \in Words : none = ""  BY WordsAssumption
<1>7. PICK e : e = <<none>>  OBVIOUS
<1>8. e \in Seq(Words) /\ Len(e) = 1 /\ e[1] = none  BY <1>7
<1>9. LowerLine(line) = e  BY <1>5, <1>6, <1>7
<1>10. DOMAIN line = DOMAIN e /\ \A k \in DOMAIN line : e[k] = Small[line[k]]
  BY <1>9 DEF LowerLine
<1>11. Len(line) = 1
  <2>1. DOMAIN e = 1 .. 1  BY <1>8
  <2>2. DOMAIN line = 1 .. 1  BY <1>10, <2>1
  <2>3. Len(line) \in DOMAIN line  BY <1>3
  <2>4. QED  BY <2>2, <2>3
<1>12. line[1] = none
  <2>1. 1 \in DOMAIN line  BY <1>3, <1>11
  <2>2. Small[line[1]] = none  BY <1>8, <1>10, <2>1
  <2>3. line[1] \in Words  BY <1>3, <2>1
  <2>4. \A v \in Words : Small[v] = none => v = none  BY <1>6, WordsAssumption
  <2>5. QED  BY <2>2, <2>3, <2>4
<1>13. \A k \in 1 .. Len(line) : line[k] = e[k]
  <2>1. \A k \in 1 .. 1 : k = 1  OBVIOUS
  <2>2. QED  BY <1>8, <1>11, <1>12, <2>1
<1>14. line = e  BY <1>3, <1>8, <1>11, <1>13, SeqEqual
<1>15. QED  BY <1>6, <1>7, <1>14, <1>4

(* When the user above line next is put into the map, it holds the users   *)
(* above that line.                                                        *)
LEMMA SavedIsStored ==
  ASSUME FileTyped, NobodyYet \/ \E top \in DOMAIN file : ReadsOf(top)
  PROVE  Stored(Saved, next, next - 1)
<1>1. CASE NobodyYet
  <2>1. Saved = portfolio /\ DOMAIN portfolio = {} /\ UsersAbove(next) = {}
    BY <1>1 DEF NobodyYet, Saved
  <2>2. QED  BY <2>1 DEF Stored
<1>2. ASSUME NEW top \in DOMAIN file, ReadsOf(top) PROVE Stored(Saved, next, next - 1)
  <2>1. /\ top \in UsersAbove(next) /\ \A l \in UsersAbove(next) : l <= top
        /\ userID = LowerLine(file[top])
        /\ \A f : PositionsTo(f, top, Len(file)) => stocks = f[next - 1]
        /\ Stored(portfolio, top, next - 1)
    BY <1>2 DEF ReadsOf
  <2>2. top \in UserLines /\ top < next /\ UserLines \subseteq Nat /\ next \in Nat
    BY <2>1 DEF UsersAbove, UserLines, FileTyped
  <2>3. UsersAbove(next) = UsersAbove(top) \cup {top}
    BY <2>1, <2>2 DEF UsersAbove
  <2>4. \A m \in UsersAbove(top) : m < top /\ top > m /\ m \in UsersAbove(next)
    BY <2>2, <2>3 DEF UsersAbove
  <2>5. userID # Nobody  BY <2>1, <2>2, UserIsSomebody
  <2>6. /\ DOMAIN Saved = DOMAIN portfolio \cup {userID}
        /\ Saved[userID] = stocks
        /\ \A u \in DOMAIN portfolio : u # userID => Saved[u] = portfolio[u]
    BY <2>5 DEF Saved
  <2>7. DOMAIN Saved = {LowerLine(file[m]) : m \in UsersAbove(next)}
    BY <2>1, <2>3, <2>6 DEF Stored
  <2>8. ASSUME NEW m \in UsersAbove(next),
               \A l \in UsersAbove(next) : l > m => LowerLine(file[l]) # LowerLine(file[m]),
               NEW f, PositionsTo(f, m, Len(file))
        PROVE  Saved[LowerLine(file[m])] = f[next - 1]
    <3>1. CASE m = top  BY <2>1, <2>6, <2>8, <3>1
    <3>2. CASE m # top
      <4>1. m \in UsersAbove(top)  BY <2>3, <3>2
      <4>2. LowerLine(file[m]) # userID  BY <2>1, <2>4, <2>8, <4>1
      <4>3. portfolio[LowerLine(file[m])] = f[next - 1]
        BY <2>1, <2>4, <2>8, <4>1 DEF Stored
      <4>4. LowerLine(file[m]) \in DOMAIN portfolio  BY <2>1, <4>1 DEF Stored
      <4>5. QED  BY <2>6, <4>2, <4>3, <4>4
    <3>3. QED  BY <3>1, <3>2
  <2>9. QED  BY <2>7, <2>8 DEF Stored
<1>3. QED  BY <1>1, <1>2

(* A line that is no position of the users stored adds nothing to theirs.  *)
LEMMA StoredGrows ==
  ASSUME FileTyped, next \in DOMAIN file, NEW pf, NEW top, Stored(pf, top, next - 1),
         \A m \in UsersAbove(top) : ~IsPositionOf(m, next)
  PROVE  Stored(pf, top, next)
<1>1. Len(file) \in Nat /\ next \in 1 .. Len(file)  BY DEF FileTyped
<1>2. ASSUME NEW m \in UsersAbove(top), NEW f, PositionsTo(f, m, Len(file))
      PROVE  f[next] = f[next - 1]
  BY <1>1, <1>2, PositionsStep
<1>3. QED  BY <1>2 DEF Stored

LEMMA StoredStays ==
  ASSUME UNCHANGED file, NEW pf, NEW top, NEW n, Stored(pf, top, n)
  PROVE  Stored(pf, top, n)'
<1>1. UsersAbove(top)' = UsersAbove(top)  BY DEF UsersAbove, UserLines
<1>2. ASSUME NEW m, NEW f, PositionsTo(f, m, Len(file))'
      PROVE  PositionsTo(f, m, Len(file))
  BY <1>2, SamePositions
<1>3. QED  BY <1>1, <1>2 DEF Stored

----------------------------------------------------------------------------
LEMMA ReadUserKeeps ==
  ASSUME FileTyped, PortfoliosSoFar, ReadUser
  PROVE  PortfoliosSoFar'
<1>1. /\ next \in DOMAIN file /\ next' = next + 1
      /\ server = "P" /\ ~ended /\ UNCHANGED <<server, file, ended, returned>>
      /\ IsUser(file[next])
      /\ portfolio' = Saved /\ userID' = LowerLine(file[next]) /\ stocks' = <<>>
  BY OneLineMore DEF ReadUser, Line
<1>2. NobodyYet \/ \E top \in DOMAIN file : ReadsOf(top)
  BY <1>1 DEF PortfoliosSoFar
<1>3. PICK pf, n : pf = Saved /\ n = next  OBVIOUS
<1>4. n \in UserLines /\ n \in Nat /\ n \in 1 .. Len(file) /\ Len(file) \in Nat
  BY <1>1, <1>3 DEF UserLines, FileTyped
<1>5. Stored(pf, n, n)
  <2>1. Stored(pf, n, next - 1)  BY <1>2, <1>3, SavedIsStored
  <2>2. \A m \in UsersAbove(n) : ~IsPositionOf(m, next)
    BY <1>1 DEF IsPositionOf, IsPosition, IsUser
  <2>3. QED  BY <1>1, <1>3, <2>1, <2>2, StoredGrows
<1>6. Stored(portfolio, n, next - 1)'
  <2>1. Stored(pf, n, n)'  BY <1>1, <1>5, StoredStays
  <2>2. portfolio' = pf /\ next' - 1 = n  BY <1>1, <1>3, <1>4
  <2>3. QED  BY <2>1, <2>2
<1>7. UsersAbove(next)' = UsersAbove(next) \cup {n}
  <2>1. \A m \in UserLines : m < next' <=> m < next \/ m = n
    BY <1>1, <1>3 DEF UserLines, FileTyped
  <2>2. UserLines' = UserLines  BY <1>1 DEF UserLines
  <2>3. QED  BY <1>4, <2>1, <2>2 DEF UsersAbove
<1>8. \A l \in UsersAbove(next) : l <= n
  BY <1>3 DEF UsersAbove, UserLines, FileTyped
<1>9. ASSUME NEW f, PositionsTo(f, n, Len(file))' PROVE stocks' = f[next' - 1]
  <2>1. PositionsTo(f, n, Len(file))  BY <1>1, <1>9, SamePositions
  <2>2. f[n] = <<>>  BY <1>4, <2>1, NoPositionsAbove
  <2>3. next' - 1 = n  BY <1>1, <1>3, <1>4
  <2>4. QED  BY <1>1, <2>2, <2>3
<1>10. ReadsOf(n)'
  <2>1. n \in UsersAbove(next)' /\ \A l \in UsersAbove(next)' : l <= n
    BY <1>4, <1>7, <1>8
  <2>2. userID' = LowerLine(file'[n])  BY <1>1, <1>3
  <2>3. QED  BY <1>6, <1>9, <2>1, <2>2 DEF ReadsOf
<1>11. n \in DOMAIN file'  BY <1>1, <1>3
<1>12. ~returned'  BY <1>1, <1>3, <1>4 DEF PortfoliosSoFar
<1>13. QED  BY <1>10, <1>11, <1>12 DEF PortfoliosSoFar

(* A position goes to the user whose positions are being read; an empty    *)
(* line changes nothing.                                                   *)
LEMMA OtherLineKeeps ==
  ASSUME FileTyped, PortfoliosSoFar, GetLine("P"), ~IsUser(Line),
         UNCHANGED <<portfolio, userID, ended, returned>>,
         stocks' = IF IsPosition(Line) THEN Append(stocks, Position(Line)) ELSE stocks
  PROVE  PortfoliosSoFar'
<1>1. /\ next \in DOMAIN file /\ next' = next + 1
      /\ server = "P" /\ ~ended /\ UNCHANGED <<server, file>>
  BY OneLineMore
<1>2. next \in 1 .. Len(file) /\ Len(file) \in Nat /\ next' - 1 = next
  BY <1>1 DEF FileTyped
<1>3. ~returned /\ ~returned'  BY <1>2 DEF PortfoliosSoFar
<1>4. UsersAbove(next)' = UsersAbove(next)
  <2>1. UserLines' = UserLines /\ next \notin UserLines
    BY <1>1 DEF UserLines, Line
  <2>2. \A m \in UserLines : m < next' <=> m < next
    BY <1>1, <2>1 DEF UserLines, FileTyped
  <2>3. QED  BY <2>1, <2>2 DEF UsersAbove
<1>5. CASE NobodyYet
  <2>1. NobodyYet'  BY <1>4, <1>5 DEF NobodyYet
  <2>2. QED  BY <1>3, <2>1 DEF PortfoliosSoFar
<1>6. ASSUME NEW top \in DOMAIN file, ReadsOf(top) PROVE PortfoliosSoFar'
  <2>1. /\ top \in UsersAbove(next) /\ \A l \in UsersAbove(next) : l <= top
        /\ userID = LowerLine(file[top])
        /\ \A f : PositionsTo(f, top, Len(file)) => stocks = f[next - 1]
        /\ Stored(portfolio, top, next - 1)
    BY <1>6 DEF ReadsOf
  <2>2. top \in UserLines /\ top < next /\ UserLines \subseteq Nat
    BY <1>2, <2>1 DEF UsersAbove, UserLines, FileTyped
  <2>3. IsPosition(file[next]) <=> IsPositionOf(top, next)
    BY <2>1, <2>2 DEF IsPositionOf, UsersAbove
  <2>4. ASSUME NEW f, PositionsTo(f, top, Len(file))' PROVE stocks' = f[next' - 1]
    <3>1. PositionsTo(f, top, Len(file))  BY <1>1, <2>4, SamePositions
    <3>2. stocks = f[next - 1]  BY <2>1, <3>1
    <3>3. /\ IsPositionOf(top, next) => f[next] = Append(f[next - 1], Position(file[next]))
          /\ ~IsPositionOf(top, next) => f[next] = f[next - 1]
      BY <1>2, <3>1, PositionsStep
    <3>4. stocks' = f[next]  BY <2>3, <3>2, <3>3 DEF Line
    <3>5. QED  BY <1>2, <3>4
  <2>5. PICK pf, n : pf = portfolio /\ n = next  OBVIOUS
  <2>6. Stored(pf, top, n)
    <3>1. \A m \in UsersAbove(top) : ~IsPositionOf(m, next)
      BY <2>2 DEF IsPositionOf, UsersAbove
    <3>2. Stored(pf, top, next - 1)  BY <2>1, <2>5
    <3>3. QED  BY <1>1, <2>5, <3>1, <3>2, StoredGrows
  <2>7. Stored(portfolio, top, next - 1)'
    <3>1. Stored(pf, top, n)'  BY <1>1, <2>6, StoredStays
    <3>2. portfolio' = pf /\ next' - 1 = n  BY <1>2, <2>5
    <3>3. QED  BY <3>1, <3>2
  <2>8. ReadsOf(top)'
    <3>1. top \in UsersAbove(next)' /\ \A l \in UsersAbove(next)' : l <= top
      BY <1>4, <2>1
    <3>2. userID' = LowerLine(file'[top])  BY <1>1, <2>1
    <3>3. QED  BY <2>4, <2>7, <3>1, <3>2 DEF ReadsOf
  <2>9. top \in DOMAIN file'  BY <1>1
  <2>10. QED  BY <1>3, <2>8, <2>9 DEF PortfoliosSoFar
<1>7. QED  BY <1>1, <1>3, <1>5, <1>6 DEF PortfoliosSoFar

LEMMA FinishKeeps ==
  ASSUME FileTyped, PortfoliosSoFar, Finish
  PROVE  PortfoliosSoFar'
<1>1. /\ server = "P" /\ ~ended /\ next > Len(file) /\ ~returned /\ returned'
      /\ portfolio' = Saved /\ UNCHANGED <<server, file, next>>
  BY DEF Finish, AllRead, fileVars
<1>2. NobodyYet \/ \E top \in DOMAIN file : ReadsOf(top)
  BY <1>1 DEF PortfoliosSoFar
<1>3. next - 1 = Len(file)  BY <1>1 DEF FileTyped
<1>4. PICK pf, n, len : pf = Saved /\ n = next /\ len = Len(file)  OBVIOUS
<1>5. Stored(pf, n, len)  BY <1>2, <1>3, <1>4, SavedIsStored
<1>6. Stored(pf, n, len)'  BY <1>1, <1>5, StoredStays
<1>7. Stored(portfolio, next, Len(file))'  BY <1>1, <1>4, <1>6
<1>8. QED  BY <1>1, <1>7 DEF PortfoliosSoFar

(* Nothing about portfolios.txt changes. *)
LEMMA ElsewhereKeeps ==
  ASSUME PortfoliosSoFar, UNCHANGED <<file, portfolioVars, server>>,
         returned => UNCHANGED next,
         server # "P" \/ ended' = TRUE \/ UNCHANGED <<next, ended>>
  PROVE  PortfoliosSoFar'
<1>1. UNCHANGED <<portfolio, userID, stocks, returned>>  BY DEF portfolioVars
<1>2. ASSUME NEW top, NEW n PROVE Stored(portfolio, top, n) => Stored(portfolio, top, n)'
  <2>1. PICK pf : pf = portfolio  OBVIOUS
  <2>2. Stored(pf, top, n) => Stored(pf, top, n)'  BY StoredStays
  <2>3. QED  BY <1>1, <2>1, <2>2
<1>3. ASSUME returned'
      PROVE  next' > Len(file') /\ Stored(portfolio, next, Len(file))'
  <2>1. PICK n, len : n = next /\ len = Len(file)  OBVIOUS
  <2>2. returned /\ next' = next /\ next > Len(file) /\ Stored(portfolio, n, len)
    BY <1>1, <1>3, <2>1 DEF PortfoliosSoFar
  <2>3. Stored(portfolio, n, len)'  BY <1>2, <2>2
  <2>4. QED  BY <2>1, <2>2, <2>3
<1>4. ASSUME server' = "P", ~ended', ~returned'
      PROVE  (NobodyYet \/ \E top \in DOMAIN file : ReadsOf(top))'
  <2>1. UNCHANGED <<next, ended>> /\ server = "P" /\ ~ended /\ ~returned
    BY <1>1, <1>4
  <2>2. UsersAbove(next)' = UsersAbove(next)  BY <2>1 DEF UsersAbove, UserLines
  <2>3. CASE NobodyYet  BY <1>1, <2>2, <2>3 DEF NobodyYet
  <2>4. ASSUME NEW top \in DOMAIN file, ReadsOf(top) PROVE ReadsOf(top)'
    <3>1. PICK n : n = next - 1  OBVIOUS
    <3>2. Stored(portfolio, top, n)'  BY <1>2, <2>4, <3>1 DEF ReadsOf
    <3>3. Stored(portfolio, top, next - 1)'  BY <2>1, <3>1, <3>2
    <3>4. ASSUME NEW f, PositionsTo(f, top, Len(file))' PROVE stocks' = f[next' - 1]
      <4>1. PositionsTo(f, top, Len(file))  BY <3>4, SamePositions
      <4>2. stocks = f[next - 1]  BY <2>4, <4>1 DEF ReadsOf
      <4>3. QED  BY <1>1, <2>1, <4>2
    <3>5. /\ top \in UsersAbove(next)' /\ \A l \in UsersAbove(next)' : l <= top
          /\ userID' = LowerLine(file'[top])
      BY <1>1, <2>2, <2>4 DEF ReadsOf
    <3>6. QED  BY <3>3, <3>4, <3>5 DEF ReadsOf
  <2>5. NobodyYet \/ \E top \in DOMAIN file : ReadsOf(top)
    BY <2>1 DEF PortfoliosSoFar
  <2>6. QED  BY <2>3, <2>4, <2>5
<1>5. QED  BY <1>3, <1>4 DEF PortfoliosSoFar

LEMMA PortfoliosAtTheEnd ==
  ASSUME FileTyped, PortfoliosSoFar
  PROVE  EachOwnsTheirs
<1> SUFFICES ASSUME returned
             PROVE  /\ DOMAIN portfolio = {LowerLine(file[m]) : m \in UserLines}
                    /\ \A m \in UserLines :
                         (\A n \in UserLines : n > m => LowerLine(file[n]) # LowerLine(file[m]))
                           => portfolio[LowerLine(file[m])] = PositionsOf(m)
  BY DEF EachOwnsTheirs
<1>1. next > Len(file) /\ Stored(portfolio, next, Len(file))  BY DEF PortfoliosSoFar
<1>2. UsersAbove(next) = UserLines
  BY <1>1, AllLinesRead DEF UsersAbove, UserLines, LinesRead
<1>3. ASSUME NEW m \in UserLines,
             \A n \in UserLines : n > m => LowerLine(file[n]) # LowerLine(file[m])
      PROVE  portfolio[LowerLine(file[m])] = PositionsOf(m)
  <2> DEFINE g == CHOOSE g : g = [k \in 0 .. Len(file) |->
                    IF k = 0 THEN <<>>
                    ELSE IF IsPositionOf(m, k) THEN Append(g[k - 1], Position(file[k]))
                    ELSE g[k - 1]]
  <2>1. Len(file) \in Nat  BY DEF FileTyped
  <2>2. PositionsTo(g, m, Len(file))  BY <2>1, PositionsExist DEF PositionsTo
  <2>3. PositionsOf(m) = g[Len(file)]  BY DEF PositionsOf
  <2> HIDE DEF g
  <2>4. QED  BY <1>1, <1>2, <1>3, <2>2, <2>3 DEF Stored
<1>4. QED  BY <1>1, <1>2, <1>3 DEF Stored

----------------------------------------------------------------------------
FilesInv == FileTyped /\ MembersSoFar /\ QuotesSoFar /\ PortfoliosSoFar

LEMMA FilesStart == StartUpInit => FilesInv
<1> SUFFICES ASSUME StartUpInit PROVE FilesInv  OBVIOUS
<1>1. FileTyped /\ LinesRead = {} /\ next = 1
  BY FileStarts DEF StartUpInit, FileInit
<1>2. MembersSoFar /\ QuotesSoFar
  BY <1>1 DEF StartUpInit, MembersInit, QuotesInit, MembersSoFar, QuotesSoFar
<1>3. UsersAbove(next) = {}
  BY <1>1 DEF UsersAbove, UserLines, FileTyped
<1>4. PortfoliosSoFar
  BY <1>3 DEF StartUpInit, PortfoliosInit, PortfoliosSoFar, NobodyYet
<1>5. QED  BY <1>1, <1>2, <1>4 DEF FilesInv

LEMMA FilesNextKeeps ==
  ASSUME FilesInv, [StartUpNext]_startUpVars
  PROVE  FilesInv'
<1>1. FileTyped /\ MembersSoFar /\ QuotesSoFar /\ PortfoliosSoFar  BY DEF FilesInv
<1>2. ASSUME NEW s, GetLine(s)
      PROVE  /\ FileTyped' /\ ~returned /\ ~ended /\ server = s
             /\ UNCHANGED <<server, file>> /\ LinesRead \subseteq LinesRead'
  <2>1. next <= Len(file)  BY <1>2 DEF GetLine
  <2>2. ~returned  BY <1>1, <2>1 DEF PortfoliosSoFar, FileTyped
  <2>3. QED  BY <1>1, <1>2, <2>2, OneLineMore
<1>3. ASSUME UNCHANGED <<server, file, quotes, ended>>, LinesRead \subseteq LinesRead',
             server # "Q" \/ ended
      PROVE  QuotesSoFar'
  BY <1>1, <1>3 DEF QuotesSoFar
<1>4. ASSUME UNCHANGED <<server, loginInfo>>, server # "A" PROVE MembersSoFar'
  BY <1>4 DEF MembersSoFar
<1>5. CASE ReadMember /\ UNCHANGED <<quotes, portfolioVars>>
  <2>1. GetLine("A") /\ UNCHANGED ended  BY <1>5 DEF ReadMember
  <2>2. /\ FileTyped' /\ ~returned /\ server = "A" /\ UNCHANGED <<server, file>>
        /\ LinesRead \subseteq LinesRead'
    BY <1>2, <2>1
  <2>3. MembersSoFar'  BY <1>1, <1>5, ReadMemberKeeps
  <2>4. QuotesSoFar'  BY <1>3, <1>5, <2>1, <2>2
  <2>5. PortfoliosSoFar'  BY <1>1, <1>5, <2>2, ElsewhereKeeps
  <2>6. QED  BY <2>2, <2>3, <2>4, <2>5 DEF FilesInv
<1>6. CASE ReadQuotes /\ UNCHANGED <<loginInfo, portfolioVars>>
  <2>1. GetLine("Q")  BY <1>6 DEF ReadQuotes, ReadStock, StockThrows
  <2>2. /\ FileTyped' /\ ~returned /\ server = "Q" /\ UNCHANGED <<server, file>>
        /\ LinesRead \subseteq LinesRead'
    BY <1>2, <2>1
  <2>3. MembersSoFar'  BY <1>4, <1>6, <2>2
  <2>4. QuotesSoFar'
    <3>1. CASE ReadStock  BY <1>1, <3>1, ReadStockKeeps
    <3>2. CASE StockThrows
      <4>1. ended' /\ UNCHANGED quotes  BY <3>2 DEF StockThrows
      <4>2. QED  BY <1>1, <2>2, <4>1 DEF QuotesSoFar
    <3>3. QED  BY <1>6, <3>1, <3>2 DEF ReadQuotes
  <2>5. PortfoliosSoFar'  BY <1>1, <1>6, <2>2, ElsewhereKeeps
  <2>6. QED  BY <2>2, <2>3, <2>4, <2>5 DEF FilesInv
<1>7. CASE ReadPortfolios /\ UNCHANGED <<loginInfo, quotes>>
  <2>1. CASE GetLine("P") /\ ~Finish
    <3>1. /\ FileTyped' /\ ~returned /\ server = "P" /\ UNCHANGED <<server, file>>
          /\ LinesRead \subseteq LinesRead'
      BY <1>2, <2>1
    <3>2. MembersSoFar'  BY <1>4, <1>7, <3>1
    <3>3. QuotesSoFar'  BY <1>1, <1>7, <3>1 DEF QuotesSoFar
    <3>4. ASSUME ReadUser PROVE PortfoliosSoFar'  BY <1>1, <3>4, ReadUserKeeps
    <3>5. ASSUME ReadPosition PROVE PortfoliosSoFar'
      <4>1. IsPosition(Line) /\ ~IsUser(Line)
        <5>1. IsPosition(Line)  BY <3>5 DEF ReadPosition
        <5>2. Len(Line) \in Nat  BY <1>1, <2>1, OneLineMore, LineFacts DEF Line
        <5>3. QED  BY <5>1, <5>2 DEF IsPosition, IsUser
      <4>2. /\ UNCHANGED <<portfolio, userID, ended, returned>>
            /\ stocks' = Append(stocks, Position(Line))
        BY <3>5 DEF ReadPosition
      <4>3. QED  BY <1>1, <2>1, <4>1, <4>2, OtherLineKeeps
    <3>6. ASSUME ReadEmptyLine PROVE PortfoliosSoFar'
      <4>1. Line = EmptyLine /\ UNCHANGED <<portfolio, userID, stocks, ended, returned>>
        BY <3>6 DEF ReadEmptyLine
      <4>2. ~IsUser(Line)  BY <4>1 DEF IsUser
      <4>3. PICK none : none = ""  OBVIOUS
      <4>4. Line = <<none>>  BY <4>1, <4>3 DEF EmptyLine
      <4>5. Len(Line) = 1  BY <4>4
      <4>6. ~IsPosition(Line)  BY <4>5 DEF IsPosition
      <4>7. UNCHANGED <<portfolio, userID, stocks, ended, returned>>  BY <4>1
      <4>8. QED  BY <1>1, <2>1, <4>2, <4>6, <4>7, OtherLineKeeps
    <3>7. ASSUME PositionThrows PROVE PortfoliosSoFar'
      <4>1. ended' = TRUE /\ UNCHANGED portfolioVars
        BY <3>7 DEF PositionThrows, portfolioVars
      <4>2. QED  BY <1>1, <3>1, <4>1, ElsewhereKeeps
    <3>8. PortfoliosSoFar'
      BY <1>7, <2>1, <3>4, <3>5, <3>6, <3>7 DEF ReadPortfolios
    <3>9. QED  BY <3>1, <3>2, <3>3, <3>8 DEF FilesInv
  <2>2. CASE Finish
    <3>1. UNCHANGED <<server, file, next, ended>> /\ server = "P"
      BY <2>2 DEF Finish, fileVars, AllRead
    <3>2. FileTyped' /\ LinesRead' = LinesRead
      BY <1>1, <3>1 DEF FileTyped, LinesRead
    <3>3. MembersSoFar'  BY <1>4, <1>7, <3>1
    <3>4. QuotesSoFar'  BY <1>3, <1>7, <3>1, <3>2
    <3>5. PortfoliosSoFar'  BY <1>1, <2>2, FinishKeeps
    <3>6. QED  BY <3>2, <3>3, <3>4, <3>5 DEF FilesInv
  <2>3. QED
    BY <1>7, <2>1, <2>2
       DEF ReadPortfolios, ReadUser, ReadPosition, PositionThrows, ReadEmptyLine
<1>8. CASE UNCHANGED startUpVars
  <2>1. UNCHANGED <<server, file, next, ended, loginInfo, quotes, portfolioVars>>
    BY <1>8 DEF startUpVars, fileVars
  <2>2. FileTyped' /\ LinesRead' = LinesRead
    BY <1>1, <2>1 DEF FileTyped, LinesRead
  <2>3. MembersSoFar' /\ QuotesSoFar'
    BY <1>1, <2>1, <2>2 DEF MembersSoFar, QuotesSoFar
  <2>4. PortfoliosSoFar'  BY <1>1, <2>1, ElsewhereKeeps
  <2>5. QED  BY <2>2, <2>3, <2>4 DEF FilesInv
<1>9. QED  BY <1>5, <1>6, <1>7, <1>8 DEF StartUpNext

(* What a server serves is what its file says, for every file: each member *)
(* with the password of its last line, all the prices of a stock in order, *)
(* and each position with the user above it (onStartUp of the servers).    *)
THEOREM FilesAreServed == StartUpSpec => []FilesAreRead
<1>1. FilesInv => FilesAreRead
  BY MembersAtTheEnd, QuotesAtTheEnd, CarefulLinesHavePrices, PortfoliosAtTheEnd
     DEF FilesInv, FilesAreRead
<1>2. QED  BY FilesStart, FilesNextKeeps, <1>1, PTL DEF StartUpSpec
=============================================================================
