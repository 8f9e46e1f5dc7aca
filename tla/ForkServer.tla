----------------------------- MODULE ForkServer -----------------------------
(***************************************************************************)
(* TestServer.cpp and TestClient.cpp: a server that forks a child for each *)
(* connection, lets it say hello, and collects ended children from the     *)
(* handler of SIGCHLD, which may run between any two steps of main.  Two   *)
(* children that end together raise one signal: SIGCHLD is not counted.    *)
(***************************************************************************)
EXTENDS Integers, Sequences, FiniteSets

CONSTANTS Callers,  \* people who run TestClient, again and again
          Procs,    \* process numbers the kernel has for children
          None

ASSUME NoneAssumption == None \notin Callers

VARIABLES waiting,  \* connections that wait for accept
          aborted,  \* of those, the ones that were reset before accept
          pc,       \* what main does next
          newFd,    \* connection that new_fd names, or None
          held,     \* connections main has open
          child,    \* for each process number, the child that has it
          pending,  \* SIGCHLD is pending
          hpc,      \* what the handler does next, "off" outside of it
          errno,    \* of main and the handler, which share it
          saved,    \* saved_errno of the handler
          client    \* what each TestClient has got

mainVars    == <<waiting, aborted, pc, newFd, held>>
handlerVars == <<pending, hpc, saved>>
forkVars == <<waiting, aborted, pc, newFd, held, child, pending, hpc, errno,
          saved, client>>

Free == [state |-> "free", fd |-> None]
Errors == {"none", "ECONNABORTED", "EAGAIN", "ECHILD"}

ForkInit ==
  /\ waiting = <<>> /\ aborted = {}
  /\ pc = "accept" /\ newFd = None /\ held = {}
  /\ child = [p \in Procs |-> Free]
  /\ pending = FALSE /\ hpc = "off"
  /\ errno = "none" /\ saved = "none"
  /\ client = [c \in Callers |-> "out"]

With(s) == {p \in Procs : child[p].state = s}

----------------------------------------------------------------------------
(* TestClient: connect, one recv, close. *)
Call(c) ==
  /\ client[c] = "out"
  /\ client' = [client EXCEPT ![c] = "waits"]
  /\ waiting' = Append(waiting, c)
  /\ UNCHANGED <<aborted, pc, newFd, held, child, handlerVars, errno>>

(* Killed before the server has accepted it. *)
Abort(c) ==
  /\ c \in {waiting[k] : k \in DOMAIN waiting} \ aborted
  /\ aborted' = aborted \cup {c}
  /\ UNCHANGED <<waiting, pc, newFd, held, child, handlerVars, errno, client>>

(* Who has the server's end of c's connection open. *)
Holds(c) == c \in held \/ \E p \in Procs : child[p].fd = c

(* recv returns the greeting, or 0 when every copy of the server's end is  *)
(* closed without one.  TestClient is run again for c only when the server *)
(* has closed too, so that c names one connection at a time.               *)
Receive(c) ==
  /\ client[c] \in {"accepted", "greeted"}
  /\ ~Holds(c)
  /\ client' = [client EXCEPT ![c] = "out"]
  /\ UNCHANGED <<mainVars, child, handlerVars, errno>>

----------------------------------------------------------------------------
(* main, while the handler does not run. *)
MainAt(label) == pc = label /\ hpc = "off"

AcceptCall ==
  /\ MainAt("accept") /\ waiting # <<>> /\ Head(waiting) \notin aborted
  /\ newFd' = Head(waiting)
  /\ held' = held \cup {Head(waiting)}
  /\ client' = [client EXCEPT ![Head(waiting)] = "accepted"]
  /\ waiting' = Tail(waiting)
  /\ pc' = "fork"
  /\ UNCHANGED <<aborted, child, handlerVars, errno>>

AcceptCallFails ==
  /\ MainAt("accept") /\ waiting # <<>> /\ Head(waiting) \in aborted
  /\ aborted' = aborted \ {Head(waiting)}
  /\ client' = [client EXCEPT ![Head(waiting)] = "out"]
  /\ waiting' = Tail(waiting)
  /\ errno' = "ECONNABORTED"
  /\ pc' = "perror"
  /\ UNCHANGED <<newFd, held, child, handlerVars>>

(* perror reads errno; then the loop continues. *)
PError ==
  /\ MainAt("perror")
  /\ pc' = "accept"
  /\ UNCHANGED <<waiting, aborted, newFd, held, child, handlerVars, errno, client>>

Fork ==
  /\ MainAt("fork")
  /\ \E p \in With("free") :
       child' = [child EXCEPT ![p] = [state |-> "runs", fd |-> newFd]]
  /\ pc' = "close"
  /\ UNCHANGED <<waiting, aborted, newFd, held, handlerVars, errno, client>>

(* fork returns -1, which is not 0: main goes on as the parent. *)
ForkFails ==
  /\ MainAt("fork") /\ With("free") = {}
  /\ errno' = "EAGAIN"
  /\ pc' = "close"
  /\ UNCHANGED <<waiting, aborted, newFd, held, child, handlerVars, client>>

CloseNewFd ==
  /\ MainAt("close")
  /\ held' = held \ {newFd}
  /\ newFd' = None
  /\ pc' = "accept"
  /\ UNCHANGED <<waiting, aborted, child, handlerVars, errno, client>>

----------------------------------------------------------------------------
(* A child says hello and ends; the kernel closes its copy. *)
Greet(p) ==
  /\ child[p].state = "runs"
  /\ child' = [child EXCEPT ![p].state = "greeted"]
  /\ client' = [client EXCEPT ![child[p].fd] = "greeted"]
  /\ UNCHANGED <<mainVars, handlerVars, errno>>

Exit(p) ==
  /\ child[p].state = "greeted"
  /\ child' = [child EXCEPT ![p] = [state |-> "zombie", fd |-> None]]
  /\ pending' = TRUE
  /\ UNCHANGED <<mainVars, hpc, saved, errno, client>>

----------------------------------------------------------------------------
(* sigchld_handler.  The signal is blocked while its handler runs. *)
Signal ==
  /\ pending /\ hpc = "off"
  /\ pending' = FALSE
  /\ saved' = errno
  /\ hpc' = "waitpid"
  /\ UNCHANGED <<mainVars, child, errno, client>>

(* Mutant of Reap: one waitpid for each signal. *)
ReapOne(p) ==
  /\ hpc = "waitpid" /\ child[p].state = "zombie"
  /\ child' = [child EXCEPT ![p] = Free]
  /\ hpc' = "restore"
  /\ UNCHANGED <<mainVars, pending, saved, errno, client>>

Reap(p) ==
  /\ hpc = "waitpid" /\ child[p].state = "zombie"
  /\ child' = [child EXCEPT ![p] = Free]
  /\ UNCHANGED <<mainVars, handlerVars, errno, client>>

(* Mutant of NoneLeft: the loop goes on unless waitpid returns 0.          *)
NoneLeftSpins ==
  /\ hpc = "waitpid" /\ With("zombie") = {}
  /\ IF With("free") = Procs
       THEN errno' = "ECHILD" /\ UNCHANGED hpc
       ELSE hpc' = "restore" /\ UNCHANGED errno
  /\ UNCHANGED <<mainVars, pending, saved, child, client>>

(* waitpid returns 0, or -1 when there is no child at all. *)
NoneLeft ==
  /\ hpc = "waitpid" /\ With("zombie") = {}
  /\ errno' = IF With("free") = Procs THEN "ECHILD" ELSE errno
  /\ hpc' = "restore"
  /\ UNCHANGED <<mainVars, pending, saved, child, client>>

(* Mutant of Restore: errno stays as waitpid left it. *)
RestoreNot ==
  /\ hpc = "restore"
  /\ hpc' = "off"
  /\ UNCHANGED <<mainVars, pending, saved, child, errno, client>>

Restore ==
  /\ hpc = "restore"
  /\ errno' = saved
  /\ hpc' = "off"
  /\ UNCHANGED <<mainVars, pending, saved, child, client>>

----------------------------------------------------------------------------
MainStep    == AcceptCall \/ AcceptCallFails \/ PError \/ Fork \/ ForkFails \/ CloseNewFd
ChildStep(p) == Greet(p) \/ Exit(p)
HandlerStep == Signal \/ NoneLeft \/ Restore \/ \E p \in Procs : Reap(p)

ForkNext ==
  \/ MainStep \/ HandlerStep
  \/ \E p \in Procs : ChildStep(p)
  \/ \E c \in Callers : Call(c) \/ Abort(c) \/ Receive(c)

ForkSpec == ForkInit /\ [][ForkNext]_forkVars

(* The kernel runs every process and delivers a pending signal; main's own *)
(* step is then possible again and again rather than all the time.         *)
ForkGoesOn ==
  /\ SF_forkVars(MainStep) /\ WF_forkVars(HandlerStep)
  /\ \A p \in Procs : WF_forkVars(ChildStep(p))
  /\ \A c \in Callers : WF_forkVars(Receive(c))

----------------------------------------------------------------------------
ForkTypeOK ==
  /\ waiting \in Seq(Callers) /\ aborted \subseteq Callers
  /\ pc \in {"accept", "perror", "fork", "close"}
  /\ newFd \in Callers \cup {None} /\ held \subseteq Callers
  /\ child \in [Procs -> [state : {"free", "runs", "greeted", "zombie"},
                          fd : Callers \cup {None}]]
  /\ pending \in BOOLEAN /\ hpc \in {"off", "waitpid", "restore"}
  /\ errno \in Errors /\ saved \in Errors
  /\ client \in [Callers -> {"out", "waits", "accepted", "greeted"}]

(* Signals are not counted, so a child may end without one of its own.     *)
(* Still none is forgotten: while one waits to be collected, a signal is   *)
(* pending or the handler is about to call waitpid (the while loop of      *)
(* sigchld_handler).                                                       *)
NoZombieForgotten ==
  With("zombie") # {} => pending \/ hpc = "waitpid"

(* The handler may run between accept's failure and perror, and waitpid    *)
(* sets errno; perror still prints accept's error (saved_errno).           *)
ErrnoIsAccepts == MainAt("perror") => errno = "ECONNABORTED"

(* main holds the one connection it is busy with and no other, however     *)
(* many it has served: descriptors do not leak (close(new_fd)).            *)
HoldsOneConnection == held = {newFd} \ {None}

(* Whoever is accepted gets an answer: the greeting, or the end of the     *)
(* connection if there was no process for it (main of TestServer.cpp).     *)
EveryoneIsAnswered ==
  \A c \in Callers : client[c] = "accepted" ~> client[c] # "accepted"
=============================================================================
