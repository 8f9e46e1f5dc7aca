----------------------------- MODULE OpenSocket -----------------------------
(***************************************************************************)
(* How the programs come by their sockets.  Each has its own copy of one   *)
(* loop over the addresses of getaddrinfo - make a socket, bind or connect *)
(* it, close it and try the next if that fails - and the copies differ in  *)
(* what they do about a failure.  The copies are records here, and the     *)
(* loop is written once.                                                   *)
(***************************************************************************)
EXTENDS Integers, Sequences, FiniteSetsExt

CONSTANTS MaxFd,   \* descriptors a process may have are 0 .. MaxFd
          MaxAddr, \* bound: addresses that getaddrinfo returns
          MayNotResolve \* whether getaddrinfo may fail

ASSUME FdAssumption == MaxFd \in Nat /\ MaxFd >= 4
ASSUME AddrAssumption == MaxAddr \in Nat \ {0} /\ MayNotResolve \in BOOLEAN

(* resolve, reuse, none: what is done when getaddrinfo, setsockopt or every *)
(* address fails.  "return" hands -1 to main, which ends the program.       *)
get_listener_socket ==
  [resolve |-> "end", reuse |-> "ignore", attach |-> "bind",
   none |-> "return", listen |-> "return"]
startUDPServer ==
  [resolve |-> "ignore", reuse |-> "skip", attach |-> "bind",
   none |-> "ignore", listen |-> "skip"]

MainM == <<startUDPServer, get_listener_socket>>
MainA == <<startUDPServer>>
MainP == <<startUDPServer>>
MainQ == <<startUDPServer>>

(* createSocket and connectServer of the client: one fixed address. *)
MainClient ==
  <<[resolve |-> "none", reuse |-> "skip", attach |-> "connect",
     none |-> "end", listen |-> "skip"]>>

(* The practice programs. *)
testPollServer == <<get_listener_socket>>
MainServerExp  == <<get_listener_socket>>
TestServer ==
  <<[resolve |-> "end", reuse |-> "end", attach |-> "bind",
     none |-> "end", listen |-> "end"]>>
TestClient ==
  <<[resolve |-> "end", reuse |-> "skip", attach |-> "connect",
     none |-> "end", listen |-> "skip"]>>
udp_listener ==
  <<[resolve |-> "end", reuse |-> "skip", attach |-> "bind",
     none |-> "end", listen |-> "skip"]>>
udp_talker ==
  <<[resolve |-> "end", reuse |-> "skip", attach |-> "skip",
     none |-> "end", listen |-> "skip"]>>
UDPtalkerTest == udp_talker

Programs ==
  {MainM, MainA, MainP, MainQ, MainClient, testPollServer, MainServerExp,
   TestServer, TestClient, udp_listener, udp_talker, UDPtalkerTest}

VARIABLES program, \* the functions that main calls, in order
          pc,
          addrs,   \* how many addresses there are
          p,       \* the one the loop is at, addrs + 1 behind the last
          sockfd,  \* the local variable, -1 after a failed socket()
          fds,     \* for each open descriptor, which function opened it and
                   \* whether it has bound or connected it
          results  \* what the functions have returned

socketVars == <<program, pc, addrs, p, sockfd, fds, results>>

Std == [by |-> 0, ready |-> TRUE]

SocketInit ==
  /\ program \in Programs
  /\ pc = "resolve"
  /\ addrs = 0 /\ p = 1
  /\ sockfd = -1
  /\ fds = [fd \in 0 .. 2 |-> Std]
  /\ results = <<>>

This  == Len(results) + 1
Policy == program[This]
OpenFds  == DOMAIN fds

Goto(label) == pc' = label
End == Goto("ended") /\ UNCHANGED <<program, addrs, p, sockfd, fds, results>>

(* One function returns fd; main ends on the -1 of a function that reports *)
(* failure, and goes on to the next function or to its work otherwise.     *)
Return(fd, opened) ==
  /\ results' = Append(results, fd)
  /\ fds' = opened
  /\ pc' = IF This < Len(program) THEN "resolve" ELSE "runs"
  /\ addrs' = 0 /\ p' = 1
  /\ UNCHANGED <<program, sockfd>>

----------------------------------------------------------------------------
Resolve ==
  /\ pc = "resolve"
  /\ addrs' \in IF Policy.resolve = "none" THEN {1} ELSE 1 .. MaxAddr
  /\ Goto("socket")
  /\ UNCHANGED <<program, p, sockfd, fds, results>>

ResolveFails ==
  /\ MayNotResolve
  /\ pc = "resolve" /\ Policy.resolve = "end"
  /\ End

(* The list is read though getaddrinfo has not set it.  If the stack held  *)
(* no pointer there, the loop is empty and sockfd is what the stack held;  *)
(* any other value is a fault.                                             *)
ResolveIgnored ==
  /\ MayNotResolve
  /\ pc = "resolve" /\ Policy.resolve = "ignore"
  /\ \/ End
     \/ /\ sockfd' \in -1 .. MaxFd
        /\ addrs' = 0
        /\ Goto("socket")
        /\ UNCHANGED <<program, p, fds, results>>

AfterSocket == IF Policy.reuse = "skip" THEN "attach" ELSE "reuse"

(* socket returns the lowest descriptor that is free. *)
Socket ==
  /\ pc = "socket" /\ p <= addrs
  /\ LET free == (0 .. MaxFd) \ OpenFds IN
       /\ free # {}
       /\ sockfd' = Min(free)
       /\ fds' = [fd \in OpenFds \cup {Min(free)} |->
                    IF fd \in OpenFds THEN fds[fd] ELSE [by |-> This, ready |-> FALSE]]
  /\ Goto(AfterSocket)
  /\ UNCHANGED <<program, addrs, p, results>>

SocketFails ==
  /\ pc = "socket" /\ p <= addrs
  /\ sockfd' = -1
  /\ p' = p + 1
  /\ UNCHANGED <<program, pc, addrs, fds, results>>

Reuse ==
  /\ pc = "reuse"
  /\ Goto("attach")
  /\ UNCHANGED <<program, addrs, p, sockfd, fds, results>>

ReuseFails == pc = "reuse" /\ Policy.reuse = "end" /\ End

(* bind or connect succeeds, or there is none; break. *)
Attach ==
  /\ pc = "attach"
  /\ fds' = [fds EXCEPT ![sockfd].ready = TRUE]
  /\ Goto("listen")
  /\ UNCHANGED <<program, addrs, p, sockfd, results>>

(* Mutant of AttachFails: no close. *)
AttachFailsOpen ==
  /\ pc = "attach" /\ Policy.attach # "skip"
  /\ p' = p + 1
  /\ Goto("socket")
  /\ UNCHANGED <<program, addrs, sockfd, fds, results>>
AttachFails ==
  /\ pc = "attach" /\ Policy.attach # "skip"
  /\ fds' = [fd \in OpenFds \ {sockfd} |-> fds[fd]]
  /\ p' = p + 1
  /\ Goto("socket")
  /\ UNCHANGED <<program, addrs, sockfd, results>>

(* Mutant of NoneWorked: sockfd is tested instead of p. *)
NoneWorkedBySockfd ==
  /\ pc = "socket" /\ p > addrs
  /\ IF sockfd = -1 THEN End ELSE Return(sockfd, fds)

(* p is NULL.  The functions that ignore it return sockfd as it is: -1, or *)
(* the number of the socket they have closed.                              *)
NoneWorked ==
  /\ pc = "socket" /\ p > addrs
  /\ IF Policy.none = "ignore" THEN Return(sockfd, fds) ELSE End

Listen == pc = "listen" /\ Return(sockfd, fds)

ListenFails == pc = "listen" /\ Policy.listen # "skip" /\ End

SocketStep ==
  \/ Resolve \/ ResolveFails \/ ResolveIgnored
  \/ Socket \/ SocketFails \/ Reuse \/ ReuseFails
  \/ Attach \/ AttachFails \/ NoneWorked \/ Listen \/ ListenFails

SocketNext == SocketStep

SocketSpec == SocketInit /\ [][SocketNext]_socketVars

----------------------------------------------------------------------------
Opened(k) == {fd \in OpenFds : fds[fd].by = k}

(* A function that does not ignore failure hands main a socket of its own, *)
(* bound or connected; one that ignores it does so if an address worked.   *)
WorksOrSaysSo ==
  pc = "runs" =>
    \A k \in DOMAIN program :
      program[k].none # "ignore" \/ Opened(k) # {} =>
        /\ results[k] \in Opened(k)
        /\ fds[results[k]].ready

(* Sockets that did not work are closed again: a program starts with one   *)
(* descriptor for each function at most.                                   *)
NothingLeaks ==
  pc = "runs" => \A k \in DOMAIN program : Cardinality(Opened(k)) <= 1

(* The comment above startUDPServer, "Starts udp listener socket to listen *)
(* for incoming transmissions": what it returns to main is a socket of its *)
(* own, and not the one that another function returns.                     *)
UdpIsNotListener ==
  \A k, l \in DOMAIN results : results[k] = results[l] => k = l
=============================================================================
