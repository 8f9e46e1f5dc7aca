------------------------------- MODULE Wire -------------------------------
(***************************************************************************)
(* What connects the five programs: one UDP socket per server, read by one *)
(* blocking receive each, and one TCP connection between Server M and each *)
(* client.  The datagrams between two loopback sockets keep their order;   *)
(* a TCP receive takes everything that has arrived, so two messages sent   *)
(* before it come out as one and only the first can be parsed.             *)
(*                                                                         *)
(* The client-socket number that M appends to every request and the        *)
(* servers send back is left out: no program reads it.                     *)
(***************************************************************************)
EXTENDS Integers, Sequences, Pricing

CONSTANTS Clients,    \* client processes
          Names,      \* user names as a person may type them
          Lower,      \* lowercaseConvert, a function on Names
          Passwords,  \* passwords as typed
          Codes,      \* passwords as encrypted
          Stocks,     \* stock names a person may type
          NA          \* the word NA, and no value

Users == {Lower[n] : n \in Names}

ASSUME LowerAssumption ==
  /\ Lower \in [Names -> Names]
  /\ \A n \in Names : Lower[Lower[n]] = Lower[n]
ASSUME NAAssumption == NA \notin Stocks \cup Int \cup {NaN}

VARIABLES toA, toQ, toP, toM,  \* UDP: datagrams waiting at each server's socket
          c2m, m2c,            \* TCP: messages waiting at M from, at c from M
          conn                 \* what M's end of c's connection would do next

udpVars  == <<toA, toQ, toP, toM>>
tcpVars  == <<c2m, m2c, conn>>
wireVars == <<toA, toQ, toP, toM, c2m, m2c, conn>>

(* open: both ends up.  fin: the client closed with nothing unread.  reset: *)
(* it closed with unread data, an error is pending.  broken: M has already  *)
(* sent to a gone client, the next send raises SIGPIPE.  closed: M closed.  *)
ConnStates == {"open", "fin", "reset", "broken", "closed"}

Answers == {"Y", "N", "other"}   \* "other": any other line, an empty one too

Holding == [stockName : Stocks, quantity : CInt, avgPrice : Money]

(* The messages of README e), by receiver. *)
ClientMsg ==
       [t : {"credentials"}, user : Names, password : Passwords]
  \cup [t : {"position"}, user : Names]
  \cup [t : {"quote"}, stock : Stocks]
  \cup [t : {"quoteall"}]
  \cup [t : {"transact"}, op : {"buy", "sell"}, user : Names,
        stock : Stocks, shares : CInt]
  \cup [t : {"answer"}, text : Answers]

WireInit ==
  /\ toA = <<>> /\ toQ = <<>> /\ toP = <<>> /\ toM = <<>>
  /\ c2m = [c \in Clients |-> <<>>]
  /\ m2c = [c \in Clients |-> <<>>]
  /\ conn = [c \in Clients |-> "open"]

(* send() from M to client c: data for a closed socket is answered with a   *)
(* reset, after which the next send kills the sender.                       *)
Deliver(c, m) ==
  /\ conn[c] # "broken"
  /\ m2c' = IF conn[c] = "open" THEN [m2c EXCEPT ![c] = Append(@, m)] ELSE m2c
  /\ conn' = IF conn[c] = "open" THEN conn ELSE [conn EXCEPT ![c] = "broken"]

(* recv() by M on a readable connection: everything waiting, or nothing     *)
(* from a gone client, which also clears a pending error.                   *)
TakeAll(c) ==
  /\ c2m' = [c2m EXCEPT ![c] = <<>>]
  /\ conn' = IF c2m[c] = <<>> /\ conn[c] = "reset"
               THEN [conn EXCEPT ![c] = "broken"] ELSE conn

(* close() of the client's socket, by exit or by the death of the process.  *)
HangUp(c) ==
  /\ conn' = [conn EXCEPT ![c] = IF m2c[c] = <<>> THEN "fin" ELSE "reset"]
  /\ m2c' = [m2c EXCEPT ![c] = <<>>]
=============================================================================
