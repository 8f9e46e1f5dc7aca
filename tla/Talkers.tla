------------------------------ MODULE Talkers ------------------------------
(***************************************************************************)
(* Datagrams from anybody.  Two programs read them into a buffer that is   *)
(* taken for a C string: the practice program udp_listener.cpp, which      *)
(* prints one packet that came to its port and ends, and listen_pkts of    *)
(* Server P, which hands each to process_data.  The practice talkers       *)
(* udp_talker.cpp and UDPtalkerTest.cpp send to the port of Server P and   *)
(* not to that of the listener, which hears only other programs.  Nothing  *)
(* is acknowledged: a talker says that it has sent its bytes and ends,     *)
(* whether they arrive once, twice or not at all, and a packet may         *)
(* overtake another.                                                       *)
(***************************************************************************)
EXTENDS Integers, Sequences, SequencesExt, FiniteSets

CONSTANTS Bytes,     \* of messages
          EndByte,   \* the byte that ends a C string
          Hello,     \* the message of UDPtalkerTest
          MaxBufLen, \* MAXBUFLEN of each receiver: 100 and 4096 in the code
          MaxBytes,  \* bound: length of a packet
          MaxSent,   \* bound: different packets sent
          MaxWaiting \* bound: packets that wait at a port

Receivers == {"udp_listener", "serverP"}

(* MYPORT of each receiver, and SERVERPORT of both talkers.                *)
Port == [udp_listener |-> 4950, serverP |-> 42110]
SERVERPORT == 42110

ASSUME ByteAssumption == EndByte \notin Bytes /\ Hello \in Seq(Bytes)
ASSUME SizeAssumption ==
  /\ MaxBufLen \in [Receivers -> Nat \ {0}]
  /\ MaxBytes \in Nat /\ MaxSent \in Nat /\ MaxWaiting \in Nat

VARIABLES listens,  \* of each receiver: "off", "waits" in recvfrom, "got" a packet
          buffer,   \* its buf, buf[k] at k + 1
          numbytes, \* what recvfrom has returned
          taken,    \* the last text it has printed or handed to process_data
          arrived,  \* packets at its port that it has not read
          packets   \* the network: all that was sent, and where to

talkVars == <<listens, buffer, numbytes, taken, arrived, packets>>

AnyByte == Bytes \cup {EndByte}
Buffers(r) == [1 .. MaxBufLen[r] -> AnyByte]

(* What the buffer holds when recvfrom is called: at the listener whatever *)
(* was on the stack, at Server P what memset has written.                  *)
Cleared(r) == [k \in 1 .. MaxBufLen[r] |-> EndByte]
Fresh(r) == IF r = "serverP" THEN {Cleared(r)} ELSE Buffers(r)

TalkInit ==
  /\ listens = [r \in Receivers |-> "off"]
  /\ buffer = [r \in Receivers |-> Cleared(r)]
  /\ numbytes = [r \in Receivers |-> 0]
  /\ taken = [r \in Receivers |-> <<>>]
  /\ arrived = [r \in Receivers |-> <<>>]
  /\ packets = {}

----------------------------------------------------------------------------
SendTo(port, message) ==
  /\ Cardinality(packets) < MaxSent
  /\ packets' = packets \cup {[to |-> port, bytes |-> message]}
  /\ UNCHANGED <<listens, buffer, numbytes, taken, arrived>>

(* sendto with the bytes of the second argument, a C string.               *)
TalkerSends == \E message \in BoundedSeq(Bytes, MaxBytes) : SendTo(SERVERPORT, message)
TestSends == SendTo(SERVERPORT, Hello)

(* Any other program, with any bytes.                                      *)
OtherSends ==
  \E r \in Receivers, message \in BoundedSeq(AnyByte, MaxBytes) :
    SendTo(Port[r], message)

(* The network delivers a packet once, twice, late or never, and only to   *)
(* the program that has bound the port it was sent to.                     *)
Arrives(r) ==
  /\ listens[r] # "off" /\ Len(arrived[r]) < MaxWaiting
  /\ \E d \in packets :
       /\ d.to = Port[r]
       /\ arrived' = [arrived EXCEPT ![r] = Append(@, d.bytes)]
  /\ UNCHANGED <<listens, buffer, numbytes, taken, packets>>

----------------------------------------------------------------------------
(* The receiver is run and binds its port.                                 *)
Bind(r) ==
  /\ listens[r] = "off"
  /\ listens' = [listens EXCEPT ![r] = "waits"]
  /\ \E b \in Fresh(r) : buffer' = [buffer EXCEPT ![r] = b]
  /\ taken' = [taken EXCEPT ![r] = <<>>]
  /\ UNCHANGED <<numbytes, arrived, packets>>

(* At most MaxBufLen - 1 bytes of the packet; the rest of it is discarded. *)
Kept(r, packet) == SubSeq(packet, 1, Min({MaxBufLen[r] - 1, Len(packet)}))

RecvFrom(r) ==
  /\ listens[r] = "waits" /\ arrived[r] # <<>>
  /\ LET bytes == Kept(r, Head(arrived[r])) IN
       /\ numbytes' = [numbytes EXCEPT ![r] = Len(bytes)]
       /\ buffer' = [buffer EXCEPT ![r] =
            [k \in DOMAIN @ |-> IF k <= Len(bytes) THEN bytes[k] ELSE @[k]]]
  /\ arrived' = [arrived EXCEPT ![r] = Tail(@)]
  /\ listens' = [listens EXCEPT ![r] = "got"]
  /\ UNCHANGED <<taken, packets>>

(* The program ends: what has arrived and was not read is gone.            *)
Closes(r) ==
  /\ listens' = [listens EXCEPT ![r] = "off"]
  /\ arrived' = [arrived EXCEPT ![r] = <<>>]

(* recvfrom returns -1.                                                    *)
RecvFails(r) ==
  /\ listens[r] = "waits"
  /\ Closes(r)
  /\ UNCHANGED <<buffer, numbytes, taken, packets>>

(* Mutant of Terminated: no byte is put behind the packet.                 *)
TerminatedNot(r) == buffer[r]
(* buf[numbytes] = '\0'                                                    *)
Terminated(r) == [buffer[r] EXCEPT ![numbytes[r] + 1] = EndByte]

(* What bytes are as a C string: those in front of the first EndByte.      *)
CString(bytes) ==
  LET ends == {k \in DOMAIN bytes : bytes[k] = EndByte}
  IN  IF ends = {} THEN bytes ELSE SubSeq(bytes, 1, Min(ends) - 1)

TakesText(r) ==
  /\ listens[r] = "got"
  /\ taken' = [taken EXCEPT ![r] = CString(Terminated(r))]
  /\ UNCHANGED <<numbytes, packets>>

(* printf("%s"), close and return.                                         *)
PrintAndClose ==
  /\ TakesText("udp_listener")
  /\ buffer' = [buffer EXCEPT !["udp_listener"] = Terminated("udp_listener")]
  /\ Closes("udp_listener")

(* process_data and the next call of listen_pkts, which clears the buffer. *)
(* A text that is none of Server M's messages runs off the end of          *)
(* process_data (PFallsOff of PortfolioServer): it may end Server P.       *)
ProcessData ==
  /\ TakesText("serverP")
  /\ buffer' = [buffer EXCEPT !["serverP"] = Cleared("serverP")]
  /\ \/ /\ listens' = [listens EXCEPT !["serverP"] = "waits"]
        /\ UNCHANGED arrived
     \/ Closes("serverP")

ReceiverStep(r) == Bind(r) \/ RecvFrom(r) \/ RecvFails(r)

TalkNext ==
  \/ TalkerSends \/ TestSends \/ OtherSends
  \/ \E r \in Receivers : Arrives(r) \/ ReceiverStep(r)
  \/ PrintAndClose \/ ProcessData

TalkSpec == TalkInit /\ [][TalkNext]_talkVars

----------------------------------------------------------------------------
(* Whatever is lost, doubled or overtakes, whatever the packets hold and   *)
(* whatever the buffer held, the text that udp_listener prints and the     *)
(* text that listen_pkts of Server P hands on is that of one packet, sent  *)
(* to its own port and cut off at MaxBufLen - 1 bytes: never of two of     *)
(* them, and never with bytes of the stack behind it (buf[numbytes] = '\0'). *)
TextIsOneDatagram ==
  \A r \in Receivers :
    taken[r] # <<>> =>
      \E d \in packets : d.to = Port[r] /\ taken[r] = CString(Kept(r, d.bytes))

=============================================================================
