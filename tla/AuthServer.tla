---------------------------- MODULE AuthServer ----------------------------
(***************************************************************************)
(* serverA.cpp: answers each credentials datagram with SUCCESS or FAILURE. *)
(* Its only state is the table read from members.txt, which never changes. *)
(***************************************************************************)
EXTENDS Wire

CONSTANT Members   \* lower-case user name -> encrypted password

ASSUME MembersAssumption ==
  /\ DOMAIN Members \subseteq Users
  /\ \A u \in DOMAIN Members : Members[u] \in Codes

CredentialsToA == [t : {"credentials"}, user : Names, code : Codes]
ReplyFromA == [t : {"credentials"}, user : Names,
               status : {"SUCCESS", "FAILURE"}]

(* Mutant of matchCredentials: any password will do. *)
matchCredentialsAnyPassword(user, code) == Lower[user] \in DOMAIN Members

matchCredentials(user, code) ==
  /\ Lower[user] \in DOMAIN Members
  /\ Members[Lower[user]] = code

(* One turn of the main loop: listen_pkts, process_data, udpSendMsg. *)
AReply ==
  /\ toA # <<>>
  /\ LET m == Head(toA) IN
       toM' = Append(toM,
                [t |-> "credentials", user |-> m.user,
                 status |-> IF matchCredentials(m.user, m.code)
                              THEN "SUCCESS" ELSE "FAILURE"])
  /\ toA' = Tail(toA)
  /\ UNCHANGED <<toQ, toP, tcpVars>>
=============================================================================
