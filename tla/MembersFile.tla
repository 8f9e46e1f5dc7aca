---------------------------- MODULE MembersFile ----------------------------
(***************************************************************************)
(* onStartUp of serverA.cpp: members.txt into the map that                 *)
(* matchCredentials looks passwords up in, Members of module AuthServer.   *)
(***************************************************************************)
EXTENDS DataFile

VARIABLE loginInfo  \* user name, a word, -> password, a text with blanks

MembersInit == loginInfo = [u \in {} |-> <<>>]

(* loginInfo[u] = pw *)
Put(u, pw) == [v \in DOMAIN loginInfo \cup {u} |-> IF v = u THEN pw ELSE loginInfo[v]]

ReadMember ==
  /\ GetLine("A")
  /\ loginInfo' = Put(Small[FirstWord(Line)], AfterFirst(Line))
  /\ UNCHANGED ended

----------------------------------------------------------------------------
(* The lines of u, whatever the case of their letters. *)
MembersLines(u) == {n \in DOMAIN file : Small[file[n][1]] = u}

(* Every member of the file can log in, and only with the password that    *)
(* the last of its lines states; a name in two ways of writing is one      *)
(* member (lowercaseConvert), and a line without a blank is a member whose *)
(* password is its name (find returning npos).                             *)
MembersAreListed ==
  AllRead("A") =>
    /\ DOMAIN loginInfo = {u \in Words : MembersLines(u) # {}}
    /\ \A u \in DOMAIN loginInfo :
         LET line == file[Max(MembersLines(u))]
         IN  loginInfo[u] = IF HasBlank(line) THEN Tail(line) ELSE line
=============================================================================
