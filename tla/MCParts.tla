------------------------------ MODULE MCParts ------------------------------
(* The parts of the programs that work by themselves, each in its own run   *)
(* of states: a program that starts its sockets, a server that reads its    *)
(* file, the encryption, the readers of the tables, the echo server and the *)
(* practice programs for datagrams.  One part moves; the others rest in an  *)
(* initial state.                                                           *)
EXTENDS StartUp, OpenSocket, Caesar, TableText, EchoServer, Talkers, TLC

CONSTANT Parts \* of these, the ones a run looks at

----------------------------------------------------------------------------
(* The words of the data files.  Numbers of shares and prices do not matter *)
(* but as numbers, so those of prices are in cents.                         *)
MCWords ==
  {"", "Mary", "mary", "pw", "Ann", "S1", "S2", "5", "100", "697.46", "n/a",
   "Olivia", "olivia", "Charlotte", "charlotte", "Elijah", "elijah",
   "Theodore", "theodore", "AABB", "EE450"}
MCSmall ==
  ("Mary" :> "mary") @@ ("Olivia" :> "olivia") @@ ("Charlotte" :> "charlotte")
  @@ ("Elijah" :> "elijah") @@ ("Theodore" :> "theodore")
  @@ [word \in MCWords |-> word]
MCNumber == ("5" :> 500) @@ ("100" :> 10000) @@ ("697.46" :> 69746)

(* members.txt: every file of at most two lines of at most three words, so  *)
(* blanks in a row, before and behind the words, empty lines, and one name  *)
(* in two cases.                                                            *)
MembersFiles == BoundedSeq(BoundedSeq({"", "Mary", "mary", "pw"}, 3) \ {<<>>}, 2)

(* quotes.txt: at most three lines as the file has them, with a blank too   *)
(* many, without a price, with a word that is no price, and empty.          *)
QuotesFiles ==
  BoundedSeq(
    {<<"S1", "697.46", "100">>, <<"S1", "100">>, <<"S2", "100", "697.46", "">>,
     <<"S2", "">>, <<"S2">>, <<"">>, <<"S1", "100", "", "697.46">>,
     <<"S1", "n/a">>, <<"100">>}, 3)

(* portfolios.txt: at most four lines, users and positions in every order,  *)
(* with a blank too many, a position without a price, which is taken for a  *)
(* user, and lines that stoi or stod cannot read.                           *)
PortfoliosFiles ==
  BoundedSeq(
    {<<"Mary">>, <<"mary">>, <<"Ann">>, <<"">>, <<"S1", "5", "100">>,
     <<"S2", "5", "", "100", "">>, <<"S2", "100">>, <<"S1", "n/a", "100">>,
     <<"S2", "5", "">>}, 4)

MCFiles == "A" :> MembersFiles @@ "Q" :> QuotesFiles @@ "P" :> PortfoliosFiles

(* The portfolios.txt of the packaged release, with some other number of    *)
(* shares and some other price.                                             *)
PositionLine(s) == <<s, "100", "5">>
ReleaseFile ==
  <<<<"Olivia">>, PositionLine("AABB"), PositionLine("EE450"),
    <<"Charlotte", "">>, PositionLine("AABB"), PositionLine("EE450"),
    <<"Elijah", "">>, PositionLine("EE450"),
    <<"Theodore">>, PositionLine("AABB")>>
OnlyRelease == "P" :> {ReleaseFile}

----------------------------------------------------------------------------
(* The alphabets of serverM.cpp, every password of one or two characters,   *)
(* and the members of the repository: members_unencrypted.txt holds their   *)
(* passwords and members.txt the codes.                                     *)
MCLength == ("upper" :> 26) @@ ("lower" :> 26) @@ ("digit" :> 10)

U(n) == <<"upper", n>>
L(n) == <<"lower", n>>
D(n) == <<"digit", n>>
R(c) == <<"rest", c>>

(* James, Patricia, Justin and Mary. *)
MembersTxt ==
     <<U(18), U(14), U(3), L(8), L(3), L(18), D(3), D(9), D(2)>>
       :> <<U(21), U(17), U(6), L(11), L(6), L(21), D(6), D(2), D(5)>>
  @@ <<D(3), D(8), D(2), D(7), R("#"), L(14), D(2), D(9)>>
       :> <<D(6), D(1), D(5), D(0), R("#"), L(17), D(5), D(2)>>
  @@ <<D(1), D(2), D(3)>> :> <<D(4), D(5), D(6)>>
  @@ <<L(8), L(4), D(9), L(18), L(10), L(3), L(9), L(22), R("@")>>
       :> <<L(11), L(7), D(2), L(21), L(13), L(6), L(12), L(25), R("@")>>

MCPasswords == BoundedSeq(Char, 2) \cup DOMAIN MembersTxt

(* The codes of members.txt are the ones of members_unencrypted.txt.        *)
ASSUME MembersCanLogIn ==
  \A pw \in DOMAIN MembersTxt :
    MembersTxt[pw] = [k \in DOMAIN pw |-> Shifted(pw[k])]

(* The greeting of UDPtalkerTest fits into Server P's buffer; a packet of   *)
(* two bytes fills that one and is cut off at the listener's.               *)
MCHello == <<"b">>
MCMaxBufLen == [udp_listener |-> 2, serverP |-> 3]

----------------------------------------------------------------------------

VARIABLE part  \* the one that moves

echoPart == <<loopVars, echoVars>>
allVars == <<part, startUpVars, socketVars, caesarVars, tableTextVars, echoPart, talkVars>>

(* A part that rests stays in one of its initial states, the same always.   *)
Rests(p0) == part # p0

PartsInit ==
  /\ part \in Parts
  /\ Rests("files") =>
       server = "A" /\ file = CHOOSE f \in Files["A"] : TRUE
  /\ Rests("sockets") => program = MainM
  /\ Rests("encryption") => password = <<>>
  /\ Rests("tables") => reader = QuotesOfM /\ sent = <<>> /\ unknown = FALSE
  /\ Rests("echo") => buf = [k \in 1 .. Size |-> Nul]
  /\ StartUpInit /\ SocketInit /\ CaesarInit
  /\ TableInit /\ EchoInit /\ TalkInit

FilesMove ==
  /\ part = "files" /\ StartUpNext
  /\ UNCHANGED <<part, socketVars, caesarVars, tableTextVars, echoPart, talkVars>>
SocketsMove ==
  /\ part = "sockets" /\ SocketNext
  /\ UNCHANGED <<part, startUpVars, caesarVars, tableTextVars, echoPart, talkVars>>
EncryptionMoves ==
  /\ part = "encryption" /\ Encrypt
  /\ UNCHANGED <<part, startUpVars, socketVars, tableTextVars, echoPart, talkVars>>
TablesMove ==
  /\ part = "tables" /\ TableNext
  /\ UNCHANGED <<part, startUpVars, socketVars, caesarVars, echoPart, talkVars>>
EchoMoves ==
  /\ part = "echo" /\ EchoNext
  /\ UNCHANGED <<part, startUpVars, socketVars, caesarVars, tableTextVars, talkVars>>
DatagramsMove ==
  /\ part = "datagrams" /\ TalkNext
  /\ UNCHANGED <<part, startUpVars, socketVars, caesarVars, tableTextVars, echoPart>>

PartsNext ==
  FilesMove \/ SocketsMove \/ EncryptionMoves \/ TablesMove \/ EchoMoves \/ DatagramsMove

PartsSpec == PartsInit /\ [][PartsNext]_allVars
=============================================================================
