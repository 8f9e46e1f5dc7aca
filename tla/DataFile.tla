------------------------------ MODULE DataFile ------------------------------
(***************************************************************************)
(* The text files that Servers A, P and Q read when they start.  A line is *)
(* the sequence of the words between its blanks, so a line of n words has  *)
(* n - 1 blanks, two blanks in a row have the empty word between them, and *)
(* the empty line is the one empty word.                                   *)
(***************************************************************************)
EXTENDS Integers, Sequences, SequencesExt

CONSTANTS Words,   \* words that lines are made of
          Number,  \* what stoi and stod read, for the words that are numbers
          Small,   \* lowercaseConvert, on Words
          Files    \* for Server "A", "P" and "Q", sequences of lines

ASSUME WordsAssumption ==
  /\ "" \in Words
  /\ DOMAIN Number \subseteq Words \ {""}
  /\ Small \in [Words -> Words]
  /\ \A w \in Words : Small[w] = "" => w = ""
ASSUME FilesAssumption ==
  \A s \in DOMAIN Files : Files[s] \subseteq Seq(Seq(Words) \ {<<>>})

VARIABLES server, \* the one that starts
          file,   \* the lines of its file
          next,   \* number of the line getline returns next
          ended   \* stod or stoi has thrown: the server has ended

fileVars == <<server, file, next, ended>>

FileInit ==
  /\ server \in DOMAIN Files
  /\ file \in Files[server]
  /\ next = 1 /\ ended = FALSE

EmptyLine == <<"">>
HasBlank(line) == Len(line) > 1

(* info.substr(0, space): to the first blank, or the whole line; and        *)
(* info.substr(space + 1): behind it, or the whole line again, because find *)
(* returns -1 where there is no blank.                                      *)
FirstWord(line) == Head(line)
AfterFirst(line) == IF HasBlank(line) THEN Tail(line) ELSE line

(* The text as one name: its words with the blanks between them.            *)
LowerLine(line) == [k \in DOMAIN line |-> Small[line[k]]]

GetLine(s) ==
  /\ server = s /\ ~ended /\ next <= Len(file)
  /\ next' = next + 1
  /\ UNCHANGED <<server, file>>
AllRead(s) == server = s /\ ~ended /\ next > Len(file)
Line    == file[next]
=============================================================================
