--------------------------- MODULE PortfoliosFile ---------------------------
(***************************************************************************)
(* onStartUp of serverP.cpp: portfolios.txt into the positions of each     *)
(* user, Portfolios of module PortfolioServer.  A line with at most one    *)
(* blank is a user, one with more is a position of the user above it; a    *)
(* user is put into the map when the next one is met, the last one behind  *)
(* the loop.                                                               *)
(***************************************************************************)
EXTENDS DataFile

VARIABLES portfolio, \* user name, a text with its blanks, -> positions
          userID,    \* the user whose positions are being read, or none
          stocks,    \* its positions so far
          returned   \* the map has been returned

portfolioVars == <<portfolio, userID, stocks, returned>>

Nobody == EmptyLine

PortfoliosInit ==
  /\ portfolio = [u \in {} |-> <<>>]
  /\ userID = Nobody /\ stocks = <<>> /\ returned = FALSE

IsUser(line)     == line # EmptyLine /\ Len(line) <= 2
IsPosition(line) == Len(line) >= 3

(* if (!userID.empty()) portfolio[userID] = stocks *)
Saved ==
  IF userID = Nobody THEN portfolio
  ELSE [u \in DOMAIN portfolio \cup {userID} |->
          IF u = userID THEN stocks ELSE portfolio[u]]

ReadUser ==
  /\ GetLine("P") /\ IsUser(Line)
  /\ portfolio' = Saved
  /\ userID' = LowerLine(Line)
  /\ stocks' = <<>>
  /\ UNCHANGED <<ended, returned>>

(* stoi reads the second word, stod what follows it, where it passes over   *)
(* blanks; a word that is no number ends Server P.                          *)
PriceWords(line) == SelectSeq(SubSeq(line, 3, Len(line)), LAMBDA w : w # "")
Reads(line) ==
  /\ line[2] \in DOMAIN Number
  /\ PriceWords(line) # <<>> /\ Head(PriceWords(line)) \in DOMAIN Number
Position(line) ==
  [stockName |-> line[1], quantity |-> Number[line[2]],
   avgPrice |-> Number[Head(PriceWords(line))]]

ReadPosition ==
  /\ GetLine("P") /\ IsPosition(Line) /\ Reads(Line)
  /\ stocks' = Append(stocks, Position(Line))
  /\ UNCHANGED <<portfolio, userID, ended, returned>>

PositionThrows ==
  /\ GetLine("P") /\ IsPosition(Line) /\ ~Reads(Line)
  /\ ended' = TRUE
  /\ UNCHANGED <<portfolio, userID, stocks, returned>>

ReadEmptyLine ==
  /\ GetLine("P") /\ Line = EmptyLine
  /\ UNCHANGED <<portfolio, userID, stocks, ended, returned>>

(* Mutant of Finish: the last user is not put into the map. *)
FinishInLoop ==
  /\ AllRead("P") /\ ~returned
  /\ returned' = TRUE
  /\ UNCHANGED <<fileVars, portfolio, userID, stocks>>

Finish ==
  /\ AllRead("P") /\ ~returned
  /\ portfolio' = Saved
  /\ returned' = TRUE
  /\ UNCHANGED <<fileVars, userID, stocks>>

ReadPortfolios == ReadUser \/ ReadPosition \/ PositionThrows \/ ReadEmptyLine \/ Finish

----------------------------------------------------------------------------
UserLines == {n \in DOMAIN file : IsUser(file[n])}

(* Line n is a position of the user of line m, the nearest one above. *)
IsPositionOf(m, n) ==
  /\ IsPosition(file[n]) /\ m < n
  /\ \A l \in UserLines : l < n => l <= m

(* The positions of user line m, in the order of the file. *)
PositionsOf(m) ==
  LET upTo[n \in 0 .. Len(file)] ==
        IF n = 0 THEN <<>>
        ELSE IF IsPositionOf(m, n) THEN Append(upTo[n - 1], Position(file[n]))
        ELSE upTo[n - 1]
  IN  upTo[Len(file)]

(* Every position goes to the user above it and to nobody else, in the     *)
(* order of the file, the last user's too; of two blocks of one user the   *)
(* later one counts; positions above the first user are nobody's.          *)
EachOwnsTheirs ==
  returned =>
    /\ DOMAIN portfolio = {LowerLine(file[m]) : m \in UserLines}
    /\ \A m \in UserLines :
         (\A n \in UserLines : n > m => LowerLine(file[n]) # LowerLine(file[m]))
           => portfolio[LowerLine(file[m])] = PositionsOf(m)

(* serverP.cpp:71, "parse out username (found by having 1 or 0 spaces in   *)
(* the line)", and :55, "a map with usernames as keys": the user a line    *)
(* names is a key, a blank behind the name or not.                         *)
UsernamesAreKeys ==
  returned => \A m \in UserLines : <<Small[file[m][1]]>> \in DOMAIN portfolio
=============================================================================
