----------------------------- MODULE TableText -----------------------------
(***************************************************************************)
(* The two tables that travel as text: quote;start;name;price;...;end;n    *)
(* and position;user;name;shares;price;...;end;n, to which Server M adds   *)
(* ;profit.  The readers - constructNewMsg in Server M, parseAllQuotes and *)
(* parsePortfolio in the client - count the fields and tell a column by    *)
(* the remainder of its number, after looking for the words end and NA, so *)
(* a stock with such a name is taken for the end of the table.             *)
(***************************************************************************)
EXTENDS Integers, Sequences

CONSTANTS Names,  \* stock names, perhaps the words end and NA among them
          Cells,  \* shares and prices as text
          MaxRows \* bound: rows of a table

ASSUME CellsAssumption == Names \cap Cells = {} /\ {"end", "NA"} \cap Cells = {}
ASSUME RowsAssumption == MaxRows \in Nat

(* The four loops: how wide a row is, which words end the table, where NA   *)
(* does, and whether the second field after the end is read as the profit.  *)
QuotesOfM ==
  [width |-> 2, na |-> "never", profit |-> FALSE]
PositionsOfM ==
  [width |-> 3, na |-> "always", profit |-> FALSE]
QuotesOfClient == QuotesOfM
PositionsOfClient ==
  [width |-> 3, na |-> "first", profit |-> TRUE]

Readers == {QuotesOfM, PositionsOfM, QuotesOfClient, PositionsOfClient}

Rows(width) ==
  UNION {[1 .. n -> [1 .. width -> Names \cup Cells]] : n \in 0 .. MaxRows}

VARIABLES reader,
          sent,     \* the rows that the sender put into the message
          unknown,  \* or NA in their place: the user has no portfolio
          parseNum, \* fields read
          row,      \* stockName, shareQuantity, stockPrice
          table,    \* rows read
          done,     \* the loop has been left
          shown     \* the profit shown

tableTextVars == <<reader, sent, unknown, parseNum, row, table, done, shown>>

w == reader.width

TableInit ==
  /\ reader \in Readers
  /\ sent \in {r \in Rows(w) : \A k \in DOMAIN r :
                  r[k][1] \in Names /\ \A c \in 2 .. w : r[k][c] \in Cells}
  /\ unknown \in BOOLEAN
  /\ unknown => sent = <<>> /\ w = 3
  /\ parseNum = 0
  /\ row = [c \in 1 .. w |-> ""]
  /\ table = <<>>
  /\ done = FALSE
  /\ shown = ""

(* The message: two fields, the rows, end, the number of M's socket, profit. *)
Body  == 2 + (IF unknown THEN 1 ELSE w * Len(sent))
Total == Body + 3

(* Mutant of Column: the count starts at the first row. *)
ColumnFromOne(n) == ((n - 1) % w) + 1
(* parseNum % 2 = 1 is the name of a stock, parseNum % 3 = 0 that of a      *)
(* position.                                                                *)
Column(n) == ((n - 3) % w) + 1

Field(n) ==
  CASE n = 1 -> "type"
    [] n = 2 -> "who"
    [] n > 2 /\ n <= Body ->
         IF unknown THEN "NA" ELSE sent[((n - 3) \div w) + 1][((n - 3) % w) + 1]
    [] n = Body + 1 -> "end"
    [] n = Body + 2 -> "socket"
    [] n = Body + 3 -> "profit"

Ends(n) ==
  \/ Field(n) = "end"
  \/ Field(n) = "NA" /\ reader.na = "always"
  \/ Field(n) = "NA" /\ reader.na = "first" /\ n = 3

Reading == ~done /\ parseNum < Total

Skip ==
  /\ Reading /\ parseNum < 2
  /\ parseNum' = parseNum + 1
  /\ UNCHANGED <<reader, sent, unknown, row, table, done, shown>>

(* break; the profit is the second field behind end. *)
Stop ==
  /\ Reading /\ parseNum >= 2 /\ Ends(parseNum + 1)
  /\ done' = TRUE
  /\ shown' = IF reader.profit /\ Field(parseNum + 1) = "end"
                THEN Field(parseNum + 3) ELSE shown
  /\ UNCHANGED <<reader, sent, unknown, parseNum, row, table>>

Take ==
  /\ Reading /\ parseNum >= 2 /\ ~Ends(parseNum + 1)
  /\ LET n == parseNum + 1 IN
       /\ parseNum' = n
       /\ row' = [row EXCEPT ![Column(n)] = Field(n)]
       /\ table' = IF Column(n) = w THEN Append(table, row') ELSE table
  /\ UNCHANGED <<reader, sent, unknown, done, shown>>

TableNext == Skip \/ Stop \/ Take

TableSpec == TableInit /\ [][TableNext]_tableTextVars

----------------------------------------------------------------------------
(* Whether row k's name ends the table for this reader. *)
Reserved(k) ==
  \/ sent[k][1] = "end"
  \/ sent[k][1] = "NA" /\ reader.na = "always"
  \/ sent[k][1] = "NA" /\ reader.na = "first" /\ k = 1

(* A reader gets the rows as they were sent, each with its own numbers, up *)
(* to the first whose name it takes for the end, and all of them when      *)
(* there is none: columns never slip.  The client then shows the profit    *)
(* that Server M has added (constructNewMsg, parseAllQuotes,               *)
(* parsePortfolio).                                                        *)
TableAsSent ==
  /\ Len(table) <= Len(sent)
  /\ \A k \in DOMAIN table : table[k] = sent[k] /\ ~Reserved(k)
  /\ done /\ Len(table) < Len(sent) => Reserved(Len(table) + 1)
  /\ done /\ reader.profit /\ ~unknown /\ Len(table) = Len(sent) => shown = "profit"

=============================================================================
