----------------------------- MODULE QuotesFile -----------------------------
(***************************************************************************)
(* onStartUp of serverQ.cpp: quotes.txt into a price list for each stock,  *)
(* Quotes of module QuoteServer.  One action is one line; the inner loop   *)
(* over its prices is PricesOn.                                            *)
(***************************************************************************)
EXTENDS DataFile

VARIABLE quotes  \* stock name -> its prices (every index starts at 0)

QuotesInit == quotes = [s \in {} |-> <<>>]

(* The words that the inner loop passes to stod: it stops when nothing is  *)
(* left, so one blank at the end of the line is no price.                  *)
PricesOn(line) ==
  LET rest == AfterFirst(line)
  IN  IF Last(rest) = "" THEN Front(rest) ELSE rest

(* stod throws on a word that does not start as a number.                  *)
StockIsBad(line) == \E k \in DOMAIN PricesOn(line) : PricesOn(line)[k] \notin DOMAIN Number

ReadStock ==
  /\ GetLine("Q")
  /\ ~StockIsBad(Line)
  /\ quotes' =
       [s \in DOMAIN quotes \cup {FirstWord(Line)} |->
          IF s = FirstWord(Line)
            THEN [k \in DOMAIN PricesOn(Line) |-> Number[PricesOn(Line)[k]]]
            ELSE quotes[s]]
  /\ UNCHANGED ended

StockThrows ==
  /\ GetLine("Q")
  /\ StockIsBad(Line)
  /\ ended' = TRUE
  /\ UNCHANGED quotes

ReadQuotes == ReadStock \/ StockThrows

----------------------------------------------------------------------------
QuotesLines(s) == {n \in DOMAIN file : file[n][1] = s}

(* If Server Q starts at all, each stock has the prices of its last line,  *)
(* all of them and in order.                                               *)
PricesAreListed ==
  AllRead("Q") =>
    \A s \in Words : QuotesLines(s) # {} =>
      LET line == file[Max(QuotesLines(s))]
      IN  /\ s \in DOMAIN quotes
          /\ \A k \in 2 .. Len(line) :
               line[k] # "" => k - 1 \in DOMAIN quotes[s]
                                 /\ quotes[s][k - 1] = Number[line[k]]

(* What QuoteServer assumes of its price lists: none is empty, so that     *)
(* getQuote finds a price at the index.  Only an empty line of the file or *)
(* a blank behind a name breaks it.                                        *)
Careful(line) == line # EmptyLine /\ ~(Len(line) = 2 /\ line[2] = "")
NoEmptyList ==
  (\A n \in DOMAIN file : Careful(file[n])) =>
    \A s \in DOMAIN quotes : quotes[s] # <<>>
=============================================================================
