---------------------------- MODULE QuoteServer ----------------------------
(***************************************************************************)
(* serverQ.cpp: the price list of every listed stock and the index of its  *)
(* current price.  A quote is answered with the current price, an update   *)
(* moves one stock to its next price and is not answered.                  *)
(***************************************************************************)
EXTENDS Wire

CONSTANT Prices   \* listed stock -> the sequence of its prices (quotes.txt)

Listed == DOMAIN Prices

ASSUME PricesAssumption ==
  /\ Listed \subseteq Stocks
  /\ \A s \in Listed : Prices[s] \in Seq(Nat) /\ Prices[s] # <<>>

VARIABLE priceIndex   \* listed stock -> index of its current price, from 0

QuoteToQ  == [t : {"quote"}, stock : Stocks] \cup [t : {"quoteall"}]
UpdateToQ == [t : {"update"}, stock : Stocks]
ReplyFromQ == [t : {"quote"}, stock : Stocks, price : Int \cup {NA}]
         \cup [t : {"quoteall"}, prices : [Listed -> Int]]

QInit == priceIndex = [s \in Listed |-> 0]

(* The price getQuote prints, to the cent. *)
CurrentPrice(s) == RoundCent(Prices[s][priceIndex[s] + 1])

QuoteOf(s) == IF s \in Listed THEN CurrentPrice(s) ELSE NA

(* updatePrice: the last price is followed by the first. *)
NextIndex(s) ==
  IF priceIndex[s] = Len(Prices[s]) - 1 THEN 0 ELSE priceIndex[s] + 1

QReceives(type) == toQ # <<>> /\ Head(toQ).t = type /\ toQ' = Tail(toQ)

(* Mutant of QQuote: no reply for a stock that is not listed. *)
QQuoteListed ==
  /\ QReceives("quote")
  /\ toM' = IF Head(toQ).stock \in Listed
              THEN Append(toM, [t |-> "quote", stock |-> Head(toQ).stock,
                                price |-> QuoteOf(Head(toQ).stock)])
              ELSE toM
  /\ UNCHANGED <<priceIndex, toA, toP, tcpVars>>

QQuote ==
  /\ QReceives("quote")
  /\ toM' = Append(toM, [t |-> "quote", stock |-> Head(toQ).stock,
                         price |-> QuoteOf(Head(toQ).stock)])
  /\ UNCHANGED <<priceIndex, toA, toP, tcpVars>>

(* Mutant of QQuoteAll: the opening prices instead of the current ones. *)
QQuoteAllOpening ==
  /\ QReceives("quoteall")
  /\ toM' = Append(toM, [t |-> "quoteall",
                         prices |-> [s \in Listed |-> RoundCent(Prices[s][1])]])
  /\ UNCHANGED <<priceIndex, toA, toP, tcpVars>>

QQuoteAll ==
  /\ QReceives("quoteall")
  /\ toM' = Append(toM, [t |-> "quoteall",
                         prices |-> [s \in Listed |-> CurrentPrice(s)]])
  /\ UNCHANGED <<priceIndex, toA, toP, tcpVars>>

QUpdate ==
  /\ QReceives("update")
  /\ priceIndex' = [s \in Listed |->
                      IF s = Head(toQ).stock THEN NextIndex(s)
                                             ELSE priceIndex[s]]
  /\ UNCHANGED <<toA, toP, toM, tcpVars>>
=============================================================================
