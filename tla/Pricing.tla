------------------------------ MODULE Pricing ------------------------------
(***************************************************************************)
(* The money arithmetic of Server M.  A double that holds a price is an    *)
(* integer number of units; Cent is the number of units in one cent (the   *)
(* program prints six decimals with to_string and two with                 *)
(* setprecision(2), so Cent is 10000 in the program and small in TLC).     *)
(* NaN is the double that 0.0 / 0.0 yields.  An int of the program is an    *)
(* integer between -IntMax - 1 and IntMax.                                 *)
(***************************************************************************)
EXTENDS Integers, Sequences

CONSTANTS Cent,    \* units in one cent
          NaN,     \* the not-a-number double
          IntMax   \* INT_MAX of the build

ASSUME CentAssumption == Cent \in Nat \ {0}
ASSUME NaNAssumption == NaN \notin Int
ASSUME IntMaxAssumption == IntMax \in Nat \ {0}

Money == Int \cup {NaN}
CInt  == (-IntMax - 1) .. IntMax

(* a / b to the nearest unit, for b # 0: what printing a quotient with a    *)
(* fixed number of decimals leaves of it.                                   *)
RoundDiv(a, b) ==
  IF b > 0 THEN (2 * a + b) \div (2 * b)
           ELSE (b - 2 * a) \div (-2 * b)

(* setprecision(2): the nearest whole cent. *)
RoundCent(p) == IF p = NaN THEN NaN ELSE Cent * RoundDiv(p, Cent)

(* Mutant of Wrap: ints that never overflow. *)
WrapUnbounded(x) == x

(* int addition of two ints: the build wraps around. *)
Wrap(x) ==
  IF x > IntMax THEN x - (2 * IntMax + 2)
  ELSE IF x < -IntMax - 1 THEN x + (2 * IntMax + 2)
  ELSE x

(* Division of doubles.  x / 0 with x # 0 is an infinity in the program;    *)
(* that quotient is only ever sent with quantity 0, for which Server P      *)
(* ignores the price, so it shares the value NaN.                           *)
Ratio(a, b) == IF b = 0 THEN NaN ELSE RoundDiv(a, b)

(* Price per share of a position opened with one purchase. *)
avgBuyPrice(quantity, price) ==
  IF price = NaN THEN NaN ELSE Ratio(quantity * price, quantity)

(* Mutant of avgBuyPriceNew: divides by the old quantity only. *)
avgBuyPriceNewUndivided(quantity, price, quantityOld, avgPriceOld) ==
  IF NaN \in {price, avgPriceOld} THEN NaN
  ELSE Ratio(quantityOld * avgPriceOld + quantity * price, quantityOld)

(* Price per share after adding quantity shares to quantityOld. *)
avgBuyPriceNew(quantity, price, quantityOld, avgPriceOld) ==
  LET oldPrice == avgBuyPrice(quantityOld, avgPriceOld)
      newPrice == avgBuyPrice(quantity, price)
  IN  IF NaN \in {oldPrice, newPrice} THEN NaN
      ELSE Ratio(quantityOld * oldPrice + quantity * newPrice,
                 Wrap(quantity + quantityOld))

(* Doubles added up, NaN among them or not: the total of the first n. *)
Plus(profit, p) == IF NaN \in {profit, p} THEN NaN ELSE profit + p
Total(terms, n) ==
  LET upTo[i \in 0 .. n] == IF i = 0 THEN 0 ELSE Plus(upTo[i - 1], terms[i])
  IN  upTo[n]

(* Value of a portfolio at the given quotes over its cost.  A stock without *)
(* a quote reads as 0.0 from the map.                                       *)
profitCalc(quotes, userPosition) ==
  LET quotePrice(h) == IF h.stockName \in DOMAIN quotes
                         THEN quotes[h.stockName] ELSE 0
      tempProfit(h) == IF h.avgPrice = NaN THEN NaN
                       ELSE h.quantity * (quotePrice(h) - h.avgPrice)
  IN  Total([i \in DOMAIN userPosition |-> tempProfit(userPosition[i])],
            Len(userPosition))
=============================================================================
