----------------------------- MODULE Brokerage -----------------------------
(***************************************************************************)
(* What the exchange promises, without its programs: orders are carried    *)
(* out one at a time; a sale is agreed only when covered; an agreed order  *)
(* moves exactly its shares, once; and closing an order, filled or not,    *)
(* moves the time of its stock by exactly one price.                       *)
(***************************************************************************)
EXTENDS Integers

CONSTANTS Customers, Owners, Stocks, NA,
          Start,   \* owner -> stock -> shares at the start
          Cycle,   \* listed stock -> number of prices, taken in turn
          Lots,    \* numbers of shares that are ordered
          Limit    \* bound on the shares of one stock one owner orders up to

Listed == DOMAIN Cycle

(* What the constants are; the theorems of BrokerageProofs assume it. *)
BrokerageAssumption ==
  /\ Start \in [Owners -> [Stocks -> Nat]]
  /\ Listed \subseteq Stocks
  /\ Cycle \in [Listed -> Nat \ {0}]
  /\ Lots \subseteq Nat
  /\ Limit \in Nat

VARIABLES shares,  \* owner -> stock -> shares held
          clock,   \* listed stock -> which of its prices is current
          deal     \* the order being carried out, or NA

vars == <<shares, clock, deal>>

Orders == [by : Customers, owner : Owners, op : {"buy", "sell"},
           stock : Stocks, lot : Lots, stage : {"placed", "agreed", "filled"}]

Init ==
  /\ shares = Start
  /\ clock = [s \in Listed |-> 0]
  /\ deal = NA

Place(c, u, op, s, n) ==
  /\ deal = NA
  /\ op = "buy" => shares[u][s] + n <= Limit
  /\ deal' = [by |-> c, owner |-> u, op |-> op, stock |-> s, lot |-> n,
              stage |-> "placed"]
  /\ UNCHANGED <<shares, clock>>

At(stage) == deal # NA /\ deal.stage = stage

Covered == deal.op = "sell" => deal.lot <= shares[deal.owner][deal.stock]

Agree ==
  /\ At("placed")
  /\ deal.stock \in Listed
  /\ Covered
  /\ deal' = [deal EXCEPT !.stage = "agreed"]
  /\ UNCHANGED <<shares, clock>>

Fill ==
  /\ At("agreed")
  /\ shares' = [shares EXCEPT ![deal.owner][deal.stock] =
                  IF deal.op = "buy" THEN @ + deal.lot ELSE @ - deal.lot]
  /\ deal' = [deal EXCEPT !.stage = "filled"]
  /\ UNCHANGED clock

(* Refused, declined or filled. *)
Close ==
  /\ At("placed") \/ At("filled")
  /\ clock' = [s \in Listed |-> IF s = deal.stock
                                  THEN (clock[s] + 1) % Cycle[s] ELSE clock[s]]
  /\ deal' = NA
  /\ UNCHANGED shares

Next ==
  \/ \E c \in Customers, u \in Owners, op \in {"buy", "sell"},
        s \in Stocks, n \in Lots : Place(c, u, op, s, n)
  \/ Agree \/ Fill \/ Close

Spec == Init /\ [][Next]_vars

(* Nobody's shares go below zero, and the clock names a price. *)
TypeOK ==
  /\ shares \in [Owners -> [Stocks -> Nat]]
  /\ clock \in [Listed -> Nat]
  /\ \A s \in Listed : clock[s] < Cycle[s]
  /\ deal \in Orders \cup {NA}

(* A sale once agreed stays covered until it is filled. *)
AgreedIsCovered == At("agreed") => Covered
=============================================================================
