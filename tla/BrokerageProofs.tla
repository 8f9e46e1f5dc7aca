-------------------------- MODULE BrokerageProofs --------------------------
(***************************************************************************)
(* Proofs about Brokerage, for any customers, owners, stocks and lots.     *)
(***************************************************************************)
EXTENDS Brokerage, TLAPS

(* The inductive invariant: TypeOK alone is not inductive, because filling  *)
(* an agreed sale keeps shares non-negative only if the sale is covered.    *)
IInv == TypeOK /\ AgreedIsCovered

(* The index of the next price is an index: NextIndex of Server Q.          *)
LEMMA TickStaysInCycle ==
  ASSUME NEW k \in Nat, NEW n \in Nat \ {0}
  PROVE  (k + 1) % n \in Nat /\ (k + 1) % n < n
  OBVIOUS

LEMMA InitHolds ==
  ASSUME BrokerageAssumption
  PROVE  Init => IInv
  BY DEF BrokerageAssumption, Init, IInv, TypeOK, AgreedIsCovered, At, Listed

LEMMA PlaceKeeps ==
  ASSUME IInv, NEW c \in Customers, NEW u \in Owners,
         NEW op \in {"buy", "sell"}, NEW s \in Stocks, NEW n \in Lots,
         Place(c, u, op, s, n)
  PROVE  IInv'
  <1>1. deal' \in Orders /\ deal'.stage = "placed"
    BY DEF Place, Orders
  <1>2. TypeOK'
    BY <1>1 DEF Place, IInv, TypeOK
  <1>3. AgreedIsCovered'
    BY <1>1 DEF AgreedIsCovered, At
  <1>4. QED
    BY <1>2, <1>3 DEF IInv

LEMMA AgreeKeeps == IInv /\ Agree => IInv'
  <1> SUFFICES ASSUME IInv, Agree PROVE IInv'
    OBVIOUS
  <1>1. deal \in Orders /\ deal' \in Orders
    BY DEF IInv, TypeOK, Agree, At, Orders
  <1>2. TypeOK'
    BY <1>1 DEF Agree, IInv, TypeOK
  <1>3. AgreedIsCovered'
    BY <1>1 DEF Agree, AgreedIsCovered, Covered, At, Orders
  <1>4. QED
    BY <1>2, <1>3 DEF IInv

LEMMA FillKeeps ==
  ASSUME BrokerageAssumption, IInv, Fill
  PROVE  IInv'
  <1>1. deal \in Orders /\ deal' \in Orders /\ deal'.stage = "filled"
    BY DEF IInv, TypeOK, Fill, At, Orders
  <1>2. deal.lot \in Nat /\ deal.owner \in Owners /\ deal.stock \in Stocks
    BY <1>1 DEF Orders, BrokerageAssumption
  <1>3. deal.op # "buy" => deal.lot <= shares[deal.owner][deal.stock]
    BY <1>1 DEF IInv, AgreedIsCovered, Covered, Fill, At, Orders
  <1>4. shares' \in [Owners -> [Stocks -> Nat]]
    BY <1>2, <1>3 DEF Fill, IInv, TypeOK
  <1>5. TypeOK'
    BY <1>1, <1>4 DEF Fill, IInv, TypeOK
  <1>6. AgreedIsCovered'
    BY <1>1 DEF AgreedIsCovered, At
  <1>7. QED
    BY <1>5, <1>6 DEF IInv

LEMMA CloseKeeps ==
  ASSUME BrokerageAssumption, IInv, Close
  PROVE  IInv'
  <1>1. ASSUME NEW s \in Listed
        PROVE  clock'[s] \in Nat /\ clock'[s] < Cycle[s]
    <2>1. clock[s] \in Nat /\ clock[s] < Cycle[s] /\ Cycle[s] \in Nat \ {0}
      BY <1>1 DEF IInv, TypeOK, BrokerageAssumption
    <2>2. (clock[s] + 1) % Cycle[s] \in Nat
          /\ (clock[s] + 1) % Cycle[s] < Cycle[s]
      BY <2>1, TickStaysInCycle
    <2>3. QED
      BY <1>1, <2>1, <2>2 DEF Close
  <1>2. clock' \in [Listed -> Nat] /\ \A s \in Listed : clock'[s] < Cycle[s]
    BY <1>1 DEF Close
  <1>3. TypeOK'
    BY <1>2 DEF Close, IInv, TypeOK
  <1>4. AgreedIsCovered'
    BY DEF Close, AgreedIsCovered, At
  <1>5. QED
    BY <1>3, <1>4 DEF IInv

LEMMA Invariance ==
  ASSUME BrokerageAssumption
  PROVE  Spec => []IInv
  <1>1. Init => IInv
    BY InitHolds
  <1>2. IInv /\ [Next]_vars => IInv'
    <2> SUFFICES ASSUME IInv, [Next]_vars PROVE IInv'
      OBVIOUS
    <2>1. CASE UNCHANGED vars
      BY <2>1 DEF vars, IInv, TypeOK, AgreedIsCovered, Covered, At
    <2>2. CASE Next
      BY <2>2, PlaceKeeps, AgreeKeeps, FillKeeps, CloseKeeps DEF Next
    <2>3. QED
      BY <2>1, <2>2
  <1>3. QED
    BY <1>1, <1>2, PTL DEF Spec

(* Shares never go below zero and the clock always names a price.           *)
THEOREM TypeCorrect ==
  ASSUME BrokerageAssumption
  PROVE  Spec => []TypeOK
  BY Invariance, PTL DEF IInv

(* A sale that has been agreed stays covered until it is filled: what the   *)
(* check of Server P (checkStock) promises to the update that follows it.   *)
THEOREM AgreedStaysCovered ==
  ASSUME BrokerageAssumption
  PROVE  Spec => []AgreedIsCovered
  BY Invariance, PTL DEF IInv
=============================================================================
