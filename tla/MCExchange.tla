---------------------------- MODULE MCExchange ----------------------------
(* Small instances of Exchange for TLC. *)
EXTENDS ExchangeProps

CONSTANTS c1, c2, alice, Alice, bob, good, bad, S1, S2, S3

Position(s, q, p) == [stockName |-> s, quantity |-> q, avgPrice |-> p]

MCLower == [n \in {alice, Alice, bob} |-> IF n = Alice THEN alice ELSE n]
MCEncrypt == (good :> "jrrg") @@ (bad :> "edg")
MCMembers == [u \in {alice, bob} |-> "jrrg"]

MCPrices == (S1 :> <<10, 20>>) @@ (S2 :> <<20>>)
OnePrices == S1 :> <<10, 20>>

MCPortfolios == (alice :> <<Position(S2, 2, 20), Position(S1, 1, 14)>>)
                  @@ (bob :> <<>>)
OnePortfolios == (alice :> <<Position(S1, 1, 14)>>) @@ (bob :> <<>>)
OnlyAlice == alice :> <<Position(S1, 1, 14)>>

(* What a person may type for a number of shares. *)
RoughShares == {-1, 0, 1}

(* Two people with alice's password; one of them once mistakes himself. *)
SharedLogin == (c1 :> {<<Alice, good>>}) @@ (c2 :> {<<alice, good>>, <<bob, bad>>})
OwnLogin == (c1 :> {<<Alice, good>>}) @@ (c2 :> {<<bob, good>>})

(* Where nobody types a number below zero, the exchange is one of the       *)
(* instances that BrokerageProofs speaks of.                                *)
ASSUME OrdersOfABrokerage == Shares \subseteq Nat => Broker!BrokerageAssumption

(* Where nobody ends his client, it is one that the theorems speak of.      *)
ASSUME OrderlyInstances == Quitters = {} => OrderlyInstance
=============================================================================
