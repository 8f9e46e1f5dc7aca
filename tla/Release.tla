------------------------------ MODULE Release ------------------------------
(***************************************************************************)
(* The packaged release of the five programs, the innermost directory of   *)
(* test_unzip.  Its Server M also tells Server P when a purchase is        *)
(* declined, and its Server P knows that message; all else that the        *)
(* programs do is as in the files at the top of the repository, so the     *)
(* actions here are those of Exchange, put together program by program.    *)
(***************************************************************************)
EXTENDS ExchangeProps

CONSTANT MaxQueue \* bound: nobody places an order while more datagrams than
                  \* this wait at Server P, whose answers M need not await

ASSUME QueueAssumption == MaxQueue \in Nat

----------------------------------------------------------------------------
(* serverM.cpp of the release. *)
RelLogin ==
  (MAuth \/ \E c \in Clients : MLogin(c)) /\ UNCHANGED <<priceIndex, pVars, cVars>>

RelPosition ==
  /\ MPortfolio \/ \E c \in Clients : MPosition(c)
  /\ UNCHANGED <<priceIndex, pVars, cVars>>

RelGain == MGain /\ UNCHANGED <<priceIndex, pVars, cVars>>

RelQuote ==
  /\ \/ MQuoteReply
     \/ \E c \in Clients, type \in {"quote", "quoteall"} : MQuote(c, type)
  /\ UNCHANGED <<priceIndex, pVars, cVars>>

RelTransact ==
  /\ \/ \E c \in Clients : MTransact(c)
     \/ MBuyOffer \/ MSellQuoted
  /\ UNCHANGED <<priceIndex, pVars, cVars>>

(* Mutant of RelBuyDenied: Server P is told, and Server Q is not. *)
RelBuyDeniedNoTick ==
  /\ HearsClient("buy_answer")
  /\ AnswerRead = "N"
  /\ toP' = Append(toP, AnswerToP)
  /\ Return
  /\ UNCHANGED <<toA, toQ, toM, priceIndex, pVars, cVars>>

(* N;buy to Server P, then the update to Server Q. *)
RelBuyDenied ==
  /\ HearsClient("buy_answer")
  /\ AnswerRead = "N"
  /\ toP' = Append(toP, AnswerToP)
  /\ Tick
  /\ Return
  /\ UNCHANGED <<toA, toM, priceIndex, pVars, cVars>>

RelBuyApproved ==
  /\ MBuyApproved \/ MBuyUpdate \/ MBuyNobody \/ MBuyThrows
  /\ UNCHANGED <<priceIndex, pVars, cVars>>

RelSellValid ==
  /\ MSellChecked \/ MSellUnknown \/ MSellRefused \/ MSellPass \/ MSellOffer
  /\ UNCHANGED <<priceIndex, pVars, cVars>>

RelSellAnswer ==
  (MSellDenied \/ MSellApproved) /\ UNCHANGED <<priceIndex, pVars, cVars>>

RelResult == MResult /\ UNCHANGED <<priceIndex, pVars, cVars>>

RelMisread == MMisread /\ UNCHANGED <<priceIndex, pVars, cVars>>

RelClose ==
  /\ MSigPipe \/ \E c \in Clients : MClose(c)
  /\ UNCHANGED <<priceIndex, pVars, cVars>>

RelServerM ==
  \/ RelLogin \/ RelPosition \/ RelGain \/ RelQuote \/ RelTransact
  \/ RelBuyDenied \/ RelBuyApproved \/ RelSellValid \/ RelSellAnswer
  \/ RelResult \/ RelMisread \/ RelClose

----------------------------------------------------------------------------
(* serverP.cpp of the release. *)
RelGetPortfolio == PPosition /\ UNCHANGED <<priceIndex, mVars, cVars>>
RelCheckStock   == PCheck /\ UNCHANGED <<priceIndex, mVars, cVars>>
RelGetStock     == PRetrieve /\ UNCHANGED <<priceIndex, mVars, cVars>>
RelUpdateStock ==
  /\ PUpdateNew \/ PUpdateReplace \/ PUpdateRemove
  /\ UNCHANGED <<priceIndex, mVars, cVars>>

(* N;buy is the fourth confirmation that gets no reply. *)
RelSilent(m) == m.text \in {"Y", "N"}

RelAnswer ==
  /\ PReceives("answer")
  /\ RelSilent(Head(toP))
  /\ UNCHANGED <<portfolio, pup, toA, toQ, toM, tcpVars, priceIndex, mVars, cVars>>

RelFallsOff ==
  /\ PReceives("answer")
  /\ ~RelSilent(Head(toP))
  /\ \/ UNCHANGED <<pup, toM>>
     \/ toM' = Append(toM, [t |-> "junk"]) /\ UNCHANGED pup
     \/ pup' = FALSE /\ UNCHANGED toM
  /\ UNCHANGED <<portfolio, toA, toQ, tcpVars, priceIndex, mVars, cVars>>

RelServerP ==
  \/ RelGetPortfolio \/ RelCheckStock \/ RelGetStock \/ RelUpdateStock
  \/ RelAnswer \/ RelFallsOff

----------------------------------------------------------------------------
(* serverQ.cpp and serverA.cpp of the release, the same files. *)
RelGetQuote ==
  (QQuote \/ QQuoteAll) /\ UNCHANGED <<pVars, mVars, cVars>>
RelUpdatePrice == QUpdate /\ UNCHANGED <<pVars, mVars, cVars>>
RelServerQ == RelGetQuote \/ RelUpdatePrice

RelServerA == AReply /\ UNCHANGED <<priceIndex, pVars, mVars, cVars>>

----------------------------------------------------------------------------
(* client.cpp of the release: other words on the screen. *)
RelClientLogin(c) ==
  (CLogin(c) \/ CAuth(c)) /\ UNCHANGED <<priceIndex, pVars, mVars>>

RelClientAsks(c) ==
  /\ \E m \in    [t : {"quoteall"}] \cup [t : {"quote"}, stock : Stocks]
            \cup [t : {"position"}, user : Names] : CAsk(c, m)
  /\ UNCHANGED <<priceIndex, pVars, mVars>>

RelClientShows(c) == CShow(c) /\ UNCHANGED <<priceIndex, pVars, mVars>>

RelTransactCommand(c) ==
  /\ \/ \E op \in {"buy", "sell"}, s \in Stocks, n \in Shares :
          /\ Len(toP) <= MaxQueue
          /\ CTrade(c, op, s, n) /\ WithinBound(c, op, s, n)
     \/ CValid(c) \/ CResult(c)
  /\ UNCHANGED <<priceIndex, pVars, mVars>>

RelParseTransact(c) ==
  /\ COffer(c) \/ CNoSuchStock(c) \/ \E text \in Typed : CAnswer(c, text)
  /\ UNCHANGED <<priceIndex, pVars, mVars>>

RelClientLeaves(c) == CLeave(c) /\ UNCHANGED <<priceIndex, pVars, mVars>>

RelClient(c) ==
  \/ RelClientLogin(c) \/ RelClientAsks(c) \/ RelClientShows(c)
  \/ RelTransactCommand(c) \/ RelParseTransact(c) \/ RelClientLeaves(c)

RelNext ==
  \/ RelServerM \/ RelServerP \/ RelServerQ \/ RelServerA
  \/ \E c \in Clients : RelClient(c)

RelSpec == Init /\ [][RelNext]_vars

----------------------------------------------------------------------------
(* A queue of Server P without the N;buy messages in it.                   *)
IsBuyDenied(m) == m.t = "answer" /\ m.op = "buy" /\ m.text = "N"
WithoutBuyDenied(queue) ==
  LET upTo[k \in 0 .. Len(queue)] ==
        IF k = 0 THEN <<>>
        ELSE IF IsBuyDenied(queue[k]) THEN upTo[k - 1]
        ELSE Append(upTo[k - 1], queue[k])
  IN  upTo[Len(queue)]

(* The release does what the other version does: take away the N;buy that  *)
(* its Server M sends, and every step is one of Exchange or none.  So what *)
(* holds of the one - order of replies, positions, permission - holds of   *)
(* the other, though P's queue holds one more message (operationType of    *)
(* the release, lines 552 to 558).                                         *)
Other == INSTANCE Exchange WITH toP <- WithoutBuyDenied(toP)

ImplementsExchange == Other!Spec
=============================================================================
