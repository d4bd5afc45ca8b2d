--------------------------- MODULE MCCreditPipeline ---------------------------
(* Two orders, of one buyer or of two, and three requests: a payment can be    *)
(* confirmed twice and refunded, a batch of two can be sent half.             *)
EXTENDS CreditPipeline

CONSTANTS u1, u2, o1, o2, h1, h2, h3

ThreeHandlers == {h1, h2, h3}
TwoHandlers == {h1, h2}
TwoOrders == {o1, o2}
Symmetry == Permutations(ThreeHandlers) \cup Permutations(TwoOrders)
OneBuyer == [o \in Orders |-> u1]
TwoBuyers == [o \in Orders |-> IF o = o1 THEN u1 ELSE u2]

(* Where the run with two buyers starts: from two of the states that the      *)
(* pipeline reaches from its initial ones.                                   *)
Request(at, o, read, id) ==
    [at |-> at, order |-> o, read |-> read, id |-> id, found |-> read]

(* One request has ended at once, two are to come: every failure is ahead.     *)
(* That h2 is about o1 is no loss: the names of orders and buyers may change.  *)
TwoToCome ==
    /\ payment = [o \in Orders |-> NoRow] /\ gateway = [o \in Orders |-> "unpaid"]
    /\ outbox = <<>> /\ lastId = 0
    /\ handler \in [Handlers -> {Request("new", o, NoRow, 0) : o \in Orders}
                                \cup {Request("ended", o1, NoRow, 0)}]
    /\ \A h \in Handlers : handler[h].at = "ended" <=> h = h1
    /\ handler[h2].order = o1
    /\ failures = 0 /\ dbFailures = 0

(* The purchase of one buyer is recorded, the payment of the other one can be  *)
(* confirmed and refunded, and the failures have passed over an idle relay.   *)
OneConfirmed ==
    /\ payment = [o \in Orders |-> IF o = o1 THEN Confirmed(NewRow) ELSE NoRow]
    /\ gateway = [o \in Orders |-> IF o = o1 THEN "approved" ELSE "unpaid"]
    /\ outbox = 1 :> [order |-> o1, kind |-> "purchase"] /\ lastId = 1
    /\ handler = [h \in Handlers |-> IF h = h1 THEN Request("ended", o1, NewRow, 1)
                                     ELSE Request("new", o2, NoRow, 0)]
    /\ failures = MaxFailures /\ dbFailures = MaxDbFailures

TwoBuyersInit == (TwoToCome \/ OneConfirmed) /\ NothingSent
TwoBuyersSpec == TwoBuyersInit /\ [][PipelineNext]_pipelineVars /\ Fairness
=============================================================================
