------------------------- MODULE CreditPipelineProofs -------------------------
(***************************************************************************)
(* Proofs about Payments and about CreditPipeline, for any orders, users,   *)
(* requests, batch size and number of failures.                             *)
(*                                                                          *)
(* First the payments service alone.  Its invariants speak of the rows of   *)
(* the two tables and of the gateway; they are inductive only together with *)
(* what every request has read and heard before it saves (RequestKnows).    *)
(***************************************************************************)
EXTENDS CreditPipeline, TLAPS, FiniteSetTheorems, SequenceTheorems

(* What a request remembers is still true of the outbox and of the gateway,   *)
(* although the payment may have changed since it was read; the id it has     *)
(* drawn is nobody else's.                                                   *)
Saving == {"confirm_saving", "refund_saving"}
Knows(h) ==
    LET o == handler[h].order
        row == handler[h].read IN
    /\ row.provider <=> row.status \in {"confirmed", "refunded"}
    /\ row.provider => Facts(o, "purchase") # {}
    /\ handler[h].at \in {"confirm_answered", "confirm_saving"} => gateway[o] # "unpaid"
    /\ handler[h].at \in {"refund_answered", "refund_saving"} => gateway[o] = "cancelled"
    /\ handler[h].at = "refund_saving" =>
        row.provider /\ \E i \in Facts(o, "purchase") : i < handler[h].id
    /\ handler[h].at \in Saving => handler[h].id \in (1..lastId) \ DOMAIN outbox
RequestKnows == \A h \in Handlers : Knows(h)
IdsDiffer ==
    \A g, h \in Handlers :
        g # h /\ handler[g].at \in Saving /\ handler[h].at \in Saving
            => handler[g].id # handler[h].id

PaymentInv ==
    /\ PaymentTypeOK
    /\ StatusHasItsFact
    /\ RefundFactFollowsPurchase
    /\ FactsBackedByGateway
    /\ RequestKnows
    /\ IdsDiffer

LEMMA PaymentInitInv == PaymentInit => PaymentInv
<1> SUFFICES ASSUME PaymentInit PROVE PaymentInv
    OBVIOUS
<1> USE DEF PaymentInit
<1>1. PaymentTypeOK
    <2>1. DOMAIN outbox = {} /\ outbox \in [DOMAIN outbox -> Fact]
        <3>1. outbox \in Seq(Fact) /\ Len(outbox) = 0
            OBVIOUS
        <3> QED BY <3>1
    <2> QED BY <2>1 DEF PaymentTypeOK, NoRow, Row, Statuses
<1>2. \A o \in Orders, k \in {"purchase", "refund"} : Facts(o, k) = {}
    BY DEF Facts
<1>3. StatusHasItsFact /\ RefundFactFollowsPurchase /\ FactsBackedByGateway
    BY <1>2 DEF StatusHasItsFact, RefundFactFollowsPurchase, FactsBackedByGateway, NoRow
<1>4. RequestKnows /\ IdsDiffer
    BY DEF RequestKnows, Knows, NoRow, IdsDiffer, Saving
<1> QED BY <1>1, <1>3, <1>4 DEF PaymentInv

(* The requests, whatever they are doing.                                     *)
RequestLabels ==
    {"new", "confirm_sent", "confirm_answered", "confirm_saving",
     "refund_sent", "refund_answered", "refund_saving", "ended"}
Requests ==
    [at : RequestLabels, order : Orders, read : Row \cup {NoRow}, id : Nat,
     found : Row \cup {NoRow}]

(* A step of one request changes that request.                                *)
LEMMA RequestMoves ==
    ASSUME handler \in [Handlers -> Requests], NEW h \in Handlers, NEW r \in Requests,
           handler' = [handler EXCEPT ![h] = r]
    PROVE  /\ handler' \in [Handlers -> Requests]
           /\ handler'[h] = r
           /\ \A g \in Handlers \ {h} : handler'[g] = handler[g]
OBVIOUS

(* The steps of a request before its save: what the new value of the request  *)
(* has to satisfy.                                                           *)
LEMMA RequestStepInv ==
    ASSUME PaymentInv, NEW h \in Handlers, NEW r \in Requests,
           handler' = [handler EXCEPT ![h] = r], UNCHANGED <<payment, outbox>>,
           r.order = handler[h].order,
           r.read = handler[h].read \/ r.read = payment[r.order],
           lastId' \in {lastId, lastId + 1},
           gateway' \in [Orders -> {"unpaid", "approved", "cancelled"}],
           \A o \in Orders :
                /\ gateway[o] # "unpaid" => gateway'[o] # "unpaid"
                /\ gateway[o] = "cancelled" => gateway'[o] = "cancelled",
           r.at \in {"confirm_answered", "confirm_saving"} => gateway'[r.order] # "unpaid",
           r.at \in {"refund_answered", "refund_saving"} => gateway'[r.order] = "cancelled",
           r.at = "refund_saving" => r.read.provider,
           r.at \in Saving => lastId' = lastId + 1 /\ r.id = lastId'
    PROVE  PaymentInv'
<1> USE DEF PaymentInv
<1>1. /\ handler \in [Handlers -> Requests] /\ lastId \in Nat /\ lastId' \in Nat
      /\ DOMAIN outbox \subseteq 1..lastId /\ payment \in [Orders -> Row \cup {NoRow}]
    BY DEF PaymentTypeOK, Requests, RequestLabels
<1>2. /\ handler' \in [Handlers -> Requests]
      /\ handler'[h] = r
      /\ \A g \in Handlers \ {h} : handler'[g] = handler[g]
    BY <1>1, RequestMoves
<1>3. \A o, k : Facts(o, k)' = Facts(o, k)
    BY DEF Facts
<1>4. \A o, k : Facts(o, k) \subseteq 1..lastId
    BY <1>1 DEF Facts
<1>5. \A o \in Orders :
        /\ payment[o].provider <=> payment[o].status \in {"confirmed", "refunded"}
        /\ payment[o].provider => Facts(o, "purchase") # {}
    BY DEF PaymentTypeOK, StatusHasItsFact, RefundFactFollowsPurchase
<1>6. 1..lastId \subseteq 1..lastId' /\ lastId + 1 \notin DOMAIN outbox
    BY <1>1
<1>7. PaymentTypeOK'
    BY <1>1, <1>2, <1>6 DEF PaymentTypeOK, Requests, RequestLabels
<1>8. StatusHasItsFact' /\ RefundFactFollowsPurchase' /\ FactsBackedByGateway'
    BY <1>3 DEF StatusHasItsFact, RefundFactFollowsPurchase, FactsBackedByGateway
<1>9. ASSUME NEW g \in Handlers PROVE Knows(g)'
    <2>1. Knows(g) /\ Knows(h) /\ handler[g].order \in Orders /\ handler[h].order \in Orders
        BY <1>1 DEF RequestKnows, Requests
    <2>2. CASE g # h
        <3>1. handler'[g] = handler[g]
            BY <1>2, <2>2
        <3> QED BY <1>3, <1>6, <2>1, <3>1 DEF Knows
    <2>3. CASE g = h
        <3>1. /\ r.read.provider <=> r.read.status \in {"confirmed", "refunded"}
              /\ r.read.provider => Facts(r.order, "purchase") # {}
            BY <1>5, <2>1 DEF Knows
        <3>2. r.at = "refund_saving" => \E i \in Facts(r.order, "purchase") : i < r.id
            <4> SUFFICES ASSUME r.at = "refund_saving"
                         PROVE  \E i \in Facts(r.order, "purchase") : i < r.id
                OBVIOUS
            <4>1. PICK i \in Facts(r.order, "purchase") : i \in 1..lastId
                BY <1>4, <3>1
            <4> QED BY <1>1, <4>1 DEF Saving
        <3>3. r.at \in Saving => r.id \in (1..lastId') \ DOMAIN outbox
            BY <1>1, <1>6
        <3> QED BY <1>2, <1>3, <2>3, <3>1, <3>2, <3>3 DEF Knows
    <2> QED BY <2>2, <2>3
<1>10. IdsDiffer'
    <2> SUFFICES ASSUME NEW f \in Handlers, NEW g \in Handlers, f # g,
                        handler'[f].at \in Saving, handler'[g].at \in Saving
                 PROVE  handler'[f].id # handler'[g].id
        BY DEF IdsDiffer
    <2>1. \A e \in Handlers : handler[e].at \in Saving => handler[e].id \in 1..lastId
        BY DEF RequestKnows, Knows
    <2>2. CASE f # h /\ g # h
        BY <1>2, <2>2 DEF IdsDiffer
    <2>3. CASE f = h
        BY <1>1, <1>2, <2>1, <2>3
    <2>4. CASE g = h
        BY <1>1, <1>2, <2>1, <2>4
    <2> QED BY <2>2, <2>3, <2>4
<1> QED BY <1>7, <1>8, <1>9, <1>10 DEF RequestKnows

(* The steps that leave the outbox alone.                                    *)
LEMMA PaymentQuietInv ==
    ASSUME PaymentInv,
           \/ \E o \in Orders : Prepare(o)
           \/ \E h \in Handlers :
                \/ StartConfirm(h) \/ GatewayApproves(h) \/ BuildConfirm(h)
                \/ StartRefund(h) \/ GatewayCancels(h) \/ BuildRefund(h) \/ EndUnsaved(h)
           \/ UNCHANGED paymentVars
    PROVE  PaymentInv'
<1>1. CASE \E o \in Orders : Prepare(o)
    <2> USE DEF PaymentInv
    <2> PICK o \in Orders : Prepare(o)
        BY <1>1
    <2>1. \A p, k : Facts(p, k)' = Facts(p, k)
        BY DEF Facts, Prepare
    <2>2. PaymentTypeOK'
        BY DEF Prepare, PaymentTypeOK, NewRow, Row, Statuses
    <2>3. StatusHasItsFact'
        BY <2>1 DEF Prepare, PaymentTypeOK, NewRow, StatusHasItsFact
    <2>4. RequestKnows' /\ IdsDiffer'
        BY <2>1 DEF Prepare, RequestKnows, Knows, IdsDiffer
    <2> QED BY <2>1, <2>2, <2>3, <2>4 DEF Prepare, RefundFactFollowsPurchase,
                                        FactsBackedByGateway
<1>2. ASSUME NEW h \in Handlers,
             \/ StartConfirm(h) \/ GatewayApproves(h) \/ BuildConfirm(h)
             \/ StartRefund(h) \/ GatewayCancels(h) \/ BuildRefund(h) \/ EndUnsaved(h)
      PROVE  PaymentInv'
    <2>1. /\ handler \in [Handlers -> Requests] /\ handler[h] \in Requests
          /\ handler[h].order \in Orders /\ lastId \in Nat
          /\ payment[handler[h].order] \in Row \cup {NoRow}
          /\ gateway \in [Orders -> {"unpaid", "approved", "cancelled"}]
          /\ Knows(h)
        BY DEF PaymentInv, RequestKnows, PaymentTypeOK, Requests, RequestLabels
    <2> DEFINE o == handler[h].order
               now == handler[h]
    <2>2. CASE StartConfirm(h) \/ StartRefund(h)
        <3> DEFINE label == IF StartConfirm(h) THEN "confirm_sent" ELSE "refund_sent"
                   r == [now EXCEPT !.at = label, !.read = payment[o]]
        <3>1. /\ r \in Requests /\ r.order = o /\ r.read = payment[o]
              /\ r.at \in {"confirm_sent", "refund_sent"}
            BY <2>1 DEF Requests, RequestLabels
        <3>2. handler' = [handler EXCEPT ![h] = r]
            BY <2>1, <2>2 DEF StartConfirm, StartRefund
        <3>3. UNCHANGED <<payment, outbox, lastId, gateway>>
            BY <2>2 DEF StartConfirm, StartRefund
        <3> HIDE DEF r
        <3> QED BY <2>1, <3>1, <3>2, <3>3, RequestStepInv DEF Saving
    <2>3. CASE GatewayApproves(h) \/ GatewayCancels(h) \/ EndUnsaved(h)
        <3> DEFINE label == IF EndUnsaved(h) THEN "ended"
                            ELSE IF GatewayApproves(h) THEN "confirm_answered"
                            ELSE "refund_answered"
                   r == [now EXCEPT !.at = label]
        <3>1. /\ r \in Requests /\ r.order = o /\ r.read = now.read
              /\ r.at = label /\ label \in {"ended", "confirm_answered", "refund_answered"}
            BY <2>1 DEF Requests, RequestLabels
        <3>2. handler' = [handler EXCEPT ![h] = r]
            BY <2>1, <2>3 DEF GatewayApproves, GatewayCancels, EndUnsaved
        <3>3. /\ UNCHANGED <<payment, outbox, lastId>>
              /\ gateway' \in [Orders -> {"unpaid", "approved", "cancelled"}]
              /\ \A p \in Orders :
                    /\ gateway[p] # "unpaid" => gateway'[p] # "unpaid"
                    /\ gateway[p] = "cancelled" => gateway'[p] = "cancelled"
              /\ label = "confirm_answered" => gateway'[o] # "unpaid"
              /\ label = "refund_answered" => gateway'[o] = "cancelled"
            BY <2>1, <2>3 DEF GatewayApproves, GatewayCancels, EndUnsaved
        <3> HIDE DEF r, label
        <3> QED BY <2>1, <3>1, <3>2, <3>3, RequestStepInv DEF Saving
    <2>4. CASE BuildConfirm(h) \/ BuildRefund(h)
        <3> DEFINE label == IF BuildConfirm(h) THEN "confirm_saving" ELSE "refund_saving"
                   r == [now EXCEPT !.at = label, !.id = lastId + 1, !.found = payment[o]]
        <3>1. /\ r \in Requests /\ r.order = o /\ r.read = now.read /\ r.id = lastId + 1
              /\ r.at = label /\ label \in Saving
            <4>1. label \in Saving /\ label \in RequestLabels /\ lastId + 1 \in Nat
                BY <2>1 DEF RequestLabels, Saving
            <4> DEFINE x == [now EXCEPT !.at = label]
                       y == [now EXCEPT !.at = label, !.id = lastId + 1]
            <4> HIDE DEF label
            <4>2. x = [at |-> label, order |-> o, read |-> now.read, id |-> now.id,
                       found |-> now.found]
                BY <2>1 DEF Requests
            <4>3. y = [at |-> label, order |-> o, read |-> now.read, id |-> lastId + 1,
                       found |-> now.found]
                <5>1. y = [x EXCEPT !.id = lastId + 1]
                    OBVIOUS
                <5> HIDE DEF x, y
                <5> QED BY <4>2, <5>1
            <4>4. r = [at |-> label, order |-> o, read |-> now.read, id |-> lastId + 1,
                       found |-> payment[o]]
                <5>1. r = [y EXCEPT !.found = payment[o]]
                    OBVIOUS
                <5> HIDE DEF y, r
                <5> QED BY <4>3, <5>1
            <4> QED BY <2>1, <4>1, <4>4 DEF Requests
        <3>2. handler' = [handler EXCEPT ![h] = r]
            BY <2>1, <2>4 DEF BuildConfirm, BuildRefund, Build
        <3>3. UNCHANGED <<payment, outbox, gateway>> /\ lastId' = lastId + 1
            BY <2>4 DEF BuildConfirm, BuildRefund, Build
        <3>4. /\ label = "confirm_saving" => gateway[o] # "unpaid"
              /\ label = "refund_saving" => gateway[o] = "cancelled" /\ now.read.provider
            BY <2>1, <2>4 DEF BuildConfirm, BuildRefund, CanRefund, Knows
        <3> HIDE DEF r, label
        <3> QED BY <2>1, <3>1, <3>2, <3>3, <3>4, RequestStepInv DEF Saving
    <2> QED BY <1>2, <2>2, <2>3, <2>4
<1>3. CASE UNCHANGED paymentVars
    <2>1. \A o, k : Facts(o, k)' = Facts(o, k)
        BY <1>3 DEF Facts, paymentVars
    <2> QED BY <1>3, <2>1 DEF PaymentInv, paymentVars, PaymentTypeOK, StatusHasItsFact,
            RefundFactFollowsPurchase, FactsBackedByGateway, RequestKnows, Knows, IdsDiffer
<1> QED BY <1>1, <1>2, <1>3

(* A save: the status and the fact in one commit.                            *)
LEMMA PaymentSaveInv ==
    ASSUME PaymentInv, NEW h \in Handlers, FinishConfirm(h) \/ FinishRefund(h)
    PROVE  PaymentInv'
<1> USE DEF PaymentInv
<1> DEFINE o == handler[h].order
           n == handler[h].id
           kind == IF FinishConfirm(h) THEN "purchase" ELSE "refund"
           row == IF FinishConfirm(h) THEN Confirmed(handler[h].read)
                                      ELSE Refunded(handler[h].read)
           f == [order |-> o, kind |-> kind]
           r == [handler[h] EXCEPT !.at = "ended"]
<1>1. /\ o \in Orders /\ kind \in Kinds /\ f \in Fact /\ lastId \in Nat
      /\ DOMAIN outbox \subseteq 1..lastId /\ outbox \in [DOMAIN outbox -> Fact]
      /\ handler \in [Handlers -> Requests] /\ r \in Requests /\ Knows(h)
    BY DEF PaymentTypeOK, Kinds, Fact, Requests, RequestLabels, RequestKnows
<1>2. handler[h].at \in Saving /\ n \in (1..lastId) \ DOMAIN outbox
    BY <1>1 DEF FinishConfirm, FinishRefund, Knows, Saving
<1>3. /\ row \in Row /\ row.provider
      /\ row.status \in {"confirmed", "refunded"}
      /\ kind = "purchase" => row.status = "confirmed" /\ gateway[o] # "unpaid"
      /\ kind = "refund" => /\ row.status = "refunded" /\ gateway[o] = "cancelled"
                            /\ \E i \in Facts(o, "purchase") : i < n
    <2>1. handler[h].read \in Row \cup {NoRow}
        BY <1>1 DEF Requests
    <2>2. CASE FinishConfirm(h)
        BY <1>1, <2>1, <2>2 DEF FinishConfirm, Confirmed, Row, NoRow, Statuses, Knows
    <2>3. CASE FinishRefund(h) /\ ~FinishConfirm(h)
        BY <1>1, <2>1, <2>3 DEF FinishRefund, Refunded, Row, NoRow, Statuses, Knows
    <2> QED BY <2>2, <2>3
<1>4. /\ payment' = payment \/ payment' = [payment EXCEPT ![o] = row]
      /\ outbox' = [i \in DOMAIN outbox \cup {n} |-> IF i = n THEN f ELSE outbox[i]]
      /\ handler' = [handler EXCEPT ![h] = r]
      /\ UNCHANGED <<lastId, gateway>>
    <2>1. /\ WriteRow(h, row) /\ UNCHANGED <<lastId, gateway>>
          /\ outbox' = [i \in DOMAIN outbox \cup {n} |-> IF i = n THEN f ELSE outbox[i]]
          /\ handler' = [handler EXCEPT ![h].at = "ended"]
        BY DEF FinishConfirm, FinishRefund, SaveWithOutbox
    <2>2. payment \in [Orders -> Row \cup {NoRow}]
        BY DEF PaymentTypeOK
    <2>3. payment' = [payment EXCEPT ![o] = IF handler[h].found = row THEN payment[o] ELSE row]
        BY <2>1, <2>2 DEF WriteRow
    <2> HIDE DEF row, PaymentInv
    <2> QED BY <1>1, <2>1, <2>2, <2>3
<1>5. /\ handler' \in [Handlers -> Requests]
      /\ handler'[h] = r
      /\ \A g \in Handlers \ {h} : handler'[g] = handler[g]
    BY <1>1, <1>4, RequestMoves
<1>6. r.at = "ended" /\ r.order = o /\ r.read = handler[h].read
    BY <1>1 DEF Requests
<1> HIDE DEF row, kind, r, PaymentInv
<1>7. /\ DOMAIN outbox' = DOMAIN outbox \cup {n} /\ outbox' \in [DOMAIN outbox' -> Fact]
      /\ outbox'[n] = f
      /\ \A i \in DOMAIN outbox : outbox'[i] = outbox[i]
    BY <1>1, <1>2, <1>4
<1>8. \A p \in Orders, k \in Kinds :
            Facts(p, k)' = Facts(p, k) \cup IF p = o /\ k = kind THEN {n} ELSE {}
    <2>1. \A p, k : [order |-> o, kind |-> kind] = [order |-> p, kind |-> k]
                    <=> p = o /\ k = kind
        OBVIOUS
    <2>2. f = [order |-> o, kind |-> kind]
        OBVIOUS
    <2> HIDE DEF f
    <2>3. ASSUME NEW p \in Orders, NEW k \in Kinds, NEW i
          PROVE  i \in Facts(p, k)' <=>
                    i \in Facts(p, k) \/ (p = o /\ k = kind /\ i = n)
        BY <1>2, <1>7, <2>1, <2>2 DEF Facts
    <2> QED BY <2>3
<1> USE DEF PaymentInv
<1>9. PaymentTypeOK'
    <2>1. /\ payment' \in [Orders -> Row \cup {NoRow}]
          /\ \A p \in Orders :
                payment'[p].provider <=> payment'[p].status \in {"confirmed", "refunded"}
        BY <1>1, <1>3, <1>4 DEF PaymentTypeOK
    <2> QED BY <1>1, <1>2, <1>4, <1>5, <1>7, <2>1 DEF PaymentTypeOK, RequestLabels, Requests
<1>10. StatusHasItsFact'
    <2> SUFFICES ASSUME NEW p \in Orders
                 PROVE  /\ payment'[p].status = "confirmed" => Facts(p, "purchase")' # {}
                        /\ payment'[p].status = "refunded" => Facts(p, "refund")' # {}
        BY DEF StatusHasItsFact
    <2>1. Facts(p, "purchase") \subseteq Facts(p, "purchase")'
          /\ Facts(p, "refund") \subseteq Facts(p, "refund")'
        BY <1>8 DEF Kinds
    <2>2. CASE payment'[p] = payment[p]
        BY <2>1, <2>2 DEF StatusHasItsFact
    <2>3. CASE payment'[p] # payment[p]
        <3>1. p = o /\ payment'[p] = row
            BY <1>1, <1>4, <2>3 DEF PaymentTypeOK
        <3>2. row.status = "confirmed" => kind = "purchase"
            BY <1>1, <1>3 DEF Kinds
        <3>3. row.status = "refunded" => kind = "refund"
            BY <1>1, <1>3 DEF Kinds
        <3> QED BY <1>8, <3>1, <3>2, <3>3 DEF Kinds
    <2> QED BY <2>2, <2>3
<1>11. RefundFactFollowsPurchase'
    <2> SUFFICES ASSUME NEW p \in Orders, NEW j \in Facts(p, "refund")'
                 PROVE  \E i \in Facts(p, "purchase")' : i < j
        BY DEF RefundFactFollowsPurchase
    <2>1. CASE j \in Facts(p, "refund")
        BY <2>1, <1>8 DEF RefundFactFollowsPurchase, Kinds
    <2>2. CASE j \notin Facts(p, "refund")
        <3>1. p = o /\ kind = "refund" /\ j = n
            BY <2>2, <1>8 DEF Kinds
        <3>2. PICK i \in Facts(o, "purchase") : i < n
            BY <3>1, <1>3
        <3> QED BY <3>1, <3>2, <1>8 DEF Kinds
    <2> QED BY <2>1, <2>2
<1>12. FactsBackedByGateway'
    BY <1>1, <1>3, <1>4, <1>8 DEF FactsBackedByGateway, Kinds
<1>13. RequestKnows'
    <2> SUFFICES ASSUME NEW g \in Handlers PROVE Knows(g)'
        BY DEF RequestKnows
    <2>1. /\ handler[g].order \in Orders /\ Knows(g)
          /\ handler'[g].order = handler[g].order
        BY <1>1, <1>5, <1>6 DEF Requests, RequestKnows
    <2>4. \A p \in Orders : Facts(p, "purchase") \subseteq Facts(p, "purchase")'
        BY <1>8 DEF Kinds
    <2>2. CASE g = h
        BY <2>1, <2>2, <2>4, <1>4, <1>5, <1>6 DEF Knows, Saving
    <2>3. CASE g # h
        <3>1. handler'[g] = handler[g]
            BY <1>5, <2>3
        <3>2. handler[g].at \in Saving => handler[g].id # n
            BY <1>2, <2>3 DEF IdsDiffer
        <3> QED BY <1>4, <1>7, <2>1, <2>4, <3>1, <3>2 DEF Knows
    <2> QED BY <2>2, <2>3
<1>14. IdsDiffer'
    BY <1>5, <1>6 DEF IdsDiffer, Saving
<1> QED BY <1>9, <1>10, <1>11, <1>12, <1>13, <1>14

LEMMA PaymentNextInv == PaymentInv /\ [PaymentNext]_paymentVars => PaymentInv'
BY PaymentQuietInv, PaymentSaveInv DEF PaymentNext

LEMMA PaymentInvariant == PaymentSpec => []PaymentInv
BY PaymentInitInv, PaymentNextInv, PTL DEF PaymentSpec

(* Whatever the requests do to each other between their read and their save,  *)
(* a payment is confirmed or refunded only together with the outbox row that *)
(* tells the wallet (save_with_outbox, one commit).                          *)
THEOREM StatusNeverLosesItsFact == PaymentSpec => []StatusHasItsFact
BY PaymentInvariant, PTL DEF PaymentInv

(* Every fact in the outbox happened at the gateway, and a refund is recorded *)
(* under a later id than a purchase of its payment.                          *)
THEOREM FactsAreTrue ==
    PaymentSpec => [](PaymentTypeOK /\ FactsBackedByGateway /\ RefundFactFollowsPurchase)
BY PaymentInvariant, PTL DEF PaymentInv

-----------------------------------------------------------------------------
(* The pipeline.                                                            *)

(* A refund is in a batch only with its purchase, or after it; as the rows of *)
(* a batch go out in the order of their ids and each is marked before the     *)
(* next one, a refund that is sent has a purchase that is marked.            *)
RelayInOrder ==
    /\ published \subseteq SentRows
    /\ relay.at = "mark" => Current \in SentRows
    /\ \A o \in Orders : \A j \in relay.batch \cap Facts(o, "refund") :
        \E i \in (published \cup relay.batch) \cap Facts(o, "purchase") : i < j
    /\ \A o \in Orders : \A j \in SentRows \cap Facts(o, "refund") :
        \E i \in published \cap Facts(o, "purchase") : i < j

(* The rows that were sent and will be sent again: each has cost a failure.   *)
Owed == (SentRows \ published) \ IF relay.at = "mark" THEN {Current} ELSE {}
ResentIsCounted ==
    /\ IsFiniteSet(Messages) /\ IsFiniteSet(SentRows)
    /\ Cardinality(Messages) + Cardinality(Owed)
        <= Cardinality(SentRows) + failures + dbFailures

(* A message is in the topic of its kind, in the partition of its buyer.      *)
InItsPartition ==
    \A k \in Kinds, u \in Users : \A p \in DOMAIN topic[k][u] :
        outbox[topic[k][u][p]].kind = k /\ buyer[outbox[topic[k][u][p]].order] = u

(* The shared session tears no fact while there is only one topic in use.     *)
TornByAnother(f) == \E i \in SentRows : outbox[i].kind # f.kind
TornIsNoSurprise == \A f \in torn : TornByAnother(f)

(* The ledger holds nothing that the outbox does not say.                    *)
CreditHasItsFact == \A c \in ledger \cap Credits : Facts(c.order, c.kind) # {}

(* A message that is handled is accounted for, acknowledged or not.          *)
Accounted(f) == InLedger(f.order, f.kind) \/ f \in parked \cup dropped \cup torn
HandledIsAccountedFor ==
    \A k \in Kinds, u \in Users : \A p \in DOMAIN topic[k][u] :
        p <= offset[k][u] \/ (handled[k][u] /\ p = offset[k][u] + 1)
            => Accounted(outbox[topic[k][u][p]])

PipelineInv ==
    /\ PaymentInv
    /\ PipelineTypeOK
    /\ RelayInOrder
    /\ ResentIsCounted
    /\ InItsPartition
    /\ TornIsNoSurprise
    /\ AppliedOnce
    /\ CreditHasItsFact
    /\ HandledIsAccountedFor

-----------------------------------------------------------------------------
(* Facts about the operators.                                               *)

(* Min returns the least member of a set of ids.                             *)
LEMMA MinIsLeast ==
    ASSUME NEW S \in SUBSET Nat, S # {}
    PROVE  Min(S) \in S /\ \A i \in S : Min(S) <= i
<1> DEFINE R == {ss \in Nat \X Nat : ss[1] < ss[2]}
<1>1. OpToRel(<, Nat) = R
    BY Zenon DEF OpToRel
<1>2. IsWellFoundedOn(R, Nat)
    BY <1>1, NatLessThanWellFounded
<1> HIDE DEF R
<1>3. PICK m \in S : \A i \in S : ~(<<i, m>> \in R)
    BY <1>2, WFMin
<1>4. \A i, k \in Nat : i < k => <<i, k>> \in R
    BY DEF R
<1>5. ASSUME NEW i \in S PROVE m <= i
    <2>1. i \in Nat /\ m \in Nat
        OBVIOUS
    <2>2. ~(i < m)
        BY <1>3, <1>4, <2>1
    <2> QED BY <2>1, <2>2
<1> QED BY <1>5 DEF Min

(* Ids of the outbox.                                                        *)
LEMMA Ids ==
    ASSUME PaymentInv
    PROVE  /\ DOMAIN outbox \subseteq Nat \ {0}
           /\ \A i \in DOMAIN outbox : outbox[i] \in Fact
           /\ \A S \in SUBSET DOMAIN outbox : IsFiniteSet(S)
<1>1. /\ DOMAIN outbox \subseteq 1..lastId /\ lastId \in Nat
      /\ \A i \in DOMAIN outbox : outbox[i] \in Fact
    BY DEF PaymentInv, PaymentTypeOK
<1>2. IsFiniteSet(1..lastId)
    BY <1>1, FS_Interval
<1> QED BY <1>1, <1>2, FS_Subset

(* The rows a poll fetches are the oldest ones: no unpublished row before one *)
(* of them is left out.                                                      *)
LEMMA PollTakesOldest ==
    ASSUME PaymentInv, NEW j \in OldestPending, NEW i \in Unpublished, i < j
    PROVE  i \in OldestPending
<1> DEFINE Before(x) == {q \in Unpublished : q < x}
<1>1. /\ Unpublished \subseteq DOMAIN outbox /\ i \in Nat /\ j \in Nat
      /\ \A q \in Unpublished : q \in Nat
    BY Ids DEF OldestPending, Unpublished
<1>2. Before(j) \in SUBSET DOMAIN outbox /\ Before(i) \in SUBSET Before(j)
    <2>1. ASSUME NEW q \in Unpublished, q < i PROVE q < j
        BY <1>1, <2>1
    <2> QED BY <1>1, <2>1
<1>3. IsFiniteSet(Before(i)) /\ IsFiniteSet(Before(j))
    BY <1>2, Ids
<1>4. Cardinality(Before(i)) <= Cardinality(Before(j))
    BY <1>2, <1>3, FS_Subset
<1>5. Cardinality(Before(j)) < BatchSize
    BY DEF OldestPending
<1>6. Cardinality(Before(i)) < BatchSize
    BY <1>3, <1>4, <1>5, FS_CardinalityType, PipelineAssumption
<1> QED BY <1>6 DEF OldestPending

(* The messages in the topics.                                               *)
LEMMA MessageOf ==
    ASSUME NEW t
    PROVE  \A m : m \in UNION {UNION {{k} \X {u} \X DOMAIN t[k][u] : u \in Users} : k \in Kinds}
                <=> \E k \in Kinds, u \in Users : \E p \in DOMAIN t[k][u] : m = <<k, u, p>>
<1> DEFINE At(k, u) == {k} \X {u} \X DOMAIN t[k][u]
<1>1. \A k, u, m : m \in At(k, u) <=> \E p \in DOMAIN t[k][u] : m = <<k, u, p>>
    OBVIOUS
<1> HIDE DEF At
<1> DEFINE Of(k) == UNION {At(k, u) : u \in Users}
<1>2. \A k, m : m \in Of(k) <=> \E u \in Users : m \in At(k, u)
    OBVIOUS
<1> HIDE DEF Of
<1>3. \A m : m \in UNION {Of(k) : k \in Kinds} <=> \E k \in Kinds : m \in Of(k)
    OBVIOUS
<1>4. \A m : m \in UNION {Of(k) : k \in Kinds}
                <=> \E k \in Kinds, u \in Users : \E p \in DOMAIN t[k][u] : m = <<k, u, p>>
    BY <1>1, <1>2, <1>3
<1> QED BY <1>4 DEF Of, At

LEMMA MessageIn ==
    /\ \A m : m \in Messages <=>
        \E k \in Kinds, u \in Users : \E p \in DOMAIN topic[k][u] : m = <<k, u, p>>
    /\ \A m : m \in Messages' <=>
        \E k \in Kinds, u \in Users : \E p \in DOMAIN topic'[k][u] : m = <<k, u, p>>
<1>1. \A m : m \in Messages <=>
        \E k \in Kinds, u \in Users : \E p \in DOMAIN topic[k][u] : m = <<k, u, p>>
    BY MessageOf, Zenon DEF Messages
<1>2. \A m : m \in Messages' <=>
        \E k \in Kinds, u \in Users : \E p \in DOMAIN topic'[k][u] : m = <<k, u, p>>
    BY MessageOf, Zenon DEF Messages
<1> QED BY <1>1, <1>2

(* R is the set of the rows in the topics t.                                 *)
AreRows(t, R) ==
    \A i : i \in R <=> \E k \in Kinds, u \in Users : \E p \in DOMAIN t[k][u] : i = t[k][u][p]
AreRowsOf(t, M, R) ==
    /\ \A m : m \in M <=> \E k \in Kinds, u \in Users : \E p \in DOMAIN t[k][u] : m = <<k, u, p>>
    /\ \A i : i \in R <=> \E m \in M : i = t[m[1]][m[2]][m[3]]

LEMMA RowOf ==
    ASSUME NEW t, NEW M, NEW R, AreRowsOf(t, M, R)
    PROVE  AreRows(t, R)
<1> USE DEF AreRowsOf
<1>1. \A k, u, p : LET m == <<k, u, p>> IN m[1] = k /\ m[2] = u /\ m[3] = p
    OBVIOUS
<1>2. ASSUME NEW i \in R
      PROVE  \E k \in Kinds, u \in Users : \E p \in DOMAIN t[k][u] : i = t[k][u][p]
    BY <1>1
<1>3. ASSUME NEW k \in Kinds, NEW u \in Users, NEW p \in DOMAIN t[k][u]
      PROVE  t[k][u][p] \in R
    <2>1. <<k, u, p>> \in M
        OBVIOUS
    <2> QED BY <1>1, <2>1
<1> QED BY <1>2, <1>3 DEF AreRows

LEMMA SentRowIn ==
    /\ \A i : i \in SentRows <=>
        \E k \in Kinds, u \in Users : \E p \in DOMAIN topic[k][u] : i = topic[k][u][p]
    /\ \A i : i \in SentRows' <=>
        \E k \in Kinds, u \in Users : \E p \in DOMAIN topic'[k][u] : i = topic'[k][u][p]
<1>1. AreRowsOf(topic, Messages, SentRows)
    BY MessageIn DEF AreRowsOf, SentRows
<1>2. AreRowsOf(topic', Messages', SentRows')
    BY MessageIn DEF AreRowsOf, SentRows
<1>3. AreRows(topic, SentRows) /\ AreRows(topic', SentRows')
    BY <1>1, <1>2, RowOf
<1> QED BY <1>3 DEF AreRows

(* A fact is recorded once more, or the outbox stays.                         *)
LEMMA OutboxGrows ==
    ASSUME PaymentInv, [PaymentNext]_paymentVars
    PROVE  /\ DOMAIN outbox \subseteq DOMAIN outbox'
           /\ \A i \in DOMAIN outbox : outbox'[i] = outbox[i]
           /\ \A o, k : Facts(o, k) \subseteq Facts(o, k)'
           /\ \A o, k : DOMAIN outbox \cap Facts(o, k)' \subseteq Facts(o, k)
<1>1. CASE outbox' = outbox
    BY <1>1 DEF Facts
<1>2. CASE \E h \in Handlers : FinishConfirm(h) \/ FinishRefund(h)
    <2>1. PICK h \in Handlers : FinishConfirm(h) \/ FinishRefund(h)
        BY <1>2
    <2>2. handler[h].id \notin DOMAIN outbox
        BY <2>1 DEF PaymentInv, RequestKnows, Knows, Saving, FinishConfirm, FinishRefund
    <2>3. \E f : outbox' = [i \in DOMAIN outbox \cup {handler[h].id} |->
                                IF i = handler[h].id THEN f ELSE outbox[i]]
        BY <2>1 DEF FinishConfirm, FinishRefund, SaveWithOutbox
    <2>4. /\ DOMAIN outbox \subseteq DOMAIN outbox'
          /\ \A i \in DOMAIN outbox : outbox'[i] = outbox[i]
        BY <2>2, <2>3
    <2> QED BY <2>4 DEF Facts
<1>3. outbox' = outbox \/ \E h \in Handlers : FinishConfirm(h) \/ FinishRefund(h)
    BY DEF PaymentNext, Prepare, StartConfirm, GatewayApproves, BuildConfirm, StartRefund,
           GatewayCancels, BuildRefund, Build, EndUnsaved, paymentVars
<1> QED BY <1>1, <1>2, <1>3

(* The two sorts of calls of apply() have nothing in common.                  *)
LEMMA CreditsAreNoSpends ==
    /\ Credits \cap Spends = {}
    /\ \A c \in Credits :
        /\ Entry(c).user = buyer[c.order] /\ Entry(c).user \in Users
        /\ Entry(c).key = <<c.order, c.kind>> /\ Entry(c).delta \in {1, -1}
        /\ Entry(c).donation = FALSE
    /\ \A c \in Spends :
        /\ Entry(c).user \in Users /\ Entry(c).key = NoKey
        /\ Entry(c).delta = -1 /\ Entry(c).donation = TRUE
<1>1. Credits \cap Spends = {}
    BY DEF Credits, Spends
<1>2. \A c \in Credits : c \notin Spends /\ buyer[c.order] \in Users
    BY <1>1, PipelineAssumption DEF Credits
<1>3. \A c \in Spends : c.user \in Users
    BY DEF Spends
<1> QED BY <1>1, <1>2, <1>3 DEF Entry, KeyOf

-----------------------------------------------------------------------------

LEMMA PipelineInitInv == PipelineInit => PipelineInv
<1> SUFFICES ASSUME PipelineInit PROVE PipelineInv
    OBVIOUS
<1> USE DEF PipelineInit, NothingSent, Account!Init, Idle
<1>1. PaymentInv
    BY PaymentInitInv
<1>2. PipelineTypeOK
    BY <1>1, PipelineAssumption DEF PipelineTypeOK, PaymentInv
<1>3. Messages = {} /\ SentRows = {}
    BY MessageIn, SentRowIn
<1>4. RelayInOrder
    BY <1>3 DEF RelayInOrder
<1>5. ResentIsCounted
    BY <1>3, FS_EmptySet DEF ResentIsCounted, Owed
<1>6. /\ AppliedOnce /\ CreditHasItsFact /\ HandledIsAccountedFor
      /\ InItsPartition /\ TornIsNoSurprise
    BY DEF AppliedOnce, CreditHasItsFact, HandledIsAccountedFor, InItsPartition,
           TornIsNoSurprise
<1> QED BY <1>1, <1>2, <1>4, <1>5, <1>6 DEF PipelineInv

LEMMA RowsAreSent ==
    ASSUME PipelineInv
    PROVE  /\ SentRows \subseteq DOMAIN outbox /\ relay.batch \subseteq DOMAIN outbox
           /\ published \subseteq DOMAIN outbox
           /\ \A k \in Kinds, u \in Users : \A p \in DOMAIN topic[k][u] :
                topic[k][u][p] \in DOMAIN outbox
<1>1. \A k \in Kinds, u \in Users : \A p \in DOMAIN topic[k][u] :
        topic[k][u][p] \in DOMAIN outbox
    BY DEF PipelineInv, PipelineTypeOK
<1> QED BY <1>1, SentRowIn DEF PipelineInv, PipelineTypeOK

(* The payments service only adds to the outbox.                             *)
LEMMA ServiceInv ==
    ASSUME PipelineInv, ServiceStep
    PROVE  PipelineInv'
<1> USE DEF PipelineInv, ServiceStep, relayVars, kafkaVars, walletVars, ledgerVars, faultVars
<1>1. PaymentInv'
    BY PaymentNextInv
<1>2. /\ DOMAIN outbox \subseteq DOMAIN outbox'
      /\ \A i \in DOMAIN outbox : outbox'[i] = outbox[i]
      /\ \A o, k : Facts(o, k) \subseteq Facts(o, k)'
      /\ \A o, k : DOMAIN outbox \cap Facts(o, k)' \subseteq Facts(o, k)
    BY OutboxGrows
<1>3. PipelineTypeOK'
    BY <1>1, <1>2 DEF PipelineTypeOK, PaymentInv
<1>4. Messages' = Messages /\ SentRows' = SentRows /\ Current' = Current
    BY DEF Messages, SentRows, Current
<1>5. RelayInOrder'
    <2>1. ASSUME NEW o \in Orders, NEW j \in relay.batch \cap Facts(o, "refund")'
          PROVE  \E i \in (published \cup relay.batch) \cap Facts(o, "purchase")' : i < j
        <3>1. j \in relay.batch \cap Facts(o, "refund")
            BY <1>2, RowsAreSent
        <3> QED BY <1>2, <3>1 DEF RelayInOrder
    <2>2. ASSUME NEW o \in Orders, NEW j \in SentRows \cap Facts(o, "refund")'
          PROVE  \E i \in published \cap Facts(o, "purchase")' : i < j
        <3>1. j \in SentRows \cap Facts(o, "refund")
            BY <1>2, RowsAreSent
        <3> QED BY <1>2, <3>1 DEF RelayInOrder
    <2> QED BY <1>4, <2>1, <2>2 DEF RelayInOrder
<1>6. ResentIsCounted'
    BY <1>4 DEF ResentIsCounted, Owed
<1>7. AppliedOnce' /\ CreditHasItsFact'
    BY <1>2 DEF AppliedOnce, CreditHasItsFact, Credits
<1>8. InItsPartition' /\ TornIsNoSurprise'
    BY <1>2, <1>4, RowsAreSent DEF InItsPartition, TornIsNoSurprise, TornByAnother
<1>9. HandledIsAccountedFor'
    <2> SUFFICES ASSUME NEW k \in Kinds, NEW u \in Users, NEW p \in DOMAIN topic[k][u],
                        Accounted(outbox[topic[k][u][p]])
                 PROVE  Accounted(outbox[topic[k][u][p]])'
        BY DEF HandledIsAccountedFor
    <2>1. topic[k][u][p] \in DOMAIN outbox
        BY DEF PipelineTypeOK
    <2> QED BY <1>2, <2>1 DEF Accounted, InLedger
<1> QED BY <1>1, <1>3, <1>5, <1>6, <1>7, <1>8, <1>9

-----------------------------------------------------------------------------
(* The relay.                                                               *)

(* A message more in one topic: what the relay and the worker count on.       *)
LEMMA SendAdds ==
    ASSUME PipelineInv, NEW i \in DOMAIN outbox, Send(i)
    PROVE  /\ topic' \in [Kinds -> [Users -> Seq(DOMAIN outbox)]]
           /\ \A k \in Kinds, u \in Users :
                /\ Len(topic[k][u]) <= Len(topic'[k][u])
                /\ \A p \in DOMAIN topic[k][u] : topic'[k][u][p] = topic[k][u][p]
           /\ \A k \in Kinds, u \in Users : \A p \in DOMAIN topic'[k][u] :
                \/ p \in DOMAIN topic[k][u]
                \/ topic'[k][u][p] = i /\ k = outbox[i].kind /\ u = buyer[outbox[i].order]
           /\ SentRows' = SentRows \cup {i}
           /\ \E m : m \notin Messages /\ Messages' = Messages \cup {m}
<1> DEFINE q == outbox[i].kind
           b == buyer[outbox[i].order]
           n == Len(topic[q][b]) + 1
<1>1. q \in Kinds /\ b \in Users /\ topic \in [Kinds -> [Users -> Seq(DOMAIN outbox)]]
    <2>1. outbox[i] \in Fact
        BY DEF PipelineInv, PaymentInv, PaymentTypeOK
    <2> QED BY <2>1, PipelineAssumption DEF PipelineInv, PipelineTypeOK, Fact, Kinds
<1>2. /\ topic' = [topic EXCEPT ![q][b] = Append(@, i)]
    BY DEF Send
<1> HIDE DEF q, b
<1>3. topic' \in [Kinds -> [Users -> Seq(DOMAIN outbox)]]
    BY <1>1, <1>2
<1>4. topic'[q][b] = Append(topic[q][b], i)
    BY <1>1, <1>2
<1>5. \A k \in Kinds, u \in Users : k # q \/ u # b => topic'[k][u] = topic[k][u]
    BY <1>1, <1>2
<1>6. /\ n \in Nat \ {0} /\ DOMAIN topic[q][b] = 1..(n - 1) /\ DOMAIN topic'[q][b] = 1..n
      /\ topic'[q][b][n] = i
      /\ \A p \in 1..(n - 1) : topic'[q][b][p] = topic[q][b][p]
      /\ Len(topic'[q][b]) = n /\ Len(topic[q][b]) <= n
      /\ 1..n = 1..(n - 1) \cup {n}
    BY <1>1, <1>4
<1> HIDE DEF n
<1>7. \A k \in Kinds, u \in Users :
        /\ Len(topic[k][u]) <= Len(topic'[k][u])
        /\ \A p \in DOMAIN topic[k][u] : topic'[k][u][p] = topic[k][u][p]
        /\ DOMAIN topic'[k][u] = DOMAIN topic[k][u] \cup IF k = q /\ u = b THEN {n} ELSE {}
    <2> TAKE k \in Kinds, u \in Users
    <2>1. CASE k = q /\ u = b
        BY <1>6, <2>1
    <2>2. CASE ~(k = q /\ u = b)
        <3>1. Len(topic[k][u]) \in Nat
            BY <1>1
        <3> QED BY <1>5, <2>2, <3>1
    <2> QED BY <2>1, <2>2
<1>8. \A r : r \in SentRows' <=> r \in SentRows \cup {i}
    <2>1. i \in SentRows'
        <3>1. n \in DOMAIN topic'[q][b]
            BY <1>6
        <3> QED BY <1>1, <1>6, <3>1, SentRowIn
    <2>2. ASSUME NEW r \in SentRows PROVE r \in SentRows'
        BY <1>7, SentRowIn
    <2>3. ASSUME NEW r \in SentRows', r # i PROVE r \in SentRows
        <3>1. PICK k \in Kinds, u \in Users : \E p \in DOMAIN topic'[k][u] : r = topic'[k][u][p]
            BY SentRowIn
        <3>2. PICK p \in DOMAIN topic'[k][u] : r = topic'[k][u][p]
            BY <3>1
        <3>3. p \in DOMAIN topic[k][u] /\ r = topic[k][u][p]
            BY <1>6, <1>7, <2>3, <3>2
        <3> QED BY <3>3, SentRowIn
    <2> QED BY <2>1, <2>2, <2>3
<1>9. <<q, b, n>> \notin Messages
    BY <1>6, MessageIn
<1>10. \A m : m \in Messages' <=> m \in Messages \cup {<<q, b, n>>}
    BY <1>1, <1>7, MessageIn
<1>11. \A k \in Kinds, u \in Users : \A p \in DOMAIN topic'[k][u] :
        p \in DOMAIN topic[k][u] \/ (topic'[k][u][p] = i /\ k = q /\ u = b)
    BY <1>6, <1>7
<1> QED BY <1>3, <1>7, <1>8, <1>9, <1>10, <1>11 DEF q, b

(* What a step of the relay has nothing to do with stays true.                *)
Aside ==
    /\ PaymentInv /\ AppliedOnce /\ CreditHasItsFact /\ HandledIsAccountedFor
    /\ InItsPartition /\ TornIsNoSurprise
LEMMA RelayFrame ==
    ASSUME PipelineInv,
           UNCHANGED <<paymentVars, walletVars, ledgerVars, offset, handled>>,
           UNCHANGED topic \/ \E i \in DOMAIN outbox : Send(i)
    PROVE  /\ Aside'
           /\ topic' \in [Kinds -> [Users -> Seq(DOMAIN outbox)]]
           /\ \A k \in Kinds, u \in Users :
                /\ offset[k][u] <= Len(topic'[k][u])
                /\ handled[k][u] => offset[k][u] < Len(topic'[k][u])
<1> USE DEF PipelineInv, walletVars, ledgerVars
<1>1. PaymentInv' /\ outbox' = outbox
    BY PaymentNextInv DEF paymentVars
<1>2. AppliedOnce' /\ CreditHasItsFact'
    BY <1>1 DEF AppliedOnce, CreditHasItsFact, Facts
<1>3. /\ topic' \in [Kinds -> [Users -> Seq(DOMAIN outbox)]]
      /\ \A k \in Kinds, u \in Users :
            /\ Len(topic[k][u]) <= Len(topic'[k][u])
            /\ \A p \in DOMAIN topic[k][u] : topic'[k][u][p] = topic[k][u][p]
            /\ \A p \in DOMAIN topic'[k][u] :
                \/ p \in DOMAIN topic[k][u]
                \/ LET f == outbox[topic'[k][u][p]] IN k = f.kind /\ u = buyer[f.order]
      /\ SentRows \subseteq SentRows'
    <2>1. CASE UNCHANGED topic
        BY <2>1, SentRowIn DEF PipelineTypeOK
    <2>2. CASE \E i \in DOMAIN outbox : Send(i)
        <3>1. PICK i \in DOMAIN outbox : Send(i)
            BY <2>2
        <3> HIDE DEF PipelineInv
        <3> QED BY <3>1, SendAdds
    <2> QED BY <2>1, <2>2
<1>4. \A k \in Kinds, u \in Users :
        /\ offset[k][u] \in Nat
        /\ Len(topic[k][u]) \in Nat /\ Len(topic'[k][u]) \in Nat
        /\ DOMAIN topic[k][u] = 1..Len(topic[k][u])
        /\ offset[k][u] <= Len(topic[k][u])
        /\ handled[k][u] => offset[k][u] < Len(topic[k][u])
    BY <1>3 DEF PipelineTypeOK
<1>5. HandledIsAccountedFor'
    <2> SUFFICES ASSUME NEW k \in Kinds, NEW u \in Users, NEW p \in DOMAIN topic'[k][u],
                        p <= offset[k][u] \/ (handled[k][u] /\ p = offset[k][u] + 1)
                 PROVE  Accounted(outbox[topic[k][u][p]]) /\ topic'[k][u][p] = topic[k][u][p]
        BY <1>1 DEF HandledIsAccountedFor, Accounted, InLedger
    <2>1. p \in DOMAIN topic[k][u]
        BY <1>3, <1>4
    <2> QED BY <1>3, <2>1 DEF HandledIsAccountedFor
<1>6. InItsPartition'
    BY <1>1, <1>3 DEF InItsPartition
<1>7. TornIsNoSurprise'
    BY <1>1, <1>3 DEF TornIsNoSurprise, TornByAnother
<1> HIDE DEF PipelineInv, walletVars, ledgerVars
<1>8. \A k \in Kinds, u \in Users :
        /\ offset[k][u] <= Len(topic'[k][u])
        /\ handled[k][u] => offset[k][u] < Len(topic'[k][u])
    <2> TAKE k \in Kinds, u \in Users
    <2> QED BY <1>3, <1>4
<1> QED BY <1>1, <1>2, <1>3, <1>5, <1>6, <1>7, <1>8 DEF Aside

(* The row the relay is at has the least id of its batch.                     *)
LEMMA RelayAt ==
    ASSUME PipelineInv, relay.at # "idle"
    PROVE  /\ Current \in relay.batch /\ Current \in DOMAIN outbox \ published
           /\ \A i \in relay.batch : Current <= i
           /\ DOMAIN outbox \subseteq Nat \ {0}
<1> USE DEF PipelineInv
<1>1. /\ relay.batch \in SUBSET Nat /\ relay.batch # {}
      /\ relay.batch \subseteq DOMAIN outbox \ published
      /\ DOMAIN outbox \subseteq Nat \ {0}
    BY Ids DEF PipelineTypeOK
<1>2. Current \in relay.batch /\ \A i \in relay.batch : Current <= i
    BY <1>1, MinIsLeast DEF Current
<1> QED BY <1>1, <1>2

(* If it is a refund, its purchase is marked.                                *)
LEMMA SentInOrder ==
    ASSUME PipelineInv, relay.at # "idle",
           UNCHANGED <<outbox, published>>, SentRows' \subseteq SentRows \cup {Current}
    PROVE  \A o \in Orders : \A j \in SentRows' \cap Facts(o, "refund")' :
                \E i \in published' \cap Facts(o, "purchase")' : i < j
<1>1. \A o, k : Facts(o, k)' = Facts(o, k) /\ Facts(o, k) \subseteq DOMAIN outbox
    BY DEF Facts
<1>2. ASSUME NEW o \in Orders, NEW j \in Facts(o, "refund"), j = Current
      PROVE  \E i \in published \cap Facts(o, "purchase") : i < j
    <2>1. j \in relay.batch
        BY <1>2, RelayAt
    <2>2. PICK i \in (published \cup relay.batch) \cap Facts(o, "purchase") : i < j
        BY <2>1 DEF PipelineInv, RelayInOrder
    <2>3. i \in Nat /\ j \in Nat
        BY <1>1, RelayAt
    <2>4. i \notin relay.batch
        BY <1>2, <2>2, <2>3, RelayAt
    <2> QED BY <2>2, <2>4
<1> QED BY <1>1, <1>2 DEF PipelineInv, RelayInOrder

LEMMA PollInv ==
    ASSUME PipelineInv, Poll
    PROVE  PipelineInv'
<1> USE DEF Poll, OnWith, kafkaVars, walletVars, ledgerVars, faultVars
<1>1. Aside'
    BY RelayFrame
<1>2. OldestPending \in SUBSET (DOMAIN outbox \ published)
    BY DEF OldestPending, Unpublished
<1>3. outbox' = outbox /\ \A o, k : Facts(o, k)' = Facts(o, k)
    BY DEF paymentVars, Facts
<1>4. PipelineTypeOK'
    BY <1>1, <1>2, <1>3 DEF Aside, PipelineInv, PipelineTypeOK, PaymentInv
<1>5. SentRows' = SentRows /\ Messages' = Messages
    BY DEF SentRows, Messages
<1>6. ASSUME NEW o \in Orders, NEW j \in OldestPending \cap Facts(o, "refund")
      PROVE  \E i \in (published \cup OldestPending) \cap Facts(o, "purchase") : i < j
    <2>1. PICK i \in Facts(o, "purchase") : i < j
        BY DEF PipelineInv, PaymentInv, RefundFactFollowsPurchase
    <2>2. i \in published \/ i \in Unpublished
        BY <2>1 DEF Facts, Unpublished
    <2>3. i \in published \/ i \in OldestPending
        BY <2>1, <2>2, PollTakesOldest DEF PipelineInv
    <2> QED BY <2>1, <2>3
<1>7. RelayInOrder'
    <2>1. relay'.batch = OldestPending /\ relay'.at # "mark" /\ published' = published
        OBVIOUS
    <2> HIDE DEF Poll, OnWith
    <2> QED BY <1>3, <1>5, <1>6, <2>1 DEF PipelineInv, RelayInOrder
<1>8. ResentIsCounted'
    BY <1>5 DEF PipelineInv, ResentIsCounted, Owed
<1> QED BY <1>1, <1>4, <1>7, <1>8 DEF Aside, PipelineInv

(* The messages and rows before a step, counted.                             *)
LEMMA Counted ==
    ASSUME PipelineInv
    PROVE  /\ IsFiniteSet(Messages) /\ IsFiniteSet(SentRows)
           /\ IsFiniteSet(SentRows \ published) /\ IsFiniteSet(Owed)
           /\ Cardinality(Messages) \in Nat /\ Cardinality(SentRows) \in Nat
           /\ Cardinality(Owed) \in Nat /\ failures \in Nat /\ dbFailures \in Nat
           /\ Cardinality(Messages) + Cardinality(Owed)
                <= Cardinality(SentRows) + failures + dbFailures
<1>1. /\ IsFiniteSet(Messages) /\ IsFiniteSet(SentRows)
      /\ Cardinality(Messages) + Cardinality(Owed)
            <= Cardinality(SentRows) + failures + dbFailures
      /\ failures \in Nat /\ dbFailures \in Nat
    BY PipelineAssumption DEF PipelineInv, ResentIsCounted, PipelineTypeOK
<1>2. Owed \subseteq SentRows /\ SentRows \ published \subseteq SentRows
    BY DEF Owed
<1>3. IsFiniteSet(SentRows \ published) /\ IsFiniteSet(Owed)
    BY <1>1, <1>2, FS_Subset
<1> QED BY <1>1, <1>3, FS_CardinalityType

LEMMA PublishInv ==
    ASSUME PipelineInv, Publish
    PROVE  PipelineInv'
<1> USE DEF Publish, walletVars, ledgerVars, faultVars
<1>1. Current \in relay.batch /\ Current \in DOMAIN outbox \ published
    BY RelayAt
<1>2. /\ Aside'
      /\ topic' \in [Kinds -> [Users -> Seq(DOMAIN outbox)]]
      /\ \A k \in Kinds, u \in Users :
                /\ offset[k][u] <= Len(topic'[k][u])
                /\ handled[k][u] => offset[k][u] < Len(topic'[k][u])
    BY <1>1, RelayFrame
<1>3. outbox' = outbox /\ \A o, k : Facts(o, k)' = Facts(o, k)
    BY DEF paymentVars, Facts
<1>4. PipelineTypeOK'
    BY <1>2, <1>3 DEF Aside, PipelineInv, PipelineTypeOK, PaymentInv
<1>5. /\ SentRows' = SentRows \cup {Current}
      /\ \E m : m \notin Messages /\ Messages' = Messages \cup {m}
    BY <1>1, SendAdds
<1>6. Current' = Current /\ relay'.batch = relay.batch /\ relay'.at = "mark"
    BY DEF PipelineInv, PipelineTypeOK, Current
<1>7. RelayInOrder'
    <2>1. \A o \in Orders : \A j \in SentRows' \cap Facts(o, "refund")' :
                \E i \in published' \cap Facts(o, "purchase")' : i < j
        BY <1>3, <1>5, SentInOrder
    <2> QED BY <1>3, <1>5, <1>6, <2>1 DEF PipelineInv, RelayInOrder
<1>8. ResentIsCounted'
    <2>1. Owed = SentRows \ published /\ Owed' = Owed \ {Current}
        BY <1>5, <1>6 DEF Owed
    <2>2. Current \in SentRows <=> Current \in Owed
        BY <1>1, <2>1
    <2>3. /\ IsFiniteSet(Messages') /\ Cardinality(Messages') = Cardinality(Messages) + 1
        BY <1>5, Counted, FS_AddElement
    <2>4. /\ IsFiniteSet(SentRows')
          /\ Cardinality(SentRows') = Cardinality(SentRows) + IF Current \in SentRows THEN 0 ELSE 1
        BY <1>5, Counted, FS_AddElement
    <2>5. Cardinality(Owed') = Cardinality(Owed) - IF Current \in SentRows THEN 1 ELSE 0
        <3>1. /\ Cardinality(Owed \ {Current})
                    = Cardinality(Owed) - IF Current \in Owed THEN 1 ELSE 0
            <4>1. IsFiniteSet(Owed) /\ Cardinality(Owed) \in Nat
                BY Counted
            <4> QED BY <4>1, FS_RemoveElement
        <3> HIDE DEF Publish
        <3> QED BY <2>1, <2>2, <3>1
    <2> HIDE DEF Publish
    <2>6. failures' = failures /\ dbFailures' = dbFailures
        BY DEF Publish
    <2> QED BY <2>3, <2>4, <2>5, <2>6, Counted DEF ResentIsCounted
<1> QED BY <1>2, <1>4, <1>7, <1>8 DEF Aside, PipelineInv

LEMMA MarkInv ==
    ASSUME PipelineInv, Mark
    PROVE  PipelineInv'
<1> USE DEF Mark, OnWith, Rest, kafkaVars, walletVars, ledgerVars, faultVars
<1>1. Current \in relay.batch /\ Current \in DOMAIN outbox \ published
    BY RelayAt
<1>2. Aside'
    BY RelayFrame
<1>3. outbox' = outbox /\ \A o, k : Facts(o, k)' = Facts(o, k)
    BY DEF paymentVars, Facts
<1>4. PipelineTypeOK'
    BY <1>1, <1>2, <1>3 DEF Aside, PipelineInv, PipelineTypeOK, PaymentInv
<1>5. SentRows' = SentRows /\ Messages' = Messages
    BY DEF SentRows, Messages
<1>6. /\ relay'.batch = relay.batch \ {Current} /\ relay'.at # "mark"
      /\ published' = published \cup {Current}
    OBVIOUS
<1>7. RelayInOrder'
    <2> HIDE DEF Mark, OnWith, Rest
    <2>1. published' \cup relay'.batch = published \cup relay.batch
          /\ relay'.batch \subseteq relay.batch
        BY <1>1, <1>6
    <2>2. Current \in SentRows /\ published \subseteq SentRows
        BY DEF PipelineInv, RelayInOrder, Mark
    <2> QED BY <1>3, <1>5, <1>6, <2>1, <2>2 DEF PipelineInv, RelayInOrder
<1>8. ResentIsCounted'
    <2>1. Owed' = Owed
        BY <1>5, <1>6 DEF Owed
    <2> QED BY <1>5, <2>1 DEF PipelineInv, ResentIsCounted
<1> QED BY <1>2, <1>4, <1>7, <1>8 DEF Aside, PipelineInv

(* A failure pays for the row that will be sent again, sent now or before.    *)
LEMMA PublishFailsInv ==
    ASSUME PipelineInv, PublishFails
    PROVE  PipelineInv'
<1> USE DEF PublishFails, GiveUp, Idle, Fail, walletVars, ledgerVars
<1>1. Current \in relay.batch /\ Current \in DOMAIN outbox \ published
    BY RelayAt
<1>2. /\ Aside'
      /\ topic' \in [Kinds -> [Users -> Seq(DOMAIN outbox)]]
      /\ \A k \in Kinds, u \in Users :
                /\ offset[k][u] <= Len(topic'[k][u])
                /\ handled[k][u] => offset[k][u] < Len(topic'[k][u])
    BY <1>1, RelayFrame
<1>3. outbox' = outbox /\ \A o, k : Facts(o, k)' = Facts(o, k)
    BY DEF paymentVars, Facts
<1>4. PipelineTypeOK'
    BY <1>2, <1>3, PipelineAssumption DEF Aside, PipelineInv, PipelineTypeOK, PaymentInv
<1>5. /\ relay'.batch = {} /\ relay'.at = "idle" /\ UNCHANGED <<published, dbFailures>>
      /\ failures' = failures + 1 /\ relay.at = "publish"
      /\ Owed = SentRows \ published
    BY DEF Owed
<1>6. CASE Send(Current)
    <2>1. /\ SentRows' = SentRows \cup {Current}
          /\ \E m : m \notin Messages /\ Messages' = Messages \cup {m}
        BY <1>1, <1>6, SendAdds
    <2> HIDE DEF PublishFails
    <2>2. RelayInOrder'
        <3>1. \A o \in Orders : \A j \in SentRows' \cap Facts(o, "refund")' :
                \E i \in published' \cap Facts(o, "purchase")' : i < j
            BY <1>3, <1>5, <2>1, SentInOrder
        <3> QED BY <1>5, <2>1, <3>1 DEF PipelineInv, RelayInOrder
    <2>3. Owed' = Owed \cup {Current}
        BY <1>1, <1>5, <2>1 DEF Owed
    <2>4. Current \in SentRows <=> Current \in Owed
        BY <1>1, <1>5
    <2>5. IsFiniteSet(Messages') /\ Cardinality(Messages') = Cardinality(Messages) + 1
        BY <2>1, Counted, FS_AddElement
    <2>6. /\ IsFiniteSet(SentRows')
          /\ Cardinality(SentRows') = Cardinality(SentRows) + IF Current \in SentRows THEN 0 ELSE 1
        BY <2>1, Counted, FS_AddElement
    <2>7. Cardinality(Owed') = Cardinality(Owed) + IF Current \in SentRows THEN 0 ELSE 1
        <3>1. Cardinality(Owed \cup {Current})
                    = Cardinality(Owed) + IF Current \in Owed THEN 0 ELSE 1
            <4>1. IsFiniteSet(Owed) /\ Cardinality(Owed) \in Nat
                BY Counted
            <4> QED BY <4>1, FS_AddElement
        <3> QED BY <2>3, <2>4, <3>1
    <2>8. ResentIsCounted'
        BY <1>5, <2>5, <2>6, <2>7, Counted DEF ResentIsCounted
    <2> QED BY <1>2, <1>4, <2>2, <2>8 DEF Aside, PipelineInv
<1>7. CASE UNCHANGED topic
    <2>1. SentRows' = SentRows /\ Messages' = Messages
        BY <1>7 DEF SentRows, Messages
    <2> HIDE DEF PublishFails
    <2>2. RelayInOrder'
        BY <1>3, <1>5, <2>1 DEF PipelineInv, RelayInOrder
    <2>3. Owed' = Owed
        BY <1>5, <2>1 DEF Owed
    <2>4. ResentIsCounted'
        BY <1>5, <2>1, <2>3, Counted DEF ResentIsCounted
    <2> QED BY <1>2, <1>4, <2>2, <2>4 DEF Aside, PipelineInv
<1> QED BY <1>6, <1>7

(* The relay loses its place: so does one failure.                           *)
LEMMA RelayStopsInv ==
    ASSUME PipelineInv, RelayDbError \/ RelayRestarts
    PROVE  PipelineInv'
<1> USE DEF RelayDbError, RelayRestarts, Fail, DbFail, Idle, kafkaVars, walletVars, ledgerVars
<1>1. Aside'
    BY RelayFrame
<1>2. outbox' = outbox /\ \A o, k : Facts(o, k)' = Facts(o, k)
    BY DEF paymentVars, Facts
<1>3. PipelineTypeOK'
    BY <1>1, <1>2, PipelineAssumption DEF Aside, PipelineInv, PipelineTypeOK, PaymentInv
<1>4. SentRows' = SentRows /\ Messages' = Messages
    BY DEF SentRows, Messages
<1>5. relay'.batch = {} /\ relay'.at = "idle" /\ UNCHANGED published
    OBVIOUS
<1>6. RelayInOrder'
    BY <1>2, <1>4, <1>5 DEF PipelineInv, RelayInOrder
<1>7. ResentIsCounted'
    <2>1. failures' + dbFailures' = failures + dbFailures + 1
          /\ failures' \in Nat /\ dbFailures' \in Nat
        BY Counted
    <2> HIDE DEF RelayDbError, RelayRestarts
    <2>2. Owed' = Owed \/ Owed' = Owed \cup {Current}
        BY <1>4, <1>5 DEF Owed, PipelineInv, RelayInOrder
    <2>3. Cardinality(Owed') \in Nat /\ Cardinality(Owed') <= Cardinality(Owed) + 1
        <3>1. Cardinality(Owed \cup {Current}) \in {Cardinality(Owed), Cardinality(Owed) + 1}
            <4>1. IsFiniteSet(Owed) /\ Cardinality(Owed) \in Nat
                BY Counted
            <4> QED BY <4>1, FS_AddElement
        <3>2. Cardinality(Owed') \in {Cardinality(Owed), Cardinality(Owed) + 1}
            BY <2>2, <3>1
        <3>3. Cardinality(Owed) \in Nat
            BY Counted
        <3> QED BY <3>2, <3>3
    <2> QED BY <1>4, <2>1, <2>3, Counted DEF ResentIsCounted
<1> QED BY <1>1, <1>3, <1>6, <1>7 DEF Aside, PipelineInv

-----------------------------------------------------------------------------
(* The wallet worker.                                                       *)

(* The application of the next fact: its entry is new, and free only if the   *)
(* fact has none.                                                            *)
LEMMA NewEntryIsFree ==
    ASSUME PipelineInv, NEW f \in Fact
    PROVE  /\ NewEntry(f) \in Credits
           /\ NewEntry(f).order = f.order /\ NewEntry(f).kind = f.kind
           /\ Duplicate(NewEntry(f)) <=> InLedger(f.order, f.kind)
<1> DEFINE A == Applications(f)
<1>1. A = {} \/ \E c : A = {c}
    <2>1. \A c, d \in A : c = d
        BY DEF Applications, PipelineInv, AppliedOnce
    <2> QED BY <2>1
<1>2. Cardinality(A) \in 0..1
    BY <1>1, FS_EmptySet, FS_Singleton
<1>3. NewEntry(f) \in Credits /\ NewEntry(f).order = f.order /\ NewEntry(f).kind = f.kind
    BY <1>2, PipelineAssumption DEF NewEntry, Credits, Fact, Kinds
<1>4. ASSUME NEW d \in ledger
      PROVE  Account!SameKey(NewEntry(f), d) <=> d \in Credits /\ d.order = f.order /\ d.kind = f.kind
    <2>1. d \in Credits \cup Spends
        BY DEF PipelineInv, PipelineTypeOK
    <2>2. CASE d \in Credits
        BY <1>3, <2>2, CreditsAreNoSpends DEF Account!SameKey, NoKey
    <2>3. CASE d \in Spends
        BY <1>3, <2>3, CreditsAreNoSpends DEF Account!SameKey, NoKey
    <2> QED BY <2>1, <2>2, <2>3
<1>5. Duplicate(NewEntry(f)) <=> InLedger(f.order, f.kind)
    BY <1>4 DEF Duplicate, InLedger
<1> QED BY <1>3, <1>5

(* The next message of a topic, and the entry it asks for.                   *)
AsksFor(f, c, k, u) ==
    /\ f \in Fact /\ f.kind = k
    /\ c \in Credits /\ c.order = f.order /\ c.kind = k
    /\ FactOf(c) = f
    /\ Entry(c).user = u /\ Entry(c).donation = FALSE
    /\ Facts(c.order, c.kind) # {}
    /\ Duplicate(c) <=> InLedger(f.order, f.kind)

LEMMA NextOne ==
    ASSUME PipelineInv, NEW k \in Kinds, NEW u \in Users, Waiting(k, u)
    PROVE  AsksFor(NextFact(k, u), NewEntry(NextFact(k, u)), k, u)
<1>0. PICK f, c : f = NextFact(k, u) /\ c = NewEntry(f)
    OBVIOUS
<1> DEFINE p == offset[k][u] + 1
<1>1. p \in DOMAIN topic[k][u] /\ topic[k][u][p] \in DOMAIN outbox
    BY DEF PipelineInv, PipelineTypeOK, Waiting
<1>2. f = outbox[topic[k][u][p]]
    BY <1>0 DEF NextFact
<1>3. f \in Fact
    BY <1>1, <1>2, Ids DEF PipelineInv
<1>4. f.kind = k /\ buyer[f.order] = u
    BY <1>1, <1>2 DEF PipelineInv, InItsPartition
<1> HIDE DEF p
<1>6. /\ c \in Credits /\ c.order = f.order /\ c.kind = f.kind
      /\ Duplicate(c) <=> InLedger(f.order, f.kind)
    BY <1>0, <1>3, NewEntryIsFree
<1>7. FactOf(c) = f
    BY <1>3, <1>6 DEF Fact, FactOf
<1>8. Facts(c.order, c.kind) # {}
    BY <1>1, <1>2, <1>7 DEF Facts, FactOf
<1>9. Entry(c).user = u /\ Entry(c).donation = FALSE
    BY <1>4, <1>6, CreditsAreNoSpends
<1>10. AsksFor(f, c, k, u)
    BY <1>3, <1>4, <1>6, <1>7, <1>8, <1>9 DEF AsksFor
<1> QED BY <1>0, <1>10

(* A fact of the other kind has been sent, if a call of the other subscriber   *)
(* is or was under way.                                                      *)
LEMMA AnotherIsSent ==
    ASSUME PipelineInv, NEW q \in Kinds, NEW v \in Users,
           Waiting(q, v) \/ handled[q][v] \/ offset[q][v] > 0
    PROVE  \E i \in SentRows : outbox[i].kind = q
<1>1. /\ offset[q][v] \in Nat /\ Len(topic[q][v]) \in Nat
      /\ DOMAIN topic[q][v] = 1..Len(topic[q][v])
      /\ offset[q][v] <= Len(topic[q][v])
      /\ handled[q][v] => offset[q][v] < Len(topic[q][v])
    BY DEF PipelineInv, PipelineTypeOK
<1>2. 1 \in DOMAIN topic[q][v]
    BY <1>1 DEF Waiting
<1>3. topic[q][v][1] \in SentRows /\ outbox[topic[q][v][1]].kind = q
    BY <1>2, SentRowIn DEF PipelineInv, InItsPartition
<1> QED BY <1>3

LEMMA BalanceMoves ==
    ASSUME PipelineInv, NEW c \in Credits \cup Spends, Covered(c), Moved(c)
    PROVE  balance' \in [Users -> Nat]
<1>1. balance \in [Users -> Nat]
    BY DEF PipelineInv, PipelineTypeOK
<1>2. Entry(c).user \in Users /\ Entry(c).delta \in Int
    BY CreditsAreNoSpends
<1>3. balance[Entry(c).user] + Entry(c).delta \in Nat
    BY <1>1, <1>2 DEF Covered
<1> QED BY <1>1, <1>2, <1>3 DEF Moved

(* New entries for facts that have none.                                     *)
Fresh(new) ==
    /\ new \subseteq Credits
    /\ \A c \in new : ~Duplicate(c) /\ Facts(c.order, c.kind) # {}
    /\ \A c, d \in new : c.order = d.order /\ c.kind = d.kind => c = d

LEMMA LedgerGrows ==
    ASSUME PipelineInv, UNCHANGED outbox, NEW new, Fresh(new), ledger' = ledger \cup new
    PROVE  AppliedOnce' /\ CreditHasItsFact' /\ ledger' \subseteq Credits \cup Spends
<1>1. ledger' \subseteq Credits \cup Spends
    BY DEF PipelineInv, PipelineTypeOK, Fresh
<1>2. ASSUME NEW c \in new, NEW d \in ledger \cap Credits
      PROVE  ~(d.order = c.order /\ d.kind = c.kind)
    <2>1. c \in Credits /\ ~Account!SameKey(c, d)
        BY DEF Fresh, Duplicate
    <2>2. Entry(c).key = <<c.order, c.kind>> /\ Entry(d).key = <<d.order, d.kind>>
        BY <2>1, CreditsAreNoSpends
    <2>3. ~(Entry(c).key # <<>> /\ Entry(c).key = Entry(d).key)
        BY <2>1 DEF Account!SameKey, NoKey
    <2> QED BY <2>2, <2>3
<1>3. AppliedOnce'
    BY <1>2 DEF PipelineInv, AppliedOnce, Fresh
<1>4. CreditHasItsFact'
    BY DEF PipelineInv, CreditHasItsFact, Facts, Fresh
<1> QED BY <1>1, <1>3, <1>4

(* What no step of the worker touches.                                       *)
LEMMA WorkerFrame ==
    ASSUME PipelineInv, UNCHANGED <<paymentVars, relayVars, topic>>,
           failures \in Nat, dbFailures \in Nat, failures' \in Nat, dbFailures' \in Nat,
           failures <= failures', dbFailures <= dbFailures'
    PROVE  /\ PaymentInv' /\ RelayInOrder' /\ ResentIsCounted' /\ InItsPartition'
           /\ SentRows' = SentRows
<1> USE DEF PipelineInv, relayVars
<1>1. PaymentInv'
    BY PaymentNextInv
<1>2. outbox' = outbox /\ \A o, k : Facts(o, k)' = Facts(o, k)
    BY DEF paymentVars, Facts
<1>3. SentRows' = SentRows /\ Messages' = Messages /\ Current' = Current
    BY DEF SentRows, Messages, Current
<1>4. RelayInOrder'
    BY <1>2, <1>3 DEF RelayInOrder
<1>5. Owed' = Owed
    BY <1>3 DEF Owed
<1>6. ResentIsCounted'
    <2> HIDE DEF PipelineInv
    <2> QED BY <1>3, <1>5, Counted DEF ResentIsCounted
<1>7. InItsPartition'
    BY <1>2 DEF InItsPartition
<1> QED BY <1>1, <1>3, <1>4, <1>6, <1>7

(* The handlers of the worker, alone or two at a time: what becomes of the    *)
(* ledger, of the facts that are handled and of those that are torn.          *)
LEMMA HandlingInv ==
    ASSUME PipelineInv, UNCHANGED <<paymentVars, relayVars, topic, offset>>,
           failures' \in 0..MaxFailures, dbFailures' \in 0..MaxDbFailures,
           failures <= failures', dbFailures <= dbFailures',
           worker' \in {"ok", "broken"},
           NEW new, Fresh(new), ledger' = ledger \cup new,
           balance' \in [Users -> Nat], donations' \subseteq Spends,
           parked \subseteq parked', parked' \subseteq Fact,
           dropped \subseteq dropped', dropped' \subseteq Fact,
           torn \subseteq torn', torn' \subseteq Fact,
           \A f \in torn' \ torn : TornByAnother(f),
           handled' \in [Kinds -> [Users -> BOOLEAN]],
           \A q \in Kinds, v \in Users :
                handled'[q][v] => handled[q][v]
                    \/ (Waiting(q, v) /\ \A f : f = NextFact(q, v) => Accounted(f)')
    PROVE  PipelineInv'
<1>1. outbox' = outbox
    BY DEF paymentVars
<1>2. failures \in Nat /\ dbFailures \in Nat /\ failures' \in Nat /\ dbFailures' \in Nat
    BY PipelineAssumption DEF PipelineInv, PipelineTypeOK
<1>3. PaymentInv' /\ RelayInOrder' /\ ResentIsCounted' /\ InItsPartition' /\ SentRows' = SentRows
    BY <1>2, WorkerFrame
<1>4. AppliedOnce' /\ CreditHasItsFact' /\ ledger' \subseteq Credits \cup Spends
    BY <1>1, LedgerGrows
<1>5. TornIsNoSurprise'
    BY <1>1, <1>3 DEF PipelineInv, TornIsNoSurprise, TornByAnother
<1>6. \A q \in Kinds, v \in Users : handled'[q][v] => offset[q][v] < Len(topic[q][v])
    BY DEF Waiting, PipelineInv, PipelineTypeOK
<1>7. PipelineTypeOK'
    BY <1>1, <1>3, <1>4, <1>6 DEF PipelineInv, PipelineTypeOK, PaymentInv, relayVars
<1>8. \A f : Accounted(f) => Accounted(f)'
    BY DEF Accounted, InLedger
<1>9. HandledIsAccountedFor'
    <2> SUFFICES ASSUME NEW q \in Kinds, NEW v \in Users, NEW p \in DOMAIN topic[q][v],
                        p <= offset[q][v] \/ (handled'[q][v] /\ p = offset[q][v] + 1)
                 PROVE  \A f : f = outbox[topic[q][v][p]] => Accounted(f)'
        BY <1>1 DEF HandledIsAccountedFor, Accounted, InLedger
    <2>1. CASE p <= offset[q][v] \/ (handled[q][v] /\ p = offset[q][v] + 1)
        BY <1>8, <2>1 DEF PipelineInv, HandledIsAccountedFor
    <2>2. CASE Waiting(q, v) /\ (\A f : f = NextFact(q, v) => Accounted(f)')
                /\ p = offset[q][v] + 1
        BY <2>2 DEF NextFact
    <2> QED BY <2>1, <2>2
<1> QED BY <1>3, <1>4, <1>5, <1>7, <1>9 DEF PipelineInv

(* Which messages are handled after the steps of one and of two calls.        *)
LEMMA HandledOne ==
    ASSUME PipelineInv, NEW k \in Kinds, NEW u \in Users, Handled(k, u)
    PROVE  /\ handled' \in [Kinds -> [Users -> BOOLEAN]]
           /\ \A q \in Kinds, v \in Users :
                handled'[q][v] => handled[q][v] \/ (q = k /\ v = u)
BY DEF Handled, PipelineInv, PipelineTypeOK

LEMMA HandledTwo ==
    ASSUME PipelineInv, NEW k \in Kinds, NEW q \in Kinds, NEW u \in Users, NEW v \in Users,
           k # q, BothHandled(k, u, q, v)
    PROVE  /\ handled' \in [Kinds -> [Users -> BOOLEAN]]
           /\ \A x \in Kinds, w \in Users :
                handled'[x][w] => \/ handled[x][w]
                                  \/ x = k /\ w = u
                                  \/ x = q /\ w = v
BY DEF BothHandled, PipelineInv, PipelineTypeOK

LEMMA ToDlqKeeps ==
    ASSUME PipelineInv, NEW f \in Fact, ToDlq(f)
    PROVE  /\ parked \subseteq parked' /\ parked' \subseteq Fact
           /\ dropped \subseteq dropped' /\ dropped' \subseteq Fact
           /\ f \in parked' \cup dropped'
BY DEF ToDlq, PipelineInv, PipelineTypeOK

LEMMA TearAdds ==
    ASSUME PipelineInv, NEW calls, Tear(calls),
           \A c \in calls : /\ FactOf(c) \in Fact
                            /\ TornByAnother(FactOf(c))
    PROVE  /\ torn \subseteq torn' /\ torn' \subseteq Fact
           /\ \A f \in torn' \ torn : TornByAnother(f)
           /\ \A c \in calls : FactOf(c) \in torn'
BY DEF Tear, PipelineInv, PipelineTypeOK

(* One application, of a fact or of a superchat.                             *)
LEMMA ApplyOne ==
    ASSUME PipelineInv, NEW c \in Credits \cup Spends, Account!Apply(c)
    PROVE  /\ ledger' = ledger \cup {c} /\ ~Duplicate(c)
           /\ balance' \in [Users -> Nat] /\ donations' \subseteq Spends
<1>1. /\ ledger' = ledger \cup {c} /\ ~Duplicate(c) /\ Covered(c) /\ Moved(c)
      /\ donations' = IF Entry(c).donation THEN donations \cup {c} ELSE donations
    BY DEF Account!Apply, Duplicate, Covered, Moved
<1>2. balance' \in [Users -> Nat]
    BY <1>1, BalanceMoves
<1>3. donations \subseteq Spends
    BY DEF PipelineInv, PipelineTypeOK
<1>4. c \in Spends \/ Entry(c).donation = FALSE
    BY CreditsAreNoSpends
<1> QED BY <1>1, <1>2, <1>3, <1>4

(* The variables that a handler leaves alone keep their ranges.               *)
LEMMA StaysPut ==
    ASSUME PipelineInv
    PROVE  /\ UNCHANGED faultVars => /\ failures' \in 0..MaxFailures /\ failures <= failures'
                                     /\ dbFailures' \in 0..MaxDbFailures
                                     /\ dbFailures <= dbFailures'
           /\ UNCHANGED worker => worker' \in {"ok", "broken"}
           /\ UNCHANGED walletVars =>
                /\ worker' \in {"ok", "broken"}
                /\ parked \subseteq parked' /\ parked' \subseteq Fact
                /\ dropped \subseteq dropped' /\ dropped' \subseteq Fact
           /\ UNCHANGED torn \/ UNCHANGED walletVars =>
                /\ torn \subseteq torn' /\ torn' \subseteq Fact
                /\ \A f \in torn' \ torn : TornByAnother(f)
           /\ UNCHANGED ledgerVars => balance' \in [Users -> Nat] /\ donations' \subseteq Spends
           /\ UNCHANGED donations => donations' \subseteq Spends
BY PipelineAssumption
   DEF PipelineInv, PipelineTypeOK, faultVars, walletVars, ledgerVars

(* What accounts for a fact from now on.                                     *)
LEMMA NowAccounted ==
    ASSUME NEW f \in Fact,
           \/ f \in parked' \cup dropped' \cup torn'
           \/ InLedger(f.order, f.kind) /\ ledger \subseteq ledger'
           \/ \E c \in ledger' \cap Credits : c.order = f.order /\ c.kind = f.kind
    PROVE  Accounted(f)'
BY DEF Accounted, InLedger

LEMMA CreditInv ==
    ASSUME PipelineInv, NEW k \in Kinds, NEW u \in Users, Credit(k, u)
    PROVE  PipelineInv'
<1>0. PICK f, c : f = NextFact(k, u) /\ c = NewEntry(f)
    OBVIOUS
<1>1. /\ Waiting(k, u) /\ Account!Apply(c) /\ Handled(k, u)
      /\ UNCHANGED <<topic, offset, walletVars, paymentVars, relayVars, faultVars>>
    BY <1>0 DEF Credit
<1>2. /\ f \in Fact /\ c \in Credits /\ c.order = f.order /\ c.kind = f.kind
      /\ Facts(c.order, c.kind) # {}
    <2>1. AsksFor(f, c, k, u)
        BY <1>0, <1>1, NextOne
    <2> QED BY <2>1 DEF AsksFor
<1>3. /\ ledger' = ledger \cup {c} /\ ~Duplicate(c)
      /\ balance' \in [Users -> Nat] /\ donations' \subseteq Spends
    BY <1>1, <1>2, ApplyOne
<1>4. Fresh({c})
    BY <1>2, <1>3 DEF Fresh
<1>5. c \in ledger' \cap Credits /\ c.order = f.order /\ c.kind = f.kind
    BY <1>2, <1>3
<1>6. Accounted(f)'
    BY <1>2, <1>5, NowAccounted
<1>7. /\ handled' \in [Kinds -> [Users -> BOOLEAN]]
      /\ \A q \in Kinds, v \in Users :
            handled'[q][v] => handled[q][v] \/ (q = k /\ v = u)
    BY <1>1, HandledOne
<1>8. \A q \in Kinds, v \in Users :
        handled'[q][v] => handled[q][v]
            \/ (Waiting(q, v) /\ \A g : g = NextFact(q, v) => Accounted(g)')
    BY <1>0, <1>1, <1>6, <1>7
<1> QED BY <1>1, <1>3, <1>4, <1>7, <1>8, StaysPut, HandlingInv

LEMMA CreditAgainInv ==
    ASSUME PipelineInv, NEW k \in Kinds, NEW u \in Users, CreditAgain(k, u)
    PROVE  PipelineInv'
<1>0. PICK f, c : f = NextFact(k, u) /\ c = NewEntry(f)
    OBVIOUS
<1>1. /\ Waiting(k, u) /\ Duplicate(c) /\ Handled(k, u)
      /\ UNCHANGED <<topic, offset, walletVars, paymentVars, relayVars, ledgerVars, faultVars>>
    BY <1>0 DEF CreditAgain
<1>2. f \in Fact /\ InLedger(f.order, f.kind)
    BY <1>0, <1>1, NextOne DEF AsksFor
<1>3. ledger' = ledger \cup {} /\ Fresh({})
    BY <1>1 DEF ledgerVars, Fresh
<1>4. Accounted(f)'
    BY <1>2, <1>3, NowAccounted
<1>5. /\ handled' \in [Kinds -> [Users -> BOOLEAN]]
      /\ \A q \in Kinds, v \in Users :
            handled'[q][v] => handled[q][v] \/ (q = k /\ v = u)
    BY <1>1, HandledOne
<1>6. \A q \in Kinds, v \in Users :
        handled'[q][v] => handled[q][v]
            \/ (Waiting(q, v) /\ \A g : g = NextFact(q, v) => Accounted(g)')
    BY <1>0, <1>1, <1>4, <1>5
<1> QED BY <1>1, <1>3, <1>5, <1>6, StaysPut, HandlingInv

LEMMA ParkInv ==
    ASSUME PipelineInv, NEW k \in Kinds, NEW u \in Users, Park(k, u)
    PROVE  PipelineInv'
<1>0. PICK f, c : f = NextFact(k, u) /\ c = NewEntry(f)
    OBVIOUS
<1>1. /\ Waiting(k, u) /\ ToDlq(f) /\ Handled(k, u)
      /\ UNCHANGED <<topic, offset, worker, torn, paymentVars, relayVars, ledgerVars, faultVars>>
    BY <1>0 DEF Park
<1>2. f \in Fact
    BY <1>0, <1>1, NextOne DEF AsksFor
<1>3. /\ parked \subseteq parked' /\ parked' \subseteq Fact
      /\ dropped \subseteq dropped' /\ dropped' \subseteq Fact
      /\ f \in parked' \cup dropped'
    BY <1>1, <1>2, ToDlqKeeps
<1>4. ledger' = ledger \cup {} /\ Fresh({})
    BY <1>1 DEF ledgerVars, Fresh
<1>5. Accounted(f)'
    BY <1>2, <1>3, NowAccounted
<1>6. /\ handled' \in [Kinds -> [Users -> BOOLEAN]]
      /\ \A q \in Kinds, v \in Users :
            handled'[q][v] => handled[q][v] \/ (q = k /\ v = u)
    BY <1>1, HandledOne
<1>7. \A q \in Kinds, v \in Users :
        handled'[q][v] => handled[q][v]
            \/ (Waiting(q, v) /\ \A g : g = NextFact(q, v) => Accounted(g)')
    BY <1>0, <1>1, <1>5, <1>6
<1> QED BY <1>1, <1>3, <1>4, <1>6, <1>7, StaysPut, HandlingInv

(* Two calls on the shared session: the entries, the balances and the facts.  *)
LEMMA TwoCalls ==
    ASSUME PipelineInv, NEW k \in Kinds, NEW q \in Kinds, NEW u \in Users, NEW v \in Users,
           Overlap(k, u, q, v)
    PROVE  /\ k # q /\ Waiting(k, u) /\ Waiting(q, v)
           /\ AsksFor(NextFact(k, u), NewEntry(NextFact(k, u)), k, u)
           /\ AsksFor(NextFact(q, v), NewEntry(NextFact(q, v)), q, v)
           /\ TornByAnother(NextFact(k, u)) /\ TornByAnother(NextFact(q, v))
<1>1. Waiting(k, u) /\ Waiting(q, v) /\ k # q
    BY DEF Overlap
<1>2. (\E i \in SentRows : outbox[i].kind = q) /\ (\E i \in SentRows : outbox[i].kind = k)
    BY <1>1, AnotherIsSent
<1>3. /\ AsksFor(NextFact(k, u), NewEntry(NextFact(k, u)), k, u)
      /\ AsksFor(NextFact(q, v), NewEntry(NextFact(q, v)), q, v)
    BY <1>1, NextOne
<1>4. NextFact(k, u).kind = k /\ NextFact(q, v).kind = q
    BY <1>3 DEF AsksFor
<1>5. TornByAnother(NextFact(k, u)) /\ TornByAnother(NextFact(q, v))
    BY <1>1, <1>2, <1>4 DEF TornByAnother
<1> QED BY <1>1, <1>3, <1>5

(* One of the two, or both, or none has its entry; the others are torn or in   *)
(* the DLQ.                                                                  *)
Outcome(f, c, g, d, new, lost) ==
    /\ new \subseteq {c, d} /\ lost \subseteq {c, d}
    /\ \A e \in new : ~Duplicate(e)
    /\ ledger' = ledger \cup new /\ Tear(lost)
    /\ UNCHANGED <<parked, dropped>> \/ ToDlq(g)
    /\ c \in new \cup lost
    /\ d \in new \cup lost \/ Duplicate(d) \/ ToDlq(g)

LEMMA TwoCallsInv ==
    ASSUME PipelineInv, NEW k \in Kinds, NEW q \in Kinds, NEW u \in Users, NEW v \in Users,
           Overlap(k, u, q, v), BothHandled(k, u, q, v),
           NEW new, NEW lost,
           Outcome(NextFact(k, u), NewEntry(NextFact(k, u)),
                   NextFact(q, v), NewEntry(NextFact(q, v)), new, lost),
           balance' \in [Users -> Nat], donations' = donations,
           UNCHANGED <<worker, topic, offset, paymentVars, relayVars, faultVars>>
    PROVE  PipelineInv'
<1>0. PICK f, g, c, d : /\ f = NextFact(k, u) /\ c = NewEntry(f)
                        /\ g = NextFact(q, v) /\ d = NewEntry(g)
    OBVIOUS
<1>10a. /\ k # q /\ AsksFor(f, c, k, u) /\ AsksFor(g, d, q, v)
      /\ TornByAnother(f) /\ TornByAnother(g)
    BY <1>0, TwoCalls
<1>1. /\ f \in Fact /\ g \in Fact /\ k # q
      /\ c \in Credits /\ d \in Credits /\ c.kind = k /\ d.kind = q
      /\ FactOf(c) = f
      /\ FactOf(d) = g
      /\ TornByAnother(f) /\ TornByAnother(g)
      /\ Facts(c.order, c.kind) # {} /\ Facts(d.order, d.kind) # {}
      /\ Duplicate(d) <=> InLedger(g.order, g.kind)
    BY <1>10a DEF AsksFor
<1>10b. Outcome(f, c, g, d, new, lost)
    BY <1>0
<1>2. /\ new \subseteq {c, d} /\ lost \subseteq {c, d} /\ c \in new \cup lost
      /\ d \in new \cup lost \/ Duplicate(d) \/ ToDlq(g)
      /\ UNCHANGED <<parked, dropped>> \/ ToDlq(g)
      /\ ledger' = ledger \cup new /\ Tear(lost)
      /\ \A e \in new : ~Duplicate(e)
    BY <1>10b DEF Outcome
<1>3. Waiting(k, u) /\ Waiting(q, v)
    BY DEF Overlap
<1>4. Fresh(new)
    BY <1>1, <1>2 DEF Fresh
<1>5. /\ torn \subseteq torn' /\ torn' \subseteq Fact
      /\ \A e \in torn' \ torn : TornByAnother(e)
      /\ \A e \in lost : FactOf(e) \in torn'
    <2>1. \A e \in lost : /\ FactOf(e) \in Fact
                          /\ TornByAnother(FactOf(e))
        BY <1>1, <1>2
    <2> QED BY <1>2, <2>1, TearAdds
<1>6. /\ parked \subseteq parked' /\ parked' \subseteq Fact
      /\ dropped \subseteq dropped' /\ dropped' \subseteq Fact
      /\ ToDlq(g) => g \in parked' \cup dropped'
    <2>1. CASE ToDlq(g)
        BY <1>1, <2>1, ToDlqKeeps
    <2>2. CASE UNCHANGED <<parked, dropped>> /\ ~ToDlq(g)
        BY <2>2 DEF PipelineInv, PipelineTypeOK
    <2> QED BY <1>2, <2>1, <2>2
<1>7. c.order = f.order /\ c.kind = f.kind /\ d.order = g.order /\ d.kind = g.kind
    BY <1>10a DEF AsksFor
<1>8. Accounted(f)'
    <2>1. CASE c \in new
        <3>1. c \in ledger' \cap Credits /\ c.order = f.order /\ c.kind = f.kind
            BY <1>1, <1>2, <1>7, <2>1
        <3> QED BY <1>1, <3>1, NowAccounted
    <2>2. CASE c \in lost
        BY <1>1, <1>5, <2>2, NowAccounted
    <2> QED BY <1>2, <2>1, <2>2
<1>9. Accounted(g)'
    <2>1. CASE d \in new
        <3>1. d \in ledger' \cap Credits /\ d.order = g.order /\ d.kind = g.kind
            BY <1>1, <1>2, <1>7, <2>1
        <3> QED BY <1>1, <3>1, NowAccounted
    <2>2. CASE d \in lost
        BY <1>1, <1>5, <2>2, NowAccounted
    <2>3. CASE Duplicate(d)
        <3>1. InLedger(g.order, g.kind) /\ ledger \subseteq ledger'
            BY <1>1, <1>2, <2>3
        <3> QED BY <1>1, <3>1, NowAccounted
    <2>4. CASE ToDlq(g)
        BY <1>1, <1>6, <2>4, NowAccounted
    <2> QED BY <1>2, <2>1, <2>2, <2>3, <2>4
<1>10. /\ handled' \in [Kinds -> [Users -> BOOLEAN]]
       /\ \A x \in Kinds, w \in Users :
            handled'[x][w] => handled[x][w] \/ (x = k /\ w = u) \/ (x = q /\ w = v)
    BY <1>1, HandledTwo
<1>11. \A x \in Kinds, w \in Users :
        handled'[x][w] => handled[x][w]
            \/ (Waiting(x, w) /\ \A e : e = NextFact(x, w) => Accounted(e)')
    BY <1>0, <1>3, <1>8, <1>9, <1>10
<1> QED BY <1>2, <1>4, <1>5, <1>6, <1>10, <1>11, StaysPut, HandlingInv

(* Of the two halves of a call, some are kept.                               *)
LEMMA SharedInv ==
    ASSUME PipelineInv, SharedStep
    PROVE  PipelineInv'
<1>1. PICK k \in Kinds, q \in Kinds, u \in Users, v \in Users :
        CreditUndone(k, u, q, v) \/ CommittedByOther(k, u, q, v) \/ (u = v /\ WalletRace(k, q, u))
    BY DEF SharedStep
<1>0. PICK f, g, c, d : /\ f = NextFact(k, u) /\ c = NewEntry(f)
                        /\ g = NextFact(q, v) /\ d = NewEntry(g)
    OBVIOUS
<1>2. /\ Overlap(k, u, q, v) /\ BothHandled(k, u, q, v) /\ donations' = donations
      /\ UNCHANGED <<worker, topic, offset, paymentVars, relayVars, faultVars>>
    BY <1>1 DEF CreditUndone, CommittedByOther, WalletRace
<1>3. c \in Credits /\ d \in Credits /\ Entry(d).user = v
    <2>1. AsksFor(f, c, k, u) /\ AsksFor(g, d, q, v)
        BY <1>0, <1>2, TwoCalls
    <2> QED BY <2>1 DEF AsksFor
<1>4. Covered(c) /\ Moved(c) => balance' \in [Users -> Nat]
    BY <1>3, BalanceMoves
<1>5. UNCHANGED balance => balance' \in [Users -> Nat]
    BY DEF PipelineInv, PipelineTypeOK
<1>9. ASSUME NEW new, NEW lost, Outcome(f, c, g, d, new, lost), balance' \in [Users -> Nat]
      PROVE  PipelineInv'
    BY <1>0, <1>2, <1>9, TwoCallsInv
<1>6. CASE CreditUndone(k, u, q, v)
    <2>1. /\ Covered(c) /\ (Moved(c) \/ UNCHANGED balance)
          /\ \/ Duplicate(d) /\ Tear({c}) /\ UNCHANGED <<ledger, parked, dropped>>
             \/ ~Duplicate(d) /\ ToDlq(g) /\ Tear({c}) /\ UNCHANGED ledger
             \/ ~Duplicate(d) /\ ToDlq(g) /\ Tear({c, d}) /\ ledger' = ledger \cup {d}
        BY <1>0, <1>6 DEF CreditUndone, Applicable, Refused
    <2>2. \/ Outcome(f, c, g, d, {}, {c})
          \/ Outcome(f, c, g, d, {d}, {c, d})
        BY <2>1 DEF Outcome
    <2>3. balance' \in [Users -> Nat]
        BY <1>4, <1>5, <2>1
    <2> QED BY <1>9, <2>2, <2>3
<1>7. CASE CommittedByOther(k, u, q, v)
    <2>1. /\ Covered(c) /\ ~Duplicate(c) /\ ~Duplicate(d) /\ ToDlq(g)
          /\ \/ ledger' = ledger \cup {c} /\ Tear({c}) /\ UNCHANGED balance
             \/ ledger' = ledger \cup {c, d} /\ Tear({d}) /\ Moved(c)
        BY <1>0, <1>7 DEF CommittedByOther, Applicable, Refused
    <2>2. \/ Outcome(f, c, g, d, {c}, {c})
          \/ Outcome(f, c, g, d, {c, d}, {d})
        BY <2>1 DEF Outcome
    <2>3. balance' \in [Users -> Nat]
        BY <1>4, <1>5, <2>1
    <2> QED BY <1>9, <2>2, <2>3
<1>8. CASE u = v /\ WalletRace(k, q, u)
    <2>1. /\ ledger' = ledger \cup {d} /\ Tear({c}) /\ UNCHANGED balance /\ NoWallet(v)
          /\ UNCHANGED <<parked, dropped>>
        BY <1>0, <1>8 DEF WalletRace
    <2>2. ~Duplicate(d)
        <3>1. ASSUME NEW e \in ledger, Account!SameKey(d, e) PROVE FALSE
            <4>0. d \in Credits \cup Spends /\ e \in Credits \cup Spends
                BY <1>3 DEF PipelineInv, PipelineTypeOK
            <4>1. Entry(d).key = Entry(e).key /\ Entry(d).key # <<>>
                BY <3>1, <4>0 DEF Account!SameKey, NoKey
            <4>2. e \in Credits
                BY <4>0, <4>1, CreditsAreNoSpends DEF NoKey
            <4>3. e.order = d.order
                BY <1>3, <4>1, <4>2, CreditsAreNoSpends
            <4>4. Entry(e).user = v
                BY <1>3, <4>2, <4>3, CreditsAreNoSpends
            <4> QED BY <2>1, <4>4 DEF NoWallet
        <3> QED BY <3>1 DEF Duplicate
    <2>3. balance' \in [Users -> Nat]
        BY <1>5, <2>1
    <2>4. Outcome(f, c, g, d, {d}, {c})
        BY <2>1, <2>2 DEF Outcome
    <2> QED BY <1>9, <2>3, <2>4
<1> QED BY <1>1, <1>6, <1>7, <1>8

(* A call that stops for good.                                               *)
LEMMA PartsOfInv ==
    ASSUME PipelineInv, NEW k \in Kinds, NEW u \in Users, PartsOf(k, u)
    PROVE  /\ \E new : Fresh(new) /\ ledger' = ledger \cup new
           /\ balance' \in [Users -> Nat] /\ donations' = donations
           /\ torn \subseteq torn' /\ torn' \subseteq Fact
           /\ \A e \in torn' \ torn : TornByAnother(e)
<1>0. PICK f, c : f = NextFact(k, u) /\ c = NewEntry(f)
    OBVIOUS
<1>1. PICK q \in Kinds \ {k}, v \in Users :
        /\ Waiting(k, u) /\ worker = "ok" /\ ~Duplicate(c)
        /\ Waiting(q, v) \/ handled[q][v] \/ offset[q][v] > 0
        /\ \E kept \in SUBSET {e \in IF Waiting(q, v) THEN {NewEntry(NextFact(q, v))} ELSE {} :
                                ~Duplicate(e)} :
            /\ \/ ledger' = ledger \cup kept \cup {c} /\ UNCHANGED balance
               \/ ledger' = ledger \cup kept /\ Covered(c) /\ Moved(c)
            /\ Tear(kept \cup {c})
        /\ UNCHANGED donations
    BY <1>0 DEF PartsOf
<1>9. PICK g, d : g = NextFact(q, v) /\ d = NewEntry(g)
    OBVIOUS
<1>2. PICK kept \in SUBSET {e \in IF Waiting(q, v) THEN {d} ELSE {} : ~Duplicate(e)} :
        /\ \/ ledger' = ledger \cup kept \cup {c} /\ UNCHANGED balance
           \/ ledger' = ledger \cup kept /\ Covered(c) /\ Moved(c)
        /\ Tear(kept \cup {c})
    BY <1>1, <1>9
<1>3. /\ c \in Credits /\ c.kind = k /\ Facts(c.order, c.kind) # {}
      /\ FactOf(c) \in Fact /\ FactOf(c).kind = k
    <2>1. AsksFor(f, c, k, u)
        BY <1>0, <1>1, NextOne
    <2> QED BY <2>1 DEF AsksFor
<1>4. ASSUME NEW e \in kept
      PROVE  /\ e = d /\ ~Duplicate(e) /\ e \in Credits /\ e.kind = q
             /\ Facts(e.order, e.kind) # {}
             /\ FactOf(e) \in Fact /\ FactOf(e).kind = q
    <2>1. Waiting(q, v) /\ e = d /\ ~Duplicate(e)
        BY <1>2
    <2>2. AsksFor(g, d, q, v)
        BY <1>9, <2>1, NextOne
    <2> QED BY <2>1, <2>2 DEF AsksFor
<1>5. /\ \E i \in SentRows : outbox[i].kind = k
      /\ \E i \in SentRows : outbox[i].kind = q
    BY <1>1, AnotherIsSent
<1>6. \A e \in Fact : e.kind \in {k, q} => TornByAnother(e)
    BY <1>1, <1>5 DEF TornByAnother
<1>7. Fresh(kept \cup {c}) /\ Fresh(kept)
    BY <1>1, <1>3, <1>4 DEF Fresh
<1>8. /\ torn \subseteq torn' /\ torn' \subseteq Fact
      /\ \A e \in torn' \ torn : TornByAnother(e)
    <2>1. \A e \in kept \cup {c} :
            /\ FactOf(e) \in Fact
            /\ TornByAnother(FactOf(e))
        BY <1>3, <1>4, <1>6
    <2> QED BY <1>2, <2>1, TearAdds
<1>11. balance' \in [Users -> Nat]
    BY <1>2, <1>3, BalanceMoves DEF PipelineInv, PipelineTypeOK
<1>10. \E new : Fresh(new) /\ ledger' = ledger \cup new
    <2>1. CASE ledger' = ledger \cup kept \cup {c}
        <3>1. ledger' = ledger \cup (kept \cup {c})
            BY <2>1
        <3> QED BY <1>7, <3>1
    <2>2. CASE ledger' = ledger \cup kept
        BY <1>7, <2>2
    <2> QED BY <1>2, <2>1, <2>2
<1> QED BY <1>1, <1>8, <1>10, <1>11

LEMMA WorkerDbErrorInv ==
    ASSUME PipelineInv, NEW k \in Kinds, NEW u \in Users, WorkerDbError(k, u)
    PROVE  PipelineInv'
<1>0. PICK f, c : f = NextFact(k, u) /\ c = NewEntry(f)
    OBVIOUS
<1>1. /\ Waiting(k, u) /\ worker' \in {"ok", "broken"}
      /\ dbFailures' \in 0..MaxDbFailures /\ failures' \in 0..MaxFailures
      /\ failures <= failures' /\ dbFailures <= dbFailures'
      /\ \/ Account!Apply(c) /\ UNCHANGED torn
         \/ UNCHANGED <<ledgerVars, torn>>
         \/ PartsOf(k, u)
      /\ ToDlq(f) /\ Handled(k, u)
      /\ UNCHANGED <<topic, offset, paymentVars, relayVars>>
    BY <1>0, PipelineAssumption DEF WorkerDbError, DbFail, PipelineInv, PipelineTypeOK
<1>2. f \in Fact /\ c \in Credits /\ Facts(c.order, c.kind) # {}
    BY <1>0, <1>1, NextOne DEF AsksFor
<1>3. /\ parked \subseteq parked' /\ parked' \subseteq Fact
      /\ dropped \subseteq dropped' /\ dropped' \subseteq Fact
      /\ f \in parked' \cup dropped'
    BY <1>1, <1>2, ToDlqKeeps
<1>4. /\ \E new : Fresh(new) /\ ledger' = ledger \cup new
      /\ balance' \in [Users -> Nat] /\ donations' \subseteq Spends
      /\ torn \subseteq torn' /\ torn' \subseteq Fact
      /\ \A g \in torn' \ torn : TornByAnother(g)
    <2>1. /\ torn \subseteq Fact /\ donations \subseteq Spends /\ balance \in [Users -> Nat]
        BY DEF PipelineInv, PipelineTypeOK
    <2>2. CASE Account!Apply(c) /\ UNCHANGED torn
        <3>1. /\ ledger' = ledger \cup {c} /\ ~Duplicate(c)
              /\ balance' \in [Users -> Nat] /\ donations' \subseteq Spends
            BY <1>2, <2>2, ApplyOne
        <3>2. Fresh({c})
            BY <1>2, <3>1 DEF Fresh
        <3> QED BY <2>1, <2>2, <3>1, <3>2
    <2>3. CASE UNCHANGED <<ledgerVars, torn>>
        <3>1. Fresh({}) /\ ledger' = ledger \cup {}
            BY <2>3 DEF Fresh, ledgerVars
        <3> QED BY <2>1, <2>3, <3>1 DEF ledgerVars
    <2>4. CASE PartsOf(k, u)
        BY <2>1, <2>4, PartsOfInv
    <2> QED BY <1>1, <2>2, <2>3, <2>4
<1>5. PICK new : Fresh(new) /\ ledger' = ledger \cup new
    BY <1>4
<1>6. Accounted(f)'
    BY <1>2, <1>3, NowAccounted
<1>7. /\ handled' \in [Kinds -> [Users -> BOOLEAN]]
      /\ \A q \in Kinds, v \in Users :
            handled'[q][v] => handled[q][v] \/ (q = k /\ v = u)
    BY <1>1, HandledOne
<1>8. \A q \in Kinds, v \in Users :
        handled'[q][v] => handled[q][v]
            \/ (Waiting(q, v) /\ \A g : g = NextFact(q, v) => Accounted(g)')
    BY <1>0, <1>1, <1>6, <1>7
<1> QED BY <1>1, <1>3, <1>4, <1>5, <1>7, <1>8, HandlingInv

(* Only what is handled is acknowledged.                                     *)
LEMMA AckInv ==
    ASSUME PipelineInv, NEW k \in Kinds, NEW u \in Users, Ack(k, u)
    PROVE  PipelineInv'
<1> USE DEF Ack, walletVars, ledgerVars, faultVars
<1>0. failures \in Nat /\ dbFailures \in Nat
    BY PipelineAssumption DEF PipelineInv, PipelineTypeOK
<1>1. PaymentInv' /\ RelayInOrder' /\ ResentIsCounted' /\ InItsPartition' /\ SentRows' = SentRows
    BY <1>0, WorkerFrame
<1>2. outbox' = outbox
    BY DEF paymentVars
<1>3. /\ offset' \in [Kinds -> [Users -> Nat]] /\ handled' \in [Kinds -> [Users -> BOOLEAN]]
      /\ \A q \in Kinds, v \in Users :
            /\ offset'[q][v] = IF q = k /\ v = u THEN offset[q][v] + 1 ELSE offset[q][v]
            /\ handled'[q][v] = IF q = k /\ v = u THEN FALSE ELSE handled[q][v]
    <2>1. offset \in [Kinds -> [Users -> Nat]] /\ handled \in [Kinds -> [Users -> BOOLEAN]]
        BY DEF PipelineInv, PipelineTypeOK
    <2>2. offset[k][u] + 1 \in Nat
        BY <2>1
    <2> QED BY <2>1, <2>2
<1>4. \A q \in Kinds, v \in Users :
        offset[q][v] \in Nat /\ Len(topic[q][v]) \in Nat
    BY DEF PipelineInv, PipelineTypeOK
<1>5. PipelineTypeOK'
    BY <1>1, <1>2, <1>3, <1>4 DEF PipelineInv, PipelineTypeOK, PaymentInv, relayVars
<1>6. HandledIsAccountedFor'
    <2> SUFFICES ASSUME NEW q \in Kinds, NEW v \in Users, NEW p \in DOMAIN topic[q][v],
                        p <= offset'[q][v] \/ (handled'[q][v] /\ p = offset'[q][v] + 1)
                 PROVE  Accounted(outbox[topic[q][v][p]])
        BY <1>2 DEF HandledIsAccountedFor, Accounted, InLedger
    <2>1. p \in Nat
        BY DEF PipelineInv, PipelineTypeOK
    <2>2. p <= offset[q][v] \/ (handled[q][v] /\ p = offset[q][v] + 1)
        BY <1>3, <1>4, <2>1
    <2> QED BY <2>2 DEF PipelineInv, HandledIsAccountedFor
<1>7. AppliedOnce' /\ CreditHasItsFact'
    BY <1>2 DEF PipelineInv, AppliedOnce, CreditHasItsFact, Facts
<1>8. TornIsNoSurprise'
    BY <1>1, <1>2 DEF PipelineInv, TornIsNoSurprise, TornByAnother
<1> QED BY <1>1, <1>5, <1>6, <1>7, <1>8 DEF PipelineInv

LEMMA WorkerRestartsInv ==
    ASSUME PipelineInv, WorkerRestarts
    PROVE  PipelineInv'
<1>1. /\ UNCHANGED <<topic, offset, parked, dropped, paymentVars, relayVars>>
      /\ worker' = "ok" /\ handled' = [k \in Kinds |-> [u \in Users |-> FALSE]]
      /\ failures' \in 0..MaxFailures /\ dbFailures' \in 0..MaxDbFailures
      /\ failures <= failures' /\ dbFailures <= dbFailures'
      /\ \/ UNCHANGED <<ledgerVars, torn>>
         \/ \E k \in Kinds, u \in Users : PartsOf(k, u)
    BY PipelineAssumption DEF WorkerRestarts, Fail, PipelineInv, PipelineTypeOK
<1>2. /\ parked \subseteq parked' /\ parked' \subseteq Fact
      /\ dropped \subseteq dropped' /\ dropped' \subseteq Fact
    BY <1>1 DEF PipelineInv, PipelineTypeOK
<1>3. /\ \E new : Fresh(new) /\ ledger' = ledger \cup new
      /\ balance' \in [Users -> Nat] /\ donations' \subseteq Spends
      /\ torn \subseteq torn' /\ torn' \subseteq Fact
      /\ \A e \in torn' \ torn : TornByAnother(e)
    <2>1. /\ torn \subseteq Fact /\ donations \subseteq Spends /\ balance \in [Users -> Nat]
        BY DEF PipelineInv, PipelineTypeOK
    <2>2. CASE UNCHANGED <<ledgerVars, torn>>
        <3>1. Fresh({}) /\ ledger' = ledger \cup {}
            BY <2>2 DEF Fresh, ledgerVars
        <3> QED BY <2>1, <2>2, <3>1 DEF ledgerVars
    <2>3. ASSUME NEW k \in Kinds, NEW u \in Users, PartsOf(k, u)
          PROVE  /\ \E new : Fresh(new) /\ ledger' = ledger \cup new
                 /\ balance' \in [Users -> Nat] /\ donations' \subseteq Spends
                 /\ torn \subseteq torn' /\ torn' \subseteq Fact
                 /\ \A e \in torn' \ torn : TornByAnother(e)
        BY <2>1, <2>3, PartsOfInv
    <2> QED BY <1>1, <2>2, <2>3
<1>4. PICK new : Fresh(new) /\ ledger' = ledger \cup new
    BY <1>3
<1>5. /\ handled' \in [Kinds -> [Users -> BOOLEAN]]
      /\ \A q \in Kinds, v \in Users : ~handled'[q][v]
    BY <1>1
<1> QED BY <1>1, <1>2, <1>3, <1>4, <1>5, HandlingInv

(* A superchat takes credit, and no fact has to do with it.                   *)
LEMMA SpendInv ==
    ASSUME PipelineInv, NEW u \in Users, Spend(u)
    PROVE  PipelineInv'
<1> USE DEF Spend, kafkaVars, walletVars, faultVars
<1>0. failures \in Nat /\ dbFailures \in Nat
    BY PipelineAssumption DEF PipelineInv, PipelineTypeOK
<1>1. PICK c \in Spends : Account!Apply(c)
    OBVIOUS
<1>2. outbox' = outbox
    BY DEF paymentVars
<1>3. /\ ledger' = ledger \cup {c}
      /\ balance' \in [Users -> Nat] /\ donations' \subseteq Spends
    BY <1>1, ApplyOne
<1>4. PaymentInv' /\ RelayInOrder' /\ ResentIsCounted' /\ InItsPartition' /\ SentRows' = SentRows
    BY <1>0, WorkerFrame
<1>5. ledger' \cap Credits = ledger \cap Credits /\ ledger' \subseteq Credits \cup Spends
    BY <1>3, CreditsAreNoSpends DEF PipelineInv, PipelineTypeOK
<1>6. PipelineTypeOK'
    BY <1>2, <1>3, <1>4, <1>5 DEF PipelineInv, PipelineTypeOK, PaymentInv, relayVars
<1>7. AppliedOnce' /\ CreditHasItsFact'
    BY <1>2, <1>5 DEF PipelineInv, AppliedOnce, CreditHasItsFact, Facts
<1>8. HandledIsAccountedFor' /\ TornIsNoSurprise'
    BY <1>2, <1>4, <1>5 DEF PipelineInv, HandledIsAccountedFor, Accounted, InLedger,
                            TornIsNoSurprise, TornByAnother
<1> QED BY <1>4, <1>6, <1>7, <1>8 DEF PipelineInv

-----------------------------------------------------------------------------

LEMMA PipelineNextInv == PipelineInv /\ [PipelineNext]_pipelineVars => PipelineInv'
<1> SUFFICES ASSUME PipelineInv, [PipelineNext]_pipelineVars PROVE PipelineInv'
    OBVIOUS
<1>1. CASE RelayStep
    BY <1>1, PollInv, PublishInv, MarkInv DEF RelayStep
<1>2. ASSUME NEW k \in Kinds, NEW u \in Users, WorkerStep(k, u) PROVE PipelineInv'
    BY <1>2, CreditInv, CreditAgainInv, ParkInv, AckInv DEF WorkerStep
<1>3. CASE Trouble
    BY <1>3, PublishFailsInv, RelayStopsInv, WorkerDbErrorInv, WorkerRestartsInv DEF Trouble
<1>4. CASE UNCHANGED pipelineVars
    <2>1. UNCHANGED <<paymentVars, relayVars, kafkaVars, walletVars, ledgerVars, faultVars>>
        BY <1>4 DEF pipelineVars
    <2>2. failures \in Nat /\ dbFailures \in Nat
        BY PipelineAssumption DEF PipelineInv, PipelineTypeOK
    <2>3. PaymentInv' /\ RelayInOrder' /\ ResentIsCounted' /\ InItsPartition' /\ SentRows' = SentRows
        BY <2>1, <2>2, WorkerFrame DEF kafkaVars, faultVars
    <2> USE <2>1 DEF relayVars, kafkaVars, walletVars, ledgerVars, faultVars
    <2>4. outbox' = outbox
        BY DEF paymentVars
    <2>5. PipelineTypeOK'
        BY <2>3, <2>4 DEF PipelineInv, PipelineTypeOK, PaymentInv
    <2>6. HandledIsAccountedFor' /\ AppliedOnce' /\ CreditHasItsFact' /\ TornIsNoSurprise'
        BY <2>3, <2>4 DEF PipelineInv, HandledIsAccountedFor, Accounted, InLedger, AppliedOnce,
                          CreditHasItsFact, Facts, TornIsNoSurprise, TornByAnother
    <2> QED BY <2>3, <2>5, <2>6 DEF PipelineInv
<1> QED BY <1>1, <1>2, <1>3, <1>4, ServiceInv, SharedInv, SpendInv DEF PipelineNext

LEMMA PipelineInvariant == PipelineSpec => []PipelineInv
BY PipelineInitInv, PipelineNextInv, PTL DEF PipelineSpec

(* Every variable of relay, topics, worker and ledger keeps its range,        *)
(* whatever fails.                                                           *)
THEOREM PipelineTypeCorrect == PipelineSpec => []PipelineTypeOK
BY PipelineInvariant, PTL DEF PipelineInv

(* The pipeline does to the payments what the payments service alone does, so *)
(* what holds of the service holds in the pipeline: PipelineSpec implements   *)
(* PaymentSpec.                                                              *)
THEOREM PipelineRunsPayments == PipelineSpec => PaymentSpec
<1>1. PipelineInit => PaymentInit
    BY DEF PipelineInit
<1>2. [PipelineNext]_pipelineVars => [PaymentNext]_paymentVars
    <2> SUFFICES ASSUME [PipelineNext]_pipelineVars PROVE PaymentNext \/ UNCHANGED paymentVars
        OBVIOUS
    <2>1. CASE ServiceStep
        BY <2>1 DEF ServiceStep
    <2>2. CASE RelayStep
        BY <2>2 DEF RelayStep, Poll, Publish, Mark
    <2>3. ASSUME NEW k \in Kinds, NEW u \in Users, WorkerStep(k, u)
          PROVE  UNCHANGED paymentVars
        BY <2>3 DEF WorkerStep, Credit, CreditAgain, Park, Ack
    <2>4. CASE SharedStep
        BY <2>4 DEF SharedStep, CreditUndone, CommittedByOther, WalletRace
    <2>5. CASE Trouble
        BY <2>5 DEF Trouble, PublishFails, RelayDbError, RelayRestarts, WorkerDbError,
                    WorkerRestarts
    <2>6. ASSUME NEW u \in Users, Spend(u) PROVE UNCHANGED paymentVars
        BY <2>6 DEF Spend
    <2>7. CASE UNCHANGED pipelineVars
        BY <2>7 DEF pipelineVars
    <2> QED BY <2>1, <2>2, <2>3, <2>4, <2>5, <2>6, <2>7 DEF PipelineNext
<1> QED BY <1>1, <1>2, PTL DEF PipelineSpec, PaymentSpec

(* relay.py:43-58: the batch in the order of the ids, one row at a time, a row *)
(* that fails stops the batch.  So for every batch size, every failure and     *)
(* every order in which the rows appear, the purchase of a payment is sent     *)
(* before its refund, and no row is marked that was not sent.                 *)
THEOREM RefundIsSentSecond == PipelineSpec => []PurchaseIsSentFirst
<1>1. PipelineInv => PurchaseIsSentFirst
    BY DEF PipelineInv, RelayInOrder, PurchaseIsSentFirst
<1> QED BY <1>1, PipelineInvariant, PTL

(* relay.py:13-15: however many rows a batch has, a failure costs one message  *)
(* sent twice at most.                                                       *)
THEOREM OneFailureResendsOne == PipelineSpec => []RepublishWidthIsOne
<1>1. PipelineInv => RepublishWidthIsOne
    <2> SUFFICES ASSUME PipelineInv PROVE RepublishWidthIsOne
        OBVIOUS
    <2>1. /\ Cardinality(Messages) \in Nat /\ Cardinality(SentRows) \in Nat
          /\ Cardinality(Owed) \in Nat
          /\ Cardinality(Messages) + Cardinality(Owed)
                <= Cardinality(SentRows) + failures + dbFailures
        BY Counted DEF PipelineInv, ResentIsCounted
    <2>2. failures \in Nat /\ dbFailures \in Nat
        BY PipelineAssumption DEF PipelineInv, PipelineTypeOK
    <2> QED BY <2>1, <2>2 DEF RepublishWidthIsOne
<1> QED BY <1>1, PipelineInvariant, PTL

(* consume and _to_dlq with AckPolicy.ACK, two subscribers on one session: an  *)
(* acknowledged message has its entry in the ledger, or is in the DLQ or in    *)
(* the log of a DLQ that failed, or was torn by a call of the other           *)
(* subscriber, and nothing is torn before facts of both kinds have been sent. *)
THEOREM NothingVanishes == PipelineSpec => []AckedIsAccountedFor
<1>1. PipelineInv => AckedIsAccountedFor
    <2> SUFFICES ASSUME PipelineInv PROVE AckedIsAccountedFor
        OBVIOUS
    <2>1. ASSUME NEW k \in Kinds, NEW u \in Users, NEW p \in 1..offset[k][u]
          PROVE  Accounted(outbox[topic[k][u][p]])
        <3>1. p \in DOMAIN topic[k][u] /\ p <= offset[k][u]
            BY DEF PipelineInv, PipelineTypeOK
        <3> QED BY <3>1 DEF PipelineInv, HandledIsAccountedFor
    <2>2. \A f \in torn : \E i \in SentRows : outbox[i].kind # f.kind
        BY DEF PipelineInv, TornIsNoSurprise, TornByAnother
    <2> QED BY <2>1, <2>2 DEF AckedIsAccountedFor, Accounted
<1> QED BY <1>1, PipelineInvariant, PTL

(* Recorded twice by two confirmations, sent twice by the relay, delivered     *)
(* again by Kafka, handled on a session that another call commits and rolls    *)
(* back: the key of the fact lets one application through.                    *)
THEOREM EveryFactAppliedOnce == PipelineSpec => []AppliedOnce
BY PipelineInvariant, PTL DEF PipelineInv

(* Across the two services: credit given was paid for, credit taken back was  *)
(* returned to the buyer.                                                    *)
THEOREM MoneyBacksCredit == PipelineSpec => []CreditIsBackedByMoney
<1>1. PipelineInv => CreditIsBackedByMoney
    BY DEF PipelineInv, CreditHasItsFact, PaymentInv, FactsBackedByGateway,
           CreditIsBackedByMoney, InLedger
<1> QED BY <1>1, PipelineInvariant, PTL
=============================================================================
