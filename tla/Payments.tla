------------------------------- MODULE Payments -------------------------------
(***************************************************************************)
(* The payments service: PaymentService over its repository                 *)
(* (payments/application/service.py, domain/model.py,                       *)
(* adapter/outbound/persistence/repository.py).                             *)
(*                                                                          *)
(* A request handler reads the payment, awaits the gateway and then saves   *)
(* the payment it read, changed, together with an outbox row, in one        *)
(* commit.  Other handlers, of this process or of another instance of the   *)
(* service, run while it awaits.  The save looks at no status: what the     *)
(* handler read before the await is what it writes after it, except where   *)
(* the SELECT of the save found the same value already.                     *)
(*                                                                          *)
(* The id of an outbox row is drawn by the handler before the save, from    *)
(* the clock (UUIDv7).  The clocks of the instances are taken to agree, so  *)
(* ids grow in the order in which they are drawn; rows appear in the order  *)
(* of the commits, which may be another one.                                *)
(*                                                                          *)
(* The gateway is outside the repository.  It is modelled by what it has    *)
(* done with the money of a payment; the stub in the code approves always,  *)
(* a real one may also refuse or not answer.                                *)
(***************************************************************************)
EXTENDS Naturals

CONSTANTS
    Orders,     \* order ids; each is one payment
    Handlers    \* HTTP requests to confirm or refund, each handled once

VARIABLES
    payment,    \* the payment row of each order, or NoRow
    outbox,     \* the committed outbox rows: the fact of each id
    lastId,     \* the last row id drawn
    gateway,    \* what the gateway has done for each order
    handler     \* where each request is, and the payment it has read

paymentVars == <<payment, outbox, lastId, gateway, handler>>

Statuses == {"pending", "confirmed", "failed", "refunded"}

(* provider: whether provider_key is set.                                    *)
Row == [status : Statuses, provider : BOOLEAN]
NoRow == [status |-> "none", provider |-> FALSE]
NewRow == [status |-> "pending", provider |-> FALSE]

(* The outbox row of an order: the topic it goes to stands for the payload.   *)
Fact == [order : Orders, kind : {"purchase", "refund"}]

PaymentTypeOK ==
    /\ payment \in [Orders -> Row \cup {NoRow}]
    /\ \A o \in Orders :
        payment[o].provider <=> payment[o].status \in {"confirmed", "refunded"}
    /\ lastId \in Nat
    /\ DOMAIN outbox \subseteq 1..lastId /\ outbox \in [DOMAIN outbox -> Fact]
    /\ gateway \in [Orders -> {"unpaid", "approved", "cancelled"}]
    /\ handler \in
        [Handlers ->
            [at : {"new", "confirm_sent", "confirm_answered", "confirm_saving",
                   "refund_sent", "refund_answered", "refund_saving", "ended"},
             order : Orders, read : Row \cup {NoRow}, id : Nat,
             found : Row \cup {NoRow}]]

PaymentInit ==
    /\ payment = [o \in Orders |-> NoRow]
    /\ outbox = <<>> /\ lastId = 0
    /\ gateway = [o \in Orders |-> "unpaid"]
    /\ handler \in [Handlers -> [at : {"new"}, order : Orders, read : {NoRow}, id : {0},
                               found : {NoRow}]]

-----------------------------------------------------------------------------

(* Payment.confirm: from pending; a second confirmation changes nothing.     *)
CanConfirm(row) == row.status \in {"pending", "confirmed"}
Confirmed(row) ==
    IF row.status = "confirmed" THEN row
    ELSE [status |-> "confirmed", provider |-> TRUE]

(* Payment.refund: from confirmed; a second refund changes nothing.          *)
CanRefund(row) == row.status \in {"confirmed", "refunded"}
Refunded(row) == [row EXCEPT !.status = "refunded"]

(* prepare: record the order before the payment window opens.  order_id is   *)
(* unique, so a second prepare fails.                                        *)
Prepare(o) ==
    /\ payment[o] = NoRow
    /\ payment' = [payment EXCEPT ![o] = NewRow]
    /\ UNCHANGED <<outbox, lastId, gateway, handler>>

(* _require, and the request to the gateway goes out.                        *)
StartConfirm(h) ==
    LET o == handler[h].order IN
    /\ handler[h].at = "new"
    /\ payment[o] # NoRow
    /\ handler' = [handler EXCEPT ![h].at = "confirm_sent", ![h].read = payment[o]]
    /\ UNCHANGED <<payment, outbox, lastId, gateway>>

(* The gateway approves.  It takes the money once.                           *)
GatewayApproves(h) ==
    LET o == handler[h].order IN
    /\ handler[h].at = "confirm_sent"
    /\ gateway' = [gateway EXCEPT ![o] = IF @ = "unpaid" THEN "approved" ELSE @]
    /\ handler' = [handler EXCEPT ![h].at = "confirm_answered"]
    /\ UNCHANGED <<payment, outbox, lastId>>

(* The domain has agreed to the transition.  The message is built, and with   *)
(* it its id is drawn; save_with_outbox reads the row again.                  *)
Build(h, label) ==
    /\ lastId' = lastId + 1
    /\ handler' = [handler EXCEPT ![h].at = label, ![h].id = lastId + 1,
                                  ![h].found = payment[handler[h].order]]
    /\ UNCHANGED <<payment, outbox, gateway>>

(* The UPDATE names only the columns that differ from what the SELECT found.  *)
WriteRow(h, row) ==
    payment' = [payment EXCEPT ![handler[h].order] =
                    IF handler[h].found = row THEN @ ELSE row]

(* Fault: the status is committed and the outbox row is left for later.      *)
SaveWithoutOutbox(h, row, kind) ==
    /\ WriteRow(h, row)
    /\ handler' = [handler EXCEPT ![h].at = "ended"]
    /\ UNCHANGED <<outbox, lastId, gateway>>
(* save_with_outbox: the row as the handler has it, and the fact under its    *)
(* id, in one commit.                                                        *)
SaveWithOutbox(h, row, kind) ==
    /\ WriteRow(h, row)
    /\ outbox' = [i \in DOMAIN outbox \cup {handler[h].id} |->
                    IF i = handler[h].id THEN [order |-> handler[h].order, kind |-> kind]
                    ELSE outbox[i]]
    /\ handler' = [handler EXCEPT ![h].at = "ended"]
    /\ UNCHANGED <<lastId, gateway>>

BuildConfirm(h) ==
    /\ handler[h].at = "confirm_answered"
    /\ CanConfirm(handler[h].read)
    /\ Build(h, "confirm_saving")
FinishConfirm(h) ==
    /\ handler[h].at = "confirm_saving"
    /\ SaveWithOutbox(h, Confirmed(handler[h].read), "purchase")

HasApproval(o) == payment[o].provider

(* Fault: our record first, the gateway later.                               *)
StartRefundRecordFirst(h) ==
    LET o == handler[h].order IN
    /\ handler[h].at = "new"
    /\ payment[o] # NoRow
    /\ HasApproval(o)
    /\ handler' = [handler EXCEPT ![h].at = "refund_answered",
                                  ![h].read = payment[o]]
    /\ UNCHANGED <<payment, outbox, lastId, gateway>>
(* refund reads the payment, refuses one that was never approved, and calls  *)
(* the gateway before it touches the record.                                 *)
StartRefund(h) ==
    LET o == handler[h].order IN
    /\ handler[h].at = "new"
    /\ payment[o] # NoRow
    /\ HasApproval(o)
    /\ handler' = [handler EXCEPT ![h].at = "refund_sent", ![h].read = payment[o]]
    /\ UNCHANGED <<payment, outbox, lastId, gateway>>

GatewayCancels(h) ==
    /\ handler[h].at = "refund_sent"
    /\ gateway' = [gateway EXCEPT ![handler[h].order] = "cancelled"]
    /\ handler' = [handler EXCEPT ![h].at = "refund_answered"]
    /\ UNCHANGED <<payment, outbox, lastId>>

BuildRefund(h) ==
    /\ handler[h].at = "refund_answered"
    /\ CanRefund(handler[h].read)
    /\ Build(h, "refund_saving")
FinishRefund(h) ==
    /\ handler[h].at = "refund_saving"
    /\ SaveWithOutbox(h, Refunded(handler[h].read), "refund")

(* The request ends with nothing saved: the order is unknown or was never    *)
(* approved, the gateway refuses or does not answer, the approved amount is  *)
(* not the recorded one, the domain refuses the transition, or the process   *)
(* dies.  Whatever the gateway has done by then stays done.                  *)
EndUnsaved(h) ==
    /\ handler[h].at # "ended"
    /\ handler' = [handler EXCEPT ![h].at = "ended"]
    /\ UNCHANGED <<payment, outbox, lastId, gateway>>

PaymentNext ==
    \/ \E o \in Orders : Prepare(o)
    \/ \E h \in Handlers :
        \/ StartConfirm(h)
        \/ GatewayApproves(h)
        \/ BuildConfirm(h)
        \/ FinishConfirm(h)
        \/ StartRefund(h)
        \/ GatewayCancels(h)
        \/ BuildRefund(h)
        \/ FinishRefund(h)
        \/ EndUnsaved(h)

PaymentSpec == PaymentInit /\ [][PaymentNext]_paymentVars

-----------------------------------------------------------------------------

Facts(o, kind) == {i \in DOMAIN outbox : outbox[i] = [order |-> o, kind |-> kind]}

(* A payment is never confirmed, or refunded, without the outbox row that     *)
(* tells the wallet, however the handlers interleave and die: the one commit  *)
(* of save_with_outbox.                                                      *)
StatusHasItsFact ==
    \A o \in Orders :
        /\ payment[o].status = "confirmed" => Facts(o, "purchase") # {}
        /\ payment[o].status = "refunded" => Facts(o, "refund") # {}

(* The outbox never tells the wallet to take credit back before it has told   *)
(* it to give it: a refund row comes with a purchase row of its payment that  *)
(* has a smaller id.                                                         *)
RefundFactFollowsPurchase ==
    \A o \in Orders : \A j \in Facts(o, "refund") :
        \E i \in Facts(o, "purchase") : i < j

(* What the outbox says happened to the money did happen at the gateway: a    *)
(* purchase was approved, a refund was cancelled (service.refund calls the    *)
(* gateway first).                                                           *)
FactsBackedByGateway ==
    \A o \in Orders :
        /\ Facts(o, "purchase") # {} => gateway[o] # "unpaid"
        /\ Facts(o, "refund") # {} => gateway[o] = "cancelled"

(* domain/model.py:23: failed and refunded are both terminal.                *)
RefundedIsFinal ==
    [][\A o \in Orders : payment[o].status = "refunded"
                            => payment'[o].status = "refunded"]_paymentVars
=============================================================================
