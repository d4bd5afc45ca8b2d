---------------------------- MODULE MCWalletLedger ----------------------------
(***************************************************************************)
(* Instances of WalletLedger.                                               *)
(*                                                                          *)
(* Api: an administrator's grant and a superchat that carry no key, a       *)
(* purchase, and a superchat that is retried with its key while the first   *)
(* attempt may still run.  Both superchats are covered only once the grant  *)
(* and the purchase are in.  Each call has its own session, as HTTP         *)
(* requests have.                                                           *)
(*                                                                          *)
(* Worker: one purchase and one refund, the two subscribers of              *)
(* wallet-worker, on the single session the worker creates.                 *)
(***************************************************************************)
EXTENDS WalletLedger, TLC

CONSTANTS u1, u2, grant, buy, gift, tip, tipAgain, giveBack,
          kBuy, kTip, kBack, none, worker

Req(u, d, k, g) == [user |-> u, delta |-> d, key |-> k, donation |-> g]

ApiUsers == {u1, u2}
ApiRequests ==
    grant    :> Req(u1, 1, none, FALSE) @@
    buy      :> Req(u1, 1, kBuy, FALSE) @@
    gift     :> Req(u1, -1, none, TRUE) @@
    tip      :> Req(u1, -1, kTip, TRUE) @@
    tipAgain :> Req(u1, -1, kTip, TRUE)
ApiCalls == DOMAIN ApiRequests
ApiSession == [c \in ApiCalls |-> c]

WorkerRequests ==
    buy      :> Req(u1, 1, kBuy, FALSE) @@
    giveBack :> Req(u2, -1, kBack, FALSE)
WorkerCalls == DOMAIN WorkerRequests
WorkerSession == [c \in WorkerCalls |-> worker]
WorkerSessions == {worker}
=============================================================================
