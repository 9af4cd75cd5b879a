---------------------------- MODULE SellerPromise ----------------------------
(***************************************************************************)
(* What the shop promises a reseller about an order.  At most one worker   *)
(* executes it at a time; it is settled once, by the worker that executes  *)
(* it; and a reseller is told nothing final but what it was settled as.    *)
(* A worker may be lost, and then it is not known what it did.             *)
(*                                                                         *)
(* An abstract specification: it knows no rows, leases, channels or        *)
(* callback queue.                                                         *)
(***************************************************************************)
CONSTANTS
    Orders,
    Workers

VARIABLES
    outcome,  \* "open", or what the order was settled as
    workers,  \* who executes the order
    told      \* final outcomes the reseller was told

vars == <<outcome, workers, told>>

Init ==
    /\ outcome = [o \in Orders |-> "open"]
    /\ workers = [o \in Orders |-> {}]
    /\ told = [o \in Orders |-> {}]

Begin(o, w) ==
    /\ outcome[o] = "open"
    /\ workers[o] = {}
    /\ workers' = [workers EXCEPT ![o] = {w}]
    /\ UNCHANGED <<outcome, told>>

Finish(o) ==
    /\ workers[o] # {}
    /\ workers' = [workers EXCEPT ![o] = {}]
    /\ \E r \in {"open", "success", "failed"} : outcome' = [outcome EXCEPT ![o] = r]
    /\ UNCHANGED told

Lose ==
    /\ workers' = [o \in Orders |-> {}]
    /\ UNCHANGED <<outcome, told>>

Tell(o) ==
    /\ outcome[o] # "open"
    /\ told' = [told EXCEPT ![o] = @ \cup {outcome[o]}]
    /\ UNCHANGED <<outcome, workers>>

Next ==
    \/ \E o \in Orders : Finish(o) \/ Tell(o) \/ \E w \in Workers : Begin(o, w)
    \/ Lose

Spec == Init /\ [][Next]_vars
=============================================================================
