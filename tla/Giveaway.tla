------------------------------ MODULE Giveaway ------------------------------
(***************************************************************************)
(* The division of a giveaway's pool among its winners, as                 *)
(* vouchers/giveaway.rs (draw) accepts and computes it.                    *)
(***************************************************************************)
EXTENDS Integers

Plan == [winners : Nat, pool : Nat, min : Nat, max : Nat]

CONSTANT Plans  \* giveaway requests

ASSUME PlansAssumption == Plans \subseteq Plan

(* Mutant: the upper bound is not compared with the pool. *)
AcceptedBelow(p) ==
    /\ p.winners > 0 /\ p.pool > 0
    /\ p.max >= p.min
    /\ p.min * p.winners <= p.pool

(* The request is accepted: the bounds leave room for the whole pool. *)
Accepted(p) ==
    /\ p.winners > 0 /\ p.pool > 0
    /\ p.max >= p.min
    /\ p.min * p.winners <= p.pool
    /\ p.pool <= p.max * p.winners

(***************************************************************************)
(* What the winner at position k (from 1) receives: the minimum, and of    *)
(* the rest as much as the winners before have left and the maximum        *)
(* allows.  GiveawaySplit checks the loop of the code against it.          *)
(***************************************************************************)
LeftFor(p, k) == p.pool - p.min * p.winners - (k - 1) * (p.max - p.min)

(* Mutant: the remainder is shared as if the minimum were not paid yet. *)
ShareOfPool(p, k) ==
    p.min + (IF LeftFor(p, k) + p.min <= 0 THEN 0
             ELSE IF LeftFor(p, k) + p.min < p.max - p.min
                  THEN LeftFor(p, k) + p.min
             ELSE p.max - p.min)

Share(p, k) ==
    p.min + (IF LeftFor(p, k) <= 0 THEN 0
             ELSE IF LeftFor(p, k) < p.max - p.min THEN LeftFor(p, k)
             ELSE p.max - p.min)
=============================================================================
