---------------------------- MODULE GiveawaySplit ----------------------------
(***************************************************************************)
(* The loop of vouchers/giveaway.rs (draw) that deals the pool out.  It    *)
(* runs inside the request, with a database transaction and an advisory    *)
(* lock held: it must end, whatever totals were accepted.                  *)
(***************************************************************************)
EXTENDS Giveaway, Functions

VARIABLES plan, amounts, remainder, turn

splitVars == <<plan, amounts, remainder, turn>>

Seats == 0 .. (plan.winners - 1)

SplitInit ==
    /\ plan \in {p \in Plans : Accepted(p)}
    /\ amounts = [k \in Seats |-> plan.min]
    /\ remainder = plan.pool - plan.min * plan.winners
    /\ turn = 0

Capacity == plan.max - amounts[turn]

(* Mutant: the seat is filled up to the maximum, not by what it lacks. *)
TakeMaximum == IF remainder < plan.max THEN remainder ELSE plan.max

Take == IF remainder < Capacity THEN remainder ELSE Capacity

(* One turn of the loop; a full seat is skipped. *)
Deal ==
    /\ remainder > 0
    /\ amounts' = [amounts EXCEPT ![turn] = @ + Take]
    /\ remainder' = remainder - Take
    /\ turn' = (turn + 1) % plan.winners
    /\ UNCHANGED plan

(* The loop is sequential code: it keeps running until it is done. *)
SplitSpec == SplitInit /\ [][Deal]_splitVars /\ WF_splitVars(Deal)

-----------------------------------------------------------------------------
(***************************************************************************)
(* At every turn the pool is split between the seats and the remainder,    *)
(* each seat within its bounds, and at the end each seat holds the closed  *)
(* form Share; the check after the loop therefore never refuses.           *)
(***************************************************************************)
SplitOK ==
    /\ SumFunctionOnSet(amounts, Seats) + remainder = plan.pool
    /\ \A k \in Seats : amounts[k] \in plan.min .. plan.max
    /\ remainder = 0 => \A k \in Seats : amounts[k] = Share(plan, k + 1)

(* The loop ends: a winner with room is always reached again. *)
Terminates == <>(remainder = 0)
=============================================================================
