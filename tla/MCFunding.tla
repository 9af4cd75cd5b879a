------------------------------ MODULE MCFunding ------------------------------
(***************************************************************************)
(* Small instances of Funding.                                             *)
(***************************************************************************)
EXTENDS Funding, TLC

AllSources == DepositSources \cup VoucherSources \cup GiveawaySources

OneEach == [v \in Vouchers |-> 1]
SomeFees == {-1, 0, 1, 2}

\* Two winners share 3, between 1 and 2 each; one winner may get nothing.
TwoPlans == {[winners |-> 2, pool |-> 3, min |-> 1, max |-> 2],
             [winners |-> 2, pool |-> 1, min |-> 0, max |-> 1]}

\* A fee one rupiah below zero, as a bad setting gives it, and one above.
SignedFees == {-1, 1}

DepositSymmetry == Permutations(Users) \cup Permutations(Deposits)
VoucherSymmetry == Permutations(Users) \cup Permutations(Vouchers)
=============================================================================
