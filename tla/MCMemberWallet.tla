--------------------------- MODULE MCMemberWallet ---------------------------
(***************************************************************************)
(* Small instances of MemberWallet.                                        *)
(***************************************************************************)
EXTENDS MemberWallet, TLC

AllSources == OrderSources \cup AdjustSources

NoFlash == [kind |-> "fixed", value |-> 0, stock |-> 0]
NoVoucher == [kind |-> "fixed", value |-> 0, maxDiscount |-> 0,
              minPurchase |-> 0, maxUses |-> 0, onePerUser |-> FALSE]

OneFlash == [kind |-> "percentage", value |-> 50, stock |-> 1]
OneVoucher == [kind |-> "fixed", value |-> 1, maxDiscount |-> 0,
               minPurchase |-> 2, maxUses |-> 2, onePerUser |-> TRUE]

OnePointDown == {-1}

OrderSymmetry == Permutations(Orders)
UserOrderSymmetry == Permutations(Orders) \cup Permutations(Users)
=============================================================================
