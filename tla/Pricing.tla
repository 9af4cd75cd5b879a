------------------------------- MODULE Pricing -------------------------------
(***************************************************************************)
(* Price arithmetic of a checkout: the flash-sale price of                 *)
(* services/flash_sales.rs and the voucher discount of                     *)
(* routes/vouchers/discount.rs.  Both work on whole rupiah; Rust's i64     *)
(* division truncates, and on the non-negative values used here that is    *)
(* \div.                                                                   *)
(***************************************************************************)
EXTENDS Integers

Lesser(a, b) == IF a < b THEN a ELSE b
Greater(a, b) == IF a > b THEN a ELSE b

(* flash_price *)
FlashPrice(base, kind, value) ==
    IF kind = "percentage"
    THEN Greater(base - (base * value) \div 100, 0)
    ELSE Greater(base - value, 0)

(* compute_discount_amount, before the caps *)
RawDiscount(base, v) ==
    IF v.kind = "percentage" THEN (base * v.value) \div 100
                             ELSE Lesser(v.value, base)

CappedDiscount(base, v) ==
    IF v.maxDiscount > 0 THEN Lesser(RawDiscount(base, v), v.maxDiscount)
                         ELSE RawDiscount(base, v)

BoundedDiscount(base, v) ==
    Greater(Lesser(CappedDiscount(base, v), base - 1), 0)

(***************************************************************************)
(* The Ok results of compute_discount_amount: the base is at least 1, the  *)
(* minimum purchase is met, the value is in range, and above a base of 1   *)
(* the discount is not empty.                                              *)
(***************************************************************************)
DiscountApplies(base, v) ==
    /\ base >= 1
    /\ v.minPurchase > 0 => base >= v.minPurchase
    /\ v.value >= 1
    /\ v.kind = "percentage" => v.value <= 100
    /\ base > 1 => BoundedDiscount(base, v) >= 1

DiscountAmount(base, v) ==
    IF base = 1 THEN Lesser(CappedDiscount(base, v), 1)
                ELSE BoundedDiscount(base, v)

(* AppliedDiscount.final_price *)
DiscountedPrice(base, v) == Greater(base - DiscountAmount(base, v), 0)
=============================================================================
