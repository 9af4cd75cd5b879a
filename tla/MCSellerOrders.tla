--------------------------- MODULE MCSellerOrders ---------------------------
(* Small instances of SellerOrders: one order each of the kinds the code    *)
(* treats differently, of which the reseller wants a callback for the       *)
(* ordinary Digiflazz order.                                                *)
EXTENDS SellerOrders

CalledBack == Orders \ (Irs \cup Validations)
=============================================================================
