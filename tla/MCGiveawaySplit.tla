--------------------------- MODULE MCGiveawaySplit ---------------------------
(***************************************************************************)
(* Every request with up to four winners and small totals, the ones the    *)
(* code refuses included.                                                  *)
(***************************************************************************)
EXTENDS GiveawaySplit

SmallPlans == [winners : 0 .. 4, pool : 0 .. 9, min : 0 .. 3, max : 0 .. 4]
=============================================================================
