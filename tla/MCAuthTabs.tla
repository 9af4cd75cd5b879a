----------------------------- MODULE MCAuthTabs -----------------------------
(* Instances of AuthTabs: two tabs, one of them the first to act.           *)
EXTENDS AuthTabs
=============================================================================
