------------------------------- MODULE Custody -------------------------------
(***************************************************************************)
(* What the wallet promises a member.  Money enters or leaves a wallet     *)
(* only by a grant, and each grant is used once.  The price of an order is *)
(* in exactly one place: in its owner's wallet or in the custody of the    *)
(* shop, and it moves between the two whole, there and back alternately.   *)
(*                                                                         *)
(* An abstract specification: it knows no statuses, requests, providers or *)
(* ledger rows.                                                            *)
(***************************************************************************)
EXTENDS Integers

CONSTANTS
    Users,   \* members
    Orders,  \* orders they may buy
    Grants,  \* reasons for which money enters or leaves a wallet
    Nobody,  \* owner of an order not bought yet
    Limit    \* most a wallet can hold

VARIABLES
    wallet,  \* money a member can spend
    bill,    \* owner and price of a bought order
    held,    \* orders whose price is in the shop's custody
    grants   \* grants already used

vars == <<wallet, bill, held, grants>>

NoBill == [owner |-> Nobody, amount |-> 0]

Init ==
    /\ wallet = [u \in Users |-> 0]
    /\ bill = [o \in Orders |-> NoBill]
    /\ held = {}
    /\ grants = {}

Move(u, g, n) ==
    /\ g \notin grants
    /\ wallet' = [wallet EXCEPT ![u] = n]
    /\ grants' = grants \cup {g}
    /\ UNCHANGED <<bill, held>>

Buy(u, o, n) ==
    /\ bill[o] = NoBill
    /\ wallet' = [wallet EXCEPT ![u] = @ - n]
    /\ bill' = [bill EXCEPT ![o] = [owner |-> u, amount |-> n]]
    /\ held' = held \cup {o}
    /\ UNCHANGED grants

GiveBack(o) ==
    /\ o \in held
    /\ wallet' = [wallet EXCEPT ![bill[o].owner] = @ + bill[o].amount]
    /\ held' = held \ {o}
    /\ UNCHANGED <<bill, grants>>

TakeAgain(o) ==
    /\ bill[o] # NoBill
    /\ o \notin held
    /\ wallet[bill[o].owner] >= bill[o].amount
    /\ wallet' = [wallet EXCEPT ![bill[o].owner] = @ - bill[o].amount]
    /\ held' = held \cup {o}
    /\ UNCHANGED <<bill, grants>>

Next ==
    \/ \E u \in Users, g \in Grants, n \in 0 .. Limit : Move(u, g, n)
    \/ \E u \in Users, o \in Orders : \E n \in 1 .. wallet[u] : Buy(u, o, n)
    \/ \E o \in Orders : GiveBack(o) \/ TakeAgain(o)

Spec == Init /\ [][Next]_vars
=============================================================================
