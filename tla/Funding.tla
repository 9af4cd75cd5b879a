------------------------------- MODULE Funding -------------------------------
(***************************************************************************)
(* How money enters a member's wallet (rust-api/src/routes): deposits that *)
(* an operator approves (deposits.rs), balance vouchers                    *)
(* (vouchers/redeem.rs, vouchers/admin.rs) and giveaways                   *)
(* (vouchers/giveaway.rs).                                                 *)
(*                                                                         *)
(* One action per handler; as in MemberWallet a handler commits in one     *)
(* step or leaves no trace.  claim, release and reject are one UPDATE      *)
(* each; their WHERE clause, the guard here, is evaluated on the row the   *)
(* UPDATE has locked.                                                      *)
(***************************************************************************)
EXTENDS LedgerBook, Giveaway, Functions

CONSTANTS
    Deposits,   \* ids of deposits
    Vouchers,   \* ids of vouchers of kind `balance`
    Giveaways,  \* ids of promo_giveaways
    Operators,  \* staff with permission approveDeposits or manageVouchers
    Owners,     \* operators of role owner
    Keys,       \* Idempotency-Key values
    Amounts,    \* amounts a member may deposit
    Fees,       \* total admin fee of a payment method and the settings
    Worth,      \* vouchers.amount
    None        \* SQL NULL

ASSUME FundingAssumption ==
    /\ Owners \subseteq Operators
    /\ Amounts \subseteq Nat
    /\ Fees \subseteq Int
    /\ Worth \in [Vouchers -> Nat]
    /\ None \notin Users \cup Operators

VARIABLES
    status,    \* deposits.status; "absent" before the insert
    request,   \* deposits.user_id, amount and admin_fee, fixed at insert
    assigned,  \* deposits.assigned_to
    decider,   \* deposits.processed_by
    redeemer,  \* vouchers.redeemed_by; None while is_redeemed is false
    archived,  \* vouchers.is_archived
    draws      \* promo_giveaways, its winners and its claim

depositVars == <<status, request, assigned, decider>>
voucherVars == <<redeemer, archived>>
vars == <<bookVars, depositVars, voucherVars, draws>>

Source(kind, subject) == [kind |-> kind, subject |-> subject]

DepositSources == [kind : {"deposit-approve"}, subject : Deposits]
VoucherSources == [kind : {"voucher"}, subject : Vouchers]
GiveawaySources == [kind : {"giveaway"}, subject : Giveaways \X Users]

ASSUME FundingSources ==
    DepositSources \cup VoucherSources \cup GiveawaySources \subseteq Sources

NoRequest == [user |-> None, amount |-> 0, fee |-> 0]
NoDraw == [actor |-> None, key |-> None, plan |-> None, share |-> None]

Draw == [actor : Operators, key : Keys, plan : Plans, share : [Users -> Nat]]

TypeOK ==
    /\ BookTypeOK
    /\ status \in [Deposits -> {"absent", "pending", "approved", "rejected"}]
    /\ request \in [Deposits -> [user   : Users \cup {None},
                                 amount : Nat,
                                 fee    : Nat]]
    /\ assigned \in [Deposits -> Operators \cup {None}]
    /\ decider \in [Deposits -> Operators \cup {None}]
    /\ redeemer \in [Vouchers -> Users \cup {None}]
    /\ archived \in [Vouchers -> BOOLEAN]
    /\ draws \in [Giveaways -> Draw \cup {NoDraw}]

Init ==
    /\ BookInit
    /\ status = [d \in Deposits |-> "absent"]
    /\ request = [d \in Deposits |-> NoRequest]
    /\ assigned = [d \in Deposits |-> None]
    /\ decider = [d \in Deposits |-> None]
    /\ redeemer = [v \in Vouchers |-> None]
    /\ archived = [v \in Vouchers |-> FALSE]
    /\ draws = [g \in Giveaways |-> NoDraw]

-----------------------------------------------------------------------------
(* Mutant: no CHECK (admin_fee >= 0). *)
RequestAnyFee(u, d, n, fee) ==
    /\ status[d] = "absent"
    /\ n - fee > 0
    /\ status' = [status EXCEPT ![d] = "pending"]
    /\ request' = [request EXCEPT ![d] = [user |-> u, amount |-> n, fee |-> fee]]
    /\ UNCHANGED <<bookVars, assigned, decider, voucherVars, draws>>

(***************************************************************************)
(* request_deposit: the fee of the method and the settings may not eat the *)
(* amount up, and the columns' CHECKs refuse a negative one.               *)
(***************************************************************************)
RequestDeposit(u, d, n, fee) ==
    /\ status[d] = "absent"
    /\ fee >= 0 /\ n - fee > 0
    /\ status' = [status EXCEPT ![d] = "pending"]
    /\ request' = [request EXCEPT ![d] = [user |-> u, amount |-> n, fee |-> fee]]
    /\ UNCHANGED <<bookVars, assigned, decider, voucherVars, draws>>

(* claim_deposit *)
ClaimDeposit(a, d) ==
    /\ status[d] = "pending"
    /\ assigned[d] \in {None, a}
    /\ assigned' = [assigned EXCEPT ![d] = a]
    /\ UNCHANGED <<bookVars, status, request, decider, voucherVars, draws>>

(* release_deposit_claim *)
ReleaseClaim(a, d) ==
    /\ status[d] = "pending"
    /\ a \in Owners \/ assigned[d] = a
    /\ assigned' = [assigned EXCEPT ![d] = None]
    /\ UNCHANGED <<bookVars, status, request, decider, voucherVars, draws>>

MayDecide(a, d) ==
    /\ status[d] = "pending"
    /\ a \in Owners \/ assigned[d] \in {None, a}

(* Mutant: the claim of another operator is not looked at. *)
RejectClaimed(a, d) ==
    /\ status[d] = "pending"
    /\ status' = [status EXCEPT ![d] = "rejected"]
    /\ decider' = [decider EXCEPT ![d] = a]
    /\ UNCHANGED <<bookVars, request, assigned, voucherVars, draws>>

(* reject_deposit *)
RejectDeposit(a, d) ==
    /\ MayDecide(a, d)
    /\ status' = [status EXCEPT ![d] = "rejected"]
    /\ decider' = [decider EXCEPT ![d] = a]
    /\ UNCHANGED <<bookVars, request, assigned, voucherVars, draws>>

(* approve_deposit *)
NetAmount(d) == request[d].amount - request[d].fee

(* Mutant: the fee is not deducted. *)
ApproveInFull(a, d) ==
    /\ MayDecide(a, d)
    /\ Post(request[d].user, Source("deposit-approve", d), 1, request[d].amount)
    /\ status' = [status EXCEPT ![d] = "approved"]
    /\ decider' = [decider EXCEPT ![d] = a]
    /\ UNCHANGED <<request, assigned, voucherVars, draws>>

ApproveDeposit(a, d) ==
    /\ MayDecide(a, d)
    /\ Post(request[d].user, Source("deposit-approve", d), 1, NetAmount(d))
    /\ status' = [status EXCEPT ![d] = "approved"]
    /\ decider' = [decider EXCEPT ![d] = a]
    /\ UNCHANGED <<request, assigned, voucherVars, draws>>

-----------------------------------------------------------------------------
(* redeem *)
Redeem(u, v) ==
    /\ redeemer[v] = None
    /\ ~archived[v]
    /\ Post(u, Source("voucher", v), 1, Worth[v])
    /\ redeemer' = [redeemer EXCEPT ![v] = u]
    /\ UNCHANGED <<depositVars, archived, draws>>

(* archive: a redeemed voucher too. *)
ArchiveVoucher(v) ==
    /\ ~archived[v]
    /\ archived' = [archived EXCEPT ![v] = TRUE]
    /\ UNCHANGED <<bookVars, depositVars, redeemer, draws>>

(* Mutant: a redeemed voucher comes back. *)
RestoreRedeemed(v) ==
    /\ archived[v]
    /\ archived' = [archived EXCEPT ![v] = FALSE]
    /\ redeemer' = [redeemer EXCEPT ![v] = None]
    /\ UNCHANGED <<bookVars, depositVars, draws>>

(* restore *)
RestoreVoucher(v) ==
    /\ archived[v]
    /\ redeemer[v] = None
    /\ archived' = [archived EXCEPT ![v] = FALSE]
    /\ UNCHANGED <<bookVars, depositVars, redeemer, draws>>

-----------------------------------------------------------------------------
(***************************************************************************)
(* giveaway_execute.  An advisory lock on (actor, key) serialises repeated *)
(* requests; a key that has been used replays or conflicts.  seat is the   *)
(* shuffled list of winners; the candidates were read on another           *)
(* connection, before any of their rows is locked, so it may be any users. *)
(***************************************************************************)
SharesOf(p, seat) ==
    [u \in Users |->
        IF \E k \in DOMAIN seat : seat[k] = u
        THEN Share(p, CHOOSE k \in DOMAIN seat : seat[k] = u)
        ELSE 0]

Seatings(n) ==
    {seat \in [1 .. n -> Users] : \A j, k \in 1 .. n : seat[j] = seat[k] => j = k}

KeyUnused(a, key) ==
    \A g \in Giveaways : draws[g] = NoDraw \/ <<draws[g].actor, draws[g].key>> # <<a, key>>

RunGiveaway(a, key, g, p, seat) ==
    /\ draws[g] = NoDraw
    /\ Accepted(p)
    /\ KeyUnused(a, key)
    /\ PostAll([u \in Users |-> Source("giveaway", <<g, u>>)], SharesOf(p, seat))
    /\ draws' = [draws EXCEPT ![g] = [actor |-> a, key |-> key, plan |-> p,
                                      share |-> SharesOf(p, seat)]]
    /\ UNCHANGED <<depositVars, voucherVars>>

-----------------------------------------------------------------------------
Next ==
    \/ \E u \in Users, d \in Deposits, n \in Amounts, fee \in Fees :
          RequestDeposit(u, d, n, fee)
    \/ \E a \in Operators, d \in Deposits : ClaimDeposit(a, d)
    \/ \E a \in Operators, d \in Deposits : ReleaseClaim(a, d)
    \/ \E a \in Operators, d \in Deposits : RejectDeposit(a, d)
    \/ \E a \in Operators, d \in Deposits : ApproveDeposit(a, d)
    \/ \E u \in Users, v \in Vouchers : Redeem(u, v)
    \/ \E v \in Vouchers : ArchiveVoucher(v)
    \/ \E v \in Vouchers : RestoreVoucher(v)
    \/ \E a \in Operators, key \in Keys, g \in Giveaways, p \in Plans :
          \E seat \in Seatings(p.winners) : RunGiveaway(a, key, g, p, seat)

Spec == Init /\ [][Next]_vars

-----------------------------------------------------------------------------
(***************************************************************************)
(* The ledger and the business tables agree: a member's book holds exactly *)
(* one credit for every approved deposit (net of its fee), redeemed        *)
(* voucher and positive giveaway share of theirs, and nothing else.        *)
(* Approvals, redemptions and giveaways of any number of operators may     *)
(* race for the same row.                                                  *)
(***************************************************************************)
Credit(source, n) == [source |-> source, direction |-> 1, amount |-> n]

DueDeposits(u) ==
    {Credit(Source("deposit-approve", d), NetAmount(d)) :
        d \in {e \in Deposits : status[e] = "approved" /\ request[e].user = u}}

DueVouchers(u) ==
    {Credit(Source("voucher", v), Worth[v]) : v \in {w \in Vouchers : redeemer[w] = u}}

DueShares(u) ==
    {Credit(Source("giveaway", <<g, u>>), draws[g].share[u]) :
        g \in {h \in Giveaways : draws[h] # NoDraw /\ draws[h].share[u] > 0}}

Due(u) == DueDeposits(u) \cup DueVouchers(u) \cup DueShares(u)

Entry(u, i) ==
    [source    |-> ledger[u][i].source,
     direction |-> ledger[u][i].direction,
     amount    |-> ledger[u][i].amount]

Paid(u) == {Entry(u, i) : i \in DOMAIN ledger[u]}

PaidOnce ==
    \A u \in Users : \A i, j \in DOMAIN ledger[u] :
        ledger[u][i].source = ledger[u][j].source => i = j

CreditsMatchDecisions == PaidOnce /\ \A u \in Users : Paid(u) = Due(u)

(***************************************************************************)
(* A claimed deposit is left to its operator: only that operator or an     *)
(* owner decides it, and no other operator takes the claim over without a  *)
(* release in between.                                                     *)
(***************************************************************************)
ClaimRespected ==
    [][\A d \in Deposits :
          status[d] = "pending" /\ assigned[d] # None =>
              /\ status'[d] # "pending" =>
                    decider'[d] \in {assigned[d]} \cup Owners
              /\ assigned'[d] \in {assigned[d], None}]_vars

(***************************************************************************)
(* What has been decided stays decided: a processed deposit keeps its      *)
(* status, its claim and the name of its decider, and a redeemed voucher   *)
(* its redeemer, also through archive and restore.                         *)
(***************************************************************************)
DecisionsFinal ==
    [][/\ \A d \in Deposits :
             status[d] \in {"approved", "rejected"} =>
                 /\ status'[d] = status[d]
                 /\ assigned'[d] = assigned[d]
                 /\ decider'[d] = decider[d]
       /\ \A v \in Vouchers :
             redeemer[v] # None =>
                 /\ redeemer'[v] = redeemer[v]
                 /\ archived[v] => archived'[v]]_vars

(***************************************************************************)
(* A giveaway pays out its pool, no more and no less, every winner within  *)
(* the bounds of the request, and a repeated request never draws again.    *)
(***************************************************************************)
PaidBy(g, u) ==
    SumFunctionOnSet([i \in DOMAIN ledger[u] |-> ledger[u][i].amount],
                     {i \in DOMAIN ledger[u] :
                         ledger[u][i].source = Source("giveaway", <<g, u>>)})

Recipients(g) == {u \in Users : PaidBy(g, u) > 0}

GiveawayPaysItsPool ==
    \A g \in Giveaways : draws[g] # NoDraw =>
        /\ SumFunctionOnSet([u \in Users |-> PaidBy(g, u)], Recipients(g))
             = draws[g].plan.pool
        /\ \A u \in Users :
              PaidBy(g, u) \in {0} \cup draws[g].plan.min .. draws[g].plan.max
        /\ \A h \in Giveaways \ {g} :
              draws[h] # NoDraw => <<draws[h].actor, draws[h].key>>
                                     # <<draws[g].actor, draws[g].key>>

=============================================================================
