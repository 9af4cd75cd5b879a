---------------------------- MODULE MemberWallet ----------------------------
(***************************************************************************)
(* Member orders and the money they move (rust-api/src/routes):            *)
(* transactions.rs, open_api/create.rs, webhooks/receive.rs,               *)
(* users/balance.rs and rewards/points.rs.                                 *)
(*                                                                         *)
(* One action per handler.  A handler is one SQL transaction that locks    *)
(* the rows it decides on, so a commit is one step here; every early       *)
(* return, constraint violation or failed commit rolls back and is a       *)
(* stuttering step.  A retry, a duplicate or a replayed request is the     *)
(* same action taken again.                                                *)
(*                                                                         *)
(* Write-only rows (audits, status events, provider jobs and outbox) and   *)
(* the text of replies are left out: no handler reads them back.           *)
(***************************************************************************)
EXTENDS LedgerBook, Pricing, Functions

CONSTANTS
    Orders,        \* ids of financial_transactions
    Staff,         \* operators
    Keys,          \* Idempotency-Key values
    NoKey,         \* header absent
    Providers,     \* digiflazz, tokovoucher
    None,          \* SQL NULL or JSON key absent
    Prices,        \* price of a product at the member's level
    Adjustments,   \* amounts an operator adds or subtracts
    PointChanges,  \* signed point changes an operator makes
    Flash,         \* the active flash offer: [kind, value, stock]
    Voucher,       \* the discount voucher: see Pricing, maxUses, onePerUser
    PointUnit,     \* 10_000: rupiah per point unit
    PointsPer,     \* setting points_per_transaction
    SequenceLimit, \* 10^refIdSequenceDigits
    MaxPoints      \* bound: users.points

Statuses == {"pending", "processing", "success", "failed"}

ASSUME PriceAssumption ==
    /\ Prices \subseteq Nat
    /\ Adjustments \subseteq Nat
    /\ PointChanges \subseteq Int
    /\ PointUnit \in Nat \ {0}
    /\ PointsPer \in Nat \ {0}
    /\ SequenceLimit \in Nat
    /\ MaxPoints \in Nat
    /\ Flash \in [kind : {"percentage", "fixed"}, value : Nat, stock : Nat]
    /\ Voucher \in [kind : {"percentage", "fixed"}, value : Nat,
                    maxDiscount : Nat, minPurchase : Nat,
                    maxUses : Nat, onePerUser : BOOLEAN]

VARIABLES
    status,    \* financial_transactions.status; "absent" before the insert
    refunded,  \* financial_transactions.refunded
    header,    \* user_id, amount and snapshot.provider, fixed at insert
    effects,   \* financial_checkout_effects rows of an order
    event,     \* webhook_events.status of (provider, reference_id)
    awards,    \* point_awards.points of `transaction-success:{id}`; 0 = no row
    points,    \* users.points
    claimed,   \* committed financial_requests keys
    sold,      \* content_flash_products.sold_count
    used,      \* vouchers.used_count
    redeemers, \* vouchers.redeemed_by_users
    sequence   \* reference_counters.sequence of the day

orderVars == <<status, refunded, header, effects, event>>
pointVars == <<awards, points>>
stockVars == <<sold, used, redeemers, sequence>>
vars == <<bookVars, orderVars, pointVars, stockVars, claimed>>

Source(kind, subject, detail) ==
    [kind |-> kind, subject |-> subject, detail |-> detail]

OrderSources ==
    [kind    : {"transaction", "open-api", "legacy", "transaction-refund",
                "webhook-refund", "webhook-correction"},
     subject : Orders, detail : {<<>>}]
    \cup
    [kind    : {"transaction-status"},
     subject : Orders, detail : Statuses \X Statuses]

AdjustSources ==
    [kind : {"balance-adjust"}, subject : Staff \X Keys, detail : {<<>>}]

ASSUME SourceAssumption == OrderSources \cup AdjustSources \subseteq Sources

ASSUME NobodyAssumption == None \notin Users

NoHeader == [owner |-> None, amount |-> 0, provider |-> None]

TypeOK ==
    /\ BookTypeOK
    /\ status \in [Orders -> Statuses \cup {"absent"}]
    /\ refunded \in [Orders -> BOOLEAN]
    /\ header \in [Orders -> [owner    : Users \cup {None},
                              amount   : Nat,
                              provider : Providers \cup {None}]]
    /\ effects \in [Orders -> SUBSET {"flash_sale", "voucher"}]
    /\ event \in [Orders -> {"none", "success", "failed"}]
    /\ awards \in [Orders -> Nat]
    /\ points \in [Users -> Nat]
    /\ claimed \subseteq {"member-checkout", "open-api-order",
                          "transaction-refund", "transaction-status"}
                         \X (Users \cup Staff) \X Keys
    /\ sold \in Nat
    /\ used \in Nat
    /\ redeemers \subseteq Users
    /\ sequence \in Nat

Init ==
    /\ BookInit
    /\ status = [o \in Orders |-> "absent"]
    /\ refunded = [o \in Orders |-> FALSE]
    /\ header = [o \in Orders |-> NoHeader]
    /\ effects = [o \in Orders |-> {}]
    /\ event = [o \in Orders |-> "none"]
    /\ awards = [o \in Orders |-> 0]
    /\ points = [u \in Users |-> 0]
    /\ claimed = {}
    /\ sold = 0
    /\ used = 0
    /\ redeemers = {}
    /\ sequence = 0

-----------------------------------------------------------------------------
(***************************************************************************)
(* Idempotency.  The handler selects its financial_requests row and, when  *)
(* there is one, replays the stored reply or reports a conflict: in both   *)
(* cases nothing changes.  Otherwise it inserts the row in the same        *)
(* transaction as the effect.                                              *)
(***************************************************************************)
Claim(operation, actor, key) ==
    IF key = NoKey
    THEN UNCHANGED claimed
    ELSE /\ <<operation, actor, key>> \notin claimed
         /\ claimed' = claimed \cup {<<operation, actor, key>>}

(* INSERT INTO financial_transactions: a fresh id, status pending. *)
InsertOrder(o, u, n, p, marks) ==
    /\ status[o] = "absent"
    /\ status' = [status EXCEPT ![o] = "pending"]
    /\ header' = [header EXCEPT ![o] = [owner |-> u, amount |-> n, provider |-> p]]
    /\ effects' = [effects EXCEPT ![o] = marks]
    /\ UNCHANGED <<refunded, event>>

(***************************************************************************)
(* create_transaction.  The flash unit is taken if one is left (otherwise  *)
(* the normal price stands), the voucher is consumed or the request fails, *)
(* and the daily reference counter must stay below its digits.             *)
(***************************************************************************)
FlashTaken(wantFlash) == wantFlash /\ sold < Flash.stock

OfferPrice(base, wantFlash) ==
    IF FlashTaken(wantFlash) THEN FlashPrice(base, Flash.kind, Flash.value)
                             ELSE base

VoucherUsable(u, price) ==
    /\ used < Voucher.maxUses
    /\ Voucher.onePerUser => u \notin redeemers
    /\ DiscountApplies(price, Voucher)

FinalPrice(base, wantFlash, wantVoucher) ==
    IF wantVoucher THEN DiscountedPrice(OfferPrice(base, wantFlash), Voucher)
                   ELSE OfferPrice(base, wantFlash)

(* Mutant: redeemed_by_users is not extended. *)
ForgetRedeemer(u, base, wantFlash, wantVoucher) ==
    /\ sold' = IF FlashTaken(wantFlash) THEN sold + 1 ELSE sold
    /\ wantVoucher => VoucherUsable(u, OfferPrice(base, wantFlash))
    /\ used' = IF wantVoucher THEN used + 1 ELSE used
    /\ UNCHANGED redeemers

ConsumeDiscounts(u, base, wantFlash, wantVoucher) ==
    /\ sold' = IF FlashTaken(wantFlash) THEN sold + 1 ELSE sold
    /\ wantVoucher => VoucherUsable(u, OfferPrice(base, wantFlash))
    /\ used' = IF wantVoucher THEN used + 1 ELSE used
    /\ redeemers' = IF wantVoucher /\ Voucher.onePerUser
                    THEN redeemers \cup {u} ELSE redeemers

Checkout(u, key, o, base, wantFlash, wantVoucher) ==
    LET price == FinalPrice(base, wantFlash, wantVoucher)
        marks == (IF FlashTaken(wantFlash) THEN {"flash_sale"} ELSE {})
                 \cup (IF wantVoucher THEN {"voucher"} ELSE {})
    IN  /\ base > 0
        /\ Claim("member-checkout", u, key)
        /\ ConsumeDiscounts(u, base, wantFlash, wantVoucher)
        /\ balance[u] >= price
        /\ sequence + 1 < SequenceLimit
        /\ sequence' = sequence + 1
        /\ InsertOrder(o, u, price, None, marks)
        /\ Post(u, Source("transaction", o, <<>>), -1, price)
        /\ UNCHANGED pointVars

(***************************************************************************)
(* A new WIB day starts a new reference_counters row.                      *)
(***************************************************************************)
NewDay ==
    /\ sequence > 0
    /\ sequence' = 0
    /\ UNCHANGED <<bookVars, orderVars, pointVars, claimed, sold, used, redeemers>>

(***************************************************************************)
(* open_api::create_transaction: the partner's ref_id is both the          *)
(* idempotency key and UNIQUE(user_id, partner_ref).                       *)
(***************************************************************************)
OpenApiOrder(u, key, o, base) ==
    /\ base > 0
    /\ Claim("open-api-order", u, key)
    /\ balance[u] >= base
    /\ InsertOrder(o, u, base, None, {})
    /\ Post(u, Source("open-api", o, <<>>), -1, base)
    /\ UNCHANGED <<pointVars, stockVars>>

(***************************************************************************)
(* External writer: an order row whose snapshot names its provider, as     *)
(* receive.rs expects.  The checkouts above write no such key.             *)
(***************************************************************************)
LegacyOrder(u, o, base, p) ==
    /\ base > 0
    /\ balance[u] >= base
    /\ InsertOrder(o, u, base, p, {})
    /\ Post(u, Source("legacy", o, <<>>), -1, base)
    /\ UNCHANGED <<pointVars, stockVars, claimed>>

-----------------------------------------------------------------------------
(* refund_transaction: the key is mandatory. *)
Refund(a, key, o) ==
    /\ key # NoKey
    /\ Claim("transaction-refund", a, key)
    /\ status[o] # "absent"
    /\ ~refunded[o]
    /\ header[o].amount > 0
    /\ status[o] # "success"
    /\ Post(header[o].owner, Source("transaction-refund", o, <<>>), 1, header[o].amount)
    /\ status' = [status EXCEPT ![o] = "failed"]
    /\ refunded' = [refunded EXCEPT ![o] = TRUE]
    /\ UNCHANGED <<header, effects, event, pointVars, stockVars>>

(***************************************************************************)
(* update_status with apply_transition_plan.                               *)
(***************************************************************************)
(* Mutants: `refunded` not looked at; only a success charges again. *)
ReturnsAgain(o, next) == next = "failed"
RechargesOnSuccess(o, next) == next = "success" /\ refunded[o]

Returns(o, next) == next = "failed" /\ ~refunded[o]
Recharges(o, next) == next # "failed" /\ refunded[o]

AwardPoints(n) == (n \div PointUnit) * PointsPer

MoveMoney(o, next) ==
    LET source == Source("transaction-status", o, <<status[o], next>>)
    IN  \/ /\ Returns(o, next)
           /\ Post(header[o].owner, source, 1, header[o].amount)
           /\ refunded' = [refunded EXCEPT ![o] = TRUE]
        \/ /\ Recharges(o, next)
           /\ Post(header[o].owner, source, -1, header[o].amount)
           /\ refunded' = [refunded EXCEPT ![o] = FALSE]
        \/ /\ ~Returns(o, next) /\ ~Recharges(o, next)
           /\ UNCHANGED <<bookVars, refunded>>

(* Mutant: the award is recorded, the points are not added. *)
RecordOnly(o, u) ==
    /\ awards' = [awards EXCEPT ![o] = AwardPoints(header[o].amount)]
    /\ UNCHANGED points

GivePoints(o, u) ==
    /\ points[u] + AwardPoints(header[o].amount) <= MaxPoints
    /\ points' = [points EXCEPT ![u] = @ + AwardPoints(header[o].amount)]
    /\ awards' = [awards EXCEPT ![o] = AwardPoints(header[o].amount)]

(* The UPDATE ... AND points >= $2 may match no row; the award row goes anyway. *)
TakePointsBack(o, u) ==
    /\ points' = IF points[u] >= awards[o]
                 THEN [points EXCEPT ![u] = @ - awards[o]]
                 ELSE points
    /\ awards' = [awards EXCEPT ![o] = 0]

MovePoints(o, next) ==
    \/ /\ status[o] # "success" /\ next = "success" /\ awards[o] = 0
       /\ GivePoints(o, header[o].owner)
    \/ /\ status[o] = "success" /\ next # "success"
       /\ TakePointsBack(o, header[o].owner)
    \/ /\ status[o] # "success"
       /\ next = "success" => awards[o] # 0
       /\ UNCHANGED pointVars
    \/ /\ status[o] = "success" /\ next = "success"
       /\ UNCHANGED pointVars

UpdateStatus(a, key, o, next) ==
    /\ status[o] # "absent"
    /\ Claim("transaction-status", a, key)
    /\ MoveMoney(o, next)
    /\ MovePoints(o, next)
    /\ status' = [status EXCEPT ![o] = next]
    /\ UNCHANGED <<header, effects, event, stockVars>>

-----------------------------------------------------------------------------
(***************************************************************************)
(* apply_financial_webhook: a provider reports an outcome.  The same       *)
(* status twice is a replay; failed after anything else is refused; and    *)
(* success undoes a refund only if this provider's own callback made it.   *)
(***************************************************************************)
CallbackFor(p, o) ==
    /\ status[o] # "absent"
    /\ header[o].provider = p
    /\ header[o].amount > 0

(* Mutant: a failed callback pays back whatever the status. *)
FailAnyStatus(p, o) ==
    /\ CallbackFor(p, o)
    /\ event[o] = "none"
    /\ Post(header[o].owner, Source("webhook-refund", o, <<>>), 1, header[o].amount)
    /\ status' = [status EXCEPT ![o] = "failed"]
    /\ refunded' = [refunded EXCEPT ![o] = TRUE]
    /\ event' = [event EXCEPT ![o] = "failed"]
    /\ UNCHANGED <<header, effects, pointVars, stockVars, claimed>>

CallbackFailed(p, o) ==
    /\ CallbackFor(p, o)
    /\ event[o] = "none"
    /\ status[o] \in {"pending", "processing"}
    /\ Post(header[o].owner, Source("webhook-refund", o, <<>>), 1, header[o].amount)
    /\ status' = [status EXCEPT ![o] = "failed"]
    /\ refunded' = [refunded EXCEPT ![o] = TRUE]
    /\ event' = [event EXCEPT ![o] = "failed"]
    /\ UNCHANGED <<header, effects, pointVars, stockVars, claimed>>

CallbackSuccess(p, o) ==
    /\ CallbackFor(p, o)
    /\ event[o] # "success"
    /\ \/ /\ status[o] = "failed" \/ refunded[o]
          /\ event[o] = "failed"
          /\ Post(header[o].owner, Source("webhook-correction", o, <<>>),
                  -1, header[o].amount)
       \/ /\ status[o] # "failed" /\ ~refunded[o]
          /\ UNCHANGED bookVars
    /\ status' = [status EXCEPT ![o] = "success"]
    /\ refunded' = [refunded EXCEPT ![o] = FALSE]
    /\ event' = [event EXCEPT ![o] = "success"]
    /\ UNCHANGED <<header, effects, pointVars, stockVars, claimed>>

-----------------------------------------------------------------------------
(***************************************************************************)
(* adjust_balance.  Its financial_requests row and its ledger source carry *)
(* the same (actor, key), so the UNIQUE source stands for both.  Without a *)
(* key the source is a random id: that is an adjustment with a fresh key.  *)
(***************************************************************************)
AdjustBalance(a, key, u, direction, n) ==
    /\ direction = -1 => balance[u] >= n
    /\ Post(u, Source("balance-adjust", <<a, key>>, <<>>), direction, n)
    /\ UNCHANGED <<orderVars, pointVars, stockVars, claimed>>

(* points_adjust *)
AdjustPoints(u, n) ==
    /\ points[u] + n \in 0 .. MaxPoints
    /\ points' = [points EXCEPT ![u] = @ + n]
    /\ UNCHANGED <<bookVars, orderVars, awards, stockVars, claimed>>

-----------------------------------------------------------------------------
Next ==
    \/ \E u \in Users, k \in Keys \cup {NoKey}, o \in Orders, base \in Prices,
          f, v \in BOOLEAN : Checkout(u, k, o, base, f, v)
    \/ NewDay
    \/ \E u \in Users, k \in Keys \cup {NoKey}, o \in Orders, base \in Prices :
          OpenApiOrder(u, k, o, base)
    \/ \E u \in Users, o \in Orders, base \in Prices, p \in Providers :
          LegacyOrder(u, o, base, p)
    \/ \E a \in Staff, k \in Keys, o \in Orders : Refund(a, k, o)
    \/ \E a \in Staff, k \in Keys \cup {NoKey}, o \in Orders, s \in Statuses :
          UpdateStatus(a, k, o, s)
    \/ \E p \in Providers, o \in Orders : CallbackFailed(p, o)
    \/ \E p \in Providers, o \in Orders : CallbackSuccess(p, o)
    \/ \E a \in Staff, k \in Keys, u \in Users, d \in {-1, 1}, n \in Adjustments :
          AdjustBalance(a, k, u, d, n)
    \/ \E u \in Users, n \in PointChanges : AdjustPoints(u, n)

Spec == Init /\ [][Next]_vars

-----------------------------------------------------------------------------
(* Ledger rows of an order, whatever handler wrote them. *)
RowOf(u, i, o) ==
    /\ ledger[u][i].source.kind # "balance-adjust"
    /\ ledger[u][i].source.subject = o

(***************************************************************************)
(* The ledger tells one story per order.  All its rows are in the owner's  *)
(* book and for the full price; the first takes the price, then rows give  *)
(* it back and take it again in turn, and the last one gave it back        *)
(* exactly when `refunded` is set.  Refunds, status edits and provider     *)
(* callbacks use different sources, so the UNIQUE source alone would let   *)
(* two of them pay the same order back.                                    *)
(***************************************************************************)
RowsMatchOrder ==
    \A u \in Users, o \in Orders : \A i \in DOMAIN ledger[u] :
        RowOf(u, i, o) =>
            /\ status[o] # "absent"
            /\ u = header[o].owner
            /\ ledger[u][i].amount = header[o].amount

RowsAlternate ==
    \A u \in Users, o \in Orders : \A i, j \in DOMAIN ledger[u] :
        /\ RowOf(u, i, o) /\ RowOf(u, j, o) /\ i < j
        /\ \A k \in (i + 1) .. (j - 1) : ~RowOf(u, k, o)
        => ledger[u][i].direction # ledger[u][j].direction

FirstRow(u, i, o) == RowOf(u, i, o) /\ \A k \in 1 .. (i - 1) : ~RowOf(u, k, o)

LastRow(u, i, o) ==
    RowOf(u, i, o) /\ \A k \in (i + 1) .. Len(ledger[u]) : ~RowOf(u, k, o)

EndsMatchRefunded ==
    \A u \in Users, o \in Orders : \A i \in DOMAIN ledger[u] :
        /\ FirstRow(u, i, o) => ledger[u][i].direction = -1
        /\ LastRow(u, i, o) => (ledger[u][i].direction = 1 <=> refunded[o])

PlacedIsPaid ==
    \A o \in Orders : status[o] # "absent" =>
        \E i \in DOMAIN ledger[header[o].owner] : RowOf(header[o].owner, i, o)

OrderMoneyStory ==
    RowsMatchOrder /\ RowsAlternate /\ EndsMatchRefunded /\ PlacedIsPaid

(***************************************************************************)
(* What the insert fixes: an order has an owner and a positive price from  *)
(* the moment it exists, and nothing before.                               *)
(***************************************************************************)
HeaderOK ==
    \A o \in Orders :
        IF status[o] = "absent"
        THEN header[o] = NoHeader
        ELSE header[o].owner \in Users /\ header[o].amount > 0

(***************************************************************************)
(* An order is refunded exactly while it is failed.  receive.rs relies on  *)
(* it: a `failed` callback pays back after looking at the status only.     *)
(***************************************************************************)
FailedIffRefunded == \A o \in Orders : refunded[o] <=> status[o] = "failed"

(***************************************************************************)
(* Loyalty points stand only for successful orders: no sequence of manual  *)
(* edits, refunds and callbacks leaves a point_awards row behind on an     *)
(* order that is not successful, where a later success would find it and   *)
(* award nothing.                                                          *)
(***************************************************************************)
AwardsFollowSuccess ==
    \A o \in Orders : awards[o] > 0 => status[o] = "success"

(***************************************************************************)
(* A member owns at least the points of the awards on record, as long as   *)
(* operators only add points and no reward is claimed.                     *)
(***************************************************************************)
OwnAwards(u) == SumFunctionOnSet(awards, {o \in Orders : header[o].owner = u})

PointsCoverAwards == \A u \in Users : points[u] >= OwnAwards(u)

(***************************************************************************)
(* Discounts are booked on the orders that used them: the counters of the  *)
(* flash sale and of the voucher equal the orders carrying their effect,   *)
(* stay within stock and quota, and a one-per-user voucher marks one order *)
(* of a member.  A checkout that fails after taking them leaves no trace.  *)
(***************************************************************************)
Marked(effect) == {o \in Orders : effect \in effects[o]}

DiscountsAccounted ==
    /\ sold = Cardinality(Marked("flash_sale")) /\ sold <= Flash.stock
    /\ used = Cardinality(Marked("voucher")) /\ used <= Voucher.maxUses
    /\ Voucher.onePerUser =>
          \A o, q \in Marked("voucher") :
              header[o].owner = header[q].owner => o = q

(***************************************************************************)
(* Every handler is a step of the wallet promise of Custody: adjustments   *)
(* are its grants, an order that is placed and not refunded is in custody, *)
(* and no handler moves money in any other way.                            *)
(***************************************************************************)
Bill == [o \in Orders |-> [owner |-> header[o].owner, amount |-> header[o].amount]]
InCustody == {o \in Orders : status[o] # "absent" /\ ~refunded[o]}
UsedGrants == {s \in AdjustSources : Posted(s)}

Promise == INSTANCE Custody WITH
    Grants <- AdjustSources, Nobody <- None,      Limit <- MaxBalance,
    wallet <- balance,       bill   <- Bill,      held  <- InCustody,
    grants <- UsedGrants

WalletPromise == Promise!Spec

(***************************************************************************)
(* No money appears or vanishes.  What a member has in the wallet and in   *)
(* the orders the shop holds the price of is what operators have granted   *)
(* on balance, whichever of the three ways orders were paid back and       *)
(* charged again in.                                                       *)
(***************************************************************************)
Granted(u) ==
    SumFunctionOnSet([i \in DOMAIN ledger[u] |-> ledger[u][i].direction * ledger[u][i].amount],
                     {i \in DOMAIN ledger[u] : ledger[u][i].source \in AdjustSources})

Invested(u) ==
    SumFunctionOnSet([o \in Orders |-> header[o].amount],
                     {o \in InCustody : header[o].owner = u})

MoneyConserved == \A u \in Users : balance[u] + Invested(u) = Granted(u)

-----------------------------------------------------------------------------
(***************************************************************************)
(* Statements of the repository's documents that the code does not meet.   *)
(***************************************************************************)

(***************************************************************************)
(* docs/project/API_V2_TRANSACTION_STATUS_REVIEW.md: an order that is not  *)
(* refunded is credited back when an operator fails it.  The ledger source *)
(* of the move must then be free.                                          *)
(***************************************************************************)
FailureCanBeCredited ==
    \A o \in Orders :
        status[o] \in {"pending", "processing", "success"} /\ ~refunded[o] =>
            ~Posted(Source("transaction-status", o, <<status[o], "failed">>))
=============================================================================
