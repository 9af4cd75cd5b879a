---------------------------- MODULE FundingProofs ----------------------------
(***************************************************************************)
(* Proofs about Funding, for all sets of users, operators, deposits,       *)
(* vouchers and giveaways.  The invariant IInv adds to the properties what *)
(* approve_deposit relies on: a stored deposit has an owner and a fee      *)
(* below its amount.                                                       *)
(***************************************************************************)
EXTENDS Funding, GiveawaySplit, LedgerBookProofs

RequestOK ==
    \A d \in Deposits : status[d] # "absent" =>
        request[d].user \in Users /\ request[d].fee < request[d].amount

IInv ==
    /\ TypeOK
    /\ RequestOK
    /\ LedgerChained
    /\ CreditsMatchDecisions

-----------------------------------------------------------------------------
(***************************************************************************)
(* What a posting and a joint credit do to the entries of the books.       *)
(***************************************************************************)
LEMMA PostPays ==
    ASSUME BookTypeOK, PaidOnce,
           NEW u \in Users, NEW s \in Sources, NEW n \in Nat,
           Post(u, s, 1, n)
    PROVE  /\ PaidOnce'
           /\ Paid(u)' = Paid(u) \cup {Credit(s, n)}
           /\ \A v \in Users \ {u} : Paid(v)' = Paid(v)
<1>1. /\ BookTypeOK'
      /\ ~Posted(s)
      /\ Len(ledger'[u]) = Len(ledger[u]) + 1
      /\ ledger'[u][Len(ledger[u]) + 1] =
           [source |-> s, direction |-> 1, amount |-> n,
            after |-> balance[u] + 1 * n]
      /\ \A i \in 1 .. Len(ledger[u]) : ledger'[u][i] = ledger[u][i]
      /\ \A v \in Users \ {u} : ledger'[v] = ledger[v]
  BY PostAppends
<1>2. /\ \A v \in Users : Len(ledger[v]) \in Nat
      /\ \A v \in Users : DOMAIN ledger[v] = 1 .. Len(ledger[v])
      /\ \A v \in Users : DOMAIN ledger'[v] = 1 .. Len(ledger'[v])
  BY <1>1 DEF BookTypeOK
<1> PICK top \in Nat : top = Len(ledger[u]) + 1
  BY <1>2
<1>3. /\ DOMAIN ledger'[u] = (DOMAIN ledger[u]) \cup {top}
      /\ Entry(u, top)' = Credit(s, n)
      /\ \A i \in DOMAIN ledger[u] : Entry(u, i)' = Entry(u, i)
  <2>1. DOMAIN ledger'[u] = (DOMAIN ledger[u]) \cup {top}
    BY <1>1, <1>2
  <2>2. Entry(u, top)' = Credit(s, n)
    BY <1>1 DEF Entry, Credit
  <2>3. \A i \in DOMAIN ledger[u] : Entry(u, i)' = Entry(u, i)
    BY <1>1, <1>2 DEF Entry
  <2> QED
    BY <2>1, <2>2, <2>3
<1>4. Paid(u)' = Paid(u) \cup {Credit(s, n)}
  <2>1. Paid(u)' = {Entry(u, i)' : i \in DOMAIN ledger'[u]}
    BY DEF Paid
  <2> QED
    BY <1>3, <2>1, Zenon DEF Paid
<1>5. \A v \in Users \ {u} : Paid(v)' = Paid(v)
  BY <1>1 DEF Paid, Entry
<1>6. PaidOnce'
  <2> SUFFICES ASSUME NEW v \in Users,
                      NEW i \in DOMAIN ledger'[v], NEW j \in DOMAIN ledger'[v],
                      ledger'[v][i].source = ledger'[v][j].source
               PROVE  i = j
    BY DEF PaidOnce
  <2>1. CASE v # u
    BY <1>1, <2>1 DEF PaidOnce
  <2>2. CASE v = u
    <3>1. \A k \in DOMAIN ledger[u] :
             /\ ledger'[u][k].source = ledger[u][k].source
             /\ ledger[u][k].source # s
      BY <1>1, <1>2 DEF Posted
    <3>2. ledger'[u][top].source = s
      BY <1>1
    <3> QED
      BY <1>3, <2>2, <3>1, <3>2 DEF PaidOnce
  <2> QED
    BY <2>1, <2>2
<1> QED
  BY <1>4, <1>5, <1>6

(* A joint credit adds one entry for every positive share. *)
LEMMA PostAllPays ==
    ASSUME BookTypeOK, PaidOnce,
           NEW source \in [Users -> Sources], NEW share \in [Users -> Nat],
           PostAll(source, share)
    PROVE  /\ PaidOnce'
           /\ \A u \in Users :
                 Paid(u)' = Paid(u) \cup
                    {c \in {Credit(source[u], share[u])} : share[u] > 0}
<1>1. BookTypeOK' /\ \A u \in Users :
        /\ share[u] = 0 => ledger'[u] = ledger[u]
        /\ share[u] > 0 =>
             /\ Len(ledger'[u]) = Len(ledger[u]) + 1
             /\ ledger'[u][Len(ledger[u]) + 1] =
                  [source |-> source[u], direction |-> 1,
                   amount |-> share[u], after |-> balance[u] + share[u]]
             /\ \A i \in 1 .. Len(ledger[u]) : ledger'[u][i] = ledger[u][i]
  BY PostAllAppends
<1>2. ASSUME NEW u \in Users
      PROVE  /\ Paid(u)' = Paid(u) \cup
                    {c \in {Credit(source[u], share[u])} : share[u] > 0}
             /\ \A i, j \in DOMAIN ledger'[u] :
                    ledger'[u][i].source = ledger'[u][j].source => i = j
  <2>1. /\ Len(ledger[u]) \in Nat
        /\ share[u] \in Nat
        /\ DOMAIN ledger[u] = 1 .. Len(ledger[u])
        /\ DOMAIN ledger'[u] = 1 .. Len(ledger'[u])
    BY <1>1 DEF BookTypeOK
  <2>2. CASE share[u] = 0
    <3>1. ledger'[u] = ledger[u]
      BY <1>1, <2>2
    <3>2. Paid(u)' = Paid(u)
      BY <3>1 DEF Paid, Entry
    <3> QED
      BY <2>2, <3>1, <3>2 DEF PaidOnce
  <2>3. CASE share[u] > 0
    <3>1. /\ Len(ledger'[u]) = Len(ledger[u]) + 1
          /\ ledger'[u][Len(ledger[u]) + 1] =
               [source |-> source[u], direction |-> 1,
                amount |-> share[u], after |-> balance[u] + share[u]]
          /\ \A i \in 1 .. Len(ledger[u]) : ledger'[u][i] = ledger[u][i]
      BY <1>1, <2>3
    <3>2. ~Posted(source[u])
      BY <2>3 DEF PostAll
    <3> PICK top \in Nat : top = Len(ledger[u]) + 1
      BY <2>1
    <3>3. /\ DOMAIN ledger'[u] = (DOMAIN ledger[u]) \cup {top}
          /\ Entry(u, top)' = Credit(source[u], share[u])
          /\ \A i \in DOMAIN ledger[u] : Entry(u, i)' = Entry(u, i)
      <4>1. DOMAIN ledger'[u] = (DOMAIN ledger[u]) \cup {top}
        BY <2>1, <3>1
      <4>2. Entry(u, top)' = Credit(source[u], share[u])
        BY <3>1 DEF Entry, Credit
      <4>3. \A i \in DOMAIN ledger[u] : Entry(u, i)' = Entry(u, i)
        BY <2>1, <3>1 DEF Entry
      <4> QED
        BY <4>1, <4>2, <4>3
    <3>4. Paid(u)' = Paid(u) \cup {Credit(source[u], share[u])}
      <4>1. Paid(u)' = {Entry(u, i)' : i \in DOMAIN ledger'[u]}
        BY DEF Paid
      <4> QED
        BY <3>3, <4>1, Zenon DEF Paid
    <3>5. \A k \in DOMAIN ledger[u] :
             /\ ledger'[u][k].source = ledger[u][k].source
             /\ ledger[u][k].source # source[u]
      BY <2>1, <3>1, <3>2 DEF Posted
    <3>6. ledger'[u][top].source = source[u]
      BY <3>1
    <3>7. \A i, j \in DOMAIN ledger'[u] :
             ledger'[u][i].source = ledger'[u][j].source => i = j
      BY <3>3, <3>5, <3>6 DEF PaidOnce
    <3> QED
      BY <2>3, <3>4, <3>7
  <2> QED
    BY <2>1, <2>2, <2>3
<1>3. PaidOnce'
  BY <1>2 DEF PaidOnce
<1> QED
  BY <1>2, <1>3

-----------------------------------------------------------------------------
(* The share of a winner is an amount: the maximum is not below the minimum. *)
LEMMA ShareIsAmount ==
    ASSUME NEW p \in Plan, Accepted(p), NEW k \in Nat
    PROVE  Share(p, k) \in Nat
<1> PICK left \in Int : left = LeftFor(p, k)
  <2>1. p.pool \in Int /\ p.min * p.winners \in Int /\ (k - 1) * (p.max - p.min) \in Int
    BY DEF Plan
  <2> QED
    BY <2>1 DEF LeftFor
<1>1. p.min \in Nat /\ p.max \in Nat /\ p.max >= p.min
  BY DEF Plan, Accepted
<1> QED
  BY <1>1 DEF Share

(* Hence every member's share of a giveaway is an amount. *)
LEMMA SharesAreAmounts ==
    ASSUME NEW p \in Plans, Accepted(p), NEW seat \in Seatings(p.winners)
    PROVE  SharesOf(p, seat) \in [Users -> Nat]
<1>1. p \in Plan /\ p.winners \in Nat
  BY PlansAssumption DEF Plan
<1>2. DOMAIN seat \subseteq Nat
  BY <1>1 DEF Seatings
<1>3. ASSUME NEW u \in Users PROVE SharesOf(p, seat)[u] \in Nat
  <2>1. CASE \E k \in DOMAIN seat : seat[k] = u
    <3>1. PICK k \in Nat : SharesOf(p, seat)[u] = Share(p, k)
      BY <1>2, <2>1 DEF SharesOf
    <3> QED
      BY <1>1, <3>1, ShareIsAmount
  <2>2. CASE ~ \E k \in DOMAIN seat : seat[k] = u
    BY <2>2 DEF SharesOf
  <2> QED
    BY <2>1, <2>2
<1> QED
  BY <1>3 DEF SharesOf

(* The three kinds of ledger source are sources of the book. *)
LEMMA SourcesExist ==
    /\ \A d \in Deposits : Source("deposit-approve", d) \in Sources
    /\ \A v \in Vouchers : Source("voucher", v) \in Sources
    /\ \A g \in Giveaways, u \in Users : Source("giveaway", <<g, u>>) \in Sources
BY FundingSources DEF Source, DepositSources, VoucherSources, GiveawaySources

-----------------------------------------------------------------------------
(***************************************************************************)
(* The invariant holds initially.                                          *)
(***************************************************************************)
LEMMA InitHolds == Init => IInv
<1> SUFFICES ASSUME Init PROVE IInv
  OBVIOUS
<1>1. BookTypeOK
  BY DEF Init, BookInit, BookTypeOK
<1>2. TypeOK
  BY <1>1 DEF Init, TypeOK, NoRequest
<1>3. RequestOK
  BY DEF Init, RequestOK
<1>4. \A u \in Users : ledger[u] = <<>> /\ balance[u] = 0
  BY DEF Init, BookInit
<1>5. LedgerChained
  BY <1>4 DEF LedgerChained, AfterOf
<1>6. PaidOnce /\ \A u \in Users : Paid(u) = {}
  BY <1>4 DEF PaidOnce, Paid
<1>7. \A u \in Users : Due(u) = {}
  <2>1. \A u \in Users : u # None
    BY FundingAssumption
  <2> QED
    BY <2>1 DEF Init, Due, DueDeposits, DueVouchers, DueShares
<1> QED
  BY <1>2, <1>3, <1>5, <1>6, <1>7 DEF IInv, CreditsMatchDecisions

(***************************************************************************)
(* A step that leaves the books and what is due alone.                     *)
(***************************************************************************)
LEMMA QuietStep ==
    ASSUME IInv, TypeOK', UNCHANGED bookVars, \A u \in Users : Due(u)' = Due(u)
    PROVE  LedgerChained' /\ CreditsMatchDecisions'
<1>1. balance' = balance /\ ledger' = ledger
  BY DEF bookVars
<1>2. LedgerChained'
  BY <1>1 DEF IInv, LedgerChained, AfterOf
<1>3. PaidOnce' /\ \A u \in Users : Paid(u)' = Paid(u)
  BY <1>1 DEF IInv, CreditsMatchDecisions, PaidOnce, Paid, Entry
<1> QED
  BY <1>2, <1>3 DEF IInv, CreditsMatchDecisions

(***************************************************************************)
(* A step that posts one credit that becomes due to its user.              *)
(***************************************************************************)
LEMMA CreditStep ==
    ASSUME IInv, NEW u \in Users, NEW s \in Sources, NEW n \in Nat,
           Post(u, s, 1, n),
           Due(u)' = Due(u) \cup {Credit(s, n)},
           \A v \in Users \ {u} : Due(v)' = Due(v)
    PROVE  BookTypeOK' /\ LedgerChained' /\ CreditsMatchDecisions'
<1>1. BookTypeOK /\ LedgerChained /\ PaidOnce /\ \A v \in Users : Paid(v) = Due(v)
  BY DEF IInv, TypeOK, CreditsMatchDecisions
<1>2. BookTypeOK'
  BY <1>1, PostAppends
<1>3. LedgerChained'
  BY <1>1, PostKeepsChain
<1>4. /\ PaidOnce'
      /\ Paid(u)' = Paid(u) \cup {Credit(s, n)}
      /\ \A v \in Users \ {u} : Paid(v)' = Paid(v)
  BY <1>1, PostPays
<1>5. \A v \in Users : Paid(v)' = Due(v)'
  BY <1>1, <1>4
<1> QED
  BY <1>2, <1>3, <1>4, <1>5 DEF CreditsMatchDecisions

-----------------------------------------------------------------------------
(* request_deposit keeps the invariant: an absent deposit was not due.     *)
LEMMA RequestStep ==
    ASSUME IInv, NEW u \in Users, NEW d \in Deposits, NEW n \in Amounts,
           NEW fee \in Fees, RequestDeposit(u, d, n, fee)
    PROVE  IInv'
<1>1. n \in Nat /\ fee \in Nat /\ fee < n
  BY FundingAssumption DEF RequestDeposit
<1>2. /\ UNCHANGED <<bookVars, assigned, decider, redeemer, archived, draws>>
      /\ status' = [status EXCEPT ![d] = "pending"]
      /\ request' = [request EXCEPT ![d] = [user |-> u, amount |-> n, fee |-> fee]]
      /\ status[d] = "absent"
  BY DEF RequestDeposit, voucherVars
<1>3. TypeOK'
  BY <1>1, <1>2 DEF IInv, TypeOK, BookTypeOK, bookVars
<1>4. RequestOK'
  BY <1>1, <1>2 DEF IInv, TypeOK, RequestOK
<1>5. \A v \in Users : Due(v)' = Due(v)
  <2>1. /\ \A e \in Deposits : status'[e] = "approved" <=> status[e] = "approved"
        /\ \A e \in Deposits : status[e] = "approved" => request'[e] = request[e]
    BY <1>2 DEF IInv, TypeOK
  <2>2. \A v \in Users : DueDeposits(v)' = DueDeposits(v)
    BY <2>1 DEF DueDeposits, NetAmount
  <2>3. \A v \in Users : DueVouchers(v)' = DueVouchers(v) /\ DueShares(v)' = DueShares(v)
    BY <1>2 DEF DueVouchers, DueShares
  <2> QED
    BY <2>2, <2>3 DEF Due
<1> QED
  BY <1>2, <1>3, <1>4, <1>5, QuietStep DEF IInv

(* claim, release and reject move no money.                                *)
LEMMA AssignmentStep ==
    ASSUME IInv, NEW a \in Operators, NEW d \in Deposits,
           ClaimDeposit(a, d) \/ ReleaseClaim(a, d) \/ RejectDeposit(a, d)
    PROVE  IInv'
<1>1. /\ UNCHANGED <<bookVars, request, redeemer, archived, draws>>
      /\ assigned' \in {assigned, [assigned EXCEPT ![d] = a], [assigned EXCEPT ![d] = None]}
      /\ decider' \in {decider, [decider EXCEPT ![d] = a]}
      /\ status' \in {status, [status EXCEPT ![d] = "rejected"]}
      /\ status[d] = "pending"
  BY DEF ClaimDeposit, ReleaseClaim, RejectDeposit, MayDecide, voucherVars
<1>2. TypeOK'
  <2>1. BookTypeOK' /\ request' = request /\ redeemer' = redeemer
            /\ archived' = archived /\ draws' = draws
    BY <1>1 DEF IInv, TypeOK, BookTypeOK, bookVars
  <2>2. assigned' \in [Deposits -> Operators \cup {None}]
    BY <1>1 DEF IInv, TypeOK
  <2>3. decider' \in [Deposits -> Operators \cup {None}]
    BY <1>1 DEF IInv, TypeOK
  <2>4. status' \in [Deposits -> {"absent", "pending", "approved", "rejected"}]
    BY <1>1 DEF IInv, TypeOK
  <2> QED
    BY <2>1, <2>2, <2>3, <2>4 DEF IInv, TypeOK
<1>3. \A e \in Deposits : /\ status'[e] = "approved" <=> status[e] = "approved"
                          /\ status'[e] = "absent" <=> status[e] = "absent"
  BY <1>1 DEF IInv, TypeOK
<1>4. RequestOK'
  <2> SUFFICES ASSUME NEW e \in Deposits, status'[e] # "absent"
               PROVE  request[e].user \in Users /\ request[e].fee < request[e].amount
    BY <1>1 DEF RequestOK
  <2> QED
    BY <1>3 DEF IInv, RequestOK
<1>5. \A v \in Users : Due(v)' = Due(v)
  BY <1>1, <1>3 DEF Due, DueDeposits, NetAmount, DueVouchers, DueShares
<1> QED
  BY <1>1, <1>2, <1>4, <1>5, QuietStep DEF IInv

(* archive and restore leave the redeemer of a voucher alone.              *)
LEMMA ArchiveStep ==
    ASSUME IInv, NEW v \in Vouchers, ArchiveVoucher(v) \/ RestoreVoucher(v)
    PROVE  IInv'
<1>1. /\ UNCHANGED <<bookVars, depositVars, redeemer, draws>>
      /\ archived' \in {[archived EXCEPT ![v] = TRUE], [archived EXCEPT ![v] = FALSE]}
  BY DEF ArchiveVoucher, RestoreVoucher
<1>2. TypeOK' /\ RequestOK'
  BY <1>1 DEF IInv, TypeOK, RequestOK, BookTypeOK, bookVars, depositVars
<1>3. \A u \in Users : Due(u)' = Due(u)
  BY <1>1 DEF Due, DueDeposits, NetAmount, DueVouchers, DueShares, depositVars
<1> QED
  BY <1>1, <1>2, <1>3, QuietStep DEF IInv

(* approve_deposit: the net amount becomes due and is posted.              *)
LEMMA ApproveStep ==
    ASSUME IInv, NEW a \in Operators, NEW d \in Deposits, ApproveDeposit(a, d)
    PROVE  IInv'
<1>1. /\ UNCHANGED <<request, assigned, redeemer, archived, draws>>
      /\ status' = [status EXCEPT ![d] = "approved"]
      /\ decider' = [decider EXCEPT ![d] = a]
      /\ status[d] = "pending"
  BY DEF ApproveDeposit, MayDecide, voucherVars
<1> PICK u \in Users : u = request[d].user
  BY <1>1 DEF IInv, RequestOK
<1> PICK n \in Nat : n = NetAmount(d)
  BY <1>1 DEF IInv, TypeOK, RequestOK, NetAmount
<1> PICK s \in Sources : s = Source("deposit-approve", d)
  BY SourcesExist
<1>2. Post(u, s, 1, n)
  BY DEF ApproveDeposit
<1>3. /\ \A e \in Deposits : status'[e] = "approved" <=> status[e] = "approved" \/ e = d
      /\ \A e \in Deposits : NetAmount(e)' = NetAmount(e)
      /\ status[d] # "approved"
  BY <1>1 DEF IInv, TypeOK, NetAmount
<1>4. DueDeposits(u)' = DueDeposits(u) \cup {Credit(s, n)}
  BY <1>1, <1>3 DEF DueDeposits
<1>5. \A v \in Users \ {u} : DueDeposits(v)' = DueDeposits(v)
  BY <1>1, <1>3 DEF DueDeposits
<1>6. \A v \in Users : DueVouchers(v)' = DueVouchers(v) /\ DueShares(v)' = DueShares(v)
  BY <1>1 DEF DueVouchers, DueShares
<1>7. /\ Due(u)' = Due(u) \cup {Credit(s, n)}
      /\ \A v \in Users \ {u} : Due(v)' = Due(v)
  BY <1>4, <1>5, <1>6 DEF Due
<1>8. BookTypeOK' /\ LedgerChained' /\ CreditsMatchDecisions'
  BY <1>2, <1>7, CreditStep
<1>9. TypeOK' /\ RequestOK'
  BY <1>1, <1>8 DEF IInv, TypeOK, RequestOK
<1> QED
  BY <1>8, <1>9 DEF IInv

(* redeem: the worth of the voucher becomes due and is posted.             *)
LEMMA RedeemStep ==
    ASSUME IInv, NEW u \in Users, NEW v \in Vouchers, Redeem(u, v)
    PROVE  IInv'
<1>1. /\ UNCHANGED <<depositVars, archived, draws>>
      /\ redeemer' = [redeemer EXCEPT ![v] = u]
      /\ redeemer[v] = None
      /\ u # None
  BY FundingAssumption DEF Redeem
<1> PICK n \in Nat : n = Worth[v]
  BY FundingAssumption
<1> PICK s \in Sources : s = Source("voucher", v)
  BY SourcesExist
<1>2. Post(u, s, 1, n)
  BY DEF Redeem
<1>3. \A w \in Vouchers, x \in Users :
         redeemer'[w] = x <=> redeemer[w] = x \/ (w = v /\ x = u)
  BY <1>1, FundingAssumption DEF IInv, TypeOK
<1>4. DueVouchers(u)' = DueVouchers(u) \cup {Credit(s, n)}
  BY <1>3 DEF DueVouchers
<1>5. \A x \in Users \ {u} : DueVouchers(x)' = DueVouchers(x)
  BY <1>3 DEF DueVouchers
<1>6. \A x \in Users : DueDeposits(x)' = DueDeposits(x) /\ DueShares(x)' = DueShares(x)
  BY <1>1 DEF DueDeposits, NetAmount, DueShares, depositVars
<1>7. /\ Due(u)' = Due(u) \cup {Credit(s, n)}
      /\ \A x \in Users \ {u} : Due(x)' = Due(x)
  BY <1>4, <1>5, <1>6 DEF Due
<1>8. BookTypeOK' /\ LedgerChained' /\ CreditsMatchDecisions'
  BY <1>2, <1>7, CreditStep
<1>9. TypeOK' /\ RequestOK'
  BY <1>1, <1>8 DEF IInv, TypeOK, RequestOK, depositVars
<1> QED
  BY <1>8, <1>9 DEF IInv

(* giveaway_execute: every positive share becomes due and is posted.       *)
LEMMA GiveawayStep ==
    ASSUME IInv, NEW a \in Operators, NEW key \in Keys, NEW g \in Giveaways,
           NEW p \in Plans, NEW seat \in Seatings(p.winners),
           RunGiveaway(a, key, g, p, seat)
    PROVE  IInv'
<1> PICK share \in [Users -> Nat] : share = SharesOf(p, seat)
  BY SharesAreAmounts DEF RunGiveaway
<1> PICK source \in [Users -> Sources] :
            source = [u \in Users |-> Source("giveaway", <<g, u>>)]
  <2>1. [u \in Users |-> Source("giveaway", <<g, u>>)] \in [Users -> Sources]
    BY SourcesExist
  <2> QED
    BY <2>1
<1>1. /\ PostAll(source, share)
      /\ UNCHANGED <<depositVars, voucherVars>>
      /\ draws' = [draws EXCEPT ![g] = [actor |-> a, key |-> key, plan |-> p,
                                        share |-> share]]
      /\ draws[g] = NoDraw
  BY DEF RunGiveaway
<1>2. BookTypeOK /\ LedgerChained /\ PaidOnce /\ \A u \in Users : Paid(u) = Due(u)
  BY DEF IInv, TypeOK, CreditsMatchDecisions
<1>3. BookTypeOK'
  BY <1>1, <1>2, PostAllAppends
<1>4. LedgerChained'
  BY <1>1, <1>2, PostAllKeepsChain
<1>5. /\ PaidOnce'
      /\ \A u \in Users :
            Paid(u)' = Paid(u) \cup {c \in {Credit(source[u], share[u])} : share[u] > 0}
  BY <1>1, <1>2, PostAllPays
<1>6. /\ draws'[g] # NoDraw
      /\ draws'[g].share = share
      /\ \A h \in Giveaways \ {g} : draws'[h] = draws[h]
  <2>1. a # None
    BY FundingAssumption
  <2> QED
    BY <1>1, <2>1 DEF IInv, TypeOK, NoDraw
<1>7. ASSUME NEW u \in Users
      PROVE  Due(u)' = Due(u) \cup {c \in {Credit(source[u], share[u])} : share[u] > 0}
  <2> DEFINE given  == {h \in Giveaways : draws[h] # NoDraw /\ draws[h].share[u] > 0}
  <2>1. DueShares(u) = {Credit(Source("giveaway", <<h, u>>), draws[h].share[u]) : h \in given}
    BY DEF DueShares
  <2>2. g \notin given
    BY <1>1
  <2>3. {h \in Giveaways : draws'[h] # NoDraw /\ draws'[h].share[u] > 0}
          = given \cup {h \in {g} : share[u] > 0}
    BY <1>1, <1>6
  <2>4. DueShares(u)' = {Credit(Source("giveaway", <<h, u>>), draws'[h].share[u]) :
                            h \in given \cup {h \in {g} : share[u] > 0}}
    BY <2>3 DEF DueShares, NoDraw, Credit, Source
  <2>5. DueShares(u)' = DueShares(u) \cup
            {c \in {Credit(source[u], share[u])} : share[u] > 0}
    BY <1>6, <2>1, <2>2, <2>4
  <2>6. DueDeposits(u)' = DueDeposits(u) /\ DueVouchers(u)' = DueVouchers(u)
    BY <1>1 DEF DueDeposits, NetAmount, DueVouchers, depositVars, voucherVars
  <2> QED
    BY <2>5, <2>6 DEF Due
<1>8. CreditsMatchDecisions'
  BY <1>2, <1>5, <1>7 DEF CreditsMatchDecisions
<1>9. TypeOK' /\ RequestOK'
  <2>1. draws' \in [Giveaways -> Draw \cup {NoDraw}]
    BY <1>1 DEF IInv, TypeOK, Draw
  <2> QED
    BY <1>1, <1>3, <2>1 DEF IInv, TypeOK, RequestOK, depositVars, voucherVars
<1> QED
  BY <1>4, <1>8, <1>9 DEF IInv

(* Every step keeps the invariant. *)
LEMMA StepHolds == IInv /\ [Next]_vars => IInv'
<1> SUFFICES ASSUME IInv, [Next]_vars PROVE IInv'
  OBVIOUS
<1>1. ASSUME NEW u \in Users, NEW d \in Deposits, NEW n \in Amounts, NEW fee \in Fees,
             RequestDeposit(u, d, n, fee)
      PROVE  IInv'
  BY <1>1, RequestStep
<1>2. ASSUME NEW a \in Operators, NEW d \in Deposits,
             ClaimDeposit(a, d) \/ ReleaseClaim(a, d) \/ RejectDeposit(a, d)
      PROVE  IInv'
  BY <1>2, AssignmentStep
<1>3. ASSUME NEW a \in Operators, NEW d \in Deposits, ApproveDeposit(a, d)
      PROVE  IInv'
  BY <1>3, ApproveStep
<1>4. ASSUME NEW u \in Users, NEW v \in Vouchers, Redeem(u, v)
      PROVE  IInv'
  BY <1>4, RedeemStep
<1>5. ASSUME NEW v \in Vouchers, ArchiveVoucher(v) \/ RestoreVoucher(v)
      PROVE  IInv'
  BY <1>5, ArchiveStep
<1>6. ASSUME NEW a \in Operators, NEW key \in Keys, NEW g \in Giveaways,
             NEW p \in Plans, NEW seat \in Seatings(p.winners),
             RunGiveaway(a, key, g, p, seat)
      PROVE  IInv'
  BY <1>6, GiveawayStep
<1>7. CASE UNCHANGED vars
  <2>1. UNCHANGED <<balance, ledger, status, request, assigned, decider,
                    redeemer, archived, draws>>
    BY <1>7 DEF vars, bookVars, depositVars, voucherVars
  <2>2. TypeOK' /\ RequestOK'
    BY <2>1 DEF IInv, TypeOK, BookTypeOK, RequestOK
  <2>3. \A u \in Users : Due(u)' = Due(u)
    BY <2>1 DEF Due, DueDeposits, NetAmount, DueVouchers, DueShares
  <2>4. UNCHANGED bookVars
    BY <2>1 DEF bookVars
  <2> QED
    BY <2>2, <2>3, <2>4, QuietStep DEF IInv
<1> QED
  BY <1>1, <1>2, <1>3, <1>4, <1>5, <1>6, <1>7 DEF Next

(* The invariant holds always. *)
LEMMA InvariantHolds == Spec => []IInv
<1> QED
  BY InitHolds, StepHolds, PTL DEF Spec

-----------------------------------------------------------------------------
(* Every reachable state of the funding handlers is well typed. *)
THEOREM FundingTypeCorrect == Spec => []TypeOK
<1>1. IInv => TypeOK
  BY DEF IInv
<1> QED
  BY <1>1, InvariantHolds, PTL

(***************************************************************************)
(* Deposits, vouchers and giveaways keep the running balance of every      *)
(* book.                                                                   *)
(***************************************************************************)
THEOREM FundingBookBalances == Spec => []LedgerChained
<1>1. IInv => LedgerChained
  BY DEF IInv
<1> QED
  BY <1>1, InvariantHolds, PTL

(* Hence the balance of a member is the sum of the member's credits. *)
THEOREM FundingBalancesAreSums == Spec => []BalanceIsSum
<1>1. IInv => BalanceIsSum
  BY ChainMakesSums DEF IInv, TypeOK
<1> QED
  BY <1>1, InvariantHolds, PTL

(***************************************************************************)
(* A book holds one credit for every approved deposit, redeemed voucher    *)
(* and positive giveaway share of its owner, and no other row.             *)
(***************************************************************************)
THEOREM EveryDecisionPaidOnce == Spec => []CreditsMatchDecisions
<1>1. IInv => CreditsMatchDecisions
  BY DEF IInv
<1> QED
  BY <1>1, InvariantHolds, PTL

(***************************************************************************)
(* Only the operator who claimed a deposit, or an owner, decides it, and   *)
(* nobody takes a claim over without a release.                            *)
(***************************************************************************)
THEOREM ClaimsAreRespected == Spec => ClaimRespected
<1> DEFINE Respected ==
      \A d \in Deposits :
          status[d] = "pending" /\ assigned[d] # None =>
              /\ status'[d] # "pending" => decider'[d] \in {assigned[d]} \cup Owners
              /\ assigned'[d] \in {assigned[d], None}
<1>1. IInv /\ [Next]_vars => [Respected]_vars
  <2> SUFFICES ASSUME IInv, Next,
                      NEW d \in Deposits, status[d] = "pending", assigned[d] # None
               PROVE  /\ status'[d] # "pending" =>
                             decider'[d] \in {assigned[d]} \cup Owners
                      /\ assigned'[d] \in {assigned[d], None}
    OBVIOUS
  <2>1. status \in [Deposits -> {"absent", "pending", "approved", "rejected"}]
        /\ assigned \in [Deposits -> Operators \cup {None}]
        /\ decider \in [Deposits -> Operators \cup {None}]
    BY DEF IInv, TypeOK
  <2>2. ASSUME NEW a \in Operators, NEW e \in Deposits,
               \/ ClaimDeposit(a, e) \/ ReleaseClaim(a, e)
               \/ RejectDeposit(a, e) \/ ApproveDeposit(a, e)
        PROVE  /\ status'[d] # "pending" =>
                      decider'[d] \in {assigned[d]} \cup Owners
               /\ assigned'[d] \in {assigned[d], None}
    BY <2>1, <2>2
       DEF ClaimDeposit, ReleaseClaim, RejectDeposit, ApproveDeposit, MayDecide
  <2>3. ASSUME NEW u \in Users, NEW e \in Deposits, NEW n \in Amounts, NEW fee \in Fees,
               RequestDeposit(u, e, n, fee)
        PROVE  status'[d] = status[d] /\ assigned' = assigned
    BY <2>1, <2>3 DEF RequestDeposit
  <2>4. CASE \/ \E u \in Users, v \in Vouchers : Redeem(u, v)
             \/ \E v \in Vouchers : ArchiveVoucher(v) \/ RestoreVoucher(v)
             \/ \E a \in Operators, key \in Keys, g \in Giveaways, p \in Plans :
                   \E seat \in Seatings(p.winners) : RunGiveaway(a, key, g, p, seat)
    BY <2>4 DEF Redeem, ArchiveVoucher, RestoreVoucher, RunGiveaway, depositVars
  <2> QED
    BY <2>2, <2>3, <2>4 DEF Next
<1> QED
  BY <1>1, InvariantHolds, PTL DEF Spec, ClaimRespected

(***************************************************************************)
(* A decided deposit and a redeemed voucher stay as they are.              *)
(***************************************************************************)
THEOREM DecisionsAreFinal == Spec => DecisionsFinal
<1> DEFINE Final ==
      /\ \A d \in Deposits :
            status[d] \in {"approved", "rejected"} =>
                /\ status'[d] = status[d]
                /\ assigned'[d] = assigned[d]
                /\ decider'[d] = decider[d]
      /\ \A v \in Vouchers :
            redeemer[v] # None =>
                /\ redeemer'[v] = redeemer[v]
                /\ archived[v] => archived'[v]
<1>1. IInv /\ [Next]_vars => [Final]_vars
  <2> SUFFICES ASSUME IInv, Next PROVE Final
    OBVIOUS
  <2>1. /\ status \in [Deposits -> {"absent", "pending", "approved", "rejected"}]
        /\ assigned \in [Deposits -> Operators \cup {None}]
        /\ decider \in [Deposits -> Operators \cup {None}]
        /\ redeemer \in [Vouchers -> Users \cup {None}]
        /\ archived \in [Vouchers -> BOOLEAN]
    BY DEF IInv, TypeOK
  <2>2. ASSUME NEW a \in Operators, NEW e \in Deposits,
               \/ ClaimDeposit(a, e) \/ ReleaseClaim(a, e)
               \/ RejectDeposit(a, e) \/ ApproveDeposit(a, e)
        PROVE  Final
    <3>1. /\ UNCHANGED <<redeemer, archived>>
          /\ status[e] = "pending"
      BY <2>2 DEF ClaimDeposit, ReleaseClaim, RejectDeposit, ApproveDeposit,
                  MayDecide, voucherVars
    <3>2. \A d \in Deposits \ {e} : /\ status'[d] = status[d]
                                    /\ assigned'[d] = assigned[d]
                                    /\ decider'[d] = decider[d]
      BY <2>1, <2>2 DEF ClaimDeposit, ReleaseClaim, RejectDeposit, ApproveDeposit
    <3> QED
      BY <3>1, <3>2
  <2>3. ASSUME NEW u \in Users, NEW e \in Deposits, NEW n \in Amounts, NEW fee \in Fees,
               RequestDeposit(u, e, n, fee)
        PROVE  Final
    BY <2>1, <2>3 DEF RequestDeposit, voucherVars
  <2>4. ASSUME NEW u \in Users, NEW v \in Vouchers, Redeem(u, v)
        PROVE  Final
    BY <2>1, <2>4 DEF Redeem, depositVars
  <2>5. ASSUME NEW v \in Vouchers, ArchiveVoucher(v) \/ RestoreVoucher(v)
        PROVE  Final
    BY <2>1, <2>5 DEF ArchiveVoucher, RestoreVoucher, depositVars
  <2>6. CASE \E a \in Operators, key \in Keys, g \in Giveaways, p \in Plans :
                \E seat \in Seatings(p.winners) : RunGiveaway(a, key, g, p, seat)
    BY <2>6 DEF RunGiveaway, depositVars, voucherVars
  <2> QED
    BY <2>2, <2>3, <2>4, <2>5, <2>6 DEF Next
<1> QED
  BY <1>1, InvariantHolds, PTL DEF Spec, DecisionsFinal
-----------------------------------------------------------------------------
(***************************************************************************)
(* A giveaway pays its pool.  An accepted plan leaves, after the minimum   *)
(* of every seat, an amount that the seats can take up to their maximum.   *)
(***************************************************************************)
Gap(p) == p.max - p.min

Rest(p) == p.pool - p.min * p.winners

LEMMA PlanArithmetic ==
    ASSUME NEW p \in Plan, Accepted(p)
    PROVE  /\ p.winners \in Nat /\ p.pool \in Nat /\ p.min \in Nat /\ p.max \in Nat
           /\ p.max = p.min + Gap(p)
           /\ p.pool = p.min * p.winners + Rest(p)
           /\ Gap(p) \in Nat /\ Rest(p) \in Nat
           /\ Rest(p) <= p.winners * Gap(p)
           /\ \A k \in Int : LeftFor(p, k) = Rest(p) - (k - 1) * Gap(p)
<1>1. /\ p.winners \in Nat /\ p.pool \in Nat /\ p.min \in Nat /\ p.max \in Nat
      /\ p.max >= p.min /\ p.min * p.winners <= p.pool
      /\ p.pool <= p.max * p.winners
  BY DEF Plan, Accepted
<1>2. p.min * p.winners \in Nat /\ p.max * p.winners \in Nat
  BY <1>1
<1>3. Gap(p) \in Nat /\ p.max = p.min + Gap(p)
  BY <1>1 DEF Gap
<1>4. Rest(p) \in Nat /\ p.pool = p.min * p.winners + Rest(p)
  BY <1>1, <1>2 DEF Rest
<1>5. p.winners * Gap(p) = p.max * p.winners - p.min * p.winners
  BY <1>1 DEF Gap
<1>6. Rest(p) <= p.winners * Gap(p)
  BY <1>1, <1>2, <1>5 DEF Rest
<1>7. \A k \in Int : LeftFor(p, k) = Rest(p) - (k - 1) * Gap(p)
  BY DEF LeftFor, Rest, Gap
<1> QED
  BY <1>1, <1>3, <1>4, <1>6, <1>7

(* What is left before seat m + 1, and the share of that seat. *)
LEMMA ShareByGaps ==
    ASSUME NEW p \in Plan, Accepted(p), NEW m \in Nat
    PROVE  /\ m * Gap(p) \in Nat
           /\ LeftFor(p, m + 1) = Rest(p) - m * Gap(p)
           /\ Share(p, m + 1) =
                 p.min + (IF Rest(p) <= m * Gap(p) THEN 0
                          ELSE IF Rest(p) - m * Gap(p) < Gap(p)
                               THEN Rest(p) - m * Gap(p)
                          ELSE Gap(p))
           /\ Share(p, m + 1) \in p.min .. p.max
<1>1. /\ Gap(p) \in Nat /\ Rest(p) \in Nat /\ p.min \in Nat
      /\ p.max = p.min + Gap(p)
  BY PlanArithmetic
<1>2. PICK t \in Nat : t = m * Gap(p)
  BY <1>1
<1>3. LeftFor(p, m + 1) = Rest(p) - t
  <2>1. (m + 1) - 1 = m /\ m + 1 \in Int
    OBVIOUS
  <2>2. LeftFor(p, m + 1) = Rest(p) - ((m + 1) - 1) * Gap(p)
    BY <2>1, PlanArithmetic
  <2> QED
    BY <1>2, <2>1, <2>2
<1>4. p.max - p.min = Gap(p)
  BY <1>1
<1>5. Share(p, m + 1) =
         p.min + (IF Rest(p) <= t THEN 0
                  ELSE IF Rest(p) - t < Gap(p) THEN Rest(p) - t ELSE Gap(p))
  BY <1>1, <1>3, <1>4 DEF Share
<1> QED
  BY <1>1, <1>2, <1>3, <1>5

(* The user in seat k receives the share of seat k, the others nothing. *)
LEMMA SeatedShare ==
    ASSUME NEW p, NEW n, NEW seat \in Seatings(n)
    PROVE  /\ \A k \in 1 .. n : seat[k] \in Users
                                  /\ SharesOf(p, seat)[seat[k]] = Share(p, k)
           /\ \A u \in Users :
                 u \notin {seat[k] : k \in 1 .. n} => SharesOf(p, seat)[u] = 0
<1>1. /\ DOMAIN seat = 1 .. n
      /\ \A k \in 1 .. n : seat[k] \in Users
      /\ \A j, k \in 1 .. n : seat[j] = seat[k] => j = k
  BY DEF Seatings
<1>2. ASSUME NEW k \in 1 .. n
      PROVE  SharesOf(p, seat)[seat[k]] = Share(p, k)
  <2>1. (CHOOSE j \in DOMAIN seat : seat[j] = seat[k]) = k
    BY <1>1
  <2> QED
    BY <1>1, <2>1 DEF SharesOf
<1>3. \A u \in Users :
         u \notin {seat[k] : k \in 1 .. n} => SharesOf(p, seat)[u] = 0
  BY <1>1 DEF SharesOf
<1> QED
  BY <1>1, <1>2, <1>3

(***************************************************************************)
(* The first m seats together receive m minimums and, of the rest, m gaps  *)
(* or all there is: by induction on m.                                     *)
(***************************************************************************)
Dealt(p, m) ==
    m * p.min + (IF m * Gap(p) <= Rest(p) THEN m * Gap(p) ELSE Rest(p))

LEMMA OneMore ==
    ASSUME NEW m \in Nat, NEW n \in Nat
    PROVE  m * n \in Nat /\ (m + 1) * n \in Nat /\ (m + 1) * n = m * n + n
OBVIOUS

LEMMA NextSeat ==
    ASSUME NEW p \in Plan, Accepted(p), NEW m \in Nat
    PROVE  Dealt(p, m + 1) = Share(p, m + 1) + Dealt(p, m)
<1>1. Gap(p) \in Nat /\ Rest(p) \in Nat /\ p.min \in Nat
  BY PlanArithmetic
<1>2. PICK t \in Nat : t = m * Gap(p) /\ (m + 1) * Gap(p) = t + Gap(p)
  BY <1>1, OneMore
<1>3. PICK b \in Nat : b = m * p.min /\ (m + 1) * p.min = b + p.min
  BY <1>1, OneMore
<1>4. Dealt(p, m) = b + (IF t <= Rest(p) THEN t ELSE Rest(p))
  BY <1>2, <1>3 DEF Dealt
<1>5. Dealt(p, m + 1) =
         (b + p.min) + (IF t + Gap(p) <= Rest(p) THEN t + Gap(p) ELSE Rest(p))
  BY <1>2, <1>3 DEF Dealt
<1>6. Share(p, m + 1) =
         p.min + (IF Rest(p) <= t THEN 0
                  ELSE IF Rest(p) - t < Gap(p) THEN Rest(p) - t ELSE Gap(p))
  BY <1>2, ShareByGaps
<1> QED
  BY <1>1, <1>4, <1>5, <1>6

LEMMA AllDealt ==
    ASSUME NEW p \in Plan, Accepted(p)
    PROVE  Dealt(p, p.winners) = p.pool
<1>1. /\ p.winners \in Nat /\ p.min \in Nat /\ Gap(p) \in Nat /\ Rest(p) \in Nat
      /\ Rest(p) <= p.winners * Gap(p)
      /\ p.pool = p.min * p.winners + Rest(p)
  BY PlanArithmetic
<1>2. PICK t \in Nat : t = p.winners * Gap(p)
  BY <1>1
<1>3. PICK b \in Nat : b = p.winners * p.min /\ b = p.min * p.winners
  BY <1>1
<1>4. Dealt(p, p.winners) = b + (IF t <= Rest(p) THEN t ELSE Rest(p))
  BY <1>2, <1>3 DEF Dealt
<1>5. Rest(p) <= t /\ p.pool = b + Rest(p)
  BY <1>1, <1>2, <1>3
<1> QED
  BY <1>1, <1>4, <1>5

LEMMA FirstSeats ==
    ASSUME NEW p \in Plan, Accepted(p), NEW seat \in Seatings(p.winners)
    PROVE  \A m \in 0 .. p.winners :
              LET seated == {seat[k] : k \in 1 .. m}
              IN  /\ IsFiniteSet(seated)
                  /\ SumFunctionOnSet(SharesOf(p, seat), seated) = Dealt(p, m)
<1> DEFINE seated(m) == {seat[k] : k \in 1 .. m}
           f == SharesOf(p, seat)
           Good == {m \in Nat : m <= p.winners =>
                       /\ IsFiniteSet(seated(m))
                       /\ SumFunctionOnSet(f, seated(m)) = Dealt(p, m)}
<1>1. p.winners \in Nat
  BY DEF Plan
<1> HIDE DEF f
<1>2. 0 \in Good
  <2>1. seated(0) = {}
    OBVIOUS
  <2>2. Dealt(p, 0) = 0
    BY PlanArithmetic DEF Dealt
  <2> QED
    BY <2>1, <2>2, SumEmpty, FS_EmptySet
<1>3. ASSUME NEW m \in Nat, m \in Good PROVE m + 1 \in Good
  <2> SUFFICES ASSUME m + 1 <= p.winners
               PROVE  /\ IsFiniteSet(seated(m + 1))
                      /\ SumFunctionOnSet(f, seated(m + 1)) = Dealt(p, m + 1)
    OBVIOUS
  <2> DEFINE x == seat[m + 1]
  <2>1. IsFiniteSet(seated(m)) /\ SumFunctionOnSet(f, seated(m)) = Dealt(p, m)
    BY <1>1, <1>3
  <2>2. /\ m + 1 \in 1 .. p.winners
        /\ 1 .. (m + 1) = (1 .. m) \cup {m + 1}
        /\ \A k \in 1 .. (m + 1) : k \in 1 .. p.winners /\ k \in Nat
        /\ \A k \in 1 .. m : k \in 1 .. p.winners /\ k # m + 1
    BY <1>1
  <2>3. seated(m + 1) = seated(m) \cup {x}
    BY <2>2
  <2>4. x \notin seated(m)
    BY <2>2 DEF Seatings
  <2>5. \A k \in 1 .. (m + 1) : f[seat[k]] = Share(p, k) /\ Share(p, k) \in Int
    <3>1. \A k \in 1 .. (m + 1) : f[seat[k]] = Share(p, k)
      BY <2>2, SeatedShare DEF f
    <3>2. \A k \in 1 .. (m + 1) : Share(p, k) \in Nat
      BY <2>2, ShareIsAmount
    <3> QED
      BY <3>1, <3>2
  <2>6. \A y \in seated(m) \cup {x} : f[y] \in Int
    BY <2>3, <2>5
  <2>7. f[x] = Share(p, m + 1)
    BY <2>2, <2>5
  <2> HIDE DEF seated, Good, x
  <2>8. SumFunctionOnSet(f, seated(m + 1)) = Share(p, m + 1) + Dealt(p, m)
    BY <2>1, <2>3, <2>4, <2>6, <2>7, SumAdd
  <2>9. IsFiniteSet(seated(m) \cup {x})
    BY <2>1, FS_AddElement
  <2> QED
    BY <2>3, <2>8, <2>9, NextSeat
<1>4. Nat \subseteq Good
  <2> HIDE DEF Good
  <2> QED
    BY <1>2, <1>3, NumberInduction
<1>5. ASSUME NEW m \in 0 .. p.winners
      PROVE  IsFiniteSet(seated(m)) /\ SumFunctionOnSet(f, seated(m)) = Dealt(p, m)
  <2>1. m \in Nat /\ m <= p.winners
    BY <1>1
  <2>2. m \in Good
    BY <1>4, <2>1
  <2> QED
    BY <2>1, <2>2
<1> QED
  BY <1>5 DEF f

(* So all seats together receive the pool. *)
LEMMA SeatsTakeThePool ==
    ASSUME NEW p \in Plan, Accepted(p), NEW seat \in Seatings(p.winners)
    PROVE  LET all == {seat[k] : k \in 1 .. p.winners}
           IN  /\ IsFiniteSet(all)
               /\ SumFunctionOnSet(SharesOf(p, seat), all) = p.pool
<1>1. p.winners \in Nat
  BY DEF Plan
<1>2. p.winners \in 0 .. p.winners
  BY <1>1
<1> QED
  BY <1>2, FirstSeats, AllDealt

(***************************************************************************)
(* A draw on record was accepted, seated and divided by giveaway_execute,  *)
(* and its key was used for no other.                                      *)
(***************************************************************************)
DrawOK(g) ==
    /\ Accepted(draws[g].plan)
    /\ \E seat \in Seatings(draws[g].plan.winners) :
          draws[g].share = SharesOf(draws[g].plan, seat)

KeysOnce ==
    \A g, h \in Giveaways :
        draws[g] # NoDraw /\ draws[h] # NoDraw
          /\ <<draws[g].actor, draws[g].key>> = <<draws[h].actor, draws[h].key>>
        => g = h

DrawsOK == KeysOnce /\ \A g \in Giveaways : draws[g] # NoDraw => DrawOK(g)

(* Every step keeps it. *)
LEMMA StepDraws == IInv /\ DrawsOK /\ [Next]_vars => DrawsOK'
<1> SUFFICES ASSUME IInv, DrawsOK, [Next]_vars PROVE DrawsOK'
  OBVIOUS
<1>1. CASE UNCHANGED draws
  BY <1>1 DEF DrawsOK, KeysOnce, DrawOK
<1>2. ASSUME NEW a \in Operators, NEW key \in Keys, NEW g \in Giveaways,
             NEW p \in Plans, NEW seat \in Seatings(p.winners),
             RunGiveaway(a, key, g, p, seat)
      PROVE  DrawsOK'
  <2>1. /\ draws[g] = NoDraw /\ Accepted(p) /\ KeyUnused(a, key)
        /\ draws'[g].actor = a /\ draws'[g].key = key
        /\ draws'[g].plan = p /\ draws'[g].share = SharesOf(p, seat)
        /\ \A h \in Giveaways \ {g} : draws'[h] = draws[h]
    BY <1>2 DEF RunGiveaway, IInv, TypeOK
  <2>2. \A h \in Giveaways : draws'[h] # NoDraw => DrawOK(h)'
    BY <2>1 DEF DrawsOK, DrawOK
  <2>3. KeysOnce'
    BY <2>1 DEF DrawsOK, KeysOnce, KeyUnused
  <2> QED
    BY <2>2, <2>3 DEF DrawsOK
<1> QED
  BY <1>1, <1>2 DEF Next, vars, voucherVars, RequestDeposit, ClaimDeposit,
     ReleaseClaim, RejectDeposit, ApproveDeposit, Redeem, ArchiveVoucher, RestoreVoucher

(***************************************************************************)
(* What the ledger pays a user for a giveaway is the share of the draw:    *)
(* the one row of its source if the share is positive, no row otherwise.   *)
(***************************************************************************)
LEMMA PaidIsShare ==
    ASSUME IInv, NEW g \in Giveaways, draws[g] # NoDraw, NEW u \in Users
    PROVE  PaidBy(g, u) = draws[g].share[u] /\ draws[g].share[u] \in Nat
<1> DEFINE source == Source("giveaway", <<g, u>>)
           amountOf == [i \in DOMAIN ledger[u] |-> ledger[u][i].amount]
           rows == {i \in DOMAIN ledger[u] : ledger[u][i].source = source}
<1> PICK n : n = draws[g].share[u]
  OBVIOUS
<1>1. n \in Nat
  BY DEF IInv, TypeOK, Draw
<1>2. PaidBy(g, u) = SumFunctionOnSet(amountOf, rows)
  BY DEF PaidBy
<1>3. PaidOnce /\ Paid(u) = Due(u)
  BY DEF IInv, CreditsMatchDecisions
<1>4. ASSUME NEW i \in rows PROVE n > 0 /\ ledger[u][i].amount = n
  <2>1. Entry(u, i) \in Due(u) /\ Entry(u, i).source = source
    BY <1>3, <1>4 DEF Paid, Entry
  <2>2. Entry(u, i) \notin DueDeposits(u) \cup DueVouchers(u)
    BY <2>1 DEF DueDeposits, DueVouchers, Credit, Source
  <2>3. PICK h \in Giveaways :
           /\ draws[h].share[u] > 0
           /\ Entry(u, i) = Credit(Source("giveaway", <<h, u>>), draws[h].share[u])
    BY <2>1, <2>2 DEF Due, DueShares
  <2>4. h = g
    BY <2>1, <2>3 DEF Credit, Source
  <2> QED
    BY <2>3, <2>4 DEF Credit, Entry
<1>5. CASE n = 0
  <2>1. rows = {}
    BY <1>4, <1>5
  <2> QED
    BY <1>1, <1>2, <1>5, <2>1, SumEmpty
<1>6. CASE n > 0
  <2>1. Credit(source, n) \in Paid(u)
    BY <1>3, <1>6 DEF Due, DueShares
  <2>2. PICK i \in DOMAIN ledger[u] : Entry(u, i) = Credit(source, n)
    BY <2>1 DEF Paid
  <2>3. i \in rows
    BY <2>2 DEF Entry, Credit
  <2>4. rows = {i}
    BY <1>3, <2>3 DEF PaidOnce
  <2>5. amountOf[i] = n
    BY <1>4, <2>3
  <2>6. SumFunctionOnSet(amountOf, {} \cup {i}) =
           amountOf[i] + SumFunctionOnSet(amountOf, {})
    <3>1. \A j \in {} \cup {i} : amountOf[j] \in Int
      BY <1>1, <2>5
    <3>2. IsFiniteSet({}) /\ i \notin {}
      BY FS_EmptySet
    <3> HIDE DEF amountOf
    <3> QED
      BY <3>1, <3>2, SumAdd
  <2>7. {} \cup {i} = rows
    BY <2>4
  <2> HIDE DEF amountOf, rows
  <2> QED
    BY <1>1, <1>2, <2>5, <2>6, <2>7, SumEmpty
<1> QED
  BY <1>1, <1>5, <1>6

(* The recipients of a draw on record receive its pool. *)
LEMMA RecipientsTakeThePool ==
    ASSUME IInv, NEW g \in Giveaways, draws[g] # NoDraw, DrawOK(g)
    PROVE  /\ SumFunctionOnSet([u \in Users |-> PaidBy(g, u)], Recipients(g))
                = draws[g].plan.pool
           /\ \A u \in Users : PaidBy(g, u) \in
                 {0} \cup draws[g].plan.min .. draws[g].plan.max
<1> DEFINE paid == [u \in Users |-> PaidBy(g, u)]
<1> PICK p \in Plan : p = draws[g].plan
  BY PlansAssumption DEF IInv, TypeOK, Draw
<1> PICK seat \in Seatings(p.winners) : draws[g].share = SharesOf(p, seat)
  BY DEF DrawOK
<1> DEFINE seated == {seat[k] : k \in 1 .. p.winners}
           share == SharesOf(p, seat)
<1>1. Accepted(p) /\ p.winners \in Nat
  BY DEF DrawOK, Plan
<1>2. \A u \in Users : PaidBy(g, u) = share[u] /\ share[u] \in Nat
  BY PaidIsShare
<1>3. IsFiniteSet(seated) /\ SumFunctionOnSet(share, seated) = p.pool
  BY <1>1, SeatsTakeThePool
<1>4. /\ \A k \in 1 .. p.winners : seat[k] \in Users /\ share[seat[k]] = Share(p, k)
      /\ \A u \in Users : u \notin seated => share[u] = 0
  BY SeatedShare
<1>5. \A u \in Users : share[u] \in {0} \cup p.min .. p.max
  <2>1. ASSUME NEW k \in 1 .. p.winners PROVE Share(p, k) \in p.min .. p.max
    <3>1. k - 1 \in Nat /\ (k - 1) + 1 = k
      BY <1>1
    <3>2. Share(p, (k - 1) + 1) \in p.min .. p.max
      BY <1>1, <3>1, ShareByGaps
    <3> QED
      BY <3>1, <3>2
  <2> QED
    BY <1>4, <2>1
<1> HIDE DEF share
<1>6. SumFunctionOnSet(paid, Recipients(g)) = p.pool
  <2> PICK zeros : zeros = seated \ Recipients(g)
    OBVIOUS
  <2>1. Recipients(g) \cup zeros = seated /\ Recipients(g) \subseteq Users
    BY <1>2, <1>4 DEF Recipients
  <2>2. IsFiniteSet(Recipients(g)) /\ IsFiniteSet(zeros)
    BY <1>3, <2>1, FS_Subset
  <2>3. \A u \in zeros : u \notin Recipients(g) /\ share[u] = 0
    BY <1>2, <1>4 DEF Recipients
  <2>4. \A u \in Recipients(g) : share[u] \in Int /\ paid[u] = share[u]
    BY <1>2 DEF Recipients
  <2> HIDE DEF paid, seated
  <2>5. SumFunctionOnSet(paid, Recipients(g)) = SumFunctionOnSet(share, Recipients(g))
    BY <2>2, <2>4, SumCongruent
  <2>6. SumFunctionOnSet(share, Recipients(g) \cup zeros)
           = SumFunctionOnSet(share, Recipients(g))
    BY <2>2, <2>3, <2>4, SumWithoutZeros
  <2> QED
    BY <1>3, <2>1, <2>5, <2>6
<1> QED
  BY <1>2, <1>5, <1>6

(***************************************************************************)
(* A giveaway pays out its pool exactly, every winner within the bounds of *)
(* the request, and a key draws once: for every number of members, winners *)
(* and giveaways, as the rows of the ledger have it.                       *)
(***************************************************************************)
THEOREM PoolIsPaidOut == Spec => []GiveawayPaysItsPool
<1>1. Init => DrawsOK
  BY DEF Init, DrawsOK, KeysOnce
<1>2. IInv /\ DrawsOK /\ [Next]_vars => DrawsOK'
  BY StepDraws
<1>3. IInv /\ DrawsOK => GiveawayPaysItsPool
  <2> SUFFICES ASSUME IInv, DrawsOK, NEW g \in Giveaways, draws[g] # NoDraw
               PROVE  /\ SumFunctionOnSet([u \in Users |-> PaidBy(g, u)], Recipients(g))
                            = draws[g].plan.pool
                      /\ \A u \in Users : PaidBy(g, u) \in
                            {0} \cup draws[g].plan.min .. draws[g].plan.max
                      /\ \A h \in Giveaways \ {g} :
                            draws[h] # NoDraw => <<draws[h].actor, draws[h].key>>
                                                   # <<draws[g].actor, draws[g].key>>
    BY DEF GiveawayPaysItsPool
  <2>1. DrawOK(g) /\ KeysOnce
    BY DEF DrawsOK
  <2> QED
    BY <2>1, RecipientsTakeThePool DEF KeysOnce
<1> QED
  BY <1>1, <1>2, <1>3, InvariantHolds, PTL DEF Spec
-----------------------------------------------------------------------------
(***************************************************************************)
(* The loop that deals the pool out (GiveawaySplit).  While something      *)
(* remains, the seats before the turn are full, the others hold the        *)
(* minimum, and the remainder is what Share leaves for the seat in turn;   *)
(* once nothing remains, every seat holds its Share.  So the loop stays    *)
(* in its first round.                                                     *)
(***************************************************************************)
SplitInv ==
    /\ plan \in Plan /\ Accepted(plan)
    /\ amounts \in [Seats -> Nat] /\ remainder \in Nat /\ turn \in Seats
    /\ remainder > 0 =>
          /\ remainder = LeftFor(plan, turn + 1)
          /\ \A k \in Seats : amounts[k] = IF k < turn THEN plan.max ELSE plan.min
    /\ remainder = 0 => \A k \in Seats : amounts[k] = Share(plan, k + 1)
    /\ SumFunctionOnSet(amounts, Seats) + remainder = plan.pool

(* The same amount for the first n seats. *)
LEMMA SumOfEquals ==
    ASSUME NEW n \in Nat, NEW c \in Nat, NEW f, \A k \in 0 .. (n - 1) : f[k] = c
    PROVE  SumFunctionOnSet(f, 0 .. (n - 1)) = n * c
<1> DEFINE Good == {m \in Nat : m <= n =>
                       /\ IsFiniteSet(0 .. (m - 1))
                       /\ SumFunctionOnSet(f, 0 .. (m - 1)) = m * c}
<1>1. 0 \in Good
  <2>1. 0 .. (0 - 1) = {}
    OBVIOUS
  <2> QED
    BY <2>1, SumEmpty, FS_EmptySet
<1>2. ASSUME NEW m \in Nat, m \in Good PROVE m + 1 \in Good
  <2> SUFFICES ASSUME m + 1 <= n
               PROVE  /\ IsFiniteSet(0 .. ((m + 1) - 1))
                      /\ SumFunctionOnSet(f, 0 .. ((m + 1) - 1)) = (m + 1) * c
    OBVIOUS
  <2>1. /\ 0 .. ((m + 1) - 1) = (0 .. (m - 1)) \cup {m}
        /\ m \notin 0 .. (m - 1)
        /\ \A k \in (0 .. (m - 1)) \cup {m} : k \in 0 .. (n - 1)
    OBVIOUS
  <2> PICK S : S = 0 .. (m - 1)
    OBVIOUS
  <2>2. IsFiniteSet(S) /\ SumFunctionOnSet(f, S) = m * c
    BY <1>2
  <2>3. \A k \in S \cup {m} : f[k] = c /\ f[k] \in Int
    BY <2>1
  <2>4. SumFunctionOnSet(f, S \cup {m}) = c + m * c
    <3>1. m \notin S /\ f[m] = c
      BY <2>1, <2>3
    <3>2. SumFunctionOnSet(f, S \cup {m}) = f[m] + SumFunctionOnSet(f, S)
      BY <2>2, <2>3, <3>1, SumAdd
    <3> QED
      BY <2>2, <3>1, <3>2
  <2>5. IsFiniteSet(S \cup {m})
    BY <2>2, FS_AddElement
  <2>6. (m + 1) * c = c + m * c
    BY OneMore
  <2> QED
    BY <2>1, <2>4, <2>5, <2>6
<1>3. Nat \subseteq Good
  <2> HIDE DEF Good
  <2> QED
    BY <1>1, <1>2, NumberInduction
<1>4. n \in Good
  BY <1>3
<1> QED
  BY <1>4

LEMMA SplitStarts == SplitInit => SplitInv
<1> SUFFICES ASSUME SplitInit PROVE SplitInv
  OBVIOUS
<1>1. /\ plan \in Plan /\ Accepted(plan)
      /\ amounts = [k \in Seats |-> plan.min]
      /\ remainder = plan.pool - plan.min * plan.winners
      /\ turn = 0
  BY PlansAssumption DEF SplitInit
<1>2. /\ plan.winners \in Nat /\ plan.min \in Nat /\ plan.pool \in Nat
      /\ Gap(plan) \in Nat /\ Rest(plan) \in Nat
      /\ remainder = Rest(plan)
  BY <1>1, PlanArithmetic DEF Rest
<1>3. plan.winners > 0
  BY <1>1 DEF Accepted
<1>4. amounts \in [Seats -> Nat] /\ turn \in Seats
  BY <1>1, <1>2, <1>3 DEF Seats
<1>5. remainder = LeftFor(plan, turn + 1)
  <2>1. 0 * Gap(plan) = 0
    BY <1>2
  <2>2. LeftFor(plan, 0 + 1) = Rest(plan) - 0 * Gap(plan)
    BY <1>1, ShareByGaps
  <2> QED
    BY <1>1, <1>2, <2>1, <2>2
<1>6. \A k \in Seats : amounts[k] = IF k < turn THEN plan.max ELSE plan.min
  BY <1>1, <1>2 DEF Seats
<1>7. ASSUME remainder = 0, NEW k \in Seats PROVE amounts[k] = Share(plan, k + 1)
  <2>1. k \in Nat
    BY <1>2 DEF Seats
  <2>2. Share(plan, k + 1) = plan.min
    <3>1. k * Gap(plan) \in Nat
      BY <1>1, <2>1, ShareByGaps
    <3>2. Rest(plan) <= k * Gap(plan)
      BY <1>2, <1>7, <3>1
    <3>3. Share(plan, k + 1) = plan.min + 0
      BY <1>1, <2>1, <3>2, ShareByGaps
    <3> QED
      BY <1>2, <3>3
  <2> QED
    BY <1>1, <2>2
<1>8. SumFunctionOnSet(amounts, Seats) + remainder = plan.pool
  <2>1. SumFunctionOnSet(amounts, 0 .. (plan.winners - 1)) = plan.winners * plan.min
    <3>1. \A k \in 0 .. (plan.winners - 1) : amounts[k] = plan.min
      BY <1>1 DEF Seats
    <3> QED
      BY <1>2, <3>1, SumOfEquals
  <2>2. PICK b \in Nat : b = plan.winners * plan.min /\ b = plan.min * plan.winners
    BY <1>2
  <2> QED
    BY <1>1, <1>2, <2>1, <2>2 DEF Seats
<1> QED
  BY <1>1, <1>2, <1>4, <1>5, <1>6, <1>7, <1>8 DEF SplitInv

(* Later seats come after more gaps. *)
LEMMA MoreSeats ==
    ASSUME NEW j \in Nat, NEW k \in Nat, NEW g \in Nat, j + 1 <= k
    PROVE  (j + 1) * g <= k * g
<1>1. PICK d \in Nat : k = (j + 1) + d
  <2>1. k - (j + 1) \in Nat /\ k = (j + 1) + (k - (j + 1))
    OBVIOUS
  <2> QED
    BY <2>1
<1>2. k * g = (j + 1) * g + d * g
  BY <1>1
<1>3. d * g \in Nat /\ (j + 1) * g \in Nat
  OBVIOUS
<1> QED
  BY <1>2, <1>3

(* A turn of the loop. *)
LEMMA DealKeeps == SplitInv /\ [Deal]_splitVars => SplitInv'
<1> SUFFICES ASSUME SplitInv, Deal PROVE SplitInv'
  BY DEF SplitInv, splitVars, Seats
<1>1. /\ plan \in Plan /\ Accepted(plan) /\ plan' = plan
      /\ amounts \in [Seats -> Nat] /\ remainder \in Nat /\ turn \in Seats
      /\ remainder > 0
      /\ remainder = LeftFor(plan, turn + 1)
      /\ \A k \in Seats : amounts[k] = IF k < turn THEN plan.max ELSE plan.min
      /\ SumFunctionOnSet(amounts, Seats) + remainder = plan.pool
  BY DEF SplitInv, Deal
<1>2. /\ plan.winners \in Nat /\ plan.min \in Nat /\ plan.pool \in Nat
      /\ Gap(plan) \in Nat /\ Rest(plan) \in Nat
      /\ plan.max = plan.min + Gap(plan)
      /\ Rest(plan) <= plan.winners * Gap(plan)
  BY <1>1, PlanArithmetic
<1>3. turn \in Nat /\ turn < plan.winners /\ \A k \in Seats : k \in Nat /\ k < plan.winners
  BY <1>1, <1>2 DEF Seats
<1>4. PICK g \in Nat : g = Gap(plan)
  BY <1>2
<1>5. PICK t \in Nat : t = turn * g /\ (turn + 1) * g = t + g
  BY <1>3, OneMore
<1>6. remainder = Rest(plan) - t
  BY <1>1, <1>3, <1>4, <1>5, ShareByGaps
<1>7. Take = IF remainder < g THEN remainder ELSE g
  <2>1. amounts[turn] = plan.min
    BY <1>1, <1>3
  <2>2. Capacity = g
    BY <1>2, <1>4, <2>1 DEF Capacity
  <2> QED
    BY <2>2 DEF Take
<1>8. /\ amounts' = [amounts EXCEPT ![turn] = plan.min + Take]
      /\ remainder' = remainder - Take
      /\ Seats' = Seats
      /\ Take \in Nat /\ remainder' \in Nat
  <2>1. amounts[turn] = plan.min
    BY <1>1, <1>3
  <2> QED
    BY <1>1, <1>7, <2>1 DEF Deal, Seats
<1>9. amounts' \in [Seats -> Nat]
  BY <1>1, <1>2, <1>8
<1>10. turn' \in Seats
  <2>1. (turn + 1) % plan.winners \in 0 .. (plan.winners - 1)
    BY <1>2, <1>3
  <2> QED
    BY <2>1 DEF Deal, Seats
<1>11. SumFunctionOnSet(amounts', Seats) + remainder' = plan.pool
  <2>1. IsFiniteSet(Seats)
      <3>1. 0 \in Int /\ plan.winners - 1 \in Int
      BY <1>2
    <3> QED
      BY <3>1, FS_Interval DEF Seats
  <2>2. \A k \in Seats : amounts[k] \in Int /\ amounts'[k] \in Int
    BY <1>1, <1>9
  <2>3. \A k \in Seats \ {turn} : amounts[k] = amounts'[k]
    BY <1>1, <1>8
  <2>4. amounts[turn] = plan.min /\ amounts'[turn] = plan.min + Take
    BY <1>1, <1>3, <1>8
  <2>5. SumFunctionOnSet(amounts', Seats)
           = SumFunctionOnSet(amounts, Seats) - amounts[turn] + amounts'[turn]
    BY <1>1, <2>1, <2>2, <2>3, SumChange
  <2>6. SumFunctionOnSet(amounts, Seats) \in Int
    BY <2>1, <2>2, SumType
  <2> QED
    BY <1>1, <1>2, <1>8, <2>4, <2>5, <2>6
<1>12. ASSUME NEW k \in Seats
       PROVE  /\ k * g \in Nat
              /\ k < turn => k * g + g <= t
              /\ k > turn => t + g <= k * g
              /\ Share(plan, k + 1) =
                   plan.min + (IF Rest(plan) <= k * g THEN 0
                               ELSE IF Rest(plan) - k * g < g THEN Rest(plan) - k * g
                               ELSE g)
  <2>1. k \in Nat
    BY <1>3
  <2>2. k * g \in Nat /\ (k + 1) * g = k * g + g
    BY <2>1, OneMore
  <2>3. k < turn => (k + 1) * g <= turn * g
    BY <1>3, <2>1, MoreSeats
  <2>4. k > turn => (turn + 1) * g <= k * g
    BY <1>3, <2>1, MoreSeats
  <2>5. Share(plan, k + 1) =
           plan.min + (IF Rest(plan) <= k * g THEN 0
                       ELSE IF Rest(plan) - k * g < g THEN Rest(plan) - k * g
                       ELSE g)
    BY <1>1, <1>4, <2>1, ShareByGaps
  <2> QED
    BY <1>5, <2>2, <2>3, <2>4, <2>5
<1>13. CASE remainder > g
  <2>1. remainder' = remainder - g /\ remainder' > 0 /\ Take = g
    BY <1>7, <1>8, <1>13
  <2>2. turn + 1 < plan.winners
    <3>2. plan.winners \in Nat
      BY <1>2
    <3> SUFFICES ASSUME turn + 1 = plan.winners PROVE FALSE
      BY <1>3, <3>2
    <3>1. plan.winners * Gap(plan) = t + g
      BY <1>4, <1>5
    <3> QED
      BY <1>2, <1>6, <1>13, <3>1
  <2>3. turn' = turn + 1
    <3>1. (turn + 1) % plan.winners = turn + 1
      BY <1>2, <1>3, <2>2
    <3> QED
      BY <3>1 DEF Deal
  <2>4. remainder' = LeftFor(plan, turn' + 1)
    <3>1. LeftFor(plan, (turn + 1) + 1) = Rest(plan) - (turn + 1) * Gap(plan)
      BY <1>1, <1>3, ShareByGaps
    <3> QED
      BY <1>2, <1>4, <1>5, <1>6, <2>1, <2>3, <3>1
  <2>5. \A k \in Seats : amounts'[k] = IF k < turn' THEN plan.max ELSE plan.min
    <3> SUFFICES ASSUME NEW k \in Seats
                 PROVE  amounts'[k] = IF k < turn' THEN plan.max ELSE plan.min
      OBVIOUS
    <3>1. CASE k = turn
      BY <1>1, <1>2, <1>3, <1>4, <1>8, <2>1, <2>3, <3>1
    <3>2. CASE k # turn
      <4>1. amounts'[k] = amounts[k]
        BY <1>1, <1>8, <3>2
      <4> QED
        BY <1>1, <1>3, <2>3, <3>2, <4>1
    <3> QED
      BY <3>1, <3>2
  <2> QED
    BY <1>1, <1>8, <1>9, <1>10, <1>11, <2>1, <2>4, <2>5 DEF SplitInv
<1>14. CASE remainder <= g
  <2>1. remainder' = 0 /\ Take = remainder
    BY <1>1, <1>7, <1>8, <1>14
  <2>2. ASSUME NEW k \in Seats PROVE amounts'[k] = Share(plan, k + 1)
    <3>1. CASE k = turn
      <4>1. amounts'[k] = plan.min + remainder
        BY <1>1, <1>8, <2>1, <3>1
      <4>2. k * g = t
        BY <1>5, <3>1
      <4> QED
        BY <1>1, <1>2, <1>6, <1>12, <1>14, <4>1, <4>2
    <3>2. CASE k < turn
      <4>1. amounts'[k] = plan.min + g
        BY <1>1, <1>2, <1>3, <1>4, <1>8, <3>2
      <4> QED
        BY <1>1, <1>2, <1>6, <1>12, <3>2, <4>1
    <3>3. CASE k > turn
      <4>1. amounts'[k] = plan.min
        BY <1>1, <1>3, <1>8, <3>3
      <4> QED
        BY <1>1, <1>2, <1>6, <1>12, <1>14, <3>3, <4>1
    <3> QED
      BY <1>3, <3>1, <3>2, <3>3
  <2> QED
    BY <1>1, <1>8, <1>9, <1>10, <1>11, <2>1, <2>2 DEF SplitInv
<1> QED
  BY <1>1, <1>4, <1>13, <1>14

(***************************************************************************)
(* The loop deals the pool out within the bounds, at every turn, and ends  *)
(* with the closed form Share, whatever the totals of the request: the     *)
(* check after the loop never refuses.                                     *)
(***************************************************************************)
THEOREM LoopDealsShares == SplitSpec => []SplitOK
<1>1. SplitInv => SplitOK
  <2> SUFFICES ASSUME SplitInv, NEW k \in Seats
               PROVE  amounts[k] \in plan.min .. plan.max
    BY DEF SplitInv, SplitOK
  <2>1. plan.min \in Nat /\ plan.max \in Nat /\ plan.min <= plan.max /\ k \in Nat
    BY DEF SplitInv, Plan, Accepted, Seats
  <2>2. Share(plan, k + 1) \in plan.min .. plan.max
    BY <2>1, ShareByGaps DEF SplitInv
  <2>3. remainder = 0 \/ remainder > 0
    BY DEF SplitInv
  <2> QED
    BY <2>1, <2>2, <2>3 DEF SplitInv
<1> QED
  BY <1>1, SplitStarts, DealKeeps, PTL DEF SplitSpec

(***************************************************************************)
(* No turn of the loop is wasted: the seat whose turn it is always has     *)
(* room, so every turn makes the remainder smaller.  The skip of a full    *)
(* winner that the source writes never happens, and the remainder bounds   *)
(* the turns that are left.                                                *)
(***************************************************************************)
THEOREM NoTurnIsWasted ==
    SplitSpec => [][remainder' < remainder /\ remainder' >= 0]_splitVars
<1>1. SplitInv /\ [Deal]_splitVars => [remainder' < remainder /\ remainder' >= 0]_splitVars
  <2> SUFFICES ASSUME SplitInv, Deal
               PROVE  remainder' < remainder /\ remainder' >= 0
    OBVIOUS
  <2>1. /\ plan \in Plan /\ Accepted(plan) /\ remainder \in Nat /\ remainder > 0
        /\ turn \in Seats
        /\ remainder = LeftFor(plan, turn + 1)
        /\ \A k \in Seats : amounts[k] = IF k < turn THEN plan.max ELSE plan.min
        /\ remainder' = remainder - Take
    BY DEF SplitInv, Deal
  <2>2. /\ plan.winners \in Nat /\ plan.min \in Nat /\ Gap(plan) \in Nat
        /\ Rest(plan) \in Nat
        /\ plan.max = plan.min + Gap(plan)
        /\ Rest(plan) <= plan.winners * Gap(plan)
    BY <2>1, PlanArithmetic
  <2>3. turn \in Nat
    BY <2>1, <2>2 DEF Seats
  <2>4. remainder = Rest(plan) - turn * Gap(plan) /\ turn * Gap(plan) \in Nat
    BY <2>1, <2>3, ShareByGaps
  <2>5. Gap(plan) > 0
    <3> SUFFICES ASSUME Gap(plan) = 0 PROVE FALSE
      BY <2>2
    <3>1. plan.winners * Gap(plan) = 0
      BY <2>2
    <3> QED
      BY <2>1, <2>2, <2>4, <3>1
  <2>6. Capacity = Gap(plan)
    <3>1. amounts[turn] = plan.min
      BY <2>1, <2>3
    <3> QED
      BY <2>2, <3>1 DEF Capacity
  <2> QED
    BY <2>1, <2>2, <2>5, <2>6 DEF Take
<1> QED
  BY <1>1, SplitStarts, DealKeeps, PTL DEF SplitSpec
=============================================================================
