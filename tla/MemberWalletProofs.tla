------------------------- MODULE MemberWalletProofs -------------------------
(***************************************************************************)
(* Proofs about MemberWallet, for every set of members, orders, operators, *)
(* keys and providers and for every price, discount and limit.             *)
(***************************************************************************)
EXTENDS MemberWallet, LedgerBookProofs

(***************************************************************************)
(* The sources the handlers build are sources of the book, and only those  *)
(* of adjust_balance are not rows of an order.                             *)
(***************************************************************************)
PlainKinds == {"transaction", "open-api", "legacy", "transaction-refund",
               "webhook-refund", "webhook-correction"}

(* The sources of checkout, refund and callback postings name their order. *)
LEMMA OrderSourceOK ==
    ASSUME NEW o \in Orders, NEW k \in PlainKinds
    PROVE  /\ Source(k, o, <<>>) \in Sources
           /\ Source(k, o, <<>>).kind # "balance-adjust"
           /\ Source(k, o, <<>>).subject = o
           /\ Source(k, o, <<>>) \notin AdjustSources
BY SourceAssumption DEF Source, OrderSources, AdjustSources, PlainKinds

(* So do the sources of status edits. *)
LEMMA StatusSourceOK ==
    ASSUME NEW o \in Orders, NEW from \in Statuses, NEW to \in Statuses
    PROVE  LET s == Source("transaction-status", o, <<from, to>>)
           IN  /\ s \in Sources
               /\ s.kind # "balance-adjust"
               /\ s.subject = o
               /\ s \notin AdjustSources
<1>1. <<from, to>> \in Statuses \X Statuses
  OBVIOUS
<1> QED
  BY <1>1, SourceAssumption DEF Source, OrderSources, AdjustSources

(* The source of an adjustment names no order. *)
LEMMA AdjustSourceOK ==
    ASSUME NEW a \in Staff, NEW k \in Keys
    PROVE  LET s == Source("balance-adjust", <<a, k>>, <<>>)
           IN  /\ s \in Sources
               /\ s.kind = "balance-adjust"
               /\ s \in AdjustSources
<1>1. <<a, k>> \in Staff \X Keys
  OBVIOUS
<1> QED
  BY <1>1, SourceAssumption DEF Source, AdjustSources

(* Where the rows before and after a row are, when a row may be added. *)
LEMMA RowsAround ==
    ASSUME NEW n \in Nat, NEW m \in {n, n + 1}, NEW i \in 1 .. n
    PROVE  /\ \A k \in 1 .. (i - 1) : k \in 1 .. n
           /\ \A k \in (i + 1) .. n : k \in 1 .. n
           /\ \A k \in (i + 1) .. n : k \in (i + 1) .. m
OBVIOUS

(***************************************************************************)
(* One posting for an order, alternating with `refunded`, continues the    *)
(* ledger's story of that order and leaves every other story alone.        *)
(***************************************************************************)
LEMMA StoryMove ==
    ASSUME BookTypeOK, OrderMoneyStory, HeaderOK, HeaderOK',
           NEW o \in Orders, NEW u \in Users, NEW s \in Sources,
           NEW d \in {-1, 1}, NEW n \in Nat,
           Post(u, s, d, n),
           s.kind # "balance-adjust", s.subject = o,
           status'[o] # "absent", header'[o].owner = u, header'[o].amount = n,
           status[o] # "absent" => header'[o] = header[o],
           d = 1 => status[o] # "absent" /\ ~refunded[o],
           d = -1 => status[o] = "absent" \/ refunded[o],
           d = 1 => refunded'[o],
           d = -1 => ~refunded'[o],
           \A q \in Orders \ {o} :
              /\ header'[q] = header[q]
              /\ refunded'[q] = refunded[q]
              /\ status'[q] = "absent" <=> status[q] = "absent"
    PROVE  OrderMoneyStory'
<1> SUFFICES ASSUME NEW N, N = Len(ledger[u]) PROVE OrderMoneyStory'
  OBVIOUS
<1>1. /\ BookTypeOK'
      /\ Len(ledger'[u]) = N + 1
      /\ ledger'[u][N + 1] = [source |-> s, direction |-> d, amount |-> n,
                              after |-> balance[u] + d * n]
      /\ \A i \in 1 .. N : ledger'[u][i] = ledger[u][i]
      /\ \A v \in Users \ {u} : ledger'[v] = ledger[v]
  BY PostAppends
<1>2. /\ N \in Nat
      /\ DOMAIN ledger'[u] = 1 .. (N + 1)
      /\ \A v \in Users : /\ Len(ledger[v]) \in Nat
                          /\ DOMAIN ledger[v] = 1 .. Len(ledger[v])
                          /\ DOMAIN ledger'[v] = 1 .. Len(ledger'[v])
  BY <1>1 DEF BookTypeOK
<1>3. /\ ledger'[u][N + 1].source = s
      /\ ledger'[u][N + 1].direction = d
      /\ ledger'[u][N + 1].amount = n
  BY <1>1
<1>4. \A q \in Orders :
        /\ RowOf(u, N + 1, q)' <=> q = o
        /\ \A v \in Users : \A i \in DOMAIN ledger[v] :
             /\ i \in DOMAIN ledger'[v]
             /\ ledger'[v][i] = ledger[v][i]
             /\ RowOf(v, i, q)' <=> RowOf(v, i, q)
  <2>1. \A q \in Orders : RowOf(u, N + 1, q)' <=> q = o
    BY <1>3 DEF RowOf
  <2>2. ASSUME NEW v \in Users, NEW i \in DOMAIN ledger[v]
        PROVE  i \in DOMAIN ledger'[v] /\ ledger'[v][i] = ledger[v][i]
    BY <1>1, <1>2
  <2>3. ASSUME NEW q \in Orders, NEW v \in Users, NEW i \in DOMAIN ledger[v]
        PROVE  RowOf(v, i, q)' <=> RowOf(v, i, q)
    BY <2>2 DEF RowOf
  <2> QED
    BY <2>1, <2>2, <2>3
<1>5. \A v \in Users : \A i \in DOMAIN ledger'[v] :
        i \in DOMAIN ledger[v] \/ (v = u /\ i = N + 1)
  <2> TAKE v \in Users
  <2> TAKE i \in DOMAIN ledger'[v]
  <2>1. CASE v = u
    BY <1>1, <1>2, <2>1
  <2>2. CASE v # u
    BY <1>1, <2>2
  <2> QED
    BY <2>1, <2>2
<1>6. \A v \in Users : \A i \in DOMAIN ledger[v] :
        ledger[v][i].direction \in {-1, 1}
  <2> TAKE v \in Users
  <2> TAKE i \in DOMAIN ledger[v]
  <2>1. ledger[v][i] \in Row
    BY <1>2 DEF BookTypeOK
  <2> QED
    BY <2>1 DEF Row
<1>7. RowsMatchOrder'
  <2> SUFFICES ASSUME NEW v \in Users, NEW q \in Orders,
                      NEW i \in DOMAIN ledger'[v], RowOf(v, i, q)'
               PROVE  /\ status'[q] # "absent"
                      /\ v = header'[q].owner
                      /\ ledger'[v][i].amount = header'[q].amount
    BY DEF RowsMatchOrder
  <2>1. CASE v = u /\ i = N + 1
    BY <1>3, <1>4, <2>1
  <2>2. CASE i \in DOMAIN ledger[v]
    <3>1. /\ status[q] # "absent"
          /\ v = header[q].owner
          /\ ledger[v][i].amount = header[q].amount
      BY <1>4, <2>2 DEF OrderMoneyStory, RowsMatchOrder
    <3> QED
      BY <1>4, <2>2, <3>1
  <2> QED
    BY <1>5, <2>1, <2>2
<1>8. RowsAlternate'
  <2> SUFFICES ASSUME NEW v \in Users, NEW q \in Orders,
                      NEW i \in DOMAIN ledger'[v], NEW j \in DOMAIN ledger'[v],
                      RowOf(v, i, q)', RowOf(v, j, q)', i < j,
                      \A k \in (i + 1) .. (j - 1) : ~RowOf(v, k, q)'
               PROVE  ledger'[v][i].direction # ledger'[v][j].direction
    BY DEF RowsAlternate
  <2>1. i \in DOMAIN ledger[v]
    BY <1>1, <1>2, <1>5
  <2>2. CASE j \in DOMAIN ledger[v]
    <3>1. \A k \in (i + 1) .. (j - 1) : k \in DOMAIN ledger[v]
      BY <1>2, <2>1, <2>2
    <3>2. \A k \in (i + 1) .. (j - 1) : ~RowOf(v, k, q)
      BY <1>4, <3>1
    <3> QED
      BY <1>4, <2>1, <2>2, <3>2 DEF OrderMoneyStory, RowsAlternate
  <2>3. CASE v = u /\ j = N + 1
    <3>1. q = o
      BY <1>4, <2>3
    <3>2. \A k \in (i + 1) .. Len(ledger[u]) : k \in DOMAIN ledger[u]
      BY <1>2, <2>1, <2>3
    <3>3. LastRow(u, i, o)
      BY <1>2, <1>4, <2>1, <2>3, <3>1, <3>2 DEF LastRow
    <3>4. ledger[u][i].direction = 1 <=> refunded[o]
      BY <2>1, <2>3, <3>3 DEF OrderMoneyStory, EndsMatchRefunded
    <3>5. status[o] # "absent"
      BY <2>1, <2>3, <3>3 DEF LastRow, OrderMoneyStory, RowsMatchOrder
    <3> QED
      BY <1>3, <1>4, <1>6, <2>1, <2>3, <3>4, <3>5
  <2> QED
    BY <1>5, <2>2, <2>3
<1>9. EndsMatchRefunded'
  <2> SUFFICES ASSUME NEW v \in Users, NEW q \in Orders, NEW i \in DOMAIN ledger'[v]
               PROVE  /\ FirstRow(v, i, q)' => ledger'[v][i].direction = -1
                      /\ LastRow(v, i, q)' =>
                            (ledger'[v][i].direction = 1 <=> refunded'[q])
    BY DEF EndsMatchRefunded
  <2>1. CASE v = u /\ i = N + 1
    <3>1. ASSUME FirstRow(v, i, q)' PROVE status[o] = "absent"
      <4>1. q = o /\ \A k \in 1 .. N : ~RowOf(u, k, o)
        BY <1>2, <1>4, <2>1, <3>1 DEF FirstRow
      <4>2. SUFFICES ASSUME status[o] # "absent" PROVE FALSE
        OBVIOUS
      <4>3. \E k \in DOMAIN ledger[u] : RowOf(u, k, o)
        BY <4>2 DEF OrderMoneyStory, PlacedIsPaid
      <4> QED
        BY <1>2, <4>1, <4>3
    <3>2. q = o \/ ~RowOf(v, i, q)'
      BY <1>4, <2>1
    <3> QED
      BY <1>3, <2>1, <3>1, <3>2 DEF FirstRow, LastRow
  <2>2. CASE i \in DOMAIN ledger[v]
    <3>1. FirstRow(v, i, q)' => FirstRow(v, i, q)
      <4>1. \A k \in 1 .. (i - 1) : k \in DOMAIN ledger[v]
        BY <1>2, <2>2
      <4> QED
        BY <1>4, <2>2, <4>1 DEF FirstRow
    <3>2. LastRow(v, i, q)' => q # o /\ LastRow(v, i, q)
      <4> SUFFICES ASSUME LastRow(v, i, q)' PROVE q # o /\ LastRow(v, i, q)
        OBVIOUS
      <4>1. RowOf(v, i, q)
        BY <1>4, <2>2 DEF LastRow
      <4>2. \A k \in (i + 1) .. Len(ledger[v]) :
              k \in DOMAIN ledger[v] /\ k \in (i + 1) .. Len(ledger'[v])
        <5>1. Len(ledger'[v]) \in {Len(ledger[v]), Len(ledger[v]) + 1}
          BY <1>1
        <5>2. Len(ledger[v]) \in Nat /\ i \in 1 .. Len(ledger[v])
          BY <1>2, <2>2
        <5> QED
          BY <1>2, <5>1, <5>2, RowsAround
      <4>3. \A k \in (i + 1) .. Len(ledger[v]) : ~RowOf(v, k, q)
        BY <1>4, <4>2 DEF LastRow
      <4>4. q # o
        <5>1. SUFFICES ASSUME q = o PROVE FALSE
          OBVIOUS
        <5>2. v = u
          BY <2>2, <4>1, <5>1 DEF OrderMoneyStory, RowsMatchOrder
        <5>3. N + 1 \in (i + 1) .. Len(ledger'[v])
          BY <1>1, <1>2, <2>2, <5>2
        <5> QED
          BY <1>4, <5>1, <5>2, <5>3 DEF LastRow
      <4> QED
        BY <4>1, <4>3, <4>4 DEF LastRow
    <3> QED
      BY <1>4, <2>2, <3>1, <3>2 DEF OrderMoneyStory, EndsMatchRefunded
  <2> QED
    BY <1>5, <2>1, <2>2
<1>10. PlacedIsPaid'
  <2> SUFFICES ASSUME NEW q \in Orders, status'[q] # "absent"
               PROVE  (\E i \in DOMAIN ledger[header[q].owner] :
                         RowOf(header[q].owner, i, q))'
    BY DEF PlacedIsPaid
  <2>1. CASE q = o
    <3>1. N + 1 \in DOMAIN ledger'[u] /\ RowOf(u, N + 1, q)'
      BY <1>2, <1>4, <2>1
    <3>2. header'[q].owner = u
      BY <2>1
    <3> QED
      BY <3>1, <3>2 DEF RowOf
  <2>2. CASE q # o
    <3>1. header[q].owner \in Users /\ header'[q] = header[q] /\ status[q] # "absent"
      BY <2>2 DEF HeaderOK
    <3>2. PICK i \in DOMAIN ledger[header[q].owner] : RowOf(header[q].owner, i, q)
      BY <3>1 DEF OrderMoneyStory, PlacedIsPaid
    <3>3. i \in DOMAIN ledger'[header[q].owner] /\ RowOf(header[q].owner, i, q)'
      BY <1>4, <3>1, <3>2 DEF RowOf
    <3> QED
      BY <3>1, <3>3 DEF RowOf
  <2> QED
    BY <2>1, <2>2
<1> QED
  BY <1>7, <1>8, <1>9, <1>10 DEF OrderMoneyStory

(***************************************************************************)
(* A balance adjustment is nobody's order, so no story moves.              *)
(***************************************************************************)
LEMMA StoryAdjust ==
    ASSUME BookTypeOK, OrderMoneyStory, HeaderOK,
           NEW u \in Users, NEW s \in Sources, NEW d \in {-1, 1}, NEW n \in Nat,
           Post(u, s, d, n),
           s.kind = "balance-adjust",
           UNCHANGED <<header, refunded, status>>
    PROVE  OrderMoneyStory'
<1> SUFFICES ASSUME NEW N, N = Len(ledger[u]) PROVE OrderMoneyStory'
  OBVIOUS
<1>1. /\ BookTypeOK'
      /\ Len(ledger'[u]) = N + 1
      /\ ledger'[u][N + 1].source = s
      /\ \A i \in 1 .. N : ledger'[u][i] = ledger[u][i]
      /\ \A v \in Users \ {u} : ledger'[v] = ledger[v]
  <2>1. ledger'[u][N + 1] = [source |-> s, direction |-> d, amount |-> n,
                             after |-> balance[u] + d * n]
    BY PostAppends
  <2> QED
    BY <2>1, PostAppends
<1>2. \A v \in Users : /\ Len(ledger[v]) \in Nat
                       /\ DOMAIN ledger[v] = 1 .. Len(ledger[v])
                       /\ DOMAIN ledger'[v] = 1 .. Len(ledger'[v])
  BY <1>1 DEF BookTypeOK
<1>3. \A q \in Orders : ~RowOf(u, N + 1, q)'
  BY <1>1 DEF RowOf
<1>4. \A q \in Orders, v \in Users : \A i \in DOMAIN ledger[v] :
         /\ i \in DOMAIN ledger'[v]
         /\ ledger'[v][i] = ledger[v][i]
         /\ RowOf(v, i, q)' <=> RowOf(v, i, q)
  <2>1. ASSUME NEW v \in Users, NEW i \in DOMAIN ledger[v]
        PROVE  i \in DOMAIN ledger'[v] /\ ledger'[v][i] = ledger[v][i]
    BY <1>1, <1>2
  <2>2. ASSUME NEW q \in Orders, NEW v \in Users, NEW i \in DOMAIN ledger[v]
        PROVE  RowOf(v, i, q)' <=> RowOf(v, i, q)
    BY <2>1 DEF RowOf
  <2> QED
    BY <2>1, <2>2
<1>5. \A v \in Users : \A i \in DOMAIN ledger'[v] :
         i \in DOMAIN ledger[v] \/ (v = u /\ i = N + 1)
  <2> TAKE v \in Users
  <2> TAKE i \in DOMAIN ledger'[v]
  <2>1. CASE v = u
    BY <1>1, <1>2, <2>1
  <2>2. CASE v # u
    BY <1>1, <2>2
  <2> QED
    BY <2>1, <2>2
<1>6. \A q \in Orders, v \in Users : \A i \in DOMAIN ledger'[v] :
         RowOf(v, i, q)' => i \in DOMAIN ledger[v]
  BY <1>3, <1>5
<1>7. RowsMatchOrder'
  BY <1>4, <1>6 DEF OrderMoneyStory, RowsMatchOrder
<1>8. RowsAlternate'
  <2> SUFFICES ASSUME NEW v \in Users, NEW q \in Orders,
                      NEW i \in DOMAIN ledger'[v], NEW j \in DOMAIN ledger'[v],
                      RowOf(v, i, q)', RowOf(v, j, q)', i < j,
                      \A k \in (i + 1) .. (j - 1) : ~RowOf(v, k, q)'
               PROVE  ledger'[v][i].direction # ledger'[v][j].direction
    BY DEF RowsAlternate
  <2>1. i \in DOMAIN ledger[v] /\ j \in DOMAIN ledger[v]
    BY <1>6
  <2>2. \A k \in (i + 1) .. (j - 1) : k \in DOMAIN ledger[v]
    BY <1>2, <2>1
  <2>3. \A k \in (i + 1) .. (j - 1) : ~RowOf(v, k, q)
    BY <1>4, <2>2
  <2> QED
    BY <1>4, <2>1, <2>3 DEF OrderMoneyStory, RowsAlternate
<1>9. EndsMatchRefunded'
  <2> SUFFICES ASSUME NEW v \in Users, NEW q \in Orders, NEW i \in DOMAIN ledger'[v],
                      RowOf(v, i, q)'
               PROVE  /\ FirstRow(v, i, q)' => ledger'[v][i].direction = -1
                      /\ LastRow(v, i, q)' =>
                            (ledger'[v][i].direction = 1 <=> refunded'[q])
    BY DEF EndsMatchRefunded, FirstRow, LastRow
  <2>1. i \in DOMAIN ledger[v]
    BY <1>6
  <2>2. /\ \A k \in 1 .. (i - 1) : k \in DOMAIN ledger[v]
        /\ \A k \in (i + 1) .. Len(ledger[v]) :
              k \in DOMAIN ledger[v] /\ k \in (i + 1) .. Len(ledger'[v])
    <3>1. Len(ledger'[v]) \in {Len(ledger[v]), Len(ledger[v]) + 1}
      BY <1>1
    <3>2. Len(ledger[v]) \in Nat /\ i \in 1 .. Len(ledger[v])
      BY <1>2, <2>1
    <3> QED
      BY <1>2, <3>1, <3>2, RowsAround
  <2>3. FirstRow(v, i, q)' => FirstRow(v, i, q)
    BY <1>4, <2>1, <2>2 DEF FirstRow
  <2>4. LastRow(v, i, q)' => LastRow(v, i, q)
    BY <1>4, <2>1, <2>2 DEF LastRow
  <2> QED
    BY <1>4, <2>1, <2>3, <2>4 DEF OrderMoneyStory, EndsMatchRefunded
<1>10. PlacedIsPaid'
  <2> SUFFICES ASSUME NEW q \in Orders, status[q] # "absent"
               PROVE  (\E i \in DOMAIN ledger[header[q].owner] :
                         RowOf(header[q].owner, i, q))'
    BY DEF PlacedIsPaid
  <2>1. header[q].owner \in Users /\ header'[q] = header[q]
    BY DEF HeaderOK
  <2>2. PICK i \in DOMAIN ledger[header[q].owner] : RowOf(header[q].owner, i, q)
    BY DEF OrderMoneyStory, PlacedIsPaid
  <2>3. i \in DOMAIN ledger'[header[q].owner] /\ RowOf(header[q].owner, i, q)'
    BY <1>4, <2>1, <2>2 DEF RowOf
  <2> QED
    BY <2>1, <2>3 DEF RowOf
<1> QED
  BY <1>7, <1>8, <1>9, <1>10 DEF OrderMoneyStory

(***************************************************************************)
(* A step that posts nothing keeps the stories, if it keeps `refunded`.    *)
(***************************************************************************)
LEMMA StoryStay ==
    ASSUME OrderMoneyStory,
           UNCHANGED <<ledger, header>>,
           \A q \in Orders : /\ refunded'[q] <=> refunded[q]
                             /\ status'[q] = "absent" <=> status[q] = "absent"
    PROVE  OrderMoneyStory'
<1>1. RowsMatchOrder'
  BY DEF OrderMoneyStory, RowsMatchOrder, RowOf
<1>2. RowsAlternate'
  BY DEF OrderMoneyStory, RowsAlternate, RowOf
<1>3. EndsMatchRefunded'
  <2> SUFFICES ASSUME NEW u \in Users, NEW o \in Orders, NEW i \in DOMAIN ledger[u]
               PROVE  /\ FirstRow(u, i, o) => ledger[u][i].direction = -1
                      /\ LastRow(u, i, o) => (ledger[u][i].direction = 1 <=> refunded[o])
    BY DEF EndsMatchRefunded, FirstRow, LastRow, RowOf
  <2> QED
    BY DEF OrderMoneyStory, EndsMatchRefunded
<1>4. PlacedIsPaid'
  <2>1. \A u, i, o : RowOf(u, i, o)' <=> RowOf(u, i, o)
    BY DEF RowOf
  <2> QED
    BY <2>1 DEF OrderMoneyStory, PlacedIsPaid
<1> QED
  BY <1>1, <1>2, <1>3, <1>4 DEF OrderMoneyStory

-----------------------------------------------------------------------------
(***************************************************************************)
(* The inductive invariant.  HeaderOK gives every posting an owner and a   *)
(* positive amount; FailedIffRefunded is what makes the callbacks, which   *)
(* look at the status only, alternate with the other handlers; and the     *)
(* money story of an order is kept by the four parts of OrderMoneyStory    *)
(* together: that the last row matches `refunded` needs that a placed      *)
(* order has a row, and alternation needs that its last row matches.       *)
(***************************************************************************)
IInv ==
    /\ TypeOK
    /\ HeaderOK
    /\ FailedIffRefunded
    /\ AwardsFollowSuccess
    /\ LedgerChained
    /\ OrderMoneyStory

(* The invariant holds initially. *)
LEMMA InitIInv == Init => IInv
<1> SUFFICES ASSUME Init PROVE IInv
  OBVIOUS
<1>1. TypeOK
  BY DEF Init, BookInit, TypeOK, BookTypeOK, NoHeader
<1>2. HeaderOK /\ FailedIffRefunded /\ AwardsFollowSuccess
  BY DEF Init, HeaderOK, FailedIffRefunded, AwardsFollowSuccess
<1>3. LedgerChained
  BY DEF Init, BookInit, LedgerChained, AfterOf
<1>4. OrderMoneyStory
  BY DEF Init, BookInit, OrderMoneyStory, RowsMatchOrder, RowsAlternate,
         EndsMatchRefunded, PlacedIsPaid
<1> QED
  BY <1>1, <1>2, <1>3, <1>4 DEF IInv

Operations == {"member-checkout", "open-api-order",
               "transaction-refund", "transaction-status"}

(* Claiming a key of an operation keeps the type of `claimed`. *)
LEMMA ClaimTyped ==
    ASSUME TypeOK, NEW op \in Operations, NEW a \in Users \cup Staff,
           NEW k \in Keys \cup {NoKey}, Claim(op, a, k)
    PROVE  claimed' \subseteq Operations \X (Users \cup Staff) \X Keys
<1>1. claimed \subseteq Operations \X (Users \cup Staff) \X Keys
  BY DEF TypeOK, Operations
<1> QED
  BY <1>1 DEF Claim

(***************************************************************************)
(* A posting for an order keeps the invariant, whichever handler makes it: *)
(* what remains to a handler are its types and its status bookkeeping.     *)
(***************************************************************************)
LEMMA OrderPosting ==
    ASSUME IInv, TypeOK', HeaderOK', FailedIffRefunded', AwardsFollowSuccess',
           NEW o \in Orders, NEW u \in Users, NEW s \in Sources,
           NEW d \in {-1, 1}, NEW n \in Nat,
           Post(u, s, d, n),
           s.kind # "balance-adjust", s.subject = o,
           status'[o] # "absent", header'[o].owner = u, header'[o].amount = n,
           status[o] # "absent" => header'[o] = header[o],
           d = 1 => status[o] # "absent" /\ ~refunded[o],
           d = -1 => status[o] = "absent" \/ refunded[o],
           d = 1 => refunded'[o],
           d = -1 => ~refunded'[o],
           \A q \in Orders \ {o} :
              /\ header'[q] = header[q]
              /\ refunded'[q] = refunded[q]
              /\ status'[q] = "absent" <=> status[q] = "absent"
    PROVE  IInv'
<1>1. BookTypeOK /\ LedgerChained /\ HeaderOK /\ OrderMoneyStory
  BY DEF IInv, TypeOK
<1>2. LedgerChained'
  BY <1>1, PostKeepsChain
<1>3. OrderMoneyStory'
  BY <1>1, StoryMove
<1> QED
  BY <1>2, <1>3 DEF IInv

(***************************************************************************)
(* The two directions on a placed order: paying it back, taking it again.  *)
(***************************************************************************)
LEMMA OrderCredit ==
    ASSUME IInv, TypeOK', HeaderOK', FailedIffRefunded', AwardsFollowSuccess',
           NEW o \in Orders, NEW u \in Users, NEW s \in Sources, NEW n \in Nat,
           Post(u, s, 1, n),
           s.kind # "balance-adjust", s.subject = o,
           u = header[o].owner, n = header[o].amount, UNCHANGED header,
           status[o] # "absent", status'[o] # "absent",
           ~refunded[o], refunded'[o],
           \A q \in Orders \ {o} : /\ refunded'[q] = refunded[q]
                                 /\ status'[q] = status[q]
    PROVE  IInv'
<1>1. PICK d \in {-1, 1} : d = 1
  OBVIOUS
<1>2. Post(u, s, d, n)
  BY <1>1
<1>3. /\ d = 1 => status[o] # "absent" /\ ~refunded[o]
      /\ d = -1 => status[o] = "absent" \/ refunded[o]
      /\ d = 1 => refunded'[o]
      /\ d = -1 => ~refunded'[o]
  BY <1>1
<1>4. /\ header'[o].owner = u /\ header'[o].amount = n
      /\ status[o] # "absent" => header'[o] = header[o]
      /\ \A q \in Orders \ {o} : /\ header'[q] = header[q]
                                /\ refunded'[q] = refunded[q]
                                /\ status'[q] = "absent" <=> status[q] = "absent"
  OBVIOUS
<1> QED
  BY <1>2, <1>3, <1>4, OrderPosting

(* A debit for a new or refunded order keeps the story. *)
LEMMA OrderDebit ==
    ASSUME IInv, TypeOK', HeaderOK', FailedIffRefunded', AwardsFollowSuccess',
           NEW o \in Orders, NEW u \in Users, NEW s \in Sources, NEW n \in Nat,
           Post(u, s, -1, n),
           s.kind # "balance-adjust", s.subject = o,
           u = header[o].owner, n = header[o].amount, UNCHANGED header,
           status[o] # "absent", status'[o] # "absent",
           refunded[o], ~refunded'[o],
           \A q \in Orders \ {o} : /\ refunded'[q] = refunded[q]
                                 /\ status'[q] = status[q]
    PROVE  IInv'
<1>1. PICK d \in {-1, 1} : d = -1
  OBVIOUS
<1>2. Post(u, s, d, n)
  BY <1>1
<1>3. /\ d = 1 => status[o] # "absent" /\ ~refunded[o]
      /\ d = -1 => status[o] = "absent" \/ refunded[o]
      /\ d = 1 => refunded'[o]
      /\ d = -1 => ~refunded'[o]
  BY <1>1
<1>4. /\ header'[o].owner = u /\ header'[o].amount = n
      /\ status[o] # "absent" => header'[o] = header[o]
      /\ \A q \in Orders \ {o} : /\ header'[q] = header[q]
                                /\ refunded'[q] = refunded[q]
                                /\ status'[q] = "absent" <=> status[q] = "absent"
  OBVIOUS
<1> QED
  BY <1>2, <1>3, <1>4, OrderPosting

(***************************************************************************)
(* Placing an order, common to checkout, partner orders and external rows. *)
(***************************************************************************)
LEMMA PlaceStep ==
    ASSUME IInv,
           NEW o \in Orders, NEW u \in Users, NEW n \in Nat,
           NEW p \in Providers \cup {None}, NEW k \in PlainKinds,
           NEW m \in SUBSET {"flash_sale", "voucher"},
           InsertOrder(o, u, n, p, m),
           Post(u, Source(k, o, <<>>), -1, n),
           UNCHANGED <<awards, points>>,
           claimed' \subseteq Operations \X (Users \cup Staff) \X Keys,
           sold' \in Nat, used' \in Nat, redeemers' \subseteq Users, sequence' \in Nat
    PROVE  IInv'
<1> DEFINE s == Source(k, o, <<>>)
<1>1. s \in Sources /\ s.kind # "balance-adjust" /\ s.subject = o
  BY OrderSourceOK
<1>2. BookTypeOK
  BY DEF IInv, TypeOK
<1>3. BookTypeOK' /\ n > 0
  BY <1>1, <1>2, PostAppends
<1> HIDE DEF s
<1>4. /\ TypeOK
      /\ HeaderOK
      /\ status[o] = "absent" /\ ~refunded[o] /\ awards[o] = 0
  <2>1. TypeOK /\ HeaderOK /\ status[o] = "absent"
    BY DEF IInv, InsertOrder
  <2>2. ~refunded[o]
    BY <2>1 DEF IInv, FailedIffRefunded
  <2>3. awards[o] \in Nat
    BY <2>1 DEF TypeOK
  <2> QED
    BY <2>1, <2>2, <2>3 DEF IInv, AwardsFollowSuccess
<1>5. TypeOK'
  BY <1>3, <1>4 DEF InsertOrder, TypeOK, Operations, Statuses
<1>6. HeaderOK'
  BY <1>3, <1>4 DEF InsertOrder, TypeOK, HeaderOK
<1>7. FailedIffRefunded' /\ AwardsFollowSuccess'
  BY <1>4 DEF IInv, InsertOrder, TypeOK, FailedIffRefunded, AwardsFollowSuccess
<1>8. /\ status'[o] # "absent" /\ header'[o].owner = u /\ header'[o].amount = n
      /\ ~refunded'[o]
      /\ \A q \in Orders \ {o} : /\ header'[q] = header[q]
                                /\ refunded'[q] = refunded[q]
                                /\ status'[q] = status[q]
  BY <1>4 DEF InsertOrder, TypeOK
<1>9. Post(u, s, -1, n)
  BY DEF s
<1> QED
  BY <1>1, <1>4, <1>5, <1>6, <1>7, <1>8, <1>9, OrderPosting

(***************************************************************************)
(* compute_discount_amount never discounts a price of more than 1 away: a  *)
(* discount it grants there is at least 1 and leaves at least 1 to pay.    *)
(***************************************************************************)
VoucherTerms == [kind : {"percentage", "fixed"}, value : Nat,
                 maxDiscount : Nat, minPurchase : Nat,
                 maxUses : Nat, onePerUser : BOOLEAN]

(* A discount and the price it leaves are amounts. *)
LEMMA DiscountTyped ==
    ASSUME NEW base \in Nat, NEW v \in VoucherTerms
    PROVE  CappedDiscount(base, v) \in Nat /\ BoundedDiscount(base, v) \in Nat
<1>1. (base * v.value) \div 100 \in Nat
  <2>1. PICK m \in Nat : m = base * v.value
    BY DEF VoucherTerms
  <2>2. m \div 100 \in Nat
    OBVIOUS
  <2> QED
    BY <2>1, <2>2
<1>2. v.value \in Nat /\ v.maxDiscount \in Nat
  BY DEF VoucherTerms
<1>3. RawDiscount(base, v) \in Nat
  BY <1>1, <1>2 DEF RawDiscount, Lesser
<1>4. CappedDiscount(base, v) \in Nat
  BY <1>2, <1>3 DEF CappedDiscount, Lesser
<1>5. BoundedDiscount(base, v) \in Nat
  BY <1>4 DEF BoundedDiscount, Lesser, Greater
<1> QED
  BY <1>4, <1>5

(***************************************************************************)
(* compute_discount_amount: a discount of a price above one rupiah leaves  *)
(* a positive price, which the ledger CHECK needs.                         *)
(***************************************************************************)
THEOREM DiscountLeavesAPrice ==
    ASSUME NEW base \in Nat, NEW v \in VoucherTerms,
           base > 1, DiscountApplies(base, v)
    PROVE  /\ DiscountAmount(base, v) \in 1 .. (base - 1)
           /\ DiscountedPrice(base, v) \in 1 .. (base - 1)
<1>1. /\ BoundedDiscount(base, v) \in Nat /\ CappedDiscount(base, v) \in Nat
      /\ BoundedDiscount(base, v) >= 1
  BY DiscountTyped DEF DiscountApplies
<1>2. BoundedDiscount(base, v) <= base - 1
  BY <1>1 DEF BoundedDiscount, Lesser, Greater
<1>3. DiscountAmount(base, v) = BoundedDiscount(base, v)
  BY DEF DiscountAmount
<1> QED
  BY <1>1, <1>2, <1>3 DEF DiscountedPrice, Greater

(* Whatever the offers, the price charged is a natural number. *)
LEMMA FinalPriceNat ==
    ASSUME NEW base \in Prices, NEW f \in BOOLEAN, NEW v \in BOOLEAN
    PROVE  FinalPrice(base, f, v) \in Nat
<1>1. base \in Nat
  BY PriceAssumption
<1>2. PICK m \in Nat : m = OfferPrice(base, f)
  BY <1>1, PriceAssumption DEF OfferPrice, FlashPrice, Greater
<1>3. DiscountAmount(m, Voucher) \in Nat
  BY DiscountTyped, PriceAssumption DEF VoucherTerms, DiscountAmount, Lesser
<1>4. DiscountedPrice(m, Voucher) \in Nat
  BY <1>3 DEF DiscountedPrice, Greater
<1> QED
  BY <1>2, <1>4 DEF FinalPrice

(* create_transaction keeps the invariant. *)
LEMMA CheckoutStep ==
    ASSUME IInv, NEW u \in Users, NEW k \in Keys \cup {NoKey}, NEW o \in Orders,
           NEW base \in Prices, NEW f \in BOOLEAN, NEW v \in BOOLEAN,
           Checkout(u, k, o, base, f, v)
    PROVE  IInv'
<1> DEFINE price == FinalPrice(base, f, v)
           marks == (IF FlashTaken(f) THEN {"flash_sale"} ELSE {})
                    \cup (IF v THEN {"voucher"} ELSE {})
<1>1. /\ base > 0
      /\ Claim("member-checkout", u, k)
      /\ ConsumeDiscounts(u, base, f, v)
      /\ sequence' = sequence + 1
      /\ InsertOrder(o, u, price, None, marks)
      /\ Post(u, Source("transaction", o, <<>>), -1, price)
      /\ UNCHANGED pointVars
  BY DEF Checkout
<1>2. TypeOK
  BY DEF IInv
<1>3. price \in Nat
  BY FinalPriceNat
<1>4. claimed' \subseteq Operations \X (Users \cup Staff) \X Keys
  BY <1>1, <1>2, ClaimTyped DEF Operations
<1>5. /\ sold' \in Nat /\ used' \in Nat
      /\ redeemers' \subseteq Users /\ sequence' \in Nat
  BY <1>1, <1>2 DEF TypeOK, ConsumeDiscounts
<1>6. marks \in SUBSET {"flash_sale", "voucher"}
  OBVIOUS
<1> HIDE DEF price, marks
<1>7. "transaction" \in PlainKinds
  BY DEF PlainKinds
<1> QED
  BY <1>1, <1>3, <1>4, <1>5, <1>6, <1>7, PlaceStep DEF pointVars

(* A partner order keeps the invariant. *)
LEMMA OpenApiStep ==
    ASSUME IInv, NEW u \in Users, NEW k \in Keys \cup {NoKey}, NEW o \in Orders,
           NEW base \in Prices, OpenApiOrder(u, k, o, base)
    PROVE  IInv'
<1>1. TypeOK /\ base \in Nat
  BY PriceAssumption DEF IInv
<1>2. claimed' \subseteq Operations \X (Users \cup Staff) \X Keys
  BY <1>1, ClaimTyped DEF Operations, OpenApiOrder
<1>3. /\ sold' \in Nat /\ used' \in Nat
      /\ redeemers' \subseteq Users /\ sequence' \in Nat
  BY <1>1 DEF TypeOK, OpenApiOrder, stockVars
<1>4. "open-api" \in PlainKinds
  BY DEF PlainKinds
<1> QED
  BY <1>1, <1>2, <1>3, <1>4, PlaceStep DEF OpenApiOrder, pointVars

(* An order of the external writer keeps the invariant. *)
LEMMA LegacyStep ==
    ASSUME IInv, NEW u \in Users, NEW o \in Orders, NEW base \in Prices,
           NEW p \in Providers, LegacyOrder(u, o, base, p)
    PROVE  IInv'
<1>1. TypeOK /\ base \in Nat
  BY PriceAssumption DEF IInv
<1>2. claimed' \subseteq Operations \X (Users \cup Staff) \X Keys
  BY <1>1 DEF TypeOK, Operations, LegacyOrder
<1>3. /\ sold' \in Nat /\ used' \in Nat
      /\ redeemers' \subseteq Users /\ sequence' \in Nat
  BY <1>1 DEF TypeOK, LegacyOrder, stockVars
<1>4. "legacy" \in PlainKinds
  BY DEF PlainKinds
<1> QED
  BY <1>1, <1>2, <1>3, <1>4, PlaceStep DEF LegacyOrder, pointVars

-----------------------------------------------------------------------------
(* The owner and the price a posting on a placed order needs. *)
LEMMA PlacedHeader ==
    ASSUME IInv, NEW o \in Orders, status[o] # "absent"
    PROVE  /\ header[o].owner \in Users
           /\ header[o].amount \in Nat
           /\ header[o].amount > 0
BY DEF IInv, HeaderOK, TypeOK

(* refund_transaction keeps the invariant. *)
LEMMA RefundStep ==
    ASSUME IInv, NEW a \in Staff, NEW k \in Keys, NEW o \in Orders, Refund(a, k, o)
    PROVE  IInv'
<1>1. /\ status[o] # "absent" /\ status[o] # "success" /\ ~refunded[o]
      /\ Post(header[o].owner, Source("transaction-refund", o, <<>>), 1, header[o].amount)
      /\ Claim("transaction-refund", a, k)
      /\ status' = [status EXCEPT ![o] = "failed"]
      /\ refunded' = [refunded EXCEPT ![o] = TRUE]
      /\ UNCHANGED <<header, effects, event, pointVars, stockVars>>
  BY DEF Refund
<1>2. TypeOK /\ BookTypeOK
  BY DEF IInv, TypeOK
<1>3. PICK u \in Users, n \in Nat : u = header[o].owner /\ n = header[o].amount
  BY <1>1, PlacedHeader
<1>4. PICK s \in Sources : /\ s = Source("transaction-refund", o, <<>>)
                          /\ s.kind # "balance-adjust" /\ s.subject = o
  BY OrderSourceOK DEF PlainKinds
<1>5. Post(u, s, 1, n)
  BY <1>1, <1>3, <1>4
<1>6. BookTypeOK'
  BY <1>2, <1>5, PostAppends
<1>7. claimed' \subseteq Operations \X (Users \cup Staff) \X Keys
  BY <1>1, <1>2, ClaimTyped DEF Operations
<1>8. TypeOK'
  BY <1>1, <1>2, <1>6, <1>7 DEF TypeOK, pointVars, stockVars, Statuses, Operations
<1>9. HeaderOK' /\ FailedIffRefunded' /\ AwardsFollowSuccess'
  BY <1>1, <1>2 DEF IInv, TypeOK, HeaderOK, FailedIffRefunded, AwardsFollowSuccess,
                    pointVars
<1>10. /\ status'[o] # "absent" /\ refunded'[o] /\ UNCHANGED header
       /\ \A q \in Orders \ {o} : /\ refunded'[q] = refunded[q]
                                 /\ status'[q] = status[q]
  BY <1>1, <1>2 DEF TypeOK
<1>11. status[o] # "absent" /\ ~refunded[o]
  BY <1>1
<1> QED
  BY <1>3, <1>4, <1>5, <1>8, <1>9, <1>10, <1>11, OrderCredit

(***************************************************************************)
(* The points of a status change, apart from its money.                    *)
(***************************************************************************)
LEMMA MovePointsFacts ==
    ASSUME TypeOK, AwardsFollowSuccess,
           NEW o \in Orders, NEW next \in Statuses, MovePoints(o, next)
    PROVE  /\ awards' \in [Orders -> Nat]
           /\ points' \in [Users -> Nat]
           /\ awards'[o] > 0 => next = "success"
           /\ \A q \in Orders \ {o} : awards'[q] = awards[q]
<1>1. /\ awards \in [Orders -> Nat] /\ points \in [Users -> Nat]
      /\ header[o].amount \in Nat
      /\ awards[o] > 0 => status[o] = "success"
  BY DEF TypeOK, AwardsFollowSuccess
<1>2. AwardPoints(header[o].amount) \in Nat
  BY <1>1, PriceAssumption DEF AwardPoints
<1>3. CASE GivePoints(o, header[o].owner) /\ next = "success"
  <2>1. PICK m \in Nat : m = AwardPoints(header[o].amount)
    BY <1>2
  <2>2. /\ points' = [points EXCEPT ![header[o].owner] = @ + m]
        /\ awards' = [awards EXCEPT ![o] = m]
    BY <1>3, <2>1 DEF GivePoints
  <2>3. \A u \in Users : points[u] + m \in Nat
    BY <1>1
  <2>4. points' \in [Users -> Nat]
    BY <1>1, <2>2, <2>3
  <2> QED
    BY <1>1, <1>3, <2>2, <2>4
<1>4. CASE TakePointsBack(o, header[o].owner)
  <2>1. awards' = [awards EXCEPT ![o] = 0]
    BY <1>4 DEF TakePointsBack
  <2>2. points' \in [Users -> Nat]
    <3>1. ASSUME NEW u \in Users, points[u] >= awards[o] PROVE points[u] - awards[o] \in Nat
      BY <1>1, <3>1
    <3> QED
      BY <1>1, <1>4, <3>1 DEF TakePointsBack
  <2> QED
    BY <1>1, <2>1, <2>2
<1>5. CASE UNCHANGED pointVars /\ (status[o] # "success" \/ next = "success")
  BY <1>1, <1>5 DEF pointVars
<1> QED
  BY <1>3, <1>4, <1>5 DEF MovePoints

(* update_status keeps the invariant, whatever the two statuses. *)
LEMMA UpdateStatusStep ==
    ASSUME IInv, NEW a \in Staff, NEW k \in Keys \cup {NoKey}, NEW o \in Orders,
           NEW next \in Statuses, UpdateStatus(a, k, o, next)
    PROVE  IInv'
<1>1. /\ status[o] # "absent"
      /\ Claim("transaction-status", a, k)
      /\ MoveMoney(o, next)
      /\ MovePoints(o, next)
      /\ status' = [status EXCEPT ![o] = next]
      /\ UNCHANGED <<header, effects, event, stockVars>>
  BY DEF UpdateStatus
<1>2. TypeOK /\ BookTypeOK /\ AwardsFollowSuccess
  BY DEF IInv, TypeOK
<1>3. PICK u \in Users, n \in Nat : u = header[o].owner /\ n = header[o].amount
  BY <1>1, PlacedHeader
<1>4. status[o] \in Statuses
  BY <1>1, <1>2 DEF TypeOK
<1>5. PICK s \in Sources : /\ s = Source("transaction-status", o, <<status[o], next>>)
                          /\ s.kind # "balance-adjust" /\ s.subject = o
  <2>1. PICK from \in Statuses : from = status[o]
    BY <1>4
  <2> QED
    BY <2>1, StatusSourceOK
<1>6. /\ awards' \in [Orders -> Nat]
      /\ points' \in [Users -> Nat]
      /\ awards'[o] > 0 => next = "success"
      /\ \A q \in Orders \ {o} : awards'[q] = awards[q]
  BY <1>1, <1>2, MovePointsFacts
<1>7. header' = header /\ claimed' \subseteq Operations \X (Users \cup Staff) \X Keys
  BY <1>1, <1>2, ClaimTyped DEF Operations
<1>8. /\ status'[o] = next
      /\ \A q \in Orders \ {o} : status'[q] = status[q]
  BY <1>1, <1>2 DEF TypeOK
<1>9. AwardsFollowSuccess' /\ HeaderOK'
  BY <1>1, <1>2, <1>6, <1>7, <1>8 DEF IInv, AwardsFollowSuccess, HeaderOK, Statuses
<1>10. refunded[o] <=> status[o] = "failed"
  BY DEF IInv, FailedIffRefunded
<1>11. ASSUME BookTypeOK', refunded' \in [Orders -> BOOLEAN],
              refunded'[o] <=> next = "failed",
              \A q \in Orders \ {o} : refunded'[q] = refunded[q]
       PROVE  TypeOK' /\ FailedIffRefunded'
  <2>1. TypeOK'
    BY <1>1, <1>2, <1>6, <1>7, <1>11 DEF TypeOK, stockVars, Statuses, Operations
  <2>2. FailedIffRefunded'
    BY <1>8, <1>11 DEF IInv, FailedIffRefunded
  <2> QED
    BY <2>1, <2>2
<1>12. UNCHANGED header /\ status[o] # "absent" /\ status'[o] # "absent"
  BY <1>1, <1>8 DEF Statuses
<1>13. refunded \in [Orders -> BOOLEAN]
  BY <1>2 DEF TypeOK
<1>14. \/ /\ Returns(o, next) /\ Post(u, s, 1, n)
          /\ refunded' = [refunded EXCEPT ![o] = TRUE]
       \/ /\ Recharges(o, next) /\ Post(u, s, -1, n)
          /\ refunded' = [refunded EXCEPT ![o] = FALSE]
       \/ /\ ~Returns(o, next) /\ ~Recharges(o, next)
          /\ UNCHANGED <<bookVars, refunded>>
  BY <1>1, <1>3, <1>5 DEF MoveMoney
<1>15. CASE Returns(o, next) /\ Post(u, s, 1, n) /\ refunded' = [refunded EXCEPT ![o] = TRUE]
  <2>1. BookTypeOK'
    BY <1>2, <1>3, <1>5, <1>15, PostAppends
  <2>2. /\ next = "failed" /\ ~refunded[o] /\ refunded'[o]
        /\ refunded' \in [Orders -> BOOLEAN]
        /\ \A q \in Orders \ {o} : refunded'[q] = refunded[q]
    BY <1>13, <1>15 DEF Returns
  <2>3. TypeOK' /\ FailedIffRefunded'
    BY <1>11, <2>1, <2>2
  <2>4. status[o] # "absent" /\ status'[o] # "absent" /\ UNCHANGED header
    BY <1>12
  <2>5. \A q \in Orders \ {o} : refunded'[q] = refunded[q] /\ status'[q] = status[q]
    BY <1>8, <2>2
  <2>6. Post(u, s, 1, n) /\ ~refunded[o] /\ refunded'[o]
    BY <1>15, <2>2
  <2> QED
    BY <1>3, <1>5, <1>9, <2>3, <2>4, <2>5, <2>6, OrderCredit
<1>16. CASE Recharges(o, next) /\ Post(u, s, -1, n) /\ refunded' = [refunded EXCEPT ![o] = FALSE]
  <2>1. BookTypeOK'
    BY <1>2, <1>3, <1>5, <1>16, PostAppends
  <2>2. /\ next # "failed" /\ refunded[o] /\ ~refunded'[o]
        /\ refunded' \in [Orders -> BOOLEAN]
        /\ \A q \in Orders \ {o} : refunded'[q] = refunded[q]
    BY <1>13, <1>16 DEF Recharges
  <2>3. TypeOK' /\ FailedIffRefunded'
    BY <1>11, <2>1, <2>2
  <2>4. status[o] # "absent" /\ status'[o] # "absent" /\ UNCHANGED header
    BY <1>12
  <2>5. \A q \in Orders \ {o} : refunded'[q] = refunded[q] /\ status'[q] = status[q]
    BY <1>8, <2>2
  <2>6. Post(u, s, -1, n) /\ refunded[o] /\ ~refunded'[o]
    BY <1>16, <2>2
  <2> QED
    BY <1>3, <1>5, <1>9, <2>3, <2>4, <2>5, <2>6, OrderDebit
<1>17. CASE ~Returns(o, next) /\ ~Recharges(o, next) /\ UNCHANGED <<bookVars, refunded>>
  <2>1. refunded'[o] <=> next = "failed"
    BY <1>17 DEF Returns, Recharges
  <2>2. BookTypeOK' /\ LedgerChained'
    BY <1>2, <1>17 DEF IInv, bookVars, BookTypeOK, LedgerChained, AfterOf
  <2>3. TypeOK' /\ FailedIffRefunded'
    BY <1>11, <1>13, <1>17, <2>1, <2>2
  <2>4. \A q \in Orders : status'[q] = "absent" <=> status[q] = "absent"
    BY <1>1, <1>8 DEF Statuses
  <2>5. OrderMoneyStory'
    BY <1>7, <1>17, <2>4, StoryStay DEF IInv, bookVars
  <2> QED
    BY <1>9, <2>2, <2>3, <2>5 DEF IInv
<1> QED
  BY <1>14, <1>15, <1>16, <1>17

(* A `failed` callback keeps the invariant. *)
LEMMA CallbackFailedStep ==
    ASSUME IInv, NEW p \in Providers, NEW o \in Orders, CallbackFailed(p, o)
    PROVE  IInv'
<1>1. /\ status[o] \in {"pending", "processing"}
      /\ Post(header[o].owner, Source("webhook-refund", o, <<>>), 1, header[o].amount)
      /\ status' = [status EXCEPT ![o] = "failed"]
      /\ refunded' = [refunded EXCEPT ![o] = TRUE]
      /\ event' = [event EXCEPT ![o] = "failed"]
      /\ UNCHANGED <<header, effects, pointVars, stockVars, claimed>>
  BY DEF CallbackFailed
<1>2. TypeOK /\ BookTypeOK
  BY DEF IInv, TypeOK
<1>3. PICK u \in Users, n \in Nat : u = header[o].owner /\ n = header[o].amount
  BY <1>1, PlacedHeader
<1>4. PICK s \in Sources : /\ s = Source("webhook-refund", o, <<>>)
                          /\ s.kind # "balance-adjust" /\ s.subject = o
  BY OrderSourceOK DEF PlainKinds
<1>5. Post(u, s, 1, n)
  BY <1>1, <1>3, <1>4
<1>6. BookTypeOK'
  BY <1>2, <1>5, PostAppends
<1>7. TypeOK'
  BY <1>1, <1>2, <1>6 DEF TypeOK, pointVars, stockVars, Statuses
<1>8. HeaderOK' /\ FailedIffRefunded' /\ AwardsFollowSuccess'
  BY <1>1, <1>2 DEF IInv, TypeOK, HeaderOK, FailedIffRefunded, AwardsFollowSuccess,
                    pointVars
<1>9. /\ status'[o] # "absent" /\ refunded'[o] /\ UNCHANGED header
      /\ \A q \in Orders \ {o} : /\ refunded'[q] = refunded[q]
                                /\ status'[q] = status[q]
  BY <1>1, <1>2 DEF TypeOK
<1>10. status[o] # "absent" /\ ~refunded[o]
  BY <1>1 DEF IInv, FailedIffRefunded
<1> QED
  BY <1>3, <1>4, <1>5, <1>7, <1>8, <1>9, <1>10, OrderCredit

(* A `success` callback keeps the invariant, correction included. *)
LEMMA CallbackSuccessStep ==
    ASSUME IInv, NEW p \in Providers, NEW o \in Orders, CallbackSuccess(p, o)
    PROVE  IInv'
<1>1. /\ status[o] # "absent"
      /\ status' = [status EXCEPT ![o] = "success"]
      /\ refunded' = [refunded EXCEPT ![o] = FALSE]
      /\ event' = [event EXCEPT ![o] = "success"]
      /\ UNCHANGED <<header, effects, pointVars, stockVars, claimed>>
  BY DEF CallbackSuccess, CallbackFor
<1>2. TypeOK /\ BookTypeOK
  BY DEF IInv, TypeOK
<1>3. /\ status'[o] # "absent" /\ ~refunded'[o] /\ UNCHANGED header
      /\ \A q \in Orders \ {o} : /\ refunded'[q] = refunded[q]
                                /\ status'[q] = status[q]
  BY <1>1, <1>2 DEF TypeOK
<1>4. HeaderOK' /\ FailedIffRefunded' /\ AwardsFollowSuccess'
  BY <1>1, <1>2 DEF IInv, TypeOK, HeaderOK, FailedIffRefunded, AwardsFollowSuccess,
                    pointVars
<1>5. ASSUME BookTypeOK' PROVE TypeOK'
  BY <1>1, <1>2, <1>5 DEF TypeOK, pointVars, stockVars, Statuses
<1>6. CASE /\ status[o] = "failed" \/ refunded[o]
           /\ Post(header[o].owner, Source("webhook-correction", o, <<>>), -1, header[o].amount)
  <2>1. PICK u \in Users, n \in Nat : u = header[o].owner /\ n = header[o].amount
    BY <1>1, PlacedHeader
  <2>2. PICK s \in Sources : /\ s = Source("webhook-correction", o, <<>>)
                            /\ s.kind # "balance-adjust" /\ s.subject = o
    BY OrderSourceOK DEF PlainKinds
  <2>3. Post(u, s, -1, n)
    BY <1>6, <2>1, <2>2
  <2>4. TypeOK'
    BY <1>2, <1>5, <2>3, PostAppends
  <2>5. status[o] # "absent" /\ refunded[o]
    BY <1>1, <1>6 DEF IInv, FailedIffRefunded
  <2> QED
    BY <1>3, <1>4, <2>1, <2>2, <2>3, <2>4, <2>5, OrderDebit
<1>7. CASE status[o] # "failed" /\ ~refunded[o] /\ UNCHANGED bookVars
  <2>1. BookTypeOK' /\ LedgerChained'
    BY <1>2, <1>7 DEF IInv, bookVars, BookTypeOK, LedgerChained, AfterOf
  <2>2. TypeOK'
    BY <1>5, <2>1
  <2>3. \A q \in Orders : /\ refunded'[q] <=> refunded[q]
                          /\ status'[q] = "absent" <=> status[q] = "absent"
    BY <1>1, <1>3, <1>7
  <2>4. OrderMoneyStory'
    BY <1>3, <1>7, <2>3, StoryStay DEF IInv, bookVars
  <2> QED
    BY <1>4, <2>1, <2>2, <2>4 DEF IInv
<1> QED
  BY <1>6, <1>7 DEF CallbackSuccess

(* adjust_balance keeps the invariant. *)
LEMMA AdjustBalanceStep ==
    ASSUME IInv, NEW a \in Staff, NEW k \in Keys, NEW u \in Users,
           NEW d \in {-1, 1}, NEW n \in Adjustments, AdjustBalance(a, k, u, d, n)
    PROVE  IInv'
<1>1. /\ Post(u, Source("balance-adjust", <<a, k>>, <<>>), d, n)
      /\ UNCHANGED <<orderVars, pointVars, stockVars, claimed>>
  BY DEF AdjustBalance
<1>2. PICK s \in Sources : /\ s = Source("balance-adjust", <<a, k>>, <<>>)
                          /\ s.kind = "balance-adjust"
  BY AdjustSourceOK
<1>3. Post(u, s, d, n) /\ n \in Nat
  BY <1>1, <1>2, PriceAssumption
<1>4. TypeOK /\ BookTypeOK /\ LedgerChained /\ OrderMoneyStory /\ HeaderOK
  BY DEF IInv, TypeOK
<1>5. BookTypeOK'
  BY <1>3, <1>4, PostAppends
<1>6. LedgerChained'
  BY <1>3, <1>4, PostKeepsChain
<1>7. UNCHANGED <<header, refunded, status>>
  BY <1>1 DEF orderVars
<1>8. OrderMoneyStory'
  BY <1>2, <1>3, <1>4, <1>7, StoryAdjust
<1>9. TypeOK'
  BY <1>1, <1>4, <1>5 DEF TypeOK, orderVars, pointVars, stockVars
<1>10. HeaderOK' /\ FailedIffRefunded' /\ AwardsFollowSuccess'
  BY <1>1 DEF IInv, HeaderOK, FailedIffRefunded, AwardsFollowSuccess, orderVars, pointVars
<1> QED
  BY <1>6, <1>8, <1>9, <1>10 DEF IInv

(* A step that touches neither books nor orders keeps the invariant. *)
LEMMA QuietStep ==
    ASSUME IInv, UNCHANGED <<bookVars, orderVars, awards, claimed>>,
           points' \in [Users -> Nat],
           sold' \in Nat, used' \in Nat, redeemers' \subseteq Users, sequence' \in Nat
    PROVE  IInv'
<1>1. TypeOK'
  BY DEF IInv, TypeOK, BookTypeOK, bookVars, orderVars
<1>2. HeaderOK' /\ FailedIffRefunded' /\ AwardsFollowSuccess'
  BY DEF IInv, HeaderOK, FailedIffRefunded, AwardsFollowSuccess, orderVars
<1>3. LedgerChained'
  BY DEF IInv, LedgerChained, AfterOf, bookVars
<1>4. OrderMoneyStory'
  BY StoryStay DEF IInv, bookVars, orderVars
<1> QED
  BY <1>1, <1>2, <1>3, <1>4 DEF IInv

(* Every step keeps the invariant. *)
LEMMA NextIInv == IInv /\ [Next]_vars => IInv'
<1> SUFFICES ASSUME IInv, [Next]_vars PROVE IInv'
  OBVIOUS
<1>1. ASSUME NEW u \in Users, NEW k \in Keys \cup {NoKey}, NEW o \in Orders,
             NEW base \in Prices, NEW f \in BOOLEAN, NEW v \in BOOLEAN,
             Checkout(u, k, o, base, f, v)
      PROVE  IInv'
  BY <1>1, CheckoutStep
<1>2. CASE NewDay
  BY <1>2, QuietStep DEF NewDay, IInv, TypeOK, pointVars
<1>3. ASSUME NEW u \in Users, NEW k \in Keys \cup {NoKey}, NEW o \in Orders,
             NEW base \in Prices, OpenApiOrder(u, k, o, base)
      PROVE  IInv'
  BY <1>3, OpenApiStep
<1>4. ASSUME NEW u \in Users, NEW o \in Orders, NEW base \in Prices,
             NEW p \in Providers, LegacyOrder(u, o, base, p)
      PROVE  IInv'
  BY <1>4, LegacyStep
<1>5. ASSUME NEW a \in Staff, NEW k \in Keys, NEW o \in Orders, Refund(a, k, o)
      PROVE  IInv'
  BY <1>5, RefundStep
<1>6. ASSUME NEW a \in Staff, NEW k \in Keys \cup {NoKey}, NEW o \in Orders,
             NEW s \in Statuses, UpdateStatus(a, k, o, s)
      PROVE  IInv'
  BY <1>6, UpdateStatusStep
<1>7. ASSUME NEW p \in Providers, NEW o \in Orders, CallbackFailed(p, o)
      PROVE  IInv'
  BY <1>7, CallbackFailedStep
<1>8. ASSUME NEW p \in Providers, NEW o \in Orders, CallbackSuccess(p, o)
      PROVE  IInv'
  BY <1>8, CallbackSuccessStep
<1>9. ASSUME NEW a \in Staff, NEW k \in Keys, NEW u \in Users, NEW d \in {-1, 1},
             NEW n \in Adjustments, AdjustBalance(a, k, u, d, n)
      PROVE  IInv'
  BY <1>9, AdjustBalanceStep
<1>10. ASSUME NEW u \in Users, NEW n \in PointChanges, AdjustPoints(u, n)
       PROVE  IInv'
  <2>1. points[u] + n \in Nat
    BY <1>10, PriceAssumption DEF AdjustPoints
  <2>2. points' \in [Users -> Nat]
    BY <1>10, <2>1 DEF AdjustPoints, IInv, TypeOK
  <2> QED
    BY <1>10, <2>2, QuietStep DEF AdjustPoints, IInv, TypeOK, stockVars
<1>11. CASE UNCHANGED vars
  BY <1>11, QuietStep DEF vars, IInv, TypeOK, pointVars, stockVars
<1> QED
  BY <1>1, <1>2, <1>3, <1>4, <1>5, <1>6, <1>7, <1>8, <1>9, <1>10, <1>11 DEF Next

(***************************************************************************)
(* In every reachable state the types are right, every balance is the sum  *)
(* of its ledger, an order is refunded exactly while it is failed, points  *)
(* stand only for successful orders, and the ledger tells one alternating  *)
(* story per order.                                                        *)
(***************************************************************************)
THEOREM Invariance == Spec => []IInv
<1>1. Init => IInv
  BY InitIInv
<1>2. IInv /\ [Next]_vars => IInv'
  BY NextIInv
<1> QED
  BY <1>1, <1>2, PTL DEF Spec

(* Every state of every order, balance, counter and row has its type. *)
THEOREM TypeCorrect == Spec => []TypeOK
<1>1. IInv => TypeOK
  BY DEF IInv
<1> QED
  BY <1>1, Invariance, PTL

(* The balance a member sees is the sum of the member's ledger. *)
THEOREM BookBalances == Spec => []LedgerChained
<1>1. IInv => LedgerChained
  BY DEF IInv
<1> QED
  BY <1>1, Invariance, PTL

(* Hence the balance of a member is the sum of the member's rows. *)
THEOREM BalancesAreSums == Spec => []BalanceIsSum
<1>1. IInv => BalanceIsSum
  BY ChainMakesSums DEF IInv, TypeOK
<1> QED
  BY <1>1, Invariance, PTL

(* No mixture of refunds, status edits and callbacks pays an order back twice. *)
THEOREM MoneyStory == Spec => []OrderMoneyStory
<1>1. IInv => OrderMoneyStory
  BY DEF IInv
<1> QED
  BY <1>1, Invariance, PTL

(* The fact the provider callback relies on when it looks at the status only. *)
THEOREM RefundedWhileFailed == Spec => []FailedIffRefunded
<1>1. IInv => FailedIffRefunded
  BY DEF IInv
<1> QED
  BY <1>1, Invariance, PTL

(* No award outlives the success it was given for. *)
THEOREM AwardsStandForSuccess == Spec => []AwardsFollowSuccess
<1>1. IInv => AwardsFollowSuccess
  BY DEF IInv
<1> QED
  BY <1>1, Invariance, PTL

-----------------------------------------------------------------------------
(***************************************************************************)
(* Points and discounts.  Both compare a counter with something counted    *)
(* over all orders, so both need that only finitely many orders exist, and *)
(* that an order carries neither award nor discount before it exists.      *)
(***************************************************************************)
Placed == {o \in Orders : status[o] # "absent"}

(* What inserting an order with the discounts m does to their counters. *)
Books(u, m) ==
    /\ sold' = IF "flash_sale" \in m THEN sold + 1 ELSE sold
    /\ "flash_sale" \in m => sold < Flash.stock
    /\ used' = IF "voucher" \in m THEN used + 1 ELSE used
    /\ "voucher" \in m =>
          /\ used < Voucher.maxUses
          /\ Voucher.onePerUser => u \notin redeemers /\ u \in redeemers'
    /\ redeemers \subseteq redeemers'

(* A step places an order, or it leaves discounts alone. *)
OrderPlaced ==
    \E o \in Orders, u \in Users, n \in Nat, p \in Providers \cup {None},
       m \in SUBSET {"flash_sale", "voucher"} :
         InsertOrder(o, u, n, p, m) /\ Books(u, m) /\ UNCHANGED pointVars

PointsMoved ==
    \/ UNCHANGED pointVars
    \/ \E o \in Placed, next \in Statuses : MovePoints(o, next)
    \/ \E u \in Users, n \in PointChanges : 
          points' = [points EXCEPT ![u] = @ + n] /\ UNCHANGED awards

DiscountsKept ==
    UNCHANGED <<header, effects, sold, used, redeemers, Placed>>

(* A checkout books the discounts it marks on its order. *)
LEMMA CheckoutBooks ==
    ASSUME NEW u \in Users, NEW k \in Keys \cup {NoKey}, NEW o \in Orders,
           NEW base \in Prices, NEW f \in BOOLEAN, NEW v \in BOOLEAN,
           Checkout(u, k, o, base, f, v)
    PROVE  OrderPlaced
<1> DEFINE price == FinalPrice(base, f, v)
           marks == (IF FlashTaken(f) THEN {"flash_sale"} ELSE {})
                    \cup (IF v THEN {"voucher"} ELSE {})
<1>1. /\ ConsumeDiscounts(u, base, f, v)
      /\ InsertOrder(o, u, price, None, marks)
      /\ UNCHANGED pointVars
  BY DEF Checkout
<1>2. price \in Nat
  BY FinalPriceNat
<1>3. /\ marks \in SUBSET {"flash_sale", "voucher"}
      /\ "flash_sale" \in marks <=> FlashTaken(f)
      /\ "voucher" \in marks <=> v
  OBVIOUS
<1> HIDE DEF price, marks
<1>4. Books(u, marks)
  BY <1>1, <1>3 DEF Books, ConsumeDiscounts, FlashTaken, VoucherUsable
<1> QED
  BY <1>1, <1>2, <1>3, <1>4 DEF OrderPlaced

(* So do the handlers that insert an order without a discount. *)
LEMMA PlainOrderBooks ==
    ASSUME TypeOK, NEW o \in Orders, NEW u \in Users, NEW n \in Nat,
           NEW p \in Providers \cup {None},
           InsertOrder(o, u, n, p, {}), UNCHANGED <<pointVars, stockVars>>
    PROVE  OrderPlaced
<1>1. Books(u, {})
  BY DEF Books, stockVars
<1> QED
  BY <1>1 DEF OrderPlaced

(* A new status of a placed order leaves it placed. *)
LEMMA StatusKeepsPlaced ==
    ASSUME TypeOK, NEW o \in Orders, status[o] # "absent", NEW s \in Statuses,
           status' = [status EXCEPT ![o] = s]
    PROVE  Placed' = Placed
BY DEF TypeOK, Statuses, Placed

(* Every step is of one of the kinds. *)
LEMMA BonusSteps ==
    ASSUME IInv, [Next]_vars
    PROVE  OrderPlaced \/ (DiscountsKept /\ PointsMoved)
<1>0. TypeOK
  BY DEF IInv
<1>1. ASSUME NEW u \in Users, NEW k \in Keys \cup {NoKey}, NEW o \in Orders,
             NEW base \in Prices, NEW f \in BOOLEAN, NEW v \in BOOLEAN,
             Checkout(u, k, o, base, f, v)
      PROVE  OrderPlaced
  BY <1>1, CheckoutBooks
<1>2. ASSUME NEW u \in Users, NEW k \in Keys \cup {NoKey}, NEW o \in Orders,
             NEW base \in Prices, OpenApiOrder(u, k, o, base)
      PROVE  OrderPlaced
  BY <1>0, <1>2, PlainOrderBooks, PriceAssumption DEF OpenApiOrder
<1>3. ASSUME NEW u \in Users, NEW o \in Orders, NEW base \in Prices,
             NEW p \in Providers, LegacyOrder(u, o, base, p)
      PROVE  OrderPlaced
  BY <1>0, <1>3, PlainOrderBooks, PriceAssumption DEF LegacyOrder
<1>4. ASSUME NEW a \in Staff, NEW k \in Keys, NEW o \in Orders, Refund(a, k, o)
      PROVE  DiscountsKept /\ PointsMoved
  <2>1. Placed' = Placed
    BY <1>0, <1>4, StatusKeepsPlaced DEF Refund, Statuses
  <2> QED
    BY <1>4, <2>1 DEF Refund, DiscountsKept, PointsMoved, stockVars
<1>5. ASSUME NEW a \in Staff, NEW k \in Keys \cup {NoKey}, NEW o \in Orders,
             NEW s \in Statuses, UpdateStatus(a, k, o, s)
      PROVE  DiscountsKept /\ PointsMoved
  <2>1. Placed' = Placed
    BY <1>0, <1>5, StatusKeepsPlaced DEF UpdateStatus
  <2>2. o \in Placed /\ MovePoints(o, s)
    BY <1>5 DEF UpdateStatus, Placed
  <2> QED
    BY <1>5, <2>1, <2>2 DEF UpdateStatus, DiscountsKept, PointsMoved, stockVars
<1>6. ASSUME NEW p \in Providers, NEW o \in Orders,
             CallbackFailed(p, o) \/ CallbackSuccess(p, o)
      PROVE  DiscountsKept /\ PointsMoved
  <2>1. Placed' = Placed
    BY <1>0, <1>6, StatusKeepsPlaced
    DEF CallbackFailed, CallbackSuccess, CallbackFor, Statuses
  <2> QED
    BY <1>6, <2>1
    DEF CallbackFailed, CallbackSuccess, DiscountsKept, PointsMoved, stockVars
<1>7. ASSUME NEW u \in Users, NEW n \in PointChanges, AdjustPoints(u, n)
      PROVE  DiscountsKept /\ PointsMoved
  BY <1>7 DEF AdjustPoints, DiscountsKept, PointsMoved, Placed, orderVars, stockVars
<1>8. ASSUME UNCHANGED <<orderVars, pointVars, sold, used, redeemers>>
      PROVE  DiscountsKept /\ PointsMoved
  BY <1>8 DEF DiscountsKept, PointsMoved, Placed, orderVars
<1>9. ASSUME NEW a \in Staff, NEW k \in Keys, NEW u \in Users, NEW d \in {-1, 1},
             NEW n \in Adjustments, AdjustBalance(a, k, u, d, n)
      PROVE  DiscountsKept /\ PointsMoved
  BY <1>8, <1>9 DEF AdjustBalance, stockVars
<1>10. NewDay \/ UNCHANGED vars => DiscountsKept /\ PointsMoved
  BY <1>8 DEF NewDay, vars, stockVars
<1> QED
  BY <1>1, <1>2, <1>3, <1>4, <1>5, <1>6, <1>7, <1>9, <1>10 DEF Next

(***************************************************************************)
(* The invariant of the discounts.  A member who used the voucher is among *)
(* its redeemers: that is what the next checkout asks, and it must hold    *)
(* for every order marked so far.                                          *)
(***************************************************************************)
DiscountInv ==
    /\ IsFiniteSet(Placed)
    /\ \A o \in Orders : effects[o] # {} => o \in Placed
    /\ DiscountsAccounted
    /\ Voucher.onePerUser =>
          \A o \in Marked("voucher") : header[o].owner \in redeemers

(* It holds initially. *)
LEMMA InitDiscounts == Init => DiscountInv
<1> SUFFICES ASSUME Init PROVE DiscountInv
  OBVIOUS
<1>1. Placed = {} /\ \A e : Marked(e) = {}
  BY DEF Init, Placed, Marked
<1>2. Flash.stock \in Nat /\ Voucher.maxUses \in Nat
  BY PriceAssumption
<1> QED
  BY <1>1, <1>2, FS_EmptySet DEF Init, DiscountInv, DiscountsAccounted

(* Every step keeps it. *)
LEMMA StepDiscounts == IInv /\ DiscountInv /\ [Next]_vars => DiscountInv'
<1> SUFFICES ASSUME IInv, DiscountInv, [Next]_vars PROVE DiscountInv'
  OBVIOUS
<1>1. TypeOK /\ \A e : IsFiniteSet(Marked(e))
  <2>1. \A e : Marked(e) \subseteq Placed
    BY DEF Marked, DiscountInv
  <2> QED
    BY <2>1, FS_Subset DEF DiscountInv, IInv
<1>2. CASE DiscountsKept
  <2>1. \A e : Marked(e)' = Marked(e)
    BY <1>2 DEF DiscountsKept, Marked
  <2> QED
    BY <1>2, <2>1 DEF DiscountsKept, DiscountInv, DiscountsAccounted
<1>3. CASE OrderPlaced
  <2>1. PICK o \in Orders, u \in Users, n \in Nat, p \in Providers \cup {None},
             m \in SUBSET {"flash_sale", "voucher"} :
               InsertOrder(o, u, n, p, m) /\ Books(u, m)
    BY <1>3 DEF OrderPlaced
  <2>2. /\ o \notin Placed /\ effects[o] = {}
        /\ status'[o] = "pending" /\ header'[o].owner = u /\ effects'[o] = m
        /\ \A q \in Orders \ {o} : /\ status'[q] = status[q]
                                  /\ header'[q] = header[q]
                                  /\ effects'[q] = effects[q]
    BY <1>1, <2>1 DEF InsertOrder, TypeOK, Placed, DiscountInv
  <2>3. Placed' = Placed \cup {o} /\ IsFiniteSet(Placed)'
    <3>1. Placed' = Placed \cup {o}
      BY <2>2 DEF Placed
    <3> QED
      BY <3>1, FS_AddElement DEF DiscountInv
  <2>4. \A e : /\ o \notin Marked(e)
               /\ Marked(e)' = IF e \in m THEN Marked(e) \cup {o} ELSE Marked(e)
    BY <2>2 DEF Marked
  <2>5. \A e : /\ Cardinality(Marked(e)) \in Nat
               /\ Cardinality(Marked(e)') =
                     IF e \in m THEN Cardinality(Marked(e)) + 1
                                ELSE Cardinality(Marked(e))
    BY <1>1, <2>4, FS_AddElement, FS_CardinalityType
  <2>6. /\ sold' = Cardinality(Marked("flash_sale")') /\ sold' <= Flash.stock
        /\ used' = Cardinality(Marked("voucher")') /\ used' <= Voucher.maxUses
    <3>1. Flash.stock \in Nat /\ Voucher.maxUses \in Nat
      BY PriceAssumption
    <3> QED
      BY <1>1, <2>1, <2>5, <3>1 DEF Books, DiscountInv, DiscountsAccounted, TypeOK
  <2>7. ASSUME Voucher.onePerUser
        PROVE  /\ \A q \in Marked("voucher")' : header'[q].owner \in redeemers'
               /\ \A q, r \in Marked("voucher")' :
                     header'[q].owner = header'[r].owner => q = r
    <3>1. \A q \in Marked("voucher") :
             /\ q \in Orders \ {o} /\ header'[q] = header[q]
             /\ header[q].owner \in redeemers
      BY <2>2, <2>4, <2>7 DEF DiscountInv, Marked
    <3>2. \A q, r \in Marked("voucher") :
             header[q].owner = header[r].owner => q = r
      BY <2>7 DEF DiscountInv, DiscountsAccounted
    <3>3. CASE "voucher" \notin m
      BY <2>1, <2>4, <3>1, <3>2, <3>3 DEF Books
    <3>4. CASE "voucher" \in m
      <4>1. u \notin redeemers /\ u \in redeemers' /\ redeemers \subseteq redeemers'
        BY <2>1, <2>7, <3>4 DEF Books
      <4> QED
        BY <2>2, <2>4, <3>1, <3>2, <3>4, <4>1
    <3> QED
      BY <3>3, <3>4
  <2>8. \A q \in Orders : effects'[q] # {} => q \in Placed'
    BY <2>2, <2>3 DEF DiscountInv
  <2>9. DiscountsAccounted'
    BY <2>6, <2>7 DEF DiscountsAccounted
  <2> QED
    BY <2>3, <2>7, <2>8, <2>9 DEF DiscountInv
<1> QED
  BY <1>2, <1>3, BonusSteps

(***************************************************************************)
(* The counters of the flash sale and of the voucher equal the orders that *)
(* carry their effect, within stock and quota, and a one-per-user voucher  *)
(* marks one order of a member, for any number of orders.                  *)
(***************************************************************************)
THEOREM DiscountsOnRecord == Spec => []DiscountsAccounted
<1>1. Init => DiscountInv
  BY InitDiscounts
<1>2. IInv /\ DiscountInv /\ [Next]_vars => DiscountInv'
  BY StepDiscounts
<1>3. DiscountInv => DiscountsAccounted
  BY DEF DiscountInv
<1> QED
  BY <1>1, <1>2, <1>3, Invariance, PTL DEF Spec

(***************************************************************************)
(* Points.  A member's awards are a sum over the member's orders, which    *)
(* are finitely many because they are placed.                              *)
(***************************************************************************)
OrdersOf(u) == {o \in Orders : header[o].owner = u}

(* The sum of a member's awards is a number, and covers each award. *)
LEMMA OwnAwardsSum ==
    ASSUME TypeOK, HeaderOK, IsFiniteSet(Placed), NEW u \in Users
    PROVE  /\ IsFiniteSet(OrdersOf(u))
           /\ OwnAwards(u) = SumFunctionOnSet(awards, OrdersOf(u))
           /\ OwnAwards(u) \in Nat
           /\ \A o \in OrdersOf(u) : OwnAwards(u) >= awards[o]
<1>1. OrdersOf(u) \subseteq Placed
  BY NobodyAssumption DEF HeaderOK, NoHeader, OrdersOf, Placed
<1>2. IsFiniteSet(OrdersOf(u))
  BY <1>1, FS_Subset
<1>3. \A o \in OrdersOf(u) : awards[o] \in Nat
  BY DEF TypeOK, OrdersOf
<1>4. SumFunctionOnSet(awards, OrdersOf(u)) \in Nat
  BY <1>2, <1>3, SumType
<1>5. ASSUME NEW o \in OrdersOf(u)
      PROVE  SumFunctionOnSet(awards, OrdersOf(u)) >= awards[o]
  <2> DEFINE rest == SumFunctionOnSet(awards, OrdersOf(u) \ {o})
  <2>1. SumFunctionOnSet(awards, OrdersOf(u)) = awards[o] + rest
    BY <1>2, <1>3, SumRemove
  <2>2. rest \in Nat
    BY <1>2, <1>3, FS_RemoveElement, SumType
  <2> HIDE DEF rest
  <2> QED
    BY <1>3, <2>1, <2>2
<1> QED
  BY <1>2, <1>4, <1>5 DEF OwnAwards, OrdersOf

(* A placed order brings no award with it. *)
LEMMA PlacingKeepsAwards ==
    ASSUME IInv, HeaderOK', TypeOK', IsFiniteSet(Placed), IsFiniteSet(Placed)', OrderPlaced,
           NEW v \in Users
    PROVE  OwnAwards(v)' = OwnAwards(v)
<1>1. PICK o \in Orders, u \in Users, n \in Nat, p \in Providers \cup {None},
           m \in SUBSET {"flash_sale", "voucher"} :
             InsertOrder(o, u, n, p, m) /\ UNCHANGED pointVars
  BY DEF OrderPlaced
<1>2. TypeOK /\ HeaderOK /\ AwardsFollowSuccess
  BY DEF IInv
<1>3. /\ status[o] = "absent" /\ header'[o].owner = u
      /\ \A q \in Orders \ {o} : header'[q] = header[q]
      /\ awards' = awards
  BY <1>1, <1>2 DEF InsertOrder, TypeOK, pointVars
<1>4. awards[o] = 0
  BY <1>2, <1>3 DEF TypeOK, AwardsFollowSuccess
<1>5. /\ IsFiniteSet(OrdersOf(v))
      /\ OwnAwards(v) = SumFunctionOnSet(awards, OrdersOf(v))
      /\ OwnAwards(v) \in Nat
  BY <1>2, OwnAwardsSum
<1>6. OwnAwards(v)' = SumFunctionOnSet(awards', OrdersOf(v)')
  BY DEF OwnAwards, OrdersOf
<1>7. o \notin OrdersOf(v)
  BY <1>2, <1>3, NobodyAssumption DEF HeaderOK, NoHeader, OrdersOf
<1>8. CASE v = u
  <2>1. OrdersOf(v)' = OrdersOf(v) \cup {o}
    BY <1>3, <1>8 DEF OrdersOf
  <2>2. \A q \in OrdersOf(v) \cup {o} : awards[q] \in Int
    BY <1>2 DEF TypeOK, OrdersOf
  <2>3. SumFunctionOnSet(awards, OrdersOf(v) \cup {o}) =
          awards[o] + SumFunctionOnSet(awards, OrdersOf(v))
    BY <1>5, <1>7, <2>2, SumAdd
  <2> QED
    BY <1>3, <1>4, <1>5, <1>6, <2>1, <2>3
<1>9. CASE v # u
  <2>1. OrdersOf(v)' = OrdersOf(v)
    BY <1>3, <1>7, <1>9 DEF OrdersOf
  <2> QED
    BY <1>3, <1>5, <1>6, <2>1
<1> QED
  BY <1>8, <1>9

(* A status edit moves a member's awards and points together. *)
LEMMA MovingKeepsCover ==
    ASSUME IInv, IsFiniteSet(Placed), PointsCoverAwards, UNCHANGED header,
           NEW o \in Placed, NEW next \in Statuses, MovePoints(o, next),
           NEW v \in Users
    PROVE  points'[v] >= OwnAwards(v)'
<1>1. TypeOK /\ HeaderOK /\ AwardsFollowSuccess /\ o \in Orders
  BY DEF IInv, Placed
<1>2. PICK u \in Users : u = header[o].owner
  BY <1>1, PlacedHeader DEF Placed
<1>3. /\ IsFiniteSet(OrdersOf(v))
      /\ OwnAwards(v) = SumFunctionOnSet(awards, OrdersOf(v))
      /\ OwnAwards(v) \in Nat
      /\ \A q \in OrdersOf(v) : OwnAwards(v) >= awards[q]
  BY <1>1, OwnAwardsSum
<1>4. OwnAwards(v)' = SumFunctionOnSet(awards', OrdersOf(v))
  BY DEF OwnAwards, OrdersOf
<1>5. points[v] \in Nat /\ awards[o] \in Nat /\ points[v] >= OwnAwards(v)
  BY <1>1 DEF TypeOK, PointsCoverAwards
<1>6. /\ awards' \in [Orders -> Nat]
      /\ \A q \in Orders \ {o} : awards'[q] = awards[q]
  BY <1>1, MovePointsFacts
<1>7. /\ \A q \in OrdersOf(v) : awards[q] \in Int /\ awards'[q] \in Int
      /\ \A q \in OrdersOf(v) \ {o} : awards[q] = awards'[q]
  BY <1>1, <1>6 DEF TypeOK, OrdersOf
<1>8. CASE v # u
  <2>1. o \notin OrdersOf(v)
    BY <1>2, <1>8 DEF OrdersOf
  <2>2. OwnAwards(v)' = OwnAwards(v)
    BY <1>3, <1>4, <1>7, <2>1, SumCongruent
  <2>3. points'[v] = points[v]
    BY <1>1, <1>2, <1>8
    DEF MovePoints, GivePoints, TakePointsBack, TypeOK, pointVars
  <2> QED
    BY <1>5, <2>2, <2>3
<1>9. CASE v = u
  <2>1. o \in OrdersOf(v)
    BY <1>1, <1>2, <1>9 DEF OrdersOf
  <2>2. OwnAwards(v)' = OwnAwards(v) - awards[o] + awards'[o]
    BY <1>3, <1>4, <1>7, <2>1, SumChange
  <2>3. CASE awards[o] = 0 /\ GivePoints(o, u)
    <3>1. PICK n \in Nat : n = AwardPoints(header[o].amount)
      <4>1. header[o].amount \in Nat
        BY <1>1 DEF TypeOK
      <4> QED
        BY <4>1, PriceAssumption DEF AwardPoints
    <3>2. points'[v] = points[v] + n /\ awards'[o] = n
      BY <1>1, <1>9, <2>3, <3>1 DEF GivePoints, TypeOK
    <3> QED
      BY <1>3, <1>5, <2>2, <2>3, <3>1, <3>2
  <2>4. CASE TakePointsBack(o, u)
    <3>1. points[v] >= awards[o]
      BY <1>3, <1>5, <2>1
    <3>2. points'[v] = points[v] - awards[o] /\ awards'[o] = 0
      BY <1>1, <1>9, <2>4, <3>1 DEF TakePointsBack, TypeOK
    <3> QED
      BY <1>3, <1>5, <2>2, <3>2
  <2>5. CASE UNCHANGED pointVars
    BY <1>3, <1>4, <1>5, <2>5 DEF pointVars
  <2> QED
    BY <1>2, <2>3, <2>4, <2>5 DEF MovePoints
<1> QED
  BY <1>8, <1>9

(* Every step keeps the awards covered, unless an operator takes points. *)
LEMMA StepCover ==
    ASSUME PointChanges \subseteq Nat,
           IInv, IInv', IsFiniteSet(Placed), IsFiniteSet(Placed)', PointsCoverAwards,
           [Next]_vars
    PROVE  PointsCoverAwards'
<1> SUFFICES ASSUME NEW v \in Users PROVE points'[v] >= OwnAwards(v)'
  BY DEF PointsCoverAwards
<1>1. /\ TypeOK /\ HeaderOK /\ TypeOK' /\ HeaderOK'
      /\ points[v] >= OwnAwards(v) /\ points[v] \in Nat
  BY DEF IInv, PointsCoverAwards, TypeOK
<1>2. OwnAwards(v) \in Nat
  BY <1>1, OwnAwardsSum
<1>3. CASE OrderPlaced
  <2>1. points'[v] = points[v]
    BY <1>3 DEF OrderPlaced, pointVars
  <2> QED
    BY <1>1, <1>3, <2>1, PlacingKeepsAwards
<1>4. CASE DiscountsKept /\ PointsMoved
  <2>1. header' = header
    BY <1>4 DEF DiscountsKept
  <2>2. awards' = awards => OwnAwards(v)' = OwnAwards(v)
    BY <2>1 DEF OwnAwards
  <2>3. ASSUME NEW o \in Placed, NEW next \in Statuses, MovePoints(o, next)
        PROVE  points'[v] >= OwnAwards(v)'
    BY <2>1, <2>3, MovingKeepsCover
  <2>4. ASSUME NEW u \in Users, NEW n \in PointChanges,
               points' = [points EXCEPT ![u] = @ + n], UNCHANGED awards
        PROVE  points'[v] >= OwnAwards(v)'
    <3>1. n \in Nat /\ points'[v] \in {points[v], points[v] + n}
      BY <1>1, <2>4 DEF TypeOK
    <3> QED
      BY <1>1, <1>2, <2>2, <2>4, <3>1
  <2>5. CASE UNCHANGED pointVars
    BY <1>1, <2>2, <2>5 DEF pointVars
  <2> QED
    BY <1>4, <2>3, <2>4, <2>5 DEF PointsMoved
<1> QED
  BY <1>3, <1>4, BonusSteps

(***************************************************************************)
(* A member owns at least the points of the awards on record, so a status  *)
(* edit that takes an award back always finds the points there and never   *)
(* takes the row without them.  The hypothesis is the property's own: the  *)
(* operators of points_adjust only add.                                    *)
(***************************************************************************)
THEOREM AwardsAreCovered ==
    ASSUME PointChanges \subseteq Nat
    PROVE  Spec => []PointsCoverAwards
<1>1. Init => DiscountInv /\ PointsCoverAwards
  <2> SUFFICES ASSUME Init PROVE PointsCoverAwards
    BY InitDiscounts
  <2>1. IInv /\ IsFiniteSet(Placed)
    BY InitIInv, InitDiscounts DEF DiscountInv
  <2> SUFFICES ASSUME NEW u \in Users PROVE points[u] >= OwnAwards(u)
    BY DEF PointsCoverAwards
  <2>2. OrdersOf(u) = {}
    BY NobodyAssumption DEF Init, NoHeader, OrdersOf
  <2>3. OwnAwards(u) = 0
    BY <2>1, <2>2, OwnAwardsSum, SumEmpty DEF IInv
  <2> QED
    BY <2>3 DEF Init
<1>2. IInv /\ IInv' /\ DiscountInv /\ PointsCoverAwards /\ [Next]_vars
        => DiscountInv' /\ PointsCoverAwards'
  BY StepDiscounts, StepCover DEF DiscountInv
<1> QED
  BY <1>1, <1>2, Invariance, PTL DEF Spec

-----------------------------------------------------------------------------
(***************************************************************************)
(* MemberWallet implements Custody: every handler is one move of the       *)
(* wallet promise or none.  The invariant supplies the two facts a handler *)
(* does not check itself: a placed order has a bill, and the failed orders *)
(* are the refunded ones.                                                  *)
(***************************************************************************)

(***************************************************************************)
(* What a handler does to the money: the price of an order goes into       *)
(* custody or comes back from it, an operator grants or takes, or nothing  *)
(* happens.  MoneyConserved needs no more than this of a handler.          *)
(***************************************************************************)
PriceMoves(o, u, s, d, n) ==
    /\ Post(u, s, d, n) /\ s \notin AdjustSources
    /\ Bill'[o] = [owner |-> u, amount |-> n]
    /\ \A q \in Orders \ {o} : Bill'[q] = Bill[q]
    /\ d = 1 => o \in InCustody /\ InCustody' = InCustody \ {o} /\ Bill'[o] = Bill[o]
    /\ d = -1 => o \notin InCustody /\ InCustody' = InCustody \cup {o}

GrantMoves(u, s, d, n) ==
    Post(u, s, d, n) /\ s \in AdjustSources /\ UNCHANGED <<Bill, InCustody>>

MoneyMoves ==
    \E u \in Users, s \in Sources, d \in {-1, 1}, n \in Nat :
        GrantMoves(u, s, d, n) \/ \E o \in Orders : PriceMoves(o, u, s, d, n)

MoneyRests == UNCHANGED <<bookVars, Bill, InCustody>>

PromiseMoves == Promise!Next /\ MoneyMoves
PromiseRests == UNCHANGED Promise!vars /\ MoneyRests

(* A posting for an order uses no grant. *)
LEMMA OrderPostKeepsGrants ==
    ASSUME BookTypeOK, NEW u \in Users, NEW s \in Sources, NEW d \in {-1, 1},
           NEW n \in Nat, Post(u, s, d, n), s \notin AdjustSources
    PROVE  UNCHANGED UsedGrants
<1>1. \A t \in AdjustSources : Posted(t)' <=> Posted(t)
  BY PostAddsSource
<1> QED
  BY <1>1 DEF UsedGrants

(* A new order is a purchase. *)
LEMMA PlaceIsBuy ==
    ASSUME IInv, NEW o \in Orders, NEW u \in Users, NEW n \in Nat,
           NEW p \in Providers \cup {None}, NEW k \in PlainKinds,
           NEW m \in SUBSET {"flash_sale", "voucher"},
           InsertOrder(o, u, n, p, m),
           Post(u, Source(k, o, <<>>), -1, n)
    PROVE  PromiseMoves
<1>1. PICK s \in Sources : s = Source(k, o, <<>>) /\ s \notin AdjustSources
  BY OrderSourceOK
<1>2. BookTypeOK /\ TypeOK /\ HeaderOK
  BY DEF IInv, TypeOK
<1>3. Post(u, s, -1, n)
  BY <1>1
<1>4. UNCHANGED UsedGrants
  BY <1>1, <1>2, <1>3, OrderPostKeepsGrants
<1>5. n \in 1 .. balance[u] /\ balance' = [balance EXCEPT ![u] = @ - n]
  BY <1>2, <1>3, DebitTakes
<1>6. ~refunded[o]
  BY <1>2 DEF IInv, InsertOrder, FailedIffRefunded
<1>7. /\ Bill[o] = Promise!NoBill
      /\ Bill' = [Bill EXCEPT ![o] = [owner |-> u, amount |-> n]]
  <2>1. header' = [header EXCEPT ![o] = [owner |-> u, amount |-> n, provider |-> p]]
    BY DEF InsertOrder
  <2>2. header[o] = NoHeader
    BY <1>2 DEF InsertOrder, HeaderOK
  <2>3. header'[o].owner = u /\ header'[o].amount = n
    BY <1>2, <2>1 DEF TypeOK
  <2>4. \A q \in Orders \ {o} : header'[q] = header[q]
    BY <1>2, <2>1 DEF TypeOK
  <2>5. Bill[o] = Promise!NoBill
    BY <2>2 DEF Bill, NoHeader, Promise!NoBill
  <2>6. Bill' = [q \in Orders |-> IF q = o THEN [owner |-> u, amount |-> n] ELSE Bill[q]]
    BY <2>3, <2>4 DEF Bill
  <2> QED
    BY <2>5, <2>6 DEF Bill
<1>8. InCustody' = InCustody \cup {o}
  BY <1>2, <1>6 DEF InsertOrder, InCustody, TypeOK
<1>9. Promise!Next
  BY <1>4, <1>5, <1>7, <1>8 DEF Promise!Next, Promise!Buy
<1>10. PriceMoves(o, u, s, -1, n)
  <2>1. o \notin InCustody
    BY <1>2 DEF InsertOrder, InCustody, TypeOK
  <2>2. /\ Bill'[o] = [owner |-> u, amount |-> n]
        /\ \A q \in Orders \ {o} : Bill'[q] = Bill[q]
    BY <1>7 DEF Bill
  <2> QED
    BY <1>1, <1>3, <1>8, <2>1, <2>2 DEF PriceMoves
<1> QED
  BY <1>9, <1>10 DEF PromiseMoves, MoneyMoves

(* Paying a placed order back, and taking it again. *)
LEMMA CreditGivesBack ==
    ASSUME IInv, NEW o \in Orders, NEW u \in Users, NEW s \in Sources, NEW n \in Nat,
           Post(u, s, 1, n), s \notin AdjustSources,
           u = header[o].owner, n = header[o].amount, UNCHANGED header,
           status[o] # "absent", ~refunded[o], refunded'[o],
           \A q \in Orders \ {o} : /\ refunded'[q] = refunded[q]
                                 /\ status'[q] = status[q]
    PROVE  PromiseMoves
<1>1. BookTypeOK
  BY DEF IInv, TypeOK
<1>2. UNCHANGED UsedGrants
  BY <1>1, OrderPostKeepsGrants
<1>3. balance' = [balance EXCEPT ![u] = balance[u] + n]
  BY <1>1, CreditAdds
<1>4. balance' = [balance EXCEPT ![Bill[o].owner] = @ + Bill[o].amount]
  BY <1>3 DEF Bill
<1>5. UNCHANGED Bill
  BY DEF Bill
<1>6. o \in InCustody /\ InCustody' = InCustody \ {o}
  BY DEF InCustody
<1>7. Promise!Next
  BY <1>2, <1>4, <1>5, <1>6 DEF Promise!Next, Promise!GiveBack
<1>8. PriceMoves(o, u, s, 1, n)
  BY <1>5, <1>6 DEF PriceMoves, Bill
<1> QED
  BY <1>7, <1>8 DEF PromiseMoves, MoneyMoves

(* Charging a refunded order again is TakeAgain. *)
LEMMA DebitTakesAgain ==
    ASSUME IInv, NEW o \in Orders, NEW u \in Users, NEW s \in Sources, NEW n \in Nat,
           Post(u, s, -1, n), s \notin AdjustSources,
           u = header[o].owner, n = header[o].amount, UNCHANGED header,
           status[o] # "absent", status'[o] # "absent", refunded[o], ~refunded'[o],
           \A q \in Orders \ {o} : /\ refunded'[q] = refunded[q]
                                 /\ status'[q] = status[q]
    PROVE  PromiseMoves
<1>1. BookTypeOK
  BY DEF IInv, TypeOK
<1>2. UNCHANGED UsedGrants
  BY <1>1, OrderPostKeepsGrants
<1>3. n \in 1 .. balance[u] /\ balance' = [balance EXCEPT ![u] = balance[u] - n]
  BY <1>1, DebitTakes
<1>4. /\ balance[Bill[o].owner] >= Bill[o].amount
      /\ balance' = [balance EXCEPT ![Bill[o].owner] = @ - Bill[o].amount]
  <2>1. balance[u] >= n
    BY <1>1, <1>3 DEF BookTypeOK
  <2> QED
    BY <1>3, <2>1 DEF Bill
<1>5. UNCHANGED Bill /\ Bill[o] # Promise!NoBill
  BY <1>3 DEF Bill, Promise!NoBill
<1>6. o \notin InCustody /\ InCustody' = InCustody \cup {o}
  BY DEF InCustody
<1>7. Promise!Next
  BY <1>2, <1>4, <1>5, <1>6 DEF Promise!Next, Promise!TakeAgain
<1>8. PriceMoves(o, u, s, -1, n)
  BY <1>5, <1>6 DEF PriceMoves, Bill
<1> QED
  BY <1>7, <1>8 DEF PromiseMoves, MoneyMoves

-----------------------------------------------------------------------------
(* A balance adjustment uses a fresh grant. *)
LEMMA AdjustIsMove ==
    ASSUME IInv, NEW a \in Staff, NEW k \in Keys, NEW u \in Users,
           NEW d \in {-1, 1}, NEW n \in Adjustments, AdjustBalance(a, k, u, d, n)
    PROVE  PromiseMoves
<1>1. PICK s \in Sources : /\ s = Source("balance-adjust", <<a, k>>, <<>>)
                          /\ s \in AdjustSources
  BY AdjustSourceOK
<1>2. Post(u, s, d, n) /\ n \in Nat /\ BookTypeOK
  BY <1>1, PriceAssumption DEF AdjustBalance, IInv, TypeOK
<1>3. PICK m \in 0 .. MaxBalance : balance' = [balance EXCEPT ![u] = m]
  <2>1. /\ balance[u] + d * n \in 0 .. MaxBalance
        /\ balance' = [balance EXCEPT ![u] = balance[u] + d * n]
    BY <1>2 DEF Post
  <2> QED
    BY <2>1
<1>4. s \notin UsedGrants /\ UsedGrants' = UsedGrants \cup {s}
  <2>1. ~Posted(s)
    BY <1>2, PostAppends
  <2>2. \A t \in AdjustSources : Posted(t)' <=> Posted(t) \/ t = s
    BY <1>2, PostAddsSource
  <2> QED
    BY <1>1, <2>1, <2>2 DEF UsedGrants
<1>5. UNCHANGED <<Bill, InCustody>>
  BY DEF AdjustBalance, orderVars, Bill, InCustody
<1>6. Promise!Next
  BY <1>1, <1>3, <1>4, <1>5 DEF Promise!Next, Promise!Move
<1>7. GrantMoves(u, s, d, n)
  BY <1>1, <1>2, <1>5 DEF GrantMoves
<1> QED
  BY <1>2, <1>6, <1>7 DEF PromiseMoves, MoneyMoves

(* A step that leaves book and orders alone, or moves a status only. *)
LEMMA QuietStutters ==
    ASSUME UNCHANGED <<bookVars, header>>,
           \A q \in Orders : /\ refunded'[q] <=> refunded[q]
                             /\ status'[q] = "absent" <=> status[q] = "absent"
    PROVE  PromiseRests
<1>1. UNCHANGED balance /\ UNCHANGED Bill
  BY DEF bookVars, Bill
<1>2. UNCHANGED InCustody
  BY DEF InCustody
<1>3. UNCHANGED UsedGrants
  BY DEF bookVars, UsedGrants, Posted
<1> QED
  BY <1>1, <1>2, <1>3 DEF PromiseRests, MoneyRests, Promise!vars

(* A checkout is Buy. *)
LEMMA CheckoutIsBuy ==
    ASSUME IInv, NEW u \in Users, NEW k \in Keys \cup {NoKey}, NEW o \in Orders,
           NEW base \in Prices, NEW f \in BOOLEAN, NEW v \in BOOLEAN,
           Checkout(u, k, o, base, f, v)
    PROVE  PromiseMoves
<1> DEFINE price == FinalPrice(base, f, v)
           marks == (IF FlashTaken(f) THEN {"flash_sale"} ELSE {})
                    \cup (IF v THEN {"voucher"} ELSE {})
<1>1. /\ InsertOrder(o, u, price, None, marks)
      /\ Post(u, Source("transaction", o, <<>>), -1, price)
  BY DEF Checkout
<1>2. price \in Nat
  BY FinalPriceNat
<1>3. marks \in SUBSET {"flash_sale", "voucher"}
  OBVIOUS
<1> HIDE DEF price, marks
<1> QED
  BY <1>1, <1>2, <1>3, PlaceIsBuy DEF PlainKinds

(* refund_transaction is GiveBack. *)
LEMMA RefundGivesBack ==
    ASSUME IInv, NEW a \in Staff, NEW k \in Keys, NEW o \in Orders, Refund(a, k, o)
    PROVE  PromiseMoves
<1>1. /\ status[o] # "absent" /\ ~refunded[o]
      /\ Post(header[o].owner, Source("transaction-refund", o, <<>>), 1, header[o].amount)
      /\ status' = [status EXCEPT ![o] = "failed"]
      /\ refunded' = [refunded EXCEPT ![o] = TRUE]
      /\ UNCHANGED header
  BY DEF Refund
<1>2. PICK u \in Users, n \in Nat : u = header[o].owner /\ n = header[o].amount
  BY <1>1, PlacedHeader
<1>3. PICK s \in Sources : s = Source("transaction-refund", o, <<>>) /\ s \notin AdjustSources
  BY OrderSourceOK DEF PlainKinds
<1>4. Post(u, s, 1, n)
  BY <1>1, <1>2, <1>3
<1>5. /\ refunded'[o]
      /\ \A q \in Orders \ {o} : refunded'[q] = refunded[q] /\ status'[q] = status[q]
  BY <1>1 DEF IInv, TypeOK
<1> QED
  BY <1>1, <1>2, <1>3, <1>4, <1>5, CreditGivesBack

(* A status edit is GiveBack, TakeAgain or a stutter. *)
LEMMA UpdateIsPromised ==
    ASSUME IInv, IInv', NEW a \in Staff, NEW k \in Keys \cup {NoKey}, NEW o \in Orders,
           NEW next \in Statuses, UpdateStatus(a, k, o, next)
    PROVE  PromiseMoves \/ PromiseRests
<1>1. /\ status[o] # "absent"
      /\ MoveMoney(o, next)
      /\ status' = [status EXCEPT ![o] = next]
      /\ UNCHANGED header
  BY DEF UpdateStatus
<1>2. TypeOK /\ status[o] \in Statuses /\ refunded \in [Orders -> BOOLEAN]
  BY <1>1 DEF IInv, TypeOK
<1>3. PICK u \in Users, n \in Nat : u = header[o].owner /\ n = header[o].amount
  BY <1>1, PlacedHeader
<1>4. PICK s \in Sources : /\ s = Source("transaction-status", o, <<status[o], next>>)
                          /\ s \notin AdjustSources
  <2>1. PICK from \in Statuses : from = status[o]
    BY <1>2
  <2> QED
    BY <2>1, StatusSourceOK
<1>5. /\ status'[o] # "absent"
      /\ \A q \in Orders \ {o} : status'[q] = status[q]
  BY <1>1, <1>2 DEF TypeOK, Statuses
<1>6. CASE Returns(o, next) /\ Post(u, s, 1, n) /\ refunded' = [refunded EXCEPT ![o] = TRUE]
  <2>1. /\ ~refunded[o] /\ refunded'[o]
        /\ \A q \in Orders \ {o} : refunded'[q] = refunded[q]
    BY <1>2, <1>6 DEF Returns
  <2>2. PromiseMoves
    BY <1>1, <1>3, <1>4, <1>5, <1>6, <2>1, CreditGivesBack
  <2> QED
    BY <2>2
<1>7. CASE Recharges(o, next) /\ Post(u, s, -1, n) /\ refunded' = [refunded EXCEPT ![o] = FALSE]
  <2>1. /\ refunded[o] /\ ~refunded'[o]
        /\ \A q \in Orders \ {o} : refunded'[q] = refunded[q]
    BY <1>2, <1>7 DEF Recharges
  <2>2. PromiseMoves
    BY <1>1, <1>3, <1>4, <1>5, <1>7, <2>1, DebitTakesAgain
  <2> QED
    BY <2>2
<1>8. CASE UNCHANGED <<bookVars, refunded>>
  <2>1. \A q \in Orders : /\ refunded'[q] <=> refunded[q]
                          /\ status'[q] = "absent" <=> status[q] = "absent"
    BY <1>1, <1>5, <1>8
  <2> QED
    BY <1>1, <1>8, <2>1, QuietStutters
<1> QED
  BY <1>1, <1>3, <1>4, <1>6, <1>7, <1>8 DEF MoveMoney

(* A `failed` callback is GiveBack. *)
LEMMA CallbackFailedGivesBack ==
    ASSUME IInv, NEW p \in Providers, NEW o \in Orders, CallbackFailed(p, o)
    PROVE  PromiseMoves
<1>1. /\ status[o] \in {"pending", "processing"}
      /\ Post(header[o].owner, Source("webhook-refund", o, <<>>), 1, header[o].amount)
      /\ status' = [status EXCEPT ![o] = "failed"]
      /\ refunded' = [refunded EXCEPT ![o] = TRUE]
      /\ UNCHANGED header
  BY DEF CallbackFailed
<1>2. status[o] # "absent" /\ ~refunded[o]
  BY <1>1 DEF IInv, FailedIffRefunded
<1>3. PICK u \in Users, n \in Nat : u = header[o].owner /\ n = header[o].amount
  BY <1>2, PlacedHeader
<1>4. PICK s \in Sources : s = Source("webhook-refund", o, <<>>) /\ s \notin AdjustSources
  BY OrderSourceOK DEF PlainKinds
<1>5. Post(u, s, 1, n)
  BY <1>1, <1>3, <1>4
<1>6. /\ refunded'[o]
      /\ \A q \in Orders \ {o} : refunded'[q] = refunded[q] /\ status'[q] = status[q]
  BY <1>1 DEF IInv, TypeOK
<1> QED
  BY <1>1, <1>2, <1>3, <1>4, <1>5, <1>6, CreditGivesBack

(* A `success` callback is TakeAgain or a stutter. *)
LEMMA CallbackSuccessIsPromised ==
    ASSUME IInv, NEW p \in Providers, NEW o \in Orders, CallbackSuccess(p, o)
    PROVE  PromiseMoves \/ PromiseRests
<1>1. /\ status[o] # "absent"
      /\ status' = [status EXCEPT ![o] = "success"]
      /\ refunded' = [refunded EXCEPT ![o] = FALSE]
      /\ UNCHANGED header
  BY DEF CallbackSuccess, CallbackFor
<1>2. /\ status'[o] # "absent" /\ ~refunded'[o]
      /\ \A q \in Orders \ {o} : refunded'[q] = refunded[q] /\ status'[q] = status[q]
  BY <1>1 DEF IInv, TypeOK
<1>3. CASE /\ status[o] = "failed" \/ refunded[o]
           /\ Post(header[o].owner, Source("webhook-correction", o, <<>>), -1, header[o].amount)
  <2>1. PICK u \in Users, n \in Nat : u = header[o].owner /\ n = header[o].amount
    BY <1>1, PlacedHeader
  <2>2. PICK s \in Sources : s = Source("webhook-correction", o, <<>>) /\ s \notin AdjustSources
    BY OrderSourceOK DEF PlainKinds
  <2>3. Post(u, s, -1, n)
    BY <1>3, <2>1, <2>2
  <2>4. refunded[o]
    BY <1>3 DEF IInv, FailedIffRefunded
  <2>5. PromiseMoves
    BY <1>1, <1>2, <2>1, <2>2, <2>3, <2>4, DebitTakesAgain
  <2> QED
    BY <2>5
<1>4. CASE ~refunded[o] /\ UNCHANGED bookVars
  <2>1. \A q \in Orders : /\ refunded'[q] <=> refunded[q]
                          /\ status'[q] = "absent" <=> status[q] = "absent"
    BY <1>1, <1>2, <1>4
  <2> QED
    BY <1>1, <1>4, <2>1, QuietStutters
<1> QED
  BY <1>3, <1>4 DEF CallbackSuccess

-----------------------------------------------------------------------------
(* The initial states map to initial states. *)
LEMMA InitIsPromised == Init => Promise!Init
<1> SUFFICES ASSUME Init PROVE Promise!Init
  OBVIOUS
<1>1. Bill = [o \in Orders |-> Promise!NoBill]
  BY DEF Init, Bill, NoHeader, Promise!NoBill
<1>2. InCustody = {} /\ UsedGrants = {}
  BY DEF Init, BookInit, InCustody, UsedGrants, Posted
<1> QED
  BY <1>1, <1>2 DEF Init, BookInit, Promise!Init

(* Every step maps to a step of the promise or a stutter. *)
LEMMA StepIsPromised ==
    IInv /\ IInv' /\ [Next]_vars => PromiseMoves \/ PromiseRests
<1> SUFFICES ASSUME IInv, IInv', [Next]_vars PROVE PromiseMoves \/ PromiseRests
  OBVIOUS
<1>1. ASSUME NEW u \in Users, NEW k \in Keys \cup {NoKey}, NEW o \in Orders,
             NEW base \in Prices, NEW f \in BOOLEAN, NEW v \in BOOLEAN,
             Checkout(u, k, o, base, f, v)
      PROVE  PromiseMoves
  BY <1>1, CheckoutIsBuy
<1>2. CASE UNCHANGED <<bookVars, orderVars>>
  <2>1. \A q \in Orders : /\ refunded'[q] <=> refunded[q]
                          /\ status'[q] = "absent" <=> status[q] = "absent"
    BY <1>2 DEF orderVars
  <2> QED
    BY <1>2, <2>1, QuietStutters DEF orderVars
<1>3. ASSUME NEW u \in Users, NEW k \in Keys \cup {NoKey}, NEW o \in Orders,
             NEW base \in Prices, OpenApiOrder(u, k, o, base)
      PROVE  PromiseMoves
  BY <1>3, PlaceIsBuy, PriceAssumption DEF OpenApiOrder, PlainKinds
<1>4. ASSUME NEW u \in Users, NEW o \in Orders, NEW base \in Prices,
             NEW p \in Providers, LegacyOrder(u, o, base, p)
      PROVE  PromiseMoves
  BY <1>4, PlaceIsBuy, PriceAssumption DEF LegacyOrder, PlainKinds
<1>5. ASSUME NEW a \in Staff, NEW k \in Keys, NEW o \in Orders, Refund(a, k, o)
      PROVE  PromiseMoves
  BY <1>5, RefundGivesBack
<1>6. ASSUME NEW a \in Staff, NEW k \in Keys \cup {NoKey}, NEW o \in Orders,
             NEW s \in Statuses, UpdateStatus(a, k, o, s)
      PROVE  PromiseMoves \/ PromiseRests
  BY <1>6, UpdateIsPromised
<1>7. ASSUME NEW p \in Providers, NEW o \in Orders, CallbackFailed(p, o)
      PROVE  PromiseMoves
  BY <1>7, CallbackFailedGivesBack
<1>8. ASSUME NEW p \in Providers, NEW o \in Orders, CallbackSuccess(p, o)
      PROVE  PromiseMoves \/ PromiseRests
  BY <1>8, CallbackSuccessIsPromised
<1>9. ASSUME NEW a \in Staff, NEW k \in Keys, NEW u \in Users, NEW d \in {-1, 1},
             NEW n \in Adjustments, AdjustBalance(a, k, u, d, n)
      PROVE  PromiseMoves
  BY <1>9, AdjustIsMove
<1>10. ASSUME NEW u \in Users, NEW n \in PointChanges, AdjustPoints(u, n)
       PROVE  UNCHANGED <<bookVars, orderVars>>
  BY <1>10 DEF AdjustPoints
<1>11. NewDay \/ UNCHANGED vars => UNCHANGED <<bookVars, orderVars>>
  BY DEF NewDay, vars
<1> QED
  BY <1>1, <1>2, <1>3, <1>4, <1>5, <1>6, <1>7, <1>8, <1>9, <1>10, <1>11 DEF Next

(***************************************************************************)
(* The handlers keep the wallet promise: money enters and leaves a wallet  *)
(* by a fresh grant only, and the price of an order moves whole and        *)
(* alternately between the owner's wallet and the custody of the shop.     *)
(***************************************************************************)
THEOREM PromiseKept == Spec => WalletPromise
<1>1. Init => Promise!Init
  BY InitIsPromised
<1>2. IInv /\ IInv' /\ [Next]_vars => [Promise!Next]_Promise!vars
  BY StepIsPromised DEF PromiseMoves, PromiseRests
<1> QED
  BY <1>1, <1>2, Invariance, PTL DEF Spec, WalletPromise, Promise!Spec

-----------------------------------------------------------------------------
(***************************************************************************)
(* MoneyConserved.  Both sides are finite sums: the first over the orders  *)
(* a member has in custody, the second over the grants among the rows of   *)
(* the member's ledger.                                                    *)
(***************************************************************************)
HeldBy(u) == {o \in InCustody : header[o].owner = u}
Amounts == [o \in Orders |-> header[o].amount]

(* A member's orders in custody are finitely many, with natural prices. *)
LEMMA HeldFinite ==
    ASSUME TypeOK, IsFiniteSet(Placed), NEW u
    PROVE  /\ IsFiniteSet(HeldBy(u))
           /\ \A o \in HeldBy(u) : Amounts[o] \in Nat
           /\ Invested(u) = SumFunctionOnSet(Amounts, HeldBy(u))
           /\ Invested(u) \in Nat
<1>1. HeldBy(u) \subseteq Placed
  BY DEF HeldBy, InCustody, Placed
<1>2. IsFiniteSet(HeldBy(u))
  BY <1>1, FS_Subset
<1>3. \A o \in HeldBy(u) : Amounts[o] \in Nat
  BY DEF TypeOK, HeldBy, InCustody, Amounts
<1>4. Invested(u) = SumFunctionOnSet(Amounts, HeldBy(u))
  BY DEF Invested, HeldBy, Amounts
<1>5. SumFunctionOnSet(Amounts, HeldBy(u)) \in Nat
  BY <1>2, <1>3, SumType
<1> QED
  BY <1>2, <1>3, <1>4, <1>5

(* What a handler that moves the price of an order does to bill and custody. *)
LEMMA MoveOfBill ==
    ASSUME NEW o \in Orders, NEW u \in Users, NEW s, NEW d \in {-1, 1}, NEW n \in Nat,
           PriceMoves(o, u, s, d, n)
    PROVE  /\ header'[o].owner = u /\ header'[o].amount = n
           /\ \A q \in Orders \ {o} : /\ header'[q].owner = header[q].owner
                                     /\ header'[q].amount = header[q].amount
           /\ d = 1 => header[o].owner = u /\ header[o].amount = n
<1>1. \A q \in Orders : /\ header'[q].owner = Bill'[q].owner
                        /\ header'[q].amount = Bill'[q].amount
                        /\ header[q].owner = Bill[q].owner
                        /\ header[q].amount = Bill[q].amount
  BY DEF Bill
<1>2. PICK b : b = Bill'[o]
  OBVIOUS
<1>3. b = [owner |-> u, amount |-> n] /\ b.owner = u /\ b.amount = n
  BY <1>2 DEF PriceMoves
<1>4. /\ \A q \in Orders \ {o} : Bill'[q] = Bill[q]
      /\ d = 1 => Bill[o] = b
  BY <1>2 DEF PriceMoves
<1>5. header'[o].owner = u /\ header'[o].amount = n
  BY <1>1, <1>2, <1>3
<1>6. d = 1 => header[o].owner = u /\ header[o].amount = n
  BY <1>1, <1>3, <1>4
<1>7. \A q \in Orders \ {o} : /\ header'[q].owner = header[q].owner
                              /\ header'[q].amount = header[q].amount
  BY <1>1, <1>4
<1> QED
  BY <1>5, <1>6, <1>7

Exchanged(v, u, d, n) ==
    /\ v # u => Invested(v)' = Invested(v)
    /\ v = u /\ d = 1 => Invested(v)' = Invested(v) - n
    /\ v = u /\ d = -1 => Invested(v)' = Invested(v) + n

(* Custody takes what the posting takes, and gives back what it credits. *)
LEMMA InvestedByMove ==
    ASSUME TypeOK, IsFiniteSet(Placed), NEW o \in Orders, NEW u \in Users, NEW s,
           NEW d \in {-1, 1}, NEW n \in Nat, PriceMoves(o, u, s, d, n), NEW v \in Users
    PROVE  Exchanged(v, u, d, n)
<1>1. /\ header'[o].owner = u /\ header'[o].amount = n
      /\ \A q \in Orders \ {o} : /\ header'[q].owner = header[q].owner
                                /\ header'[q].amount = header[q].amount
      /\ d = 1 => header[o].owner = u /\ header[o].amount = n
  BY MoveOfBill
<1>2. /\ d = 1 => o \in InCustody /\ InCustody' = InCustody \ {o}
      /\ d = -1 => o \notin InCustody /\ InCustody' = InCustody \cup {o}
  BY DEF PriceMoves
<1>3. /\ IsFiniteSet(HeldBy(v)) /\ \A q \in HeldBy(v) : Amounts[q] \in Nat
      /\ Invested(v) = SumFunctionOnSet(Amounts, HeldBy(v)) /\ Invested(v) \in Nat
  BY HeldFinite
<1>4. Invested(v)' = SumFunctionOnSet(Amounts', HeldBy(v)')
  BY DEF Invested, HeldBy, Amounts
<1>5. /\ Amounts'[o] = n
      /\ d = 1 => Amounts[o] = n
      /\ \A q \in Orders \ {o} : Amounts'[q] = Amounts[q]
  BY <1>1 DEF Amounts
<1>6. InCustody \subseteq Orders /\ HeldBy(v) \subseteq Orders
  BY DEF InCustody, HeldBy
<1>7. CASE v # u
  <2>1. HeldBy(v)' = HeldBy(v) /\ o \notin HeldBy(v)
    BY <1>1, <1>2, <1>6, <1>7 DEF HeldBy
  <2>2. \A q \in HeldBy(v) : Amounts'[q] = Amounts[q]
    BY <1>5, <1>6, <2>1
  <2>3. SumFunctionOnSet(Amounts', HeldBy(v)) = SumFunctionOnSet(Amounts, HeldBy(v))
    BY <1>3, <2>2, SumCongruent
  <2>4. Invested(v)' = Invested(v)
    BY <1>3, <1>4, <2>1, <2>3
  <2> QED
    BY <1>3, <1>7, <2>4 DEF Exchanged
<1>8. CASE v = u /\ d = 1
  <2>1. o \in HeldBy(v) /\ HeldBy(v)' = HeldBy(v) \ {o}
    BY <1>1, <1>2, <1>6, <1>8 DEF HeldBy
  <2>2. SumFunctionOnSet(Amounts, HeldBy(v)) = n + SumFunctionOnSet(Amounts, HeldBy(v) \ {o})
    BY <1>3, <1>5, <1>8, <2>1, SumRemove
  <2>3. \A q \in HeldBy(v) \ {o} : Amounts[q] = Amounts'[q]
    BY <1>5, <1>6
  <2>4. /\ IsFiniteSet(HeldBy(v) \ {o})
        /\ SumFunctionOnSet(Amounts, HeldBy(v) \ {o}) \in Nat
    BY <1>3, FS_RemoveElement, SumType
  <2>5. SumFunctionOnSet(Amounts, HeldBy(v) \ {o}) = SumFunctionOnSet(Amounts', HeldBy(v) \ {o})
    BY <2>3, <2>4, SumCongruent
  <2>6. Invested(v) = n + Invested(v)' /\ Invested(v)' \in Nat
    BY <1>3, <1>4, <2>1, <2>2, <2>4, <2>5
  <2> QED
    BY <1>3, <1>8, <2>6 DEF Exchanged
<1>9. CASE v = u /\ d = -1
  <2>1. o \notin HeldBy(v) /\ HeldBy(v)' = HeldBy(v) \cup {o}
    BY <1>1, <1>2, <1>6, <1>9 DEF HeldBy
  <2>2. \A q \in HeldBy(v) \cup {o} : Amounts'[q] \in Int
    BY <1>3, <1>5, <1>6, <2>1
  <2>3. SumFunctionOnSet(Amounts', HeldBy(v) \cup {o}) = n + SumFunctionOnSet(Amounts', HeldBy(v))
    BY <1>3, <1>5, <2>1, <2>2, SumAdd
  <2>4. \A q \in HeldBy(v) : Amounts'[q] = Amounts[q]
    BY <1>5, <1>6, <2>1
  <2>5. SumFunctionOnSet(Amounts', HeldBy(v)) = SumFunctionOnSet(Amounts, HeldBy(v))
    BY <1>3, <2>4, SumCongruent
  <2>6. Invested(v)' = n + Invested(v)
    BY <1>3, <1>4, <2>1, <2>3, <2>5
  <2> QED
    BY <1>3, <1>9, <2>6 DEF Exchanged
<1> QED
  BY <1>7, <1>8, <1>9

(* The grants among the rows of a member's ledger. *)
GrantRows(u) == {i \in DOMAIN ledger[u] : ledger[u][i].source \in AdjustSources}

(* They are finitely many integers. *)
LEMMA GrantsFinite ==
    ASSUME BookTypeOK, NEW u \in Users
    PROVE  /\ DOMAIN ledger[u] = 1 .. Len(ledger[u]) /\ Len(ledger[u]) \in Nat
           /\ IsFiniteSet(GrantRows(u))
           /\ \A i \in GrantRows(u) : RowValues(u)[i] \in Int
           /\ Granted(u) = SumFunctionOnSet(RowValues(u), GrantRows(u))
           /\ Granted(u) \in Int
<1>1. ledger[u] \in Seq(Row)
  BY DEF BookTypeOK
<1>2. DOMAIN ledger[u] = 1 .. Len(ledger[u]) /\ Len(ledger[u]) \in Nat
  BY <1>1
<1>3. IsFiniteSet(1 .. Len(ledger[u]))
  BY <1>2, FS_Interval
<1>4. GrantRows(u) \subseteq 1 .. Len(ledger[u])
  BY <1>2 DEF GrantRows
<1>5. IsFiniteSet(GrantRows(u))
  BY <1>3, <1>4, FS_Subset
<1>6. ASSUME NEW i \in GrantRows(u)
      PROVE  RowValues(u)[i] \in Int
  <2>1. i \in DOMAIN ledger[u] /\ ledger[u][i] \in Row
    BY <1>1, <1>2, <1>4
  <2>2. ledger[u][i].direction \in {-1, 1} /\ ledger[u][i].amount \in Nat
    BY <2>1 DEF Row
  <2>3. RowValues(u)[i] = ledger[u][i].direction * ledger[u][i].amount
    BY <2>1 DEF RowValues
  <2> QED
    BY <2>2, <2>3
<1>7. Granted(u) = SumFunctionOnSet(RowValues(u), GrantRows(u))
  BY DEF Granted, GrantRows, RowValues
<1>8. SumFunctionOnSet(RowValues(u), GrantRows(u)) \in Int
  BY <1>5, <1>6, SumType
<1> QED
  BY <1>2, <1>5, <1>6, <1>7, <1>8

(* A posting is granted money exactly when its source is an adjustment. *)
LEMMA GrantedByPost ==
    ASSUME BookTypeOK, NEW u \in Users, NEW s \in Sources, NEW d \in {-1, 1},
           NEW n \in Nat, Post(u, s, d, n), NEW v \in Users
    PROVE  Granted(v)' = Granted(v) + (IF v = u /\ s \in AdjustSources THEN d * n ELSE 0)
<1>1. /\ BookTypeOK'
      /\ Len(ledger'[u]) = Len(ledger[u]) + 1
      /\ ledger'[u][Len(ledger[u]) + 1] =
           [source |-> s, direction |-> d, amount |-> n, after |-> balance[u] + d * n]
      /\ \A i \in 1 .. Len(ledger[u]) : ledger'[u][i] = ledger[u][i]
      /\ \A w \in Users \ {u} : ledger'[w] = ledger[w]
  BY PostAppends
<1>2. Granted(v) \in Int
  BY GrantsFinite
<1>3. CASE v # u
  <2>1. ledger'[v] = ledger[v]
    BY <1>1, <1>3
  <2>2. Granted(v)' = Granted(v)
    BY <2>1 DEF Granted
  <2> QED
    BY <1>2, <1>3, <2>2
<1>4. CASE v = u
  <2>1. PICK N \in Nat : N = Len(ledger[u]) + 1
    BY GrantsFinite
  <2>2. /\ DOMAIN ledger[u] = 1 .. (N - 1) /\ IsFiniteSet(GrantRows(u))
        /\ \A i \in GrantRows(u) : RowValues(u)[i] \in Int
        /\ Granted(u) = SumFunctionOnSet(RowValues(u), GrantRows(u))
    BY <2>1, GrantsFinite
  <2>3. /\ DOMAIN ledger'[u] = 1 .. N
        /\ Granted(u)' = SumFunctionOnSet(RowValues(u)', GrantRows(u)')
    <3>1. ledger'[u] \in Seq(Row) /\ Len(ledger'[u]) = N
      BY <1>1, <2>1 DEF BookTypeOK
    <3>2. DOMAIN ledger'[u] = 1 .. N
      BY <3>1
    <3> QED
      BY <3>2 DEF Granted, GrantRows, RowValues
  <2>4. N \in 1 .. N /\ \A i \in 1 .. N : i = N \/ i \in 1 .. (N - 1)
    BY <2>1
  <2>5. /\ N \notin GrantRows(u)
        /\ GrantRows(u)' = IF s \in AdjustSources THEN GrantRows(u) \cup {N} ELSE GrantRows(u)
    <3>1. ledger'[u][N].source = s
      BY <1>1, <2>1
    <3>2. \A i \in 1 .. (N - 1) : i \in 1 .. N /\ i # N /\ ledger'[u][i] = ledger[u][i]
      BY <1>1, <2>1
    <3> QED
      BY <2>2, <2>3, <2>4, <3>1, <3>2 DEF GrantRows
  <2>6. RowValues(u)'[N] = d * n
    <3>1. ledger'[u][N].direction = d /\ ledger'[u][N].amount = n
      BY <1>1, <2>1
    <3> QED
      BY <2>3, <2>4, <3>1 DEF RowValues
  <2>7. \A i \in GrantRows(u) : RowValues(u)'[i] = RowValues(u)[i]
    <3>1. \A i \in GrantRows(u) : i \in 1 .. (N - 1)
      BY <2>2 DEF GrantRows
    <3>2. \A i \in 1 .. (N - 1) : i \in 1 .. N /\ ledger'[u][i] = ledger[u][i]
      BY <1>1, <2>1
    <3> QED
      BY <2>2, <2>3, <3>1, <3>2 DEF RowValues
  <2>8. SumFunctionOnSet(RowValues(u)', GrantRows(u)) = Granted(u)
    BY <2>2, <2>7, SumCongruent
  <2>9. CASE s \in AdjustSources
    <3>1. \A i \in GrantRows(u) \cup {N} : RowValues(u)'[i] \in Int
      BY <2>2, <2>6, <2>7
    <3>2. SumFunctionOnSet(RowValues(u)', GrantRows(u) \cup {N})
             = RowValues(u)'[N] + SumFunctionOnSet(RowValues(u)', GrantRows(u))
      BY <2>2, <2>5, <3>1, SumAdd
    <3>3. Granted(u)' = d * n + Granted(u)
      BY <2>3, <2>5, <2>6, <2>8, <2>9, <3>2
    <3> QED
      BY <1>2, <1>4, <2>9, <3>3
  <2>10. CASE s \notin AdjustSources
    BY <1>2, <1>4, <2>3, <2>5, <2>8, <2>10
  <2> QED
    BY <2>9, <2>10
<1> QED
  BY <1>3, <1>4

(* Initially nobody has anything, and nothing was granted. *)
LEMMA InitConserved == Init => MoneyConserved
<1> SUFFICES ASSUME Init, NEW u \in Users PROVE balance[u] + Invested(u) = Granted(u)
  BY DEF MoneyConserved
<1>1. HeldBy(u) = {} /\ GrantRows(u) = {}
  BY DEF Init, BookInit, HeldBy, InCustody, GrantRows
<1>2. Invested(u) = 0
  BY <1>1, SumEmpty DEF Invested, HeldBy
<1>3. Granted(u) = 0
  BY <1>1, SumEmpty DEF Granted, GrantRows
<1> QED
  BY <1>2, <1>3 DEF Init, BookInit

(* Every move of money keeps the balance of both sides. *)
LEMMA MovesConserve ==
    ASSUME TypeOK, IsFiniteSet(Placed), MoneyConserved, MoneyMoves
    PROVE  MoneyConserved'
<1> SUFFICES ASSUME NEW v \in Users PROVE balance'[v] + Invested(v)' = Granted(v)'
  BY DEF MoneyConserved
<1>1. PICK u \in Users, s \in Sources, d \in {-1, 1}, n \in Nat :
             GrantMoves(u, s, d, n) \/ \E o \in Orders : PriceMoves(o, u, s, d, n)
  BY DEF MoneyMoves
<1>2. BookTypeOK /\ Post(u, s, d, n)
  BY <1>1 DEF TypeOK, GrantMoves, PriceMoves
<1>3. Granted(v)' = Granted(v) + (IF v = u /\ s \in AdjustSources THEN d * n ELSE 0)
  BY <1>2, GrantedByPost
<1>4. PICK m \in Int : m = d * n
  OBVIOUS
<1>5. balance'[v] = balance[v] + (IF v = u THEN m ELSE 0)
  <2>1. CASE d = 1
    <3>1. m = n /\ balance' = [balance EXCEPT ![u] = balance[u] + n]
      BY <1>2, <1>4, <2>1, CreditAdds
    <3> QED
      BY <1>2, <3>1 DEF BookTypeOK
  <2>2. CASE d = -1
    <3>1. m = -n /\ balance' = [balance EXCEPT ![u] = balance[u] - n]
      BY <1>2, <1>4, <2>2, DebitTakes
    <3> QED
      BY <1>2, <3>1 DEF BookTypeOK
  <2> QED
    BY <2>1, <2>2
<1>6. /\ balance[v] \in Nat /\ Invested(v) \in Nat
      /\ balance[v] + Invested(v) = Granted(v)
  BY <1>2, HeldFinite DEF BookTypeOK, MoneyConserved
<1>7. CASE GrantMoves(u, s, d, n)
  <2>1. UNCHANGED <<Bill, InCustody>> /\ s \in AdjustSources
    BY <1>7 DEF GrantMoves
  <2>2. Invested(v)' = Invested(v)
    <3>1. \A q \in Orders : /\ header'[q].owner = Bill'[q].owner
                            /\ header'[q].amount = Bill'[q].amount
                            /\ header[q].owner = Bill[q].owner
                            /\ header[q].amount = Bill[q].amount
      BY DEF Bill
    <3>2. \A q \in Orders : /\ header'[q].owner = header[q].owner
                            /\ header'[q].amount = header[q].amount
      BY <2>1, <3>1
    <3>3. HeldBy(v)' = HeldBy(v) /\ Amounts' = Amounts
      BY <2>1, <3>2 DEF HeldBy, Amounts, InCustody
    <3> QED
      BY <3>3 DEF Invested, HeldBy, Amounts
  <2> QED
    BY <1>3, <1>4, <1>5, <1>6, <2>1, <2>2
<1>8. CASE \E o \in Orders : PriceMoves(o, u, s, d, n)
  <2>1. PICK o \in Orders : PriceMoves(o, u, s, d, n)
    BY <1>8
  <2>2. s \notin AdjustSources
    BY <2>1 DEF PriceMoves
  <2>3. Exchanged(v, u, d, n)
    BY <2>1, InvestedByMove
  <2>4. Granted(v)' = Granted(v)
    BY <1>3, <1>6, <2>2
  <2>5. CASE d = 1
    <3>1. m = n
      BY <1>4, <2>5
    <3> QED
      BY <1>5, <1>6, <2>3, <2>4, <2>5, <3>1 DEF Exchanged
  <2>6. CASE d = -1
    <3>1. m = -n
      BY <1>4, <2>6
    <3> QED
      BY <1>5, <1>6, <2>3, <2>4, <2>6, <3>1 DEF Exchanged
  <2> QED
    BY <2>5, <2>6
<1> QED
  BY <1>1, <1>7, <1>8

(* A step that moves no money keeps it too. *)
LEMMA RestConserves ==
    ASSUME MoneyConserved, MoneyRests
    PROVE  MoneyConserved'
<1> SUFFICES ASSUME NEW v \in Users PROVE balance'[v] + Invested(v)' = Granted(v)'
  BY DEF MoneyConserved
<1>1. UNCHANGED <<balance, ledger, Bill, InCustody>>
  BY DEF MoneyRests, bookVars
<1>2. \A q \in Orders : /\ header'[q].owner = Bill'[q].owner
                        /\ header'[q].amount = Bill'[q].amount
                        /\ header[q].owner = Bill[q].owner
                        /\ header[q].amount = Bill[q].amount
  BY DEF Bill
<1>3. \A q \in Orders : /\ header'[q].owner = header[q].owner
                        /\ header'[q].amount = header[q].amount
  BY <1>1, <1>2
<1>4. HeldBy(v)' = HeldBy(v) /\ Amounts' = Amounts
  BY <1>1, <1>3 DEF HeldBy, Amounts, InCustody
<1>5. Invested(v)' = Invested(v)
  BY <1>4 DEF Invested, HeldBy, Amounts
<1>6. Granted(v)' = Granted(v)
  BY <1>1 DEF Granted
<1> QED
  BY <1>1, <1>5, <1>6 DEF MoneyConserved

(***************************************************************************)
(* For any members, orders and operators: wallet and custody of a member   *)
(* hold together what operators have granted, so no sequence of checkouts, *)
(* refunds, edits and callbacks makes money or loses any.                  *)
(***************************************************************************)
THEOREM NoMoneyMade == Spec => []MoneyConserved
<1>1. Init => DiscountInv /\ MoneyConserved
  BY InitDiscounts, InitConserved
<1>2. IInv /\ IInv' /\ DiscountInv /\ MoneyConserved /\ [Next]_vars
        => DiscountInv' /\ MoneyConserved'
  <2> SUFFICES ASSUME IInv, IInv', DiscountInv, MoneyConserved, [Next]_vars
               PROVE  DiscountInv' /\ MoneyConserved'
    OBVIOUS
  <2>1. DiscountInv'
    BY StepDiscounts
  <2>2. TypeOK /\ IsFiniteSet(Placed)
    BY DEF IInv, DiscountInv
  <2>3. MoneyMoves \/ MoneyRests
    BY StepIsPromised DEF PromiseMoves, PromiseRests
  <2> QED
    BY <2>1, <2>2, <2>3, MovesConserve, RestConserves
<1> QED
  BY <1>1, <1>2, Invariance, PTL DEF Spec
=============================================================================
