# Verification of the top-up platform

TLA+ models of the parts of this repository that move money, decide about
sessions and can be hurt by interleavings, retries, crashes and lost messages,
together with the TLC runs that check them on small instances and the TLAPS
proofs that hold for every instance. The source is the reference: every
definition that models code is listed in `PROJECT.json` (`map`) with the lines
it translates.

## 1. The system

The platform sells prepaid products (phone credit, data, game vouchers, bills)
to members, and to resellers that place orders over two wire protocols.

    React client  --HTTP-->  Node gateway (server/)  --HTTP-->  Rust API (rust-api/)  --SQL-->  PostgreSQL
      tabs share one           cookies, CSRF, rate               one SQL transaction              row locks,
      cookie jar               limits, step-up                   per handler, or one              CHECK and UNIQUE
                                  |                              statement at a time
                                  +--> Redis (counters)

State that matters lives in PostgreSQL. Most Rust handlers open a transaction,
lock the rows they decide on with `SELECT ... FOR UPDATE`, apply their rules,
write, and commit; every early return drops the transaction, which rolls it
back. The handlers of reseller orders do not: each statement commits by itself,
with calls to vendors and resellers in between. The gateway keeps no state
except counters in Redis, which it reaches over one pipelined connection. The
client keeps access tokens and step-up grants in the memory of a tab and the
refresh and recovery tokens in cookies it cannot read.

### Inventory

| Part | State | Operations | Hard behaviour | What makes it correct |
|---|---|---|---|---|
| Wallet ledger (`0010_wallet_ledger.sql`) | `users.balance`, `ledger_entries` | a posting in every handler that moves money | balance and `balance_after` are written by separate statements of nine handlers | the balance is the sum of the rows; a source is posted once |
| Member orders (`transactions.rs`, `open_api/create.rs`, `webhooks/receive.rs`) | `financial_transactions`, `financial_requests`, `webhook_events` | checkout, partner order, refund, status edit, provider callback | three ways to give an order back under three sources; repeated, reordered and corrected callbacks; repeated requests | an order is charged and given back alternately; refunded exactly while failed |
| Loyalty points (`transactions.rs`, `rewards/points.rs`) | `users.points`, `point_awards` | award and revocation with a status edit, adjustment | the revoking UPDATE may match nothing | awards stand for successful orders; points cover them |
| Checkout pricing (`flash_sales.rs`, `vouchers/discount.rs`) | sold and used counters, redeemers | reserve a flash unit, consume a voucher | last unit and last use are raced for; a later failure must undo both | counters equal the orders that carry the effect |
| Deposits (`deposits.rs`) | `deposits` | request, claim, release, reject, approve | operators race for the same row; negative fees from settings | one credit per approval; claims respected; decisions final |
| Vouchers and giveaways (`vouchers/`) | `vouchers`, `promo_giveaways` | redeem, archive, restore, execute a giveaway | archive against redeem; one transaction credits many users; a dealing loop | one credit per redemption and share; the pool is paid out exactly |
| Sessions (`sql_auth/sessions.rs`) | `auth_sessions`: generation, consumed digests, predecessor, idle deadline, guess counters | refresh, unlock, activity, logout, revoke, admission | tabs refresh at once; answers are lost after the commit; the clock is read before the locks are held | each token traded in once; a closed session grants nothing; idle staff are locked out |
| Slots and challenges (`sql_auth.rs`, `issuance.rs`, `factors.rs`) | slots, versions, OTP and device challenges, stored answers | login, OTP, device selection, password and factor changes, edits by others | a login verifies its password before it holds a lock; stale challenges; replayed answers | slots have one owner, who has proved the present password and factor |
| Tabs of the client (`auth/coordinator.ts`, `useAuthStore.ts`) | phase, token and fences of each tab, messages between tabs | refresh, bootstrap, unlock, login, logout | answers overtaken by sign-outs and messages; tabs share the cookies, not the memory | a tab signed out stays out; every tab learns of the end of its session |
| Step-up (`withStepUp.ts`, `stepUp.ts`, `factors.rs`) | the parked action, dialog, grants | run, submit, retry, cancel | one orchestrator serves all pages; bulk loops; lost answers; rotation while the dialog is open | nothing sensitive without a live grant; "done" means done; no page waits for ever |
| Redis limiter (`redisClient.ts`, `redisRateLimit.ts`) | pipeline, handshake, timers, epoch of the server | count a request in its buckets | replies have no numbers; connections are torn down with commands under way; Redis restarts | who was admitted was counted; every request is answered |
| Reseller orders (`digiflazz_seller`, `irs_seller`) | `seller_orders` with a lease, `seller_callbacks` | accept, execute, persist, call back, retry | crash between vendor call and persist; repeated requests; overlapping senders | one executor at a time, one outcome, nothing else called back |
| Guest checkout (`guest_transactions/`) | orders without an account, idempotency reservations | create, recheck, cancel | vendor call outside the transaction | one vendor call per key |
| Team access (`teams/sql_members.rs`, `security.rs`) | roles, permissions, versions | edit, deactivate, delete staff | permission read in an earlier transaction than its use | a revoked permission is not used |
| Settings, content, uploads | versioned documents, files with registry rows | compare-and-set edits, rename and register | crash between file and row | an edit is never lost silently |
| Catalog, payments, reports, notifications, client pages | single rows, reads | single-statement edits | none that spans steps | - |

Handlers interact only through rows: orders, deposits, vouchers and giveaways
all post to the same book; status edits, refunds and callbacks all decide about
the same order; account changes revoke sessions in their own transaction. Tabs
interact through the cookie jar, the channel between them and the session row.
`PROJECT.json` lists every part (`components`) with what is modelled of it, and
the hazards of the code at their lines (`hazards`) with the properties aimed at
them.

## 2. Modules

    LedgerBook  <--- MemberWallet ---> Pricing
        ^                 |  implements  Custody        (abstract wallet, proved)
        |
        +--- Funding ---> Giveaway <--- GiveawaySplit   (the dealing loop)

    SellerOrders  --- implements --->  SellerPromise    (abstract reseller order, proved)

    DeviceSlots        the sessions of an account       rows of PostgreSQL
    SessionRotation    one of them, with its browser    rows, calls, cookie jar
    AuthTabs           the tabs of that browser         client memory, messages
    StepUp             sensitive actions of one tab     client memory, grants
    RedisPipeline      the limiter in front of it all   one connection, one server

| Module | Models | State |
|---|---|---|
| `LedgerBook` | the book: one posting (`Post`), the joint credits of a giveaway (`PostAll`), with the CHECK and UNIQUE constraints as guards | `balance`, `ledger` (the rows of a user in the order its row lock gives them) |
| `Pricing` | `flash_price`, `compute_discount_amount` | none |
| `MemberWallet` | all writers of member orders, one action per handler | order columns, effects, callback events, awards, points, idempotency rows, discount counters, the daily reference counter |
| `Custody` | what the wallet promises: money enters by grants used once, an order's price is in the wallet or in custody, whole | `wallet`, `bill`, `held`, `grants` |
| `Funding` | deposits, balance vouchers, giveaways | request, status, claim and decider of a deposit; redeemer and archive flag; the draw of a giveaway |
| `Giveaway`, `GiveawaySplit` | when a giveaway is accepted, what each seat receives; the loop of `draw` step by step | `Plans`, the requests a giveaway may come with; the amounts dealt so far, the remainder and the `turn` |
| `SessionRotation` | one session and its browser: handlers, admission by the gateway, cookies, lost and late calls | the session row, the clock, calls in flight, the cookie jar, the access token |
| `DeviceSlots` | the sessions of one account: login in its two halves, OTP and device challenges, changes of password and second factor, revocation, edits of the account by others | the user row, session rows with what their login proved, calls between read and lock, challenges, stored changes |
| `AuthTabs` | several tabs: store and coordinator of each, the refreshes, bootstraps and unlocks under way, their inboxes | `tab`, `attempt`, `inbox`, the sessions of the server, the jar |
| `StepUp` | runs of the orchestrator, its dialog and submissions, the requests under way, the gateway's check, the guesses Rust counts | `run`, `pending`, `dialog`, `submit`, `wire`, grants, guesses |
| `RedisPipeline` | the client (socket, handshake, FIFO of waiting commands, timers, teardown, epoch check), the server with its script, and the loops of the limiters over buckets | the client's queues, the wire and inbox of each connection, the run and keys of the server, what was counted |
| `SellerOrders` | reseller requests, execution, persistence, callbacks and their retries, statement by statement, with crashes | order rows with leases, callback rows, jobs with what they have read |
| `SellerPromise` | what a reseller is promised: one executor at a time, one outcome, no other news | `outcome`, `workers`, `told` |
| `MC*` | definitions for the `.cfg` files | - |
| `*Proofs` | theorems | - |

### Atomicity

In the wallet modules and in `DeviceSlots` an action is one committed
transaction. This is justified where the handler locks every row it decides on
before it reads it, which the modelled handlers do: order rows, user rows,
vouchers and deposits are read with FOR UPDATE or tested in the WHERE clause of
the UPDATE itself, so a conflicting handler waits and then sees the new row. A
failed guard is a rolled-back transaction and changes nothing. The exceptions
are modelled as such: the candidates of a giveaway are read on another
connection without locks, so its winners may be any users (`Seatings`); login
and the change of a password read the account and compare the hash before they
lock, so they have two steps in `DeviceSlots`. What the one step leaves out is
deadlock between row locks, exhaustion of the pool, and the gap between two
first uses of one idempotency key.

In `SessionRotation` a handler has three steps, because it reads the clock
before it waits for its locks: `Arrive` samples the time, the handler's action is
the transaction, `Deliver` is the arrival of the answer at the browser, where the
gateway's cookie rules apply. Between them other calls run, the clock moves, the
session is revoked, or the call is lost (`Lose`); a server that dies before the
commit is a lost call, one that dies after it a lost answer.

In `SellerOrders` a step is one SQL statement or one HTTP call; a job keeps what
it has read. `Crash` ends every job and leaves the rows, `StatementFails` is the
error path of each statement. In `AuthTabs`, `StepUp` and `RedisPipeline` a step is
what JavaScript runs between two awaits; in `RedisPipeline` the continuations of
promises (`due`) go before the next task of the event loop, as microtasks do.

### Data

Amounts and times are small naturals. A ledger source is a record of the
parts the code formats into a string. A token is the generation it belongs to:
`crypto::derive` makes each pair from the one before, and the two cookies are
always set together; in `AuthTabs` a token is a session and a number that grows
with its issue time. Passwords and codes are right or wrong, and a password is
known by the change that set it. A missing key of the key ring (503, nothing
changed) is a lost call. In `SessionRotation` a change of the account is
`RevokeElsewhere`, since those handlers revoke the sessions in the transaction
that makes the change (`DeviceSlots` shows that). Whether a Redis bucket has room
is the server's choice. A lease runs or is over, a retry is due or not yet.

`LegacyOrder` (rows written before the present checkouts, the only ones a
provider callback can match), `Lose` and `Tick` are the external actions, together
with the server side of Redis and the vendors' and resellers' answers.

## 3. Runs

| Run | Shows | Instance and why it is enough |
|---|---|---|
| `orders` | books, stories, conservation of money, points, discounts and the abstract wallet for two orders | 1 member, 2 orders, 1 operator, 1 key, 1 provider, 5 rows, balance up to 4, points up to 3, one flash unit, a one-per-user voucher with two uses, a daily counter below 3: two orders share one wallet, race for the unit and the voucher, one of them can be charged, given back, charged and given back again, and the wallet can be too empty to charge again |
| `funding` | credits, claims, decisions and giveaways in one book | 2 members, 1 deposit, 1 voucher, 2 giveaways, 2 operators and an owner, 2 keys, fees from below zero to the full amount, shares of zero included, 5 rows, balance up to 10: two operators and an owner meet over one deposit, and two giveaways over one key |
| `split` | the dealing loop | every request of up to four winners: all remainders and bounds around the divisions |
| `session` | the token line, idle lock and closing with overlapping calls | staff with a second factor, 2 calls of 2 tabs, grace 0, recovery window 2, idle 2, access 3, lifetime 3, one guess, two turns: both calls sit between clock and commit while a deadline passes, and the history fills up |
| `devices` | slots, their owners and what they have proved | 3 sessions, 2 overlapping calls, 1 OTP and 2 device challenges, 2 slots, 2 guesses, 2 changes of the account, clock 0 and 1: full slots, a challenge that is answered after a change, two challenges for one slot |
| `tabs` | sign-outs, token order and what tabs learn | 2 tabs, 2 sessions, 2 tokens, 1 backoff, 1 trouble (lock, revocation, reload, failure, throttle): an answer of the old session arrives after the new one has begun. What needs more tokens (a late answer that takes the cookies back to the old session, then a refresh with them) is in the theorems, which hold for every bound, and was run with one tab and four tokens, and with two tabs and three |
| `stepup` | grants, "done", at most once, and that runs settle | 2 actions of a bulk loop, 2 submissions, 3 sessions, grants of one tick, 2 guesses, 3 changes: the first action ends while the dialog of the second is up, its submission is late, and the session has moved on twice. The answer field is the one the client reads |
| `redis` | counting and answering | a limiter that fails closed and one that fails open, 2 buckets each, handshake AUTH and SELECT, 2 connections, 1 restart or flush, 1 malformed reply: commands of the first connection are still executed when the second is in use |
| `seller` | the promise to resellers, paid validations, callbacks | an ordinary order, a paid validation and an IRS order, 2 jobs, 2 requests, 1 crash or failing statement: a request is repeated while the first executes, a retry overlaps a sender, the process dies between any two statements |
| `fail_twice`, `tabs_collide`, `grant_unread` | disagreements, section 5 | the smallest instance with the counterexample |

Runs other than `orders` and `fail_twice` do not look for deadlocks: used-up keys and
requests, decided deposits, dealt seats, settled runs and a signed-out browser at
the end of the clock are their proper ends. `orders` and `fail_twice` do. Bounds on unbounded
things are named constants: `MaxBalance` (the checked arithmetic of the code),
`MaxRows`, `MaxPoints`, `SequenceLimit` (10 to the number of digits), `HistoryLimit` (4096 in
the code), `Horizon` (the clock), `Changes`, `Troubles`, `Requests`, `Losses`, `Garbled`,
`MaxConns`, `Tokens`. Symmetry is used on members, orders, calls and challenge ids,
which the modules treat alike and no property orders, and only in runs without
liveness properties.

Every property has a mutant, a plausible bug in a mapped definition with which
TLC refutes it under the same configuration (`mutants`).

### Fairness

No client is promised to call, no network to deliver and no vendor to answer,
unless said here.

- `GiveawaySplit`: the next iteration of a sequential loop, which nothing can
  block.
- `StepUp`: requests are answered or fail (`fetch` resolves or rejects); a person
  does not leave an open dialog alone, which is a modal that blocks the page, and
  does not mistype password and OTP for ever. The last is strong fairness of
  `Granted`: each wrong answer is a new submission. `RunsSettle` then says that the
  orchestrator loses no promise; guesses that are used up are its exception.
- `AuthTabs`: requests and messages between tabs arrive, the event of a sign-out is
  handled, and a tab that shows itself signed in has its proactive timer running,
  as `scheduleProactive` sees to when it enters that phase. Nobody is assumed to log in or out.
- `RedisPipeline`: promises continue, and the connect and command timers fire.
  Nothing is assumed of Redis or of the network; `RequestsSettle` rests on the
  timers alone.
- `SellerOrders`: jobs go on and backoffs end (weak); the cron entry calls the
  scheduler for ever, and a reseller who is sent a callback again and again accepts
  one in the end (both strong, since the row is between attempts in the meantime).
  Only orders that ask for callbacks are promised any. Crashes are bounded by
  `Troubles`: eventually none happens.

## 4. Proofs

All theorems are about every value of the constants that satisfies the named
assumptions (`BookAssumption`, `PriceAssumption`, `SourceAssumption`,
`FundingAssumption`, `FundingSources`, `TimesAssumption`, `StepUpAssumption`,
`DeviceSlotsAssumption`, `RedisAssumption`, `SellerAssumption`, `AuthTabsAssumption`,
`PlansAssumption`, `NobodyAssumption`), which say no more than that amounts, times and
bounds are naturals, that names are distinct and "nobody" is no user, that subsets
are subsets, and that owners are operators. `RedisAssumption` also takes the
handshake to be non-empty: a REDIS_URL with neither password nor database number
is not covered. Five theorems have a hypothesis of their own, named below.

- `LedgerBookProofs`: a posting adds or takes exactly its amount, appends one row
  and keeps the chain of running balances, for one user (`PostKeepsChain`) and
  for the joint credits of a giveaway (`PostAllKeepsChain`). It also holds the laws of
  finite sums (`SumTakesOne`, `SumChange`, `SumAdd`, `SumCongruent`, ...) about
  `SumFunctionOnSet`, which the wallet and the giveaways share, and from both that a chained book
  balances (`ChainIsSum`): `BalancesAreSums` and `FundingBalancesAreSums` say so of the two modules. Their induction is over
  a *set* of the cases that hold (`NumberInduction`, `SetInduction`), so it needs no
  operator as a parameter; that the recursive sum is defined at all is `SumsExist`.
- `MemberWalletProofs`: `TypeCorrect`, `BookBalances`, `MoneyStory`,
  `RefundedWhileFailed`, `AwardsStandForSuccess`, `NoMoneyMade`, and `DiscountLeavesAPrice` about
  the arithmetic. The story of an order is not inductive by itself: that the
  next row has the other direction follows from "the last row gave it back
  exactly if `refunded`", that `refunded` can be trusted from "refunded exactly
  while failed" (a failed callback looks only at the status), and that the row
  belongs to the owner from `HeaderOK`, what the insert fixed. `IInv` is their
  conjunction. `StoryMove` is the one argument all handlers share: a posting
  that alternates with `refunded` continues its order's story and touches no
  other. `PromiseKept` is the refinement, `MemberWallet` implements `Custody`: each
  action maps to `Move`, `Buy`, `GiveBack`, `TakeAgain` or a stutter under the
  mapping "in custody = placed and not refunded". The same case analysis also says what each
  handler does to the money (`MoneyMoves`: a posting moves the price of one order into or out of
  custody, or is a grant), and `NoMoneyMade` needs no more: `InvestedByMove` and `GrantedByPost` are
  about the two finite sums it equates, over the orders in custody and over rows of the ledger. `DiscountsOnRecord` rests on `DiscountInv`: the orders
  placed are finitely many, and a member whose order carries the one-per-user voucher
  is among its redeemers, which is what the next checkout asks. `AwardsAreCovered` (hypothesis: `PointChanges \subseteq Nat`, operators only
  add points) sums the awards of a member's orders, finitely many at any time; with it
  a revocation always finds the points it takes back.
- `FundingProofs`: `FundingTypeCorrect`, `FundingBookBalances`, `EveryDecisionPaidOnce`,
  `ClaimsAreRespected`, `DecisionsAreFinal`. The strengthening is that the book holds
  the due credits *and no other row*, and that a stored deposit has an owner
  and a fee below its amount; hence the source of an undecided deposit is free
  and approving it posts. `PoolIsPaidOut`: the credits of an executed giveaway add up
  to its pool. The closed form `Share` is shown to add up over the seats (`ShareByGaps`:
  what a seat is dealt is a difference of partial sums; `SeatsTakeThePool`), and a draw
  seats a user at most once, so users who were credited and seats correspond.
  `LoopDealsShares` is the loop itself: `SplitInv` says how far the present turn has
  come and that whoever has had its turn holds its closed form. It also shows that the
  loop is over before a seat has its second turn. `NoTurnIsWasted` is the variant behind
  `Terminates`: the seat in turn always has room, so every turn lowers the remainder.
- `SessionProofs`, about `SessionRotation`: `SessionTypeCorrect`, `RotationIsALine`, `GuessesAreLimited`,
  `ClosedStaysClosed`, `IdleSessionsYieldNothing`, for any number of overlapping calls
  and any limits, and `OneCallNeverReused` for one call at a time. Each handler is
  first reduced to what it does to the row (`RefreshCases`, `UnlockCases`, ...):
  it holds the row, counts a guess, turns it, or renews its deadline (`RowMove`).
  `IdleBehind` (the deadline is at most `IdleLimit` ahead of the last proof of
  presence) is the strengthening for the idle lock; `Tidy` (every call in flight
  carries the cookie of the jar, which is the current generation or its
  predecessor) the one for false reuse. About `AuthTabs`: `TabsTypeCorrect`,
  `SignedOutStaysOut`, `NewerTokensReplace`, for any number of tabs, sessions, tokens
  and messages. Their invariant `TabsInv` says of each tab that the answers it waits
  for are for sessions that exist, that no token is ahead of those issued, that a
  refresh which is still current is not for a session the tab has left, and that its
  answer is newer than the token the tab holds. It is inductive because whatever signs
  a tab out or gives it a token makes everything under way stale; each action is
  reduced to what it makes of one tab (`TabLeaves`, `TabTakes`, `TabEnds`).
- `StepUpProofs`: `StepUpTypeCorrect`, `DoneOnlyAfterEffect`, `EffectsNeedGrants`,
  `BulkLoopActsOnce`,
  `BulkLoopGoesOn`, `BulkLoopPendsOnce`. The
  invariant follows the promise of a run through the orchestrator: `RunsKnow` (a
  run that has begun knows its session), `Parked` and `Captured` (what is pending
  waits, what a submission has captured was pending), `Signed` (grants in the tab
  and on the wire were signed by Rust) and `Awaited` (a request belongs to a run or
  submission that awaits it, is of its session, and is answered "ok" only after its
  effect). The last three have the hypothesis `BulkLoop(pos)`: the runs have positions
  and each starts when the one before is settled, as the loops of the pages await
  their actions. Then one run at a time is active (`InOrder`), one submission is under
  way for it (`OneSubmission`), and an effect uses its run up: the request that
  brought it about is over or its answer on the way (`Once`). Without it the theorems are false: a run of another page can
  overtake, and two runs can be parked at once (section 5). For `BulkLoopGoesOn` the dialog is part of
  it (`Served`): it is open for whoever waits, and busy only while a submission has that run in hand,
  so no flag is left over that blocks its buttons.
- `DeviceSlotsProofs`: `DeviceTypeCorrect`, `SlotsAreExclusive`, `OwnersStayCurrent`,
  `OwnersStayProven`, `ChallengesOpenOne`. `Held` says what holds of an owner of a slot,
  `Pending` the same of every open challenge (it is of no later version than the
  account, and if of its own, was opened with what the account asks for), `Single`
  that whatever a session came from is spent, so a chain of challenges ends in at
  most one session.
- `RedisPipelineProofs`: `RedisTypeCorrect`, `AdmissionsCounted`, `CountsInPlace`,
  `WaitersAttended`. A
  client without request numbers is right as long as the waiting commands and
  the replies and commands under way on the newest connection are the same list:
  `Aligned`. `GreetedFirst` (the handshake goes first, and what it has answered was
  accepted), `Placed` (counting commands are on greeted connections only), `Queued`
  (each is the only one of its request), `Answers` ("free" is said only after the
  hit) and `Counted` (the buckets a request has behind it have counted it) complete
  it. `WaitersAttended` follows each request through connect, handshake and queue (`Attended`): whatever
  teardown, timeout or close empties those, it sends every request that waits there on, and a
  handshake that is not done always has a command, and so a timer, in the queue.
- `SellerOrdersProofs`: `SellerTypeCorrect`, `ValidationsBoughtOnce`, `DeliveriesTold`,
  `CallbacksInHand` and
  the refinement `ResellersServed`, `SellerOrders` implements `SellerPromise`.
  `Exclusive` (who executes an order has its row at "processing", which keeps
  others out) comes from the conditional claim; `Truthful` (what is on its way to a
  reseller is what the row was settled as, but for a hurried retry), `Accepted` (what
  a reseller accepted was told) and `QueueSettled` (the queue is about settled
  orders) make callbacks honest; `BoughtByInsert` ties a bought validation to
  the one insert of its row. `CallbacksInHand` says of every callback that is due that its row has a time
  for the next attempt, or a job is about to write or update it (`InHand`); with `TimesInRows` (only rows
  that exist have a time) the exception `Stranded` is seen to be the only one.

Proved and listed in no run: `FailedIffRefunded` (where a handler breaks it, a
callback pays back twice, which `MoneyConserved` sees in `orders`), `DecisionsFinal`, `AwardsFollowSuccess`,
`ExhaustedNeverActive`, `NoTurnIsWasted`, the safety halves of liveness named below,
`OnePending`, and `LedgerChained` for `Funding` (it is an invariant of
`orders` for `MemberWallet`).

Model-checked only: all liveness (`Terminates`, `RunsSettle`, `TabsLearn`,
`RequestsSettle`, `CallbackArrives`: liveness under fairness is beyond the prover), and
the refuted statements of section 5. Of `RequestsSettle`, `CallbackArrives` and `RunsSettle` the safety half is
proved: what a request, callback or run waits for is there (`NobodyForgotten`, `CallbackInHand`,
`NobodyWaits`), so that fairness of that one step is all TLC has to add; of the dealing loop it is the
variant (`NoTurnIsWasted`). The invariants of the proofs (`IInv` of the
modules, `SplitInv`, `TabsInv`, `InOrder` with `Once`) were found with TLC before they
were proved.

## 5. Where the code and its documents disagree

With a run:

1. `fail_twice`: the source of a status edit is `transaction-status:{id}:{old}:{new}`
   and UNIQUE, so an order that was failed, reopened and is failed again cannot
   be credited; the edit answers 500 for ever (`transactions.rs:309`).
2. `tabs_collide`: a refresh that waits while another tab refreshes twice is
   taken for a stolen token and the session is revoked (`sessions.rs:184`), which
   the rollout document excludes. `OneCallNeverReused` shows that overlapping
   calls are needed for it.
3. `grant_unread`: Rust answers a step-up with `stepUpToken` (`factors.rs:181`), the
   client reads `grantToken` (`withStepUp.ts:439`); no grant ever arrives. `stepup`
   therefore checks the orchestrator with the field it expects.

Met while modelling, described by the modules, without a run of their own.

Wallet:

- A revocation that finds too few points takes none, deletes the award and
  succeeds (`transactions.rs:312`); the document says it is rolled back.
- Callbacks are matched on `snapshot.provider`, which no checkout writes; an order
  can be settled only by hand (`receive.rs:58`). A replayed callback for an order
  already failed writes no event. Nothing consumes `provider_outbox` and
  `financial_provider_jobs`.
- Releasing an unassigned deposit is refused to operators who are not owners
  (`deposits.rs:252`; `API_V2_DEPOSIT_CLAIM_REVIEW.md:83` wants it to succeed).
- The cancellation of a guest order by an operator binds text to a uuid column and
  answers 500.

Sessions and tabs:

- A locked page sends the access token it still holds; once that has run out, the
  gateway's admission refuses the unlock although the cookies are current
  (`sessionAuth.ts:37`), against the comment in `security.rs:156`.
- A change of password verifies the old one before its lock, so of two that race
  both succeed and the later commit wins (`me.rs:185`, `staff.rs:109`). The
  background re-hash of an old password makes a login that overlaps it fail
  (`sql_auth.rs:71`).
- A refresh started under one sign-in may be shared with a caller of the next
  (`coordinator.ts:103` against `authIntent.ts:19`).
- No server sends AUTH_ACCESS_EXPIRED, so the reactive refresh never runs
  (`coordinator.ts:115`). After 4096 turns refresh answers 503 for ever, which the
  client takes for a temporary failure (`sessions.rs:136`). `list_sessions` shows
  three of up to five sessions of a member (`sessions.rs:376`).
- The unlock of a session that another tab has already unlocked is answered
  AUTH_TOKEN_INVALID, and the tab then signs all tabs out (`useAuthStore.ts:680`). The
  answer to an unlock is installed without a look at the generation (`:621`): the door
  `StaysSignedOut` names. The answer of a refresh that nobody waits for any more still
  sets the cookies of the browser, so after a sign-out that was lost on its way and a
  login to another session, the next refresh of that tab can be for the old session,
  and is installed as current (`coordinator.ts:93` compares generations, not sessions);
  a `retryBootstrap` that waits through a sign-out asks in the same way. This is why
  `left` in `AuthTabs` forgets a session once the tab asks with its cookies. A throttled refresh (429) leaves a tab at
  "refreshing" with nothing under way: the exception of `TabsLearn`.
- LOGGED_OUT is posted without a session id by recovery and by a logout that knows
  none, so it reaches tabs of another session; a tab that boots ignores it; a late
  401 clears cookies that were just set. SESSION_REVOKED is never posted.

Step-up:

- After the grant has arrived nothing looks whether the run was cancelled
  meanwhile: its action is still sent (`withStepUp.ts:342`), although sign-out and
  a new session are to cancel it (`:93`). The page has been told that it failed; a
  bulk loop reports "gagal" for what was done (`Deposits.tsx:464`). The converse
  is `DoneMeansEffect`.
- After a wrong password, Batal and Escape stay dead; after five wrong guesses the
  dialog cannot be left.
- A run cancels what is parked when it begins: "One pending action only" (`withStepUp.ts:226`).
  Two runs whose requests are under way together both park; the second overwrites the
  waiter of the first (`:292`), whose page is never answered. TLC finds it with
  `Follows` = None for both runs and `OnePending` as the invariant; `BulkLoopPendsOnce` shows that the
  loops of the pages do not come to this, and `UndisturbedOnce`, `NobodyWaits` and
  `RunsSettle` are about those loops.
- Routes whose Rust handler itself wants the step-up header get 401, because the
  gateway takes it off (`stepUp.ts:33`, `factors.rs:157`).

Redis:

- `verifyRedisEpoch` stores the new run id and then sets the warm-up marker, in two
  commands (`redisClient.ts:485`). When the connection is lost in between, the next
  one finds the run id in place and skips the warm-up, which the comment at `:465`
  promises after every restart. An INFO answer without a run id skips it too.

Reseller orders:

- IRS executes an order again that its vendor left pending, a paid validation
  included, when the reseller repeats the reference; the design document
  (`2026-08-20-digiflazz-seller-center-design.md:143`) says "never execute fulfillment
  twice after one request holds the `executing` claim". `ValidatedOnce` therefore
  speaks of the Digiflazz channel.
- An order whose worker crashed or whose last UPDATE failed stays at "processing":
  only "pending" rows are claimed, so the lease that should free it is never looked
  at. After a failed UPDATE the reseller is told "failed".
- A connection error to the vendor is stored as the final "failed"
  (`provider.rs:85`), although the vendor may have taken the order. The vendor
  reference may be replaced by the vendor's own id, which the next recheck then
  sends as ours.
- A callback row that a crash leaves without a time for its next attempt is due on
  the operators' page (`DigiflazzSellerTransactionsPanel.tsx:146`) and never due in
  SQL: the exception `Stranded` of `CallbackArrives`. Retried callbacks carry neither
  serial number nor message. The route that leases callbacks has no caller.
- A retry by hand reads the order before it sends; when the order is settled
  meanwhile, an answer to the old status marks the callback as delivered: the
  exception `hurried` of `DeliveredMeansTold`. It finds its order by reference alone
  (`digiflazz_seller.rs:49`); the model assumes that the channels share no reference.

## 6. Not modelled

Every part is listed with its reason in `PROJECT.json`.

- By nature: pages, reads, formatting, validation of inputs, deployment. They are
  most of the lines of the repository (two thirds are React pages and components),
  and nothing in them spans steps beyond the tabs and the step-up orchestrator, so
  the share of lines the models translate is small and stays so.
- Limits of the wallet modules: a transaction is one step, so waiting for row
  locks, deadlock (a giveaway locks its winners in shuffled order) and the pool of
  connections (a giveaway draws over a second one) are not in their state. A
  deadlock that PostgreSQL breaks is a call that did not happen.
- Limits of the session modules: enrolment secrets, OTP arithmetic, registration,
  the re-hash of old passwords, the storage-event fallback of the channel,
  `syncProfile` (which is not fenced) and the warning before the idle lock.
- Limits of `RedisPipeline`: which buckets a route uses, times and thresholds inside
  the script, the `now` a caller reads before it awaits, expiry of keys.
- Limits of `SellerOrders`: settings, product mappings, the event log, the wording of
  answers. What is refused before the order row changes nothing.
- Points: no route of the gateway reaches the claiming of rewards, and nothing else
  calls it, so `PointsCoverAwards` speaks of wallets without claims; it also leaves out
  operators who take points away, after which awards are no longer covered.
- Guest checkout reserves a key, calls the vendor outside its transaction and
  rechecks what stayed open. It is the one sequence of several steps that is left
  out; no money of the shop is held for it.
- Team access beyond its effect on sessions: who may edit whom is decided and used in
  two transactions; a permission revoked in between is still used once.
- Settings, content, uploads, catalog, payment methods: each write is one statement
  or one compare-and-set, and money and sessions do not depend on their order.
