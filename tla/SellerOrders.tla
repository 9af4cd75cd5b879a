---------------------------- MODULE SellerOrders ----------------------------
(***************************************************************************)
(* Orders that resellers place over two protocols, and the callbacks about *)
(* them: rust-api/src/routes/digiflazz_seller/prepaid.rs, irs_seller/      *)
(* prepaid.rs, digiflazz_seller/callbacks.rs and the retries of            *)
(* digiflazz_seller.rs.                                                    *)
(*                                                                         *)
(* No handler holds a transaction: each statement commits by itself, and a *)
(* job (a request, a run of the scheduler over one row, a retry by hand)   *)
(* goes from one to the next with HTTP calls in between.  Other jobs run   *)
(* there, and the process may die there; its rows remain.                  *)
(*                                                                         *)
(* Requests that are refused before they reach the order (signature, code, *)
(* target, price, mapping) change nothing and are left out, and so is the  *)
(* answer to the reseller, which repeats the row.  A lease runs or is      *)
(* over; a retry is due or not yet.                                        *)
(***************************************************************************)
EXTENDS Naturals

CONSTANTS
    Orders,       \* (channel, reference_id), no reference in both channels
    Irs,          \* those of the channel irs; the others are Digiflazz
    Validations,  \* validationOrder: the product is a paid validation
    Required,     \* callbackRequired
    Jobs,         \* handlers that can run at once
    Requests,     \* bound of prepaid requests
    Troubles,     \* bound of crashes and failing statements
    None

ASSUME SellerAssumption ==
    /\ Irs \subseteq Orders
    /\ Validations \subseteq Orders
    /\ Required \subseteq Orders \ Irs
    /\ None \notin Jobs \cup Orders
    /\ {Requests, Troubles} \subseteq Nat

VARIABLES
    status,     \* seller_orders.status, "none" before the insert
    lease,      \* execution_lease_until: NULL, running or over
    callback,   \* rows of seller_callbacks
    job,        \* what each handler is at and what it has read
    bought,     \* paid validations bought for an order
    told,       \* final statuses the reseller received in callbacks
    hurried,    \* orders a retry by hand has read before they were settled
    requests,
    troubles

vars == <<status, lease, callback, job, bought, told, hurried, requests, troubles>>

Final == {"success", "failed"}
Statuses == {"pending", "processing"} \cup Final
Steps == {"idle", "look", "insert", "claim", "execute", "persist", "enqueue", "send",
          "sent"}

\* delivered_at: not set, set by a 2xx, or set by the route that gives up
Row == [there : BOOLEAN, next : {"null", "later", "due"},
        delivered : {"no", "yes", "waived"}]

Job == [at : Steps, order : Orders \cup {None}, result : Statuses \cup {"none"},
        ok : BOOLEAN]

TypeOK ==
    /\ status \in [Orders -> Statuses \cup {"none"}]
    /\ lease \in [Orders -> {"null", "running", "over"}]
    /\ callback \in [Orders -> Row]
    /\ job \in [Jobs -> Job]
    /\ bought \in [Orders -> Nat]
    /\ told \in [Orders -> SUBSET Final]
    /\ hurried \subseteq Orders
    /\ requests \in 0..Requests
    /\ troubles \in 0..Troubles

Idle == [at |-> "idle", order |-> None, result |-> "none", ok |-> FALSE]

Init ==
    /\ status = [o \in Orders |-> "none"]
    /\ lease = [o \in Orders |-> "null"]
    /\ callback = [o \in Orders |-> [there |-> FALSE, next |-> "null",
                                     delivered |-> "no"]]
    /\ job = [j \in Jobs |-> Idle]
    /\ bought = [o \in Orders |-> 0]
    /\ told = [o \in Orders |-> {}]
    /\ hurried = {}
    /\ requests = 0
    /\ troubles = 0

orderVars == <<status, lease>>
history == <<told, hurried>>

Goes(j, step) == job' = [job EXCEPT ![j].at = step]
Stops(j) == job' = [job EXCEPT ![j] = Idle]

-----------------------------------------------------------------------------
\* Defects kept for comparison: an expired lease is claimed whatever the
\* status; a repeated request buys the validation again; the provider's word is
\* stored as it came; an answer counts as delivery whatever its status; a
\* failed attempt is not scheduled again.
ClaimableOnceOver(o) == lease[o] # "running"
RecheckableAlways(o) == status[o] = "pending"
NormalizedAsIs(answer) == answer
DeliveredByAnyAnswer(j) == TRUE
BackoffForgotten == "null"

Claimable(o) == status[o] = "pending" /\ lease[o] # "running"

\* A Digiflazz validation is not repeated.
Recheckable(o) == status[o] = "pending" /\ o \notin Validations

\* map_provider_status; without credentials, connection or vendor the answer is
\* "failed".
Normalized(answer) ==
    IF answer \in Final THEN answer ELSE "pending"

-----------------------------------------------------------------------------
\* A prepaid request that gets through.  For IRS the look at an existing row
\* has no effect: its JSONB column never decodes as a string.
Request(j, o) ==
    /\ job[j].at = "idle"
    /\ requests < Requests
    /\ requests' = requests + 1
    /\ job' = [job EXCEPT ![j].at = IF o \in Irs THEN "insert" ELSE "look",
                          ![j].order = o]
    /\ UNCHANGED <<orderVars, callback, bought, history, troubles>>

\* existing_order
Look(j) ==
    LET o == job[j].order
    IN  /\ job[j].at = "look"
        /\ \/ status[o] = "none" /\ Goes(j, "insert")
           \/ status[o] # "none" /\ Recheckable(o) /\ Goes(j, "claim")
           \/ status[o] # "none" /\ ~Recheckable(o) /\ Stops(j)
        /\ UNCHANGED <<orderVars, callback, bought, history, requests, troubles>>

\* INSERT ... ON CONFLICT DO NOTHING
Insert(j) ==
    LET o == job[j].order
    IN  /\ job[j].at = "insert"
        /\ \/ /\ status[o] # "none"
              /\ Goes(j, IF o \in Irs THEN "claim" ELSE "look")
              /\ UNCHANGED orderVars
           \/ /\ status[o] = "none" /\ o \in Irs
              /\ status' = [status EXCEPT ![o] = "pending"]
              /\ Goes(j, "claim")
              /\ UNCHANGED lease
           \/ /\ status[o] = "none" /\ o \notin Irs
              /\ status' = [status EXCEPT ![o] = "processing"]
              /\ lease' = [lease EXCEPT ![o] = "running"]
              /\ Goes(j, "execute")
        /\ UNCHANGED <<callback, bought, history, requests, troubles>>

Claim(j) ==
    LET o == job[j].order
    IN  /\ job[j].at = "claim"
        /\ \/ /\ Claimable(o)
              /\ status' = [status EXCEPT ![o] = "processing"]
              /\ lease' = [lease EXCEPT ![o] = "running"]
              /\ Goes(j, "execute")
           \/ /\ ~Claimable(o)
              /\ Stops(j)
              /\ UNCHANGED orderVars
        /\ UNCHANGED <<callback, bought, history, requests, troubles>>

\* top_up_vendor or run_paid_validation
Execute(j) ==
    LET o == job[j].order
    IN  /\ job[j].at = "execute"
        /\ \E answer \in Final \cup {"process"} :
              job' = [job EXCEPT ![j].at = "persist",
                                 ![j].result = Normalized(answer)]
        /\ bought' = IF o \in Validations THEN [bought EXCEPT ![o] = @ + 1] ELSE bought
        /\ UNCHANGED <<orderVars, callback, history, requests, troubles>>

\* persist_status and the last UPDATE of execute_irs_order, which looks at the
\* status once more
Persist(j) ==
    LET o == job[j].order
    IN  /\ job[j].at = "persist"
        /\ IF o \in Irs /\ status[o] # "processing"
           THEN Stops(j) /\ UNCHANGED orderVars
           ELSE /\ status' = [status EXCEPT ![o] = job[j].result]
                /\ lease' = [lease EXCEPT ![o] = "null"]
                /\ IF job[j].result \in Final /\ o \in Required
                   THEN Goes(j, "enqueue") ELSE Stops(j)
        /\ UNCHANGED <<callback, bought, history, requests, troubles>>

Enqueue(j) ==
    /\ job[j].at = "enqueue"
    /\ callback' = [callback EXCEPT ![job[j].order].there = TRUE]
    /\ Goes(j, "send")
    /\ UNCHANGED <<orderVars, bought, history, requests, troubles>>

\* A failing UPDATE answers "failed" and leaves the row at "processing"; the
\* error of a failing INSERT of the callback is dropped.
StatementFails(j) ==
    /\ troubles < Troubles
    /\ troubles' = troubles + 1
    /\ \/ job[j].at = "persist" /\ Stops(j)
       \/ job[j].at = "enqueue" /\ Goes(j, "send")
    /\ UNCHANGED <<orderVars, callback, bought, history, requests>>

-----------------------------------------------------------------------------
\* send_seller_callback: switched off, lost, received, or received and refused
Post(j) ==
    LET o == job[j].order
    IN  /\ job[j].at = "send"
        /\ \E received, ok \in BOOLEAN :
              /\ ok => received
              /\ job' = [job EXCEPT ![j].at = "sent", ![j].ok = ok]
              /\ told' = IF received THEN [told EXCEPT ![o] = @ \cup ({job[j].result} \cap Final)]
                         ELSE told
        /\ UNCHANGED <<orderVars, callback, bought, hurried, requests, troubles>>

Delivered(j) == job[j].ok

\* update_callback_failure
Backoff == "later"

Recorded(j, row) ==
    IF ~row.there THEN row
    ELSE IF Delivered(j) THEN [row EXCEPT !.delivered = "yes", !.next = "null"]
    ELSE [row EXCEPT !.next = Backoff]

Record(j) ==
    /\ job[j].at = "sent"
    /\ callback' = [callback EXCEPT ![job[j].order] = Recorded(j, @)]
    /\ Stops(j)
    /\ UNCHANGED <<orderVars, bought, history, requests, troubles>>

Sends(j, o) ==
    /\ job[j].at = "idle"
    /\ job' = [job EXCEPT ![j].at = "send", ![j].order = o, ![j].result = status[o]]
    /\ UNCHANGED <<orderVars, callback, bought, told, requests, troubles>>

\* One row of a run of the scheduler.
RetryDue(j, o) ==
    /\ callback[o].there /\ callback[o].delivered = "no" /\ callback[o].next = "due"
    /\ Sends(j, o)
    /\ UNCHANGED hurried

\* retry_callback takes any order, whatever its status and channel;
\* retry_pending_callbacks a subset of them.
RetryByHand(j, o) ==
    /\ status[o] # "none"
    /\ Sends(j, o)
    /\ hurried' = IF status[o] \in Final THEN hurried ELSE hurried \cup {o}

\* fail_seller_callback
GiveUp(o) ==
    /\ callback[o].there /\ callback[o].delivered = "no"
    /\ callback' = [callback EXCEPT ![o].delivered = "waived"]
    /\ UNCHANGED <<orderVars, job, bought, history, requests, troubles>>

-----------------------------------------------------------------------------
LeaseEnds(o) ==
    /\ lease[o] = "running"
    /\ lease' = [lease EXCEPT ![o] = "over"]
    /\ UNCHANGED <<status, callback, job, bought, history, requests, troubles>>

BackoffEnds(o) ==
    /\ callback[o].next = "later"
    /\ callback' = [callback EXCEPT ![o].next = "due"]
    /\ UNCHANGED <<orderVars, job, bought, history, requests, troubles>>

Crash ==
    /\ troubles < Troubles
    /\ troubles' = troubles + 1
    /\ job' = [j \in Jobs |-> Idle]
    /\ UNCHANGED <<orderVars, callback, bought, history, requests>>

Advance(j) ==
    \/ Look(j) \/ Insert(j) \/ Claim(j) \/ Execute(j) \/ Persist(j)
    \/ Enqueue(j) \/ Post(j) \/ Record(j)

Next ==
    \/ \E j \in Jobs : Advance(j) \/ StatementFails(j)
    \/ \E j \in Jobs, o \in Orders : Request(j, o) \/ RetryDue(j, o) \/ RetryByHand(j, o)
    \/ \E o \in Orders : GiveUp(o) \/ LeaseEnds(o) \/ BackoffEnds(o)
    \/ Crash

Spec == Init /\ [][Next]_vars

\* Jobs go on, backoffs end, the cron entry runs for ever, and a reseller who is
\* sent a callback again and again accepts one.
FairSpec ==
    /\ Spec
    /\ \A j \in Jobs : WF_vars(Advance(j))
    /\ \A o \in Required : /\ WF_vars(BackoffEnds(o))
                           /\ SF_vars(\E j \in Jobs : RetryDue(j, o))
                           /\ SF_vars(\E j \in Jobs : Post(j) /\ job[j].order = o /\ job'[j].ok)

-----------------------------------------------------------------------------
\* The shop keeps its promise to resellers through repeated requests, both
\* channels, retries of callbacks and crashes: one worker at a time executes an
\* order, it is settled once, and callbacks say nothing else.
Executing(o) == {j \in Jobs : job[j].order = o /\ job[j].at \in {"execute", "persist"}}

Promise == INSTANCE SellerPromise WITH
    Workers <- Jobs,
    outcome <- [o \in Orders |-> IF status[o] \in Final THEN status[o] ELSE "open"],
    workers <- [o \in Orders |-> Executing(o)]

ResellerPromise == Promise!Spec

\* A paid validation of a Digiflazz order is bought once, however often the
\* reseller repeats the request and whatever the provider said.
ValidatedOnce == \A o \in Validations \ Irs : bought[o] <= 1

\* A callback that counts as delivered has told the reseller how the order
\* ended.  The one way around it in the code: a retry by hand that read the
\* order while it was open, and whose answer arrives later.
DeliveredMeansTold ==
    \A o \in Orders : callback[o].delivered = "yes" => status[o] \in told[o] \/ o \in hurried

\* Only a crash or a failing statement before the first attempt is recorded can
\* strand a callback: the scheduler passes over a row that is missing or has no
\* time for its next attempt.
Stranded(o) == troubles > 0 /\ callback[o].next = "null"

\* A settled order with a callback to deliver is in someone's hands: its row has
\* a time for the next attempt, or a handler is about to write or update the row.
Scheduled(o) == callback[o].there /\ callback[o].next # "null"

Carries(j, o) ==
    /\ job[j].order = o
    /\ \/ job[j].at = "enqueue"
       \/ job[j].at \in {"send", "sent"} /\ callback[o].there

CallbackInHand ==
    \A o \in Required : status[o] \in Final /\ callback[o].delivered = "no" =>
        Scheduled(o) \/ Stranded(o) \/ \E j \in Jobs : Carries(j, o)

\* Every settled order is called back in the end, unless it is stranded.
CallbackArrives ==
    \A o \in Required : status[o] \in Final ~> callback[o].delivered # "no" \/ Stranded(o)
=============================================================================
