------------------------------- MODULE StepUp -------------------------------
(***************************************************************************)
(* Sensitive actions of the back office under a step-up grant:             *)
(* client/src/auth/withStepUp.ts (one orchestrator for all pages of a      *)
(* tab), auth/stepUp.ts (grants kept in memory), StepUpDialog.tsx, the     *)
(* cancellations of store/useAuthStore.ts, the check of the gateway in     *)
(* server/src/middlewares/stepUp.ts and the grant of                       *)
(* rust-api/src/sql_auth/factors.rs.                                       *)
(*                                                                         *)
(* A run sends its action; a 403 AUTH_STEP_UP_REQUIRED parks it as the     *)
(* pending one and opens the dialog; password and OTP buy a grant, with    *)
(* which the action is sent once more.  Everything between two awaits is   *)
(* one step.                                                               *)
(***************************************************************************)
EXTENDS Naturals, FiniteSets

CONSTANTS
    Runs,        \* calls of run() by the pages
    Submits,     \* submissions of the dialog that can be under way at once
    Groups,      \* action groups
    GroupOf,     \* the group of a run's route
    Keyed,       \* the runs whose request has an Idempotency-Key
    Follows,     \* the run a bulk loop awaits before it starts this one
    Sessions,    \* last session id the tab may sign in to
    GrantLife,   \* five minutes
    MaxGuesses,  \* step_up_attempts of factors.rs
    AnswerField, \* the field in which /auth/step-up returns the grant
    Changes,     \* bound of rotations, sign-outs and sign-ins
    Horizon,     \* bound of the clock
    None

ASSUME StepUpAssumption ==
    /\ GroupOf \in [Runs -> Groups]
    /\ Keyed \subseteq Runs
    /\ Follows \in [Runs -> Runs \cup {None}]
    /\ None \notin Runs
    /\ Runs \cap Submits = {}
    /\ {Sessions, GrantLife, MaxGuesses, Changes, Horizon} \subseteq Nat

VARIABLES
    run,       \* the promise of each run and the session it captured
    pending,   \* the parked run; pending and waiter change together
    dialog,    \* the dialog with the local flags of its component
    submit,    \* the runs captured by completeWithCredentials
    wire,      \* requests of the actions: first attempts and retries
    grants,    \* grants in the memory of the tab
    sid,       \* session of the tab, 0 when signed out
    changes,   \* rotations, sign-outs and sign-ins so far
    guesses,   \* step_up_attempts of the session
    issued,    \* every grant Rust has signed (history)
    effects,   \* how often the action of a run took effect
    now

vars == <<run, pending, dialog, submit, wire, grants, sid, changes, guesses,
          issued, effects, now>>

Sid == 1..Sessions
Grant == [sid : Sid, group : Groups, exp : Nat]
Calls == Runs \cup Submits

Settled == {"done", "failed", "cancelled"}

Quiet == [status |-> "none", sid |-> 0, token |-> {}]
Closed == [open |-> FALSE, busy |-> FALSE, submitting |-> FALSE,
           submitted |-> FALSE]

RunRow == [state : {"idle", "sent", "waiting"} \cup Settled, sid : 0..Sessions]
Dialog == [open : BOOLEAN, busy : BOOLEAN, submitting : BOOLEAN, submitted : BOOLEAN]
Submission == [phase : {"free", "granting", "retrying"}, run : Runs \cup {None}]
Exchange == [status : {"none", "sent", "ok", "need", "fail"}, sid : 0..Sessions,
             token : SUBSET Grant]

TypeOK ==
    /\ run \in [Runs -> RunRow]
    /\ pending \in Runs \cup {None}
    /\ dialog \in Dialog
    /\ submit \in [Submits -> Submission]
    /\ wire \in [Calls -> Exchange]
    /\ grants \subseteq Grant
    /\ sid \in 0..Sessions
    /\ changes \in 0..Changes
    /\ guesses \in 0..MaxGuesses
    /\ issued \subseteq Grant
    /\ effects \in [Runs -> Nat]
    /\ now \in 0..Horizon

Init ==
    /\ run = [r \in Runs |-> [state |-> "idle", sid |-> 0]]
    /\ pending = None
    /\ dialog = Closed
    /\ submit = [s \in Submits |-> [phase |-> "free", run |-> None]]
    /\ wire = [x \in Calls |-> Quiet]
    /\ grants = {}
    /\ sid = IF Sessions = 0 THEN 0 ELSE 1
    /\ changes = 0
    /\ guesses = 0
    /\ issued = {}
    /\ effects = [r \in Runs |-> 0]
    /\ now = 0

-----------------------------------------------------------------------------
\* A promise settles once.
Settle(rs, r, outcome) ==
    IF rs[r].state = "waiting" THEN [rs EXCEPT ![r].state = outcome] ELSE rs

Rejected(rs) == IF pending = None THEN rs ELSE Settle(rs, pending, "cancelled")

Cancel ==
    /\ run' = Rejected(run)
    /\ pending' = None
    /\ dialog' = Closed

Stored(g) ==
    {h \in grants : h.sid # g.sid \/ h.group # g.group} \cup {g}

UsableGrants(store, session, group) ==
    {g \in store : g.sid = session /\ g.group = group /\ g.exp > now}

Request(r, store) ==
    [status |-> "sent", sid |-> sid,
     token |-> UsableGrants(store, sid, GroupOf[r])]

RunOf(x) == IF x \in Runs THEN x ELSE submit[x].run

Ready(r) == \A f \in {Follows[r]} \ {None} : run[f].state \in Settled

Start(r) ==
    /\ run[r].state = "idle"
    /\ Ready(r)
    /\ sid # 0
    /\ run' = [Rejected(run) EXCEPT ![r] = [state |-> "sent", sid |-> sid]]
    /\ pending' = None
    /\ dialog' = Closed
    /\ wire' = [wire EXCEPT ![r] = Request(r, grants)]
    /\ UNCHANGED <<submit, grants, sid, changes, guesses, issued, effects, now>>

Park(r) ==
    /\ run' = [run EXCEPT ![r].state = "waiting"]
    /\ pending' = r
    /\ dialog' = [dialog EXCEPT !.open = TRUE, !.busy = FALSE]

Answered(r) ==
    /\ wire[r].status \in {"ok", "need", "fail"}
    /\ wire' = [wire EXCEPT ![r] = Quiet]
    /\ IF wire[r].status = "need" /\ sid = run[r].sid
       THEN Park(r)
       ELSE /\ run' = [run EXCEPT ![r].state =
                         IF wire[r].status = "ok" THEN "done" ELSE "failed"]
            /\ UNCHANGED <<pending, dialog>>
    /\ UNCHANGED <<submit, grants, sid, changes, guesses, issued, effects, now>>

\* Mutant: the error of a failed grant leaves the dialog busy.
ReleasedHalf == [dialog EXCEPT !.submitting = FALSE]

\* The component lets go of its own flag when onSubmit returns, whoever has
\* opened the dialog since.
Released == [dialog EXCEPT !.busy = FALSE, !.submitting = FALSE]

\* Mutant: the button stays enabled while a submission is under way.
CanSubmitTwice == dialog.open

CanSubmit == dialog.open /\ ~dialog.busy /\ ~dialog.submitting

Submit(s) ==
    /\ CanSubmit
    /\ submit[s].phase = "free"
    /\ \/ /\ pending = None
          /\ dialog' = [dialog EXCEPT !.submitted = TRUE]
          /\ UNCHANGED <<run, pending, submit>>
       \/ /\ pending # None
          /\ run[pending].sid # sid
          /\ Cancel
          /\ UNCHANGED submit
       \/ /\ pending # None
          /\ run[pending].sid = sid
          /\ submit' = [submit EXCEPT ![s] = [phase |-> "granting", run |-> pending]]
          /\ dialog' = [dialog EXCEPT !.busy = TRUE, !.submitting = TRUE,
                                     !.submitted = TRUE]
          /\ UNCHANGED <<run, pending>>
    /\ UNCHANGED <<wire, grants, sid, changes, guesses, issued, effects, now>>

Close ==
    /\ dialog.open /\ ~dialog.busy /\ ~dialog.submitting /\ ~dialog.submitted
    /\ Cancel
    /\ UNCHANGED <<submit, wire, grants, sid, changes, guesses, issued, effects,
                   now>>

Refused(s) ==
    /\ submit' = [submit EXCEPT ![s] = [phase |-> "free", run |-> None]]
    /\ dialog' = Released
    /\ UNCHANGED <<run, pending, wire>>

\* Mutant: completion reads the waiter again instead of the captured one.
CompletePending(s, outcome) ==
    /\ run' = IF pending = None THEN run ELSE Settle(run, pending, outcome)
    /\ submit' = [submit EXCEPT ![s] = [phase |-> "free", run |-> None]]
    /\ pending' = None
    /\ dialog' = Closed

\* The captured run is over for its submission, and with it whatever is
\* parked by now.
Complete(s, outcome) ==
    /\ run' = Settle(run, submit[s].run, outcome)
    /\ submit' = [submit EXCEPT ![s] = [phase |-> "free", run |-> None]]
    /\ pending' = None
    /\ dialog' = Closed

\* No policy stands in the way of the retry: a request without a key counts as
\* rejected by the gateway, one with a key as repeatable.
Retry(s, store) ==
    LET r == submit[s].run
    IN \/ /\ run[r].sid = sid
          /\ wire' = [wire EXCEPT ![s] = Request(r, store)]
          /\ submit' = [submit EXCEPT ![s].phase = "retrying"]
          /\ UNCHANGED <<run, pending, dialog>>
       \/ /\ run[r].sid # sid
          /\ Complete(s, "failed")
          /\ UNCHANGED wire

\* Password and OTP are right and the answer arrives; requestStepUpGrant reads
\* the grant from grantToken and treats any other answer as a failure.
Granted(s) ==
    LET r == submit[s].run
        g == [sid |-> run[r].sid, group |-> GroupOf[r], exp |-> now + GrantLife]
    IN /\ submit[s].phase = "granting"
       /\ guesses < MaxGuesses
       /\ guesses' = IF run[r].sid = sid THEN 0 ELSE guesses
       /\ issued' = issued \cup {g}
       /\ IF AnswerField = "grantToken"
          THEN grants' = Stored(g) /\ Retry(s, Stored(g))
          ELSE Refused(s) /\ UNCHANGED <<wire, grants>>
       /\ UNCHANGED <<sid, changes, effects, now>>

\* Mutant: the limit of guesses is not looked at.
NotGrantedUncounted(s) ==
    /\ submit[s].phase = "granting"
    /\ Refused(s)
    /\ guesses' \in {guesses, guesses + 1}
    /\ UNCHANGED <<grants, sid, changes, issued, effects, now>>

\* A wrong guess, a session out of guesses, or an answer that is lost.
NotGranted(s) ==
    /\ submit[s].phase = "granting"
    /\ Refused(s)
    /\ guesses' \in {guesses} \cup
          (IF run[submit[s].run].sid = sid THEN {guesses + 1} \cap 0..MaxGuesses
                                           ELSE {})
    /\ UNCHANGED <<grants, sid, changes, issued, effects, now>>

RetryAnswered(s) ==
    /\ wire[s].status \in {"ok", "need", "fail"}
    /\ wire' = [wire EXCEPT ![s] = Quiet]
    /\ \/ /\ wire[s].status = "need"
          /\ run[submit[s].run].sid = sid
          /\ submit' = [submit EXCEPT ![s] = [phase |-> "free", run |-> None]]
          /\ dialog' = [Released EXCEPT !.open = TRUE]
          /\ UNCHANGED <<run, pending>>
       \/ /\ ~(wire[s].status = "need" /\ run[submit[s].run].sid = sid)
          /\ Complete(s, IF wire[s].status = "ok" THEN "done" ELSE "failed")
    /\ UNCHANGED <<grants, sid, changes, guesses, issued, effects, now>>

-----------------------------------------------------------------------------
\* Mutant: the gateway checks the signature, session and group, not the expiry.
AcceptedLate(x) ==
    \E g \in wire[x].token :
        g.sid = wire[x].sid /\ g.group = GroupOf[RunOf(x)]

\* requireStepUp: the grant of this session, for the group of this route.
Accepted(x) ==
    \E g \in wire[x].token :
        g.sid = wire[x].sid /\ g.group = GroupOf[RunOf(x)] /\ g.exp > now

\* The action behind the gateway succeeds or is refused on its own grounds.
Serve(x) ==
    /\ wire[x].status = "sent"
    /\ \/ /\ wire[x].sid = sid
          /\ Accepted(x)
          /\ wire' = [wire EXCEPT ![x].status = "ok"]
          /\ effects' = [effects EXCEPT ![RunOf(x)] =
                            IF RunOf(x) \in Keyed /\ @ > 0 THEN @ ELSE @ + 1]
       \/ /\ wire[x].sid # sid \/ Accepted(x)
          /\ wire' = [wire EXCEPT ![x].status = "fail"]
          /\ UNCHANGED effects
       \/ /\ wire[x].sid = sid
          /\ ~Accepted(x)
          /\ wire' = [wire EXCEPT ![x].status = "need"]
          /\ UNCHANGED effects
    /\ UNCHANGED <<run, pending, dialog, submit, grants, sid, changes, guesses,
                   issued, now>>

Lose(x) ==
    /\ wire[x].status \in {"sent", "ok", "need"}
    /\ wire' = [wire EXCEPT ![x].status = "fail"]
    /\ UNCHANGED <<run, pending, dialog, submit, grants, sid, changes, guesses,
                   issued, effects, now>>

-----------------------------------------------------------------------------
\* onAuthenticated runs for every installed token, also of the same session.
Installed(session) ==
    /\ grants' = {g \in grants : g.sid = session}
    /\ Cancel
    /\ sid' = session
    /\ changes < Changes
    /\ changes' = changes + 1
    /\ UNCHANGED <<submit, wire, issued, effects, now>>

Rotate == sid # 0 /\ Installed(sid) /\ UNCHANGED guesses

\* Logout, or a terminal answer: no session, no grants.
SignOut == sid # 0 /\ Installed(0) /\ guesses' = 0

\* The session ids of a tab grow with the changes.
SignIn ==
    /\ sid = 0
    /\ changes + 1 \in Sid
    /\ Installed(changes + 1)
    /\ UNCHANGED guesses

Tick ==
    /\ now < Horizon
    /\ now' = now + 1
    /\ UNCHANGED <<run, pending, dialog, submit, wire, grants, sid, changes,
                   guesses, issued, effects>>

Next ==
    \/ \E r \in Runs : Start(r) \/ Answered(r)
    \/ \E s \in Submits :
          Submit(s) \/ Granted(s) \/ NotGranted(s) \/ RetryAnswered(s)
    \/ \E x \in Calls : Serve(x) \/ Lose(x)
    \/ Close \/ Rotate \/ SignOut \/ SignIn \/ Tick

Spec == Init /\ [][Next]_vars

(***************************************************************************)
(* Requests are answered or fail; a person does not leave an open dialog   *)
(* alone, and does not mistype password and OTP for ever.                  *)
(***************************************************************************)
Fairness ==
    /\ \A r \in Runs : WF_vars(Answered(r))
    /\ \A x \in Calls : WF_vars(Serve(x))
    /\ \A s \in Submits :
          WF_vars(NotGranted(s)) /\ SF_vars(Granted(s)) /\ WF_vars(RetryAnswered(s))
    /\ WF_vars(Close \/ \E s \in Submits : Submit(s))

FairSpec == Spec /\ Fairness

-----------------------------------------------------------------------------
(***************************************************************************)
(* Nothing takes effect without a grant that Rust signed for the very      *)
(* session the run was started in and the group of its route, and that is  *)
(* still good when the gateway looks: neither a retry under a later        *)
(* session nor a grant kept in the tab can bring it about.                 *)
(***************************************************************************)
EffectsAuthorised ==
    [][\A r \in Runs : effects'[r] # effects[r] =>
          \E g \in issued : /\ g.sid = run[r].sid /\ g.group = GroupOf[r]
                            /\ g.exp > now /\ g.sid = sid]_vars

(***************************************************************************)
(* A page is told that its action is done only when it took effect, also   *)
(* when submissions and runs have overtaken each other.                    *)
(***************************************************************************)
DoneMeansEffect == \A r \in Runs : run[r].state = "done" => effects[r] > 0

(***************************************************************************)
(* As long as the session is left alone, no action of a bulk loop takes    *)
(* effect twice, however often the dialog is submitted and answers are     *)
(* lost.                                                                   *)
(***************************************************************************)
UndisturbedOnce == changes = 0 => \A r \in Runs : effects[r] <= 1

(***************************************************************************)
(* As long as the session is left alone, no run of a bulk loop is left     *)
(* behind: its request is under way, a submission has it in hand, or the   *)
(* dialog is open for it and takes input.                                  *)
(***************************************************************************)
SomeoneActs(r) ==
    \/ run[r].state = "sent" /\ wire[r].status # "none"
    \/ \E s \in Submits :
          /\ submit[s].run = r
          /\ submit[s].phase = "granting" \/ wire[s].status # "none"
    \/ pending = r /\ dialog.open /\ ~dialog.busy /\ ~dialog.submitting

NobodyWaits ==
    changes = 0 => \A r \in Runs : run[r].state \in {"sent", "waiting"} => SomeoneActs(r)

(***************************************************************************)
(* As long as the session is left alone and has guesses left, every run is *)
(* settled: no page waits for ever, no bulk loop stops in the middle.      *)
(***************************************************************************)
RunsSettle ==
    \A r \in Runs : run[r].state \in {"sent", "waiting"} ~>
        run[r].state \in Settled \/ changes > 0 \/ guesses = MaxGuesses

(***************************************************************************)
(* "One pending action only", as the comment in run has it.  It cancels    *)
(* what is parked; a run whose first request is still under way it does    *)
(* not, and when that one is parked as well the earlier waiter is          *)
(* overwritten and its page waits for ever: with two runs that do not      *)
(* follow each other this is violated.  A bulk loop keeps the promise,     *)
(* since it is never ahead of itself.                                      *)
(***************************************************************************)
OnePending ==
    \A q, r \in Runs : run[q].state = "waiting" /\ run[r].state = "waiting" => q = r

(***************************************************************************)
(* The grant that right credentials earn reaches the tab.  With the answer *)
(* as Rust gives it this fails: see the run grant_unread.                  *)
(***************************************************************************)
GrantsArrive == [][issued' # issued => (issued' \ issued) \subseteq grants']_vars
=============================================================================
