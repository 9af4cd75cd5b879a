---------------------------- MODULE StepUpProofs ----------------------------
(***************************************************************************)
(* Proofs about StepUp, for any number of runs and submissions, any order  *)
(* of the pages, and whatever field the grant is answered in.              *)
(***************************************************************************)
EXTENDS StepUp, TLAPS

\* A run that has begun knows its session.
RunsKnow == \A r \in Runs : run[r].state # "idle" => run[r].sid \in Sid

\* What is parked waits; what a submission has captured has been parked.
Parked == pending # None => run[pending].state = "waiting"

Captured ==
    \A s \in Submits : submit[s].phase # "free" =>
        submit[s].run \in Runs /\ run[submit[s].run].state \in {"waiting"} \cup Settled

\* Every grant in the tab or on the wire was signed by Rust.
Signed == grants \subseteq issued /\ \A x \in Calls : wire[x].token \subseteq issued

\* A request belongs to a run or submission that awaits it, is of the session of
\* that run, and is answered "ok" only after its effect.
Awaited ==
    /\ \A r \in Runs : wire[r].status # "none" =>
          run[r].state = "sent" /\ wire[r].sid = run[r].sid
    /\ \A s \in Submits : wire[s].status # "none" =>
          submit[s].phase = "retrying" /\ wire[s].sid = run[submit[s].run].sid
    /\ \A r \in Runs : wire[r].status = "ok" => effects[r] > 0
    /\ \A s \in Submits : wire[s].status = "ok" => effects[submit[s].run] > 0

Inv == TypeOK /\ RunsKnow /\ Parked /\ Captured /\ Signed /\ Awaited /\ DoneMeansEffect

-----------------------------------------------------------------------------
\* A promise settles once, from waiting; nothing else of the runs changes.
Settles(rs, rs2) ==
    \A r \in Runs :
       /\ rs2[r].sid = rs[r].sid
       /\ \/ rs2[r].state = rs[r].state
          \/ rs[r].state = "waiting" /\ rs2[r].state \in Settled
       /\ rs2[r].state = "done" => rs[r].state = "done" \/ effects[r] > 0

LEMMA SettleHolds ==
    ASSUME NEW rs \in [Runs -> RunRow], NEW r \in Runs, NEW outcome \in Settled,
           outcome = "done" => effects[r] > 0
    PROVE  /\ Settle(rs, r, outcome) \in [Runs -> RunRow]
           /\ Settles(rs, Settle(rs, r, outcome))
           /\ Settle(rs, r, outcome)[r].state # "waiting"
<1>1. CASE rs[r].state = "waiting"
  <2>1. [rs[r] EXCEPT !.state = outcome] \in RunRow
    BY DEF RunRow, Settled
  <2>2. Settle(rs, r, outcome) = [rs EXCEPT ![r] = [rs[r] EXCEPT !.state = outcome]]
    BY <1>1 DEF Settle
  <2>3. /\ [rs[r] EXCEPT !.state = outcome].state = outcome
        /\ [rs[r] EXCEPT !.state = outcome].sid = rs[r].sid
    BY DEF RunRow
  <2> QED BY <1>1, <2>1, <2>2, <2>3 DEF Settles, Settled
<1>2. CASE rs[r].state # "waiting"
  BY <1>2 DEF Settle, Settles
<1> QED BY <1>1, <1>2

LEMMA RejectedHolds ==
    ASSUME TypeOK
    PROVE  Rejected(run) \in [Runs -> RunRow] /\ Settles(run, Rejected(run))
<1>1. CASE pending = None
  BY <1>1 DEF Rejected, Settles, TypeOK
<1>2. CASE pending \in Runs
  BY <1>2, SettleHolds, StepUpAssumption DEF Rejected, TypeOK, Settled
<1> QED BY <1>1, <1>2 DEF TypeOK

LEMMA RequestHolds ==
    ASSUME TypeOK, Signed, NEW r \in Runs, NEW store \in SUBSET Grant
    PROVE  /\ Request(r, store) \in Exchange
           /\ Request(r, store).token \subseteq store
           /\ Request(r, store).status = "sent"
           /\ Request(r, store).sid = sid
BY DEF TypeOK, Request, UsableGrants, Exchange

\* What the invariant says about runs survives when some of them settle.
LEMMA SettlesKeeps ==
    ASSUME Inv, run' \in [Runs -> RunRow], Settles(run, run')
    PROVE  /\ RunsKnow'
           /\ \A s \in Submits : submit[s].phase # "free" =>
                 submit[s].run \in Runs /\ run'[submit[s].run].state \in {"waiting"} \cup Settled
           /\ \A r \in Runs : run'[r].state = "sent" <=> run[r].state = "sent"
           /\ \A r \in Runs : run'[r].state = "done" => effects[r] > 0
<1>1. RunsKnow'
  BY DEF Inv, RunsKnow, Settles
<1>2. \A r \in Runs : run[r].state \in {"waiting"} \cup Settled => run'[r].state \in {"waiting"} \cup Settled
  BY DEF Settles, Settled
<1>3. \A s \in Submits : submit[s].phase # "free" =>
                 submit[s].run \in Runs /\ run'[submit[s].run].state \in {"waiting"} \cup Settled
  BY <1>2 DEF Inv, Captured
<1>4. \A r \in Runs : run'[r].state = "sent" <=> run[r].state = "sent"
  BY DEF Settles, Settled
<1>5. \A r \in Runs : run'[r].state = "done" => effects[r] > 0
  BY DEF Settles, Inv, DoneMeansEffect
<1> QED BY <1>1, <1>3, <1>4, <1>5

LEMMA InitInv == Init => Inv
<1> SUFFICES ASSUME Init PROVE Inv
  OBVIOUS
<1>1. TypeOK
  BY StepUpAssumption DEF Init, TypeOK, RunRow, Dialog, Submission, Exchange, Quiet, Closed
<1>2. RunsKnow /\ Parked /\ Captured /\ DoneMeansEffect
  BY DEF Init, RunsKnow, Parked, Captured, DoneMeansEffect
<1>3. \A x \in Calls : wire[x].status = "none" /\ wire[x].token = {}
  BY DEF Init, Quiet
<1>4. Calls = Runs \cup Submits
  BY DEF Calls
<1>5. Signed /\ Awaited
  BY <1>3, <1>4 DEF Init, Signed, Awaited
<1> QED BY <1>1, <1>2, <1>5 DEF Inv

-----------------------------------------------------------------------------
\* Steps that settle runs and let go of submissions and requests.
LEMMA SettlingInv ==
    ASSUME Inv, TypeOK', Settles(run, run'), effects' = effects, Signed', Parked',
           \A r \in Runs : wire'[r] = wire[r],
           \A s \in Submits :
              \/ submit'[s] = submit[s] /\ wire'[s] = wire[s]
              \/ submit'[s].phase = "free" /\ wire'[s].status = "none"
    PROVE  Inv'
<1>1. run' \in [Runs -> RunRow]
  BY DEF TypeOK
<1>2. /\ RunsKnow'
      /\ \A s \in Submits : submit[s].phase # "free" =>
            submit[s].run \in Runs /\ run'[submit[s].run].state \in {"waiting"} \cup Settled
      /\ \A r \in Runs : run'[r].state = "sent" <=> run[r].state = "sent"
      /\ \A r \in Runs : run'[r].state = "done" => effects[r] > 0
  BY <1>1, SettlesKeeps
<1>3. \A r \in Runs : run'[r].sid = run[r].sid
  BY DEF Settles
<1>4. Captured'
  BY <1>2 DEF Captured
<1>5. ASSUME NEW s \in Submits, wire'[s].status # "none"
      PROVE  /\ submit'[s].phase = "retrying" /\ wire'[s].sid = run'[submit'[s].run].sid
             /\ wire'[s].status = "ok" => effects'[submit'[s].run] > 0
  <2>1. submit'[s] = submit[s] /\ wire'[s] = wire[s]
    BY <1>5
  <2>2. /\ submit[s].phase = "retrying" /\ wire[s].sid = run[submit[s].run].sid
        /\ wire[s].status = "ok" => effects[submit[s].run] > 0
    BY <1>5, <2>1 DEF Inv, Awaited
  <2>3. submit[s].run \in Runs
    BY <2>2 DEF Inv, Captured
  <2> QED BY <1>3, <2>1, <2>2, <2>3
<1>6. ASSUME NEW r \in Runs, wire'[r].status # "none"
      PROVE  /\ run'[r].state = "sent" /\ wire'[r].sid = run'[r].sid
             /\ wire'[r].status = "ok" => effects'[r] > 0
  BY <1>2, <1>3, <1>6 DEF Inv, Awaited
<1>7. Awaited'
  BY <1>5, <1>6 DEF Awaited
<1>8. DoneMeansEffect'
  BY <1>2 DEF DoneMeansEffect
<1> QED BY <1>2, <1>4, <1>7, <1>8 DEF Inv

LEMMA ClosedDialog ==
    /\ Closed \in Dialog
    /\ Quiet \in Exchange
    /\ [phase |-> "free", run |-> None] \in Submission
BY StepUpAssumption DEF Closed, Dialog, Quiet, Exchange, Submission

LEMMA StartInv ==
    ASSUME Inv, NEW r \in Runs, Start(r)
    PROVE  Inv'
<1> DEFINE rs == Rejected(run)
<1>1. rs \in [Runs -> RunRow] /\ Settles(run, rs)
  BY RejectedHolds DEF Inv
<1>2. [state |-> "sent", sid |-> sid] \in RunRow /\ sid \in Sid
  BY StepUpAssumption DEF Inv, TypeOK, RunRow, Start, Sid
<1>3. /\ run' \in [Runs -> RunRow]
      /\ run'[r] = [state |-> "sent", sid |-> sid]
      /\ \A q \in Runs : q # r => run'[q] = rs[q]
  BY <1>1, <1>2 DEF Start
<1> HIDE DEF rs
<1>4. Request(r, grants) \in Exchange /\ Request(r, grants).token \subseteq grants
      /\ Request(r, grants).status = "sent" /\ Request(r, grants).sid = sid
  BY RequestHolds DEF Inv, TypeOK
<1>5. r \in Calls
  BY DEF Calls
<1>6. /\ wire' \in [Calls -> Exchange]
      /\ wire'[r] = Request(r, grants)
      /\ \A x \in Calls : x # r => wire'[x] = wire[x]
  BY <1>4, <1>5 DEF Start, Inv, TypeOK
<1>7. pending' = None /\ dialog' = Closed
      /\ UNCHANGED <<submit, grants, sid, changes, guesses, issued, effects, now>>
  BY DEF Start
<1>8. TypeOK'
  BY <1>3, <1>6, <1>7, ClosedDialog DEF Inv, TypeOK
<1>9. /\ \A q \in Runs : rs[q].state # "idle" => rs[q].sid \in Sid
      /\ \A q \in Runs : rs[q].sid = run[q].sid
      /\ \A q \in Runs : rs[q].state = "sent" <=> run[q].state = "sent"
      /\ \A q \in Runs : rs[q].state = "done" => effects[q] > 0
      /\ \A q \in Runs : run[q].state \in {"waiting"} \cup Settled =>
                          rs[q].state \in {"waiting"} \cup Settled
  BY <1>1 DEF Settles, Settled, Inv, RunsKnow, DoneMeansEffect
<1>10. RunsKnow'
  BY <1>2, <1>3, <1>9 DEF RunsKnow
<1>11. run[r].state = "idle" /\ wire[r].status = "none"
  BY DEF Start, Inv, Awaited
<1>12. ASSUME NEW s \in Submits, submit[s].phase # "free"
       PROVE  /\ submit[s].run \in Runs /\ submit[s].run # r
              /\ run'[submit[s].run].state \in {"waiting"} \cup Settled
              /\ run'[submit[s].run].sid = run[submit[s].run].sid
  <2>1. submit[s].run \in Runs /\ run[submit[s].run].state \in {"waiting"} \cup Settled
    BY <1>12 DEF Inv, Captured
  <2>2. submit[s].run # r
    BY <1>11, <2>1 DEF Settled
  <2> QED BY <1>3, <1>9, <2>1, <2>2
<1>13. Captured'
  BY <1>7, <1>12 DEF Captured
<1>14. Parked' /\ Signed'
  BY <1>4, <1>6, <1>7 DEF Parked, Signed, Inv
<1>15. ASSUME NEW q \in Runs, wire'[q].status # "none"
       PROVE  /\ run'[q].state = "sent" /\ wire'[q].sid = run'[q].sid
              /\ wire'[q].status = "ok" => effects'[q] > 0
  <2>1. CASE q = r
    BY <1>3, <1>4, <1>6, <2>1
  <2>2. CASE q # r
    <3>1. wire'[q] = wire[q]
      BY <1>6, <2>2 DEF Calls
    <3> QED BY <1>3, <1>7, <1>9, <1>15, <2>2, <3>1 DEF Inv, Awaited
  <2> QED BY <2>1, <2>2
<1>16. ASSUME NEW s \in Submits, wire'[s].status # "none"
       PROVE  /\ submit'[s].phase = "retrying" /\ wire'[s].sid = run'[submit'[s].run].sid
              /\ wire'[s].status = "ok" => effects'[submit'[s].run] > 0
  <2>1. wire'[s] = wire[s]
    BY <1>6, StepUpAssumption DEF Calls
  <2>2. /\ submit[s].phase = "retrying" /\ wire[s].sid = run[submit[s].run].sid
        /\ wire[s].status = "ok" => effects[submit[s].run] > 0
    BY <1>16, <2>1 DEF Inv, Awaited
  <2> QED BY <1>7, <1>12, <2>1, <2>2
<1>17. Awaited'
  BY <1>15, <1>16 DEF Awaited
<1>18. DoneMeansEffect'
  BY <1>3, <1>7, <1>9 DEF DoneMeansEffect
<1> QED BY <1>8, <1>10, <1>13, <1>14, <1>17, <1>18 DEF Inv

LEMMA AnsweredInv ==
    ASSUME Inv, NEW r \in Runs, Answered(r)
    PROVE  Inv'
<1>1. /\ wire[r].status \in {"ok", "need", "fail"}
      /\ run[r].state = "sent" /\ run[r] \in RunRow
      /\ run[r].sid \in Sid
      /\ wire[r].status = "ok" => effects[r] > 0
  BY DEF Answered, Inv, Awaited, TypeOK, RunsKnow
<1>2. /\ wire' \in [Calls -> Exchange]
      /\ wire'[r] = Quiet
      /\ \A x \in Calls : x # r => wire'[x] = wire[x]
  BY ClosedDialog DEF Answered, Inv, TypeOK, Calls
<1>3. UNCHANGED <<submit, grants, sid, changes, guesses, issued, effects, now>>
  BY DEF Answered
<1>4. /\ run' \in [Runs -> RunRow]
      /\ run'[r].sid = run[r].sid
      /\ run'[r].state \in {"waiting"} \cup Settled
      /\ run'[r].state = "done" => effects[r] > 0
      /\ \A q \in Runs : q # r => run'[q] = run[q]
      /\ \/ pending' = r /\ run'[r].state = "waiting"
         \/ pending' = pending
      /\ dialog' \in Dialog
  <2>1. CASE Park(r)
    BY <1>1, <2>1 DEF Park, Inv, TypeOK, RunRow, Dialog, Settled
  <2>2. CASE /\ run' = [run EXCEPT ![r].state =
                         IF wire[r].status = "ok" THEN "done" ELSE "failed"]
             /\ UNCHANGED <<pending, dialog>>
    BY <1>1, <2>2 DEF Inv, TypeOK, RunRow, Settled
  <2> QED BY <2>1, <2>2 DEF Answered
<1>5. TypeOK'
  BY <1>2, <1>3, <1>4, StepUpAssumption DEF Inv, TypeOK
<1>6. Parked'
  BY <1>1, <1>4, StepUpAssumption DEF Inv, Parked, TypeOK
<1>7. RunsKnow' /\ DoneMeansEffect'
  BY <1>1, <1>3, <1>4 DEF Inv, RunsKnow, DoneMeansEffect
<1>8. Captured'
  BY <1>3, <1>4 DEF Inv, Captured
<1>9. Signed'
  BY <1>2, <1>3 DEF Inv, Signed, Quiet
<1>10. ASSUME NEW q \in Runs, wire'[q].status # "none"
       PROVE  /\ run'[q].state = "sent" /\ wire'[q].sid = run'[q].sid
              /\ wire'[q].status = "ok" => effects'[q] > 0
  <2>1. q # r
    BY <1>2, <1>10 DEF Quiet
  <2>2. wire'[q] = wire[q] /\ run'[q] = run[q]
    BY <1>2, <1>4, <2>1 DEF Calls
  <2> QED BY <1>3, <1>10, <2>2 DEF Inv, Awaited
<1>11. ASSUME NEW s \in Submits, wire'[s].status # "none"
       PROVE  /\ submit'[s].phase = "retrying" /\ wire'[s].sid = run'[submit'[s].run].sid
              /\ wire'[s].status = "ok" => effects'[submit'[s].run] > 0
  <2>1. wire'[s] = wire[s]
    BY <1>2, StepUpAssumption DEF Calls
  <2>2. /\ submit[s].phase = "retrying" /\ wire[s].sid = run[submit[s].run].sid
        /\ wire[s].status = "ok" => effects[submit[s].run] > 0
        /\ submit[s].run \in Runs
    BY <1>11, <2>1 DEF Inv, Awaited, Captured
  <2> QED BY <1>3, <1>4, <2>1, <2>2
<1>12. Awaited'
  BY <1>10, <1>11 DEF Awaited
<1> QED BY <1>5, <1>6, <1>7, <1>8, <1>9, <1>12 DEF Inv

\* Nothing but runs, dialog and submissions changes.
LEMMA DialogInv ==
    ASSUME Inv, run' \in [Runs -> RunRow], Settles(run, run'),
           pending' \in Runs \cup {None}, Parked',
           dialog' \in Dialog, submit' \in [Submits -> Submission],
           \A s \in Submits : submit'[s] = submit[s]
              \/ (submit'[s].phase = "free" /\ wire[s].status = "none"),
           guesses' \in 0..MaxGuesses,
           UNCHANGED <<wire, grants, sid, changes, issued, effects, now>>
    PROVE  Inv'
<1>1. TypeOK'
  BY DEF Inv, TypeOK
<1>2. Signed'
  BY DEF Inv, Signed
<1> QED BY <1>1, <1>2, SettlingInv

LEMMA CancelHolds ==
    ASSUME Inv, Cancel
    PROVE  /\ run' \in [Runs -> RunRow] /\ Settles(run, run')
           /\ pending' \in Runs \cup {None} /\ Parked' /\ dialog' \in Dialog
BY RejectedHolds, ClosedDialog DEF Cancel, Inv, Parked

LEMMA SubmitInv ==
    ASSUME Inv, NEW s \in Submits, Submit(s)
    PROVE  Inv'
<1>0. /\ dialog \in Dialog /\ run \in [Runs -> RunRow] /\ guesses \in 0..MaxGuesses
      /\ submit \in [Submits -> Submission] /\ pending \in Runs \cup {None}
  BY DEF Inv, TypeOK
<1>1. UNCHANGED <<wire, grants, sid, changes, guesses, issued, effects, now>>
  BY DEF Submit
<1>2. CASE dialog' = [dialog EXCEPT !.submitted = TRUE] /\ UNCHANGED <<run, pending, submit>>
  <2>1. dialog' \in Dialog
    BY <1>0, <1>2 DEF Dialog
  <2>2. Settles(run, run') /\ Parked'
    BY <1>2 DEF Settles, Inv, Parked
  <2> QED BY <1>0, <1>1, <1>2, <2>1, <2>2, DialogInv
<1>3. CASE Cancel /\ UNCHANGED submit
  BY <1>0, <1>1, <1>3, CancelHolds, DialogInv
<1>4. CASE /\ pending # None
           /\ run[pending].sid = sid
           /\ submit' = [submit EXCEPT ![s] = [phase |-> "granting", run |-> pending]]
           /\ dialog' = [dialog EXCEPT !.busy = TRUE, !.submitting = TRUE,
                                      !.submitted = TRUE]
           /\ UNCHANGED <<run, pending>>
  <2>1. dialog' \in Dialog
    BY <1>0, <1>4 DEF Dialog
  <2>2. [phase |-> "granting", run |-> pending] \in Submission
    BY <1>0 DEF Submission
  <2>3. /\ submit' \in [Submits -> Submission]
        /\ submit'[s] = [phase |-> "granting", run |-> pending]
        /\ \A u \in Submits : u # s => submit'[u] = submit[u]
    BY <1>0, <1>4, <2>2
  <2>4. TypeOK'
    BY <1>1, <1>4, <2>1, <2>3 DEF Inv, TypeOK
  <2>5. Captured'
    BY <1>0, <1>4, <2>3 DEF Inv, Captured, Parked
  <2>6. wire[s].status = "none"
    BY DEF Submit, Inv, Awaited
  <2>7. Awaited'
    BY <1>1, <1>4, <2>3, <2>6 DEF Inv, Awaited
  <2>8. RunsKnow' /\ Parked' /\ Signed' /\ DoneMeansEffect'
    BY <1>1, <1>4 DEF Inv, RunsKnow, Parked, Signed, DoneMeansEffect
  <2> QED BY <2>4, <2>5, <2>7, <2>8 DEF Inv
<1> QED BY <1>2, <1>3, <1>4 DEF Submit

\* What a submission that is over leaves.
LEMMA FreedHolds ==
    ASSUME Inv, NEW s \in Submits,
           submit' = [submit EXCEPT ![s] = [phase |-> "free", run |-> None]]
    PROVE  /\ submit' \in [Submits -> Submission]
           /\ submit'[s].phase = "free"
           /\ \A u \in Submits : u # s => submit'[u] = submit[u]
BY ClosedDialog DEF Inv, TypeOK

LEMMA CompleteHolds ==
    ASSUME Inv, NEW s \in Submits, NEW outcome \in Settled, Complete(s, outcome),
           submit[s].phase # "free", outcome = "done" => effects[submit[s].run] > 0
    PROVE  /\ run' \in [Runs -> RunRow] /\ Settles(run, run')
           /\ pending' \in Runs \cup {None} /\ Parked' /\ dialog' \in Dialog
<1>1. submit[s].run \in Runs
  BY DEF Inv, Captured
<1>2. run \in [Runs -> RunRow]
  BY DEF Inv, TypeOK
<1> QED BY <1>1, <1>2, SettleHolds, ClosedDialog DEF Complete, Parked

LEMMA RefusedHolds ==
    ASSUME Inv, NEW s \in Submits, Refused(s)
    PROVE  /\ run' \in [Runs -> RunRow] /\ Settles(run, run')
           /\ pending' \in Runs \cup {None} /\ Parked' /\ dialog' \in Dialog
           /\ submit' = [submit EXCEPT ![s] = [phase |-> "free", run |-> None]]
           /\ wire' = wire
BY DEF Refused, Released, Dialog, Inv, TypeOK, Settles, Parked

LEMMA NotGrantedInv ==
    ASSUME Inv, NEW s \in Submits, NotGranted(s)
    PROVE  Inv'
<1>1. wire[s].status = "none"
  BY DEF NotGranted, Inv, Awaited
<1>2. guesses' \in 0..MaxGuesses
  BY DEF NotGranted, Inv, TypeOK
<1>3. Refused(s) /\ UNCHANGED <<grants, sid, changes, issued, effects, now>>
  BY DEF NotGranted
<1> QED BY <1>1, <1>2, <1>3, RefusedHolds, FreedHolds, DialogInv

LEMMA RetryAnsweredInv ==
    ASSUME Inv, NEW s \in Submits, RetryAnswered(s)
    PROVE  Inv'
<1>1. /\ submit[s].phase = "retrying"
      /\ wire[s].status = "ok" => effects[submit[s].run] > 0
  BY DEF RetryAnswered, Inv, Awaited
<1>2. /\ wire' \in [Calls -> Exchange]
      /\ wire'[s].status = "none" /\ wire'[s].token = {}
      /\ \A x \in Calls : x # s => wire'[x] = wire[x]
  BY ClosedDialog DEF RetryAnswered, Inv, TypeOK, Calls, Quiet
<1>3. UNCHANGED <<grants, sid, changes, guesses, issued, effects, now>>
  BY DEF RetryAnswered
<1>4. /\ run' \in [Runs -> RunRow] /\ Settles(run, run')
      /\ pending' \in Runs \cup {None} /\ Parked' /\ dialog' \in Dialog
      /\ submit' = [submit EXCEPT ![s] = [phase |-> "free", run |-> None]]
  <2>1. CASE /\ submit' = [submit EXCEPT ![s] = [phase |-> "free", run |-> None]]
             /\ dialog' = [Released EXCEPT !.open = TRUE]
             /\ UNCHANGED <<run, pending>>
    BY <2>1 DEF Released, Dialog, Inv, TypeOK, Settles, Parked
  <2>2. CASE Complete(s, IF wire[s].status = "ok" THEN "done" ELSE "failed")
    <3>1. CASE wire[s].status = "ok"
      BY <1>1, <2>2, <3>1, CompleteHolds DEF Settled, Complete
    <3>2. CASE wire[s].status # "ok"
      BY <1>1, <2>2, <3>2, CompleteHolds DEF Settled, Complete
    <3> QED BY <3>1, <3>2
  <2> QED BY <2>1, <2>2 DEF RetryAnswered
<1>5. /\ submit' \in [Submits -> Submission]
      /\ submit'[s].phase = "free"
      /\ \A u \in Submits : u # s => submit'[u] = submit[u]
  BY <1>4, FreedHolds
<1>6. TypeOK'
  BY <1>2, <1>3, <1>4, <1>5 DEF Inv, TypeOK
<1>7. Signed'
  BY <1>2, <1>3 DEF Inv, Signed
<1>8. \A r \in Runs : wire'[r] = wire[r]
  BY <1>2, StepUpAssumption DEF Calls
<1>9. \A u \in Submits : \/ submit'[u] = submit[u] /\ wire'[u] = wire[u]
                         \/ submit'[u].phase = "free" /\ wire'[u].status = "none"
  BY <1>2, <1>5 DEF Calls
<1> QED BY <1>3, <1>4, <1>6, <1>7, <1>8, <1>9, SettlingInv

LEMMA GrantedInv ==
    ASSUME Inv, NEW s \in Submits, Granted(s)
    PROVE  Inv'
<1> DEFINE r == submit[s].run
           g == [sid |-> run[r].sid, group |-> GroupOf[r], exp |-> now + GrantLife]
<1>1. /\ r \in Runs /\ run[r].state \in {"waiting"} \cup Settled
      /\ wire[s].status = "none"
      /\ submit[s].phase = "granting"
  BY DEF Granted, Inv, Captured, Awaited
<1>2. run[r].sid \in Sid
  BY <1>1 DEF Inv, RunsKnow, Settled
<1>3. g \in Grant
  BY <1>1, <1>2, StepUpAssumption DEF Grant, Inv, TypeOK
<1>4. /\ guesses' \in 0..MaxGuesses
      /\ issued' = issued \cup {g}
      /\ UNCHANGED <<sid, changes, effects, now>>
  BY StepUpAssumption DEF Granted, Inv, TypeOK
<1>5. issued' \subseteq Grant
  BY <1>3, <1>4 DEF Inv, TypeOK
<1>6. CASE Refused(s) /\ UNCHANGED <<wire, grants>>
  <2>1. /\ run' \in [Runs -> RunRow] /\ Settles(run, run')
        /\ pending' \in Runs \cup {None} /\ Parked' /\ dialog' \in Dialog
        /\ submit' = [submit EXCEPT ![s] = [phase |-> "free", run |-> None]]
    BY <1>6, RefusedHolds
  <2>2. /\ submit' \in [Submits -> Submission]
        /\ submit'[s].phase = "free"
        /\ \A u \in Submits : u # s => submit'[u] = submit[u]
    BY <2>1, FreedHolds
  <2>3. TypeOK'
    BY <1>4, <1>5, <1>6, <2>1, <2>2 DEF Inv, TypeOK
  <2>4. Signed'
    BY <1>4, <1>6 DEF Inv, Signed
  <2> QED BY <1>1, <1>4, <1>6, <2>1, <2>2, <2>3, <2>4, SettlingInv
<1>7. CASE grants' = Stored(g) /\ Retry(s, Stored(g))
  <2>1. Stored(g) \in SUBSET Grant /\ Stored(g) \subseteq issued'
    BY <1>3, <1>4 DEF Stored, Inv, TypeOK, Signed
  <2> HIDE DEF g
  <2>2. CASE /\ run[r].sid = sid
             /\ wire' = [wire EXCEPT ![s] = Request(r, Stored(g))]
             /\ submit' = [submit EXCEPT ![s].phase = "retrying"]
             /\ UNCHANGED <<run, pending, dialog>>
    <3>1. /\ Request(r, Stored(g)) \in Exchange
          /\ Request(r, Stored(g)).token \subseteq Stored(g)
          /\ Request(r, Stored(g)).status = "sent"
          /\ Request(r, Stored(g)).sid = sid
      BY <1>1, <2>1, RequestHolds DEF Inv
    <3>2. /\ wire' \in [Calls -> Exchange]
          /\ wire'[s] = Request(r, Stored(g))
          /\ \A x \in Calls : x # s => wire'[x] = wire[x]
      BY <2>2, <3>1 DEF Inv, TypeOK, Calls
    <3>3. /\ submit' \in [Submits -> Submission]
          /\ submit'[s].phase = "retrying" /\ submit'[s].run = r
          /\ \A u \in Submits : u # s => submit'[u] = submit[u]
      BY <2>2 DEF Inv, TypeOK, Submission
    <3>4. TypeOK'
      BY <1>4, <1>5, <1>7, <2>1, <2>2, <3>2, <3>3 DEF Inv, TypeOK
    <3>5. Signed'
      <4>1. grants' \subseteq issued'
        BY <1>7, <2>1
      <4>2. \A x \in Calls : wire'[x].token \subseteq issued'
        BY <1>4, <2>1, <3>1, <3>2 DEF Inv, Signed
      <4> QED BY <4>1, <4>2 DEF Signed
    <3>6. RunsKnow' /\ Parked' /\ DoneMeansEffect'
      BY <1>4, <2>2 DEF Inv, RunsKnow, Parked, DoneMeansEffect
    <3>7. Captured'
      BY <1>1, <2>2, <3>3 DEF Inv, Captured
    <3>8. \A q \in Runs : wire'[q] = wire[q]
      BY <3>2, StepUpAssumption DEF Calls
    <3>9. \A q \in Runs :
             /\ wire'[q].status # "none" => run'[q].state = "sent" /\ wire'[q].sid = run'[q].sid
             /\ wire'[q].status = "ok" => effects'[q] > 0
      BY <1>4, <2>2, <3>8 DEF Inv, Awaited
    <3>10. \A u \in Submits :
             /\ wire'[u].status # "none" =>
                   submit'[u].phase = "retrying" /\ wire'[u].sid = run'[submit'[u].run].sid
             /\ wire'[u].status = "ok" => effects'[submit'[u].run] > 0
      <4>1. ASSUME NEW u \in Submits, u # s
            PROVE  /\ wire'[u].status # "none" =>
                         submit'[u].phase = "retrying" /\ wire'[u].sid = run'[submit'[u].run].sid
                   /\ wire'[u].status = "ok" => effects'[submit'[u].run] > 0
        <5>1. wire'[u] = wire[u] /\ submit'[u] = submit[u]
          BY <3>2, <3>3, <4>1 DEF Calls
        <5> QED BY <1>4, <2>2, <5>1 DEF Inv, Awaited
      <4>2. /\ submit'[s].phase = "retrying" /\ wire'[s].sid = run'[submit'[s].run].sid
            /\ wire'[s].status = "sent"
        BY <2>2, <3>1, <3>2, <3>3
      <4> QED BY <4>1, <4>2
    <3>11. Awaited'
      BY <3>9, <3>10 DEF Awaited
    <3> QED BY <3>4, <3>5, <3>6, <3>7, <3>11 DEF Inv
  <2>3. CASE Complete(s, "failed") /\ UNCHANGED wire
    <3>1. /\ run' \in [Runs -> RunRow] /\ Settles(run, run')
          /\ pending' \in Runs \cup {None} /\ Parked' /\ dialog' \in Dialog
      BY <1>1, <2>3, CompleteHolds DEF Settled
    <3>2. /\ submit' \in [Submits -> Submission]
          /\ submit'[s].phase = "free"
          /\ \A u \in Submits : u # s => submit'[u] = submit[u]
      BY <2>3, FreedHolds DEF Complete
    <3>3. TypeOK'
      BY <1>4, <1>5, <1>7, <2>1, <2>3, <3>1, <3>2 DEF Inv, TypeOK
    <3>4. Signed'
      BY <1>4, <1>7, <2>1, <2>3 DEF Inv, Signed
    <3> QED BY <1>1, <1>4, <2>3, <3>1, <3>2, <3>3, <3>4, SettlingInv
  <2> QED BY <1>7, <2>2, <2>3 DEF Retry
<1> QED BY <1>6, <1>7 DEF Granted

LEMMA ServeInv ==
    ASSUME Inv, NEW x \in Calls, Serve(x) \/ Lose(x)
    PROVE  Inv'
<1>1. /\ wire' \in [Calls -> Exchange]
      /\ wire'[x].sid = wire[x].sid /\ wire'[x].token = wire[x].token
      /\ wire[x].status # "none"
      /\ \A y \in Calls : y # x => wire'[y] = wire[y]
  BY DEF Serve, Lose, Inv, TypeOK, Exchange
<1>2. RunOf(x) \in Runs
  BY <1>1 DEF RunOf, Calls, Inv, Awaited, Captured
<1>3. /\ effects' \in [Runs -> Nat]
      /\ \A r \in Runs : effects[r] > 0 => effects'[r] > 0
      /\ wire'[x].status = "ok" => effects'[RunOf(x)] > 0
  <2>1. CASE UNCHANGED effects
    <3>1. wire'[x].status = "ok" => Serve(x) /\ wire' = [wire EXCEPT ![x].status = "ok"]
      BY DEF Serve, Lose, Inv, TypeOK, Exchange
    <3>2. CASE wire' = [wire EXCEPT ![x].status = "ok"] /\ Serve(x)
      <4>1. effects' = [effects EXCEPT ![RunOf(x)] =
                            IF RunOf(x) \in Keyed /\ @ > 0 THEN @ ELSE @ + 1]
        BY <3>2 DEF Serve, Inv, TypeOK, Exchange
      <4> QED BY <1>2, <4>1 DEF Inv, TypeOK
    <3> QED BY <2>1, <3>1, <3>2 DEF Inv, TypeOK
  <2>2. CASE effects' = [effects EXCEPT ![RunOf(x)] =
                            IF RunOf(x) \in Keyed /\ @ > 0 THEN @ ELSE @ + 1]
    BY <1>2, <2>2 DEF Inv, TypeOK
  <2> QED BY <2>1, <2>2 DEF Serve, Lose
<1>4. UNCHANGED <<run, pending, dialog, submit, grants, sid, changes, guesses, issued, now>>
  BY DEF Serve, Lose
<1>5. TypeOK'
  BY <1>1, <1>3, <1>4 DEF Inv, TypeOK
<1>6. RunsKnow' /\ Parked' /\ Captured' /\ DoneMeansEffect'
  BY <1>3, <1>4 DEF Inv, RunsKnow, Parked, Captured, DoneMeansEffect
<1>7. Signed'
  BY <1>1, <1>4 DEF Inv, Signed
<1>8. ASSUME NEW r \in Runs
      PROVE  /\ wire'[r].status # "none" => run'[r].state = "sent" /\ wire'[r].sid = run'[r].sid
             /\ wire'[r].status = "ok" => effects'[r] > 0
  <2>1. CASE r = x
    BY <1>1, <1>3, <1>4, <2>1 DEF Inv, Awaited, RunOf
  <2>2. CASE r # x
    <3>1. wire'[r] = wire[r]
      BY <1>1, <2>2 DEF Calls
    <3> QED BY <1>3, <1>4, <3>1 DEF Inv, Awaited
  <2> QED BY <2>1, <2>2
<1>9. ASSUME NEW s \in Submits
      PROVE  /\ wire'[s].status # "none" =>
                    submit'[s].phase = "retrying" /\ wire'[s].sid = run'[submit'[s].run].sid
             /\ wire'[s].status = "ok" => effects'[submit'[s].run] > 0
  <2>1. CASE s = x
    <3>1. RunOf(x) = submit[s].run
      BY <2>1, StepUpAssumption DEF RunOf
    <3> QED BY <1>1, <1>3, <1>4, <2>1, <3>1 DEF Inv, Awaited
  <2>2. CASE s # x
    <3>1. wire'[s] = wire[s]
      BY <1>1, <2>2 DEF Calls
    <3>2. wire[s].status # "none" => submit[s].run \in Runs
      BY DEF Inv, Awaited, Captured
    <3> QED BY <1>3, <1>4, <3>1, <3>2 DEF Inv, Awaited
  <2> QED BY <2>1, <2>2
<1>10. Awaited'
  BY <1>8, <1>9 DEF Awaited
<1> QED BY <1>5, <1>6, <1>7, <1>10 DEF Inv

LEMMA InstalledInv ==
    ASSUME Inv, NEW to \in 0..Sessions, Installed(to), guesses' \in 0..MaxGuesses
    PROVE  Inv'
<1>1. /\ run' \in [Runs -> RunRow] /\ Settles(run, run')
      /\ pending' \in Runs \cup {None} /\ Parked' /\ dialog' \in Dialog
  BY CancelHolds DEF Installed
<1>2. /\ sid' = to /\ changes' \in 0..Changes
      /\ grants' \subseteq grants
      /\ UNCHANGED <<submit, wire, issued, effects, now>>
  BY StepUpAssumption DEF Installed, Inv, TypeOK
<1>3. TypeOK'
  BY <1>1, <1>2 DEF Inv, TypeOK
<1>4. Signed'
  BY <1>2 DEF Inv, Signed
<1> QED BY <1>1, <1>2, <1>3, <1>4, SettlingInv

LEMMA NextInv == Inv /\ [Next]_vars => Inv'
<1> SUFFICES ASSUME Inv, [Next]_vars PROVE Inv'
  OBVIOUS
<1>1. ASSUME Close PROVE Inv'
  <2>1. UNCHANGED <<submit, wire, grants, sid, changes, guesses, issued, effects, now>>
    BY <1>1 DEF Close
  <2>2. Cancel
    BY <1>1 DEF Close
  <2>3. submit' \in [Submits -> Submission] /\ guesses' \in 0..MaxGuesses
    BY <2>1 DEF Inv, TypeOK
  <2> QED BY <2>1, <2>2, <2>3, CancelHolds, DialogInv
<1>2. ASSUME Rotate \/ SignOut \/ SignIn PROVE Inv'
  <2>1. sid \in 0..Sessions /\ guesses \in 0..MaxGuesses /\ 0 \in 0..Sessions /\ 0 \in 0..MaxGuesses
    BY StepUpAssumption DEF Inv, TypeOK
  <2>2. CASE Rotate
    BY <2>1, <2>2, InstalledInv DEF Rotate
  <2>3. CASE SignOut
    BY <2>1, <2>3, InstalledInv DEF SignOut
  <2>4. CASE SignIn
    <3>1. changes + 1 \in 0..Sessions
      BY <2>4, StepUpAssumption DEF SignIn, Sid
    <3>2. Installed(changes + 1) /\ guesses' = guesses
      BY <2>4 DEF SignIn
    <3> QED BY <2>1, <3>1, <3>2, InstalledInv
  <2> QED BY <1>2, <2>2, <2>3, <2>4
<1>3. ASSUME Tick \/ UNCHANGED vars PROVE Inv'
  <2>1. UNCHANGED <<run, pending, dialog, submit, wire, grants, sid, changes, guesses,
                    issued, effects>>
    BY <1>3 DEF Tick, vars
  <2>2. now' \in 0..Horizon
    BY <1>3, StepUpAssumption DEF Tick, vars, Inv, TypeOK
  <2>3. TypeOK'
    BY <2>1, <2>2 DEF Inv, TypeOK
  <2>4. Settles(run, run') /\ Signed' /\ Parked'
    BY <2>1 DEF Settles, Inv, Signed, Parked
  <2> QED BY <2>1, <2>3, <2>4, SettlingInv
<1> QED BY <1>1, <1>2, <1>3, StartInv, AnsweredInv, SubmitInv, GrantedInv, NotGrantedInv,
           RetryAnsweredInv, ServeInv
     DEF Next

-----------------------------------------------------------------------------
LEMMA AlwaysInv == Spec => []Inv
BY InitInv, NextInv, PTL DEF Spec

\* The state of the orchestrator is well typed and no session takes more guesses
\* than allowed, with any number of submissions under way.
THEOREM StepUpTypeCorrect == Spec => []TypeOK
<1>1. Inv => TypeOK
  BY DEF Inv
<1> QED BY <1>1, AlwaysInv, PTL

\* A page is told "done" only after its action took effect, in whatever order
\* runs replace each other and submissions are answered.
THEOREM DoneOnlyAfterEffect == Spec => []DoneMeansEffect
<1>1. Inv => DoneMeansEffect
  BY DEF Inv
<1> QED BY <1>1, AlwaysInv, PTL

\* No action takes effect without a live grant that Rust signed for the session
\* of its run and the group of its route.
THEOREM EffectsNeedGrants == Spec => EffectsAuthorised
<1> DEFINE A == \A r \in Runs : effects'[r] # effects[r] =>
          \E g \in issued : /\ g.sid = run[r].sid /\ g.group = GroupOf[r]
                            /\ g.exp > now /\ g.sid = sid
<1>1. Inv /\ [Next]_vars => [A]_vars
  <2> SUFFICES ASSUME Inv, Next, NEW r \in Runs, effects'[r] # effects[r]
               PROVE  \E g \in issued : /\ g.sid = run[r].sid /\ g.group = GroupOf[r]
                                        /\ g.exp > now /\ g.sid = sid
    OBVIOUS
  <2>1. PICK x \in Calls : Serve(x)
    BY DEF Next, Start, Answered, Submit, Granted, NotGranted, RetryAnswered, Lose, Close,
           Rotate, SignOut, SignIn, Installed, Tick
  <2>2. /\ wire[x].sid = sid
        /\ Accepted(x)
        /\ effects' = [effects EXCEPT ![RunOf(x)] =
                            IF RunOf(x) \in Keyed /\ @ > 0 THEN @ ELSE @ + 1]
        /\ wire[x].status = "sent"
    BY <2>1 DEF Serve
  <2>3. r = RunOf(x)
    BY <2>2 DEF Inv, TypeOK
  <2>4. wire[x].sid = run[r].sid
    BY <2>2, <2>3, StepUpAssumption DEF Inv, Awaited, RunOf, Calls
  <2>5. PICK g \in wire[x].token : g.sid = wire[x].sid /\ g.group = GroupOf[RunOf(x)] /\ g.exp > now
    BY <2>2 DEF Accepted
  <2>6. g \in issued
    BY <2>5 DEF Inv, Signed
  <2> QED BY <2>2, <2>3, <2>4, <2>5, <2>6
<1>2. [][A]_vars => EffectsAuthorised
  BY DEF EffectsAuthorised
<1> QED BY <1>1, <1>2, AlwaysInv, PTL DEF Spec
-----------------------------------------------------------------------------
(***************************************************************************)
(* A bulk loop awaits each run before it starts the next: the runs have    *)
(* positions, and each but the first follows the one before it.  Two runs  *)
(* of different pages may overtake each other, and then an action without  *)
(* a key can take effect twice; the loop of one page is what the property  *)
(* is about.                                                               *)
(***************************************************************************)
BulkLoop(pos) ==
    /\ pos \in [Runs -> Nat]
    /\ \A q, r \in Runs : pos[q] = pos[r] => q = r
    /\ \A r \in Runs : pos[r] > 0 =>
          Follows[r] \in Runs /\ pos[Follows[r]] = pos[r] - 1

\* What comes before a run that has begun is settled.
InOrder(pos) ==
    \A q, r \in Runs :
        pos[q] < pos[r] /\ run[r].state # "idle" => run[q].state \in Settled

\* The request that brought the effect about is over, or its answer on the way.
Spent(r) ==
    \/ run[r].state \in Settled
    \/ run[r].state = "sent" /\ wire[r].status \in {"ok", "fail"}
    \/ /\ run[r].state = "waiting"
       /\ \E s \in Submits : /\ submit[s].phase = "retrying" /\ submit[s].run = r
                             /\ wire[s].status \in {"ok", "fail"}

\* While the session is left alone one submission is under way, for the parked
\* run and with the dialog busy; an effect uses the run up.
OneSubmission ==
    /\ \A s \in Submits : submit[s].phase # "free" =>
          submit[s].run = pending /\ dialog.busy
    /\ \A s, t \in Submits : submit[s].phase # "free" /\ submit[t].phase # "free" => s = t

Once == \A r \in Runs : effects[r] <= 1 /\ (effects[r] = 0 \/ Spent(r))

Undisturbed == changes = 0 => OneSubmission /\ Once

\* At most one run of a loop is active.
LEMMA OneActive ==
    ASSUME NEW pos, BulkLoop(pos), InOrder(pos), NEW q \in Runs, NEW r \in Runs,
           run[q].state \in {"sent", "waiting"}, run[r].state \in {"sent", "waiting"}
    PROVE  q = r
<1>1. pos[q] \in Nat /\ pos[r] \in Nat
  BY DEF BulkLoop
<1>2. ~(pos[q] < pos[r]) /\ ~(pos[r] < pos[q])
  BY DEF InOrder, Settled
<1>3. pos[q] = pos[r]
  BY <1>1, <1>2
<1> QED BY <1>3 DEF BulkLoop

\* When the next run of a loop starts, no other is active.
LEMMA NoneActive ==
    ASSUME NEW pos, BulkLoop(pos), InOrder(pos), NEW r \in Runs, Start(r), NEW q \in Runs
    PROVE  /\ pos[q] < pos[r] => run[q].state \in Settled
           /\ pos[r] < pos[q] => run[q].state = "idle"
           /\ run[q].state \notin {"sent", "waiting"}
<1>1. pos[q] \in Nat /\ pos[r] \in Nat
  BY DEF BulkLoop
<1>2. run[r].state = "idle" /\ Ready(r)
  BY DEF Start
<1>3. ASSUME pos[q] < pos[r] PROVE run[q].state \in Settled
  <2>1. Follows[r] \in Runs /\ pos[Follows[r]] = pos[r] - 1
    BY <1>1, <1>3 DEF BulkLoop
  <2>2. run[Follows[r]].state \in Settled
    BY <1>2, <2>1, StepUpAssumption DEF Ready
  <2>3. CASE pos[q] = pos[Follows[r]]
    BY <2>1, <2>2, <2>3 DEF BulkLoop
  <2>4. CASE pos[q] < pos[Follows[r]]
    BY <2>1, <2>2, <2>4 DEF InOrder, Settled
  <2> QED BY <1>1, <1>3, <2>1, <2>3, <2>4
<1>4. ASSUME pos[r] < pos[q] PROVE run[q].state = "idle"
  BY <1>2, <1>4 DEF InOrder, Settled
<1>5. pos[q] = pos[r] => q = r
  BY DEF BulkLoop
<1> QED BY <1>1, <1>2, <1>3, <1>4, <1>5 DEF Settled

\* Steps that only settle runs keep the order.
LEMMA SettlesInOrder ==
    ASSUME NEW pos, InOrder(pos), Settles(run, run')
    PROVE  InOrder(pos)'
BY DEF InOrder, Settles, Settled

\* An effect stays used up when runs settle and submissions stay.
LEMMA SpentStays ==
    ASSUME Settles(run, run'), NEW r \in Runs, Spent(r), wire'[r] = wire[r],
           \A s \in Submits : submit[s].run = r /\ submit[s].phase # "free" =>
              submit'[s] = submit[s] /\ wire'[s] = wire[s]
    PROVE  Spent(r)'
<1>1. CASE run[r].state \in Settled
  BY <1>1 DEF Spent, Settles, Settled
<1>2. CASE run[r].state = "sent" /\ wire[r].status \in {"ok", "fail"}
  BY <1>2 DEF Spent, Settles, Settled
<1>3. CASE run[r].state = "waiting" /\ \E s \in Submits : /\ submit[s].phase = "retrying"
                                                          /\ submit[s].run = r
                                                          /\ wire[s].status \in {"ok", "fail"}
  <2>1. PICK s \in Submits : /\ submit[s].phase = "retrying" /\ submit[s].run = r
                             /\ wire[s].status \in {"ok", "fail"}
    BY <1>3
  <2>2. submit'[s] = submit[s] /\ wire'[s] = wire[s]
    BY <2>1
  <2>3. run'[r].state = "waiting" \/ run'[r].state \in Settled
    BY <1>3 DEF Settles
  <2> QED BY <2>1, <2>2, <2>3 DEF Spent
<1> QED BY <1>1, <1>2, <1>3 DEF Spent

\* Steps of the dialog while no submission is under way.
LEMMA IdleOnce ==
    ASSUME OneSubmission, Once, Settles(run, run'),
           \A s \in Submits : submit[s].phase = "free",
           UNCHANGED <<submit, wire, effects>>
    PROVE  OneSubmission' /\ Once'
<1>1. OneSubmission'
  BY DEF OneSubmission
<1>2. ASSUME NEW r \in Runs, effects[r] # 0 PROVE Spent(r)'
  BY <1>2, SpentStays DEF Once
<1> QED BY <1>1, <1>2 DEF Once

\* The one submission ends: its run has had no effect, or is settled with it.
LEMMA FreedOnce ==
    ASSUME OneSubmission, Once, Settles(run, run'), NEW s \in Submits,
           submit[s].phase # "free", submit'[s].phase = "free",
           \A u \in Submits : u # s => submit'[u] = submit[u],
           \A r \in Runs : wire'[r] = wire[r],
           effects' = effects,
           effects[submit[s].run] = 0 \/ run'[submit[s].run].state \in Settled
    PROVE  OneSubmission' /\ Once'
<1>1. \A u \in Submits : submit'[u].phase = "free"
  BY DEF OneSubmission
<1>2. OneSubmission'
  BY <1>1 DEF OneSubmission
<1>3. ASSUME NEW r \in Runs, effects[r] # 0 PROVE Spent(r)'
  <2>1. Spent(r)
    BY <1>3 DEF Once
  <2>2. CASE r = submit[s].run
    BY <1>3, <2>2 DEF Spent
  <2>3. CASE r # submit[s].run
    <3>1. \A u \in Submits : submit[u].run = r => submit[u].phase = "free"
      BY <2>3 DEF OneSubmission
    <3> QED BY <2>1, <3>1, SpentStays
  <2> QED BY <2>2, <2>3
<1> QED BY <1>2, <1>3 DEF Once

\* A submission whose retry is not answered has had no effect.
LEMMA NotYet ==
    ASSUME Inv, OneSubmission, Once, NEW s \in Submits, submit[s].phase # "free",
           wire[s].status \notin {"ok", "fail"}
    PROVE  /\ submit[s].run \in Runs /\ effects[submit[s].run] = 0
           /\ run[submit[s].run].state = "waiting" /\ pending = submit[s].run
<1>1. submit[s].run \in Runs /\ submit[s].run = pending
  BY DEF Inv, Captured, OneSubmission
<1>2. run[submit[s].run].state = "waiting"
  BY <1>1, StepUpAssumption DEF Inv, Parked
<1>3. ~ Spent(submit[s].run)
  <2>1. \A u \in Submits : submit[u].phase = "retrying" => u = s
    BY DEF OneSubmission
  <2> QED BY <1>2, <2>1 DEF Spent, Settled
<1> QED BY <1>1, <1>2, <1>3 DEF Once

\* A run that completes is settled.
LEMMA CompleteSettles ==
    ASSUME Inv, NEW s \in Submits, NEW outcome \in Settled, Complete(s, outcome),
           submit[s].phase # "free", outcome = "done" => effects[submit[s].run] > 0
    PROVE  Settles(run, run') /\ run'[submit[s].run].state \in Settled
<1>1. /\ submit[s].run \in Runs
      /\ run[submit[s].run].state \in {"waiting"} \cup Settled
      /\ run \in [Runs -> RunRow]
  BY DEF Inv, Captured, TypeOK
<1>2. Settles(run, run') /\ run'[submit[s].run].state # "waiting"
  BY <1>1, SettleHolds DEF Complete
<1> QED BY <1>1, <1>2 DEF Settles

-----------------------------------------------------------------------------
\* What each step does: which runs it settles, and that it keeps the submission.
LEMMA StartOnce ==
    ASSUME Inv, NEW pos, BulkLoop(pos), InOrder(pos), NEW r \in Runs, Start(r)
    PROVE  InOrder(pos)' /\ (OneSubmission /\ Once => OneSubmission' /\ Once')
<1>1. /\ run \in [Runs -> RunRow] /\ run[r].state = "idle"
      /\ Rejected(run) \in [Runs -> RunRow] /\ Settles(run, Rejected(run))
  BY RejectedHolds DEF Inv, TypeOK, Start
<1>2. /\ run'[r].state = "sent"
      /\ \A q \in Runs \ {r} : run'[q] = Rejected(run)[q]
  BY <1>1 DEF Start
<1>3. \A q \in Runs \ {r} :
         /\ run'[q].state # "idle" => run[q].state # "idle"
         /\ run[q].state \in Settled => run'[q].state \in Settled
  BY <1>1, <1>2 DEF Settles, Settled
<1>4. InOrder(pos)'
  <2> SUFFICES ASSUME NEW q \in Runs, NEW b \in Runs, pos[q] < pos[b],
                      run'[b].state # "idle"
               PROVE  run'[q].state \in Settled
    BY DEF InOrder
  <2>1. q # b
    BY DEF BulkLoop
  <2>2. CASE b = r
    BY <1>3, <2>1, <2>2, NoneActive
  <2>3. CASE b # r
    <3>1. run[b].state # "idle"
      BY <1>3, <2>3
    <3>2. q # r
      BY <3>1, NoneActive
    <3>3. run[q].state \in Settled
      BY <3>1 DEF InOrder
    <3> QED BY <1>3, <3>2, <3>3
  <2> QED BY <2>2, <2>3
<1>5. ASSUME OneSubmission, Once PROVE OneSubmission' /\ Once'
  <2>1. \A q \in Runs : run[q].state \notin {"sent", "waiting"}
    BY NoneActive
  <2>2. \A s \in Submits : submit[s].phase = "free"
    <3> SUFFICES ASSUME NEW s \in Submits, submit[s].phase # "free" PROVE FALSE
      OBVIOUS
    <3>1. submit[s].run = pending /\ submit[s].run \in Runs
      BY <1>5 DEF OneSubmission, Inv, Captured
    <3> QED BY <2>1, <3>1, StepUpAssumption DEF Inv, Parked
  <2>3. OneSubmission'
    BY <2>2 DEF OneSubmission, Start
  <2>4. ASSUME NEW q \in Runs
        PROVE  effects'[q] <= 1 /\ (effects'[q] = 0 \/ Spent(q)')
    <3>1. effects'[q] = effects[q] /\ effects[q] <= 1
      BY <1>5 DEF Start, Once
    <3>2. CASE effects[q] = 0
      BY <3>1, <3>2
    <3>3. CASE Spent(q)
      <4>1. run[q].state \in Settled
        BY <2>1, <3>3 DEF Spent
      <4>2. q # r
        BY <1>1, <4>1 DEF Settled
      <4> QED BY <1>3, <3>1, <4>1, <4>2 DEF Spent
    <3> QED BY <1>5, <3>2, <3>3 DEF Once
  <2> QED BY <2>3, <2>4 DEF Once
<1> QED BY <1>4, <1>5

LEMMA AnsweredOnce ==
    ASSUME Inv, NEW pos, BulkLoop(pos), InOrder(pos), NEW r \in Runs, Answered(r)
    PROVE  InOrder(pos)' /\ (OneSubmission /\ Once => OneSubmission' /\ Once')
<1>1. /\ run[r].state = "sent" /\ run \in [Runs -> RunRow]
      /\ wire[r].status \in {"ok", "need", "fail"}
      /\ wire \in [Calls -> Exchange] /\ Runs \subseteq Calls
  BY DEF Answered, Inv, Awaited, TypeOK, Calls
<1>2. /\ \A q \in Runs \ {r} : run'[q] = run[q] /\ wire'[q] = wire[q]
      /\ \/ run'[r].state \in Settled
         \/ run'[r].state = "waiting" /\ wire[r].status = "need"
  BY <1>1 DEF Answered, Park, Settled, RunRow
<1>3. InOrder(pos)'
  <2> SUFFICES ASSUME NEW q \in Runs, NEW b \in Runs, pos[q] < pos[b],
                      run'[b].state # "idle"
               PROVE  run'[q].state \in Settled
    BY DEF InOrder
  <2>1. run[b].state # "idle"
    BY <1>1, <1>2
  <2>2. run[q].state \in Settled
    BY <2>1 DEF InOrder
  <2> QED BY <1>1, <1>2, <2>2 DEF Settled
<1>4. ASSUME OneSubmission, Once PROVE OneSubmission' /\ Once'
  <2>1. \A s \in Submits : submit[s].phase = "free"
    <3> SUFFICES ASSUME NEW s \in Submits, submit[s].phase # "free" PROVE FALSE
      OBVIOUS
    <3>1. submit[s].run = pending /\ submit[s].run \in Runs
      BY <1>4 DEF OneSubmission, Inv, Captured
    <3>2. run[submit[s].run].state = "waiting"
      BY <3>1, StepUpAssumption DEF Inv, Parked
    <3>3. submit[s].run = r
      BY <1>1, <3>1, <3>2, OneActive
    <3> QED BY <1>1, <3>2, <3>3
  <2>2. OneSubmission'
    BY <2>1 DEF OneSubmission, Answered
  <2>3. ASSUME NEW q \in Runs
        PROVE  effects'[q] <= 1 /\ (effects'[q] = 0 \/ Spent(q)')
    <3>1. effects'[q] = effects[q] /\ effects[q] <= 1 /\ (effects[q] = 0 \/ Spent(q))
      BY <1>4 DEF Answered, Once
    <3>2. CASE q = r
      <4>1. Spent(r) => wire[r].status # "need"
        BY <1>1 DEF Spent, Settled
      <4> QED BY <1>2, <3>1, <3>2, <4>1 DEF Spent
    <3>3. CASE q # r
      <4>1. Spent(q) => \/ run[q].state \in Settled
                        \/ run[q].state = "sent" /\ wire[q].status \in {"ok", "fail"}
        BY <2>1 DEF Spent
      <4> QED BY <1>2, <3>1, <3>3, <4>1 DEF Spent
    <3> QED BY <3>2, <3>3
  <2> QED BY <2>2, <2>3 DEF Once
<1> QED BY <1>3, <1>4

LEMMA SubmitOnce ==
    ASSUME Inv, NEW s \in Submits, Submit(s)
    PROVE  Settles(run, run') /\ (OneSubmission /\ Once => OneSubmission' /\ Once')
<1>1. Settles(run, run')
  <2>1. CASE UNCHANGED run
    BY <2>1 DEF Settles
  <2>2. CASE Cancel
    BY <2>2, CancelHolds
  <2> QED BY <2>1, <2>2 DEF Submit
<1>2. ASSUME OneSubmission, Once PROVE OneSubmission' /\ Once'
  <2>1. \A u \in Submits : submit[u].phase = "free"
    BY <1>2 DEF Submit, CanSubmit, OneSubmission
  <2>2. UNCHANGED <<wire, effects>>
    BY DEF Submit
  <2>3. CASE UNCHANGED submit
    BY <1>1, <1>2, <2>1, <2>2, <2>3, IdleOnce
  <2>4. CASE /\ submit' = [submit EXCEPT ![s] = [phase |-> "granting", run |-> pending]]
             /\ dialog' = [dialog EXCEPT !.busy = TRUE, !.submitting = TRUE,
                                        !.submitted = TRUE]
             /\ UNCHANGED <<run, pending>>
    <3>1. /\ submit'[s].run = pending' /\ dialog'.busy
          /\ \A u \in Submits \ {s} : submit'[u].phase = "free"
      BY <2>1, <2>4 DEF Inv, TypeOK, Dialog
    <3>2. OneSubmission'
      BY <3>1 DEF OneSubmission
    <3>3. ASSUME NEW r \in Runs, effects[r] # 0 PROVE Spent(r)'
      BY <1>1, <1>2, <2>1, <2>2, <3>3, SpentStays DEF Once
    <3> QED BY <1>2, <2>2, <3>2, <3>3 DEF Once
  <2> QED BY <2>3, <2>4 DEF Submit
<1> QED BY <1>1, <1>2

LEMMA NotGrantedOnce ==
    ASSUME Inv, NEW s \in Submits, NotGranted(s)
    PROVE  Settles(run, run') /\ (OneSubmission /\ Once => OneSubmission' /\ Once')
<1>1. /\ submit[s].phase = "granting" /\ wire[s].status = "none"
      /\ Refused(s) /\ UNCHANGED <<wire, effects>>
  BY DEF NotGranted, Refused, Inv, Awaited
<1>2. Settles(run, run')
  BY <1>1, RefusedHolds
<1>3. submit'[s].phase = "free" /\ \A u \in Submits : u # s => submit'[u] = submit[u]
  BY <1>1, FreedHolds DEF Refused
<1>4. ASSUME OneSubmission, Once PROVE OneSubmission' /\ Once'
  <2>1. effects[submit[s].run] = 0
    BY <1>1, <1>4, NotYet
  <2> QED BY <1>1, <1>2, <1>3, <1>4, <2>1, FreedOnce
<1> QED BY <1>2, <1>4

LEMMA GrantedOnce ==
    ASSUME Inv, NEW s \in Submits, Granted(s)
    PROVE  Settles(run, run') /\ (OneSubmission /\ Once => OneSubmission' /\ Once')
<1>1. /\ submit[s].phase = "granting" /\ wire[s].status = "none" /\ effects' = effects
      /\ submit[s].run \in Runs
  BY DEF Granted, Inv, Awaited, Captured
<1>2. CASE Refused(s) /\ UNCHANGED wire
  <2>1. Settles(run, run')
    BY <1>2, RefusedHolds
  <2>2. submit'[s].phase = "free" /\ \A u \in Submits : u # s => submit'[u] = submit[u]
    BY <1>2, FreedHolds DEF Refused
  <2>3. ASSUME OneSubmission, Once PROVE OneSubmission' /\ Once'
    <3>1. effects[submit[s].run] = 0
      BY <1>1, <2>3, NotYet
    <3> QED BY <1>1, <1>2, <2>1, <2>2, <2>3, <3>1, FreedOnce
  <2> QED BY <2>1, <2>3
<1>3. CASE Complete(s, "failed") /\ UNCHANGED wire
  <2>1. Settles(run, run') /\ run'[submit[s].run].state \in Settled
    BY <1>1, <1>3, CompleteSettles DEF Settled
  <2>2. submit'[s].phase = "free" /\ \A u \in Submits : u # s => submit'[u] = submit[u]
    BY <1>3, FreedHolds DEF Complete
  <2> QED BY <1>1, <1>3, <2>1, <2>2, FreedOnce
<1>4. CASE \E store :
              /\ wire' = [wire EXCEPT ![s] = Request(submit[s].run, store)]
              /\ submit' = [submit EXCEPT ![s].phase = "retrying"]
              /\ UNCHANGED <<run, pending, dialog>>
  <2>1. /\ \A r \in Runs : wire'[r] = wire[r]
        /\ \A u \in Submits \ {s} : submit'[u] = submit[u] /\ wire'[u] = wire[u]
        /\ submit'[s].run = submit[s].run /\ submit'[s].phase = "retrying"
    BY <1>1, <1>4, StepUpAssumption DEF Inv, TypeOK, Submission, Calls
  <2>2. Settles(run, run')
    BY <1>4 DEF Settles
  <2>3. ASSUME OneSubmission, Once PROVE OneSubmission' /\ Once'
    <3>1. submit[s].run = pending /\ dialog.busy /\ effects[submit[s].run] = 0
      BY <1>1, <2>3, NotYet DEF OneSubmission
    <3>2. OneSubmission'
      BY <1>1, <1>4, <2>1, <2>3, <3>1 DEF OneSubmission
    <3>3. ASSUME NEW r \in Runs, effects[r] # 0 PROVE Spent(r)'
      <4>1. \A u \in Submits : submit[u].run = r /\ submit[u].phase # "free" => u # s
        BY <3>1, <3>3
      <4>2. Spent(r)
        BY <2>3, <3>3 DEF Once
      <4> QED BY <2>1, <2>2, <4>1, <4>2, SpentStays
    <3> QED BY <1>1, <2>3, <3>2, <3>3 DEF Once
  <2> QED BY <2>2, <2>3
<1> QED BY <1>2, <1>3, <1>4 DEF Granted, Retry

LEMMA RetryAnsweredOnce ==
    ASSUME Inv, NEW s \in Submits, RetryAnswered(s)
    PROVE  Settles(run, run') /\ (OneSubmission /\ Once => OneSubmission' /\ Once')
<1>1. /\ submit[s].phase = "retrying" /\ effects' = effects
      /\ wire[s].status = "ok" => effects[submit[s].run] > 0
      /\ \A r \in Runs : wire'[r] = wire[r]
  BY StepUpAssumption DEF RetryAnswered, Inv, Awaited, TypeOK, Calls
<1>2. CASE /\ wire[s].status = "need"
           /\ submit' = [submit EXCEPT ![s] = [phase |-> "free", run |-> None]]
           /\ UNCHANGED <<run, pending>>
  <2>1. Settles(run, run')
    BY <1>2 DEF Settles
  <2>2. submit'[s].phase = "free" /\ \A u \in Submits : u # s => submit'[u] = submit[u]
    BY <1>2, FreedHolds
  <2>3. ASSUME OneSubmission, Once PROVE OneSubmission' /\ Once'
    <3>1. effects[submit[s].run] = 0
      BY <1>1, <1>2, <2>3, NotYet
    <3> QED BY <1>1, <2>1, <2>2, <2>3, <3>1, FreedOnce
  <2> QED BY <2>1, <2>3
<1>3. CASE Complete(s, IF wire[s].status = "ok" THEN "done" ELSE "failed")
  <2>1. Settles(run, run') /\ run'[submit[s].run].state \in Settled
    <3>1. CASE wire[s].status = "ok"
      BY <1>1, <1>3, <3>1, CompleteSettles DEF Settled
    <3>2. CASE wire[s].status # "ok"
      BY <1>1, <1>3, <3>2, CompleteSettles DEF Settled
    <3> QED BY <3>1, <3>2
  <2>2. submit'[s].phase = "free" /\ \A u \in Submits : u # s => submit'[u] = submit[u]
    BY <1>3, FreedHolds DEF Complete
  <2> QED BY <1>1, <2>1, <2>2, FreedOnce
<1> QED BY <1>2, <1>3 DEF RetryAnswered

\* A request that is on its way has had no effect before.
LEMMA ServeOnce ==
    ASSUME Inv, OneSubmission, Once, NEW x \in Calls, Serve(x) \/ Lose(x)
    PROVE  OneSubmission' /\ Once'
<1>0. PICK r0 : r0 = RunOf(x)
  OBVIOUS
<1>1. /\ UNCHANGED <<run, pending, dialog, submit>>
      /\ wire \in [Calls -> Exchange] /\ effects \in [Runs -> Nat]
      /\ \A y \in Calls : y # x => wire'[y] = wire[y]
      /\ wire[x].status \in {"sent", "ok", "need"}
  BY DEF Serve, Lose, Inv, TypeOK
<1>2. OneSubmission'
  BY <1>1 DEF OneSubmission
<1>3. /\ r0 \in Runs
      /\ x \in Runs => r0 = x /\ run[x].state = "sent"
      /\ x \in Submits => /\ r0 = submit[x].run /\ submit[x].phase = "retrying"
                          /\ run[r0].state = "waiting"
  <2>1. CASE x \in Runs
    BY <1>0, <1>1, <2>1, StepUpAssumption DEF RunOf, Inv, Awaited
  <2>2. CASE x \in Submits
    <3>1. x \notin Runs /\ submit[x].phase = "retrying" /\ r0 = submit[x].run
      BY <1>0, <1>1, <2>2, StepUpAssumption DEF RunOf, Inv, Awaited
    <3>2. r0 \in Runs /\ r0 = pending
      BY <2>2, <3>1 DEF Inv, Captured, OneSubmission
    <3> QED BY <3>1, <3>2, StepUpAssumption DEF Inv, Parked
  <2> QED BY <2>1, <2>2 DEF Calls
<1>4. ASSUME wire'[x].status \in {"ok", "fail"} PROVE Spent(r0)'
  <2>1. CASE x \in Runs
    BY <1>1, <1>3, <1>4, <2>1 DEF Spent
  <2>2. CASE x \in Submits
    <3>1. /\ run'[r0].state = "waiting"
          /\ submit'[x].phase = "retrying" /\ submit'[x].run = r0
      BY <1>1, <1>3, <2>2
    <3> QED BY <1>4, <2>2, <3>1 DEF Spent
  <2> QED BY <2>1, <2>2 DEF Calls
<1>5. ASSUME NEW r \in Runs \ {r0}, Spent(r) PROVE Spent(r)'
  <2>1. Settles(run, run')
    BY <1>1 DEF Settles
  <2>2. wire'[r] = wire[r]
    BY <1>1, <1>3, <1>5 DEF Calls
  <2>3. \A s \in Submits : submit[s].run = r /\ submit[s].phase # "free" =>
           submit'[s] = submit[s] /\ wire'[s] = wire[s]
    BY <1>1, <1>3, <1>5 DEF Calls
  <2> QED BY <1>5, <2>1, <2>2, <2>3, SpentStays
<1>6. CASE Lose(x)
  <2>1. effects' = effects /\ wire'[x].status = "fail"
    BY <1>1, <1>6 DEF Lose, Exchange
  <2>2. ASSUME NEW r \in Runs, effects[r] # 0 PROVE Spent(r)'
    <3>1. Spent(r)
      BY <2>2 DEF Once
    <3> QED BY <1>4, <1>5, <2>1, <3>1
  <2>3. \A r \in Runs : effects'[r] = effects[r] /\ effects[r] <= 1
    BY <2>1 DEF Once
  <2> QED BY <1>2, <2>2, <2>3 DEF Once
<1>7. CASE Serve(x)
  <2>1. wire[x].status = "sent"
    BY <1>7 DEF Serve
  <2>2. effects[r0] = 0
    <3>1. CASE x \in Runs
      BY <1>3, <2>1, <3>1 DEF Once, Spent, Settled
    <3>2. CASE x \in Submits
      BY <1>3, <2>1, <3>2, NotYet
    <3> QED BY <3>1, <3>2 DEF Calls
  <2>3. /\ \A r \in Runs \ {r0} : effects'[r] = effects[r]
        /\ \/ effects'[r0] = 0
           \/ effects'[r0] = 1 /\ wire'[x].status = "ok"
    <3>1. CASE UNCHANGED effects
      BY <2>2, <3>1
    <3>2. CASE /\ wire' = [wire EXCEPT ![x].status = "ok"]
               /\ effects' = [effects EXCEPT ![r0] =
                            IF r0 \in Keyed /\ @ > 0 THEN @ ELSE @ + 1]
      <4>1. effects' = [effects EXCEPT ![r0] = 1]
        BY <1>1, <2>2, <3>2
      <4> QED BY <1>1, <1>3, <3>2, <4>1 DEF Exchange
    <3> QED BY <1>7, <1>0, <3>1, <3>2 DEF Serve
  <2>4. ASSUME NEW r \in Runs
        PROVE  effects'[r] <= 1 /\ (effects'[r] = 0 \/ Spent(r)')
    <3>1. CASE r = r0
      BY <1>4, <2>3, <3>1
    <3>2. CASE r # r0
      <4>1. effects'[r] = effects[r] /\ effects[r] <= 1 /\ (effects[r] = 0 \/ Spent(r))
        BY <2>3, <3>2 DEF Once
      <4> QED BY <1>5, <3>2, <4>1
    <3> QED BY <3>1, <3>2
  <2> QED BY <1>2, <2>4 DEF Once
<1> QED BY <1>6, <1>7

LEMMA NextOnce ==
    ASSUME NEW pos, BulkLoop(pos), Inv, InOrder(pos), Undisturbed, [Next]_vars
    PROVE  InOrder(pos)' /\ Undisturbed'
<1>1. ASSUME NEW r \in Runs, Start(r) \/ Answered(r)
      PROVE  InOrder(pos)' /\ Undisturbed'
  <2>1. changes' = changes
    BY <1>1 DEF Start, Answered
  <2> QED BY <1>1, <2>1, StartOnce, AnsweredOnce DEF Undisturbed
<1>2. ASSUME NEW s \in Submits,
             Submit(s) \/ Granted(s) \/ NotGranted(s) \/ RetryAnswered(s)
      PROVE  InOrder(pos)' /\ Undisturbed'
  <2>1. changes' = changes
    BY <1>2 DEF Submit, Granted, NotGranted, RetryAnswered
  <2>2. Settles(run, run') /\ (OneSubmission /\ Once => OneSubmission' /\ Once')
    BY <1>2, SubmitOnce, GrantedOnce, NotGrantedOnce, RetryAnsweredOnce
  <2> QED BY <2>1, <2>2, SettlesInOrder DEF Undisturbed
<1>3. ASSUME NEW x \in Calls, Serve(x) \/ Lose(x)
      PROVE  InOrder(pos)' /\ Undisturbed'
  <2>1. changes' = changes /\ run' = run
    BY <1>3 DEF Serve, Lose
  <2>2. Settles(run, run')
    BY <2>1 DEF Settles
  <2> QED BY <1>3, <2>1, <2>2, SettlesInOrder, ServeOnce DEF Undisturbed
<1>4. CASE Close
  <2>1. /\ Settles(run, run') /\ UNCHANGED <<submit, wire, effects, changes>>
        /\ ~dialog.busy
    BY <1>4, CancelHolds DEF Close
  <2>2. OneSubmission => \A s \in Submits : submit[s].phase = "free"
    BY <2>1 DEF OneSubmission
  <2> QED BY <2>1, <2>2, SettlesInOrder, IdleOnce DEF Undisturbed
<1>5. CASE Rotate \/ SignOut \/ SignIn
  <2>1. Cancel /\ changes' = changes + 1 /\ changes \in Nat
    BY <1>5 DEF Rotate, SignOut, SignIn, Installed, Inv, TypeOK
  <2>2. Settles(run, run') /\ changes' # 0
    BY <2>1, CancelHolds
  <2> QED BY <2>2, SettlesInOrder DEF Undisturbed
<1>6. CASE Tick \/ UNCHANGED vars
  <2>1. UNCHANGED <<run, pending, dialog, submit, wire, effects, changes>>
    BY <1>6 DEF Tick, vars
  <2> QED BY <2>1 DEF InOrder, Undisturbed, OneSubmission, Once, Spent
<1> QED BY <1>1, <1>2, <1>3, <1>4, <1>5, <1>6 DEF Next

(***************************************************************************)
(* However many runs a bulk loop of a page has and however often answers   *)
(* are lost and the dialog is submitted: as long as the session is left    *)
(* alone, the action of no run takes effect twice, with or without a key.  *)
(***************************************************************************)
THEOREM BulkLoopActsOnce ==
    ASSUME NEW pos, BulkLoop(pos) PROVE Spec => []UndisturbedOnce
<1>1. Init => InOrder(pos) /\ Undisturbed
  BY DEF Init, InOrder, Undisturbed, OneSubmission, Once
<1>2. Inv /\ InOrder(pos) /\ Undisturbed /\ [Next]_vars => InOrder(pos)' /\ Undisturbed'
  BY NextOnce
<1>3. Undisturbed => UndisturbedOnce
  BY DEF Undisturbed, UndisturbedOnce, Once
<1> QED BY <1>1, <1>2, <1>3, AlwaysInv, PTL DEF Spec

-----------------------------------------------------------------------------
\* A run that is active has its request on the wire or is the parked one, and
\* then the dialog is open; only a submission under way keeps it busy.
Served ==
    /\ \A r \in Runs : /\ run[r].state = "sent" => wire[r].status # "none"
                       /\ run[r].state = "waiting" => pending = r
    /\ \A s \in Submits : submit[s].phase = "retrying" => wire[s].status # "none"
    /\ pending # None => dialog.open
    /\ dialog.busy \/ dialog.submitting => \E s \in Submits : submit[s].phase # "free"

Attended == changes = 0 => Served

LEMMA ServedSuffices ==
    ASSUME Inv, OneSubmission, Served, NEW r \in Runs,
           run[r].state \in {"sent", "waiting"}
    PROVE  SomeoneActs(r)
<1>1. CASE run[r].state = "sent"
  BY <1>1 DEF Served, SomeoneActs
<1>2. CASE run[r].state = "waiting"
  <2>1. pending = r /\ dialog.open
    BY <1>2, StepUpAssumption DEF Served
  <2>2. CASE \E s \in Submits : submit[s].phase # "free"
    <3>1. PICK s \in Submits : submit[s].phase # "free"
      BY <2>2
    <3>2. submit[s].run = r /\ submit[s].phase \in {"granting", "retrying"}
      BY <2>1, <3>1 DEF OneSubmission, Inv, TypeOK, Submission
    <3> QED BY <3>2 DEF Served, SomeoneActs
  <2>3. CASE ~ \E s \in Submits : submit[s].phase # "free"
    BY <2>1, <2>3 DEF Served, SomeoneActs
  <2> QED BY <2>2, <2>3
<1> QED BY <1>1, <1>2

\* With a run that starts or is answered no other one is active.
LEMMA NoSubmission ==
    ASSUME Inv, OneSubmission, \A q \in Runs : run[q].state # "waiting"
    PROVE  \A s \in Submits : submit[s].phase = "free"
<1> SUFFICES ASSUME NEW s \in Submits, submit[s].phase # "free" PROVE FALSE
  OBVIOUS
<1>1. submit[s].run = pending /\ submit[s].run \in Runs
  BY DEF OneSubmission, Inv, Captured
<1> QED BY <1>1, StepUpAssumption DEF Inv, Parked

LEMMA StartServed ==
    ASSUME Inv, NEW pos, BulkLoop(pos), InOrder(pos), OneSubmission, Served,
           NEW r \in Runs, Start(r)
    PROVE  Served'
<1>1. \A q \in Runs : run[q].state \notin {"sent", "waiting"}
  BY NoneActive
<1>2. \A s \in Submits : submit'[s].phase = "free"
  BY <1>1, NoSubmission DEF Start
<1>3. /\ Rejected(run) \in [Runs -> RunRow] /\ Settles(run, Rejected(run))
      /\ wire \in [Calls -> Exchange] /\ Runs \subseteq Calls
  BY RejectedHolds DEF Inv, TypeOK, Calls
<1>4. /\ run'[r].state = "sent" /\ wire'[r].status = "sent"
      /\ \A q \in Runs \ {r} : run'[q] = Rejected(run)[q]
  BY <1>3 DEF Start, Request
<1>5. \A q \in Runs \ {r} : run'[q].state \notin {"sent", "waiting"}
  BY <1>1, <1>3, <1>4 DEF Settles, Settled
<1>6. pending' = None /\ ~dialog'.busy /\ ~dialog'.submitting
  BY DEF Start, Closed
<1> QED BY <1>2, <1>4, <1>5, <1>6 DEF Served

LEMMA AnsweredServed ==
    ASSUME Inv, NEW pos, BulkLoop(pos), InOrder(pos), OneSubmission, Served,
           NEW r \in Runs, Answered(r)
    PROVE  Served'
<1>1. /\ run[r].state = "sent" /\ run \in [Runs -> RunRow]
      /\ wire[r].status \in {"ok", "need", "fail"}
      /\ wire \in [Calls -> Exchange] /\ Runs \subseteq Calls /\ Submits \subseteq Calls
  BY DEF Answered, Inv, Awaited, TypeOK, Calls
<1>2. \A q \in Runs \ {r} : run[q].state \notin {"sent", "waiting"} /\ run'[q] = run[q]
  BY <1>1, OneActive DEF Answered, Park
<1>3. \A s \in Submits : submit[s].phase = "free"
  BY <1>1, <1>2, NoSubmission
<1>4. ~dialog.busy /\ ~dialog.submitting
  BY <1>3 DEF Served
<1>5. UNCHANGED submit
  BY DEF Answered
<1>6. CASE Park(r)
  <2>1. run'[r].state = "waiting" /\ pending' = r
    BY <1>1, <1>6 DEF Park, RunRow
  <2>2. dialog'.open /\ ~dialog'.busy /\ ~dialog'.submitting
    BY <1>4, <1>6 DEF Park, Inv, TypeOK, Dialog
  <2> QED BY <1>2, <1>3, <1>5, <2>1, <2>2 DEF Served
<1>7. CASE /\ run' = [run EXCEPT ![r].state =
                        IF wire[r].status = "ok" THEN "done" ELSE "failed"]
           /\ UNCHANGED <<pending, dialog>>
  <2>1. run'[r].state \notin {"sent", "waiting"}
    BY <1>1, <1>7 DEF RunRow
  <2> QED BY <1>2, <1>3, <1>4, <1>5, <1>7, <2>1 DEF Served
<1> QED BY <1>6, <1>7 DEF Answered

\* A step that settles the parked run and closes the dialog.
LEMMA SettledServed ==
    ASSUME Inv, Served, run' \in [Runs -> RunRow], Settles(run, run'),
           pending # None => run'[pending].state # "waiting",
           pending' = None, dialog' = Closed,
           \A r \in Runs : wire'[r] = wire[r],
           \A s \in Submits : submit'[s].phase = "retrying" =>
              submit[s].phase = "retrying" /\ wire'[s] = wire[s]
    PROVE  Served'
<1>1. ASSUME NEW r \in Runs PROVE run'[r].state # "waiting"
  <2>1. run'[r].state = "waiting" => run[r].state = "waiting"
    BY DEF Settles, Settled
  <2> QED BY <2>1, StepUpAssumption DEF Served
<1>2. \A r \in Runs : run'[r].state = "sent" => wire'[r].status # "none"
  BY DEF Settles, Settled, Served
<1>3. \A s \in Submits : submit'[s].phase = "retrying" => wire'[s].status # "none"
  BY DEF Served
<1>4. ~dialog'.busy /\ ~dialog'.submitting
  BY DEF Closed
<1> QED BY <1>1, <1>2, <1>3, <1>4 DEF Served

LEMMA CancelServed ==
    ASSUME Inv, Served, Cancel, UNCHANGED <<submit, wire>>
    PROVE  Served'
<1>1. run' = Rejected(run) /\ pending' = None /\ dialog' = Closed
  BY DEF Cancel
<1>2. run' \in [Runs -> RunRow] /\ Settles(run, run')
  BY <1>1, RejectedHolds DEF Inv
<1>3. pending # None => run'[pending].state # "waiting"
  <2>1. pending # None => pending \in Runs /\ run' = Settle(run, pending, "cancelled")
    BY <1>1 DEF Rejected, Inv, TypeOK
  <2>2. run \in [Runs -> RunRow]
    BY DEF Inv, TypeOK
  <2> QED BY <2>1, <2>2, SettleHolds DEF Settled
<1> QED BY <1>1, <1>2, <1>3, SettledServed

\* The run of the one submission is the parked one.
LEMMA CompleteServed ==
    ASSUME Inv, OneSubmission, Served, NEW s \in Submits, NEW outcome \in Settled,
           submit[s].phase # "free", outcome = "done" => effects[submit[s].run] > 0,
           Complete(s, outcome), \A x \in Calls \ {s} : wire'[x] = wire[x]
    PROVE  Served'
<1>1. /\ submit[s].run \in Runs /\ submit[s].run = pending
      /\ run \in [Runs -> RunRow]
  BY DEF OneSubmission, Inv, Captured, TypeOK
<1>2. run' = Settle(run, pending, outcome) /\ pending' = None /\ dialog' = Closed
  BY <1>1 DEF Complete
<1>3. /\ run' \in [Runs -> RunRow] /\ Settles(run, run')
      /\ run'[pending].state # "waiting"
  BY <1>1, <1>2, SettleHolds
<1>4. /\ submit'[s].phase = "free"
      /\ \A u \in Submits : u # s => submit'[u] = submit[u]
  BY FreedHolds DEF Complete
<1>5. \A r \in Runs : wire'[r] = wire[r]
  BY StepUpAssumption DEF Calls
<1>6. \A u \in Submits : submit'[u].phase = "retrying" =>
         submit[u].phase = "retrying" /\ wire'[u] = wire[u]
  BY <1>4 DEF Calls
<1> QED BY <1>2, <1>3, <1>5, <1>6, SettledServed

\* A submission ends without its run: the dialog takes input again.
LEMMA ReleasedServed ==
    ASSUME Inv, Served, NEW s \in Submits, UNCHANGED <<run, pending>>,
           submit' = [submit EXCEPT ![s] = [phase |-> "free", run |-> None]],
           \A x \in Calls \ {s} : wire'[x] = wire[x],
           dialog' = Released \/ dialog' = [Released EXCEPT !.open = TRUE]
    PROVE  Served'
<1>1. /\ submit'[s].phase = "free"
      /\ \A u \in Submits : u # s => submit'[u] = submit[u]
  BY FreedHolds
<1>2. /\ ~dialog'.busy /\ ~dialog'.submitting
      /\ dialog.open => dialog'.open
  BY DEF Released, Inv, TypeOK, Dialog
<1>3. \A r \in Runs : wire'[r] = wire[r]
  BY StepUpAssumption DEF Calls
<1>4. \A u \in Submits : submit'[u].phase = "retrying" => wire'[u].status # "none"
  BY <1>1 DEF Served, Calls
<1> QED BY <1>2, <1>3, <1>4 DEF Served

LEMMA SubmitServed ==
    ASSUME Inv, Served, NEW s \in Submits, Submit(s)
    PROVE  Served'
<1>1. UNCHANGED wire /\ submit \in [Submits -> Submission] /\ dialog \in Dialog
  BY DEF Submit, Inv, TypeOK
<1>2. CASE pending = None /\ dialog' = [dialog EXCEPT !.submitted = TRUE]
           /\ UNCHANGED <<run, pending, submit>>
  <2>1. dialog'.busy = dialog.busy /\ dialog'.submitting = dialog.submitting
    BY <1>1, <1>2 DEF Dialog
  <2> QED BY <1>1, <1>2, <2>1 DEF Served
<1>3. CASE Cancel /\ UNCHANGED submit
  BY <1>1, <1>3, CancelServed
<1>4. CASE /\ submit' = [submit EXCEPT ![s] = [phase |-> "granting", run |-> pending]]
           /\ dialog' = [dialog EXCEPT !.busy = TRUE, !.submitting = TRUE,
                                      !.submitted = TRUE]
           /\ UNCHANGED <<run, pending>>
  <2>1. /\ submit'[s].phase = "granting"
        /\ \A u \in Submits : u # s => submit'[u] = submit[u]
    BY <1>1, <1>4
  <2>2. dialog'.open = dialog.open
    BY <1>1, <1>4 DEF Dialog
  <2>3. \A u \in Submits : submit'[u].phase = "retrying" => wire'[u].status # "none"
    BY <1>1, <2>1 DEF Served
  <2> QED BY <1>1, <1>4, <2>1, <2>2, <2>3 DEF Served
<1> QED BY <1>2, <1>3, <1>4 DEF Submit

LEMMA GrantedServed ==
    ASSUME Inv, OneSubmission, Served, NEW s \in Submits, Granted(s)
    PROVE  Served'
<1>1. /\ submit[s].phase = "granting" /\ wire \in [Calls -> Exchange]
      /\ submit \in [Submits -> Submission] /\ s \in Calls
  BY DEF Granted, Inv, TypeOK, Calls
<1>2. CASE Refused(s) /\ UNCHANGED wire
  BY <1>2, ReleasedServed DEF Refused
<1>3. CASE Complete(s, "failed") /\ UNCHANGED wire
  BY <1>1, <1>3, CompleteServed DEF Settled
<1>4. CASE \E store :
              /\ wire' = [wire EXCEPT ![s] = Request(submit[s].run, store)]
              /\ submit' = [submit EXCEPT ![s].phase = "retrying"]
              /\ UNCHANGED <<run, pending, dialog>>
  <2>1. /\ wire'[s].status = "sent"
        /\ \A x \in Calls \ {s} : wire'[x] = wire[x]
    BY <1>1, <1>4 DEF Request
  <2>2. /\ submit'[s].phase = "retrying"
        /\ \A u \in Submits : u # s => submit'[u] = submit[u]
    BY <1>1, <1>4 DEF Submission
  <2>3. \A r \in Runs : wire'[r] = wire[r]
    BY <2>1, StepUpAssumption DEF Calls
  <2>4. \A u \in Submits : submit'[u].phase = "retrying" => wire'[u].status # "none"
    BY <2>1, <2>2 DEF Served, Calls
  <2>5. \A u \in Submits : submit[u].phase # "free" => submit'[u].phase # "free"
    BY <2>2
  <2> QED BY <1>4, <2>3, <2>4, <2>5 DEF Served
<1> QED BY <1>2, <1>3, <1>4 DEF Granted, Retry

LEMMA RetryAnsweredServed ==
    ASSUME Inv, OneSubmission, Served, NEW s \in Submits, RetryAnswered(s)
    PROVE  Served'
<1>1. /\ submit[s].phase = "retrying"
      /\ wire[s].status = "ok" => effects[submit[s].run] > 0
      /\ \A x \in Calls \ {s} : wire'[x] = wire[x]
  BY DEF RetryAnswered, Inv, Awaited, TypeOK, Calls
<1>2. CASE /\ submit' = [submit EXCEPT ![s] = [phase |-> "free", run |-> None]]
           /\ dialog' = [Released EXCEPT !.open = TRUE]
           /\ UNCHANGED <<run, pending>>
  BY <1>1, <1>2, ReleasedServed
<1>3. CASE Complete(s, IF wire[s].status = "ok" THEN "done" ELSE "failed")
  <2>1. CASE wire[s].status = "ok"
    BY <1>1, <1>3, <2>1, CompleteServed DEF Settled
  <2>2. CASE wire[s].status # "ok"
    BY <1>1, <1>3, <2>2, CompleteServed DEF Settled
  <2> QED BY <2>1, <2>2
<1> QED BY <1>2, <1>3 DEF RetryAnswered

LEMMA WireServed ==
    ASSUME Inv, Served, NEW x \in Calls, Serve(x) \/ Lose(x)
    PROVE  Served'
<1>1. UNCHANGED <<run, pending, dialog, submit>> /\ wire \in [Calls -> Exchange]
  BY DEF Serve, Lose, Inv, TypeOK
<1>2. \E status \in {"ok", "need", "fail"} : wire' = [wire EXCEPT ![x].status = status]
  BY DEF Serve, Lose
<1>3. \A y \in Calls : wire[y].status # "none" => wire'[y].status # "none"
  BY <1>1, <1>2 DEF Exchange
<1> QED BY <1>1, <1>3 DEF Served, Calls

LEMMA NextServed ==
    ASSUME NEW pos, BulkLoop(pos), Inv, InOrder(pos), Undisturbed, Attended, [Next]_vars
    PROVE  Attended'
<1> SUFFICES ASSUME changes' = 0 PROVE Served'
  BY DEF Attended
<1>1. changes = 0 /\ ~(Rotate \/ SignOut \/ SignIn)
  <2>1. changes \in Nat
    BY StepUpAssumption DEF Inv, TypeOK
  <2>2. Rotate \/ SignOut \/ SignIn => changes' = changes + 1
    BY DEF Rotate, SignOut, SignIn, Installed
  <2>3. Rotate \/ SignOut \/ SignIn \/ changes' = changes
    BY DEF Next, Start, Answered, Submit, Granted, NotGranted, RetryAnswered, Serve,
       Lose, Close, Tick, vars
  <2> QED BY <2>1, <2>2, <2>3
<1>2. OneSubmission /\ Served
  BY <1>1 DEF Undisturbed, Attended
<1>3. ASSUME NEW s \in Submits, NotGranted(s) PROVE Served'
  BY <1>2, <1>3, ReleasedServed DEF NotGranted, Refused
<1>4. CASE Close
  BY <1>2, <1>4, CancelServed DEF Close
<1>5. CASE Tick \/ UNCHANGED vars
  BY <1>2, <1>5 DEF Tick, vars, Served
<1> QED
  BY <1>1, <1>2, <1>3, <1>4, <1>5, StartServed, AnsweredServed, SubmitServed,
     GrantedServed, RetryAnsweredServed, WireServed DEF Next

(***************************************************************************)
(* For a bulk loop of any length: as long as the session is left alone, no *)
(* run of it waits for nothing.  With two pages the parked run of one is   *)
(* replaced by that of the other and waits for ever.                       *)
(***************************************************************************)
THEOREM BulkLoopGoesOn ==
    ASSUME NEW pos, BulkLoop(pos) PROVE Spec => []NobodyWaits
<1> DEFINE J == InOrder(pos) /\ Undisturbed /\ Attended
<1>1. Init => J
  BY DEF Init, InOrder, Undisturbed, OneSubmission, Once, Attended, Served, Closed
<1>2. Inv /\ J /\ [Next]_vars => J'
  BY NextOnce, NextServed
<1>3. Inv /\ J => NobodyWaits
  BY ServedSuffices DEF Undisturbed, Attended, NobodyWaits
<1> HIDE DEF J
<1> QED BY <1>1, <1>2, <1>3, AlwaysInv, PTL DEF Spec

(***************************************************************************)
(* A bulk loop of any length has one action pending at a time, as the      *)
(* comment in run promises; runs that do not follow each other may not.    *)
(***************************************************************************)
THEOREM BulkLoopPendsOnce ==
    ASSUME NEW pos, BulkLoop(pos) PROVE Spec => []OnePending
<1> DEFINE J == InOrder(pos) /\ Undisturbed
<1>1. Init => J
  BY DEF Init, InOrder, Undisturbed, OneSubmission, Once
<1>2. Inv /\ J /\ [Next]_vars => J'
  BY NextOnce
<1>3. J => OnePending
  BY OneActive DEF OnePending
<1> HIDE DEF J
<1> QED BY <1>1, <1>2, <1>3, AlwaysInv, PTL DEF Spec
=============================================================================
