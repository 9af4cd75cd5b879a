---------------------------- MODULE SessionProofs ----------------------------
(***************************************************************************)
(* Proofs about the sessions: at the server (SessionRotation), for every   *)
(* set of calls, every limit and window, members and staff alike, with and *)
(* without a second factor; and in the browser (AuthTabs), for every set   *)
(* of tabs and every bound.                                                *)
(***************************************************************************)
EXTENDS SessionRotation, AuthTabs, SequenceTheorems, TLAPS

(***************************************************************************)
(* The operators on the row of a session.                                  *)
(***************************************************************************)

(* The rows r and s differ in nothing but their state. *)
SameData(r, s) ==
    /\ r.gen = s.gen
    /\ r.consumed = s.consumed
    /\ r.pred = s.pred
    /\ r.idle = s.idle
    /\ r.passwordTries = s.passwordTries
    /\ r.otpTries = s.otpTries

(* lock_idle changes the state only, and only of an idle active session. *)
LEMMA LockIdleEffect ==
    ASSUME NEW s \in SessionRows, NEW t \in Nat
    PROVE  LET r == LockIdle(s, t)
           IN  /\ r \in SessionRows
               /\ SameData(r, s)
               /\ r.state \in {s.state, "locked"}
               /\ r.state = "active" => s.state = "active" /\ (Staff => t < s.idle)
               /\ s.state \in Closed => r = s
<1> DEFINE r == LockIdle(s, t)
<1>1. CASE Staff /\ s.state = "active" /\ s.idle <= t
  <2>1. r = [s EXCEPT !.state = "locked"]
    BY <1>1 DEF LockIdle
  <2>2. r.state = "locked"
    BY <2>1 DEF SessionRows
  <2> QED
    BY <1>1, <2>1, <2>2 DEF SameData, SessionRows, Open, Closed
<1>2. CASE ~(Staff /\ s.state = "active" /\ s.idle <= t)
  <2>1. r = s
    BY <1>2 DEF LockIdle
  <2>2. s.idle \in Nat
    BY DEF SessionRows
  <2> QED
    BY <1>2, <2>1, <2>2 DEF SameData, SessionRows, Closed
<1> QED
  BY <1>1, <1>2

(* A session that binding accepts is open. *)
LEMMA BindingEffect ==
    ASSUME NEW s \in SessionRows, NEW t \in Nat
    PROVE  /\ Binding(s, t) \in {"AUTH_SESSION_EXPIRED", "AUTH_SESSION_REVOKED", "OK"}
           /\ Binding(s, t) = "OK" => s.state \in Open
BY DEF Binding, SessionRows, Open, Closed

(* What classify answers; "reused" only for a spent token that is not the
   predecessor. *)
LEMMA ClassifiedEffect ==
    ASSUME NEW s \in SessionRows, NEW token \in Token, NEW t \in Nat
    PROVE  LET kind == Classified(s, token, t)
           IN  /\ kind \in Codes
               /\ kind = "AUTH_REFRESH_REUSED" => token # s.pred.gen
BY DEF Classified, Codes, Terminal

(* rotate takes the row to the next generation. *)
LEMMA RotatedEffect ==
    ASSUME NEW s \in SessionRows, NEW t \in Nat, NEW idle \in Nat
    PROVE  LET r == Rotated(s, t, idle)
           IN  /\ r \in SessionRows
               /\ r.state = "active"
               /\ r.gen = s.gen + 1
               /\ r.consumed = Append(s.consumed, s.gen)
               /\ r.pred.gen = s.gen
               /\ r.idle = idle
               /\ r.passwordTries = s.passwordTries
               /\ r.otpTries = s.otpTries
<1>1. Append(s.consumed, s.gen) \in Seq(Nat)
  BY DEF SessionRows
<1>2. /\ t + RaceGrace \in Nat
      /\ Earlier(t + RecoveryWindow, Lifetime) \in Nat
  BY TimesAssumption DEF Earlier
<1>3. s.gen + 1 \in Nat /\ s.gen \in Token
  BY DEF SessionRows, Token
<1> QED
  BY <1>1, <1>2, <1>3 DEF Rotated, SessionRows, Open

(* Closing changes the state only. *)
LEMMA RevokedEffect ==
    ASSUME NEW s \in SessionRows
    PROVE  /\ Revoked(s) \in SessionRows
           /\ SameData(Revoked(s), s)
           /\ Revoked(s).state = "revoked"
BY DEF Revoked, SameData, SessionRows, Closed

(***************************************************************************)
(* What one handler can do to the row.                                     *)
(***************************************************************************)

(* At most the state changes, and never towards "active" or out of Closed. *)
Held(r) ==
    /\ SameData(r, session)
    /\ r.state = "active" => session.state = "active"
    /\ session.state \in Closed => r.state \in Closed

(* The session is active at t, also by its idle deadline. *)
Alive(t) == session.state = "active" /\ (Staff => t < session.idle)

(* r is the next generation of the session, with the idle deadline given. *)
NextGeneration(r, idle) ==
    /\ r.state = "active"
    /\ r.gen = session.gen + 1
    /\ r.consumed = Append(session.consumed, session.gen)
    /\ r.pred.gen = session.gen
    /\ r.idle = idle
    /\ r.passwordTries = session.passwordTries
    /\ r.otpTries = session.otpTries

(* r is the locked session after one more wrong guess. *)
Guessed(r) ==
    /\ session.state \in Open /\ r.state = "locked"
    /\ ~Exhausted(session)
    /\ r.gen = session.gen /\ r.consumed = session.consumed
    /\ r.pred = session.pred /\ r.idle = session.idle

(* An answer changes the call it answers, and nothing else of the browser. *)
LEMMA AnswerEffect ==
    ASSUME TypeOK, NEW c \in Calls, NEW r \in SessionRows, NEW code \in Codes,
           Answer(c, r, code), presence' \in Nat
    PROVE  /\ TypeOK'
           /\ session' = r
           /\ calls'[c].phase = "answered" /\ calls'[c].code = code
           /\ calls'[c].gen = r.gen
           /\ calls'[c].op = calls[c].op /\ calls'[c].token = calls[c].token
           /\ calls'[c].at = calls[c].at
           /\ \A d \in Calls \ {c} : calls'[d] = calls[d]
<1>1. /\ session' = r
      /\ calls' = [calls EXCEPT ![c].phase = "answered", ![c].code = code, ![c].gen = r.gen]
      /\ now' = now /\ jar' = jar /\ access' = access
  BY DEF Answer
<1>2. r.gen \in Token
  BY DEF SessionRows, Token
<1>3. calls[c] \in CallRows /\ calls \in [Calls -> CallRows]
  BY DEF TypeOK
<1>4. [calls[c] EXCEPT !.phase = "answered", !.code = code, !.gen = r.gen] \in CallRows
  BY <1>2, <1>3 DEF CallRows
<1>5. calls' = [calls EXCEPT ![c] =
          [calls[c] EXCEPT !.phase = "answered", !.code = code, !.gen = r.gen]]
  BY <1>1, <1>3
<1>6. calls' \in [Calls -> CallRows]
  BY <1>3, <1>4, <1>5
<1>7. calls'[c] = [calls[c] EXCEPT !.phase = "answered", !.code = code, !.gen = r.gen]
  BY <1>3, <1>5
<1>8. \A d \in Calls \ {c} : calls'[d] = calls[d]
  BY <1>3, <1>5
<1>9. TypeOK'
  BY <1>1, <1>6 DEF TypeOK
<1> QED
  BY <1>1, <1>3, <1>7, <1>8, <1>9 DEF CallRows

(* refresh holds the row or, for the current token of an active session,
   turns it; only a token that is neither current nor the predecessor is
   taken for reused. *)
LEMMA RefreshCases ==
    ASSUME TypeOK, NEW c \in Calls, Refresh(c)
    PROVE  \E r \in SessionRows, code \in Codes :
              /\ Answer(c, r, code) /\ presence' = presence
              /\ Runs(c, "refresh")
              /\ code = "OK" => Alive(calls[c].at)
              /\ code = "AUTH_REFRESH_REUSED" =>
                    calls[c].token # session.gen /\ calls[c].token # session.pred.gen
              /\ \/ Held(r)
                 \/ /\ code = "OK" /\ calls[c].token = session.gen
                    /\ NextGeneration(r, session.idle)
<1> DEFINE t == calls[c].at
           token == calls[c].token
           s == LockIdle(session, t)
           kind == Classified(s, token, t)
<1>1. session \in SessionRows /\ t \in Nat /\ token \in Token /\ session.idle \in Nat
  BY DEF TypeOK, CallRows, SessionRows
<1>2. /\ s \in SessionRows /\ SameData(s, session)
      /\ s.state \in {session.state, "locked"}
      /\ s.state = "active" => Alive(t)
      /\ session.state \in Closed => s = session
  BY <1>1, LockIdleEffect DEF Alive
<1>3. /\ Binding(session, t) \in Codes \ {"AUTH_REFRESH_REUSED"}
      /\ Binding(session, t) = "OK" => session.state \in Open
  BY <1>1, BindingEffect DEF Codes, Terminal
<1>4. kind \in Codes /\ (kind = "AUTH_REFRESH_REUSED" => token # s.pred.gen)
  BY <1>1, <1>2, ClassifiedEffect
<1>5. Runs(c, "refresh") /\ presence' = presence
  BY DEF Refresh
<1>6. Held(session) /\ Held(s)
  BY <1>1, <1>2 DEF Held, SameData, Open, Closed
<1>7. CASE Binding(session, t) # "OK" /\ Answer(c, session, Binding(session, t))
  BY <1>1, <1>3, <1>5, <1>6, <1>7
<1>8. CASE s.state = "locked" /\ Answer(c, s, "AUTH_IDLE_LOCKED")
  BY <1>2, <1>5, <1>6, <1>8 DEF Codes
<1>9. CASE /\ Binding(session, t) = "OK" /\ s.state # "locked" /\ token = s.gen
           /\ IF Len(s.consumed) >= HistoryLimit
              THEN Answer(c, s, "AUTH_SESSION_HISTORY_FULL")
              ELSE Answer(c, Rotated(s, t, s.idle), "OK")
  <2>1. s.state = "active" /\ token = session.gen /\ s.idle = session.idle
    BY <1>2, <1>3, <1>9 DEF Open, SameData
  <2>2. CASE Answer(c, s, "AUTH_SESSION_HISTORY_FULL")
    BY <1>2, <1>5, <1>6, <2>2 DEF Codes
  <2>3. CASE Answer(c, Rotated(s, t, s.idle), "OK")
    <3>1. /\ Rotated(s, t, s.idle) \in SessionRows
          /\ NextGeneration(Rotated(s, t, s.idle), session.idle)
      <4> HIDE DEF s, t
      <4>1. s \in SessionRows /\ t \in Nat /\ s.idle \in Nat
        BY <1>1, <1>2, <2>1
      <4>2. PICK r : r = Rotated(s, t, s.idle)
        OBVIOUS
      <4>3. /\ r \in SessionRows /\ r.state = "active" /\ r.gen = s.gen + 1
            /\ r.consumed = Append(s.consumed, s.gen) /\ r.pred.gen = s.gen
            /\ r.idle = s.idle
            /\ r.passwordTries = s.passwordTries /\ r.otpTries = s.otpTries
        BY <4>1, <4>2, RotatedEffect
      <4>4. NextGeneration(r, session.idle)
        BY <1>2, <4>3 DEF NextGeneration, SameData
      <4> QED
        BY <4>2, <4>3, <4>4
    <3> QED
      BY <1>2, <1>5, <2>1, <2>3, <3>1 DEF Codes
  <2> QED
    BY <1>9, <2>2, <2>3
<1>10. CASE /\ Binding(session, t) = "OK" /\ s.state # "locked" /\ token # s.gen
            /\ Answer(c, IF kind = "AUTH_REFRESH_REUSED" THEN Revoked(s) ELSE s, kind)
  <2>1. s.state = "active" /\ Alive(t)
    BY <1>2, <1>3, <1>10 DEF Open
  <2>2. Revoked(s) \in SessionRows /\ Held(Revoked(s))
    BY <1>2, RevokedEffect DEF Held, SameData, Closed
  <2>3. token # session.gen /\ s.pred.gen = session.pred.gen
    BY <1>2, <1>10 DEF SameData
  <2>4. PICK r \in SessionRows : Answer(c, r, kind) /\ Held(r)
    BY <1>2, <1>6, <1>10, <2>2
  <2> QED
    BY <1>4, <1>5, <2>1, <2>3, <2>4
<1> QED
  BY <1>7, <1>8, <1>9, <1>10 DEF Refresh
(* unlock holds the row, counts a wrong guess, or turns a row whose guesses
   are not exhausted and renews its idle deadline. *)
LEMMA UnlockCases ==
    ASSUME TypeOK, NEW c \in Calls,
           NEW password \in BOOLEAN, NEW otp \in BOOLEAN, Unlock(c, password, otp)
    PROVE  \E r \in SessionRows, code \in Codes \ {"AUTH_REFRESH_REUSED"} :
              /\ Answer(c, r, code) /\ presence' \in Nat
              /\ Runs(c, "unlock")
              /\ \/ Held(r) /\ code # "OK" /\ presence' = presence
                 \/ Guessed(r) /\ code # "OK" /\ presence' = presence
                 \/ /\ code = "OK" /\ calls[c].token = session.gen
                    /\ session.state \in Open /\ ~Exhausted(session)
                    /\ NextGeneration(r, calls[c].at + IdleLimit)
                    /\ presence' = Later(presence, calls[c].at)
<1> DEFINE t == calls[c].at
           s == LockIdle(session, t)
           Good == Codes \ {"AUTH_REFRESH_REUSED"}
<1>1. /\ session \in SessionRows /\ t \in Nat /\ presence \in Nat
      /\ Later(presence, t) \in Nat /\ t + IdleLimit \in Nat
  BY TimesAssumption DEF TypeOK, CallRows, Later
<1>2. /\ s \in SessionRows /\ SameData(s, session)
      /\ s.state \in {session.state, "locked"}
      /\ s.state = "active" => Alive(t)
      /\ session.state \in Closed => s = session
  BY <1>1, LockIdleEffect DEF Alive
<1>3. /\ Binding(session, t) \in Good
      /\ Binding(session, t) = "OK" => session.state \in Open
  BY <1>1, BindingEffect DEF Codes, Terminal
<1>4. Held(session) /\ Held(s)
  BY <1>1, <1>2 DEF Held, SameData, Open, Closed, Alive
<1>5. Runs(c, "unlock")
  BY DEF Unlock
<1>6. {"AUTH_TOKEN_INVALID", "REAUTH_ATTEMPTS_EXHAUSTED", "REAUTH_PASSWORD_INVALID",
       "REAUTH_OTP_INVALID", "AUTH_SESSION_HISTORY_FULL", "OK"} \subseteq Good
  BY DEF Codes, Terminal
<1>7. CASE Binding(session, t) # "OK" /\ Answer(c, session, Binding(session, t))
           /\ UNCHANGED presence
  BY <1>1, <1>3, <1>4, <1>5, <1>7
<1>8. CASE \E code \in {"AUTH_TOKEN_INVALID", "REAUTH_ATTEMPTS_EXHAUSTED"} :
              Answer(c, s, code) /\ UNCHANGED presence
  BY <1>1, <1>2, <1>4, <1>5, <1>6, <1>8
<1>9. CASE /\ Binding(session, t) = "OK" /\ ~Exhausted(s) /\ s.state = "locked"
           /\ calls[c].token = s.gen
           /\ \/ /\ ~password
                 /\ Answer(c, [s EXCEPT !.passwordTries = @ + 1], "REAUTH_PASSWORD_INVALID")
                 /\ UNCHANGED presence
              \/ /\ password /\ TwoFactor /\ ~otp
                 /\ Answer(c, [s EXCEPT !.otpTries = @ + 1], "REAUTH_OTP_INVALID")
                 /\ UNCHANGED presence
              \/ /\ password /\ (TwoFactor => otp)
                 /\ IF Len(s.consumed) >= HistoryLimit
                    THEN Answer(c, session, "AUTH_SESSION_HISTORY_FULL") /\ UNCHANGED presence
                    ELSE /\ Answer(c, Rotated(s, t, t + IdleLimit), "OK")
                         /\ presence' = Later(presence, t)
  <2>1. ~Exhausted(session) /\ session.state \in Open /\ calls[c].token = session.gen
    BY <1>2, <1>3, <1>9 DEF Exhausted, SameData
  <2>2. /\ s.passwordTries + 1 \in 0..MaxAttempts
        /\ s.otpTries + 1 \in 0..MaxAttempts
    <3>1. s.passwordTries \in 0..MaxAttempts /\ s.otpTries \in 0..MaxAttempts
      BY <1>2 DEF SessionRows
    <3>2. s.passwordTries < MaxAttempts /\ s.otpTries < MaxAttempts
      BY <1>9, <3>1, TimesAssumption DEF Exhausted
    <3> QED
      BY <3>1, <3>2, TimesAssumption
  <2>3. CASE Answer(c, [s EXCEPT !.passwordTries = @ + 1], "REAUTH_PASSWORD_INVALID")
             /\ UNCHANGED presence
    <3> DEFINE r == [s EXCEPT !.passwordTries = @ + 1]
    <3>1. r \in SessionRows /\ Guessed(r)
      BY <1>2, <1>9, <2>1, <2>2 DEF SessionRows, Guessed, SameData
    <3> QED
      BY <1>1, <1>5, <1>6, <2>3, <3>1
  <2>4. CASE Answer(c, [s EXCEPT !.otpTries = @ + 1], "REAUTH_OTP_INVALID")
             /\ UNCHANGED presence
    <3> DEFINE r == [s EXCEPT !.otpTries = @ + 1]
    <3>1. r \in SessionRows /\ Guessed(r)
      BY <1>2, <1>9, <2>1, <2>2 DEF SessionRows, Guessed, SameData
    <3> QED
      BY <1>1, <1>5, <1>6, <2>4, <3>1
  <2>5. CASE Answer(c, session, "AUTH_SESSION_HISTORY_FULL") /\ UNCHANGED presence
    BY <1>1, <1>4, <1>5, <1>6, <2>5
  <2>6. CASE /\ Answer(c, Rotated(s, t, t + IdleLimit), "OK")
             /\ presence' = Later(presence, t)
    <3>0. PICK idle \in Nat : idle = t + IdleLimit
      BY <1>1
    <3>1. PICK r : r = Rotated(s, t, idle)
      OBVIOUS
    <3>2. /\ r \in SessionRows /\ r.state = "active" /\ r.gen = s.gen + 1
          /\ r.consumed = Append(s.consumed, s.gen) /\ r.pred.gen = s.gen
          /\ r.idle = t + IdleLimit
          /\ r.passwordTries = s.passwordTries /\ r.otpTries = s.otpTries
      <4> HIDE DEF s, t
      <4>1. s \in SessionRows /\ t \in Nat
        BY <1>1, <1>2
      <4>2. /\ r \in SessionRows /\ r.state = "active" /\ r.gen = s.gen + 1
            /\ r.consumed = Append(s.consumed, s.gen) /\ r.pred.gen = s.gen
            /\ r.idle = idle
            /\ r.passwordTries = s.passwordTries /\ r.otpTries = s.otpTries
        BY <3>1, <4>1, RotatedEffect
      <4> QED
        BY <3>0, <4>2
    <3>3. NextGeneration(r, t + IdleLimit)
      BY <1>2, <3>2 DEF NextGeneration, SameData
    <3> QED
      BY <1>1, <1>5, <1>6, <2>1, <2>6, <3>0, <3>1, <3>2, <3>3
  <2> QED
    BY <1>9, <2>3, <2>4, <2>5, <2>6
<1> QED
  BY <1>3, <1>7, <1>8, <1>9 DEF Unlock

(* activity holds the row or renews the idle deadline of an active one. *)
LEMMA ActivityCases ==
    ASSUME TypeOK, NEW c \in Calls, Activity(c)
    PROVE  \E r \in SessionRows, code \in Codes \ {"AUTH_REFRESH_REUSED"} :
              /\ Answer(c, r, code) /\ presence' \in Nat
              /\ Runs(c, "activity")
              /\ \/ Held(r) /\ code # "OK" /\ presence' = presence
                 \/ /\ code = "OK" /\ session.state = "active"
                    /\ SameData([r EXCEPT !.idle = session.idle], session)
                    /\ r.state = "active" /\ r.idle = calls[c].at + IdleLimit
                    /\ presence' = Later(presence, calls[c].at)
<1> DEFINE t == calls[c].at
           s == LockIdle(session, t)
           Good == Codes \ {"AUTH_REFRESH_REUSED"}
<1>1. /\ session \in SessionRows /\ t \in Nat /\ presence \in Nat
      /\ Later(presence, t) \in Nat /\ t + IdleLimit \in Nat
  BY TimesAssumption DEF TypeOK, CallRows, Later
<1>2. /\ s \in SessionRows /\ SameData(s, session)
      /\ s.state \in {session.state, "locked"}
      /\ s.state = "active" => Alive(t)
      /\ session.state \in Closed => s = session
  BY <1>1, LockIdleEffect DEF Alive
<1>3. /\ Binding(session, t) \in Good
      /\ Binding(session, t) = "OK" => session.state \in Open
  BY <1>1, BindingEffect DEF Codes, Terminal
<1>4. Held(session) /\ Held(s)
  BY <1>1, <1>2 DEF Held, SameData, Open, Closed, Alive
<1>5. Runs(c, "activity") /\ {"AUTH_IDLE_LOCKED", "OK"} \subseteq Good
  BY DEF Activity, Codes
<1>6. CASE Binding(session, t) # "OK" /\ Answer(c, session, Binding(session, t))
           /\ UNCHANGED presence
  BY <1>1, <1>3, <1>4, <1>5, <1>6
<1>7. CASE Answer(c, s, "AUTH_IDLE_LOCKED") /\ UNCHANGED presence
  BY <1>1, <1>2, <1>4, <1>5, <1>7
<1>8. CASE /\ Binding(session, t) = "OK" /\ s.state # "locked"
           /\ Answer(c, [s EXCEPT !.idle = t + IdleLimit], "OK")
           /\ presence' = Later(presence, t)
  <2> DEFINE r == [s EXCEPT !.idle = t + IdleLimit]
  <2>1. s.state = "active" /\ session.state = "active"
    BY <1>2, <1>3, <1>8 DEF Open, Alive
  <2>2. r \in SessionRows /\ r.state = "active" /\ r.idle = t + IdleLimit
    BY <1>1, <1>2, <2>1 DEF SessionRows
  <2>3. SameData([r EXCEPT !.idle = session.idle], session)
    BY <1>1, <1>2 DEF SessionRows, SameData
  <2> QED
    BY <1>1, <1>5, <1>8, <2>1, <2>2, <2>3
<1> QED
  BY <1>6, <1>7, <1>8 DEF Activity

(* logout holds the row. *)
LEMMA LogoutCases ==
    ASSUME TypeOK, NEW c \in Calls, Logout(c)
    PROVE  \E r \in SessionRows, code \in Codes \ {"AUTH_REFRESH_REUSED"} :
              /\ Answer(c, r, code) /\ presence' = presence
              /\ Runs(c, "logout") /\ Held(r)
<1>1. session \in SessionRows /\ presence \in Nat
  BY DEF TypeOK
<1>2. /\ Revoked(session) \in SessionRows
      /\ Held(Revoked(session)) /\ Held(session)
  BY <1>1, RevokedEffect DEF Held, SameData, Closed
<1>3. {"OK", "AUTH_TOKEN_INVALID"} \subseteq Codes \ {"AUTH_REFRESH_REUSED"}
  BY DEF Codes, Terminal
<1> QED
  BY <1>1, <1>2, <1>3 DEF Logout
(* Admission holds the row and refuses or admits the call. *)
LEMMA AdmitEffect ==
    ASSUME TypeOK, NEW c \in Calls, Admit(c)
    PROVE  /\ TypeOK'
           /\ Held(session')
           /\ UNCHANGED <<now, presence, jar, access>>
           /\ calls'[c].phase \in {"refused", "admitted"}
           /\ calls'[c].op = calls[c].op /\ calls'[c].token = calls[c].token
           /\ calls'[c].gen = calls[c].gen
           /\ calls'[c].code = "AUTH_REFRESH_REUSED" => calls[c].code = "AUTH_REFRESH_REUSED"
           /\ \A d \in Calls \ {c} : calls'[d] = calls[d]
<1> DEFINE t == calls[c].at
           s == LockIdle(session, t)
<1>1. /\ session \in SessionRows /\ t \in Nat
      /\ calls \in [Calls -> CallRows] /\ calls[c] \in CallRows
  BY DEF TypeOK, CallRows
<1>2. /\ s \in SessionRows /\ SameData(s, session)
      /\ s.state \in {session.state, "locked"}
      /\ session.state \in Closed => s = session
  BY <1>1, LockIdleEffect
<1>3. Held(session) /\ Held(s)
  BY <1>1, <1>2 DEF Held, SameData, Open, Closed
<1>4. /\ Binding(session, t) \in Codes \ {"AUTH_REFRESH_REUSED"}
      /\ {"AUTH_TOKEN_INVALID", "AUTH_IDLE_LOCKED"} \subseteq Codes
  BY <1>1, BindingEffect DEF Codes, Terminal
<1>5. UNCHANGED <<now, presence, jar, access>>
  BY DEF Admit
<1>6. \/ \E row \in {session, s},
             code \in {Binding(session, t), "AUTH_TOKEN_INVALID", "AUTH_IDLE_LOCKED"} :
            /\ session' = row
            /\ calls' = [calls EXCEPT ![c].phase = "refused", ![c].code = code]
      \/ session' = s /\ calls' = [calls EXCEPT ![c].phase = "admitted"]
  BY DEF Admit
<1>7. CASE \E row \in {session, s},
              code \in {Binding(session, t), "AUTH_TOKEN_INVALID", "AUTH_IDLE_LOCKED"} :
             /\ session' = row
             /\ calls' = [calls EXCEPT ![c].phase = "refused", ![c].code = code]
  <2>1. PICK row \in {session, s},
             code \in {Binding(session, t), "AUTH_TOKEN_INVALID", "AUTH_IDLE_LOCKED"} :
            /\ session' = row
            /\ calls' = [calls EXCEPT ![c].phase = "refused", ![c].code = code]
    BY <1>7
  <2>2. /\ row \in SessionRows /\ Held(row)
        /\ code \in Codes /\ code # "AUTH_REFRESH_REUSED"
    BY <1>1, <1>2, <1>3, <1>4
  <2>3. [calls[c] EXCEPT !.phase = "refused", !.code = code] \in CallRows
    BY <1>1, <2>2 DEF CallRows
  <2>4. calls' = [calls EXCEPT ![c] = [calls[c] EXCEPT !.phase = "refused", !.code = code]]
    BY <1>1, <2>1
  <2>5. TypeOK'
    BY <1>1, <1>5, <2>1, <2>2, <2>3, <2>4 DEF TypeOK
  <2>6. calls'[c] = [calls[c] EXCEPT !.phase = "refused", !.code = code]
    BY <1>1, <2>4
  <2>7. \A d \in Calls \ {c} : calls'[d] = calls[d]
    BY <1>1, <2>4
  <2> QED
    BY <1>1, <1>5, <2>1, <2>2, <2>5, <2>6, <2>7 DEF CallRows
<1>8. CASE session' = s /\ calls' = [calls EXCEPT ![c].phase = "admitted"]
  <2>1. [calls[c] EXCEPT !.phase = "admitted"] \in CallRows
    BY <1>1 DEF CallRows
  <2>2. calls' = [calls EXCEPT ![c] = [calls[c] EXCEPT !.phase = "admitted"]]
    BY <1>1, <1>8
  <2>3. TypeOK'
    BY <1>1, <1>2, <1>5, <1>8, <2>1, <2>2 DEF TypeOK
  <2>4. calls'[c] = [calls[c] EXCEPT !.phase = "admitted"]
    BY <1>1, <2>2
  <2>5. \A d \in Calls \ {c} : calls'[d] = calls[d]
    BY <1>1, <2>2
  <2> QED
    BY <1>1, <1>3, <1>5, <1>8, <2>3, <2>4, <2>5 DEF CallRows
<1> QED
  BY <1>6, <1>7, <1>8

(***************************************************************************)
(* Steps of the browser, the network and the clock.                        *)
(***************************************************************************)
Outside ==
    \/ \E c \in Calls : \/ \E op \in Operations : Send(c, op)
                        \/ Arrive(c) \/ Lose(c) \/ Deliver(c)
    \/ Reload \/ Tick

(* What such a step may make of a call: unsettle it, never answer it. *)
Carried(c) ==
    /\ calls'[c].phase = "answered" => calls'[c] = calls[c]
    /\ calls'[c].token \in {calls[c].token, jar, None}
    /\ calls'[c].gen \in {calls[c].gen, None}
    /\ calls'[c].code \in {calls[c].code, "OK"}

(* Where the cookies come from: they stay, are cleared, or are those of an
   answered refresh or unlock. *)
JarKept ==
    \/ jar' \in {jar, None}
    \/ \E c \in Calls : /\ jar' = calls[c].gen
                        /\ calls[c].phase = "answered" /\ calls[c].code = "OK"
                        /\ calls[c].op \in {"refresh", "unlock"}

(* They leave the session and its presence alone. *)
LEMMA OutsideEffect ==
    ASSUME TypeOK, Outside
    PROVE  /\ TypeOK'
           /\ UNCHANGED <<session, presence>>
           /\ JarKept
           /\ \A c \in Calls : Carried(c)
<1>1. /\ calls \in [Calls -> CallRows] /\ session \in SessionRows
      /\ now \in Nat /\ presence \in Nat /\ jar \in Token /\ access \in Token
  BY DEF TypeOK
<1>2. /\ NoCall \in CallRows /\ NoCall.phase = "free" /\ NoCall.token = None
      /\ NoCall.gen = None /\ NoCall.code = "OK"
      /\ None \in Token
  BY DEF NoCall, CallRows, Token, Codes, Terminal
<1>3. ASSUME NEW c \in Calls, NEW row \in CallRows, calls' = [calls EXCEPT ![c] = row],
             row.phase # "answered",
             row.token \in {calls[c].token, jar, None},
             row.gen \in {calls[c].gen, None},
             row.code \in {calls[c].code, "OK"}
      PROVE  /\ calls' \in [Calls -> CallRows]
             /\ \A d \in Calls : Carried(d)
  <2>1. \A d \in Calls : calls'[d] = IF d = c THEN row ELSE calls[d]
    BY <1>1, <1>3
  <2>2. calls' \in [Calls -> CallRows]
    BY <1>1, <1>3
  <2> QED
    BY <1>3, <2>1, <2>2 DEF Carried
<1>4. ASSUME NEW c \in Calls, calls' = [calls EXCEPT ![c] = NoCall]
      PROVE  /\ calls' \in [Calls -> CallRows]
             /\ \A d \in Calls : Carried(d)
  BY <1>2, <1>3, <1>4
<1>5. ASSUME NEW c \in Calls, NEW op \in Operations, Send(c, op)
      PROVE  /\ TypeOK' /\ UNCHANGED <<session, presence>> /\ JarKept
             /\ \A d \in Calls : Carried(d)
  <2> DEFINE row == [NoCall EXCEPT !.op = op, !.phase = "sent", !.token = jar, !.exp = access]
  <2>1. /\ row \in CallRows /\ row.phase = "sent" /\ row.token = jar
        /\ row.gen = None /\ row.code = "OK"
    BY <1>1, <1>2, <1>5 DEF CallRows, NoCall, Operations
  <2>2. /\ calls' \in [Calls -> CallRows]
        /\ \A d \in Calls : Carried(d)
    <3>1. calls' = [calls EXCEPT ![c] = row]
      BY <1>5 DEF Send
    <3> HIDE DEF row
    <3> QED
      BY <1>3, <2>1, <3>1
  <2> QED
    BY <1>1, <1>5, <2>2 DEF Send, TypeOK, JarKept
<1>6. ASSUME NEW c \in Calls, Arrive(c)
      PROVE  /\ TypeOK' /\ UNCHANGED <<session, presence>> /\ JarKept
             /\ \A d \in Calls : Carried(d)
  <2>1. PICK phase \in {"entering", "running"} :
            calls' = [calls EXCEPT ![c].at = now, ![c].phase = phase]
    BY <1>6 DEF Arrive
  <2> DEFINE row == [calls[c] EXCEPT !.at = now, !.phase = phase]
  <2>2. /\ row \in CallRows /\ row.phase # "answered" /\ row.token = calls[c].token
        /\ row.gen = calls[c].gen /\ row.code = calls[c].code
    BY <1>1 DEF CallRows
  <2>3. /\ calls' \in [Calls -> CallRows]
        /\ \A d \in Calls : Carried(d)
    <3>1. calls' = [calls EXCEPT ![c] = row]
      BY <1>1, <2>1
    <3> HIDE DEF row
    <3> QED
      BY <1>3, <2>2, <3>1
  <2> QED
    BY <1>1, <1>6, <2>3 DEF Arrive, TypeOK, JarKept
<1>7. ASSUME NEW c \in Calls, Lose(c)
      PROVE  /\ TypeOK' /\ UNCHANGED <<session, presence>> /\ JarKept
             /\ \A d \in Calls : Carried(d)
  BY <1>1, <1>4, <1>7 DEF Lose, TypeOK, JarKept
<1>8. ASSUME NEW c \in Calls, Deliver(c)
      PROVE  /\ TypeOK' /\ UNCHANGED <<session, presence>> /\ JarKept
             /\ \A d \in Calls : Carried(d)
  <2>1. /\ calls' = [calls EXCEPT ![c] = NoCall]
        /\ UNCHANGED <<now, session, presence>>
    BY <1>8 DEF Deliver
  <2>2. JarKept
    BY <1>8 DEF Deliver, JarKept
  <2>3. calls[c].gen \in Token /\ Earlier(calls[c].at + AccessLife, Lifetime) \in Token
    BY <1>1, TimesAssumption DEF CallRows, Earlier, Token
  <2>4. jar' \in Token /\ access' \in Token
    BY <1>1, <1>2, <1>8, <2>3 DEF Deliver
  <2> QED
    BY <1>1, <1>4, <2>1, <2>2, <2>4 DEF TypeOK
<1>9. ASSUME Reload \/ Tick
      PROVE  /\ TypeOK' /\ UNCHANGED <<session, presence>> /\ JarKept
             /\ \A d \in Calls : Carried(d)
  BY <1>1, <1>2, <1>9 DEF Reload, Tick, TypeOK, JarKept, Carried
<1> QED
  BY <1>5, <1>6, <1>7, <1>8, <1>9 DEF Outside
(***************************************************************************)
(* Every step, seen from the row and from the tokens.                      *)
(***************************************************************************)

(* The row is held, counts a wrong guess, turns, or has its deadline renewed. *)
RowMove ==
    \/ Held(session') /\ presence' = presence
    \/ Guessed(session') /\ presence' = presence
    \/ /\ session.state = "active" /\ NextGeneration(session', session.idle)
       /\ presence' = presence
    \/ \E t \in Nat : /\ session.state \in Open /\ ~Exhausted(session)
                      /\ NextGeneration(session', t + IdleLimit)
                      /\ presence' = Later(presence, t)
    \/ \E t \in Nat : /\ session.state = "active" /\ session'.state = "active"
                      /\ SameData([session' EXCEPT !.idle = session.idle], session)
                      /\ session'.idle = t + IdleLimit
                      /\ presence' = Later(presence, t)

(* Tokens move from answers to the jar and from the jar to calls. *)
TokenMove ==
    /\ jar' \in {jar, None} \/ \E c \in Calls : jar' = calls[c].gen
    /\ \A c \in Calls : /\ calls'[c].token \in {calls[c].token, jar, None}
                        /\ calls'[c].gen \in {calls[c].gen, None, session'.gen}

(* Every step keeps the types and is such a move. *)
LEMMA StepEffect ==
    ASSUME TypeOK, [Next]_vars
    PROVE  TypeOK' /\ RowMove /\ TokenMove
<1>1. /\ session \in SessionRows /\ presence \in Nat /\ calls \in [Calls -> CallRows]
      /\ now \in Nat /\ jar \in Token /\ access \in Token
  BY DEF TypeOK
<1>2. Held(session)
  BY <1>1 DEF Held, SameData
<1>3. ASSUME NEW c \in Calls, NEW r \in SessionRows, NEW code \in Codes,
             Answer(c, r, code), presence' \in Nat
      PROVE  TypeOK' /\ TokenMove /\ session' = r
  <2>1. /\ TypeOK' /\ session' = r /\ jar' = jar
        /\ calls'[c].gen = r.gen /\ calls'[c].token = calls[c].token
        /\ \A d \in Calls \ {c} : calls'[d] = calls[d]
    BY <1>3, AnswerEffect DEF Answer
  <2> QED
    BY <2>1 DEF TokenMove
<1>4. ASSUME NEW c \in Calls, Refresh(c) PROVE TypeOK' /\ RowMove /\ TokenMove
  <2>1. PICK r \in SessionRows, code \in Codes :
            /\ Answer(c, r, code) /\ presence' = presence
            /\ code = "OK" => Alive(calls[c].at)
            /\ \/ Held(r)
               \/ code = "OK" /\ NextGeneration(r, session.idle)
    BY <1>4, RefreshCases
  <2> QED
    BY <1>1, <1>3, <2>1 DEF RowMove, Alive
<1>5. ASSUME NEW c \in Calls, NEW password \in BOOLEAN, NEW otp \in BOOLEAN,
             Unlock(c, password, otp)
      PROVE  TypeOK' /\ RowMove /\ TokenMove
  <2>1. PICK r \in SessionRows, code \in Codes \ {"AUTH_REFRESH_REUSED"} :
            /\ Answer(c, r, code) /\ presence' \in Nat
            /\ \/ Held(r) /\ code # "OK" /\ presence' = presence
               \/ Guessed(r) /\ code # "OK" /\ presence' = presence
               \/ /\ session.state \in Open /\ ~Exhausted(session)
                  /\ NextGeneration(r, calls[c].at + IdleLimit)
                  /\ presence' = Later(presence, calls[c].at)
    BY <1>5, UnlockCases
  <2>2. calls[c].at \in Nat
    BY <1>1 DEF CallRows
  <2> QED
    BY <1>3, <2>1, <2>2 DEF RowMove
<1>6. ASSUME NEW c \in Calls, Activity(c) PROVE TypeOK' /\ RowMove /\ TokenMove
  <2>1. PICK r \in SessionRows, code \in Codes \ {"AUTH_REFRESH_REUSED"} :
            /\ Answer(c, r, code) /\ presence' \in Nat
            /\ \/ Held(r) /\ code # "OK" /\ presence' = presence
               \/ /\ code = "OK" /\ session.state = "active"
                  /\ SameData([r EXCEPT !.idle = session.idle], session)
                  /\ r.state = "active" /\ r.idle = calls[c].at + IdleLimit
                  /\ presence' = Later(presence, calls[c].at)
    BY <1>6, ActivityCases
  <2>2. calls[c].at \in Nat
    BY <1>1 DEF CallRows
  <2> QED
    BY <1>3, <2>1, <2>2 DEF RowMove
<1>7. ASSUME NEW c \in Calls, Logout(c) PROVE TypeOK' /\ RowMove /\ TokenMove
  <2>1. PICK r \in SessionRows, code \in Codes \ {"AUTH_REFRESH_REUSED"} :
            Answer(c, r, code) /\ presence' = presence /\ Held(r)
    BY <1>7, LogoutCases
  <2> QED
    BY <1>1, <1>3, <2>1 DEF RowMove
<1>8. ASSUME NEW c \in Calls, Admit(c) PROVE TypeOK' /\ RowMove /\ TokenMove
  BY <1>8, AdmitEffect DEF RowMove, TokenMove
<1>9. ASSUME Outside PROVE TypeOK' /\ RowMove /\ TokenMove
  <2>1. /\ TypeOK' /\ session' = session /\ presence' = presence /\ JarKept
        /\ \A c \in Calls : Carried(c)
    BY <1>9, OutsideEffect
  <2>2. TokenMove
    BY <2>1 DEF TokenMove, JarKept, Carried
  <2> QED
    BY <1>2, <2>1, <2>2 DEF RowMove
<1>10. ASSUME RevokeElsewhere PROVE TypeOK' /\ RowMove /\ TokenMove
  <2>1. session' = Revoked(session) /\ UNCHANGED <<now, presence, calls, jar, access>>
    BY <1>10 DEF RevokeElsewhere
  <2>2. Held(session') /\ session' \in SessionRows
    BY <1>1, <2>1, RevokedEffect DEF Held, SameData, Closed
  <2> QED
    BY <1>1, <2>1, <2>2 DEF TypeOK, RowMove, TokenMove
<1>11. ASSUME ExpireOwned PROVE TypeOK' /\ RowMove /\ TokenMove
  <2>1. /\ session' = [session EXCEPT !.state = "expired"]
        /\ UNCHANGED <<now, presence, calls, jar, access>>
    BY <1>11 DEF ExpireOwned
  <2>2. Held(session') /\ session' \in SessionRows
    BY <1>1, <2>1 DEF Held, SameData, SessionRows, Closed
  <2> QED
    BY <1>1, <2>1, <2>2 DEF TypeOK, RowMove, TokenMove
<1>12. CASE UNCHANGED vars
  BY <1>1, <1>2, <1>12 DEF vars, TypeOK, RowMove, TokenMove
<1> QED
  BY <1>4, <1>5, <1>6, <1>7, <1>8, <1>9, <1>10, <1>11, <1>12 DEF Next, Outside
(***************************************************************************)
(* The inductive invariant.  IdleBehind is what IdleEndsAccess needs: the   *)
(* idle deadline never runs further ahead of the person than IdleLimit.    *)
(***************************************************************************)
IdleBehind == session.idle <= presence + IdleLimit

IInv == TypeOK /\ EachTokenTradedOnce /\ ExhaustedNeverActive /\ IdleBehind

LEMMA InitHolds == Init => IInv
<1> SUFFICES ASSUME Init PROVE IInv
  OBVIOUS
<1>1. /\ RaceGrace \in Nat /\ IdleLimit \in Nat /\ AccessLife \in Nat /\ Lifetime \in Nat
      /\ MaxAttempts \in Nat \ {0}
  BY TimesAssumption
<1>2. NoCall \in CallRows /\ NoCall.token = None /\ NoCall.gen = None
  BY DEF NoCall, CallRows, Token, Codes, Terminal, None
<1>3. session \in SessionRows
  BY <1>1 DEF Init, SessionRows, Open, Token, None
<1>4. TypeOK
  BY <1>1, <1>2, <1>3 DEF Init, TypeOK, Token, Earlier
<1>5. EachTokenTradedOnce
  BY <1>2 DEF Init, EachTokenTradedOnce, None
<1>6. ExhaustedNeverActive /\ IdleBehind
  BY <1>1 DEF Init, ExhaustedNeverActive, IdleBehind
<1> QED
  BY <1>4, <1>5, <1>6 DEF IInv

(* A turn appends the current generation to the line and no other move
   touches it. *)
LEMMA LineKept ==
    ASSUME TypeOK, TypeOK', EachTokenTradedOnce, RowMove, TokenMove
    PROVE  EachTokenTradedOnce'
<1>1. /\ session \in SessionRows /\ session' \in SessionRows
      /\ jar \in Token /\ calls \in [Calls -> CallRows] /\ calls' \in [Calls -> CallRows]
  BY DEF TypeOK
<1>2. /\ session.consumed \in Seq(Nat) /\ session.gen \in Nat /\ session'.gen \in Nat
  BY <1>1 DEF SessionRows
<1>3. \/ /\ session'.gen = session.gen /\ session'.consumed = session.consumed
         /\ session'.pred = session.pred
      \/ /\ session'.gen = session.gen + 1 /\ session'.pred.gen = session.gen
         /\ session'.consumed = Append(session.consumed, session.gen)
  <2>1. ASSUME session'.state = "active",
               SameData([session' EXCEPT !.idle = session.idle], session)
        PROVE  /\ session'.gen = session.gen /\ session'.consumed = session.consumed
               /\ session'.pred = session.pred
    BY <1>1, <2>1 DEF SessionRows, SameData
  <2> QED
    BY <2>1 DEF RowMove, Held, SameData, Guessed, NextGeneration
<1>4. /\ Len(session'.consumed) = session'.gen
      /\ \A i \in 1..session'.gen : session'.consumed[i] = i - 1
      /\ session'.pred.gen = session'.gen - 1
  <2>1. CASE /\ session'.gen = session.gen /\ session'.consumed = session.consumed
             /\ session'.pred = session.pred
    BY <2>1 DEF EachTokenTradedOnce
  <2>2. CASE /\ session'.gen = session.gen + 1 /\ session'.pred.gen = session.gen
             /\ session'.consumed = Append(session.consumed, session.gen)
    <3>1. Len(session.consumed) = session.gen
          /\ \A i \in 1..session.gen : session.consumed[i] = i - 1
      BY DEF EachTokenTradedOnce
    <3>2. Len(session'.consumed) = session'.gen
      BY <1>2, <2>2, <3>1
    <3>3. ASSUME NEW i \in 1..session'.gen PROVE session'.consumed[i] = i - 1
      <4>1. /\ \A k \in 1..session.gen : session'.consumed[k] = session.consumed[k]
            /\ session'.consumed[session.gen + 1] = session.gen
        BY <1>2, <2>2, <3>1, AppendProperties
      <4>2. CASE i \in 1..session.gen
        BY <3>1, <4>1, <4>2
      <4>3. CASE i = session.gen + 1
        BY <1>2, <4>1, <4>3
      <4>4. i \in 1..session.gen \/ i = session.gen + 1
        BY <1>2, <2>2
      <4> QED
        BY <4>2, <4>3, <4>4
    <3>4. session'.pred.gen = session'.gen - 1
      BY <1>2, <2>2
    <3> QED
      BY <3>2, <3>3, <3>4
  <2> QED
    BY <1>3, <2>1, <2>2
<1>5. session.gen <= session'.gen /\ None <= session'.gen
  BY <1>2, <1>3 DEF None
<1>6. /\ jar <= session.gen
      /\ \A c \in Calls : calls[c].token <= session.gen /\ calls[c].gen <= session.gen
  BY DEF EachTokenTradedOnce
<1>7. jar' <= session'.gen
  <2>1. \A c \in Calls : calls[c].gen \in Int
    BY <1>1 DEF CallRows, Token, None
  <2> QED
    BY <1>1, <1>2, <1>5, <1>6, <2>1 DEF TokenMove, Token, None
<1>8. ASSUME NEW c \in Calls
      PROVE  calls'[c].token <= session'.gen /\ calls'[c].gen <= session'.gen
  <2>1. /\ calls'[c].token \in {calls[c].token, jar, None}
        /\ calls'[c].gen \in {calls[c].gen, None, session'.gen}
    BY DEF TokenMove
  <2>2. calls[c].token \in Int /\ calls[c].gen \in Int /\ jar \in Int
    BY <1>1 DEF CallRows, Token, None
  <2> QED
    BY <1>2, <1>5, <1>6, <2>1, <2>2
<1> QED
  BY <1>4, <1>7, <1>8 DEF EachTokenTradedOnce

(* Only a guess raises a counter, and it leaves the row locked; a row becomes
   active only while its guesses are not used up. *)
LEMMA GuessesKept ==
    ASSUME TypeOK, TypeOK', ExhaustedNeverActive, RowMove
    PROVE  ExhaustedNeverActive'
<1>1. session \in SessionRows /\ session' \in SessionRows
  BY DEF TypeOK
<1>2. /\ session.passwordTries \in 0..MaxAttempts /\ session.otpTries \in 0..MaxAttempts
      /\ MaxAttempts \in Nat
  BY <1>1, TimesAssumption DEF SessionRows
<1>3. SUFFICES ASSUME session'.state = "active"
               PROVE  session'.passwordTries # MaxAttempts /\ session'.otpTries # MaxAttempts
  BY DEF ExhaustedNeverActive
<1>4. /\ session'.passwordTries = session.passwordTries
      /\ session'.otpTries = session.otpTries
      /\ session.state = "active" \/ ~Exhausted(session)
  <2>1. ASSUME SameData([session' EXCEPT !.idle = session.idle], session)
        PROVE  /\ session'.passwordTries = session.passwordTries
               /\ session'.otpTries = session.otpTries
    BY <1>1, <2>1 DEF SessionRows, SameData
  <2> QED
    BY <1>3, <2>1 DEF RowMove, Held, SameData, Guessed, NextGeneration
<1> QED
  BY <1>2, <1>4 DEF ExhaustedNeverActive, Exhausted

LEMMA IdleKept ==
    ASSUME TypeOK, TypeOK', IdleBehind, RowMove
    PROVE  IdleBehind'
<1>1. /\ session \in SessionRows /\ session' \in SessionRows
      /\ presence \in Nat /\ IdleLimit \in Nat
  BY TimesAssumption DEF TypeOK
<1>2. session.idle \in Nat /\ session'.idle \in Nat
  BY <1>1 DEF SessionRows
<1>3. \/ session'.idle = session.idle /\ presence' = presence
      \/ \E t \in Nat : session'.idle = t + IdleLimit /\ presence' = Later(presence, t)
  BY DEF RowMove, Held, SameData, Guessed, NextGeneration
<1> QED
  BY <1>1, <1>2, <1>3 DEF IdleBehind, Later

LEMMA StepHolds == IInv /\ [Next]_vars => IInv'
BY StepEffect, LineKept, GuessesKept, IdleKept DEF IInv

THEOREM SessionInvariant == Spec => []IInv
<1> QED
  BY InitHolds, StepHolds, PTL DEF Spec

(***************************************************************************)
(* The session, its calls and the browser are well typed, and neither      *)
(* counter of wrong guesses passes its limit.                              *)
(***************************************************************************)
THEOREM SessionTypeCorrect == Spec => []TypeOK
<1>1. IInv => TypeOK
  BY DEF IInv
<1> QED
  BY <1>1, SessionInvariant, PTL

(***************************************************************************)
(* Whatever tabs send, lose and repeat, each refresh token is traded in    *)
(* once, in order, and none exists that the server has not issued.         *)
(***************************************************************************)
THEOREM RotationIsALine == Spec => []EachTokenTradedOnce
<1>1. IInv => EachTokenTradedOnce
  BY DEF IInv
<1> QED
  BY <1>1, SessionInvariant, PTL

(***************************************************************************)
(* A session whose password or OTP guesses are used up is never active.    *)
(***************************************************************************)
THEOREM GuessesAreLimited == Spec => []ExhaustedNeverActive
<1>1. IInv => ExhaustedNeverActive
  BY DEF IInv
<1> QED
  BY <1>1, SessionInvariant, PTL
(***************************************************************************)
(* What is granted.                                                        *)
(***************************************************************************)

(* A call is granted something by its own handler only, on an open session;
   a refresh on a session that is active at the time of the call. *)
LEMMA GrantCases ==
    ASSUME TypeOK, [Next]_vars, NEW c \in Calls, Grants(c)
    PROVE  /\ session.state \in Open
           /\ calls[c].op = "refresh" => Alive(calls[c].at)
<1>1. /\ calls[c].phase = "running" /\ calls'[c].phase = "answered"
      /\ calls'[c].code = "OK" /\ calls[c].op # "logout"
      /\ presence \in Nat
  BY DEF Grants, TypeOK
<1>2. ASSUME NEW d \in Calls, NEW r \in SessionRows, NEW code \in Codes,
             Answer(d, r, code), presence' \in Nat
      PROVE  c = d /\ code = "OK"
  <2>1. /\ calls'[d].code = code
        /\ \A e \in Calls \ {d} : calls'[e] = calls[e]
    BY <1>2, AnswerEffect
  <2> QED
    BY <1>1, <2>1
<1>3. ASSUME NEW d \in Calls, Refresh(d)
      PROVE  /\ session.state \in Open
             /\ calls[c].op = "refresh" => Alive(calls[c].at)
  <2>1. PICK r \in SessionRows, code \in Codes :
            /\ Answer(d, r, code) /\ presence' = presence
            /\ code = "OK" => Alive(calls[d].at)
    BY <1>3, RefreshCases
  <2> QED
    BY <1>1, <1>2, <2>1 DEF Alive, Open
<1>4. ASSUME NEW d \in Calls, NEW password \in BOOLEAN, NEW otp \in BOOLEAN,
             Unlock(d, password, otp)
      PROVE  session.state \in Open /\ calls[c].op # "refresh"
  <2>1. PICK r \in SessionRows, code \in Codes \ {"AUTH_REFRESH_REUSED"} :
            /\ Answer(d, r, code) /\ presence' \in Nat /\ Runs(d, "unlock")
            /\ code = "OK" => session.state \in Open
    BY <1>4, UnlockCases
  <2> QED
    BY <1>2, <2>1 DEF Runs
<1>5. ASSUME NEW d \in Calls, Activity(d)
      PROVE  session.state \in Open /\ calls[c].op # "refresh"
  <2>1. PICK r \in SessionRows, code \in Codes \ {"AUTH_REFRESH_REUSED"} :
            /\ Answer(d, r, code) /\ presence' \in Nat /\ Runs(d, "activity")
            /\ code = "OK" => session.state = "active"
    BY <1>5, ActivityCases
  <2> QED
    BY <1>2, <2>1 DEF Runs, Open
<1>6. ASSUME NEW d \in Calls, Logout(d) PROVE FALSE
  <2>1. PICK r \in SessionRows, code \in Codes \ {"AUTH_REFRESH_REUSED"} :
            Answer(d, r, code) /\ presence' = presence /\ Runs(d, "logout")
    BY <1>6, LogoutCases
  <2> QED
    BY <1>1, <1>2, <2>1 DEF Runs
<1>7. ASSUME NEW d \in Calls, Admit(d) PROVE FALSE
  <2>1. /\ calls'[d].phase \in {"refused", "admitted"}
        /\ \A e \in Calls \ {d} : calls'[e] = calls[e]
    BY <1>7, AdmitEffect
  <2> QED
    BY <1>1, <2>1
<1>8. ASSUME Outside PROVE FALSE
  <2>1. calls'[c].phase = "answered" => calls'[c] = calls[c]
    BY <1>8, OutsideEffect DEF Carried
  <2> QED
    BY <1>1, <2>1
<1>9. ASSUME RevokeElsewhere \/ ExpireOwned \/ UNCHANGED vars PROVE FALSE
  BY <1>1, <1>9 DEF RevokeElsewhere, ExpireOwned, vars
<1> QED
  BY <1>3, <1>4, <1>5, <1>6, <1>7, <1>8, <1>9 DEF Next, Outside

(***************************************************************************)
(* A closed session stays closed, never turns its tokens and grants nothing, *)
(* also to a call whose handler had already started.                       *)
(***************************************************************************)
THEOREM ClosedStaysClosed == Spec => ClosedForGood
<1> DEFINE Shut == session.state \in Closed =>
                      /\ session'.state \in Closed
                      /\ session'.gen = session.gen
                      /\ \A c \in Calls : ~Grants(c)
<1>1. IInv /\ [Next]_vars => [Shut]_vars
  <2> SUFFICES ASSUME IInv, [Next]_vars, session.state \in Closed
               PROVE  /\ session'.state \in Closed
                      /\ session'.gen = session.gen
                      /\ \A c \in Calls : ~Grants(c)
    OBVIOUS
  <2>1. TypeOK /\ RowMove /\ session.state \notin Open
    BY StepEffect DEF IInv, Open, Closed
  <2>2. Held(session')
    BY <2>1 DEF RowMove, Guessed, Open
  <2>3. \A c \in Calls : ~Grants(c)
    BY <2>1, GrantCases
  <2> QED
    BY <2>2, <2>3 DEF Held, SameData
<1> QED
  BY <1>1, SessionInvariant, PTL DEF Spec, ClosedForGood

(***************************************************************************)
(* A staff session yields nothing to a refresh that came IdleLimit or more *)
(* after the person last proved to be there.                               *)
(***************************************************************************)
THEOREM IdleSessionsYieldNothing == Spec => IdleEndsAccess
<1> DEFINE Watched == \A c \in Calls : (Staff /\ Grants(c) /\ calls[c].op = "refresh")
                          => calls[c].at < presence + IdleLimit
<1>1. IInv /\ [Next]_vars => [Watched]_vars
  <2> SUFFICES ASSUME IInv, [Next]_vars,
                      NEW c \in Calls, Staff, Grants(c), calls[c].op = "refresh"
               PROVE  calls[c].at < presence + IdleLimit
    OBVIOUS
  <2>1. calls[c].at < session.idle
    BY GrantCases DEF IInv, Alive
  <2>2. /\ calls[c].at \in Nat /\ session.idle \in Nat /\ presence \in Nat
        /\ IdleLimit \in Nat /\ session.idle <= presence + IdleLimit
    BY TimesAssumption DEF IInv, TypeOK, CallRows, SessionRows, IdleBehind
  <2> QED
    BY <2>1, <2>2
<1> QED
  BY <1>1, SessionInvariant, PTL DEF Spec, IdleEndsAccess
(***************************************************************************)
(* One call at a time.  The cookie in the jar is then never older than the  *)
(* predecessor: it falls behind by the one turn whose answer was lost, and  *)
(* until an answer arrives every call in flight carries that same cookie.   *)
(***************************************************************************)
Recent(token) == token \in {None, session.gen, session.pred.gen}

Tidy(c) ==
    /\ Recent(jar)
    /\ calls[c].phase # "free" => calls[c].token = jar /\ jar # None
    /\ (calls[c].phase = "answered" /\ calls[c].code = "OK"
            /\ calls[c].op \in {"refresh", "unlock"}) => Recent(calls[c].gen)
    /\ calls[c].code # "AUTH_REFRESH_REUSED"

(* The answer of a handler keeps the browser tidy if the new row still knows
   the token of the call, and the pair it issues is the current one. *)
LEMMA AnswerTidy ==
    ASSUME TypeOK, NEW c \in Calls, Tidy(c), NEW op, Runs(c, op),
           NEW r \in SessionRows, NEW code \in Codes,
           Answer(c, r, code), presence' \in Nat,
           code # "AUTH_REFRESH_REUSED",
           \/ r.gen = session.gen /\ r.pred = session.pred
           \/ r.pred.gen = session.gen /\ calls[c].token = session.gen
    PROVE  Tidy(c)'
<1>1. /\ session' = r /\ calls'[c].token = calls[c].token
      /\ calls'[c].code = code /\ calls'[c].gen = r.gen
  BY AnswerEffect
<1>2. jar' = jar
  BY DEF Answer
<1>3. calls[c].token = jar /\ jar # None /\ Recent(jar)
  BY DEF Runs, Tidy
<1>4. jar' \in {None, session'.gen, session'.pred.gen}
  BY <1>1, <1>2, <1>3 DEF Recent
<1>5. calls'[c].token = jar' /\ jar' # None
  BY <1>1, <1>2, <1>3
<1> QED
  BY <1>1, <1>4, <1>5 DEF Tidy, Recent

LEMMA StepTidy ==
    ASSUME NEW only, Calls = {only}, TypeOK, [Next]_vars, Tidy(only)
    PROVE  Tidy(only)'
<1>1. /\ session \in SessionRows /\ presence \in Nat /\ only \in Calls
      /\ calls \in [Calls -> CallRows]
  BY DEF TypeOK
<1>2. ASSUME Refresh(only) PROVE Tidy(only)'
  <2>1. PICK r \in SessionRows, code \in Codes :
            /\ Answer(only, r, code) /\ presence' = presence
            /\ Runs(only, "refresh")
            /\ code = "AUTH_REFRESH_REUSED" =>
                  calls[only].token # session.gen /\ calls[only].token # session.pred.gen
            /\ \/ Held(r)
               \/ /\ code = "OK" /\ calls[only].token = session.gen
                  /\ NextGeneration(r, session.idle)
    BY <1>1, <1>2, RefreshCases
  <2>2. calls[only].token \in {session.gen, session.pred.gen}
    BY <2>1 DEF Tidy, Recent, Runs
  <2>3. code # "AUTH_REFRESH_REUSED"
    BY <2>1, <2>2
  <2>4. \/ r.gen = session.gen /\ r.pred = session.pred
        \/ r.pred.gen = session.gen /\ calls[only].token = session.gen
    BY <2>1 DEF Held, SameData, NextGeneration
  <2> QED
    BY <1>1, <2>1, <2>3, <2>4, AnswerTidy
<1>3. ASSUME NEW password \in BOOLEAN, NEW otp \in BOOLEAN, Unlock(only, password, otp)
      PROVE  Tidy(only)'
  <2>1. PICK r \in SessionRows, code \in Codes \ {"AUTH_REFRESH_REUSED"} :
            /\ Answer(only, r, code) /\ presence' \in Nat /\ Runs(only, "unlock")
            /\ \/ Held(r) \/ Guessed(r)
               \/ /\ calls[only].token = session.gen
                  /\ NextGeneration(r, calls[only].at + IdleLimit)
    BY <1>1, <1>3, UnlockCases
  <2>2. \/ r.gen = session.gen /\ r.pred = session.pred
        \/ r.pred.gen = session.gen /\ calls[only].token = session.gen
    BY <2>1 DEF Held, SameData, Guessed, NextGeneration
  <2> QED
    BY <1>1, <2>1, <2>2, AnswerTidy
<1>4. ASSUME Activity(only) PROVE Tidy(only)'
  <2>1. PICK r \in SessionRows, code \in Codes \ {"AUTH_REFRESH_REUSED"} :
            /\ Answer(only, r, code) /\ presence' \in Nat /\ Runs(only, "activity")
            /\ Held(r) \/ SameData([r EXCEPT !.idle = session.idle], session)
    BY <1>1, <1>4, ActivityCases
  <2>2. r.gen = session.gen /\ r.pred = session.pred
    BY <2>1 DEF Held, SameData, SessionRows
  <2> QED
    BY <1>1, <2>1, <2>2, AnswerTidy
<1>5. ASSUME Logout(only) PROVE Tidy(only)'
  <2>1. PICK r \in SessionRows, code \in Codes \ {"AUTH_REFRESH_REUSED"} :
            /\ Answer(only, r, code) /\ presence' = presence
            /\ Runs(only, "logout") /\ Held(r)
    BY <1>1, <1>5, LogoutCases
  <2>2. r.gen = session.gen /\ r.pred = session.pred
    BY <2>1 DEF Held, SameData
  <2> QED
    BY <1>1, <2>1, <2>2, AnswerTidy
<1>6. ASSUME Admit(only) PROVE Tidy(only)'
  <2>1. calls[only].phase = "entering"
    BY <1>6 DEF Admit
  <2>2. /\ Held(session') /\ jar' = jar
        /\ calls'[only].phase \in {"refused", "admitted"}
        /\ calls'[only].token = calls[only].token
        /\ calls'[only].code = "AUTH_REFRESH_REUSED" =>
              calls[only].code = "AUTH_REFRESH_REUSED"
    BY <1>1, <1>6, AdmitEffect
  <2>3. jar' \in {None, session'.gen, session'.pred.gen}
    BY <2>2 DEF Tidy, Recent, Held, SameData
  <2> QED
    BY <2>1, <2>2, <2>3 DEF Tidy, Recent
<1>7. ASSUME Outside PROVE Tidy(only)'
  <2>1. /\ session' = session /\ JarKept
        /\ calls'[only].phase = "answered" => calls'[only] = calls[only]
        /\ calls'[only].code \in {calls[only].code, "OK"}
    BY <1>1, <1>7, OutsideEffect DEF Carried
  <2>2. Recent(jar')
    BY <2>1 DEF JarKept, Tidy, Recent
  <2>3. calls'[only].phase # "free" => calls'[only].token = jar' /\ jar' # None
    <3>1. ASSUME NEW op \in Operations, Send(only, op)
          PROVE  calls'[only].token = jar' /\ jar' # None
      BY <1>1, <3>1 DEF Send, NoCall
    <3>2. ASSUME Arrive(only)
          PROVE  calls'[only].token = jar' /\ jar' # None
      <4>1. /\ calls[only].phase # "free" /\ jar' = jar
            /\ calls'[only].token = calls[only].token
        BY <1>1, <3>2 DEF Arrive, CallRows
      <4> QED
        BY <4>1 DEF Tidy
    <3>3. ASSUME Lose(only) \/ Deliver(only) PROVE calls'[only].phase = "free"
      BY <1>1, <3>3 DEF Lose, Deliver, NoCall
    <3>4. ASSUME Reload \/ Tick PROVE calls' = calls /\ jar' = jar
      BY <3>4 DEF Reload, Tick
    <3> QED
      BY <1>7, <3>1, <3>2, <3>3, <3>4 DEF Outside, Tidy
  <2> QED
    BY <2>1, <2>2, <2>3 DEF Tidy, Recent
<1>8. ASSUME RevokeElsewhere \/ ExpireOwned \/ UNCHANGED vars PROVE Tidy(only)'
  <2>1. calls' = calls /\ jar' = jar
    BY <1>8 DEF RevokeElsewhere, ExpireOwned, vars
  <2>2. session'.gen = session.gen /\ session'.pred = session.pred
    BY <1>1, <1>8 DEF RevokeElsewhere, ExpireOwned, vars, Revoked, SessionRows
  <2> QED
    BY <2>1, <2>2 DEF Tidy, Recent
<1> QED
  BY <1>2, <1>3, <1>4, <1>5, <1>6, <1>7, <1>8 DEF Next, Outside

(***************************************************************************)
(* With one call in flight at a time, no call of the browser is ever taken *)
(* for the reuse of a stolen token, however many calls and answers are lost. *)
(***************************************************************************)
THEOREM OneCallNeverReused ==
    ASSUME NEW only, Calls = {only}
    PROVE  Spec => []NoFalseReuse
<1>1. Init => Tidy(only)
  BY DEF Init, Tidy, Recent, NoCall
<1>2. Tidy(only) /\ IInv /\ [Next]_vars => Tidy(only)'
  BY StepTidy DEF IInv
<1>3. Tidy(only) => NoFalseReuse
  BY DEF Tidy, NoFalseReuse
<1> QED
  BY <1>1, <1>2, <1>3, SessionInvariant, PTL DEF Spec

-----------------------------------------------------------------------------
(***************************************************************************)
(* The tabs of the browser (AuthTabs).                                     *)
(*                                                                         *)
(* The invariant TabsInv says of each tab that the answers it waits for    *)
(* are for sessions that exist, that a refresh which is still current is   *)
(* not for a session the tab was signed out of, and that its answer is     *)
(* newer than the token the tab holds.  It is inductive because whatever   *)
(* signs a tab out, or gives it a token, makes everything under way stale. *)
(***************************************************************************)

TabRows ==
    [phase : Phases, authed : BOOLEAN, token : AccessToken, sid : 0..Sessions,
     order : 0..Tokens, accepts : BOOLEAN, ended : BOOLEAN, leaving : BOOLEAN,
     again : BOOLEAN, recovering : BOOLEAN]

AttemptRows ==
    [step : {"idle", "asked", "racing", "backoff"} \cup Answers, sid : 0..Sessions,
     token : AccessToken, retried : BOOLEAN, tries : 0..Backoffs, stale : BOOLEAN,
     fenced : BOOLEAN]

ServerRows == [Sid -> {"unused", "active", "locked", "closed"}]

(* Messages with no token beyond the first n. *)
MailUpTo(n) == {m \in Message : m.type = "ACCESS_UPDATED" => m.token.n <= n}

(* The session r shows, its place in the order and its token are those of s,
   unless the token is gone. *)
Keeps(r, s) == r.sid = s.sid /\ r.order = s.order /\ r.token \in {s.token, NoToken}

Forgets(r) == r.sid = 0 /\ r.order = 0 /\ r.token = NoToken

Takes(r, token) == r.sid = token.sid /\ r.order = token.n /\ r.token = token

(* An answer holds a token of the session asked for; a refresh that is still
   current is not for a session the tab was signed out of, and its answer is
   newer than what the tab holds. *)
AttemptOK(k, a, row, gone, sv, n) ==
    /\ a.step = "ok" => /\ a.token # NoToken
                        /\ a.token.sid = a.sid
                        /\ a.token.n <= n
                        /\ sv[a.sid] # "unused"
    /\ k # "unlock" /\ a.step # "idle" /\ ~a.stale =>
          /\ a.sid \notin gone
          /\ a.step = "ok" => row.order < a.token.n

(* No tab is ahead of the tokens issued, or shows or has left a session that
   never was. *)
RowOK(row, gone, sv, n) ==
    /\ row.order <= n
    /\ row.sid # 0 => sv[row.sid] # "unused"
    /\ \A s \in gone : sv[s] # "unused"

TabOK(t) ==
    /\ RowOK(tab[t], left[t], server, issued)
    /\ \A k \in Kinds : AttemptOK(k, attempt[t][k], tab[t], left[t], server, issued)

TabsInv ==
    /\ TabsTypeOK
    /\ inbox \in [Tabs -> Seq(MailUpTo(issued))]
    /\ \A t \in Tabs : TabOK(t)

(* The rows are typed. *)
LEMMA TabTypes ==
    /\ TabsTypeOK <=>
         /\ tab \in [Tabs -> TabRows]
         /\ attempt \in [Tabs -> [Kinds -> AttemptRows]]
         /\ inbox \in [Tabs -> Seq(Message)]
         /\ server \in ServerRows
         /\ cookie \in 0..Sessions
         /\ issued \in 0..Tokens
         /\ left \in [Tabs -> SUBSET Sid]
         /\ troubles \in 0..Troubles
    /\ Sessions \in Nat /\ Tokens \in Nat /\ Backoffs \in Nat /\ Troubles \in Nat
<1>1. Sessions \in Nat /\ Tokens \in Nat /\ Backoffs \in Nat /\ Troubles \in Nat
  BY AuthTabsAssumption
<1> QED
  BY <1>1, Zenon DEF TabsTypeOK, TabRows, AttemptRows, ServerRows

(* The constants the rows are made of. *)
LEMMA RestingOK ==
    /\ NoToken \in AccessToken
    /\ Loading \in TabRows /\ Forgets(Loading)
    /\ Resting \in AttemptRows /\ Resting.step = "idle"
    /\ Idle \in [Kinds -> AttemptRows]
    /\ \A c \in 0..Sessions :
          /\ Asked(c) \in AttemptRows
          /\ Asked(c).step = "asked" /\ Asked(c).sid = c /\ ~Asked(c).stale
<1>1. NoToken \in AccessToken
  BY DEF AccessToken, NoToken
<1>2. Loading \in TabRows /\ Forgets(Loading)
  BY <1>1, TabTypes DEF Loading, TabRows, Forgets, Phases, Holding
<1>3. Resting \in AttemptRows /\ Resting.step = "idle" /\ ~Resting.stale
  BY <1>1, TabTypes DEF Resting, AttemptRows
<1>4. ASSUME NEW c \in 0..Sessions
      PROVE  /\ Asked(c) \in AttemptRows
             /\ Asked(c).step = "asked" /\ Asked(c).sid = c /\ ~Asked(c).stale
  BY <1>3, <1>4 DEF Asked, AttemptRows
<1> QED
  BY <1>1, <1>2, <1>3, <1>4 DEF Idle

(***************************************************************************)
(* What the transitions of a tab make of its row.                          *)
(***************************************************************************)
(* install: the row takes the token and its session. *)
LEMMA InstalledEffect ==
    ASSUME NEW row \in TabRows, NEW token \in AccessToken \ {NoToken}
    PROVE  /\ Installed(row, token) \in TabRows
           /\ Takes(Installed(row, token), token)
           /\ Installed(row, token).again = row.again
<1>1. token.sid \in 0..Sessions /\ token.n \in 0..Tokens
  BY TabTypes DEF AccessToken, Sid
<1>2. "authenticated" \in Phases
  BY DEF Phases
<1> QED
  BY <1>1, <1>2 DEF Installed, TabRows, Takes

(* What the terminal transitions forget. *)
LEMMA ForgottenEffect ==
    ASSUME NEW row \in TabRows
    PROVE  /\ Forgotten(row) \in TabRows
           /\ Forgets(Forgotten(row))
           /\ Forgotten(row).again = row.again
BY RestingOK, TabTypes DEF Forgotten, TabRows, Forgets

(* clearSession leaves no session. *)
LEMMA ClearedEffect ==
    ASSUME NEW row \in TabRows
    PROVE  /\ Cleared(row) \in TabRows
           /\ Forgets(Cleared(row))
           /\ Cleared(row).again = row.again
<1>1. "unauthenticated" \in Phases
  BY DEF Phases, SignedOff
<1> QED
  BY <1>1, ForgottenEffect DEF Cleared, TabRows, Forgets

(* transitionTerminal leaves no session, be it the first one or not. *)
LEMMA TerminatedEffect ==
    ASSUME NEW row \in TabRows
    PROVE  /\ Terminated(row) \in TabRows
           /\ Forgets(Terminated(row))
           /\ Terminated(row).again = row.again
<1>1. "revoked" \in Phases
  BY DEF Phases, SignedOff
<1>2. CASE row.ended
  BY <1>2, ForgottenEffect DEF Terminated
<1>3. CASE ~row.ended
  BY <1>1, <1>3, ForgottenEffect DEF Terminated, TabRows, Forgets
<1> QED
  BY <1>2, <1>3

(* Another phase, or another flag, is not another session. *)
LEMMA PhaseEffect ==
    ASSUME NEW row \in TabRows, NEW phase \in Phases, NEW authed \in BOOLEAN,
           NEW again \in BOOLEAN, NEW recovering \in BOOLEAN, NEW leaving \in BOOLEAN
    PROVE  LET r == [row EXCEPT !.phase = phase, !.authed = authed, !.again = again,
                                !.recovering = recovering, !.leaving = leaving]
           IN  r \in TabRows /\ Keeps(r, row)
<1> DEFINE r == [row EXCEPT !.phase = phase, !.authed = authed, !.again = again,
                            !.recovering = recovering, !.leaving = leaving]
<1>1. r \in TabRows
  BY DEF TabRows
<1>2. r.sid = row.sid /\ r.order = row.order /\ r.token = row.token
  BY DEF TabRows
<1> QED
  BY <1>1, <1>2 DEF Keeps

(* What an outcome leaves of the tab: its session, or none at all. *)
Leaves(r, s) == Keeps(r, s) \/ Forgets(r)

(* The end of the recovery of an unlock. *)
LEMMA RecoveredEffect ==
    ASSUME NEW row \in TabRows, NEW outcome
    PROVE  /\ Recovered(row, outcome) \in TabRows
           /\ Leaves(Recovered(row, outcome), row)
           /\ outcome = "ok" => Recovered(row, outcome) = row
           /\ Recovered(row, outcome).again = row.again
<1>0. {"revoked", "locked", "rate-limited"} \subseteq Phases
  BY DEF Phases, SignedOff
<1>1. CASE ~row.recovering \/ outcome = "ok"
  BY <1>1 DEF Recovered, Leaves, Keeps
<1>2. CASE row.recovering /\ outcome = "gone"
  <2>1. Recovered(row, outcome) = [Cleared(row) EXCEPT !.phase = "revoked"]
    BY <1>2 DEF Recovered
  <2> QED
    BY <1>0, <1>2, <2>1, ClearedEffect DEF Leaves, Forgets, TabRows
<1>3. CASE row.recovering /\ outcome = "limited"
  <2>1. Recovered(row, outcome) = [row EXCEPT !.phase = "rate-limited", !.authed = FALSE]
    BY <1>3 DEF Recovered
  <2> QED
    BY <1>0, <1>3, <2>1 DEF Leaves, Keeps, TabRows
<1>4. CASE row.recovering /\ outcome \notin {"ok", "gone", "limited"}
  <2>1. Recovered(row, outcome) =
          [row EXCEPT !.phase = "locked", !.authed = @ /\ outcome \notin Withdrawn]
    BY <1>4 DEF Recovered
  <2> QED
    BY <1>0, <1>4, <2>1 DEF Leaves, Keeps, TabRows
<1> QED
  BY <1>1, <1>2, <1>3, <1>4

(* The end of a refreshOnce. *)
LEMMA AfterOnceEffect ==
    ASSUME NEW row \in TabRows, NEW outcome
    PROVE  /\ AfterOnce(row, outcome) \in TabRows
           /\ Leaves(AfterOnce(row, outcome), row)
           /\ outcome = "ok" => Keeps(AfterOnce(row, outcome), row) /\ AfterOnce(row, outcome).token = row.token
<1> DEFINE r == Recovered(row, outcome)
           rested == [r EXCEPT !.recovering = FALSE, !.again = FALSE]
<1>1. /\ r \in TabRows /\ Leaves(r, row)
      /\ outcome = "ok" => r = row
  BY RecoveredEffect
<1>2. AfterOnce(row, outcome) = IF row.again THEN [rested EXCEPT !.phase = "refreshing"] ELSE rested
  BY DEF AfterOnce
<1>3. "refreshing" \in Phases
  BY DEF Phases, Holding
<1> HIDE DEF r
<1>4. /\ rested \in TabRows
      /\ rested.sid = r.sid /\ rested.order = r.order /\ rested.token = r.token
  BY <1>1 DEF TabRows
<1> HIDE DEF rested
<1>5. /\ AfterOnce(row, outcome) \in TabRows
      /\ AfterOnce(row, outcome).sid = r.sid
      /\ AfterOnce(row, outcome).order = r.order
      /\ AfterOnce(row, outcome).token = r.token
  BY <1>2, <1>3, <1>4 DEF TabRows
<1> QED
  BY <1>1, <1>5 DEF Leaves, Keeps, Forgets

(* The catch of checkAuth. *)
LEMMA AfterBootEffect ==
    ASSUME NEW row \in TabRows,
           NEW outcome \in {"gone", "locked", "race", "unavailable", "lost", "superseded"}
    PROVE  /\ AfterBoot(row, outcome) \in TabRows
           /\ Keeps(AfterBoot(row, outcome), row)
<1>1. {"revoked", "locked", "bootstrap-retry", "offline-stale"} \subseteq Phases
  BY DEF Phases, SignedOff, Retryable
<1>2. CASE outcome = "gone"
  BY <1>1, <1>2, RestingOK DEF AfterBoot, TabRows, Keeps
<1>3. CASE outcome = "locked"
  BY <1>1, <1>3 DEF AfterBoot, TabRows, Keeps
<1>4. CASE outcome = "race"
  BY <1>1, <1>4 DEF AfterBoot, TabRows, Keeps
<1>5. CASE outcome \in {"unavailable", "lost", "superseded"}
  BY <1>1, <1>5 DEF AfterBoot, TabRows, Keeps
<1> QED
  BY <1>2, <1>3, <1>4, <1>5

(* checkAuth when it is throttled. *)
LEMMA BootLimitedEffect ==
    ASSUME NEW row \in TabRows, NEW r \in BootLimited(row)
    PROVE  r \in TabRows /\ Keeps(r, row)
<1>1. {"bootstrap-retry", "offline-stale", "unauthenticated", "rate-limited"} \subseteq Phases
  BY DEF Phases, SignedOff, Retryable
<1>2. \/ r = [row EXCEPT !.phase = "bootstrap-retry", !.authed = FALSE]
      \/ r = [row EXCEPT !.phase = "offline-stale"]
      \/ r = [row EXCEPT !.phase = "unauthenticated", !.authed = FALSE, !.token = NoToken]
      \/ r = [row EXCEPT !.phase = "rate-limited", !.authed = FALSE]
  BY DEF BootLimited
<1>3. CASE r = [row EXCEPT !.phase = "bootstrap-retry", !.authed = FALSE]
  BY <1>1, <1>3 DEF TabRows, Keeps
<1>4. CASE r = [row EXCEPT !.phase = "offline-stale"]
  BY <1>1, <1>4 DEF TabRows, Keeps
<1>5. CASE r = [row EXCEPT !.phase = "unauthenticated", !.authed = FALSE, !.token = NoToken]
  BY <1>1, <1>5, RestingOK DEF TabRows, Keeps
<1>6. CASE r = [row EXCEPT !.phase = "rate-limited", !.authed = FALSE]
  BY <1>1, <1>6 DEF TabRows, Keeps
<1> QED
  BY <1>2, <1>3, <1>4, <1>5, <1>6

(* lockSession. *)
LEMMA LockedEffect ==
    ASSUME NEW row \in TabRows
    PROVE  Locked(row) \in TabRows /\ Keeps(Locked(row), row) /\ Locked(row).again = row.again
<1>1. "locked" \in Phases
  BY DEF Phases
<1> QED
  BY <1>1 DEF Locked, TabRows, Keeps

(* Whatever was under way is stale. *)
LEMMA OutdatedEffect ==
    ASSUME NEW as \in [Kinds -> AttemptRows]
    PROVE  /\ Outdated(as) \in [Kinds -> AttemptRows]
           /\ \A k \in Kinds :
                /\ Outdated(as)[k].step = as[k].step
                /\ as[k].step # "idle" =>
                      /\ Outdated(as)[k].stale
                      /\ Outdated(as)[k].sid = as[k].sid
                      /\ Outdated(as)[k].token = as[k].token
<1> SUFFICES ASSUME NEW k \in Kinds
             PROVE  /\ Outdated(as)[k] \in AttemptRows
                    /\ Outdated(as)[k].step = as[k].step
                    /\ as[k].step # "idle" =>
                          /\ Outdated(as)[k].stale
                          /\ Outdated(as)[k].sid = as[k].sid
                          /\ Outdated(as)[k].token = as[k].token
  BY DEF Outdated
<1>1. CASE as[k].step = "idle"
  BY <1>1, RestingOK DEF Outdated
<1>2. CASE as[k].step # "idle"
  <2>1. Outdated(as)[k] = [as[k] EXCEPT !.stale = TRUE, !.fenced = TRUE, !.tries = 0, !.retried = FALSE]
    BY <1>2 DEF Outdated
  <2>2. as[k] \in AttemptRows
    OBVIOUS
  <2>3. 0 \in 0..Backoffs
    BY TabTypes
  <2> QED
    BY <1>2, <2>1, <2>2, <2>3 DEF AttemptRows
<1> QED
  BY <1>1, <1>2

(***************************************************************************)
(* The parts of the invariant for one tab.                                 *)
(***************************************************************************)

(* Sessions that exist go on to, and tokens are only added. *)
Grows(sv, n) == n >= issued /\ \A s \in Sid : server[s] # "unused" => sv[s] # "unused"

(* An attempt that is left alone stays sound when the tab gets no newer token
   and leaves no other session. *)
LEMMA AttemptStays ==
    ASSUME TabsTypeOK, NEW k \in Kinds, NEW a \in AttemptRows, NEW row \in TabRows, NEW r \in TabRows,
           NEW gone, NEW g \in SUBSET gone, NEW sv \in ServerRows, NEW n \in Nat,
           AttemptOK(k, a, row, gone, server, issued), Grows(sv, n), r.order <= row.order
    PROVE  AttemptOK(k, a, r, g, sv, n)
<1>1. issued \in Nat /\ row.order \in Nat /\ r.order \in Nat
  BY TabTypes DEF TabRows
<1>2. ASSUME a.step = "ok"
      PROVE  a.token # NoToken /\ a.token.sid = a.sid /\ a.token.n <= n /\ sv[a.sid] # "unused" /\ a.token.n \in Nat
  <2>1. a.token # NoToken /\ a.token.sid = a.sid /\ a.token.n <= issued /\ server[a.sid] # "unused"
    BY <1>2 DEF AttemptOK
  <2>2. a.token \in [sid : Sid, n : 1..Tokens]
    BY <2>1 DEF AttemptRows, AccessToken
  <2>3. a.token.n \in Nat /\ a.sid \in Sid
    BY <2>1, <2>2, TabTypes
  <2> QED
    BY <1>1, <2>1, <2>3 DEF Grows
<1>3. ASSUME k # "unlock", a.step # "idle", ~a.stale
      PROVE  a.sid \notin g /\ (a.step = "ok" => r.order < a.token.n)
  <2>1. a.sid \notin gone /\ (a.step = "ok" => row.order < a.token.n)
    BY <1>3 DEF AttemptOK
  <2> QED
    BY <1>1, <1>2, <2>1
<1> QED
  BY <1>2, <1>3 DEF AttemptOK

(* One that is stale stays sound whatever happens to the tab. *)
LEMMA AttemptOutdated ==
    ASSUME TabsTypeOK, NEW k \in Kinds, NEW a \in AttemptRows, NEW b \in AttemptRows,
           NEW row, NEW gone, NEW r, NEW g, NEW sv \in ServerRows, NEW n \in Nat,
           AttemptOK(k, a, row, gone, server, issued), Grows(sv, n),
           b.step = a.step,
           a.step # "idle" => b.stale /\ b.sid = a.sid /\ b.token = a.token
    PROVE  AttemptOK(k, b, r, g, sv, n)
<1>1. issued \in Nat
  BY TabTypes
<1>2. ASSUME b.step = "ok"
      PROVE  b.token # NoToken /\ b.token.sid = b.sid /\ b.token.n <= n /\ sv[b.sid] # "unused"
  <2>1. a.token # NoToken /\ a.token.sid = a.sid /\ a.token.n <= issued /\ server[a.sid] # "unused"
    BY <1>2 DEF AttemptOK
  <2>2. a.token \in [sid : Sid, n : 1..Tokens]
    BY <2>1 DEF AttemptRows, AccessToken
  <2>3. a.token.n \in Nat /\ a.sid \in Sid
    BY <2>1, <2>2, TabTypes
  <2> QED
    BY <1>1, <1>2, <2>1, <2>3 DEF Grows
<1> QED
  BY <1>2 DEF AttemptOK

(* An attempt that ends, or begins for a session the tab has not left. *)
LEMMA AttemptBegins ==
    ASSUME NEW k \in Kinds, NEW c \in 0..Sessions, NEW r, NEW g, NEW sv, NEW n
    PROVE  /\ AttemptOK(k, Resting, r, g, sv, n)
           /\ c \notin g => AttemptOK(k, Asked(c), r, g, sv, n)
BY RestingOK DEF AttemptOK

(* A tab that keeps or forgets its session stays sound. *)
LEMMA RowStays ==
    ASSUME TabsTypeOK, NEW row \in TabRows, NEW r \in TabRows, NEW gone \in SUBSET Sid,
           NEW g \in SUBSET gone, NEW sv \in ServerRows, NEW n \in Nat,
           RowOK(row, gone, server, issued), Grows(sv, n), Leaves(r, row)
    PROVE  RowOK(r, g, sv, n) /\ r.order <= row.order
<1>1. issued \in Nat /\ row.order \in Nat /\ r.sid \in 0..Sessions
  BY TabTypes DEF TabRows
<1>2. CASE Keeps(r, row)
  <2>1. r.sid # 0 => r.sid \in Sid
    BY <1>1, TabTypes DEF Sid
  <2> QED
    BY <1>1, <1>2, <2>1 DEF Keeps, RowOK, Grows
<1>3. CASE Forgets(r)
  BY <1>1, <1>3 DEF Forgets, RowOK, Grows
<1> QED
  BY <1>2, <1>3 DEF Leaves

(***************************************************************************)
(* Mail between the tabs.                                                  *)
(***************************************************************************)
(* Mail stays sound when tokens are added. *)
LEMMA MailGrows ==
    ASSUME NEW m \in Nat, NEW n \in Nat, m <= n
    PROVE  MailUpTo(m) \subseteq MailUpTo(n) /\ Seq(MailUpTo(m)) \subseteq Seq(MailUpTo(n))
<1>1. MailUpTo(m) \subseteq MailUpTo(n)
  <2> SUFFICES ASSUME NEW x \in MailUpTo(m) PROVE x \in MailUpTo(n)
    OBVIOUS
  <2>1. x \in Message /\ (x.type = "ACCESS_UPDATED" => x.token.n <= m)
    BY DEF MailUpTo
  <2>2. x.type = "ACCESS_UPDATED" => x.token.n \in Nat
    BY <2>1, TabTypes DEF Message, AccessToken
  <2> QED
    BY <2>1, <2>2 DEF MailUpTo
<1>2. ASSUME NEW S, NEW T, S \subseteq T, NEW s \in Seq(S) PROVE s \in Seq(T)
  BY <1>2
<1> QED
  BY <1>1, <1>2

(* Nothing is sent. *)
LEMMA MailWaits ==
    ASSUME NEW n \in Nat, TabsTypeOK, inbox \in [Tabs -> Seq(MailUpTo(issued))], issued <= n,
           inbox' = inbox
    PROVE  inbox' \in [Tabs -> Seq(MailUpTo(n))]
<1>1. issued \in Nat
  BY TabTypes
<1>2. Seq(MailUpTo(issued)) \subseteq Seq(MailUpTo(n))
  BY <1>1, MailGrows
<1> QED
  BY <1>2

(* A message is sent to the other tabs; the own mail waits. *)
LEMMA MailSent ==
    ASSUME NEW n \in Nat, TabsTypeOK, inbox \in [Tabs -> Seq(MailUpTo(issued))], issued <= n,
           NEW t \in Tabs, NEW m \in MailUpTo(n), Broadcast(t, m)
    PROVE  inbox' \in [Tabs -> Seq(MailUpTo(n))] /\ inbox'[t] = inbox[t]
<1>1. issued \in Nat
  BY TabTypes
<1>2. Seq(MailUpTo(issued)) \subseteq Seq(MailUpTo(n))
  BY <1>1, MailGrows
<1>3. ASSUME NEW u \in Tabs
      PROVE  (IF u = t THEN inbox[u] ELSE Append(inbox[u], m)) \in Seq(MailUpTo(n))
  <2>1. inbox[u] \in Seq(MailUpTo(n))
    BY <1>2
  <2>2. Append(inbox[u], m) \in Seq(MailUpTo(n))
    BY <2>1, AppendProperties
  <2> QED
    BY <2>1, <2>2
<1> QED
  BY <1>3 DEF Broadcast

(***************************************************************************)
(* A step of one tab.                                                      *)
(***************************************************************************)
Moves(t, row, as, gone) ==
    /\ tab' = [tab EXCEPT ![t] = row]
    /\ attempt' = [attempt EXCEPT ![t] = as]
    /\ left' = [left EXCEPT ![t] = gone]

(* The rest of the step. *)
Rest ==
    /\ Grows(server', issued')
    /\ inbox' \in [Tabs -> Seq(MailUpTo(issued'))]
    /\ server' \in ServerRows /\ cookie' \in 0..Sessions
    /\ issued' \in 0..Tokens /\ troubles' \in 0..Troubles

(* What the two action properties say of one tab. *)
Honest(t) ==
    /\ \A s \in left[t] \cap left'[t] :
          tab[t].sid # s /\ tab'[t].sid = s => attempt[t]["unlock"].step = "ok"
    /\ tab[t].sid # 0 /\ tab'[t].sid # 0 /\ tab'[t].token # tab[t].token =>
          \/ tab'[t].token = NoToken
          \/ attempt[t]["unlock"].step = "ok"
          \/ /\ tab'[t].order > tab[t].order
             /\ tab'[t].sid = tab[t].sid \/ inbox'[t] = inbox[t]

Lands == TabsInv' /\ \A u \in Tabs : Honest(u)

(* A tab that does not move. *)
LEMMA TabWaits ==
    ASSUME TabsInv, NEW u \in Tabs, Rest,
           tab'[u] = tab[u], attempt'[u] = attempt[u], left'[u] = left[u]
    PROVE  TabOK(u)' /\ Honest(u)
<1>1. /\ TabsTypeOK
      /\ tab[u] \in TabRows /\ left[u] \in SUBSET Sid
      /\ \A k \in Kinds : attempt[u][k] \in AttemptRows
  BY TabTypes DEF TabsInv
<1>2. issued' \in Nat /\ server' \in ServerRows /\ Grows(server', issued')
  BY TabTypes DEF Rest
<1>3. tab[u].order <= tab[u].order /\ Leaves(tab[u], tab[u])
  BY <1>1, TabTypes DEF TabRows, Leaves, Keeps
<1>4. TabOK(u)
  BY DEF TabsInv
<1>5. RowOK(tab[u], left[u], server', issued')
  BY <1>1, <1>2, <1>3, <1>4, RowStays DEF TabOK
<1>6. ASSUME NEW k \in Kinds
      PROVE  AttemptOK(k, attempt[u][k], tab[u], left[u], server', issued')
  <2>1. AttemptOK(k, attempt[u][k], tab[u], left[u], server, issued)
    BY <1>4 DEF TabOK
  <2> QED
    BY <1>1, <1>2, <1>3, <2>1, AttemptStays
<1> QED
  BY <1>5, <1>6 DEF TabOK, Honest

(* The types after a step. *)
LEMMA RestTyped ==
    ASSUME Rest, tab' \in [Tabs -> TabRows], attempt' \in [Tabs -> [Kinds -> AttemptRows]],
           left' \in [Tabs -> SUBSET Sid]
    PROVE  TabsTypeOK' /\ inbox' \in [Tabs -> Seq(MailUpTo(issued'))]
<1>1. MailUpTo(issued') \subseteq Message
  BY DEF MailUpTo
<1>2. ASSUME NEW S, NEW T, S \subseteq T, NEW s \in Seq(S) PROVE s \in Seq(T)
  BY <1>2
<1>3. Seq(MailUpTo(issued')) \subseteq Seq(Message)
  BY <1>1, <1>2
<1>4. inbox' \in [Tabs -> Seq(Message)]
  BY <1>3 DEF Rest
<1> QED
  BY <1>4, Zenon DEF Rest, TabsTypeOK, TabRows, AttemptRows, ServerRows

(* A step of the server alone. *)
LEMMA NoTabMoves ==
    ASSUME TabsInv, UNCHANGED <<tab, attempt, left>>, Rest
    PROVE  Lands
<1>1. /\ tab \in [Tabs -> TabRows] /\ attempt \in [Tabs -> [Kinds -> AttemptRows]]
      /\ left \in [Tabs -> SUBSET Sid]
  BY TabTypes DEF TabsInv
<1>2. TabsTypeOK' /\ inbox' \in [Tabs -> Seq(MailUpTo(issued'))]
  BY <1>1, RestTyped
<1>3. ASSUME NEW u \in Tabs PROVE TabOK(u)' /\ Honest(u)
  BY <1>3, TabWaits
<1> QED
  BY <1>2, <1>3 DEF TabsInv, Lands

(* A step of one tab: what it leaves of this tab decides. *)
LEMMA OneTabMoves ==
    ASSUME TabsInv, NEW t \in Tabs, NEW row \in TabRows, NEW as \in [Kinds -> AttemptRows],
           NEW gone \in SUBSET Sid, Moves(t, row, as, gone), Rest,
           RowOK(row, gone, server', issued'),
           \A k \in Kinds : AttemptOK(k, as[k], row, gone, server', issued'),
           Honest(t)
    PROVE  Lands
<1>1. /\ tab \in [Tabs -> TabRows] /\ attempt \in [Tabs -> [Kinds -> AttemptRows]]
      /\ left \in [Tabs -> SUBSET Sid]
  BY TabTypes DEF TabsInv
<1>2. /\ tab' \in [Tabs -> TabRows] /\ attempt' \in [Tabs -> [Kinds -> AttemptRows]]
      /\ left' \in [Tabs -> SUBSET Sid]
      /\ tab'[t] = row /\ attempt'[t] = as /\ left'[t] = gone
      /\ \A u \in Tabs \ {t} : tab'[u] = tab[u] /\ attempt'[u] = attempt[u] /\ left'[u] = left[u]
  BY <1>1 DEF Moves
<1>3. TabsTypeOK' /\ inbox' \in [Tabs -> Seq(MailUpTo(issued'))]
  BY <1>2, RestTyped
<1>4. ASSUME NEW u \in Tabs \ {t} PROVE TabOK(u)' /\ Honest(u)
  BY <1>2, <1>4, TabWaits
<1>5. TabOK(t)'
  BY <1>2 DEF TabOK
<1> QED
  BY <1>3, <1>4, <1>5 DEF TabsInv, Lands

(* A tab that only keeps or forgets its session is honest. *)
LEMMA LeavesIsHonest ==
    ASSUME TabsTypeOK, NEW t \in Tabs, Leaves(tab'[t], tab[t])
    PROVE  Honest(t)
<1>1. left[t] \subseteq Sid /\ 0 \notin Sid
  BY TabTypes DEF Sid
<1> QED
  BY <1>1 DEF Leaves, Keeps, Forgets, Honest

(* A step of a tab that keeps or forgets its session; each attempt is left as
   it was, begun, ended, or proved sound apart. *)
LEMMA TabLeaves ==
    ASSUME TabsInv, NEW t \in Tabs, NEW row \in TabRows, NEW as \in [Kinds -> AttemptRows],
           NEW gone \in SUBSET left[t], Moves(t, row, as, gone), Rest,
           Leaves(row, tab[t]),
           \A k \in Kinds : \/ as[k] = attempt[t][k]
                            \/ AttemptOK(k, as[k], row, gone, server', issued')
    PROVE  Lands
<1>1. /\ TabsTypeOK
      /\ tab \in [Tabs -> TabRows] /\ attempt \in [Tabs -> [Kinds -> AttemptRows]]
      /\ left[t] \in SUBSET Sid
      /\ tab[t] \in TabRows
  BY TabTypes DEF TabsInv
<1>2. issued' \in Nat /\ server' \in ServerRows /\ Grows(server', issued')
  BY TabTypes DEF Rest
<1>3. TabOK(t)
  BY DEF TabsInv
<1>4. RowOK(row, gone, server', issued') /\ row.order <= tab[t].order
  BY <1>1, <1>2, <1>3, RowStays DEF TabOK
<1>5. ASSUME NEW k \in Kinds
      PROVE  AttemptOK(k, as[k], row, gone, server', issued')
  <2>1. CASE as[k] = attempt[t][k]
    <3>1. AttemptOK(k, attempt[t][k], tab[t], left[t], server, issued) /\ attempt[t][k] \in AttemptRows
      BY <1>1, <1>3 DEF TabOK
    <3> QED
      BY <1>1, <1>2, <1>4, <2>1, <3>1, AttemptStays
  <2> QED
    BY <2>1
<1>6. Honest(t)
  <2>1. tab'[t] = row
    BY <1>1 DEF Moves
  <2> QED
    BY <1>1, <2>1, LeavesIsHonest
<1>7. gone \in SUBSET Sid
  BY <1>1
<1> QED
  BY <1>4, <1>5, <1>6, <1>7, OneTabMoves

(* b is a, stale. *)
Stales(b, a) ==
    /\ b.step = a.step
    /\ a.step # "idle" => b.stale /\ b.sid = a.sid /\ b.token = a.token

(* Attempts made stale are sound in any state of the tab. *)
LEMMA TabOutdated ==
    ASSUME TabsInv, NEW t \in Tabs, NEW row, NEW gone, NEW as \in [Kinds -> AttemptRows], Rest,
           \A k \in Kinds : \/ Stales(as[k], attempt[t][k])
                            \/ AttemptOK(k, as[k], row, gone, server', issued')
    PROVE  \A k \in Kinds : AttemptOK(k, as[k], row, gone, server', issued')
<1> SUFFICES ASSUME NEW k \in Kinds, Stales(as[k], attempt[t][k])
             PROVE  AttemptOK(k, as[k], row, gone, server', issued')
  OBVIOUS
<1>1. /\ TabsTypeOK /\ attempt[t][k] \in AttemptRows /\ as[k] \in AttemptRows
      /\ AttemptOK(k, attempt[t][k], tab[t], left[t], server, issued)
  BY TabTypes DEF TabsInv, TabOK
<1>2. issued' \in Nat /\ server' \in ServerRows /\ Grows(server', issued')
  BY TabTypes DEF Rest
<1> DEFINE a == attempt[t][k]
           b == as[k]
<1>3. b.step = a.step /\ (a.step # "idle" => b.stale /\ b.sid = a.sid /\ b.token = a.token)
  BY DEF Stales
<1> QED
  BY <1>1, <1>2, <1>3, AttemptOutdated

(* The tab takes a token. *)
LEMMA TabTakes ==
    ASSUME TabsInv, NEW t \in Tabs, NEW row \in TabRows, NEW as \in [Kinds -> AttemptRows],
           NEW gone \in SUBSET left[t], Moves(t, row, as, gone), Rest,
           NEW token \in AccessToken \ {NoToken}, Takes(row, token),
           token.n <= issued', server'[token.sid] # "unused",
           \A k \in Kinds : \/ Stales(as[k], attempt[t][k])
                            \/ AttemptOK(k, as[k], row, gone, server', issued'),
           \/ attempt[t]["unlock"].step = "ok"
           \/ /\ tab[t].order < token.n
              /\ \/ token.sid = tab[t].sid
                 \/ token.sid \notin left[t] /\ inbox'[t] = inbox[t]
    PROVE  Lands
<1>1. /\ TabsTypeOK /\ left[t] \in SUBSET Sid /\ gone \in SUBSET Sid
      /\ tab \in [Tabs -> TabRows] /\ left \in [Tabs -> SUBSET Sid] /\ TabOK(t)
  BY TabTypes DEF TabsInv
<1>2. tab'[t] = row /\ left'[t] = gone
  BY <1>1 DEF Moves
<1>3. RowOK(row, gone, server', issued')
  <2>1. \A s \in gone : server'[s] # "unused"
    BY <1>1 DEF TabOK, RowOK, Rest, Grows
  <2> QED
    BY <2>1 DEF RowOK, Takes
<1>4. Honest(t)
  <2>1. tab[t].order \in Nat /\ token.n \in Nat
    BY <1>1, TabTypes DEF TabRows, AccessToken
  <2> QED
    BY <1>2, <2>1 DEF Honest, Takes
<1>5. \A k \in Kinds : AttemptOK(k, as[k], row, gone, server', issued')
  BY TabOutdated
<1> QED
  BY <1>1, <1>3, <1>4, <1>5, OneTabMoves

(* The tab is signed out. *)
LEMMA TabEnds ==
    ASSUME TabsInv, NEW t \in Tabs, NEW row \in TabRows, NEW as \in [Kinds -> AttemptRows],
           tab' = [tab EXCEPT ![t] = row], attempt' = [attempt EXCEPT ![t] = as], Told(t), Rest,
           Forgets(row),
           \A k \in Kinds : Stales(as[k], attempt[t][k]) \/ as[k] \in {Resting, Asked(0)}
    PROVE  Lands
<1> DEFINE gone == left[t] \cup ({tab[t].sid} \ {0})
<1>1. /\ TabsTypeOK /\ left[t] \in SUBSET Sid /\ tab[t] \in TabRows
      /\ tab \in [Tabs -> TabRows] /\ TabOK(t)
  BY TabTypes DEF TabsInv
<1>2. gone \in SUBSET Sid /\ 0 \notin gone
  BY <1>1, TabTypes DEF TabRows, Sid
<1>3. Moves(t, row, as, gone)
  BY DEF Told, Moves
<1>4. RowOK(row, gone, server', issued')
  <2>1. \A s \in gone : server[s] # "unused" /\ s \in Sid
    BY <1>1, <1>2 DEF TabOK, RowOK
  <2>2. 0 <= issued'
    BY TabTypes DEF Rest
  <2> QED
    BY <2>1, <2>2 DEF RowOK, Forgets, Rest, Grows
<1> HIDE DEF gone
<1>5. Honest(t)
  <2>1. tab'[t] = row
    BY <1>1
  <2> QED
    BY <1>1, <2>1, LeavesIsHonest DEF Leaves
<1>6. ASSUME NEW k \in Kinds
      PROVE  Stales(as[k], attempt[t][k]) \/ AttemptOK(k, as[k], row, gone, server', issued')
  <2>1. 0 \in 0..Sessions
    BY TabTypes
  <2>2. AttemptOK(k, Resting, row, gone, server', issued')
    BY <2>1, AttemptBegins
  <2>3. AttemptOK(k, Asked(0), row, gone, server', issued')
    BY <1>2, <2>1, AttemptBegins
  <2>4. Stales(as[k], attempt[t][k]) \/ as[k] = Resting \/ as[k] = Asked(0)
    OBVIOUS
  <2>5. as[k] = Resting \/ as[k] = Asked(0) => AttemptOK(k, as[k], row, gone, server', issued')
    BY <2>2, <2>3, Zenon
  <2> QED
    BY <2>4, <2>5
<1>7. \A k \in Kinds : AttemptOK(k, as[k], row, gone, server', issued')
  BY <1>6, TabOutdated
<1> QED
  BY <1>2, <1>3, <1>4, <1>5, <1>7, OneTabMoves

(***************************************************************************)
(* The rest of a step.                                                     *)
(***************************************************************************)
(* Troubles are bounded. *)
LEMMA TroubleCounts ==
    ASSUME TabsTypeOK, Trouble \/ UNCHANGED troubles
    PROVE  troubles' \in 0..Troubles
BY TabTypes DEF Trouble

(* The rest of a step that neither sends, issues nor serves. *)
LEMMA RestWaits ==
    ASSUME TabsInv, UNCHANGED <<inbox, server, issued>>, cookie' \in 0..Sessions,
           troubles' \in 0..Troubles
    PROVE  Rest
<1>1. /\ TabsTypeOK /\ issued \in Nat /\ issued <= issued /\ server \in ServerRows
      /\ issued \in 0..Tokens
  BY TabTypes DEF TabsInv
<1>2. inbox' \in [Tabs -> Seq(MailUpTo(issued))]
  BY DEF TabsInv
<1> QED
  BY <1>1, <1>2 DEF Rest, Grows

(* The rest of a step that sends a message. *)
LEMMA RestSends ==
    ASSUME TabsInv, UNCHANGED <<server, issued>>, cookie' \in 0..Sessions,
           troubles' \in 0..Troubles, NEW t \in Tabs, NEW m \in MailUpTo(issued), Broadcast(t, m)
    PROVE  Rest /\ inbox'[t] = inbox[t]
<1>1. /\ TabsTypeOK /\ issued \in Nat /\ issued <= issued /\ server \in ServerRows
      /\ issued \in 0..Tokens /\ inbox \in [Tabs -> Seq(MailUpTo(issued))]
  BY TabTypes DEF TabsInv
<1>2. inbox' \in [Tabs -> Seq(MailUpTo(issued))] /\ inbox'[t] = inbox[t]
  BY <1>1, MailSent
<1> QED
  BY <1>1, <1>2 DEF Rest, Grows

(* The messages. *)
LEMMA Letters ==
    ASSUME NEW n \in Nat
    PROVE  /\ \A token \in AccessToken \ {NoToken} :
                 token.n <= n => [type |-> "ACCESS_UPDATED", token |-> token] \in MailUpTo(n)
           /\ \A s \in 0..Sessions, type \in {"LOGGED_OUT", "LOCKED"} :
                 [type |-> type, sid |-> s] \in MailUpTo(n)
BY DEF MailUpTo, Message

(* left after a step that asks, and what is unchanged as an update. *)
LEMMA Unasked ==
    ASSUME TabsTypeOK, NEW t \in Tabs, NEW c
    PROVE  /\ AsksFor(t, c) => left' = [left EXCEPT ![t] = left[t] \ {c}]
           /\ UNCHANGED left => left' = [left EXCEPT ![t] = left[t]]
           /\ UNCHANGED tab => tab' = [tab EXCEPT ![t] = tab[t]]
           /\ UNCHANGED attempt => attempt' = [attempt EXCEPT ![t] = attempt[t]]
<1>1. /\ tab \in [Tabs -> TabRows] /\ attempt \in [Tabs -> [Kinds -> AttemptRows]]
      /\ left \in [Tabs -> SUBSET Sid]
  BY TabTypes
<1> QED
  BY <1>1 DEF AsksFor

(***************************************************************************)
(* A promise that rejects.                                                 *)
(***************************************************************************)
Outcomes == {"superseded", "race", "unavailable", "gone", "limited", "lost", "locked"}

(* A promise that rejects ends its attempt, may begin the bootstrap again, and the
   tab keeps its session or forgets it. *)
LEMMA RejectEffect ==
    ASSUME TabsTypeOK, NEW t \in Tabs, NEW k \in Kinds, NEW outcome \in Outcomes,
           NEW state \in TabRows, NEW as \in [Kinds -> AttemptRows],
           NEW cookies \in 0..Sessions, Reject(t, k, outcome, state, as, cookies)
    PROVE  \E row \in TabRows, bs \in [Kinds -> AttemptRows] :
              /\ tab' = [tab EXCEPT ![t] = row] /\ Leaves(row, state)
              /\ attempt' = [attempt EXCEPT ![t] = bs]
              /\ \A j \in Kinds : \/ bs[j] = as[j]
                                  \/ bs[j] = Resting
                                  \/ k = "once" /\ state.again /\ bs[j] = Asked(cookies)
<1> DEFINE fails == IF k = "once" THEN {AfterOnce(state, outcome)}
                    ELSE IF as[k].fenced THEN {state}
                    ELSE IF outcome = "limited" THEN BootLimited(state)
                    ELSE {AfterBoot(state, outcome)}
           boot == IF k = "once" /\ state.again THEN Asked(cookies)
                   ELSE IF k = "boot" THEN Resting ELSE as["boot"]
           bs == [as EXCEPT ![k] = Resting, !["boot"] = boot]
<1>1. PICK row \in fails : tab' = [tab EXCEPT ![t] = row]
  BY DEF Reject
<1>2. attempt' = [attempt EXCEPT ![t] = bs]
  BY DEF Reject
<1>3. row \in TabRows /\ Leaves(row, state)
  <2>1. CASE k = "once"
    BY <2>1, AfterOnceEffect
  <2>2. CASE k # "once" /\ as[k].fenced
    BY <2>2 DEF Leaves, Keeps
  <2>3. CASE k # "once" /\ ~as[k].fenced /\ outcome = "limited"
    BY <2>3, BootLimitedEffect DEF Leaves
  <2>4. CASE k # "once" /\ ~as[k].fenced /\ outcome # "limited"
    <3>1. outcome \in {"gone", "locked", "race", "unavailable", "lost", "superseded"}
      BY <2>4 DEF Outcomes
    <3> QED
      BY <2>4, <3>1, AfterBootEffect DEF Leaves
  <2> QED
    BY <2>1, <2>2, <2>3, <2>4
<1>4. Resting \in AttemptRows /\ Asked(cookies) \in AttemptRows
  BY RestingOK
<1>5. bs \in [Kinds -> AttemptRows]
  BY <1>4
<1> HIDE DEF fails
<1>6. ASSUME NEW j \in Kinds
      PROVE  bs[j] = as[j] \/ bs[j] = Resting \/ (k = "once" /\ state.again /\ bs[j] = Asked(cookies))
  <2>1. as \in [Kinds -> AttemptRows] /\ j \in Kinds
    OBVIOUS
  <2>2. boot \in {as["boot"], Resting} \/ (k = "once" /\ state.again /\ boot = Asked(cookies))
    OBVIOUS
  <2> HIDE DEF boot
  <2>3. bs[j] = IF j = "boot" THEN boot ELSE IF j = k THEN Resting ELSE as[j]
    BY <2>1
  <2> QED
    BY <2>2, <2>3
<1> HIDE DEF bs
<1> QED
  BY <1>1, <1>2, <1>3, <1>5, <1>6

(* A promise that rejects and signs nobody out. *)
LEMMA RejectLands ==
    ASSUME TabsInv, NEW t \in Tabs, NEW k \in Kinds, NEW outcome \in Outcomes,
           NEW state \in TabRows, Keeps(state, tab[t]), state.again = tab[t].again,
           NEW cookies \in 0..Sessions,
           Reject(t, k, outcome, state, attempt[t], cookies), FollowUp(t, k, cookies), Rest
    PROVE  Lands
<1>1. TabsTypeOK /\ attempt[t] \in [Kinds -> AttemptRows] /\ left[t] \in SUBSET Sid
  BY TabTypes DEF TabsInv
<1>2. PICK row \in TabRows, bs \in [Kinds -> AttemptRows] :
              /\ tab' = [tab EXCEPT ![t] = row] /\ Leaves(row, state)
              /\ attempt' = [attempt EXCEPT ![t] = bs]
              /\ \A j \in Kinds : \/ bs[j] = attempt[t][j]
                                  \/ bs[j] = Resting
                                  \/ k = "once" /\ state.again /\ bs[j] = Asked(cookies)
  BY <1>1, RejectEffect
<1>3. PICK gone \in SUBSET left[t] :
              /\ left' = [left EXCEPT ![t] = gone]
              /\ k = "once" /\ state.again => cookies \notin gone
  <2>1. CASE k = "once" /\ tab[t].again
    <3>1. left' = [left EXCEPT ![t] = left[t] \ {cookies}]
      BY <1>1, <2>1, Unasked DEF FollowUp
    <3>2. left[t] \ {cookies} \in SUBSET left[t] /\ cookies \notin left[t] \ {cookies}
      OBVIOUS
    <3> QED
      BY <3>1, <3>2
  <2>2. CASE ~(k = "once" /\ tab[t].again)
    <3>1. left' = [left EXCEPT ![t] = left[t]]
      BY <1>1, <2>2, Unasked DEF FollowUp
    <3> QED
      BY <2>2, <3>1
  <2> QED
    BY <2>1, <2>2
<1>4. Leaves(row, tab[t])
  BY <1>2 DEF Leaves, Keeps
<1>5. ASSUME NEW j \in Kinds
      PROVE  bs[j] = attempt[t][j] \/ AttemptOK(j, bs[j], row, gone, server', issued')
  <2>1. AttemptOK(j, Resting, row, gone, server', issued')
    BY AttemptBegins
  <2>2. k = "once" /\ state.again => AttemptOK(j, Asked(cookies), row, gone, server', issued')
    BY <1>3, AttemptBegins
  <2> QED
    BY <1>2, <2>1, <2>2, Zenon
<1>6. Moves(t, row, bs, gone)
  BY <1>2, <1>3 DEF Moves
<1> QED
  BY <1>4, <1>5, <1>6, TabLeaves

(* An attempt that stays under way, with no answer or another one. *)
LEMMA AttemptTurns ==
    ASSUME NEW k \in Kinds, NEW a, NEW b, NEW row, NEW gone, NEW sv, NEW n, NEW r, NEW sw, NEW m,
           AttemptOK(k, a, row, gone, sv, n), a.step # "idle",
           b.step # "ok", b.stale = a.stale, b.sid = a.sid
    PROVE  AttemptOK(k, b, r, gone, sw, m)
BY DEF AttemptOK

(* A step that changes one attempt of a tab. *)
LEMMA AttemptMoves ==
    ASSUME TabsInv, NEW t \in Tabs, NEW k \in Kinds, NEW b \in AttemptRows, NEW row \in TabRows,
           NEW gone \in SUBSET left[t],
           Moves(t, row, [attempt[t] EXCEPT ![k] = b], gone), Rest, Leaves(row, tab[t]),
           AttemptOK(k, b, row, gone, server', issued')
    PROVE  Lands
<1> DEFINE as == [attempt[t] EXCEPT ![k] = b]
<1>1. attempt[t] \in [Kinds -> AttemptRows]
  BY TabTypes DEF TabsInv
<1>2. as \in [Kinds -> AttemptRows]
  BY <1>1
<1>3. \A j \in Kinds : as[j] = attempt[t][j] \/ AttemptOK(j, as[j], row, gone, server', issued')
  BY <1>1
<1> HIDE DEF as
<1> QED
  BY <1>2, <1>3, TabLeaves DEF as

(***************************************************************************)
(* The actions.                                                            *)
(***************************************************************************)
(* What the invariant says of a tab. *)
LEMMA TabNow ==
    ASSUME TabsInv, NEW t \in Tabs
    PROVE  /\ TabsTypeOK
           /\ tab[t] \in TabRows /\ Keeps(tab[t], tab[t])
           /\ attempt[t] \in [Kinds -> AttemptRows]
           /\ left[t] \in SUBSET Sid
           /\ cookie \in 0..Sessions /\ issued \in 0..Tokens /\ issued \in Nat
           /\ server \in ServerRows /\ troubles \in 0..Troubles
           /\ RowOK(tab[t], left[t], server, issued)
           /\ \A k \in Kinds : /\ attempt[t][k] \in AttemptRows
                               /\ AttemptOK(k, attempt[t][k], tab[t], left[t], server, issued)
BY TabTypes DEF TabsInv, TabOK, Keeps

(* refreshOnce begins, or is joined. *)
LEMMA BeginOnceLands ==
    ASSUME TabsInv, NEW t \in Tabs, NEW state \in TabRows, Keeps(state, tab[t]),
           BeginOnce(t, state), UNCHANGED <<inbox, server, cookie, issued, troubles>>
    PROVE  Lands
<1>1. TabsTypeOK /\ attempt[t] \in [Kinds -> AttemptRows] /\ left[t] \in SUBSET left[t]
  BY TabNow
<1>2. Rest
  BY TabNow, RestWaits
<1>3. CASE attempt[t]["once"].step = "idle"
  <2> DEFINE row == [state EXCEPT !.phase = "refreshing"]
             gone == left[t] \ {cookie}
  <2>1. row \in TabRows /\ Leaves(row, tab[t])
    BY DEF TabRows, Phases, Holding, Leaves, Keeps
  <2>2. Moves(t, row, [attempt[t] EXCEPT !["once"] = Asked(cookie)], gone)
    BY <1>1, <1>3, Unasked DEF BeginOnce, Joined, Moves
  <2>3. Asked(cookie) \in AttemptRows /\ "once" \in Kinds /\ cookie \in 0..Sessions
    BY TabNow, RestingOK DEF Kinds
  <2>4. gone \in SUBSET left[t] /\ cookie \notin gone
    OBVIOUS
  <2> HIDE DEF row, gone
  <2>5. AttemptOK("once", Asked(cookie), row, gone, server', issued')
    BY <2>3, <2>4, AttemptBegins
  <2> QED
    BY <1>2, <2>1, <2>2, <2>3, <2>4, <2>5, AttemptMoves
<1>4. CASE attempt[t]["once"].step # "idle"
  <2>1. Moves(t, state, attempt[t], left[t])
    BY <1>1, <1>4, Unasked DEF BeginOnce, Joined, Moves
  <2> QED
    BY <1>1, <1>2, <2>1, TabLeaves DEF Leaves
<1> QED
  BY <1>3, <1>4

(* RefreshOnce keeps the invariant, and both action properties; likewise below. *)
LEMMA RefreshOnceLands ==
    ASSUME TabsInv, NEW t \in Tabs, RefreshOnce(t)
    PROVE  Lands
BY TabNow, BeginOnceLands DEF RefreshOnce

(* retryBootstrap. *)
LEMMA RetryLands ==
    ASSUME TabsInv, NEW t \in Tabs, Retry(t)
    PROVE  Lands
<1> DEFINE state == [tab[t] EXCEPT !.phase = "initializing", !.again = TRUE]
<1>1. tab[t] \in TabRows
  BY TabNow
<1>2. state \in TabRows /\ Keeps(state, tab[t])
  BY <1>1 DEF TabRows, Phases, Holding, Keeps
<1>3. BeginOnce(t, state) /\ UNCHANGED <<inbox, server, cookie, issued, troubles>>
  BY DEF Retry
<1> HIDE DEF state
<1> QED
  BY <1>2, <1>3, BeginOnceLands

(* unlockIdleSession asks. *)
LEMMA UnlockIdleLands ==
    ASSUME TabsInv, NEW t \in Tabs, UnlockIdle(t)
    PROVE  Lands
<1> DEFINE b == [Asked(cookie) EXCEPT !.token = tab[t].token]
<1>1. /\ TabsTypeOK /\ cookie \in 0..Sessions /\ tab[t] \in TabRows
      /\ attempt[t] \in [Kinds -> AttemptRows] /\ Leaves(tab[t], tab[t])
      /\ "unlock" \in Kinds
  BY TabNow DEF Leaves, Kinds
<1>2. Asked(cookie) \in AttemptRows /\ Asked(cookie).step = "asked"
  BY <1>1, RestingOK
<1>3. b \in AttemptRows /\ b.step = "asked"
  BY <1>1, <1>2 DEF AttemptRows, TabRows
<1>4. Rest
  BY TabNow, RestWaits DEF UnlockIdle
<1>5. attempt' = [attempt EXCEPT ![t] = [attempt[t] EXCEPT !["unlock"] = b]]
  BY DEF UnlockIdle
<1> HIDE DEF b
<1>6. Moves(t, tab[t], [attempt[t] EXCEPT !["unlock"] = b], left[t])
  BY <1>1, <1>5, Unasked DEF UnlockIdle, Moves
<1>7. AttemptOK("unlock", b, tab[t], left[t], server', issued')
  BY <1>3 DEF AttemptOK
<1>8. left[t] \in SUBSET left[t]
  OBVIOUS
<1> QED
  BY <1>1, <1>3, <1>4, <1>6, <1>7, <1>8, AttemptMoves

(* An attempt that stays under way and issues nothing. *)
LEMMA TurnLands ==
    ASSUME TabsInv, NEW t \in Tabs, NEW k \in Kinds, NEW b \in AttemptRows,
           attempt[t][k].step # "idle", b.step # "ok",
           b.stale = attempt[t][k].stale, b.sid = attempt[t][k].sid,
           NEW row \in TabRows, Leaves(row, tab[t]),
           Moves(t, row, [attempt[t] EXCEPT ![k] = b], left[t]),
           UNCHANGED <<inbox, server, cookie, issued>>, Trouble \/ UNCHANGED troubles
    PROVE  Lands
<1>1. /\ TabsTypeOK /\ cookie \in 0..Sessions
      /\ AttemptOK(k, attempt[t][k], tab[t], left[t], server, issued)
  BY TabNow
<1>2. Rest
  BY <1>1, TroubleCounts, RestWaits
<1>3. AttemptOK(k, b, row, left[t], server', issued')
  BY <1>1, AttemptTurns
<1>4. left[t] \in SUBSET left[t]
  OBVIOUS
<1> QED
  BY <1>2, <1>3, <1>4, AttemptMoves

(* An answer that issues nothing, or the loss of one, with its trouble. *)
LEMMA AnswerLands ==
    ASSUME TabsInv, NEW t \in Tabs, NEW k \in Kinds, NEW step \in {"racing"} \cup (Answers \ {"ok"}),
           attempt[t][k].step # "idle", attempt' = [attempt EXCEPT ![t][k].step = step],
           UNCHANGED <<tab, inbox, server, cookie, issued, left>>, Trouble \/ UNCHANGED troubles
    PROVE  Lands
<1> DEFINE a == attempt[t][k]
           b == [a EXCEPT !.step = step]
<1>1. /\ TabsTypeOK /\ tab[t] \in TabRows /\ a \in AttemptRows /\ Leaves(tab[t], tab[t])
      /\ attempt[t] \in [Kinds -> AttemptRows]
  BY TabNow DEF Leaves
<1>2. b \in AttemptRows /\ b.step # "ok" /\ b.stale = a.stale /\ b.sid = a.sid
  BY <1>1 DEF AttemptRows, Answers
<1>3. attempt' = [attempt EXCEPT ![t] = [attempt[t] EXCEPT ![k] = b]]
  BY <1>1
<1> HIDE DEF b
<1>4. Moves(t, tab[t], [attempt[t] EXCEPT ![k] = b], left[t])
  BY <1>1, <1>3, Unasked DEF Moves
<1> QED
  BY <1>1, <1>2, <1>4, TurnLands

(* The call is lost. *)
LEMMA LoseCallLands ==
    ASSUME TabsInv, NEW t \in Tabs, NEW k \in Kinds, LoseCall(t, k)
    PROVE  Lands
<1>1. "lost" \in Answers \ {"ok"} /\ attempt[t][k].step # "idle"
  BY DEF LoseCall, Answers
<1> QED
  BY <1>1, AnswerLands DEF LoseCall

(* A refresh or an unlock that issues a token. *)
LEMMA IssueLands ==
    ASSUME TabsInv, NEW t \in Tabs, NEW k \in Kinds, attempt[t][k].step = "asked",
           attempt[t][k].sid \in Sid, issued < Tokens, issued' = issued + 1,
           attempt' = [attempt EXCEPT ![t][k].step = "ok",
                         ![t][k].token = [sid |-> attempt[t][k].sid, n |-> issued + 1]],
           server' \in ServerRows, Grows(server', issued), server'[attempt[t][k].sid] # "unused",
           UNCHANGED <<tab, inbox, cookie, left, troubles>>
    PROVE  Lands
<1> DEFINE a == attempt[t][k]
           token == [sid |-> a.sid, n |-> issued + 1]
           b == [a EXCEPT !.step = "ok", !.token = token]
<1>1. /\ TabsTypeOK /\ a \in AttemptRows /\ AttemptOK(k, a, tab[t], left[t], server, issued)
      /\ tab[t] \in TabRows /\ Leaves(tab[t], tab[t]) /\ RowOK(tab[t], left[t], server, issued)
      /\ cookie \in 0..Sessions /\ issued \in Nat /\ troubles \in 0..Troubles
      /\ attempt[t] \in [Kinds -> AttemptRows]
  BY TabNow DEF Leaves
<1>2. issued' \in Nat /\ issued <= issued' /\ issued' \in 0..Tokens /\ issued + 1 \in 1..Tokens
  BY <1>1, TabTypes
<1>3. Rest
  <2>1. inbox' \in [Tabs -> Seq(MailUpTo(issued'))]
    BY <1>1, <1>2, MailWaits DEF TabsInv
  <2> QED
    BY <1>1, <1>2, <2>1 DEF Rest, Grows
<1>4. /\ token \in AccessToken /\ token # NoToken
      /\ token.sid = a.sid /\ token.n = issued'
  BY <1>2 DEF AccessToken, NoToken, Sid
<1>5. attempt' = [attempt EXCEPT ![t] = [attempt[t] EXCEPT ![k] = b]]
  BY <1>1
<1>6. b \in AttemptRows /\ b.step = "ok" /\ b.token = token /\ b.sid = a.sid /\ b.stale = a.stale
  <2> HIDE DEF token
  <2> QED
    BY <1>1, <1>4 DEF AttemptRows, Answers
<1> HIDE DEF b, token
<1>7. tab[t].order < issued'
  <2>1. tab[t].order \in Nat /\ tab[t].order <= issued
    BY <1>1, TabTypes DEF TabRows, RowOK
  <2> QED
    BY <1>1, <2>1
<1>8. AttemptOK(k, b, tab[t], left[t], server', issued')
  BY <1>1, <1>2, <1>4, <1>6, <1>7 DEF AttemptOK
<1>9. Moves(t, tab[t], [attempt[t] EXCEPT ![k] = b], left[t])
  BY <1>1, <1>5, Unasked DEF Moves
<1>10. left[t] \in SUBSET left[t]
  OBVIOUS
<1> QED
  BY <1>1, <1>3, <1>6, <1>8, <1>9, <1>10, AttemptMoves

(* The server answers a refresh or an unlock. *)
LEMMA ServeLands ==
    ASSUME TabsInv, NEW t \in Tabs, NEW k \in Kinds, Serve(t, k)
    PROVE  Lands
<1> DEFINE a == attempt[t][k]
           Issue == /\ issued < Tokens
                    /\ issued' = issued + 1
                    /\ attempt' = [attempt EXCEPT ![t][k].step = "ok",
                          ![t][k].token = [sid |-> a.sid, n |-> issued + 1]]
<1>1. /\ TabsTypeOK /\ a \in AttemptRows /\ server \in ServerRows /\ issued \in Nat
  BY TabNow
<1>2. a.step = "asked" /\ UNCHANGED <<tab, inbox, cookie, left>>
  BY DEF Serve
<1>3. ASSUME State(a.sid) \in {"active", "locked"}
      PROVE  a.sid \in Sid /\ server[a.sid] # "unused"
  BY <1>1, <1>3, TabTypes DEF State, AttemptRows, Sid
<1>4. ASSUME State(a.sid) = "active", Issue, UNCHANGED <<server, troubles>>
      PROVE  Lands
  <2>1. server' \in ServerRows /\ Grows(server', issued) /\ a.sid \in Sid /\ server'[a.sid] # "unused"
    BY <1>1, <1>3, <1>4 DEF Grows
  <2> QED
    BY <1>2, <1>4, <2>1, IssueLands
<1>5. ASSUME State(a.sid) = "locked", Issue, server' = [server EXCEPT ![a.sid] = "active"],
             UNCHANGED troubles
      PROVE  Lands
  <2>1. server' \in ServerRows /\ Grows(server', issued) /\ a.sid \in Sid /\ server'[a.sid] # "unused"
    BY <1>1, <1>3, <1>5 DEF Grows, ServerRows
  <2> QED
    BY <1>2, <1>5, <2>1, IssueLands
<1>6. ASSUME NEW step \in Answers \ {"ok"}, attempt' = [attempt EXCEPT ![t][k].step = step],
             UNCHANGED <<server, issued>>, Trouble \/ UNCHANGED troubles
      PROVE  Lands
  BY <1>2, <1>6, AnswerLands
<1>7. {"refused", "locked", "gone", "race", "unavailable", "limited", "lost"} = Answers \ {"ok"}
  BY DEF Answers
<1> QED
  BY <1>4, <1>5, <1>6, <1>7 DEF Serve

(* Outdated makes every attempt stale. *)
LEMMA NowOutdated ==
    ASSUME TabsInv, NEW t \in Tabs
    PROVE  /\ Outdated(attempt[t]) \in [Kinds -> AttemptRows]
           /\ \A k \in Kinds : Stales(Outdated(attempt[t])[k], attempt[t][k])
BY TabNow, OutdatedEffect DEF Stales

(* What an answer "ok" is worth. *)
LEMMA AnswerOK ==
    ASSUME TabsInv, NEW t \in Tabs, NEW k \in Kinds, attempt[t][k].step = "ok"
    PROVE  /\ attempt[t][k].token \in AccessToken \ {NoToken}
           /\ attempt[t][k].token.sid = attempt[t][k].sid
           /\ attempt[t][k].token.n <= issued
           /\ attempt[t][k].sid \in 0..Sessions
           /\ server[attempt[t][k].sid] # "unused"
BY TabNow DEF AttemptOK, AttemptRows

(* The answer of a refresh that is current is installed. *)
LEMMA InstallLands ==
    ASSUME TabsInv, NEW t \in Tabs, NEW k \in Kinds, Install(t, k)
    PROVE  Lands
<1> DEFINE a == attempt[t][k]
           state == Installed(tab[t], a.token)
           row == IF k = "once" THEN AfterOnce(state, "ok") ELSE state
           boot == IF k = "once" /\ state.again THEN Asked(a.sid)
                   ELSE IF k = "boot" THEN Resting ELSE Outdated(attempt[t])["boot"]
           as == [Outdated(attempt[t]) EXCEPT ![k] = Resting, !["boot"] = boot]
<1>1. /\ TabsTypeOK /\ tab[t] \in TabRows /\ attempt[t] \in [Kinds -> AttemptRows]
      /\ left[t] \in SUBSET Sid /\ troubles \in 0..Troubles /\ issued \in Nat
      /\ AttemptOK(k, a, tab[t], left[t], server, issued)
  BY TabNow
<1>2. k # "unlock" /\ a.step = "ok" /\ ~a.stale
  BY DEF Install, Current
<1>3. /\ tab' = [tab EXCEPT ![t] = row] /\ attempt' = [attempt EXCEPT ![t] = as]
      /\ cookie' = a.sid /\ FollowUp(t, k, a.sid)
      /\ Broadcast(t, [type |-> "ACCESS_UPDATED", token |-> a.token])
      /\ UNCHANGED <<server, issued, troubles>>
  BY DEF Install
<1>4. /\ a.token \in AccessToken \ {NoToken} /\ a.token.sid = a.sid /\ a.token.n <= issued
      /\ a.sid \in 0..Sessions /\ server[a.sid] # "unused"
  BY <1>2, AnswerOK
<1>5. tab[t].order < a.token.n /\ a.sid \notin left[t]
  BY <1>1, <1>2 DEF AttemptOK
<1>6. state \in TabRows /\ Takes(state, a.token) /\ state.again = tab[t].again
  BY <1>1, <1>4, InstalledEffect
<1>7. row \in TabRows /\ Takes(row, a.token)
  <2> HIDE DEF state
  <2>1. /\ AfterOnce(state, "ok") \in TabRows
        /\ Keeps(AfterOnce(state, "ok"), state) /\ AfterOnce(state, "ok").token = state.token
    BY <1>6, AfterOnceEffect
  <2> QED
    BY <1>6, <2>1 DEF Takes, Keeps
<1>8. [type |-> "ACCESS_UPDATED", token |-> a.token] \in MailUpTo(issued)
  BY <1>1, <1>4, Letters
<1>9. Rest /\ inbox'[t] = inbox[t]
  BY <1>1, <1>3, <1>4, <1>8, RestSends
<1>10. PICK gone \in SUBSET left[t] : left' = [left EXCEPT ![t] = gone]
  <2>1. left' = [left EXCEPT ![t] = left[t] \ {a.sid}] \/ left' = [left EXCEPT ![t] = left[t]]
    BY <1>1, <1>3, Unasked DEF FollowUp
  <2>2. left[t] \ {a.sid} \in SUBSET left[t] /\ left[t] \in SUBSET left[t]
    OBVIOUS
  <2> QED
    BY <2>1, <2>2
<1>11. /\ Outdated(attempt[t]) \in [Kinds -> AttemptRows]
       /\ \A j \in Kinds : Stales(Outdated(attempt[t])[j], attempt[t][j])
  BY NowOutdated
<1> HIDE DEF row, state
<1>12. Resting \in AttemptRows /\ Asked(a.sid) \in AttemptRows
  BY <1>4, RestingOK
<1>13. boot \in {Outdated(attempt[t])["boot"], Resting, Asked(a.sid)} /\ boot \in AttemptRows
  BY <1>11, <1>12 DEF Kinds
<1>14. ASSUME NEW j \in Kinds
       PROVE  as[j] = Outdated(attempt[t])[j] \/ as[j] = Resting \/ as[j] = Asked(a.sid)
  <2> HIDE DEF boot
  <2>1. as[j] = IF j = "boot" THEN boot ELSE IF j = k THEN Resting ELSE Outdated(attempt[t])[j]
    BY <1>11
  <2> QED
    BY <1>13, <2>1
<1>15. as \in [Kinds -> AttemptRows]
  <2> HIDE DEF boot
  <2> QED
    BY <1>11, <1>12, <1>13
<1> HIDE DEF as, boot
<1>16. ASSUME NEW j \in Kinds
       PROVE  Stales(as[j], attempt[t][j]) \/ AttemptOK(j, as[j], row, gone, server', issued')
  <2>1. a.sid \notin gone
    BY <1>5
  <2>2. AttemptOK(j, Resting, row, gone, server', issued') /\ AttemptOK(j, Asked(a.sid), row, gone, server', issued')
    BY <1>4, <2>1, AttemptBegins
  <2>3. Stales(Outdated(attempt[t])[j], attempt[t][j])
    BY <1>11
  <2> QED
    BY <1>14, <2>2, <2>3, Zenon
<1>17. Moves(t, row, as, gone)
  BY <1>3, <1>10 DEF Moves
<1>18. PICK token \in AccessToken \ {NoToken} : token = a.token
  BY <1>4
<1>19. /\ Takes(row, token) /\ token.n <= issued' /\ server'[token.sid] # "unused"
       /\ tab[t].order < token.n /\ token.sid \notin left[t] /\ inbox'[t] = inbox[t]
  BY <1>3, <1>4, <1>5, <1>7, <1>9, <1>18
<1> QED
  BY <1>7, <1>9, <1>15, <1>16, <1>17, <1>19, TabTakes

(* The answer of a stale refresh is dropped, though its cookies are set. *)
LEMMA SupersededLands ==
    ASSUME TabsInv, NEW t \in Tabs, NEW k \in Kinds, Superseded(t, k)
    PROVE  Lands
<1> DEFINE a == attempt[t][k]
           cookies == IF a.step = "ok" THEN a.sid ELSE IF a.step = "gone" THEN 0 ELSE cookie
<1>1. /\ TabsTypeOK /\ tab[t] \in TabRows /\ Keeps(tab[t], tab[t])
      /\ a \in AttemptRows /\ cookie \in 0..Sessions /\ troubles \in 0..Troubles
  BY TabNow
<1>2. cookies \in 0..Sessions
  BY <1>1, TabTypes DEF AttemptRows
<1>3. /\ cookie' = cookies /\ Reject(t, k, "superseded", tab[t], attempt[t], cookies)
      /\ FollowUp(t, k, cookies) /\ UNCHANGED <<inbox, server, issued, troubles>>
  BY DEF Superseded
<1> HIDE DEF cookies
<1>4. Rest
  BY <1>1, <1>2, <1>3, RestWaits
<1>5. "superseded" \in Outcomes
  BY DEF Outcomes
<1> QED
  BY <1>1, <1>2, <1>3, <1>4, <1>5, RejectLands

(* A tab that is offline, or locked, is on the same session. *)
LEMMA OfflineEffect ==
    ASSUME NEW row \in TabRows
    PROVE  LET r == [row EXCEPT !.phase = "offline-stale"]
           IN  r \in TabRows /\ Keeps(r, row) /\ r.again = row.again
BY DEF TabRows, Keeps, Phases, Retryable

(* Another tab has won the race. *)
LEMMA RaceLands ==
    ASSUME TabsInv, NEW t \in Tabs, NEW k \in Kinds, Race(t, k)
    PROVE  Lands
<1> DEFINE state == [tab[t] EXCEPT !.phase = "offline-stale"]
<1>1. /\ TabsTypeOK /\ tab[t] \in TabRows /\ cookie \in 0..Sessions /\ troubles \in 0..Troubles
  BY TabNow
<1>2. UNCHANGED <<inbox, server, cookie, issued, troubles>> /\ attempt[t][k].step = "race"
  BY DEF Race
<1>3. CASE attempt[t][k].retried
  <2>1. Reject(t, k, "race", state, attempt[t], cookie) /\ FollowUp(t, k, cookie)
    BY <1>3 DEF Race
  <2>2. state \in TabRows /\ Keeps(state, tab[t]) /\ state.again = tab[t].again
    BY <1>1, OfflineEffect
  <2> HIDE DEF state
  <2>3. Rest /\ "race" \in Outcomes
    BY <1>1, <1>2, RestWaits DEF Outcomes
  <2> QED
    BY <1>1, <2>1, <2>2, <2>3, RejectLands
<1>4. CASE ~attempt[t][k].retried
  <2>1. attempt' = [attempt EXCEPT ![t][k].step = "racing"] /\ UNCHANGED <<tab, left>>
    BY <1>4 DEF Race
  <2> QED
    BY <1>2, <2>1, AnswerLands
<1> QED
  BY <1>3, <1>4

(* The server is unavailable: wait, or give up. *)
LEMMA UnavailableLands ==
    ASSUME TabsInv, NEW t \in Tabs, NEW k \in Kinds, Unavailable(t, k)
    PROVE  Lands
<1> DEFINE a == attempt[t][k]
           state == [tab[t] EXCEPT !.phase = "offline-stale"]
<1>1. /\ TabsTypeOK /\ tab[t] \in TabRows /\ cookie \in 0..Sessions /\ troubles \in 0..Troubles
      /\ a \in AttemptRows /\ attempt[t] \in [Kinds -> AttemptRows]
  BY TabNow
<1>2. UNCHANGED <<inbox, server, cookie, issued, troubles>> /\ a.step = "unavailable"
  BY DEF Unavailable
<1>3. state \in TabRows /\ Keeps(state, tab[t]) /\ state.again = tab[t].again
  BY <1>1, OfflineEffect
<1>4. CASE MayWait(a)
  <2> DEFINE b == [a EXCEPT !.step = "backoff", !.tries = @ + 1]
  <2>1. /\ attempt' = [attempt EXCEPT ![t][k].step = "backoff", ![t][k].tries = @ + 1]
        /\ tab' = [tab EXCEPT ![t] = state] /\ UNCHANGED left
    BY <1>4 DEF Unavailable
  <2>2. attempt' = [attempt EXCEPT ![t] = [attempt[t] EXCEPT ![k] = b]]
    BY <1>1, <2>1
  <2>3. a.tries + 1 \in 0..Backoffs
    BY <1>1, <1>4, TabTypes DEF MayWait, AttemptRows
  <2>4. b \in AttemptRows /\ b.step # "ok" /\ b.stale = a.stale /\ b.sid = a.sid
    BY <1>1, <2>3 DEF AttemptRows
  <2> HIDE DEF b, state
  <2>5. Moves(t, state, [attempt[t] EXCEPT ![k] = b], left[t])
    BY <1>1, <2>1, <2>2, Unasked DEF Moves
  <2>6. Leaves(state, tab[t])
    BY <1>3 DEF Leaves
  <2> QED
    BY <1>2, <1>3, <2>4, <2>5, <2>6, TurnLands
<1>5. CASE ~MayWait(a)
  <2>1. Reject(t, k, "unavailable", state, attempt[t], cookie) /\ FollowUp(t, k, cookie)
    BY <1>5 DEF Unavailable
  <2> HIDE DEF state
  <2>2. Rest /\ "unavailable" \in Outcomes
    BY <1>1, <1>2, RestWaits DEF Outcomes
  <2> QED
    BY <1>1, <1>3, <2>1, <2>2, RejectLands
<1> QED
  BY <1>4, <1>5

(* A refresh is sent again, with the cookies of the moment. *)
LEMMA ResendLands ==
    ASSUME TabsInv, NEW t \in Tabs, NEW k \in Kinds, Resend(t, k)
    PROVE  Lands
<1> DEFINE a == attempt[t][k]
           b == [a EXCEPT !.step = "asked", !.sid = cookie,
                          !.retried = @ \/ (a.step = "racing" /\ ~a.stale)]
<1>1. /\ TabsTypeOK /\ tab[t] \in TabRows /\ cookie \in 0..Sessions /\ troubles \in 0..Troubles
      /\ a \in AttemptRows /\ attempt[t] \in [Kinds -> AttemptRows] /\ Leaves(tab[t], tab[t])
  BY TabNow DEF Leaves
<1>2. /\ UNCHANGED <<tab, inbox, server, cookie, issued, troubles>>
      /\ attempt' = [attempt EXCEPT ![t][k] = b]
      /\ IF Current(a) THEN AsksFor(t, cookie) ELSE UNCHANGED left
  BY DEF Resend
<1>3. b \in AttemptRows /\ b.step = "asked" /\ b.stale = a.stale /\ b.sid = cookie
  BY <1>1 DEF AttemptRows
<1>4. attempt' = [attempt EXCEPT ![t] = [attempt[t] EXCEPT ![k] = b]]
  BY <1>1, <1>2
<1> HIDE DEF b
<1>5. PICK gone \in SUBSET left[t] :
         left' = [left EXCEPT ![t] = gone] /\ (~a.stale => cookie \notin gone)
  <2>1. CASE a.stale
    <3>1. left' = [left EXCEPT ![t] = left[t]] /\ left[t] \in SUBSET left[t]
      BY <1>1, <1>2, <2>1, Unasked DEF Current
    <3> QED
      BY <2>1, <3>1
  <2>2. CASE ~a.stale
    <3>1. left' = [left EXCEPT ![t] = left[t] \ {cookie}]
      BY <1>1, <1>2, <2>2, Unasked DEF Current
    <3>2. left[t] \ {cookie} \in SUBSET left[t] /\ cookie \notin left[t] \ {cookie}
      OBVIOUS
    <3> QED
      BY <3>1, <3>2
  <2> QED
    BY <2>1, <2>2
<1>6. AttemptOK(k, b, tab[t], gone, server', issued')
  BY <1>3, <1>5 DEF AttemptOK
<1>7. Moves(t, tab[t], [attempt[t] EXCEPT ![k] = b], gone)
  BY <1>1, <1>2, <1>4, <1>5, Unasked DEF Moves
<1>8. Rest
  BY <1>1, <1>2, RestWaits
<1> QED
  BY <1>1, <1>3, <1>6, <1>7, <1>8, AttemptMoves

(* The session is gone. *)
LEMMA GoneLands ==
    ASSUME TabsInv, NEW t \in Tabs, NEW k \in Kinds, Gone(t, k)
    PROVE  Lands
<1> DEFINE late == [j \in Kinds |-> [attempt[t][j] EXCEPT !.stale = @ \/ attempt[t][j].step # "idle"]]
           moved == IF ~tab[t].ended THEN Outdated(attempt[t]) ELSE late
           state == Terminated(tab[t])
<1>1. /\ TabsTypeOK /\ tab[t] \in TabRows /\ issued \in Nat /\ troubles \in 0..Troubles
      /\ attempt[t] \in [Kinds -> AttemptRows]
      /\ \A j \in Kinds : attempt[t][j] \in AttemptRows
  BY TabNow
<1>2. /\ Reject(t, k, "gone", state, moved, 0) /\ cookie' = 0 /\ Told(t)
      /\ UNCHANGED <<server, issued, troubles>>
      /\ Broadcast(t, [type |-> "LOGGED_OUT", sid |-> 0]) \/ UNCHANGED inbox
  BY DEF Gone
<1>3. state \in TabRows /\ Forgets(state)
  BY <1>1, TerminatedEffect
<1>4. moved \in [Kinds -> AttemptRows] /\ \A j \in Kinds : Stales(moved[j], attempt[t][j])
  <2>1. ASSUME NEW j \in Kinds
        PROVE  late[j] \in AttemptRows /\ Stales(late[j], attempt[t][j])
    <3>1. late[j] = [attempt[t][j] EXCEPT !.stale = @ \/ attempt[t][j].step # "idle"]
      OBVIOUS
    <3>2. attempt[t][j] \in AttemptRows
      BY <1>1
    <3> HIDE DEF late
    <3> QED
      BY <3>1, <3>2 DEF AttemptRows, Stales
  <2>2. late \in [Kinds -> AttemptRows]
    BY <2>1
  <2> HIDE DEF late
  <2> QED
    BY <2>1, <2>2, NowOutdated
<1> HIDE DEF moved, state
<1>5. 0 \in 0..Sessions /\ "gone" \in Outcomes
  BY TabTypes DEF Outcomes
<1>6. PICK row \in TabRows, bs \in [Kinds -> AttemptRows] :
              /\ tab' = [tab EXCEPT ![t] = row] /\ Leaves(row, state)
              /\ attempt' = [attempt EXCEPT ![t] = bs]
              /\ \A j \in Kinds : \/ bs[j] = moved[j]
                                  \/ bs[j] = Resting
                                  \/ k = "once" /\ state.again /\ bs[j] = Asked(0)
  BY <1>1, <1>2, <1>3, <1>4, <1>5, RejectEffect
<1>7. Forgets(row)
  BY <1>3, <1>6 DEF Leaves, Keeps, Forgets
<1>8. Rest
  <2>1. [type |-> "LOGGED_OUT", sid |-> 0] \in MailUpTo(issued)
    BY <1>1, <1>5, Letters
  <2>2. CASE Broadcast(t, [type |-> "LOGGED_OUT", sid |-> 0])
    BY <1>1, <1>2, <1>5, <2>1, <2>2, RestSends
  <2>3. CASE UNCHANGED inbox
    BY <1>1, <1>2, <1>5, <2>3, RestWaits
  <2> QED
    BY <1>2, <2>2, <2>3
<1>9. ASSUME NEW j \in Kinds
      PROVE  Stales(bs[j], attempt[t][j]) \/ bs[j] \in {Resting, Asked(0)}
  BY <1>4, <1>6
<1> QED
  BY <1>2, <1>6, <1>7, <1>8, <1>9, TabEnds

(* A refresh that was throttled or lost. *)
LEMMA FailedLands ==
    ASSUME TabsInv, NEW t \in Tabs, NEW k \in Kinds, Failed(t, k)
    PROVE  Lands
<1> DEFINE a == attempt[t][k]
           state == IF a.step = "lost" THEN [tab[t] EXCEPT !.phase = "offline-stale"] ELSE tab[t]
<1>1. /\ TabsTypeOK /\ tab[t] \in TabRows /\ cookie \in 0..Sessions /\ troubles \in 0..Troubles
      /\ Keeps(tab[t], tab[t])
  BY TabNow
<1>2. /\ Reject(t, k, a.step, state, attempt[t], cookie) /\ FollowUp(t, k, cookie)
      /\ UNCHANGED <<inbox, server, cookie, issued, troubles>>
  BY DEF Failed
<1>3. state \in TabRows /\ Keeps(state, tab[t]) /\ state.again = tab[t].again
  BY <1>1, OfflineEffect
<1> HIDE DEF state
<1>4. PICK outcome \in Outcomes : outcome = a.step
  BY DEF Failed, Outcomes
<1>5. Rest
  BY <1>1, <1>2, RestWaits
<1>6. Reject(t, k, outcome, state, attempt[t], cookie)
  BY <1>2, <1>4
<1> QED
  BY <1>1, <1>2, <1>3, <1>5, <1>6, RejectLands

(* The session is locked. *)
LEMMA LockedOutLands ==
    ASSUME TabsInv, NEW t \in Tabs, NEW k \in Kinds, LockedOut(t, k)
    PROVE  Lands
<1> DEFINE outcome == IF Current(attempt[t][k]) THEN "locked" ELSE "superseded"
<1>1. /\ TabsTypeOK /\ tab[t] \in TabRows /\ cookie \in 0..Sessions /\ troubles \in 0..Troubles
      /\ issued \in Nat
  BY TabNow
<1>2. /\ Reject(t, k, outcome, Locked(tab[t]), attempt[t], cookie) /\ FollowUp(t, k, cookie)
      /\ TellLocked(t) /\ UNCHANGED <<server, cookie, issued, troubles>>
  BY DEF LockedOut
<1>3. outcome \in Outcomes
  BY DEF Outcomes
<1> HIDE DEF outcome
<1>4. /\ Locked(tab[t]) \in TabRows /\ Keeps(Locked(tab[t]), tab[t])
      /\ Locked(tab[t]).again = tab[t].again
  BY <1>1, LockedEffect
<1>5. Rest
  <2>1. CASE tab[t].sid = 0
    BY <1>1, <1>2, <2>1, RestWaits DEF TellLocked
  <2>2. CASE tab[t].sid # 0
    <3>1. [type |-> "LOCKED", sid |-> tab[t].sid] \in MailUpTo(issued)
      BY <1>1, Letters DEF TabRows
    <3> QED
      BY <1>1, <1>2, <2>2, <3>1, RestSends DEF TellLocked
  <2> QED
    BY <2>1, <2>2
<1> QED
  BY <1>1, <1>2, <1>3, <1>4, <1>5, RejectLands

(* An unlock is answered, and installed unseen. *)
LEMMA UnlockedLands ==
    ASSUME TabsInv, NEW t \in Tabs, Unlocked(t)
    PROVE  Lands
<1> DEFINE a == attempt[t]["unlock"]
           row == Installed(tab[t], a.token)
           as == [Outdated(attempt[t]) EXCEPT !["unlock"] = Resting]
<1>1. /\ TabsTypeOK /\ tab[t] \in TabRows /\ troubles \in 0..Troubles /\ issued \in Nat
      /\ "unlock" \in Kinds
  BY TabNow DEF Kinds
<1>2. /\ a.step = "ok" /\ tab' = [tab EXCEPT ![t] = row] /\ attempt' = [attempt EXCEPT ![t] = as]
      /\ cookie' = a.sid /\ Broadcast(t, [type |-> "ACCESS_UPDATED", token |-> a.token])
      /\ UNCHANGED <<server, issued, left, troubles>>
  BY DEF Unlocked
<1>3. /\ a.token \in AccessToken \ {NoToken} /\ a.token.sid = a.sid /\ a.token.n <= issued
      /\ a.sid \in 0..Sessions /\ server[a.sid] # "unused"
  BY <1>1, <1>2, AnswerOK
<1>4. row \in TabRows /\ Takes(row, a.token)
  BY <1>1, <1>3, InstalledEffect
<1>5. [type |-> "ACCESS_UPDATED", token |-> a.token] \in MailUpTo(issued)
  BY <1>1, <1>3, Letters
<1>6. Rest
  BY <1>1, <1>2, <1>3, <1>5, RestSends
<1>7. /\ as \in [Kinds -> AttemptRows]
      /\ \A j \in Kinds : as[j] = Resting \/ Stales(as[j], attempt[t][j])
  BY NowOutdated, RestingOK
<1> HIDE DEF row, as
<1>8. ASSUME NEW j \in Kinds
      PROVE  Stales(as[j], attempt[t][j]) \/ AttemptOK(j, as[j], row, left[t], server', issued')
  <2>1. AttemptOK(j, Resting, row, left[t], server', issued')
    BY <1>3, AttemptBegins
  <2> QED
    BY <1>7, <2>1, Zenon
<1>9. Moves(t, row, as, left[t])
  BY <1>1, <1>2, Unasked DEF Moves
<1>10. PICK token \in AccessToken \ {NoToken} : token = a.token
  BY <1>3
<1>11. /\ Takes(row, token) /\ token.n <= issued' /\ server'[token.sid] # "unused"
       /\ left[t] \in SUBSET left[t] /\ attempt[t]["unlock"].step = "ok"
  BY <1>2, <1>3, <1>4, <1>10
<1> QED
  BY <1>4, <1>6, <1>7, <1>8, <1>9, <1>11, TabTakes

(* An unlock is refused, throttled, or finds the session gone. *)
LEMMA UnlockFailedLands ==
    ASSUME TabsInv, NEW t \in Tabs, UnlockFailed(t), UNCHANGED <<server, issued, troubles>>
    PROVE  Lands
<1> DEFINE a == attempt[t]["unlock"]
<1>1. /\ TabsTypeOK /\ tab[t] \in TabRows /\ troubles \in 0..Troubles /\ issued \in Nat
      /\ "unlock" \in Kinds /\ cookie \in 0..Sessions /\ attempt[t] \in [Kinds -> AttemptRows]
      /\ attempt \in [Tabs -> [Kinds -> AttemptRows]]
  BY TabNow, TabTypes DEF Kinds
<1>2. CASE a.step \in {"refused", "limited"}
  <2> DEFINE row == [tab[t] EXCEPT !.authed = FALSE,
                        !.phase = IF a.step = "refused" THEN "locked" ELSE "rate-limited"]
  <2>1. /\ attempt' = [attempt EXCEPT ![t]["unlock"] = Resting]
        /\ tab' = [tab EXCEPT ![t].authed = FALSE, ![t].phase =
                      IF a.step = "refused" THEN "locked" ELSE "rate-limited"]
        /\ UNCHANGED <<inbox, cookie, left>>
    BY <1>2 DEF UnlockFailed
  <2>2. tab' = [tab EXCEPT ![t] = row]
    <3>1. tab \in [Tabs -> TabRows]
      BY <1>1, TabTypes
    <3> QED
      BY <1>1, <2>1, <3>1
  <2>3. attempt' = [attempt EXCEPT ![t] = [attempt[t] EXCEPT !["unlock"] = Resting]]
    BY <1>1, <2>1
  <2>4. row \in TabRows /\ Leaves(row, tab[t])
    <3>1. {"locked", "rate-limited"} \subseteq Phases
      BY DEF Phases
    <3> QED
      BY <1>1, <3>1 DEF TabRows, Leaves, Keeps
  <2> HIDE DEF row
  <2>5. Moves(t, row, [attempt[t] EXCEPT !["unlock"] = Resting], left[t])
    BY <1>1, <2>1, <2>2, <2>3, Unasked DEF Moves
  <2>6. Rest
    BY <1>1, <2>1, RestWaits
  <2>7. AttemptOK("unlock", Resting, row, left[t], server', issued') /\ Resting \in AttemptRows
    BY <1>1, TabTypes, AttemptBegins, RestingOK
  <2>8. left[t] \in SUBSET left[t]
    OBVIOUS
  <2> QED
    BY <1>1, <2>4, <2>5, <2>6, <2>7, <2>8, AttemptMoves
<1>3. CASE a.step = "gone"
  <2> DEFINE rested == [attempt EXCEPT ![t]["unlock"] = Resting]
             as == Outdated(rested[t])
             row == [Cleared(tab[t]) EXCEPT !.phase = "revoked"]
  <2>1. /\ attempt' = [rested EXCEPT ![t] = as] /\ tab' = [tab EXCEPT ![t] = row]
        /\ cookie' = 0 /\ Told(t) /\ Broadcast(t, [type |-> "LOGGED_OUT", sid |-> tab[t].sid])
    BY <1>3 DEF UnlockFailed
  <2>2. rested[t] = [attempt[t] EXCEPT !["unlock"] = Resting] /\ rested[t] \in [Kinds -> AttemptRows]
    BY <1>1, RestingOK
  <2>3. attempt' = [attempt EXCEPT ![t] = as]
    BY <1>1, <2>1
  <2>4. /\ as \in [Kinds -> AttemptRows]
        /\ \A j \in Kinds : as[j] = Resting \/ Stales(as[j], attempt[t][j])
    <3>1. as["unlock"] = Resting
      BY <1>1, <2>2, RestingOK DEF Outdated
    <3>2. \A j \in Kinds \ {"unlock"} : rested[t][j] = attempt[t][j]
      BY <1>1, <2>2
    <3> HIDE DEF rested
    <3>3. as \in [Kinds -> AttemptRows] /\ \A j \in Kinds : Stales(as[j], rested[t][j])
      BY <2>2, OutdatedEffect DEF Stales
    <3> HIDE DEF as
    <3> QED
      BY <3>1, <3>2, <3>3, Zenon
  <2>5. row \in TabRows /\ Forgets(row)
    <3>1. "revoked" \in Phases
      BY DEF Phases, SignedOff
    <3>2. Cleared(tab[t]) \in TabRows /\ Forgets(Cleared(tab[t]))
      BY <1>1, ClearedEffect
    <3> QED
      BY <3>1, <3>2 DEF TabRows, Forgets
  <2> HIDE DEF as, row, rested
  <2>6. [type |-> "LOGGED_OUT", sid |-> tab[t].sid] \in MailUpTo(issued)
    BY <1>1, Letters DEF TabRows
  <2>7. 0 \in 0..Sessions
    BY TabTypes
  <2>8. Rest
    BY <1>1, <2>1, <2>6, <2>7, RestSends
  <2> QED
    BY <2>1, <2>3, <2>4, <2>5, <2>8, TabEnds
<1> QED
  BY <1>2, <1>3 DEF UnlockFailed

(* The answer of an unlock is lost: a refresh finds out. *)
LEMMA UnlockLostLands ==
    ASSUME TabsInv, NEW t \in Tabs, UnlockLost(t)
    PROVE  Lands
<1> DEFINE joined == attempt[t]["once"].step # "idle"
           row == [tab[t] EXCEPT !.recovering = TRUE, !.phase = IF joined THEN @ ELSE "refreshing"]
           as == [Joined(attempt[t]) EXCEPT !["unlock"] = Resting]
<1>1. /\ TabsTypeOK /\ tab[t] \in TabRows /\ troubles \in 0..Troubles /\ issued \in Nat
      /\ {"unlock", "once"} \subseteq Kinds /\ cookie \in 0..Sessions
      /\ attempt[t] \in [Kinds -> AttemptRows] /\ tab \in [Tabs -> TabRows]
  BY TabNow, TabTypes DEF Kinds
<1>2. /\ attempt' = [attempt EXCEPT ![t] = as]
      /\ IF joined THEN UNCHANGED left ELSE AsksFor(t, cookie)
      /\ UNCHANGED <<inbox, server, cookie, issued, troubles>>
  BY DEF UnlockLost
<1>3. tab' = [tab EXCEPT ![t] = row]
  BY <1>1 DEF UnlockLost
<1>4. row \in TabRows /\ Leaves(row, tab[t])
  <2>1. "refreshing" \in Phases
    BY DEF Phases, Holding
  <2> QED
    BY <1>1, <2>1 DEF TabRows, Leaves, Keeps
<1>5. Rest
  BY <1>1, <1>2, RestWaits
<1>6. PICK gone \in SUBSET left[t] :
         left' = [left EXCEPT ![t] = gone] /\ (~joined => cookie \notin gone)
  <2>1. CASE joined
    <3>1. left' = [left EXCEPT ![t] = left[t]] /\ left[t] \in SUBSET left[t]
      BY <1>1, <1>2, <2>1, Unasked
    <3> QED
      BY <2>1, <3>1
  <2>2. CASE ~joined
    <3>1. left' = [left EXCEPT ![t] = left[t] \ {cookie}]
      BY <1>1, <1>2, <2>2, Unasked
    <3>2. left[t] \ {cookie} \in SUBSET left[t] /\ cookie \notin left[t] \ {cookie}
      OBVIOUS
    <3> QED
      BY <3>1, <3>2
  <2> QED
    BY <2>1, <2>2
<1>7. Resting \in AttemptRows /\ Asked(cookie) \in AttemptRows
  BY <1>1, RestingOK
<1>8. /\ as \in [Kinds -> AttemptRows]
      /\ \A j \in Kinds : \/ as[j] = attempt[t][j] \/ as[j] = Resting
                          \/ ~joined /\ as[j] = Asked(cookie)
  <2>1. CASE joined
    BY <1>1, <1>7, <2>1 DEF Joined
  <2>2. CASE ~joined
    BY <1>1, <1>7, <2>2 DEF Joined
  <2> QED
    BY <2>1, <2>2
<1> HIDE DEF row, as, joined
<1>9. ASSUME NEW j \in Kinds
      PROVE  as[j] = attempt[t][j] \/ AttemptOK(j, as[j], row, gone, server', issued')
  <2>1. AttemptOK(j, Resting, row, gone, server', issued')
    BY <1>1, AttemptBegins
  <2>2. ~joined => AttemptOK(j, Asked(cookie), row, gone, server', issued')
    BY <1>1, <1>6, AttemptBegins
  <2> QED
    BY <1>8, <2>1, <2>2, Zenon
<1>10. Moves(t, row, as, gone)
  BY <1>2, <1>3, <1>6 DEF Moves
<1> QED
  BY <1>4, <1>5, <1>8, <1>9, <1>10, TabLeaves

(* The oldest message is read. *)
LEMMA MailRead ==
    ASSUME TabsInv, NEW t \in Tabs, inbox[t] # <<>>, inbox' = [inbox EXCEPT ![t] = Tail(@)]
    PROVE  /\ inbox' \in [Tabs -> Seq(MailUpTo(issued))]
           /\ Head(inbox[t]) \in MailUpTo(issued)
<1>1. inbox \in [Tabs -> Seq(MailUpTo(issued))] /\ inbox[t] \in Seq(MailUpTo(issued))
  BY DEF TabsInv
<1>2. Tail(inbox[t]) \in Seq(MailUpTo(issued)) /\ Head(inbox[t]) \in MailUpTo(issued)
  BY <1>1, HeadTailProperties
<1> QED
  BY <1>1, <1>2

(* A message of another tab is read. *)
LEMMA ReceiveLands ==
    ASSUME TabsInv, NEW t \in Tabs, Receive(t)
    PROVE  Lands
<1> DEFINE m == Head(inbox[t])
           mine == \/ m.sid = tab[t].sid
                   \/ m.type = "LOGGED_OUT" /\ m.sid = 0
           as == Outdated(attempt[t])
<1>1. /\ TabsTypeOK /\ tab[t] \in TabRows /\ cookie \in 0..Sessions /\ troubles \in 0..Troubles
      /\ issued \in Nat /\ issued \in 0..Tokens /\ server \in ServerRows
      /\ RowOK(tab[t], left[t], server, issued) /\ attempt[t] \in [Kinds -> AttemptRows]
      /\ left[t] \in SUBSET left[t]
  BY TabNow
<1>2. /\ inbox[t] # <<>> /\ inbox' = [inbox EXCEPT ![t] = Tail(@)]
      /\ UNCHANGED <<server, cookie, issued, troubles>>
  BY DEF Receive
<1>3. inbox' \in [Tabs -> Seq(MailUpTo(issued))] /\ m \in MailUpTo(issued)
  BY <1>2, MailRead
<1>4. Rest
  BY <1>1, <1>2, <1>3 DEF Rest, Grows
<1>5. as \in [Kinds -> AttemptRows] /\ \A j \in Kinds : Stales(as[j], attempt[t][j])
  BY NowOutdated
<1>6. CASE m.type = "ACCESS_UPDATED" /\ Accepts(tab[t], m.token)
  <2>1. /\ tab' = [tab EXCEPT ![t] = Installed(tab[t], m.token)]
        /\ attempt' = [attempt EXCEPT ![t] = as] /\ UNCHANGED left
    BY <1>6 DEF Receive
  <2>2. m.token \in AccessToken \ {NoToken} /\ m.token.n <= issued
    BY <1>3, <1>6 DEF MailUpTo, Message
  <2>3. PICK token \in AccessToken \ {NoToken} : token = m.token
    BY <2>2
  <2>4. token.sid = tab[t].sid /\ tab[t].order < token.n
    <3>1. tab[t].order \in Nat /\ token.n \in Nat
      BY <1>1, TabTypes DEF TabRows, AccessToken
    <3> QED
      BY <1>6, <2>3, <3>1 DEF Accepts
  <2>5. server[token.sid] # "unused"
    <3>1. token.sid # 0
      BY <2>3, TabTypes DEF AccessToken, Sid
    <3> QED
      BY <1>1, <2>4, <3>1 DEF RowOK
  <2> DEFINE row == Installed(tab[t], token)
  <2>6. row \in TabRows /\ Takes(row, token)
    BY <1>1, InstalledEffect
  <2>7. Moves(t, row, as, left[t])
    BY <1>1, <2>1, <2>3, Unasked DEF Moves
  <2> HIDE DEF row, as, m, mine
  <2>8. token.n <= issued' /\ server'[token.sid] # "unused"
    BY <1>2, <2>2, <2>3, <2>5
  <2> QED
    BY <1>1, <1>4, <1>5, <2>4, <2>6, <2>7, <2>8, TabTakes
<1>7. CASE m.type = "LOGGED_OUT" /\ mine
  <2>1. /\ tab' = [tab EXCEPT ![t] = Cleared(tab[t])]
        /\ attempt' = [attempt EXCEPT ![t] = as] /\ Told(t)
    BY <1>7 DEF Receive
  <2>2. Cleared(tab[t]) \in TabRows /\ Forgets(Cleared(tab[t]))
    BY <1>1, ClearedEffect
  <2> HIDE DEF as, m, mine
  <2> QED
    BY <1>4, <1>5, <2>1, <2>2, TabEnds
<1>8. CASE m.type = "LOCKED" /\ mine
  <2>1. tab' = [tab EXCEPT ![t] = Locked(tab[t])] /\ UNCHANGED <<attempt, left>>
    BY <1>8 DEF Receive
  <2>2. Locked(tab[t]) \in TabRows /\ Leaves(Locked(tab[t]), tab[t])
    BY <1>1, LockedEffect DEF Leaves
  <2>3. Moves(t, Locked(tab[t]), attempt[t], left[t])
    BY <1>1, <2>1, Unasked DEF Moves
  <2> HIDE DEF as, m, mine
  <2> QED
    BY <1>1, <1>4, <2>2, <2>3, TabLeaves
<1>9. CASE UNCHANGED <<tab, attempt, left>>
  BY <1>4, <1>9, NoTabMoves
<1> QED
  BY <1>6, <1>7, <1>8, <1>9 DEF Receive

(* logout is sent. *)
LEMMA SignOutLands ==
    ASSUME TabsInv, NEW t \in Tabs, SignOut(t)
    PROVE  Lands
<1> DEFINE row == [tab[t] EXCEPT !.leaving = TRUE]
<1>1. /\ TabsTypeOK /\ tab[t] \in TabRows /\ cookie \in 0..Sessions /\ troubles \in 0..Troubles
      /\ issued \in Nat /\ issued \in 0..Tokens /\ server \in ServerRows
      /\ attempt[t] \in [Kinds -> AttemptRows] /\ left[t] \in SUBSET left[t]
      /\ tab \in [Tabs -> TabRows] /\ 0 \in 0..Sessions
      /\ inbox \in [Tabs -> Seq(MailUpTo(issued))]
  BY TabNow, TabTypes DEF TabsInv
<1>2. tab' = [tab EXCEPT ![t] = row] /\ UNCHANGED <<attempt, inbox, issued, left>>
  BY <1>1 DEF SignOut
<1>3. row \in TabRows /\ Leaves(row, tab[t])
  BY <1>1 DEF TabRows, Leaves, Keeps
<1>4. Rest
  <2>1. troubles' \in 0..Troubles
    BY <1>1, TroubleCounts DEF SignOut
  <2>2. cookie' \in 0..Sessions
    BY <1>1 DEF SignOut
  <2>3. server' \in ServerRows /\ Grows(server', issued)
    BY <1>1 DEF SignOut, ServerRows, Grows
  <2> QED
    BY <1>1, <1>2, <2>1, <2>2, <2>3 DEF Rest
<1> HIDE DEF row
<1>5. Moves(t, row, attempt[t], left[t])
  BY <1>1, <1>2, Unasked DEF Moves
<1> QED
  BY <1>1, <1>3, <1>4, <1>5, TabLeaves

(* logout ends. *)
LEMMA SignedOutLands ==
    ASSUME TabsInv, NEW t \in Tabs, SignedOut(t)
    PROVE  Lands
<1> DEFINE row == [Cleared(tab[t]) EXCEPT !.leaving = FALSE]
           as == Outdated(attempt[t])
<1>1. /\ TabsTypeOK /\ tab[t] \in TabRows /\ cookie \in 0..Sessions /\ troubles \in 0..Troubles
      /\ issued \in Nat
  BY TabNow
<1>2. /\ tab' = [tab EXCEPT ![t] = row] /\ attempt' = [attempt EXCEPT ![t] = as] /\ Told(t)
      /\ Broadcast(t, [type |-> "LOGGED_OUT", sid |-> tab[t].sid])
      /\ UNCHANGED <<server, cookie, issued, troubles>>
  BY DEF SignedOut
<1>3. row \in TabRows /\ Forgets(row)
  <2>1. Cleared(tab[t]) \in TabRows /\ Forgets(Cleared(tab[t]))
    BY <1>1, ClearedEffect
  <2> QED
    BY <2>1 DEF TabRows, Forgets
<1>4. [type |-> "LOGGED_OUT", sid |-> tab[t].sid] \in MailUpTo(issued)
  BY <1>1, Letters DEF TabRows
<1>5. Rest
  BY <1>1, <1>2, <1>4, RestSends
<1>6. as \in [Kinds -> AttemptRows] /\ \A j \in Kinds : Stales(as[j], attempt[t][j])
  BY NowOutdated
<1> HIDE DEF row, as
<1> QED
  BY <1>2, <1>3, <1>5, <1>6, TabEnds

(* A login opens a session that never was. *)
LEMMA LoginLands ==
    ASSUME TabsInv, NEW t \in Tabs, Login(t)
    PROVE  Lands
<1> DEFINE as == Outdated(attempt[t])
<1>1. /\ TabsTypeOK /\ tab[t] \in TabRows /\ cookie \in 0..Sessions /\ troubles \in 0..Troubles
      /\ issued \in Nat /\ server \in ServerRows /\ left[t] \in SUBSET left[t]
      /\ RowOK(tab[t], left[t], server, issued)
      /\ inbox \in [Tabs -> Seq(MailUpTo(issued))]
  BY TabNow DEF TabsInv
<1>2. PICK s \in Sid :
         /\ server[s] = "unused" /\ server' = [server EXCEPT ![s] = "active"] /\ cookie' = s
         /\ tab' = [tab EXCEPT ![t] = Installed(tab[t], [sid |-> s, n |-> issued + 1])]
         /\ Broadcast(t, [type |-> "ACCESS_UPDATED", token |-> [sid |-> s, n |-> issued + 1]])
  BY DEF Login
<1>3. /\ issued < Tokens /\ issued' = issued + 1 /\ attempt' = [attempt EXCEPT ![t] = as]
      /\ UNCHANGED <<left, troubles>>
  BY DEF Login
<1>4. /\ issued' \in Nat /\ issued <= issued' /\ issued' \in 0..Tokens /\ issued + 1 \in 1..Tokens
      /\ s \in 0..Sessions
  BY <1>1, <1>3, TabTypes DEF Sid
<1>5. PICK token \in AccessToken \ {NoToken} : token = [sid |-> s, n |-> issued + 1]
  <2>1. [sid |-> s, n |-> issued + 1] \in AccessToken \ {NoToken}
    BY <1>4, TabTypes DEF AccessToken, NoToken, Sid
  <2> QED
    BY <2>1
<1>6. token.sid = s /\ token.n = issued'
  BY <1>3, <1>5
<1>7. [type |-> "ACCESS_UPDATED", token |-> token] \in MailUpTo(issued')
  BY <1>4, <1>6, Letters
<1>8. Broadcast(t, [type |-> "ACCESS_UPDATED", token |-> token])
  BY <1>2, <1>5
<1>9. inbox' \in [Tabs -> Seq(MailUpTo(issued'))] /\ inbox'[t] = inbox[t]
  BY <1>1, <1>4, <1>7, <1>8, MailSent
<1>10. server' \in ServerRows /\ Grows(server', issued') /\ server'[s] # "unused"
  BY <1>1, <1>2, <1>4 DEF ServerRows, Grows
<1>11. Rest
  BY <1>1, <1>2, <1>3, <1>4, <1>9, <1>10 DEF Rest
<1> DEFINE row == Installed(tab[t], token)
<1>12. row \in TabRows /\ Takes(row, token)
  BY <1>1, InstalledEffect
<1>13. tab[t].order < token.n /\ token.sid \notin left[t]
  <2>1. tab[t].order \in Nat /\ tab[t].order <= issued
    BY <1>1, TabTypes DEF TabRows, RowOK
  <2> QED
    BY <1>1, <1>2, <1>3, <1>6, <2>1 DEF RowOK
<1>14. as \in [Kinds -> AttemptRows] /\ \A j \in Kinds : Stales(as[j], attempt[t][j])
  BY NowOutdated
<1> HIDE DEF as
<1>15. Moves(t, row, as, left[t])
  BY <1>1, <1>2, <1>3, <1>5, Unasked DEF Moves
<1> HIDE DEF row
<1>16. token.n <= issued' /\ server'[token.sid] # "unused"
  BY <1>4, <1>6, <1>10
<1> QED
  BY <1>1, <1>9, <1>11, <1>12, <1>13, <1>14, <1>15, <1>16, TabTakes

(* The idle deadline passes. *)
LEMMA IdleOutLands ==
    ASSUME TabsInv, NEW t \in Tabs, IdleOut(t)
    PROVE  Lands
<1>1. /\ TabsTypeOK /\ tab[t] \in TabRows /\ cookie \in 0..Sessions /\ troubles \in 0..Troubles
      /\ issued \in Nat /\ issued \in 0..Tokens /\ server \in ServerRows
      /\ attempt[t] \in [Kinds -> AttemptRows] /\ left[t] \in SUBSET left[t]
      /\ inbox \in [Tabs -> Seq(MailUpTo(issued))] /\ issued <= issued
  BY TabNow DEF TabsInv
<1>2. /\ server' = [server EXCEPT ![tab[t].sid] = "locked"] /\ Trouble
      /\ UNCHANGED <<attempt, cookie, issued, left>>
  BY DEF IdleOut
<1>3. server' \in ServerRows /\ Grows(server', issued) /\ troubles' \in 0..Troubles
  BY <1>1, <1>2, TroubleCounts DEF ServerRows, Grows
<1>4. PICK row \in {tab[t], Locked(tab[t])} : tab' = [tab EXCEPT ![t] = row]
  BY <1>1, Unasked DEF IdleOut
<1>5. row \in TabRows /\ Leaves(row, tab[t])
  BY <1>1, <1>4, TabNow, LockedEffect DEF Leaves
<1>6. inbox' \in [Tabs -> Seq(MailUpTo(issued))]
  <2>1. CASE inbox' = inbox
    BY <1>1, <2>1
  <2>2. CASE Broadcast(t, [type |-> "LOCKED", sid |-> tab[t].sid])
    <3>1. [type |-> "LOCKED", sid |-> tab[t].sid] \in MailUpTo(issued)
      BY <1>1, Letters DEF TabRows
    <3> QED
      BY <1>1, <2>2, <3>1, MailSent
  <2> QED
    BY <2>1, <2>2 DEF IdleOut, TellLocked
<1>7. Rest
  BY <1>1, <1>2, <1>3, <1>6 DEF Rest
<1>8. Moves(t, row, attempt[t], left[t])
  BY <1>1, <1>2, <1>4, Unasked DEF Moves
<1> QED
  BY <1>1, <1>5, <1>7, <1>8, TabLeaves

(* The server revokes a session. *)
LEMMA RevokeLands ==
    ASSUME TabsInv, NEW s \in Sid, Revoke(s)
    PROVE  Lands
<1>1. /\ TabsTypeOK /\ cookie \in 0..Sessions /\ issued \in 0..Tokens /\ issued \in Nat
      /\ server \in ServerRows /\ inbox \in [Tabs -> Seq(MailUpTo(issued))]
  BY TabTypes DEF TabsInv
<1>2. server' \in ServerRows /\ Grows(server', issued) /\ troubles' \in 0..Troubles
  BY <1>1, TroubleCounts DEF Revoke, ServerRows, Grows
<1>3. Rest
  BY <1>1, <1>2 DEF Rest, Revoke
<1> QED
  BY <1>3, NoTabMoves DEF Revoke

(* A tab is reloaded. *)
LEMMA ReloadTabLands ==
    ASSUME TabsInv, NEW t \in Tabs, ReloadTab(t)
    PROVE  Lands
<1> DEFINE as == [Idle EXCEPT !["boot"] = Asked(cookie)]
<1>1. /\ TabsTypeOK /\ cookie \in 0..Sessions /\ issued \in 0..Tokens /\ issued \in Nat
      /\ server \in ServerRows /\ inbox \in [Tabs -> Seq(MailUpTo(issued))]
      /\ {} \in SUBSET left[t]
  BY TabNow DEF TabsInv
<1>2. Rest
  <2>1. troubles' \in 0..Troubles
    BY <1>1, TroubleCounts DEF ReloadTab
  <2>2. inbox' \in [Tabs -> Seq(MailUpTo(issued))]
    <3>1. <<>> \in Seq(MailUpTo(issued))
      OBVIOUS
    <3> QED
      BY <1>1, <3>1 DEF ReloadTab
  <2> QED
    BY <1>1, <2>1, <2>2 DEF Rest, ReloadTab, Grows
<1>3. Resting \in AttemptRows /\ Asked(cookie) \in AttemptRows
  BY <1>1, RestingOK
<1>4. as \in [Kinds -> AttemptRows] /\ \A j \in Kinds : as[j] = Resting \/ as[j] = Asked(cookie)
  BY <1>3 DEF Idle
<1>5. Moves(t, Loading, as, {})
  BY DEF ReloadTab, Moves
<1> HIDE DEF as
<1>6. ASSUME NEW j \in Kinds
      PROVE  AttemptOK(j, as[j], Loading, {}, server', issued')
  <2>1. AttemptOK(j, Resting, Loading, {}, server', issued')
    BY <1>1, AttemptBegins
  <2>2. AttemptOK(j, Asked(cookie), Loading, {}, server', issued')
    BY <1>1, AttemptBegins
  <2> QED
    BY <1>4, <2>1, <2>2, Zenon
<1>7. Loading \in TabRows /\ Leaves(Loading, tab[t])
  BY RestingOK DEF Leaves
<1> QED
  BY <1>1, <1>2, <1>4, <1>5, <1>6, <1>7, TabLeaves

(***************************************************************************)
(* The invariant and the two action properties.                            *)
(***************************************************************************)
(* The invariant holds when the tabs have just been loaded. *)
LEMMA TabsStart == TabsInit => TabsInv
<1> SUFFICES ASSUME TabsInit PROVE TabsInv
  OBVIOUS
<1>1. /\ cookie \in 0..Sessions /\ issued = 0 /\ troubles = 0
      /\ 0 \in 0..Tokens /\ 0 \in 0..Troubles /\ 0 \in Nat
  BY AuthTabsAssumption, TabTypes DEF TabsInit
<1>2. server \in ServerRows
  BY DEF TabsInit, ServerRows
<1> DEFINE as == [Idle EXCEPT !["boot"] = Asked(cookie)]
<1>3. Resting \in AttemptRows /\ Asked(cookie) \in AttemptRows
  BY <1>1, RestingOK
<1>4. as \in [Kinds -> AttemptRows] /\ \A j \in Kinds : as[j] = Resting \/ as[j] = Asked(cookie)
  BY <1>3 DEF Idle
<1>5. /\ tab = [t \in Tabs |-> Loading] /\ attempt = [t \in Tabs |-> as]
      /\ left = [t \in Tabs |-> {}] /\ inbox = [t \in Tabs |-> <<>>]
  BY DEF TabsInit
<1> HIDE DEF as
<1>6. inbox \in [Tabs -> Seq(MailUpTo(issued))] /\ inbox \in [Tabs -> Seq(Message)]
  BY <1>5
<1>7. TabsTypeOK
  BY <1>1, <1>2, <1>4, <1>5, <1>6, RestingOK, TabTypes
<1>8. ASSUME NEW t \in Tabs
      PROVE  TabOK(t)
  <2>1. RowOK(Loading, {}, server, issued)
    BY <1>1, RestingOK DEF RowOK, Forgets
  <2>2. ASSUME NEW j \in Kinds
        PROVE  AttemptOK(j, as[j], Loading, {}, server, issued)
    <3>1. AttemptOK(j, Resting, Loading, {}, server, issued)
      BY <1>1, AttemptBegins
    <3>2. AttemptOK(j, Asked(cookie), Loading, {}, server, issued)
      BY <1>1, AttemptBegins
    <3> QED
      BY <1>4, <3>1, <3>2, Zenon
  <2> QED
    BY <1>5, <2>1, <2>2 DEF TabOK
<1> QED
  BY <1>6, <1>7, <1>8 DEF TabsInv

(* Every step keeps the invariant and is honest. *)
LEMMA TabsStep ==
    ASSUME TabsInv, [TabsNext]_tabsVars
    PROVE  Lands
<1>1. ASSUME NEW t \in Tabs, NEW k \in Kinds, DeliverRefresh(t, k)
      PROVE  Lands
  BY <1>1, InstallLands, SupersededLands, RaceLands, UnavailableLands, GoneLands, FailedLands,
     LockedOutLands, ResendLands DEF DeliverRefresh
<1>2. ASSUME NEW t \in Tabs, DeliverUnlock(t)
      PROVE  Lands
  BY <1>2, UnlockedLands, UnlockFailedLands, UnlockLostLands DEF DeliverUnlock
<1>3. CASE UNCHANGED tabsVars
  <2>1. /\ cookie' \in 0..Sessions /\ troubles' \in 0..Troubles
        /\ UNCHANGED <<tab, attempt, left, inbox, server, issued>>
    BY <1>3, TabTypes DEF tabsVars, TabsInv
  <2> QED
    BY <2>1, RestWaits, NoTabMoves
<1> QED
  BY <1>1, <1>2, <1>3, RefreshOnceLands, RetryLands, UnlockIdleLands, ServeLands, LoseCallLands,
     ReceiveLands, SignOutLands, SignedOutLands, LoginLands, IdleOutLands, ReloadTabLands,
     RevokeLands DEF TabsNext

(* The invariant of the tabs: see the head of this part. *)
THEOREM TabsInvariant == TabsSpec => []TabsInv
BY TabsStart, TabsStep, PTL DEF TabsSpec, Lands

(* The store and the coordinator of every tab, the attempts, the messages and the
   server keep to their types; an attempt waits at most Backoffs times. *)
THEOREM TabsTypeCorrect == TabsSpec => []TabsTypeOK
<1>1. TabsInv => TabsTypeOK
  BY DEF TabsInv
<1> QED
  BY <1>1, TabsInvariant, PTL

(* A tab that was signed out of a session comes back to it only when it asks for it
   or when an unlock is answered: the generation compared in classifyAttempt and
   the session compared in acceptRemote suffice, for any number of tabs, sessions,
   tokens and troubles. *)
THEOREM SignedOutStaysOut == TabsSpec => StaysSignedOut
<1>1. ASSUME TabsInv, [TabsNext]_tabsVars
      PROVE  [\A t \in Tabs : \A s \in left[t] \cap left'[t] :
                 tab[t].sid # s /\ tab'[t].sid = s => attempt[t]["unlock"].step = "ok"]_tabsVars
  BY <1>1, TabsStep DEF Lands, Honest
<1> QED
  BY <1>1, TabsInvariant, PTL DEF TabsSpec, StaysSignedOut

(* No tab moves another one to its session, and a token is only ever replaced by
   a newer one, but for an unlock. *)
THEOREM NewerTokensReplace == TabsSpec => NewestTokenWins
<1>1. ASSUME TabsInv, [TabsNext]_tabsVars
      PROVE  [\A t \in Tabs :
                 tab[t].sid # 0 /\ tab'[t].sid # 0 /\ tab'[t].token # tab[t].token =>
                     \/ tab'[t].token = NoToken
                     \/ attempt[t]["unlock"].step = "ok"
                     \/ /\ tab'[t].order > tab[t].order
                        /\ tab'[t].sid = tab[t].sid \/ inbox'[t] = inbox[t]]_tabsVars
  BY <1>1, TabsStep DEF Lands, Honest
<1> QED
  BY <1>1, TabsInvariant, PTL DEF TabsSpec, NewestTokenWins
=============================================================================
