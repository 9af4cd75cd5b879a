-------------------------- MODULE SessionRotation --------------------------
(***************************************************************************)
(* One browser session of sql_auth: the refresh and recovery tokens that    *)
(* rotate, the idle lock of staff and its unlock, and the browser whose     *)
(* tabs share one cookie jar.  A token is the generation it belongs to:     *)
(* crypto::derive makes the pair of generation g + 1 from that of g, and    *)
(* both cookies are always set together.                                    *)
(*                                                                          *)
(* A call is an HTTP request.  Its handler samples the clock, waits for the *)
(* row locks of user and session, and then runs as one transaction, so the  *)
(* time it works with may be older than the time it commits.  Calls and     *)
(* answers may be lost or overtake each other; a server that dies in a      *)
(* transaction is a lost call.                                              *)
(***************************************************************************)
EXTENDS Integers, Sequences

CONSTANTS
    Calls,           \* requests that may be in flight at once
    Staff,           \* the audience is staff (TRUE) or member (FALSE)
    TwoFactor,       \* users.two_factor_enabled
    RaceGrace,       \* 5 s: a predecessor means two tabs refreshed at once
    RecoveryWindow,  \* 60 s: a predecessor is answered with its successor
    IdleLimit,       \* 30 min
    AccessLife,      \* 5 min for staff, 15 min for members
    Lifetime,        \* absolute_expires_at of a session created at time 0
    MaxAttempts,     \* 5 wrong passwords, 5 wrong OTPs
    HistoryLimit,    \* 4096 consumed digests
    Horizon          \* bound of the clock, for TLC

ASSUME TimesAssumption ==
    /\ {RaceGrace, RecoveryWindow, IdleLimit, AccessLife, Lifetime, Horizon} \subseteq Nat
    /\ {Staff, TwoFactor} \subseteq BOOLEAN
    /\ MaxAttempts \in Nat \ {0}
    /\ HistoryLimit \in Nat

VARIABLES
    now,       \* the clock of the server
    session,   \* the row of auth_sessions
    presence,  \* ghost: when the person last proved to be there
    calls,
    jar,       \* generation in the refresh and recovery cookies
    access     \* exp of the access token the tabs hold in memory

vars == <<now, session, presence, calls, jar, access>>

None == -1
Open == {"active", "locked"}
Closed == {"revoked", "expired"}
Terminal == {"AUTH_SESSION_EXPIRED", "AUTH_SESSION_REVOKED", "AUTH_TOKEN_INVALID",
             "AUTH_REFRESH_REUSED", "AUTH_REFRESH_RECOVERY_EXPIRED"}
Codes == Terminal \union
    {"OK", "AUTH_IDLE_LOCKED", "AUTH_REFRESH_RACE", "AUTH_SESSION_HISTORY_FULL",
     "REAUTH_ATTEMPTS_EXHAUSTED", "REAUTH_PASSWORD_INVALID", "REAUTH_OTP_INVALID"}
Operations == {"refresh", "logout"} \union (IF Staff THEN {"unlock", "activity"} ELSE {})

Earlier(a, b) == IF a < b THEN a ELSE b
Later(a, b) == IF a < b THEN b ELSE a

NoCall == [op |-> "refresh", phase |-> "free", token |-> None, exp |-> None,
           at |-> 0, code |-> "OK", gen |-> None]

Init ==
    /\ now = 0
    /\ session = [state |-> "active", gen |-> 0, consumed |-> <<>>,
                  pred |-> [gen |-> None, grace |-> 0, recovery |-> 0],
                  idle |-> IdleLimit, passwordTries |-> 0, otpTries |-> 0]
    /\ presence = 0
    /\ calls = [c \in Calls |-> NoCall]
    /\ jar = 0
    /\ access = Earlier(AccessLife, Lifetime)

-----------------------------------------------------------------------------
(* The checks every handler makes on the locked row.                        *)

\* Mutant: a closed session is refused only once it has been expired.
BindingForgetsRevoked(s, t) ==
    IF t >= Lifetime THEN "AUTH_SESSION_EXPIRED"
    ELSE IF s.state = "expired" THEN "AUTH_SESSION_REVOKED"
    ELSE "OK"

\* binding(): the session is neither past its absolute end nor closed.
Binding(s, t) ==
    IF t >= Lifetime THEN "AUTH_SESSION_EXPIRED"
    ELSE IF s.state \in Closed THEN "AUTH_SESSION_REVOKED"
    ELSE "OK"

\* Mutant: the deadline itself still counts as active.
LockIdleLate(s, t) ==
    IF Staff /\ s.state = "active" /\ s.idle < t
    THEN [s EXCEPT !.state = "locked"] ELSE s

\* lock_idle(): an idle staff session is locked by the first call that looks.
LockIdle(s, t) ==
    IF Staff /\ s.state = "active" /\ s.idle <= t
    THEN [s EXCEPT !.state = "locked"] ELSE s

Spent(s, token) == \E i \in DOMAIN s.consumed : s.consumed[i] = token

\* Mutant: the presented generation is not added to consumed_digests.
RotatedForgetful(s, t, idle) ==
    [s EXCEPT !.state = "active", !.gen = @ + 1, !.idle = idle,
              !.pred = [gen |-> s.gen, grace |-> t + RaceGrace,
                        recovery |-> Earlier(t + RecoveryWindow, Lifetime)]]

\* rotate(): the presented generation is consumed and becomes the predecessor.
Rotated(s, t, idle) ==
    [s EXCEPT !.state = "active", !.gen = @ + 1, !.idle = idle,
              !.consumed = Append(@, s.gen),
              !.pred = [gen |-> s.gen, grace |-> t + RaceGrace,
                        recovery |-> Earlier(t + RecoveryWindow, Lifetime)]]

\* Every closing UPDATE: state = 'revoked', owns_slot = false.
Revoked(s) == [s EXCEPT !.state = "revoked"]

\* classify(): what a refresh token that is not the current one gets.
Classified(s, token, t) ==
    IF token = s.pred.gen
    THEN IF t <= s.pred.grace THEN "AUTH_REFRESH_RACE"
         ELSE IF t >= s.pred.recovery THEN "AUTH_REFRESH_RECOVERY_EXPIRED"
         ELSE "OK"
    ELSE IF Spent(s, token) THEN "AUTH_REFRESH_REUSED"
    ELSE "AUTH_TOKEN_INVALID"

\* Mutant: one attempt too many.
ExhaustedLate(s) == s.passwordTries > MaxAttempts \/ s.otpTries > MaxAttempts

\* The counters of wrong guesses are never reset in the life of a session.
Exhausted(s) == s.passwordTries >= MaxAttempts \/ s.otpTries >= MaxAttempts

-----------------------------------------------------------------------------
(* The browser and the network.                                             *)

\* A tab sends a call with the cookies of the jar and the bearer it holds.
\* Every page load, timer, focus and retry may do so.
Send(c, op) ==
    /\ calls[c].phase = "free"
    /\ op \in Operations
    /\ jar # None
    /\ op = "activity" => access # None
    /\ calls' = [calls EXCEPT ![c] = [NoCall EXCEPT !.op = op, !.phase = "sent",
                                                    !.token = jar, !.exp = access]]
    /\ UNCHANGED <<now, session, presence, jar, access>>

\* The handler, or the admission before it, samples the clock and then waits
\* for the locks.  The gateway admits unlock and activity before their handler.
Arrive(c) ==
    /\ \/ /\ calls[c].phase = "sent"
          /\ calls' = [calls EXCEPT ![c].at = now,
                 ![c].phase = IF calls[c].op \in {"unlock", "activity"}
                              THEN "entering" ELSE "running"]
       \/ /\ calls[c].phase = "admitted"
          /\ calls' = [calls EXCEPT ![c].at = now, ![c].phase = "running"]
    /\ UNCHANGED <<now, session, presence, jar, access>>

Lose(c) ==
    /\ calls[c].phase # "free"
    /\ calls' = [calls EXCEPT ![c] = NoCall]
    /\ UNCHANGED <<now, session, presence, jar, access>>

\* The pages are loaded anew: access tokens live in memory only.
Reload ==
    /\ access # None
    /\ access' = None
    /\ UNCHANGED <<now, session, presence, calls, jar>>

\* The answer reaches the browser.  The gateway sets the cookies of an issued
\* pair and clears them after a terminal answer of refresh or unlock and after
\* any logout, which it answers even when the server does not; an admission
\* refused by the gateway leaves them alone.
Deliver(c) ==
    LET call == calls[c]
        issued == /\ call.phase = "answered"
                  /\ call.op \in {"refresh", "unlock"} /\ call.code = "OK"
        ended == call.op \in {"refresh", "unlock"} /\ call.code \in Terminal
    IN  /\ \/ call.phase \in {"answered", "refused"}
           \/ call.phase # "free" /\ call.op = "logout"
        /\ jar' = IF issued THEN call.gen
                  ELSE IF call.op = "logout" \/ (ended /\ call.phase = "answered")
                  THEN None ELSE jar
        /\ access' = IF issued THEN Earlier(call.at + AccessLife, Lifetime)
                     ELSE IF call.op = "logout" \/ ended THEN None ELSE access
        /\ calls' = [calls EXCEPT ![c] = NoCall]
        /\ UNCHANGED <<now, session, presence>>

Tick ==
    /\ now < Horizon
    /\ now' = now + 1
    /\ UNCHANGED <<session, presence, calls, jar, access>>

-----------------------------------------------------------------------------
(* The handlers.                                                            *)

Runs(c, op) == calls[c].phase = "running" /\ calls[c].op = op

Answer(c, s, code) ==
    /\ session' = s
    /\ calls' = [calls EXCEPT ![c].phase = "answered", ![c].code = code, ![c].gen = s.gen]
    /\ UNCHANGED <<now, jar, access>>

\* The admission of a bearer or, for unlock without one, of the cookies.
Admit(c) ==
    LET call == calls[c]
        s == LockIdle(session, call.at)
        bound == Binding(session, call.at)
        Refuse(row, code) ==
            /\ session' = row
            /\ calls' = [calls EXCEPT ![c].phase = "refused", ![c].code = code]
        Pass == /\ session' = s
                /\ calls' = [calls EXCEPT ![c].phase = "admitted"]
    IN  /\ call.phase = "entering"
        /\ \/ call.exp # None /\ call.exp <= call.at /\ Refuse(session, "AUTH_TOKEN_INVALID")
           \/ /\ call.exp = None \/ call.exp > call.at
              /\ \/ bound # "OK" /\ Refuse(session, bound)
                 \/ /\ bound = "OK"
                    /\ IF call.op = "unlock"
                       THEN \/ call.exp # None /\ Pass
                            \/ call.exp = None /\ s.state = "locked" /\ call.token = s.gen /\ Pass
                            \/ /\ call.exp = None /\ (s.state # "locked" \/ call.token # s.gen)
                               /\ Refuse(s, "AUTH_TOKEN_INVALID")
                       ELSE \/ s.state # "locked" /\ Pass
                            \/ s.state = "locked" /\ Refuse(s, "AUTH_IDLE_LOCKED")
        /\ UNCHANGED <<now, presence, jar, access>>

Refresh(c) ==
    LET t == calls[c].at
        token == calls[c].token
        s == LockIdle(session, t)
        kind == Classified(s, token, t)
    IN  /\ Runs(c, "refresh")
        /\ \/ Binding(session, t) # "OK" /\ Answer(c, session, Binding(session, t))
           \/ /\ Binding(session, t) = "OK"
              /\ \/ s.state = "locked" /\ Answer(c, s, "AUTH_IDLE_LOCKED")
                 \/ /\ s.state # "locked" /\ token = s.gen
                    /\ IF Len(s.consumed) >= HistoryLimit
                       THEN Answer(c, s, "AUTH_SESSION_HISTORY_FULL")
                       ELSE Answer(c, Rotated(s, t, s.idle), "OK")
                 \/ /\ s.state # "locked" /\ token # s.gen
                    /\ Answer(c, IF kind = "AUTH_REFRESH_REUSED" THEN Revoked(s) ELSE s, kind)
        /\ UNCHANGED presence

\* The person types the right or a wrong password, and the same for the OTP.
Unlock(c, password, otp) ==
    LET t == calls[c].at
        s == LockIdle(session, t)
    IN  /\ Runs(c, "unlock")
        /\ \/ /\ Binding(session, t) # "OK"
              /\ Answer(c, session, Binding(session, t)) /\ UNCHANGED presence
           \/ /\ Binding(session, t) = "OK"
              /\ IF s.state # "locked" \/ calls[c].token # s.gen
                 THEN Answer(c, s, "AUTH_TOKEN_INVALID") /\ UNCHANGED presence
                 ELSE IF Exhausted(s)
                 THEN Answer(c, s, "REAUTH_ATTEMPTS_EXHAUSTED") /\ UNCHANGED presence
                 ELSE \/ /\ ~password
                         /\ Answer(c, [s EXCEPT !.passwordTries = @ + 1], "REAUTH_PASSWORD_INVALID")
                         /\ UNCHANGED presence
                      \/ /\ password /\ TwoFactor /\ ~otp
                         /\ Answer(c, [s EXCEPT !.otpTries = @ + 1], "REAUTH_OTP_INVALID")
                         /\ UNCHANGED presence
                      \/ /\ password /\ (TwoFactor => otp)
                         /\ IF Len(s.consumed) >= HistoryLimit  \* rolled back, with the lock
                            THEN Answer(c, session, "AUTH_SESSION_HISTORY_FULL") /\ UNCHANGED presence
                            ELSE /\ Answer(c, Rotated(s, t, t + IdleLimit), "OK")
                                 /\ presence' = Later(presence, t)

Activity(c) ==
    LET t == calls[c].at
        s == LockIdle(session, t)
    IN  /\ Runs(c, "activity")
        /\ \/ /\ Binding(session, t) # "OK"
              /\ Answer(c, session, Binding(session, t)) /\ UNCHANGED presence
           \/ /\ Binding(session, t) = "OK"
              /\ \/ s.state = "locked" /\ Answer(c, s, "AUTH_IDLE_LOCKED") /\ UNCHANGED presence
                 \/ /\ s.state # "locked"
                    /\ Answer(c, [s EXCEPT !.idle = t + IdleLimit], "OK")
                    /\ presence' = Later(presence, t)

\* logout accepts the current token and every spent one, whatever the state.
Logout(c) ==
    /\ Runs(c, "logout")
    /\ IF calls[c].token = session.gen \/ Spent(session, calls[c].token)
       THEN Answer(c, Revoked(session), "OK")
       ELSE Answer(c, session, "AUTH_TOKEN_INVALID")
    /\ UNCHANGED presence

\* Another device, revoke-all or a change of the account closes the session.
RevokeElsewhere ==
    /\ session.state # "revoked"
    /\ session' = Revoked(session)
    /\ UNCHANGED <<now, presence, calls, jar, access>>

\* issue() of a later login expires what is past its absolute end.
ExpireOwned ==
    /\ session.state \in Open
    /\ now >= Lifetime
    /\ session' = [session EXCEPT !.state = "expired"]
    /\ UNCHANGED <<now, presence, calls, jar, access>>

Next ==
    \/ \E c \in Calls :
        \/ \E op \in Operations : Send(c, op)
        \/ Arrive(c) \/ Lose(c) \/ Deliver(c)
        \/ Admit(c) \/ Refresh(c) \/ Activity(c) \/ Logout(c)
        \/ \E password, otp \in BOOLEAN : Unlock(c, password, otp)
    \/ Reload \/ Tick \/ RevokeElsewhere \/ ExpireOwned

Spec == Init /\ [][Next]_vars

-----------------------------------------------------------------------------
(* Properties.                                                              *)

Token == Nat \union {None}

SessionRows ==
    [state : Open \union Closed, gen : Nat, consumed : Seq(Nat),
     pred : [gen : Token, grace : Nat, recovery : Nat], idle : Nat,
     passwordTries : 0..MaxAttempts, otpTries : 0..MaxAttempts]

CallRows ==
    [op : {"refresh", "logout", "unlock", "activity"},
     phase : {"free", "sent", "entering", "admitted", "running", "answered", "refused"},
     token : Token, exp : Token, at : Nat, code : Codes, gen : Token]

\* The session, the calls in flight and what the browser holds are well typed,
\* and no counter of wrong guesses passes its limit.
TypeOK ==
    /\ now \in Nat /\ presence \in Nat
    /\ jar \in Token /\ access \in Token
    /\ session \in SessionRows
    /\ calls \in [Calls -> CallRows]

\* A refresh family is one line: every generation before the current one was
\* traded in exactly once and in order, the predecessor is the last of them,
\* and nobody ever holds a token the server has not issued yet.
EachTokenTradedOnce ==
    /\ Len(session.consumed) = session.gen
    /\ \A i \in 1..session.gen : session.consumed[i] = i - 1
    /\ session.pred.gen = session.gen - 1
    /\ jar <= session.gen
    /\ \A c \in Calls : calls[c].token <= session.gen /\ calls[c].gen <= session.gen

\* Once five passwords or five OTPs were wrong, over all unlocks of the session
\* and whatever calls overlap, the session is never active again.
ExhaustedNeverActive ==
    (session.passwordTries = MaxAttempts \/ session.otpTries = MaxAttempts)
        => session.state # "active"

\* The answer that c gets in this step grants something.
Grants(c) ==
    /\ calls[c].phase = "running"
    /\ calls'[c].phase = "answered" /\ calls'[c].code = "OK"
    /\ calls[c].op # "logout"

\* A revoked or expired session stays closed, keeps its generation and grants
\* nothing, also to calls that were admitted, or recovered, before it closed.
ClosedForGood ==
    [][session.state \in Closed =>
        /\ session'.state \in Closed
        /\ session'.gen = session.gen
        /\ \A c \in Calls : ~Grants(c)]_vars

\* Refreshing is not being there: a staff session yields no token for a refresh
\* that came IdleLimit or more after the last login, unlock or activity.
IdleEndsAccess ==
    [][\A c \in Calls : (Staff /\ Grants(c) /\ calls[c].op = "refresh")
        => calls[c].at < presence + IdleLimit]_vars

\* No call of the browser itself is ever taken for the reuse of a stolen token.
\* With one call at a time this holds, however many calls and answers are lost;
\* with two tabs it does not.
NoFalseReuse == \A c \in Calls : calls[c].code # "AUTH_REFRESH_REUSED"
=============================================================================
