------------------------------ MODULE AuthTabs ------------------------------
(***************************************************************************)
(* The tabs of one browser and their shared cookies:                       *)
(* client/src/auth/coordinator.ts (refresh, install, terminal, lock),      *)
(* auth/channel.ts (BroadcastChannel) and store/useAuthStore.ts (phases,   *)
(* fences, bootstrap, unlock, logout).                                     *)
(*                                                                         *)
(* A refresh is asked, served and delivered in three steps; between them   *)
(* the tab may be signed out, locked, told of newer credentials or         *)
(* reloaded.  The counters credentialGeneration and authSessionEpoch are   *)
(* compared for equality only, so an attempt carries the flags stale and   *)
(* fenced that a later change of the counters raises.  What the server     *)
(* makes of a refresh token is SessionRotation; here it answers by the     *)
(* state of the session.                                                   *)
(***************************************************************************)
EXTENDS Naturals, Sequences

CONSTANTS
    Tabs,      \* tabs of the browser
    Sessions,  \* bound of sessions
    Tokens,    \* bound of access tokens
    Cookies,   \* sessions of the cookies the browser may start with, 0 for none
    Backoffs,  \* recoveryBackoffs.length, three in the code
    Troubles   \* bound of failures, locks, revocations and reloads

ASSUME AuthTabsAssumption ==
    /\ {Sessions, Tokens, Backoffs, Troubles} \subseteq Nat
    /\ Cookies \subseteq 0..Sessions

VARIABLES
    tab,       \* store and coordinator of each tab
    attempt,   \* refreshes and unlocks under way
    inbox,     \* messages of the other tabs, in order
    server,    \* the sessions at the server
    cookie,    \* session of the cookies, 0 when there are none
    issued,    \* access tokens issued so far; they order the tokens (issue times differ)
    left,      \* sessions a tab was signed out of and has not asked for since (history)
    troubles

tabsVars == <<tab, attempt, inbox, server, cookie, issued, left, troubles>>

Sid == 1..Sessions
NoToken == [sid |-> 0, n |-> 0]
AccessToken == {NoToken} \cup [sid : Sid, n : 1..Tokens]

\* checkAuth, refreshOnce and unlockIdleSession.
Kinds == {"boot", "once", "unlock"}

Holding == {"initializing", "refreshing"}
SignedOff == {"unauthenticated", "revoked"}
Retryable == {"offline-stale", "bootstrap-retry"}
Phases == Holding \cup SignedOff \cup Retryable
          \cup {"authenticated", "locked", "rate-limited"}

\* "limited" is a 429 or a 504, "lost" no answer or a 500, 502 or 503.
Answers == {"ok", "race", "unavailable", "gone", "locked", "refused", "limited",
            "lost"}

Message == [type : {"ACCESS_UPDATED"}, token : AccessToken \ {NoToken}]
           \cup [type : {"LOGGED_OUT", "LOCKED"}, sid : 0..Sessions]

Resting == [step |-> "idle", sid |-> 0, token |-> NoToken, retried |-> FALSE,
            tries |-> 0, stale |-> FALSE, fenced |-> FALSE]

Asked(cookies) == [Resting EXCEPT !.step = "asked", !.sid = cookies]

Loading == [phase |-> "refreshing", authed |-> FALSE, token |-> NoToken,
            sid |-> 0, order |-> 0, accepts |-> FALSE, ended |-> FALSE,
            leaving |-> FALSE, again |-> FALSE, recovering |-> FALSE]

TabsTypeOK ==
    /\ tab \in [Tabs -> [phase : Phases, authed : BOOLEAN, token : AccessToken,
                         sid : 0..Sessions, order : 0..Tokens,
                         accepts : BOOLEAN, ended : BOOLEAN, leaving : BOOLEAN,
                         again : BOOLEAN, recovering : BOOLEAN]]
    /\ attempt \in [Tabs -> [Kinds ->
          [step : {"idle", "asked", "racing", "backoff"} \cup Answers,
           sid : 0..Sessions, token : AccessToken, retried : BOOLEAN,
           tries : 0..Backoffs, stale : BOOLEAN, fenced : BOOLEAN]]]
    /\ inbox \in [Tabs -> Seq(Message)]
    /\ server \in [Sid -> {"unused", "active", "locked", "closed"}]
    /\ cookie \in 0..Sessions
    /\ issued \in 0..Tokens
    /\ left \in [Tabs -> SUBSET Sid]
    /\ troubles \in 0..Troubles

Idle == [k \in Kinds |-> Resting]

\* Every tab has called checkAuth; the browser may hold a session's cookies.
TabsInit ==
    /\ cookie \in Cookies
    /\ server = [s \in Sid |-> IF s = cookie THEN "active" ELSE "unused"]
    /\ tab = [t \in Tabs |-> Loading]
    /\ attempt = [t \in Tabs |-> [Idle EXCEPT !["boot"] = Asked(cookie)]]
    /\ inbox = [t \in Tabs |-> <<>>]
    /\ issued = 0
    /\ left = [t \in Tabs |-> {}]
    /\ troubles = 0

-----------------------------------------------------------------------------
Broadcast(t, message) ==
    inbox' = [u \in Tabs |-> IF u = t THEN inbox[u] ELSE Append(inbox[u], message)]

\* What only a current attempt looks at is dropped.
Outdated(as) ==
    [k \in Kinds |-> IF as[k].step = "idle" THEN Resting
                     ELSE [as[k] EXCEPT !.stale = TRUE, !.fenced = TRUE,
                                        !.tries = 0, !.retried = FALSE]]

\* Mutant: a new credential does not rearm the terminal transition.
InstalledStillEnded(state, token) ==
    [state EXCEPT !.phase = "authenticated", !.authed = TRUE, !.token = token,
                  !.sid = token.sid, !.order = token.n, !.accepts = TRUE]

\* install: coordinator and store take the credential.
Installed(state, token) ==
    [state EXCEPT !.phase = "authenticated", !.authed = TRUE, !.token = token,
                  !.sid = token.sid, !.order = token.n, !.accepts = TRUE,
                  !.ended = FALSE]

Forgotten(state) ==
    [state EXCEPT !.token = NoToken, !.sid = 0, !.order = 0, !.accepts = FALSE]

\* clearSession of the coordinator with the phase callback of the store.
Cleared(state) ==
    [Forgotten(state) EXCEPT !.phase = "unauthenticated", !.authed = FALSE,
                             !.ended = TRUE]

\* transitionTerminal: only the first one turns the phase and the epoch.
Terminated(state) ==
    IF state.ended THEN Forgotten(state)
    ELSE [Forgotten(state) EXCEPT !.ended = TRUE, !.phase = "revoked",
                                  !.authed = FALSE]

Told(t) == left' = [left EXCEPT ![t] = @ \cup ({tab[t].sid} \ {0})]

\* A refresh is asked with the cookies of a session.
AsksFor(t, cookies) == left' = [left EXCEPT ![t] = @ \ {cookies}]

\* performRefresh, joined when refreshOnce is under way already.
Joined(as) == IF as["once"].step = "idle" THEN [as EXCEPT !["once"] = Asked(cookie)] ELSE as

BeginOnce(t, state) ==
    /\ tab' = [tab EXCEPT ![t] =
          IF attempt[t]["once"].step = "idle" THEN [state EXCEPT !.phase = "refreshing"]
                                              ELSE state]
    /\ attempt' = [attempt EXCEPT ![t] = Joined(@)]
    /\ IF attempt[t]["once"].step = "idle" THEN AsksFor(t, cookie) ELSE UNCHANGED left

\* Proactive timer or visibility; lock, end and throttling cancel both.
RefreshOnce(t) ==
    /\ tab[t].token # NoToken
    /\ tab[t].phase \notin SignedOff \cup {"locked", "rate-limited"}
    /\ attempt[t]["once"].step = "idle"
    /\ BeginOnce(t, tab[t])
    /\ UNCHANGED <<inbox, server, cookie, issued, troubles>>

\* retryBootstrap: refreshOnce, then checkAuth whatever came of it.
Retry(t) ==
    /\ tab[t].phase \in Retryable
    /\ attempt[t]["boot"].step = "idle"
    /\ BeginOnce(t, [tab[t] EXCEPT !.phase = "initializing", !.again = TRUE])
    /\ UNCHANGED <<inbox, server, cookie, issued, troubles>>

UnlockIdle(t) ==
    /\ tab[t].phase = "locked"
    /\ ~tab[t].recovering
    /\ attempt[t]["unlock"].step = "idle"
    /\ attempt' = [attempt EXCEPT ![t]["unlock"] = [Asked(cookie) EXCEPT !.token = tab[t].token]]
    /\ UNCHANGED <<tab, inbox, server, cookie, issued, left, troubles>>

-----------------------------------------------------------------------------
Trouble == troubles < Troubles /\ troubles' = troubles + 1

State(s) == IF s = 0 THEN "closed" ELSE server[s]

\* An unlock passes the admission of its bearer, then works on the cookies.
Admitted(a) == a.token = NoToken \/ State(a.token.sid) # "closed"

\* The server serves a request; a trouble of its own may last.  With the tokens of the bound used up a
\* request nobody waits for is lost, and any other waits.
Serve(t, k) ==
    LET a == attempt[t][k]
        Answer(step) == attempt' = [attempt EXCEPT ![t][k].step = step]
        Issue == /\ issued < Tokens
                 /\ issued' = issued + 1
                 /\ attempt' = [attempt EXCEPT ![t][k].step = "ok",
                       ![t][k].token = [sid |-> a.sid, n |-> issued + 1]]
    IN /\ a.step = "asked"
       /\ \/ /\ k # "unlock" /\ State(a.sid) = "active"
             /\ Issue
             /\ UNCHANGED <<server, troubles>>
          \/ /\ k = "unlock" /\ State(a.sid) = "locked" /\ Admitted(a)
             /\ Issue
             /\ server' = [server EXCEPT ![a.sid] = "active"]
             /\ UNCHANGED troubles
          \/ /\ k = "unlock" /\ State(a.sid) = "locked" /\ Admitted(a)
             /\ Answer("refused")
             /\ UNCHANGED <<server, issued, troubles>>
          \/ /\ k # "unlock" /\ State(a.sid) = "locked"
             /\ Answer("locked")
             /\ UNCHANGED <<server, issued, troubles>>
          \/ /\ \/ State(a.sid) = "closed"
                \/ k = "unlock" /\ (State(a.sid) = "active" \/ ~Admitted(a))
             /\ Answer("gone")
             /\ UNCHANGED <<server, issued, troubles>>
          \/ /\ k # "unlock" /\ State(a.sid) = "active"
             /\ \E step \in {"race", "unavailable"} : Answer(step)
             /\ IF a.retried \/ a.tries > 0 THEN UNCHANGED troubles ELSE Trouble
             /\ UNCHANGED <<server, issued>>
          \/ /\ Answer("limited")
             /\ Trouble
             /\ UNCHANGED <<server, issued>>
          \/ /\ issued = Tokens /\ a.stale
             /\ Answer("lost")
             /\ UNCHANGED <<server, issued, troubles>>
    /\ UNCHANGED <<tab, inbox, cookie, left>>

\* Before or after it was served.
LoseCall(t, k) ==
    /\ attempt[t][k].step \in {"asked", "ok"}
    /\ attempt' = [attempt EXCEPT ![t][k].step = "lost"]
    /\ Trouble
    /\ UNCHANGED <<tab, inbox, server, cookie, issued, left>>

-----------------------------------------------------------------------------
(***************************************************************************)
(* The end of an attempt.  refreshOnce has up to two callers that wait for *)
(* it: an unlock whose answer was lost, and retryBootstrap.                *)
(***************************************************************************)
Withdrawn == {"locked", "race", "unavailable"}

\* unlockIdleSession after its recovery.
Recovered(state, outcome) ==
    IF ~state.recovering \/ outcome = "ok" THEN state
    ELSE IF outcome = "gone" THEN [Cleared(state) EXCEPT !.phase = "revoked"]
    ELSE IF outcome = "limited"
         THEN [state EXCEPT !.phase = "rate-limited", !.authed = FALSE]
    ELSE [state EXCEPT !.phase = "locked", !.authed = @ /\ outcome \notin Withdrawn]

AfterOnce(state, outcome) ==
    LET rested == [Recovered(state, outcome) EXCEPT !.recovering = FALSE, !.again = FALSE]
    IN IF state.again THEN [rested EXCEPT !.phase = "refreshing"] ELSE rested

\* The catch of checkAuth; a fenced one returns.
AfterBoot(state, outcome) ==
    CASE outcome = "gone"        -> [state EXCEPT !.phase = "revoked", !.authed = FALSE,
                                                  !.token = NoToken]
      [] outcome = "locked"      -> [state EXCEPT !.phase = "locked", !.authed = FALSE]
      [] outcome = "race"        -> [state EXCEPT !.phase = "bootstrap-retry",
                                                  !.authed = FALSE]
      [] outcome = "unavailable" -> [state EXCEPT !.phase = "offline-stale"]
      [] outcome = "lost"        -> [state EXCEPT !.phase = "offline-stale"]
      [] outcome = "superseded"  -> [state EXCEPT !.phase = "offline-stale"]

\* 429: a surviving session is kept, a public page goes on without one, any
\* other page waits; 504: the page offers a retry.
BootLimited(state) ==
    {[state EXCEPT !.phase = "bootstrap-retry", !.authed = FALSE]} \cup
    (IF state.authed /\ state.token # NoToken
     THEN {[state EXCEPT !.phase = "offline-stale"]}
     ELSE {[state EXCEPT !.phase = "unauthenticated", !.authed = FALSE,
                         !.token = NoToken],
           [state EXCEPT !.phase = "rate-limited", !.authed = FALSE]})

\* The checkAuth of retryBootstrap asks once more after its refreshOnce.
FollowUp(t, k, cookies) ==
    IF k = "once" /\ tab[t].again THEN AsksFor(t, cookies) ELSE UNCHANGED left

\* The promise of attempt k rejects; state and as are the tab and its attempts
\* as classifyAttempt leaves them, cookies the session of the cookies.
Reject(t, k, outcome, state, as, cookies) ==
    LET fails == IF k = "once" THEN {AfterOnce(state, outcome)}
                 ELSE IF as[k].fenced THEN {state}
                 ELSE IF outcome = "limited" THEN BootLimited(state)
                 ELSE {AfterBoot(state, outcome)}
    IN /\ \E after \in fails : tab' = [tab EXCEPT ![t] = after]
       /\ attempt' = [attempt EXCEPT ![t] =
             [as EXCEPT ![k] = Resting,
                        !["boot"] = IF k = "once" /\ state.again THEN Asked(cookies)
                                    ELSE IF k = "boot" THEN Resting ELSE @]]

\* Mutant: the generation of the credential is not compared.
CurrentAnyway(a) == TRUE

Current(a) == ~a.stale

Install(t, k) ==
    LET a == attempt[t][k]
        state == Installed(tab[t], a.token)
    IN /\ k # "unlock"
       /\ a.step = "ok"
       /\ Current(a)
       /\ tab' = [tab EXCEPT ![t] = IF k = "once" THEN AfterOnce(state, "ok") ELSE state]
       /\ attempt' = [attempt EXCEPT ![t] =
             [Outdated(attempt[t]) EXCEPT ![k] = Resting,
                  !["boot"] = IF k = "once" /\ state.again
                              THEN Asked(a.sid)
                              ELSE IF k = "boot" THEN Resting ELSE @]]
       /\ cookie' = a.sid
       /\ FollowUp(t, k, a.sid)
       /\ Broadcast(t, [type |-> "ACCESS_UPDATED", token |-> a.token])
       /\ UNCHANGED <<server, issued, troubles>>

\* The answer sets or clears the cookies although nobody waits for it.
Superseded(t, k) ==
    LET a == attempt[t][k]
        cookies == IF a.step = "ok" THEN a.sid ELSE IF a.step = "gone" THEN 0 ELSE cookie
    IN /\ k # "unlock"
       /\ a.step \in Answers \ {"locked"}
       /\ ~Current(a)
       /\ cookie' = cookies
       /\ Reject(t, k, "superseded", tab[t], attempt[t], cookies)
       /\ FollowUp(t, k, cookies)
       /\ UNCHANGED <<inbox, server, issued, troubles>>

Race(t, k) ==
    LET a == attempt[t][k]
    IN /\ a.step = "race"
       /\ Current(a)
       /\ IF a.retried
          THEN /\ Reject(t, k, "race", [tab[t] EXCEPT !.phase = "offline-stale"],
                         attempt[t], cookie)
               /\ FollowUp(t, k, cookie)
          ELSE /\ attempt' = [attempt EXCEPT ![t][k].step = "racing"]
               /\ UNCHANGED <<tab, left>>
       /\ UNCHANGED <<inbox, server, cookie, issued, troubles>>

\* Mutant: one backoff more than there are.
MayWaitOnceMore(a) == a.tries <= Backoffs

MayWait(a) == a.tries < Backoffs

Unavailable(t, k) ==
    LET a == attempt[t][k]
        stale == [tab[t] EXCEPT !.phase = "offline-stale"]
    IN /\ a.step = "unavailable"
       /\ Current(a)
       /\ IF MayWait(a)
          THEN /\ attempt' = [attempt EXCEPT ![t][k].step = "backoff", ![t][k].tries = @ + 1]
               /\ tab' = [tab EXCEPT ![t] = stale]
               /\ UNCHANGED left
          ELSE /\ Reject(t, k, "unavailable", stale, attempt[t], cookie)
               /\ FollowUp(t, k, cookie)
       /\ UNCHANGED <<inbox, server, cookie, issued, troubles>>

\* waitForWinner, or the delay, is over: the refresh is sent again, stale or not.
Resend(t, k) ==
    LET a == attempt[t][k]
    IN /\ a.step \in {"racing", "backoff"}
       /\ attempt' = [attempt EXCEPT ![t][k] =
             [a EXCEPT !.step = "asked", !.sid = cookie,
                       !.retried = @ \/ (a.step = "racing" /\ ~a.stale)]]
       /\ IF Current(a) THEN AsksFor(t, cookie) ELSE UNCHANGED left
       /\ UNCHANGED <<tab, inbox, server, cookie, issued, troubles>>

\* The recovery of an unlock that ends here says LOGGED_OUT of no session.
Gone(t, k) ==
    LET a == attempt[t][k]
        moved == IF ~tab[t].ended THEN Outdated(attempt[t])
                 ELSE [j \in Kinds |-> [attempt[t][j] EXCEPT !.stale = @ \/ attempt[t][j].step # "idle"]]
    IN /\ k # "unlock"
       /\ a.step = "gone"
       /\ Current(a)
       /\ cookie' = 0
       /\ Told(t)
       /\ Reject(t, k, "gone", Terminated(tab[t]), moved, 0)
       /\ IF k = "once" /\ tab[t].recovering
          THEN Broadcast(t, [type |-> "LOGGED_OUT", sid |-> 0])
          ELSE UNCHANGED inbox
       /\ UNCHANGED <<server, issued, troubles>>

Failed(t, k) ==
    LET a == attempt[t][k]
    IN /\ k # "unlock"
       /\ a.step \in {"limited", "lost"}
       /\ Current(a)
       /\ Reject(t, k, a.step,
                 IF a.step = "lost" THEN [tab[t] EXCEPT !.phase = "offline-stale"]
                                    ELSE tab[t], attempt[t], cookie)
       /\ FollowUp(t, k, cookie)
       /\ UNCHANGED <<inbox, server, cookie, issued, troubles>>

\* lockSession does nothing without a session.
Locked(state) == IF state.sid = 0 THEN state ELSE [state EXCEPT !.phase = "locked"]

TellLocked(t) ==
    IF tab[t].sid = 0 THEN UNCHANGED inbox
    ELSE Broadcast(t, [type |-> "LOCKED", sid |-> tab[t].sid])

\* The interceptor of the store locks before the coordinator looks at the 423.
LockedOut(t, k) ==
    LET a == attempt[t][k]
    IN /\ a.step = "locked"
       /\ TellLocked(t)
       /\ Reject(t, k, IF Current(a) THEN "locked" ELSE "superseded",
                 Locked(tab[t]), attempt[t], cookie)
       /\ FollowUp(t, k, cookie)
       /\ UNCHANGED <<server, cookie, issued, troubles>>

-----------------------------------------------------------------------------
\* unlockIdleSession installs its answer whatever happened meanwhile.
Unlocked(t) ==
    LET a == attempt[t]["unlock"]
    IN /\ a.step = "ok"
       /\ tab' = [tab EXCEPT ![t] = Installed(@, a.token)]
       /\ attempt' = [attempt EXCEPT ![t] = [Outdated(@) EXCEPT !["unlock"] = Resting]]
       /\ cookie' = a.sid
       /\ Broadcast(t, [type |-> "ACCESS_UPDATED", token |-> a.token])
       /\ UNCHANGED <<server, issued, left, troubles>>

UnlockFailed(t) ==
    LET a == attempt[t]["unlock"]
        rested == [attempt EXCEPT ![t]["unlock"] = Resting]
    IN \/ /\ a.step \in {"refused", "limited"}
          /\ attempt' = rested
          /\ tab' = [tab EXCEPT ![t].authed = FALSE, ![t].phase =
                        IF a.step = "refused" THEN "locked" ELSE "rate-limited"]
          /\ UNCHANGED <<inbox, cookie, left>>
       \/ /\ a.step = "gone"
          /\ attempt' = [rested EXCEPT ![t] = Outdated(@)]
          /\ tab' = [tab EXCEPT ![t] = [Cleared(@) EXCEPT !.phase = "revoked"]]
          /\ cookie' = 0
          /\ Told(t)
          /\ Broadcast(t, [type |-> "LOGGED_OUT", sid |-> tab[t].sid])

\* The unlock may have been committed: one refresh finds out.
UnlockLost(t) ==
    LET joined == attempt[t]["once"].step # "idle"
    IN /\ attempt[t]["unlock"].step = "lost"
       /\ attempt' = [attempt EXCEPT ![t] = [Joined(@) EXCEPT !["unlock"] = Resting]]
       /\ tab' = [tab EXCEPT ![t].recovering = TRUE,
                             ![t].phase = IF joined THEN @ ELSE "refreshing"]
       /\ IF joined THEN UNCHANGED left ELSE AsksFor(t, cookie)
       /\ UNCHANGED <<inbox, server, cookie, issued, troubles>>

-----------------------------------------------------------------------------
\* Mutant: a token of any session is taken from the channel.
AcceptsAnySession(state, token) ==
    state.accepts /\ token.n > state.order /\ state.authed /\ state.token # NoToken

\* install of a credential that arrives over the channel, and acceptRemote.
Accepts(state, token) ==
    /\ state.accepts /\ token.sid = state.sid /\ token.n > state.order
    /\ state.authed /\ state.token # NoToken

Receive(t) ==
    LET m == Head(inbox[t])
        mine == \/ m.sid = tab[t].sid
                \/ m.type = "LOGGED_OUT" /\ m.sid = 0
    IN /\ inbox[t] # <<>>
       /\ inbox' = [inbox EXCEPT ![t] = Tail(@)]
       /\ IF m.type = "ACCESS_UPDATED" /\ Accepts(tab[t], m.token)
          THEN /\ tab' = [tab EXCEPT ![t] = Installed(@, m.token)]
               /\ attempt' = [attempt EXCEPT ![t] = Outdated(@)]
               /\ UNCHANGED left
          ELSE IF m.type = "LOGGED_OUT" /\ mine
          THEN /\ tab' = [tab EXCEPT ![t] = Cleared(@)]
               /\ attempt' = [attempt EXCEPT ![t] = Outdated(@)]
               /\ Told(t)
          ELSE IF m.type = "LOCKED" /\ mine
          THEN /\ tab' = [tab EXCEPT ![t] = Locked(@)]
               /\ UNCHANGED <<attempt, left>>
          ELSE UNCHANGED <<tab, attempt, left>>
       /\ UNCHANGED <<server, cookie, issued, troubles>>

\* logout is sent, from a page at rest, and served; a lost one leaves session
\* and cookies alone.  A refresh may begin before its answer is there.
SignOut(t) ==
    /\ tab[t].authed
    /\ tab[t].phase = "authenticated"
    /\ ~tab[t].leaving
    /\ tab' = [tab EXCEPT ![t].leaving = TRUE]
    /\ \/ /\ server' = [s \in Sid |-> IF s = cookie THEN "closed" ELSE server[s]]
          /\ cookie' = 0
          /\ UNCHANGED troubles
       \/ /\ Trouble
          /\ UNCHANGED <<server, cookie>>
    /\ UNCHANGED <<attempt, inbox, issued, left>>

SignedOut(t) ==
    /\ tab[t].leaving
    /\ tab' = [tab EXCEPT ![t] = [Cleared(@) EXCEPT !.leaving = FALSE]]
    /\ attempt' = [attempt EXCEPT ![t] = Outdated(@)]
    /\ Told(t)
    /\ Broadcast(t, [type |-> "LOGGED_OUT", sid |-> tab[t].sid])
    /\ UNCHANGED <<server, cookie, issued, troubles>>

\* login with everything up to installLocalCredential, answered at once.
Login(t) ==
    /\ tab[t].phase \in SignedOff
    /\ issued < Tokens
    /\ \E s \in Sid :
          /\ server[s] = "unused"
          /\ server' = [server EXCEPT ![s] = "active"]
          /\ cookie' = s
          /\ tab' = [tab EXCEPT ![t] = Installed(@, [sid |-> s, n |-> issued + 1])]
          /\ Broadcast(t, [type |-> "ACCESS_UPDATED", token |-> [sid |-> s, n |-> issued + 1]])
    /\ issued' = issued + 1
    /\ attempt' = [attempt EXCEPT ![t] = Outdated(@)]
    /\ UNCHANGED <<left, troubles>>

-----------------------------------------------------------------------------
\* The idle deadline passes at the server; the timer of a tab may notice first.
IdleOut(t) ==
    /\ tab[t].phase = "authenticated"
    /\ State(tab[t].sid) = "active"
    /\ server' = [server EXCEPT ![tab[t].sid] = "locked"]
    /\ Trouble
    /\ \/ /\ tab' = [tab EXCEPT ![t] = Locked(@)]
          /\ TellLocked(t)
       \/ UNCHANGED <<tab, inbox>>
    /\ UNCHANGED <<attempt, cookie, issued, left>>

Revoke(s) ==
    /\ server[s] \in {"active", "locked"}
    /\ server' = [server EXCEPT ![s] = "closed"]
    /\ Trouble
    /\ UNCHANGED <<tab, attempt, inbox, cookie, issued, left>>

ReloadTab(t) ==
    /\ tab' = [tab EXCEPT ![t] = Loading]
    /\ attempt' = [attempt EXCEPT ![t] = [Idle EXCEPT !["boot"] = Asked(cookie)]]
    /\ inbox' = [inbox EXCEPT ![t] = <<>>]
    /\ left' = [left EXCEPT ![t] = {}]
    /\ Trouble
    /\ UNCHANGED <<server, cookie, issued>>

DeliverRefresh(t, k) ==
    \/ Install(t, k) \/ Superseded(t, k) \/ Race(t, k) \/ Unavailable(t, k)
    \/ Gone(t, k) \/ Failed(t, k) \/ LockedOut(t, k) \/ Resend(t, k)

DeliverUnlock(t) ==
    \/ Unlocked(t)
    \/ UnlockFailed(t) /\ UNCHANGED <<server, issued, troubles>>
    \/ UnlockLost(t)

TabsNext ==
    \/ \E t \in Tabs :
          \/ RefreshOnce(t) \/ Retry(t) \/ UnlockIdle(t)
          \/ \E k \in Kinds : Serve(t, k) \/ LoseCall(t, k) \/ DeliverRefresh(t, k)
          \/ DeliverUnlock(t) \/ Receive(t)
          \/ SignOut(t) \/ SignedOut(t) \/ Login(t) \/ IdleOut(t) \/ ReloadTab(t)
    \/ \E s \in Sid : Revoke(s)

TabsSpec == TabsInit /\ [][TabsNext]_tabsVars

(***************************************************************************)
(* Requests are answered or fail, messages between tabs arrive, and a tab  *)
(* that shows itself signed in has a proactive timer running.              *)
(***************************************************************************)
Fairness ==
    \A t \in Tabs :
        /\ \A k \in Kinds : WF_tabsVars(Serve(t, k)) /\ WF_tabsVars(DeliverRefresh(t, k))
        /\ WF_tabsVars(DeliverUnlock(t))
        /\ WF_tabsVars(Receive(t))
        /\ WF_tabsVars(SignedOut(t))
        /\ WF_tabsVars(RefreshOnce(t) /\ tab[t].phase = "authenticated")

FairTabsSpec == TabsSpec /\ Fairness

-----------------------------------------------------------------------------
(***************************************************************************)
(* A tab that was signed out of a session, by its user, by another tab or  *)
(* by the server, comes back to it only when it asks for it: neither a     *)
(* refresh that was under way nor a message that was on its way brings it  *)
(* back.  One door stays open, the answer to an unlock, which the store    *)
(* installs unseen.  (What a tab asks for is in the cookies, and a late    *)
(* answer that nobody waits for still sets them.)                          *)
(***************************************************************************)
StaysSignedOut ==
    [][\A t \in Tabs : \A s \in left[t] \cap left'[t] :
          tab[t].sid # s /\ tab'[t].sid = s => attempt[t]["unlock"].step = "ok"]_tabsVars

(***************************************************************************)
(* The other tabs cannot move a tab to another session, and whatever       *)
(* arrives late, the token of a session is only ever replaced by a newer   *)
(* one (again but for an unlock).                                          *)
(***************************************************************************)
NewestTokenWins ==
    [][\A t \in Tabs :
          tab[t].sid # 0 /\ tab'[t].sid # 0 /\ tab'[t].token # tab[t].token =>
              \/ tab'[t].token = NoToken
              \/ attempt[t]["unlock"].step = "ok"
              \/ /\ tab'[t].order > tab[t].order
                 /\ tab'[t].sid = tab[t].sid \/ inbox'[t] = inbox[t]]_tabsVars

Busy(t) == \E k \in Kinds : attempt[t][k].step # "idle"

(***************************************************************************)
(* When the session ends or is locked, every tab that shows itself signed  *)
(* in, or about to be, learns of it, be it by a message or by its next     *)
(* refresh, and ends up on a page that says so.  Only a throttled refresh  *)
(* can keep it from that: the coordinator has no phase for a 429 and       *)
(* leaves the tab at "refreshing" with nothing under way.                  *)
(***************************************************************************)
TabsLearn ==
    \/ <>(\E t \in Tabs : \E k \in Kinds : attempt[t][k].step = "limited")
    \/ <>[](\A t \in Tabs :
              tab[t].phase \in Holding \cup {"authenticated"} /\ ~Busy(t) =>
                  tab[t].sid # 0 /\ State(tab[t].sid) = "active")
=============================================================================
