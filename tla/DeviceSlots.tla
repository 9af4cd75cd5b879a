---------------------------- MODULE DeviceSlots ----------------------------
(***************************************************************************)
(* The sessions of one account and the slots they hold:                    *)
(* rust-api/src/sql_auth.rs (login), sql_auth/issuance.rs (slots, device   *)
(* challenges), sql_auth/factors.rs (login by OTP, switching the second    *)
(* factor on and off), the revocations of sql_auth/sessions.rs, and the    *)
(* edits of the account in routes/teams and routes/users.                  *)
(*                                                                         *)
(* A handler that locks the row of the user is one step from that lock to  *)
(* its commit.  What login and the change of a password read before the    *)
(* lock is the first of their two steps.  "active" stands for active and   *)
(* locked: refresh, unlock and idleness of one session are SessionRotation.*)
(* A repeated device selection or security change is answered from its     *)
(* stored result and changes nothing.  The clock stands still between what *)
(* a handler reads of it and its commit.                                   *)
(***************************************************************************)
EXTENDS Naturals, FiniteSets

CONSTANTS
    Sessions,      \* session ids
    Calls,         \* logins and password changes that can be under way
    Factors,       \* ids of OTP challenges
    Devices,       \* ids of device challenges
    MaxSlots,      \* two for staff, five for members
    MaxAttempts,   \* OTP guesses per challenge, five in the code
    ChallengeLife, \* five minutes
    Lifetime,      \* absolute life of a session
    Changes,       \* bound of changes to the account
    Horizon,       \* bound of the clock
    None

ASSUME DeviceSlotsAssumption ==
    /\ {MaxSlots, MaxAttempts, ChallengeLife, Lifetime, Changes, Horizon} \subseteq Nat
    /\ None \notin Factors \cup Devices \cup (Sessions \X BOOLEAN)
    /\ Factors \cap Devices = {}
    /\ (Factors \cup Devices) \cap (Sessions \X BOOLEAN) = {}

VARIABLES
    account,   \* row of users ("staff": its role is one of the back office); a
               \* password is numbered by the change that set it
    session,   \* rows of auth_sessions, with what their login has proved
    call,      \* what a login or password change has read before its lock
    factor,    \* rows of auth_factor_challenges
    device,    \* rows of auth_device_challenges
    changed,   \* keys of auth_security_changes: source session and operation
    now

vars == <<account, session, call, factor, device, changed, now>>

Origins == Factors \cup Devices \cup (Sessions \X BOOLEAN)
Times == 0..(Horizon + ChallengeLife + Lifetime)

Versions == [sv : 0..Changes, sg : 0..Changes]

Account == [staff : BOOLEAN, active : BOOLEAN, password : 0..Changes,
            twoFactor : BOOLEAN, at : Versions]

SessionRow == [state : {"unused", "active", "revoked", "expired"}, owns : BOOLEAN,
               slot : Nat, at : Versions, end : Times, password : 0..Changes,
               otp : BOOLEAN, origin : Origins \cup {None}]

Call == [op : {"none", "login", "password"}, password : 0..Changes, at : Versions]

FactorRow == [state : {"unused", "open", "consumed"}, at : Versions, end : Times,
              tries : 0..MaxAttempts, password : 0..Changes]

DeviceRow == [state : {"unused", "open", "done"}, at : Versions, twoFactor : BOOLEAN,
              end : Times, password : 0..Changes, otp : BOOLEAN, origin : Origins]

TypeOK ==
    /\ account \in Account
    /\ session \in [Sessions -> SessionRow]
    /\ call \in [Calls -> Call]
    /\ factor \in [Factors -> FactorRow]
    /\ device \in [Devices -> DeviceRow]
    /\ changed \subseteq Sessions \X BOOLEAN
    /\ now \in 0..Horizon

Fresh == [sv |-> 0, sg |-> 0]

Init ==
    /\ \E staff, twoFactor \in BOOLEAN :
          /\ twoFactor => staff
          /\ account = [staff |-> staff, active |-> TRUE, password |-> 0,
                        twoFactor |-> twoFactor, at |-> Fresh]
    /\ session = [s \in Sessions |->
          [state |-> "unused", owns |-> FALSE, slot |-> 0, at |-> Fresh, end |-> 0,
           password |-> 0, otp |-> FALSE, origin |-> None]]
    /\ call = [c \in Calls |-> [op |-> "none", password |-> 0, at |-> Fresh]]
    /\ factor = [f \in Factors |->
          [state |-> "unused", at |-> Fresh, end |-> 0, tries |-> 0, password |-> 0]]
    /\ device = [d \in Devices |->
          [state |-> "unused", at |-> Fresh, twoFactor |-> FALSE, end |-> 0,
           password |-> 0, otp |-> FALSE, origin |-> d]]
    /\ changed = {}
    /\ now = 0

-----------------------------------------------------------------------------
\* What a login has proved so far, and the challenge it came through.
Proof(password, otp, origin) == [password |-> password, otp |-> otp, origin |-> origin]

Expired ==
    [s \in Sessions |->
        IF session[s].owns /\ session[s].end <= now
        THEN [session[s] EXCEPT !.state = "expired", !.owns = FALSE]
        ELSE session[s]]

\* Mutant: the displaced session is closed but keeps its slot.
EndedHolding(s) == [s EXCEPT !.state = "revoked"]

Ended(s) == [s EXCEPT !.state = "revoked", !.owns = FALSE]

\* Mutant: a session past its end is left to the next login.
AllEndedLive(rows) ==
    [s \in Sessions |-> IF rows[s].state = "active" /\ now < rows[s].end
                       THEN Ended(rows[s]) ELSE rows[s]]

\* UPDATE auth_sessions ... WHERE state IN ('active','locked').
AllEnded(rows) ==
    [s \in Sessions |-> IF rows[s].state = "active" THEN Ended(rows[s]) ELSE rows[s]]

FreeSlots(rows) == (0..(MaxSlots - 1)) \ {rows[s].slot : s \in {t \in Sessions : rows[t].owns}}

\* install()
Install(rows, slot, who, proof) ==
    \E s \in Sessions :
        /\ rows[s].state = "unused"
        /\ session' = [rows EXCEPT ![s] =
              [state |-> "active", owns |-> TRUE, slot |-> slot, at |-> who.at,
               end |-> now + Lifetime, password |-> proof.password,
               otp |-> proof.otp, origin |-> proof.origin]]

Challenge(who, proof) ==
    \E d \in Devices :
        /\ device[d].state = "unused"
        /\ device' = [device EXCEPT ![d] =
              [state |-> "open", at |-> who.at, twoFactor |-> who.twoFactor,
               end |-> now + ChallengeLife, password |-> proof.password,
               otp |-> proof.otp,
               origin |-> IF proof.origin = None THEN d ELSE proof.origin]]

\* issue(): the lowest free slot, or a challenge to give one up.
Issue(rows, who, proof) ==
    \/ /\ \E slot \in FreeSlots(rows) :
             /\ \A other \in FreeSlots(rows) : slot <= other
             /\ Install(rows, slot, who, proof)
       /\ UNCHANGED device
    \/ /\ FreeSlots(rows) = {}
       /\ session' = rows
       /\ Challenge(who, proof)

-----------------------------------------------------------------------------
Read(c, op) ==
    /\ call[c].op = "none"
    /\ call' = [call EXCEPT ![c] =
          [op |-> op, password |-> account.password, at |-> account.at]]
    /\ UNCHANGED <<account, session, factor, device, changed, now>>

Done(c) == call' = [call EXCEPT ![c].op = "none"]

BeginLogin(c) == account.active /\ Read(c, "login")

\* Mutant: what was read before the lock is not compared.
UnmovedAnyway(c) == account.active

\* The account is still the one whose password was verified.
Unmoved(c) ==
    /\ account.active
    /\ call[c].password = account.password
    /\ call[c].at = account.at

OpenFactor(c) ==
    \E f \in Factors :
        /\ factor[f].state = "unused"
        /\ factor' = [factor EXCEPT ![f] =
              [state |-> "open", at |-> account.at, end |-> now + ChallengeLife,
               tries |-> 0, password |-> call[c].password]]

FinishLogin(c) ==
    /\ call[c].op = "login"
    /\ Done(c)
    /\ \/ /\ ~Unmoved(c)
          /\ UNCHANGED <<session, factor, device>>
       \/ /\ Unmoved(c)
          /\ account.twoFactor
          /\ OpenFactor(c)
          /\ UNCHANGED <<session, device>>
       \/ /\ Unmoved(c)
          /\ ~account.twoFactor
          /\ Issue(Expired, account, Proof(call[c].password, FALSE, None))
          /\ UNCHANGED factor
    /\ UNCHANGED <<account, changed, now>>

\* Mutant: a challenge may be answered again.
AnswerableAgain(f) ==
    /\ factor[f].state # "unused"
    /\ account.active /\ account.twoFactor
    /\ now < factor[f].end
    /\ factor[f].tries < MaxAttempts
    /\ factor[f].at = account.at

\* Mutant: the guesses are not counted against the limit.
AnswerableForever(f) ==
    /\ factor[f].state = "open"
    /\ account.active /\ account.twoFactor
    /\ now < factor[f].end
    /\ factor[f].at = account.at

Answerable(f) ==
    /\ factor[f].state = "open"
    /\ account.active /\ account.twoFactor
    /\ now < factor[f].end
    /\ factor[f].tries < MaxAttempts
    /\ factor[f].at = account.at

\* verify_two_factor_login: a wrong code is counted and committed.
VerifyFactor(f) ==
    /\ Answerable(f)
    /\ \/ /\ factor' = [factor EXCEPT ![f].tries = @ + 1]
          /\ UNCHANGED <<session, device>>
       \/ /\ factor' = [factor EXCEPT ![f].tries = @ + 1, ![f].state = "consumed"]
          /\ Issue(Expired, account, Proof(factor[f].password, TRUE, f))
    /\ UNCHANGED <<account, call, changed, now>>

\* device_selection, the first time.
SelectDevice(d, s) ==
    /\ device[d].state = "open"
    /\ account.active
    /\ now < device[d].end
    /\ device[d].at = account.at
    /\ device[d].twoFactor = account.twoFactor
    /\ session[s].owns
    /\ Install([session EXCEPT ![s] = Ended(@)], session[s].slot, account,
               Proof(device[d].password, device[d].otp, device[d].origin))
    /\ device' = [device EXCEPT ![d].state = "done"]
    /\ UNCHANGED <<account, call, factor, changed, now>>

-----------------------------------------------------------------------------
Bumped(at) == [sv |-> at.sv + 1, sg |-> at.sg + 1]

Room == account.at.sv < Changes

\* binding(), for a session that asks for something.
Admitted(s) ==
    /\ account.active
    /\ session[s].state = "active"
    /\ session[s].at = account.at
    /\ now < session[s].end

\* two_factor_confirm (on) and two_factor_disable, the first time.
SecurityChange(s, on) ==
    LET next == [account EXCEPT !.twoFactor = on, !.at = Bumped(@)]
    IN /\ account.staff /\ Room
       /\ Admitted(s)
       /\ <<s, on>> \notin changed
       /\ account.twoFactor # on
       /\ account' = next
       /\ Issue(AllEnded(session), next,
                Proof(IF on THEN session[s].password ELSE account.password, TRUE, <<s, on>>))
       /\ changed' = changed \cup {<<s, on>>}
       /\ UNCHANGED <<call, factor, now>>

\* revoke_owned and logout; the target need not be live any more.
Revoke(s) ==
    /\ session[s].state # "unused"
    /\ session' = [session EXCEPT ![s] = Ended(@)]
    /\ UNCHANGED <<account, call, factor, device, changed, now>>

\* revoke_all: the generation of the credentials stays.
RevokeAll(s) ==
    /\ Room
    /\ Admitted(s)
    /\ account' = [account EXCEPT !.at.sv = @ + 1]
    /\ session' = AllEnded(session)
    /\ UNCHANGED <<call, factor, device, changed, now>>

\* change_me_password, change_staff_me_password: nothing is looked at again.
BeginPassword(c) == (\E s \in Sessions : Admitted(s)) /\ Read(c, "password")

FinishPassword(c) ==
    /\ Room
    /\ call[c].op = "password"
    /\ Done(c)
    /\ account' = [account EXCEPT !.password = account.at.sv + 1, !.at = Bumped(@)]
    /\ session' = AllEnded(session)
    /\ UNCHANGED <<factor, device, changed, now>>

\* toggle_member, archive_member of staff; set_user_active of a member, whose
\* activation leaves the sessions alone.
SetActive(active) ==
    /\ Room
    /\ active # account.active
    /\ account' = [account EXCEPT !.active = active, !.at = Bumped(@)]
    /\ IF account.staff \/ ~active
       THEN session' = AllEnded(session)
       ELSE UNCHANGED session
    /\ UNCHANGED <<call, factor, device, changed, now>>

\* update_member with a new role, other permissions or a new password, and
\* reset_member_two_factor.
EditMember ==
    /\ account.staff /\ Room
    /\ \/ account' = [account EXCEPT !.at = Bumped(@)]
       \/ account' = [account EXCEPT !.password = account.at.sv + 1, !.at = Bumped(@)]
       \/ account' = [account EXCEPT !.twoFactor = FALSE, !.at = Bumped(@)]
    /\ session' = AllEnded(session)
    /\ UNCHANGED <<call, factor, device, changed, now>>

Tick ==
    /\ now < Horizon
    /\ now' = now + 1
    /\ UNCHANGED <<account, session, call, factor, device, changed>>

Next ==
    \/ \E c \in Calls :
          BeginLogin(c) \/ FinishLogin(c) \/ BeginPassword(c) \/ FinishPassword(c)
    \/ \E f \in Factors : VerifyFactor(f)
    \/ \E d \in Devices, s \in Sessions : SelectDevice(d, s)
    \/ \E s \in Sessions :
          Revoke(s) \/ RevokeAll(s) \/ \E on \in BOOLEAN : SecurityChange(s, on)
    \/ \E active \in BOOLEAN : SetActive(active)
    \/ EditMember
    \/ Tick

Spec == Init /\ [][Next]_vars

-----------------------------------------------------------------------------
Owners == {s \in Sessions : session[s].owns}

(***************************************************************************)
(* A slot has one owner, whatever logins, answers to challenges and        *)
(* revocations overlap.  The unique index of the table never has to speak. *)
(***************************************************************************)
SlotsExclusive ==
    /\ \A s \in Owners : session[s].slot < MaxSlots
    /\ \A s, t \in Owners : session[s].slot = session[t].slot => s = t

(***************************************************************************)
(* A slot is never held by a session that the account does not let in any  *)
(* more, for such a session would keep others out: every change of the     *)
(* account ends its sessions with it, and no login or challenge that began *)
(* before a change leaves a session behind it.                             *)
(***************************************************************************)
OwnersAreCurrent ==
    \A s \in Owners :
        session[s].state = "active" /\ account.active /\ session[s].at = account.at

(***************************************************************************)
(* Whoever holds a session has proved the password the account has now,    *)
(* and its second factor when it has one now: by the login it began with,  *)
(* however many challenges lie between, or by switching the factor on.     *)
(***************************************************************************)
OwnersAreProven ==
    \A s \in Owners :
        /\ session[s].password = account.password
        /\ account.twoFactor => session[s].otp

(***************************************************************************)
(* An answered OTP challenge, a device selection and a security change     *)
(* open one session each, however often they are sent.                     *)
(***************************************************************************)
OneSessionEach ==
    \A s, t \in Sessions :
        session[s].origin = session[t].origin /\ session[s].origin # None => s = t
=============================================================================
