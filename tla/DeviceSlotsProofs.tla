------------------------- MODULE DeviceSlotsProofs -------------------------
(***************************************************************************)
(* Proofs about DeviceSlots, for any number of sessions, overlapping       *)
(* logins, challenges, slots and changes.                                  *)
(***************************************************************************)
EXTENDS DeviceSlots, TLAPS

-----------------------------------------------------------------------------
\* The inductive invariant.  Its parts take the rows as arguments, so that they
\* can be said of the rows a handler has updated before it calls issue().

\* What a login has proved is what the account asks for.
Fits(proof, who) == proof.password = who.password /\ (who.twoFactor => proof.otp)

\* Sessions that hold a slot are the live ones; they are of the account as it is.
Held(rows, who) ==
    /\ \A s \in Sessions : rows[s].state = "active" <=> rows[s].owns
    /\ \A s \in Sessions : rows[s].owns =>
          /\ who.active
          /\ rows[s].at = who.at
          /\ Fits(rows[s], who)
          /\ rows[s].slot < MaxSlots
    /\ \A s, t \in Sessions :
          rows[s].owns /\ rows[t].owns /\ rows[s].slot = rows[t].slot => s = t

\* No challenge is of a later version than the account, and one of its own version
\* was opened with what the account asks for.
Pending(fac, dev, who) ==
    /\ \A f \in Factors :
          /\ fac[f].at.sv <= who.at.sv
          /\ fac[f].state = "open" /\ fac[f].at = who.at => fac[f].password = who.password
    /\ \A d \in Devices :
          /\ dev[d].at.sv <= who.at.sv
          /\ dev[d].state = "open" /\ dev[d].at = who.at => Fits(dev[d], who)

\* An origin that a session names is spent.
Spent(o, fac, dev, chg) ==
    /\ o \in Factors => fac[o].state = "consumed"
    /\ o \in Devices => dev[o].state = "done"
    /\ o \in Sessions \X BOOLEAN => o \in chg

\* An origin that a device challenge carries is spent, or is the challenge itself.
Carried(d, o, fac, chg) ==
    /\ o \in Factors => fac[o].state = "consumed"
    /\ o \in Devices => o = d
    /\ o \in Sessions \X BOOLEAN => o \in chg

Single(rows, fac, dev, chg) ==
    /\ \A s, t \in Sessions :
          rows[s].origin = rows[t].origin /\ rows[s].origin # None => s = t
    /\ \A s \in Sessions : Spent(rows[s].origin, fac, dev, chg)
    /\ \A d \in Devices : dev[d].state # "unused" => Carried(d, dev[d].origin, fac, chg)
    /\ \A d \in Devices : dev[d].state = "open" =>
          \A s \in Sessions : rows[s].origin # dev[d].origin
    /\ \A d, e \in Devices :
          /\ dev[d].state # "unused" /\ dev[e].state # "unused"
          /\ dev[d].origin = dev[e].origin
          => d = e

Inv ==
    /\ TypeOK
    /\ account.at.sg <= account.at.sv
    /\ Held(session, account)
    /\ Pending(factor, device, account)
    /\ Single(session, factor, device, changed)

-----------------------------------------------------------------------------
\* What issue() needs of the rows it is given, and what it leaves.

ProofRow == [password : 0..Changes, otp : BOOLEAN, origin : Origins \cup {None}]

\* An origin no session and no device challenge has.
Unused(o, rows) ==
    o # None =>
        /\ \A s \in Sessions : rows[s].origin # o
        /\ \A d \in Devices : device[d].state # "unused" => device[d].origin # o
        /\ o \notin Devices

Issuing(rows, who, proof, fac, chg) ==
    /\ rows \in [Sessions -> SessionRow]
    /\ device \in [Devices -> DeviceRow]
    /\ who \in Account
    /\ proof \in ProofRow
    /\ now \in 0..Horizon
    /\ who.active
    /\ Fits(proof, who)
    /\ Held(rows, who)
    /\ Pending(fac, device, who)
    /\ Single(rows, fac, device, chg)
    /\ Unused(proof.origin, rows)
    /\ Spent(proof.origin, fac, device, chg)

LEMMA InstallHolds ==
    ASSUME NEW rows \in [Sessions -> SessionRow], NEW who \in Account,
           NEW proof \in ProofRow, NEW slot \in Nat,
           now \in 0..Horizon, who.active, Fits(proof, who), Held(rows, who),
           slot < MaxSlots, \A s \in Sessions : rows[s].owns => rows[s].slot # slot,
           Install(rows, slot, who, proof)
    PROVE  session' \in [Sessions -> SessionRow] /\ Held(session', who)
<1>1. PICK s \in Sessions :
         /\ rows[s].state = "unused"
         /\ session' = [rows EXCEPT ![s] =
              [state |-> "active", owns |-> TRUE, slot |-> slot, at |-> who.at,
               end |-> now + Lifetime, password |-> proof.password,
               otp |-> proof.otp, origin |-> proof.origin]]
  BY DEF Install
<1>2. now + Lifetime \in Times
  BY DeviceSlotsAssumption DEF Times
<1> DEFINE new == [state |-> "active", owns |-> TRUE, slot |-> slot, at |-> who.at,
               end |-> now + Lifetime, password |-> proof.password,
               otp |-> proof.otp, origin |-> proof.origin]
<1>3. new \in SessionRow
  BY <1>2 DEF SessionRow, ProofRow, Account
<1>4. session' \in [Sessions -> SessionRow]
  BY <1>1, <1>3
<1>5. /\ session'[s] = new
      /\ \A t \in Sessions : t # s => session'[t] = rows[t]
  BY <1>1
<1>6. Held(session', who)
  <2>1. \A t \in Sessions : session'[t].state = "active" <=> session'[t].owns
    BY <1>5 DEF Held
  <2>2. \A t \in Sessions : session'[t].owns =>
          /\ who.active
          /\ session'[t].at = who.at
          /\ Fits(session'[t], who)
          /\ session'[t].slot < MaxSlots
    BY <1>5 DEF Held, Fits
  <2>3. \A t, u \in Sessions :
          session'[t].owns /\ session'[u].owns /\ session'[t].slot = session'[u].slot => t = u
    BY <1>5 DEF Held
  <2> QED BY <2>1, <2>2, <2>3 DEF Held
<1> QED BY <1>4, <1>6

LEMMA InstallOnce ==
    ASSUME NEW rows \in [Sessions -> SessionRow], NEW who, NEW proof, NEW slot,
           NEW fac, NEW dev, NEW chg,
           Single(rows, fac, dev, chg),
           Spent(proof.origin, fac, dev, chg),
           proof.origin # None =>
              /\ \A s \in Sessions : rows[s].origin # proof.origin
              /\ \A d \in Devices : dev[d].state = "open" => dev[d].origin # proof.origin,
           \A d \in Devices : dev[d].state = "open" => dev[d].origin # None,
           Install(rows, slot, who, proof)
    PROVE  Single(session', fac, dev, chg)
<1>1. PICK s \in Sessions :
         session' = [rows EXCEPT ![s] =
              [state |-> "active", owns |-> TRUE, slot |-> slot, at |-> who.at,
               end |-> now + Lifetime, password |-> proof.password,
               otp |-> proof.otp, origin |-> proof.origin]]
  BY DEF Install
<1>2. /\ session'[s].origin = proof.origin
      /\ \A t \in Sessions : t # s => session'[t].origin = rows[t].origin
  BY <1>1
<1>3. \A t, u \in Sessions :
          session'[t].origin = session'[u].origin /\ session'[t].origin # None => t = u
  BY <1>2 DEF Single
<1>4. \A t \in Sessions : Spent(session'[t].origin, fac, dev, chg)
  BY <1>2 DEF Single
<1>5. \A d \in Devices : dev[d].state = "open" =>
          \A t \in Sessions : session'[t].origin # dev[d].origin
  BY <1>2 DEF Single
<1> QED BY <1>3, <1>4, <1>5 DEF Single

LEMMA ChallengeHolds ==
    ASSUME NEW rows, NEW who, NEW proof, NEW fac, NEW chg,
           Issuing(rows, who, proof, fac, chg),
           Challenge(who, proof)
    PROVE  /\ device' \in [Devices -> DeviceRow]
           /\ Pending(fac, device', who)
           /\ Single(rows, fac, device', chg)
<1>1. PICK d \in Devices :
         /\ device[d].state = "unused"
         /\ device' = [device EXCEPT ![d] =
              [state |-> "open", at |-> who.at, twoFactor |-> who.twoFactor,
               end |-> now + ChallengeLife, password |-> proof.password,
               otp |-> proof.otp,
               origin |-> IF proof.origin = None THEN d ELSE proof.origin]]
  BY DEF Challenge
<1> DEFINE o == IF proof.origin = None THEN d ELSE proof.origin
<1> DEFINE new == [state |-> "open", at |-> who.at, twoFactor |-> who.twoFactor,
               end |-> now + ChallengeLife, password |-> proof.password,
               otp |-> proof.otp, origin |-> o]
<1>2. now + ChallengeLife \in Times
  BY DeviceSlotsAssumption DEF Times, Issuing
<1>3. o \in Origins
  BY DEF Issuing, ProofRow, Origins
<1>4. new \in DeviceRow
  BY <1>2, <1>3 DEF DeviceRow, ProofRow, Account, Issuing
<1>5. device' \in [Devices -> DeviceRow]
  BY <1>1, <1>4 DEF Issuing
<1>6. /\ device'[d] = new
      /\ \A e \in Devices : e # d => device'[e] = device[e]
  BY <1>1 DEF Issuing
<1>7. who.at.sv \in Nat
  BY DEF Issuing, Account, Versions
<1>8. Pending(fac, device', who)
  BY <1>6, <1>7 DEF Pending, Issuing, Fits
<1>9. \A s \in Sessions : rows[s].origin # o
  <2>1. CASE proof.origin = None
    BY <1>1, <2>1 DEF Issuing, Single, Spent
  <2>2. CASE proof.origin # None
    BY <2>2 DEF Issuing, Unused
  <2> QED BY <2>1, <2>2
<1>10. \A e \in Devices : device[e].state # "unused" => device[e].origin # o
  <2>1. CASE proof.origin = None
    BY <1>1, <2>1 DEF Issuing, Single, Carried
  <2>2. CASE proof.origin # None
    BY <2>2 DEF Issuing, Unused
  <2> QED BY <2>1, <2>2
<1>11. Carried(d, o, fac, chg)
  <2>1. CASE proof.origin = None
    BY <2>1, DeviceSlotsAssumption DEF Carried
  <2>2. CASE proof.origin # None
    BY <2>2 DEF Issuing, Unused, Spent, Carried
  <2> QED BY <2>1, <2>2
<1> HIDE DEF o
<1>12. \A s \in Sessions : Spent(rows[s].origin, fac, device', chg)
  BY <1>1, <1>6 DEF Issuing, Single, Spent
<1>13. \A e \in Devices : device'[e].state # "unused" => Carried(e, device'[e].origin, fac, chg)
  BY <1>6, <1>11 DEF Issuing, Single
<1>14. \A e \in Devices : device'[e].state = "open" =>
          \A s \in Sessions : rows[s].origin # device'[e].origin
  BY <1>6, <1>9 DEF Issuing, Single
<1>15. ASSUME NEW e \in Devices, NEW g \in Devices,
              device'[e].state # "unused", device'[g].state # "unused",
              device'[e].origin = device'[g].origin
       PROVE  e = g
  BY <1>6, <1>10, <1>15 DEF Issuing, Single
<1>16. Single(rows, fac, device', chg)
  BY <1>12, <1>13, <1>14, <1>15 DEF Single, Issuing
<1> QED BY <1>5, <1>8, <1>16

\* What issue() leaves is a state of the invariant again.
LEMMA IssueHolds ==
    ASSUME NEW rows, NEW who, NEW proof, NEW fac, NEW chg,
           Issuing(rows, who, proof, fac, chg),
           Issue(rows, who, proof)
    PROVE  /\ session' \in [Sessions -> SessionRow]
           /\ device' \in [Devices -> DeviceRow]
           /\ Held(session', who)
           /\ Pending(fac, device', who)
           /\ Single(session', fac, device', chg)
<1>1. CASE FreeSlots(rows) = {} /\ session' = rows /\ Challenge(who, proof)
  BY <1>1, ChallengeHolds DEF Issuing
<1>2. CASE /\ \E slot \in FreeSlots(rows) : Install(rows, slot, who, proof)
           /\ UNCHANGED device
  <2>1. PICK slot \in FreeSlots(rows) : Install(rows, slot, who, proof)
    BY <1>2
  <2>2. /\ slot \in Nat
        /\ slot < MaxSlots
        /\ \A s \in Sessions : rows[s].owns => rows[s].slot # slot
    BY <2>1, DeviceSlotsAssumption DEF FreeSlots
  <2>3. session' \in [Sessions -> SessionRow] /\ Held(session', who)
    BY <2>1, <2>2, InstallHolds DEF Issuing
  <2>4. \A d \in Devices : device[d].state = "open" =>
          device[d].origin # None /\ device[d].origin # proof.origin
    BY DeviceSlotsAssumption DEF Issuing, Unused, DeviceRow, Origins
  <2>5. Single(session', fac, device, chg)
    BY <2>1, <2>4, InstallOnce DEF Issuing, Unused
  <2> QED BY <1>2, <2>3, <2>5 DEF Issuing
<1> QED BY <1>1, <1>2 DEF Issue

-----------------------------------------------------------------------------
\* What the statements that end sessions leave.

LEMMA SameOrigins ==
    ASSUME NEW rows, NEW rows2, NEW fac, NEW dev, NEW chg,
           \A s \in Sessions : rows2[s].origin = rows[s].origin,
           Single(rows, fac, dev, chg)
    PROVE  Single(rows2, fac, dev, chg)
BY DEF Single

LEMMA ExpiredHolds ==
    ASSUME TypeOK, Held(session, account)
    PROVE  /\ Expired \in [Sessions -> SessionRow]
           /\ Held(Expired, account)
           /\ \A s \in Sessions : Expired[s].origin = session[s].origin
<1>1. ASSUME NEW s \in Sessions
      PROVE  /\ Expired[s] \in SessionRow
             /\ Expired[s].origin = session[s].origin
             /\ Expired[s].owns => Expired[s] = session[s]
             /\ Expired[s].state = "active" <=> Expired[s].owns
  <2>1. session[s] \in SessionRow
    BY DEF TypeOK
  <2>2. CASE session[s].owns /\ session[s].end <= now
    BY <2>1, <2>2 DEF Expired, SessionRow
  <2>3. CASE ~(session[s].owns /\ session[s].end <= now)
    BY <2>1, <2>3 DEF Expired, Held
  <2> QED BY <2>2, <2>3
<1>2. Expired \in [Sessions -> SessionRow]
  BY <1>1 DEF Expired
<1>3. Held(Expired, account)
  BY <1>1 DEF Held
<1> QED BY <1>1, <1>2, <1>3

LEMMA EndedHolds ==
    ASSUME TypeOK, Held(session, account), NEW s \in Sessions
    PROVE  LET rows == [session EXCEPT ![s] = Ended(@)]
           IN /\ rows \in [Sessions -> SessionRow]
              /\ Held(rows, account)
              /\ ~rows[s].owns
              /\ \A t \in Sessions : rows[t].origin = session[t].origin
              /\ \A t \in Sessions : t # s => rows[t] = session[t]
<1> DEFINE rows == [session EXCEPT ![s] = Ended(@)]
<1>1. session[s] \in SessionRow
  BY DEF TypeOK
<1>2. /\ Ended(session[s]) \in SessionRow
      /\ ~Ended(session[s]).owns
      /\ Ended(session[s]).state = "revoked"
      /\ Ended(session[s]).origin = session[s].origin
  BY <1>1 DEF Ended, SessionRow
<1>3. /\ rows[s] = Ended(session[s])
      /\ \A t \in Sessions : t # s => rows[t] = session[t]
  BY DEF TypeOK
<1>4. rows \in [Sessions -> SessionRow]
  BY <1>2 DEF TypeOK
<1> HIDE DEF rows
<1>5. Held(rows, account)
  BY <1>2, <1>3 DEF Held
<1>6. \A t \in Sessions : rows[t].origin = session[t].origin
  BY <1>2, <1>3
<1> QED BY <1>2, <1>3, <1>4, <1>5, <1>6 DEF rows

LEMMA AllEndedHolds ==
    ASSUME TypeOK, Held(session, account)
    PROVE  LET rows == AllEnded(session)
           IN /\ rows \in [Sessions -> SessionRow]
              /\ \A who : Held(rows, who)
              /\ \A s \in Sessions : rows[s].origin = session[s].origin
<1> DEFINE rows == AllEnded(session)
<1>1. ASSUME NEW s \in Sessions
      PROVE  /\ rows[s] \in SessionRow
             /\ rows[s].origin = session[s].origin
             /\ ~rows[s].owns
             /\ rows[s].state # "active"
  <2>1. session[s] \in SessionRow
    BY DEF TypeOK
  <2>2. CASE session[s].state = "active"
    BY <2>1, <2>2 DEF AllEnded, Ended, SessionRow
  <2>3. CASE session[s].state # "active"
    BY <2>1, <2>3 DEF AllEnded, Held
  <2> QED BY <2>2, <2>3
<1>2. rows \in [Sessions -> SessionRow]
  BY <1>1 DEF AllEnded
<1> HIDE DEF rows
<1>3. \A who : Held(rows, who)
  BY <1>1 DEF Held
<1> QED BY <1>1, <1>2, <1>3 DEF rows

\* A new version of the account leaves no challenge of its own version.
LEMMA NewerPending ==
    ASSUME TypeOK, Pending(factor, device, account),
           NEW who, who.at.sv = account.at.sv + 1
    PROVE  Pending(factor, device, who)
<1>1. /\ \A f \in Factors : factor[f].at.sv \in Nat
      /\ \A d \in Devices : device[d].at.sv \in Nat
      /\ account.at.sv \in Nat
  BY DeviceSlotsAssumption DEF TypeOK, FactorRow, DeviceRow, Account, Versions
<1>2. ASSUME NEW f \in Factors
      PROVE  factor[f].at.sv <= who.at.sv /\ factor[f].at # who.at
  BY <1>1, <1>2 DEF Pending
<1>3. ASSUME NEW d \in Devices
      PROVE  device[d].at.sv <= who.at.sv /\ device[d].at # who.at
  BY <1>1, <1>3 DEF Pending
<1> QED BY <1>2, <1>3 DEF Pending

LEMMA BumpedVersion ==
    ASSUME account \in Account, account.at.sg <= account.at.sv, Room
    PROVE  /\ Bumped(account.at) \in Versions
           /\ Bumped(account.at).sv = account.at.sv + 1
           /\ Bumped(account.at).sg <= Bumped(account.at).sv
           /\ account.at.sv + 1 \in 0..Changes
<1>1. /\ account.at \in Versions
      /\ account.at.sv \in 0..Changes
      /\ account.at.sg \in 0..Changes
  BY DEF Account, Versions
<1>2. account.at.sv + 1 \in 0..Changes /\ account.at.sg + 1 \in 0..Changes
  BY <1>1, DeviceSlotsAssumption DEF Room
<1> QED BY <1>1, <1>2 DEF Bumped, Versions

-----------------------------------------------------------------------------
\* The initial states, and the steps.

LEMMA InitInv == Init => Inv
<1> SUFFICES ASSUME Init PROVE Inv
  OBVIOUS
<1>1. 0 \in Times /\ 0 \in 0..Changes /\ 0 \in 0..MaxAttempts /\ 0 \in 0..Horizon
  BY DeviceSlotsAssumption DEF Times
<1>2. Fresh \in Versions
  BY <1>1 DEF Fresh, Versions
<1>3. account \in Account /\ account.at = Fresh
  BY <1>1, <1>2 DEF Init, Account
<1>4. /\ session \in [Sessions -> SessionRow]
      /\ \A s \in Sessions : ~session[s].owns /\ session[s].state = "unused" /\ session[s].origin = None
  BY <1>1, <1>2 DEF Init, SessionRow
<1>5. call \in [Calls -> Call]
  BY <1>1, <1>2 DEF Init, Call
<1>6. /\ factor \in [Factors -> FactorRow]
      /\ \A f \in Factors : factor[f].state = "unused" /\ factor[f].at = Fresh
  BY <1>1, <1>2 DEF Init, FactorRow
<1>7. /\ device \in [Devices -> DeviceRow]
      /\ \A d \in Devices : device[d].state = "unused" /\ device[d].at = Fresh
  BY <1>1, <1>2 DEF Init, DeviceRow, Origins
<1>8. TypeOK
  BY <1>1, <1>3, <1>4, <1>5, <1>6, <1>7 DEF TypeOK, Init
<1>9. account.at.sg <= account.at.sv
  BY <1>3 DEF Fresh
<1>10. Held(session, account)
  BY <1>4 DEF Held
<1>11. Pending(factor, device, account)
  BY <1>3, <1>6, <1>7 DEF Pending, Fresh
<1>12. Single(session, factor, device, changed)
  BY <1>4, <1>7, DeviceSlotsAssumption DEF Single, Spent
<1> QED BY <1>8, <1>9, <1>10, <1>11, <1>12 DEF Inv

\* A new version of the account, with no session left.
LEMMA NewVersionInv ==
    ASSUME Inv,
           account' \in Account,
           account'.at.sv = account.at.sv + 1,
           account'.at.sg <= account'.at.sv,
           session' \in [Sessions -> SessionRow],
           Held(session', account'),
           \A s \in Sessions : session'[s].origin = session[s].origin,
           call' \in [Calls -> Call],
           UNCHANGED <<factor, device, changed, now>>
    PROVE  Inv'
<1>1. Pending(factor, device, account')
  BY NewerPending DEF Inv
<1>2. Single(session', factor, device, changed)
  BY SameOrigins DEF Inv
<1>3. TypeOK'
  BY DEF Inv, TypeOK
<1>4. factor' = factor /\ device' = device /\ changed' = changed
  OBVIOUS
<1>5. Pending(factor', device', account') /\ Single(session', factor', device', changed')
  BY <1>1, <1>2, <1>4
<1> QED BY <1>3, <1>5 DEF Inv

\* The rows of the sessions change, with the same origins.
LEMMA RowsInv ==
    ASSUME Inv,
           session' \in [Sessions -> SessionRow],
           Held(session', account),
           \A s \in Sessions : session'[s].origin = session[s].origin,
           UNCHANGED <<account, call, factor, device, changed, now>>
    PROVE  Inv'
<1>1. Single(session', factor, device, changed)
  BY SameOrigins DEF Inv
<1>2. account' = account /\ factor' = factor /\ device' = device /\ changed' = changed
  OBVIOUS
<1>3. TypeOK'
  BY DEF Inv, TypeOK
<1>4. /\ Held(session', account') /\ Pending(factor', device', account')
      /\ Single(session', factor', device', changed')
      /\ account'.at.sg <= account'.at.sv
  BY <1>1, <1>2 DEF Inv
<1> QED BY <1>3, <1>4 DEF Inv

LEMMA ReadInv ==
    ASSUME Inv, NEW c \in Calls, NEW op \in {"login", "password"}, Read(c, op)
    PROVE  Inv'
<1>1. [op |-> op, password |-> account.password, at |-> account.at] \in Call
  BY DEF Inv, TypeOK, Account, Call
<1>2. call' \in [Calls -> Call]
  BY <1>1 DEF Read, Inv, TypeOK
<1>3. TypeOK'
  BY <1>2 DEF Read, Inv, TypeOK
<1> QED BY <1>3 DEF Inv, Read

LEMMA DoneCalls ==
    ASSUME TypeOK, NEW c \in Calls, Done(c)
    PROVE  call' \in [Calls -> Call]
<1>1. [call[c] EXCEPT !.op = "none"] \in Call
  BY DEF TypeOK, Call
<1> QED BY <1>1 DEF TypeOK, Done

LEMMA FinishLoginInv ==
    ASSUME Inv, NEW c \in Calls, FinishLogin(c)
    PROVE  Inv'
<1>1. call' \in [Calls -> Call]
  BY DoneCalls DEF FinishLogin, Inv
<1>2. CASE UNCHANGED <<session, factor, device>>
  <2>1. TypeOK'
    BY <1>1, <1>2 DEF FinishLogin, Inv, TypeOK
  <2> QED BY <1>2, <2>1 DEF Inv, FinishLogin
<1>3. CASE Unmoved(c) /\ OpenFactor(c) /\ UNCHANGED <<session, device>>
  <2> DEFINE new == [state |-> "open", at |-> account.at, end |-> now + ChallengeLife,
                     tries |-> 0, password |-> call[c].password]
  <2>1. PICK f \in Factors : factor[f].state = "unused" /\ factor' = [factor EXCEPT ![f] = new]
    BY <1>3 DEF OpenFactor
  <2>2. now + ChallengeLife \in Times /\ 0 \in 0..MaxAttempts
    BY DeviceSlotsAssumption DEF Inv, TypeOK, Times
  <2>3. new \in FactorRow
    BY <1>3, <2>2 DEF Inv, TypeOK, FactorRow, Account, Call, Unmoved
  <2>4. /\ factor'[f] = new
        /\ \A g \in Factors : g # f => factor'[g] = factor[g]
    BY <2>1 DEF Inv, TypeOK
  <2>5. factor' \in [Factors -> FactorRow]
    BY <2>1, <2>3 DEF Inv, TypeOK
  <2>6. account.at.sv \in Nat
    BY DEF Inv, TypeOK, Account, Versions
  <2>7. Pending(factor', device, account)
    BY <1>3, <2>4, <2>6 DEF Inv, Pending, Unmoved
  <2>8. \A o : Spent(o, factor, device, changed) => Spent(o, factor', device, changed)
    BY <2>1, <2>4 DEF Spent
  <2>9. \A d, o : Carried(d, o, factor, changed) => Carried(d, o, factor', changed)
    BY <2>1, <2>4 DEF Carried
  <2>10. Single(session, factor', device, changed)
    BY <2>8, <2>9 DEF Inv, Single
  <2>11. /\ session' = session /\ device' = device /\ changed' = changed
         /\ account' = account /\ now' = now
    BY <1>3 DEF FinishLogin
  <2>12. TypeOK'
    BY <1>1, <2>5, <2>11 DEF Inv, TypeOK
  <2> QED BY <2>7, <2>10, <2>11, <2>12 DEF Inv
<1>4. CASE /\ Unmoved(c) /\ ~account.twoFactor /\ UNCHANGED factor
           /\ Issue(Expired, account, Proof(call[c].password, FALSE, None))
  <2> DEFINE proof == Proof(call[c].password, FALSE, None)
  <2>1. proof \in ProofRow
    BY DEF Inv, TypeOK, Call, Proof, ProofRow
  <2>2. Fits(proof, account)
    BY <1>4 DEF Fits, Proof, Unmoved
  <2>3. Unused(proof.origin, Expired) /\ Spent(proof.origin, factor, device, changed)
    BY DeviceSlotsAssumption DEF Proof, Unused, Spent
  <2> HIDE DEF proof
  <2>4. Issuing(Expired, account, proof, factor, changed)
    BY <1>4, <2>1, <2>2, <2>3, ExpiredHolds, SameOrigins DEF Issuing, Inv, TypeOK, Unmoved
  <2>5. /\ session' \in [Sessions -> SessionRow]
        /\ device' \in [Devices -> DeviceRow]
        /\ Held(session', account)
        /\ Pending(factor, device', account)
        /\ Single(session', factor, device', changed)
    BY <1>4, <2>4, IssueHolds DEF proof
  <2>6. factor' = factor /\ changed' = changed /\ account' = account /\ now' = now
    BY <1>4 DEF FinishLogin
  <2>7. TypeOK'
    BY <1>1, <2>5, <2>6 DEF Inv, TypeOK
  <2> QED BY <2>5, <2>6, <2>7 DEF Inv
<1> QED BY <1>2, <1>3, <1>4 DEF FinishLogin

LEMMA VerifyFactorInv ==
    ASSUME Inv, NEW f \in Factors, VerifyFactor(f)
    PROVE  Inv'
<1>1. /\ factor[f] \in FactorRow
      /\ factor[f].tries + 1 \in 0..MaxAttempts
      /\ factor[f].state = "open"
      /\ factor[f].password = account.password
      /\ account.active
  BY DeviceSlotsAssumption DEF VerifyFactor, Answerable, Inv, TypeOK, FactorRow, Pending
<1>2. CASE /\ factor' = [factor EXCEPT ![f].tries = @ + 1]
           /\ UNCHANGED <<session, device>>
  <2>1. factor' \in [Factors -> FactorRow]
    BY <1>1, <1>2 DEF Inv, TypeOK, FactorRow
  <2>2. \A g \in Factors : /\ factor'[g].state = factor[g].state
                           /\ factor'[g].at = factor[g].at
                           /\ factor'[g].password = factor[g].password
    BY <1>1, <1>2 DEF Inv, TypeOK, FactorRow
  <2>3. Pending(factor', device, account)
    BY <2>2 DEF Inv, Pending
  <2>4. \A o : Spent(o, factor, device, changed) => Spent(o, factor', device, changed)
    BY <2>2 DEF Spent
  <2>5. \A d, o : Carried(d, o, factor, changed) => Carried(d, o, factor', changed)
    BY <2>2 DEF Carried
  <2>6. Single(session, factor', device, changed)
    BY <2>4, <2>5 DEF Inv, Single
  <2>7. /\ session' = session /\ device' = device /\ changed' = changed
        /\ account' = account /\ now' = now /\ call' = call
    BY <1>2 DEF VerifyFactor
  <2>8. TypeOK'
    BY <2>1, <2>7 DEF Inv, TypeOK
  <2> QED BY <2>3, <2>6, <2>7, <2>8 DEF Inv
<1>3. CASE /\ factor' = [factor EXCEPT ![f].tries = @ + 1, ![f].state = "consumed"]
           /\ Issue(Expired, account, Proof(factor[f].password, TRUE, f))
  <2> DEFINE proof == Proof(factor[f].password, TRUE, f)
  <2>1. factor' \in [Factors -> FactorRow]
    BY <1>1, <1>3 DEF Inv, TypeOK, FactorRow
  <2>2. /\ factor'[f].state = "consumed"
        /\ factor'[f].at = factor[f].at
        /\ \A g \in Factors : g # f => factor'[g] = factor[g]
    BY <1>1, <1>3 DEF Inv, TypeOK, FactorRow
  <2>3. Pending(factor', device, account)
    BY <2>2 DEF Inv, Pending
  <2>4. \A o : Spent(o, factor, device, changed) => Spent(o, factor', device, changed)
    BY <2>2 DEF Spent
  <2>5. \A d, o : Carried(d, o, factor, changed) => Carried(d, o, factor', changed)
    BY <2>2 DEF Carried
  <2>6. Single(session, factor', device, changed)
    BY <2>4, <2>5 DEF Inv, Single
  <2>7. proof \in ProofRow /\ Fits(proof, account) /\ proof.origin = f
    BY <1>1 DEF Proof, ProofRow, FactorRow, Fits, Origins
  <2>8. Unused(f, Expired)
    <3>1. \A s \in Sessions : session[s].origin # f
      BY <1>1 DEF Inv, Single, Spent
    <3>2. \A d \in Devices : device[d].state # "unused" => device[d].origin # f
      BY <1>1 DEF Inv, Single, Carried
    <3> QED BY <3>1, <3>2, ExpiredHolds, DeviceSlotsAssumption DEF Unused, Inv
  <2>9. Spent(f, factor', device, changed)
    BY <2>2, DeviceSlotsAssumption DEF Spent
  <2> HIDE DEF proof
  <2>10. Issuing(Expired, account, proof, factor', changed)
    <3>1. Single(Expired, factor', device, changed)
      BY <2>6, ExpiredHolds, SameOrigins DEF Inv
    <3> QED BY <1>1, <2>3, <2>7, <2>8, <2>9, <3>1, ExpiredHolds DEF Issuing, Inv, TypeOK
  <2>11. /\ session' \in [Sessions -> SessionRow]
         /\ device' \in [Devices -> DeviceRow]
         /\ Held(session', account)
         /\ Pending(factor', device', account)
         /\ Single(session', factor', device', changed)
    BY <1>3, <2>10, IssueHolds DEF proof
  <2>12. changed' = changed /\ account' = account /\ now' = now /\ call' = call
    BY DEF VerifyFactor
  <2>13. TypeOK'
    BY <2>1, <2>11, <2>12 DEF Inv, TypeOK
  <2> QED BY <2>11, <2>12, <2>13 DEF Inv
<1> QED BY <1>2, <1>3 DEF VerifyFactor

LEMMA SelectDeviceInv ==
    ASSUME Inv, NEW d \in Devices, NEW s \in Sessions, SelectDevice(d, s)
    PROVE  Inv'
<1> DEFINE rows == [session EXCEPT ![s] = Ended(@)]
           proof == Proof(device[d].password, device[d].otp, device[d].origin)
<1>1. /\ rows \in [Sessions -> SessionRow]
      /\ Held(rows, account)
      /\ ~rows[s].owns
      /\ \A t \in Sessions : rows[t].origin = session[t].origin
      /\ \A t \in Sessions : t # s => rows[t] = session[t]
  BY EndedHolds DEF Inv
<1>2. /\ device[d] \in DeviceRow
      /\ device[d].state = "open"
      /\ Fits(device[d], account)
      /\ account.active
      /\ Install(rows, session[s].slot, account, proof)
  BY DEF SelectDevice, Inv, TypeOK, Pending
<1>3. proof \in ProofRow /\ Fits(proof, account) /\ proof.origin = device[d].origin
  BY <1>2 DEF Proof, ProofRow, DeviceRow, Fits
<1>4. session[s] \in SessionRow /\ session[s].slot < MaxSlots
  BY DEF SelectDevice, Inv, TypeOK, Held
<1>5. \A t \in Sessions : rows[t].owns => rows[t].slot # session[s].slot
  BY <1>1 DEF SelectDevice, Inv, Held
<1>6. /\ device'[d].state = "done"
      /\ \A e \in Devices : /\ device'[e].origin = device[e].origin
                           /\ device'[e].at = device[e].at
      /\ \A e \in Devices : e # d => device'[e] = device[e]
  BY DEF SelectDevice, Inv, TypeOK, DeviceRow
<1>7. device' \in [Devices -> DeviceRow]
  BY <1>2 DEF SelectDevice, Inv, TypeOK, DeviceRow
<1>8. Pending(factor, device', account)
  BY <1>6 DEF Inv, Pending
<1>9. \A o : Spent(o, factor, device, changed) => Spent(o, factor, device', changed)
  BY <1>6 DEF Spent
<1>10. Single(rows, factor, device', changed)
  <2>1. Single(rows, factor, device, changed)
    BY <1>1, SameOrigins DEF Inv
  <2>2. \A e \in Devices : device'[e].state # "unused" => device[e].state # "unused"
    BY <1>2, <1>6
  <2>3. \A e \in Devices : device'[e].state = "open" => device[e].state = "open"
    BY <1>6
  <2> HIDE DEF rows
  <2> QED BY <1>6, <1>9, <2>1, <2>2, <2>3 DEF Single
<1>11. Spent(proof.origin, factor, device', changed)
  <2>1. Carried(d, proof.origin, factor, changed)
    BY <1>2, <1>3 DEF Inv, Single
  <2> QED BY <1>6, <2>1 DEF Spent, Carried
<1>12. \A t \in Sessions : rows[t].origin # proof.origin
  BY <1>1, <1>2, <1>3 DEF Inv, Single
<1>13. \A e \in Devices : device'[e].state = "open" =>
          device'[e].origin # proof.origin /\ device'[e].origin # None
  BY <1>2, <1>3, <1>6, <1>7, DeviceSlotsAssumption DEF Inv, Single, DeviceRow, Origins
<1>14. session[s].slot \in Nat /\ now \in 0..Horizon /\ account \in Account
  BY <1>4 DEF SessionRow, Inv, TypeOK
<1> HIDE DEF rows, proof
<1>15. session' \in [Sessions -> SessionRow] /\ Held(session', account)
  BY <1>1, <1>2, <1>3, <1>4, <1>5, <1>14, InstallHolds
<1>16. Single(session', factor, device', changed)
  BY <1>1, <1>2, <1>10, <1>11, <1>12, <1>13, InstallOnce
<1>17. factor' = factor /\ changed' = changed /\ account' = account /\ now' = now /\ call' = call
  BY DEF SelectDevice
<1>18. TypeOK'
  BY <1>7, <1>15, <1>17 DEF Inv, TypeOK
<1> QED BY <1>8, <1>15, <1>16, <1>17, <1>18 DEF Inv

LEMMA SecurityChangeInv ==
    ASSUME Inv, NEW s \in Sessions, NEW on \in BOOLEAN, SecurityChange(s, on)
    PROVE  Inv'
<1> DEFINE next == [account EXCEPT !.twoFactor = on, !.at = Bumped(@)]
           rows == AllEnded(session)
           proof == Proof(IF on THEN session[s].password ELSE account.password,
                          TRUE, <<s, on>>)
           chg == changed \cup {<<s, on>>}
<1>1. /\ Bumped(account.at) \in Versions
      /\ Bumped(account.at).sv = account.at.sv + 1
      /\ Bumped(account.at).sg <= Bumped(account.at).sv
  BY BumpedVersion DEF SecurityChange, Inv, TypeOK
<1>2. /\ next \in Account
      /\ next.at = Bumped(account.at)
      /\ next.password = account.password
      /\ next.active = account.active
  BY <1>1 DEF Inv, TypeOK, Account
<1>3. account.active /\ session[s].owns /\ session[s].password = account.password
  BY DEF SecurityChange, Admitted, Inv, Held, Fits
<1>4. /\ rows \in [Sessions -> SessionRow]
      /\ Held(rows, next)
      /\ \A t \in Sessions : rows[t].origin = session[t].origin
  BY AllEndedHolds DEF Inv
<1>5. /\ proof \in ProofRow
      /\ proof.password = account.password
      /\ proof.otp
      /\ proof.origin = <<s, on>>
  BY <1>3 DEF Proof, ProofRow, Origins, Inv, TypeOK, Account
<1>6. Fits(proof, next)
  BY <1>2, <1>5 DEF Fits
<1>7. Pending(factor, device, next)
  BY <1>1, <1>2, NewerPending DEF Inv
<1>8. Single(session, factor, device, chg)
  <2>1. \A o : Spent(o, factor, device, changed) => Spent(o, factor, device, chg)
    BY DEF Spent
  <2>2. \A d, o : Carried(d, o, factor, changed) => Carried(d, o, factor, chg)
    BY DEF Carried
  <2> HIDE DEF chg
  <2> QED BY <2>1, <2>2 DEF Inv, Single
<1>9. Single(rows, factor, device, chg)
  BY <1>4, <1>8, SameOrigins
<1>10. <<s, on>> \in Sessions \X BOOLEAN /\ <<s, on>> \notin changed
  BY DEF SecurityChange
<1>11. Unused(proof.origin, rows)
  <2>1. \A t \in Sessions : session[t].origin # <<s, on>>
    BY <1>10 DEF Inv, Single, Spent
  <2>2. \A d \in Devices : device[d].state # "unused" => device[d].origin # <<s, on>>
    BY <1>10 DEF Inv, Single, Carried
  <2> QED BY <1>4, <1>5, <1>10, <2>1, <2>2, DeviceSlotsAssumption DEF Unused
<1>12. Spent(proof.origin, factor, device, chg)
  BY <1>5, <1>10, DeviceSlotsAssumption DEF Spent
<1>13. /\ account' = next
       /\ Issue(rows, next, proof)
       /\ changed' = chg
       /\ UNCHANGED <<call, factor, now>>
  BY DEF SecurityChange
<1>14. next.active /\ next.at.sg <= next.at.sv
  BY <1>1, <1>2, <1>3
<1> HIDE DEF next, rows, proof, chg
<1>15. Issuing(rows, next, proof, factor, chg)
  BY <1>2, <1>4, <1>5, <1>6, <1>7, <1>9, <1>11, <1>12, <1>14 DEF Issuing, Inv, TypeOK
<1>16. /\ session' \in [Sessions -> SessionRow]
       /\ device' \in [Devices -> DeviceRow]
       /\ Held(session', next)
       /\ Pending(factor, device', next)
       /\ Single(session', factor, device', chg)
  BY <1>13, <1>15, IssueHolds
<1>17. TypeOK'
  BY <1>2, <1>10, <1>13, <1>16 DEF Inv, TypeOK, chg
<1>18. account'.at.sg <= account'.at.sv
  BY <1>13, <1>14
<1>19. /\ Held(session', account') /\ Pending(factor', device', account')
       /\ Single(session', factor', device', changed')
  BY <1>13, <1>16
<1> QED BY <1>17, <1>18, <1>19 DEF Inv

LEMMA AllEndedInv ==
    ASSUME Inv, session' = AllEnded(session),
           account' \in Account,
           account'.at.sv = account.at.sv + 1,
           account'.at.sg <= account'.at.sv,
           call' \in [Calls -> Call],
           UNCHANGED <<factor, device, changed, now>>
    PROVE  Inv'
<1>1. /\ session' \in [Sessions -> SessionRow]
      /\ \A who : Held(session', who)
      /\ \A s \in Sessions : session'[s].origin = session[s].origin
  BY AllEndedHolds DEF Inv
<1>2. Held(session', account')
  BY <1>1
<1> QED BY <1>1, <1>2, NewVersionInv

LEMMA ChangesInv ==
    ASSUME Inv,
           \/ \E s \in Sessions : Revoke(s) \/ RevokeAll(s)
           \/ \E c \in Calls : FinishPassword(c)
           \/ \E active \in BOOLEAN : SetActive(active)
           \/ EditMember
    PROVE  Inv'
<1> USE DEF Inv
<1>0. account \in Account /\ call \in [Calls -> Call]
  BY DEF TypeOK
<1>1. ASSUME NEW s \in Sessions, Revoke(s) PROVE Inv'
  BY <1>1, EndedHolds, RowsInv DEF Revoke
<1>2. ASSUME NEW s \in Sessions, RevokeAll(s) PROVE Inv'
  <2>1. account'.at = [account.at EXCEPT !.sv = @ + 1] /\ account' \in Account
    BY <1>0, <1>2, DeviceSlotsAssumption DEF RevokeAll, Room, Account, Versions
  <2>2. account'.at.sv = account.at.sv + 1 /\ account'.at.sg = account.at.sg
    BY <1>0, <2>1 DEF Account, Versions
  <2>3. account'.at.sg <= account'.at.sv
    BY <1>0, <2>2 DEF Account, Versions
  <2>4. session' = AllEnded(session) /\ UNCHANGED <<call, factor, device, changed, now>>
    BY <1>2 DEF RevokeAll
  <2> QED BY <1>0, <2>1, <2>2, <2>3, <2>4, AllEndedInv
<1>3. ASSUME NEW c \in Calls, FinishPassword(c) PROVE Inv'
  <2>1. /\ Bumped(account.at) \in Versions
        /\ Bumped(account.at).sv = account.at.sv + 1
        /\ Bumped(account.at).sg <= Bumped(account.at).sv
        /\ account.at.sv + 1 \in 0..Changes
    BY <1>0, <1>3, BumpedVersion DEF FinishPassword
  <2>2. account' \in Account /\ account'.at = Bumped(account.at)
    BY <1>0, <1>3, <2>1 DEF FinishPassword, Account
  <2>3. call' \in [Calls -> Call]
    BY <1>3, DoneCalls DEF FinishPassword
  <2>4. session' = AllEnded(session) /\ UNCHANGED <<factor, device, changed, now>>
    BY <1>3 DEF FinishPassword
  <2> QED BY <2>1, <2>2, <2>3, <2>4, AllEndedInv
<1>4. ASSUME NEW active \in BOOLEAN, SetActive(active) PROVE Inv'
  <2>1. /\ Bumped(account.at) \in Versions
        /\ Bumped(account.at).sv = account.at.sv + 1
        /\ Bumped(account.at).sg <= Bumped(account.at).sv
    BY <1>0, <1>4, BumpedVersion DEF SetActive
  <2>2. account' \in Account /\ account'.at = Bumped(account.at)
    BY <1>0, <1>4, <2>1 DEF SetActive, Account
  <2>3. UNCHANGED <<call, factor, device, changed, now>>
    BY <1>4 DEF SetActive
  <2>4. CASE session' = AllEnded(session)
    BY <1>0, <2>1, <2>2, <2>3, <2>4, AllEndedInv
  <2>5. CASE ~(account.staff \/ ~active) /\ session' = session
    <3>1. ~account.active
      BY <1>0, <1>4, <2>5 DEF SetActive, Account
    <3>2. Held(session', account')
      BY <2>5, <3>1 DEF Held
    <3>3. /\ session' \in [Sessions -> SessionRow]
          /\ \A s \in Sessions : session'[s].origin = session[s].origin
      BY <2>5 DEF TypeOK
    <3> QED BY <1>0, <2>1, <2>2, <2>3, <3>2, <3>3, NewVersionInv
  <2> QED BY <1>4, <2>4, <2>5 DEF SetActive
<1>5. ASSUME EditMember PROVE Inv'
  <2>1. /\ Bumped(account.at) \in Versions
        /\ Bumped(account.at).sv = account.at.sv + 1
        /\ Bumped(account.at).sg <= Bumped(account.at).sv
        /\ account.at.sv + 1 \in 0..Changes
    BY <1>0, <1>5, BumpedVersion DEF EditMember
  <2>2. account' \in Account /\ account'.at = Bumped(account.at)
    BY <1>0, <1>5, <2>1 DEF EditMember, Account
  <2>3. session' = AllEnded(session) /\ UNCHANGED <<call, factor, device, changed, now>>
    BY <1>5 DEF EditMember
  <2> QED BY <1>0, <2>1, <2>2, <2>3, AllEndedInv
<1> QED BY <1>1, <1>2, <1>3, <1>4, <1>5

LEMMA NextInv == Inv /\ [Next]_vars => Inv'
<1> SUFFICES ASSUME Inv, [Next]_vars PROVE Inv'
  OBVIOUS
<1>1. ASSUME NEW c \in Calls,
             BeginLogin(c) \/ FinishLogin(c) \/ BeginPassword(c) \/ FinishPassword(c)
      PROVE  Inv'
  BY <1>1, ReadInv, FinishLoginInv, ChangesInv DEF BeginLogin, BeginPassword
<1>2. ASSUME Tick PROVE Inv'
  <2>1. TypeOK'
    BY <1>2, DeviceSlotsAssumption DEF Tick, Inv, TypeOK
  <2> QED BY <1>2, <2>1 DEF Tick, Inv
<1>3. CASE UNCHANGED vars
  <2>1. TypeOK'
    BY <1>3 DEF vars, Inv, TypeOK
  <2> QED BY <1>3, <2>1 DEF vars, Inv
<1> QED BY <1>1, <1>2, <1>3, VerifyFactorInv, SelectDeviceInv, SecurityChangeInv, ChangesInv
     DEF Next

-----------------------------------------------------------------------------
LEMMA AlwaysInv == Spec => []Inv
BY InitInv, NextInv, PTL DEF Spec

\* The rows of an account and everything that is under way stay well typed, and
\* no OTP challenge takes more guesses than it is allowed.
THEOREM DeviceTypeCorrect == Spec => []TypeOK
<1>1. Inv => TypeOK
  BY DEF Inv
<1> QED BY <1>1, AlwaysInv, PTL

\* Two live sessions never share a slot, however many logins, answers and
\* revocations overlap.
THEOREM SlotsAreExclusive == Spec => []SlotsExclusive
<1>1. Inv => SlotsExclusive
  BY DEF Inv, Held, SlotsExclusive, Owners
<1> QED BY <1>1, AlwaysInv, PTL

\* Whoever holds a slot is let in by the account as it is now: every change of
\* the account ends its sessions, and no challenge or login outlives one.
THEOREM OwnersStayCurrent == Spec => []OwnersAreCurrent
<1>1. Inv => OwnersAreCurrent
  BY DEF Inv, Held, OwnersAreCurrent, Owners
<1> QED BY <1>1, AlwaysInv, PTL

\* Whoever holds a slot has proved the present password and, where there is one,
\* the second factor.
THEOREM OwnersStayProven == Spec => []OwnersAreProven
<1>1. Inv => OwnersAreProven
  BY DEF Inv, Held, Fits, OwnersAreProven, Owners
<1> QED BY <1>1, AlwaysInv, PTL

\* A challenge or security change opens one session, however often it is sent.
THEOREM ChallengesOpenOne == Spec => []OneSessionEach
<1>1. Inv => OneSessionEach
  BY DEF Inv, Single, OneSessionEach
<1> QED BY <1>1, AlwaysInv, PTL
=============================================================================
