-------------------------- MODULE RedisLockProofs --------------------------
(***************************************************************************)
(* For any holders and any times: the lock keeps the promise of a lease,   *)
(* and as long as nothing stalls, fails or overruns it is exclusive.       *)
(***************************************************************************)
EXTENDS RedisLock, TLAPS

\* Every holder's marks agree with where it is, and lapsed holders are inside.
Consistent ==
  /\ \A p \in Holders :
       /\ step[p] # "inside" => watchdog[p] = "off" /\ p \notin locked
       /\ watchdog[p] # "off" => p \in Renewing
  /\ lapsed \subseteq Inside

\* The key does not expire before its watchdog wakes up.
RenewedInTime ==
  mishaps = {} =>
    \A p \in Inside : /\ key = p
                      /\ p \in locked
                      /\ p \in Renewing => watchdog[p] = "on" /\ timer[p] < ttl

IInv == TypeOK /\ Consistent /\ RenewedInTime

\* The states and marks stay in their types.
LEMMA TypeInv == ASSUME TypeOK, [Next]_vars PROVE TypeOK'
<1> USE HoldersAssumption, TimesAssumption DEF TypeOK, Steps, Mishaps
<1>1. ASSUME NEW p \in Holders, Acquire(p) PROVE TypeOK'
  BY <1>1 DEF Acquire
<1>2. ASSUME NEW p \in Holders, SetSucceeds(p) PROVE TypeOK'
  BY <1>2 DEF SetSucceeds, SetKey
<1>3. ASSUME NEW p \in Holders, Attempted(p)
      PROVE /\ attempts' \in [Holders -> 0 .. MaxAttempts - 1]
            /\ step' \in [Holders -> Steps]
  <2>1. CASE attempts[p] + 1 < MaxAttempts
    BY <1>3, <2>1 DEF Attempted
  <2>2. CASE ~ (attempts[p] + 1 < MaxAttempts)
    BY <1>3, <2>2 DEF Attempted
  <2>. QED BY <2>1, <2>2
<1>4. ASSUME NEW p \in Holders, SetRefused(p) PROVE TypeOK'
  BY <1>3, <1>4 DEF SetRefused, Attempted
<1>5. ASSUME NEW p \in Holders, SetErrs(p) PROVE TypeOK'
  BY <1>3, <1>5 DEF SetErrs, Attempted, SetKey
<1>6. ASSUME NEW p \in Holders, AcquireTimesOut(p) PROVE TypeOK'
  BY <1>6 DEF AcquireTimesOut
<1>7. ASSUME NEW p \in Holders, WatchdogStep(p) PROVE TypeOK'
  <2>1. CASE Renew(p)
    BY <2>1 DEF Renew
  <2>2. CASE NoticeLoss(p)
    BY <2>2 DEF NoticeLoss
  <2>3. CASE RenewErrs(p)
    BY <2>3 DEF RenewErrs
  <2>. QED BY <1>7, <2>1, <2>2, <2>3 DEF WatchdogStep
<1>8. ASSUME NEW p \in Holders, Release(p) \/ ReleaseErrs(p) \/ Crash(p) PROVE TypeOK'
  <2>1. /\ step' \in [Holders -> Steps] /\ watchdog' \in [Holders -> {"off", "on", "stalled"}]
        /\ timer' \in [Holders -> 0 .. RenewalInterval] /\ attempts' = attempts
        /\ locked' \subseteq Holders /\ lapsed' \subseteq Holders
    BY <1>8 DEF Release, ReleaseErrs, Crash, Left
  <2>2. /\ key' \in Holders \cup {Free} /\ ttl' \in 0 .. ExpireTime
        /\ key' # Free => ttl' # 0
    BY <1>8 DEF Release, ReleaseErrs, Crash, DeleteKey
  <2>3. mishaps' \subseteq Mishaps
    BY <1>8 DEF Release, ReleaseErrs, Crash
  <2>. QED BY <2>1, <2>2, <2>3
<1>9. ASSUME NEW p \in Holders, Stall(p) PROVE TypeOK'
  BY <1>9 DEF Stall
<1>9a. ASSUME NEW p \in Holders, Resume(p) PROVE TypeOK'
  BY <1>9a DEF Resume
<1>10. ASSUME Tick PROVE TypeOK'
  <2>1. /\ key' \in Holders \cup {Free} /\ ttl' \in 0 .. ExpireTime
        /\ key' # Free => ttl' # 0
    BY <1>10 DEF Tick, DeleteKey, Expires
  <2>2. timer' \in [Holders -> 0 .. RenewalInterval]
    BY <1>10 DEF Tick
  <2>3. lapsed' \subseteq Holders /\ mishaps' \subseteq Mishaps
    BY <1>10 DEF Tick
  <2>. QED BY <1>10, <2>1, <2>2, <2>3 DEF Tick
<1>12. CASE UNCHANGED vars
  BY <1>12 DEF vars
<1>. QED
  BY <1>1, <1>2, <1>4, <1>5, <1>6, <1>7, <1>8, <1>9, <1>9a, <1>10, <1>12 DEF Next

\* A holder that is outside has no watchdog and no mark; only inside can it lapse.
LEMMA ConsistentInv ==
  ASSUME TypeOK, Consistent, [Next]_vars PROVE Consistent'
<1> USE HoldersAssumption DEF TypeOK, Consistent, Inside
<1>1. ASSUME NEW p \in Holders, SetSucceeds(p) PROVE Consistent'
  BY <1>1 DEF SetSucceeds
<1>2. ASSUME NEW p \in Holders, SetRefused(p) \/ SetErrs(p) PROVE Consistent'
  <2>1. Attempted(p) /\ step[p] = "acquiring"
    BY <1>2 DEF SetRefused, SetErrs
  <2>. QED BY <2>1 DEF Attempted
<1>3. ASSUME NEW p \in Holders, Acquire(p) \/ AcquireTimesOut(p) PROVE Consistent'
  BY <1>3 DEF Acquire, AcquireTimesOut
<1>4. ASSUME NEW p \in Holders, WatchdogStep(p) PROVE Consistent'
  BY <1>4 DEF WatchdogStep, Renew, NoticeLoss, RenewErrs, WatchdogDue
<1>5. ASSUME NEW p \in Holders, Left(p) PROVE Consistent'
  BY <1>5 DEF Left
<1>6. ASSUME NEW p \in Holders, Stall(p) \/ Resume(p) PROVE Consistent'
  BY <1>6 DEF Stall, Resume
<1>7. ASSUME Tick PROVE Consistent'
  BY <1>7 DEF Tick
<1>8. CASE UNCHANGED vars
  BY <1>8 DEF vars
<1>. QED
  BY <1>1, <1>2, <1>3, <1>4, <1>5, <1>6, <1>7, <1>8
     DEF Next, Release, ReleaseErrs, Crash

\* The watchdog of a holder that is inside wakes up before the key expires,
\* so neither the passing of time nor another holder takes the key from it.
LEMMA RenewedInTimeInv ==
  ASSUME IInv, [Next]_vars PROVE RenewedInTime'
<1> USE HoldersAssumption, TimesAssumption DEF IInv, Consistent, RenewedInTime, Inside
<1>0. TypeOK /\ TypeOK'
  BY TypeInv
<1>1. ASSUME NEW p \in Holders, SetSucceeds(p) PROVE RenewedInTime'
  BY <1>0, <1>1 DEF SetSucceeds, SetKey, TypeOK
<1>2. ASSUME NEW p \in Holders, SetRefused(p) PROVE RenewedInTime'
  BY <1>0, <1>2 DEF SetRefused, Attempted, TypeOK
<1>3. ASSUME NEW p \in Holders, Acquire(p) \/ AcquireTimesOut(p) PROVE RenewedInTime'
  BY <1>0, <1>3 DEF Acquire, AcquireTimesOut, TypeOK
<1>4. ASSUME NEW p \in Holders, SetErrs(p) \/ RenewErrs(p) \/ ReleaseErrs(p) \/ Stall(p)
      PROVE RenewedInTime'
  <2>1. mishaps' # {}
    BY <1>4 DEF SetErrs, RenewErrs, ReleaseErrs, Stall
  <2>. QED BY <2>1
<1>5. ASSUME NEW p \in Holders, Renew(p) \/ NoticeLoss(p) PROVE RenewedInTime'
  BY <1>0, <1>5 DEF Renew, NoticeLoss, WatchdogDue, TypeOK
<1>6. ASSUME NEW p \in Holders, Release(p) \/ Crash(p) PROVE RenewedInTime'
  BY <1>0, <1>6 DEF Release, Crash, Left, Owns, DeleteKey, TypeOK
<1>7. ASSUME NEW p \in Holders, Resume(p) PROVE RenewedInTime'
  BY <1>0, <1>7 DEF Resume, TypeOK
<1>8. ASSUME Tick PROVE RenewedInTime'
  <2> SUFFICES ASSUME mishaps' = {}, NEW p \in Inside'
               PROVE  /\ key' = p /\ p \in locked'
                      /\ p \in Renewing => watchdog'[p] = "on" /\ timer'[p] < ttl'
    OBVIOUS
  <2>1. p \in Inside /\ mishaps = {} /\ ~ Overruns /\ p \in locked' /\ watchdog' = watchdog
    BY <1>8 DEF Tick
  <2>2. key = p /\ p \in locked
    BY <2>1
  <2>3. CASE p \in Renewing
    <3>1. watchdog[p] = "on" /\ timer[p] < ttl /\ timer[p] # 0
      BY <1>8, <2>1, <2>3 DEF Tick, WatchdogDue
    <3>2. timer[p] \in Nat /\ ttl \in Nat /\ timer'[p] = timer[p] - 1
      BY <1>0, <1>8, <3>1 DEF Tick, TypeOK
    <3>3. key' = key /\ ttl' = ttl - 1
      BY <1>8, <3>1, <3>2 DEF Tick, Expires
    <3>. QED BY <2>1, <2>2, <3>1, <3>2, <3>3
  <2>4. CASE p \notin Renewing
    <3>1. ~ Expires
      BY <2>1, <2>2, <2>4 DEF Overruns
    <3>. QED BY <1>8, <2>1, <2>2, <2>4, <3>1 DEF Tick
  <2>. QED BY <2>3, <2>4
<1>10. CASE UNCHANGED vars
  BY <1>10 DEF vars
<1>. QED
  BY <1>1, <1>2, <1>3, <1>4, <1>5, <1>6, <1>7, <1>8, <1>10 DEF Next, WatchdogStep

LEMMA Invariance == Spec => []IInv
<1>1. Init => IInv
  BY HoldersAssumption, TimesAssumption
     DEF Init, IInv, TypeOK, Consistent, RenewedInTime, Inside, Steps, Mishaps
<1>2. IInv /\ [Next]_vars => IInv'
  BY TypeInv, ConsistentInv, RenewedInTimeInv DEF IInv
<1>. QED BY <1>1, <1>2, PTL DEF Spec

\* The types of the lock's state, for any number of holders.
THEOREM TypeCorrect == Spec => []TypeOK
<1>1. IInv => TypeOK
  BY DEF IInv
<1>. QED BY <1>1, Invariance, PTL

\* As long as no block overruns, no watchdog stalls and no call to Redis
\* fails, no two holders are inside, whoever crashes.
THEOREM Exclusion == Spec => []MutualExclusion
<1>1. IInv => MutualExclusion
  BY DEF IInv, RenewedInTime, MutualExclusion
<1>. QED BY <1>1, Invariance, PTL

\* Every step of the lock is a step of the lease it promises, or changes
\* nothing of it: whatever fails, the key is never taken from its owner but
\* by its owner or by time.
THEOREM Implements == Spec => KeepsPromise
<1>1. Init => Promise!Init
  BY DEF Init, Promise!Init, Inside
<1>2. IInv /\ [Next]_vars => [Promise!Next]_Promise!vars
  <2> SUFFICES ASSUME IInv, [Next]_vars PROVE [Promise!Next]_Promise!vars
    OBVIOUS
  <2> USE HoldersAssumption DEF IInv, TypeOK, Consistent
  <2>1. ASSUME NEW p \in Holders, SetSucceeds(p) PROVE Promise!Acquire(p)
    BY <2>1 DEF SetSucceeds, SetKey, Promise!Acquire, Inside
  <2>2. ASSUME NEW p \in Holders, SetRefused(p) \/ SetErrs(p)
        PROVE Promise!Orphan(p) \/ UNCHANGED Promise!vars
    <3>1. Attempted(p) /\ step[p] = "acquiring"
      BY <2>2 DEF SetRefused, SetErrs
    <3>2. Inside' = Inside /\ lapsed' = lapsed
      BY <3>1 DEF Attempted, Inside
    <3>. QED BY <2>2, <3>2 DEF SetRefused, SetErrs, SetKey, Promise!Orphan, Promise!vars
  <2>3. ASSUME NEW p \in Holders,
               Acquire(p) \/ AcquireTimesOut(p) \/ WatchdogStep(p) \/ Stall(p) \/ Resume(p)
        PROVE UNCHANGED Promise!vars
    BY <2>3 DEF Acquire, AcquireTimesOut, WatchdogStep, Renew, NoticeLoss, RenewErrs, Stall,
                Resume, Promise!vars, Inside
  <2>4. ASSUME NEW p \in Holders, Release(p) \/ ReleaseErrs(p) \/ Crash(p)
        PROVE Promise!Leave(p)
    <3>1. Left(p) /\ p \in Inside /\ Inside' = Inside \ {p} /\ lapsed' = lapsed \ {p}
      BY <2>4 DEF Release, ReleaseErrs, Crash, Left, Inside
    <3>2. key' = key \/ (key = p /\ key' = Free)
      BY <2>4 DEF Release, ReleaseErrs, Crash, DeleteKey, Owns
    <3>. QED BY <3>1, <3>2 DEF Promise!Leave
  <2>5. ASSUME Tick PROVE Promise!Lapse \/ UNCHANGED Promise!vars
    <3>1. Inside' = Inside
      BY <2>5 DEF Tick, Inside
    <3>2. CASE Expires
      <4>1. lapsed' = lapsed \cup (Inside \cap {key})
        BY <2>5, <3>2 DEF Tick, Inside
      <4>. QED BY <2>5, <3>1, <3>2, <4>1 DEF Tick, DeleteKey, Promise!Lapse
    <3>3. CASE ~ Expires
      BY <2>5, <3>1, <3>3 DEF Tick, Promise!vars
    <3>. QED BY <3>2, <3>3
  <2>6. CASE UNCHANGED vars
    BY <2>6 DEF vars, Promise!vars, Inside
  <2>. QED
    BY <2>1, <2>2, <2>3, <2>4, <2>5, <2>6 DEF Next, Promise!Next
<1>. QED BY <1>1, <1>2, Invariance, PTL DEF Spec, KeepsPromise, Promise!Spec
=============================================================================
