----------------------------- MODULE RedisLock -----------------------------
(***************************************************************************)
(* The lock of aperag/concurrent_control/redis_lock.py: one key of Redis   *)
(* that holds the value of its holder and expires.  A holder in Renewing   *)
(* uses redis_lock_with_renewal, whose watchdog renews the key; the others *)
(* call acquire and release themselves, as the batches of an evaluation    *)
(* do.  A holder makes a new value at each acquire, and at most one of its *)
(* values is in Redis, so the key is modelled by the holder's name.        *)
(***************************************************************************)
EXTENDS Naturals, FiniteSets

CONSTANTS Holders, Renewing, Free,
          ExpireTime,       \* time units until the key expires
          RenewalInterval,  \* time units between two renewals
          MaxAttempts       \* retry_times + 1

ASSUME HoldersAssumption == Renewing \subseteq Holders /\ Free \notin Holders
ASSUME TimesAssumption ==
  /\ ExpireTime \in Nat /\ RenewalInterval \in Nat /\ MaxAttempts \in Nat \ {0}
  /\ RenewalInterval < ExpireTime

Steps == {"idle", "acquiring", "inside"}
Mishaps == {"overran", "stalled", "redis_error"}

VARIABLES
  key,       \* Redis: the holder whose value the key has, or Free
  ttl,       \* Redis: time units until the key expires
  step,      \* where each holder is
  attempts,  \* the attempts of its acquire
  locked,    \* the holders whose _is_locked is TRUE
  watchdog,  \* its watchdog task: "off", "on" or "stalled"
  timer,     \* time units its watchdog sleeps on
  lapsed,    \* history: holders whose key expired while they were inside
  mishaps    \* history: what went wrong so far

vars == <<key, ttl, step, attempts, locked, watchdog, timer, lapsed, mishaps>>

Init ==
  /\ key = Free
  /\ ttl = 0
  /\ step = [p \in Holders |-> "idle"]
  /\ attempts = [p \in Holders |-> 0]
  /\ locked = {}
  /\ watchdog = [p \in Holders |-> "off"]
  /\ timer = [p \in Holders |-> 0]
  /\ lapsed = {}
  /\ mishaps = {}

SetKey(p) == key' = p /\ ttl' = ExpireTime
DeleteKey == key' = Free /\ ttl' = 0

-----------------------------------------------------------------------------
(* acquire *)

Acquire(p) ==
  /\ step[p] = "idle"
  /\ step' = [step EXCEPT ![p] = "acquiring"]
  /\ UNCHANGED <<key, ttl, attempts, locked, watchdog, timer, lapsed, mishaps>>

\* SET NX EX, and the watchdog is started.
SetSucceeds(p) ==
  /\ step[p] = "acquiring"
  /\ key = Free
  /\ SetKey(p)
  /\ step' = [step EXCEPT ![p] = "inside"]
  /\ locked' = locked \cup {p}
  /\ watchdog' = [watchdog EXCEPT ![p] = IF p \in Renewing THEN "on" ELSE "off"]
  /\ timer' = [timer EXCEPT ![p] = IF p \in Renewing THEN RenewalInterval ELSE 0]
  /\ attempts' = [attempts EXCEPT ![p] = 0]
  /\ UNCHANGED <<lapsed, mishaps>>

\* An attempt that did not get the lock; the last one ends acquire.
Attempted(p) ==
  /\ IF attempts[p] + 1 < MaxAttempts
     THEN attempts' = [attempts EXCEPT ![p] = @ + 1] /\ UNCHANGED step
     ELSE /\ attempts' = [attempts EXCEPT ![p] = 0]
          /\ step' = [step EXCEPT ![p] = "idle"]
  /\ UNCHANGED <<locked, watchdog, timer, lapsed>>

SetRefused(p) ==
  /\ step[p] = "acquiring"
  /\ key # Free
  /\ Attempted(p)
  /\ UNCHANGED <<key, ttl, mishaps>>

\* The call raises; Redis may have set the key all the same.
SetErrs(p) ==
  /\ step[p] = "acquiring"
  /\ \/ key = Free /\ SetKey(p)
     \/ UNCHANGED <<key, ttl>>
  /\ Attempted(p)
  /\ mishaps' = mishaps \cup {"redis_error"}

AcquireTimesOut(p) ==
  /\ step[p] = "acquiring"
  /\ step' = [step EXCEPT ![p] = "idle"]
  /\ attempts' = [attempts EXCEPT ![p] = 0]
  /\ UNCHANGED <<key, ttl, locked, watchdog, timer, lapsed, mishaps>>

-----------------------------------------------------------------------------
(* The watchdog: RENEW_SCRIPT compares the value, then sets the time. *)

WatchdogDue(p) == watchdog[p] = "on" /\ timer[p] = 0

RenewsNothing(p) ==   \* mutant: RENEW_SCRIPT leaves the time as it is
  /\ WatchdogDue(p)
  /\ key = p
  /\ timer' = [timer EXCEPT ![p] = RenewalInterval]
  /\ UNCHANGED <<key, ttl, step, attempts, locked, watchdog, lapsed, mishaps>>

Renew(p) ==
  /\ WatchdogDue(p)
  /\ key = p
  /\ ttl' = ExpireTime
  /\ timer' = [timer EXCEPT ![p] = RenewalInterval]
  /\ UNCHANGED <<key, step, attempts, locked, watchdog, lapsed, mishaps>>

\* The key has another value or none: the lock is marked as lost.
NoticeLoss(p) ==
  /\ WatchdogDue(p)
  /\ key # p
  /\ locked' = locked \ {p}
  /\ watchdog' = [watchdog EXCEPT ![p] = "off"]
  /\ UNCHANGED <<key, ttl, step, attempts, timer, lapsed, mishaps>>

\* The call raises: the watchdog stops and tells nobody.
RenewErrs(p) ==
  /\ WatchdogDue(p)
  /\ watchdog' = [watchdog EXCEPT ![p] = "off"]
  /\ ttl' \in {ttl} \cup (IF key = p THEN {ExpireTime} ELSE {})
  /\ mishaps' = mishaps \cup {"redis_error"}
  /\ UNCHANGED <<key, step, attempts, locked, timer, lapsed>>

-----------------------------------------------------------------------------
(* The end of the block: the watchdog is cancelled, and the lock released   *)
(* if it is still marked as held.                                          *)

KeepsWatchdog(p) ==   \* mutant: the watchdog is not cancelled
  /\ step[p] = "inside"
  /\ step' = [step EXCEPT ![p] = "idle"]
  /\ locked' = locked \ {p}
  /\ lapsed' = lapsed \ {p}
  /\ UNCHANGED <<attempts, watchdog, timer>>

Left(p) ==
  /\ step[p] = "inside"
  /\ step' = [step EXCEPT ![p] = "idle"]
  /\ locked' = locked \ {p}
  /\ watchdog' = [watchdog EXCEPT ![p] = "off"]
  /\ timer' = [timer EXCEPT ![p] = 0]
  /\ lapsed' = lapsed \ {p}
  /\ UNCHANGED attempts

\* RELEASE_SCRIPT compares the value, then deletes the key.
OwnsAnything(p) == key # Free   \* mutant: deletes without comparing

Owns(p) == key = p

Release(p) ==
  /\ Left(p)
  /\ IF p \in locked /\ Owns(p) THEN DeleteKey ELSE UNCHANGED <<key, ttl>>
  /\ UNCHANGED mishaps

ReleaseErrs(p) ==
  /\ Left(p)
  /\ p \in locked
  /\ \/ Owns(p) /\ DeleteKey
     \/ UNCHANGED <<key, ttl>>
  /\ mishaps' = mishaps \cup {"redis_error"}

Crash(p) ==
  /\ Left(p)
  /\ UNCHANGED <<key, ttl, mishaps>>

-----------------------------------------------------------------------------
(* Time.  A watchdog that is not stalled wakes up on time.  While there is  *)
(* no key nothing waits for time: a watchdog that is on is due by then.     *)

Stall(p) ==
  /\ watchdog[p] = "on"
  /\ watchdog' = [watchdog EXCEPT ![p] = "stalled"]
  /\ mishaps' = mishaps \cup {"stalled"}
  /\ UNCHANGED <<key, ttl, step, attempts, locked, timer, lapsed>>

Resume(p) ==
  /\ watchdog[p] = "stalled"
  /\ watchdog' = [watchdog EXCEPT ![p] = "on"]
  /\ UNCHANGED <<key, ttl, step, attempts, locked, timer, lapsed, mishaps>>

Expires == key # Free /\ ttl = 1

\* The key runs out under a holder that does not renew it.
Overruns == Expires /\ key \in Holders \ Renewing /\ step[key] = "inside"

Tick ==
  /\ key # Free
  /\ \A p \in Holders : ~ WatchdogDue(p)
  /\ IF Expires THEN DeleteKey ELSE key' = key /\ ttl' = ttl - 1
  /\ timer' = [p \in Holders |-> IF timer[p] = 0 THEN 0 ELSE timer[p] - 1]
  /\ lapsed' = lapsed \cup {p \in Holders : Expires /\ key = p /\ step[p] = "inside"}
  /\ mishaps' = mishaps \cup (IF Overruns THEN {"overran"} ELSE {})
  /\ UNCHANGED <<step, attempts, locked, watchdog>>

-----------------------------------------------------------------------------
WatchdogStep(p) == Renew(p) \/ NoticeLoss(p) \/ RenewErrs(p)

Next ==
  \/ \E p \in Holders :
       \/ Acquire(p) \/ SetSucceeds(p) \/ SetRefused(p) \/ SetErrs(p)
       \/ AcquireTimesOut(p) \/ WatchdogStep(p) \/ Release(p) \/ ReleaseErrs(p)
       \/ Crash(p) \/ Stall(p) \/ Resume(p)
  \/ Tick

Spec == Init /\ [][Next]_vars

\* Time goes on, stalled tasks resume, watchdogs run and blocks end.
FairSpec ==
  /\ Spec
  /\ WF_vars(Tick)
  /\ \A p \in Holders : WF_vars(WatchdogStep(p)) /\ WF_vars(Resume(p))
                        /\ WF_vars(Release(p))

-----------------------------------------------------------------------------
Inside == {p \in Holders : step[p] = "inside"}

TypeOK ==
  /\ key \in Holders \cup {Free}
  /\ ttl \in 0 .. ExpireTime
  /\ key # Free => ttl # 0
  /\ step \in [Holders -> Steps]
  /\ attempts \in [Holders -> 0 .. MaxAttempts - 1]
  /\ locked \subseteq Holders
  /\ watchdog \in [Holders -> {"off", "on", "stalled"}]
  /\ timer \in [Holders -> 0 .. RenewalInterval]
  /\ lapsed \subseteq Holders
  /\ mishaps \subseteq Mishaps

\* Two holders are inside together only after a block overran the expiry
\* without renewal, a watchdog stalled or a call to Redis failed; crashes
\* never let two in.
MutualExclusion == mishaps = {} => \A p, q \in Inside : p = q

\* The key is freed by the release of its own holder or by time: a holder
\* that lost it, or whose calls were answered late, never frees another's.
Promise == INSTANCE Lease WITH owner <- key, inside <- Inside
KeepsPromise == Promise!Spec

\* However holders crash, stall or lose answers, nobody owns the key forever.
KeyIsFreed == \A p \in Holders : key = p ~> key # p
=============================================================================
