---------------------------- MODULE LegbotLease -----------------------------
(***************************************************************************)
(* The renewed Redis lease that keeps two LegBot runs of one               *)
(* (jurisdiction, session) apart: trigger_scraper_session_pipeline, its    *)
(* heartbeat task and its fenced release (pipelines/                       *)
(* scraper_triggered_legbot.py).  The knowledge-base backfill takes and    *)
(* renews its own key with the same helper.                                *)
(*                                                                         *)
(* One key is modelled, since keys are independent.  Time is discrete: a   *)
(* tick ages every pending step by one and takes one from the key's        *)
(* remaining life.  A Redis command takes effect at one instant, at most   *)
(* Stall ticks after the code could first have issued it (event loop busy, *)
(* network slow).  GET and the EXPIRE or DELETE that follows it are two    *)
(* commands with an await between them, so they are two steps.             *)
(*                                                                         *)
(* No name is one of LegbotDispatch, for one module of proofs extends both.*)
(***************************************************************************)
EXTENDS Naturals, FiniteSets

CONSTANTS
    Runs,        \* calls of the trigger for this jurisdiction and session
    NoRun,       \* the key does not exist
    TTL,         \* legbot_scrape_completion_trigger_lock_ttl_seconds
    Renew,       \* legbot_scrape_completion_trigger_lock_renewal_seconds
    Stall,       \* longest delay of one Redis command
    MaxMissed,   \* consecutive renewals a Redis error may swallow
    MaxDeaths    \* bound: process deaths in a behaviour

ASSUME LeaseAssumption ==
    /\ NoRun \notin Runs
    /\ TTL \in Nat \ {0}
    /\ Renew \in Nat
    /\ Stall \in Nat
    /\ MaxMissed \in Nat
    /\ MaxDeaths \in Nat

VARIABLES
    holder,      \* the run id stored under lock_key, or NoRun
    ttl,         \* remaining life of the key; 0: no key, or no expiry set
    stage,       \* per run: where trigger_scraper_session_pipeline stands
    hb,          \* per run: where its _lock_heartbeat_loop stands
    waited,      \* per run: ticks since its pending Redis step began
    missed,      \* per run: renewals lost in a row
    deaths       \* process deaths so far

leaseVars == <<holder, ttl, stage, hb, waited, missed, deaths>>

RunStates == {"idle", "run", "relget", "reldel", "done", "refused", "dead"}
HbStates == {"off", "sleep", "expire"}

\* The longest time from one EXPIRE to the next when none is lost.
Cycle == Renew + Stall + Stall

\* The time lost to m swallowed renewals.
Lost(m) == m * Cycle

\* The deployment condition under which the lease is a lock: every renewal,
\* the lost ones included, and the release fit in one TTL.
TimingOK == Lost(MaxMissed) + Cycle + Stall + Stall < TTL

LeaseTypeOK ==
    /\ holder \in Runs \cup {NoRun}
    /\ ttl \in 0..TTL
    /\ stage \in [Runs -> RunStates]
    /\ hb \in [Runs -> HbStates]
    /\ waited \in [Runs -> Nat]
    /\ missed \in [Runs -> 0..MaxMissed]
    /\ deaths \in 0..MaxDeaths

LeaseInit ==
    /\ holder = NoRun
    /\ ttl = 0
    /\ stage = [r \in Runs |-> "idle"]
    /\ hb = [r \in Runs |-> "off"]
    /\ waited = [r \in Runs |-> 0]
    /\ missed = [r \in Runs |-> 0]
    /\ deaths = 0

-----------------------------------------------------------------------------
(* The trigger call.                                                       *)

\* Mutant: a SET without NX takes the key whoever holds it.
AcquireWithoutNX(r) ==
    /\ stage[r] = "idle"
    /\ holder' = r
    /\ ttl' = TTL
    /\ stage' = [stage EXCEPT ![r] = "run"]
    /\ hb' = [hb EXCEPT ![r] = "sleep"]
    /\ waited' = [waited EXCEPT ![r] = 0]
    /\ UNCHANGED <<missed, deaths>>

\* Mutant: a SET without EX never expires.
AcquireWithoutEX(r) ==
    /\ stage[r] = "idle"
    /\ holder = NoRun
    /\ holder' = r
    /\ ttl' = 0
    /\ stage' = [stage EXCEPT ![r] = "run"]
    /\ hb' = [hb EXCEPT ![r] = "sleep"]
    /\ waited' = [waited EXCEPT ![r] = 0]
    /\ UNCHANGED <<missed, deaths>>

\* SET lock_key run_id NX EX ttl succeeded: the heartbeat task is created
\* and run_legbot_pipeline starts.
Acquire(r) ==
    /\ stage[r] = "idle"
    /\ holder = NoRun
    /\ holder' = r
    /\ ttl' = TTL
    /\ stage' = [stage EXCEPT ![r] = "run"]
    /\ hb' = [hb EXCEPT ![r] = "sleep"]
    /\ waited' = [waited EXCEPT ![r] = 0]
    /\ UNCHANGED <<missed, deaths>>

\* trigger_disabled, redis_unavailable, or already_running: nothing written.
Refuse(r) ==
    /\ stage[r] = "idle"
    /\ stage' = [stage EXCEPT ![r] = "refused"]
    /\ UNCHANGED <<holder, ttl, hb, waited, missed, deaths>>

\* The SET reached Redis but its answer was an exception: the call returns
\* redis_unavailable and nobody will renew or release the key it holds.
AcquireReplyLost(r) ==
    /\ stage[r] = "idle"
    /\ holder = NoRun
    /\ holder' = r
    /\ ttl' = TTL
    /\ stage' = [stage EXCEPT ![r] = "refused"]
    /\ UNCHANGED <<hb, waited, missed, deaths>>

\* Mutant: the release begins with the heartbeat still running.
PipelineEndsHeartbeatLives(r) ==
    /\ stage[r] = "run"
    /\ stage' = [stage EXCEPT ![r] = "relget"]
    /\ waited' = [waited EXCEPT ![r] = 0]
    /\ UNCHANGED <<holder, ttl, hb, missed, deaths>>

\* run_legbot_pipeline returned or raised; finally: the heartbeat task is
\* cancelled and awaited before the release begins.
PipelineEnds(r) ==
    /\ stage[r] = "run"
    /\ stage' = [stage EXCEPT ![r] = "relget"]
    /\ hb' = [hb EXCEPT ![r] = "off"]
    /\ waited' = [waited EXCEPT ![r] = 0]
    /\ UNCHANGED <<holder, ttl, missed, deaths>>

\* Fenced release, first command: GET lock_key and compare with run_id.
ReleaseGet(r) ==
    /\ stage[r] = "relget"
    /\ stage' = [stage EXCEPT ![r] = IF holder = r THEN "reldel" ELSE "done"]
    /\ waited' = [waited EXCEPT ![r] = 0]
    /\ UNCHANGED <<holder, ttl, hb, missed, deaths>>

\* Fenced release, second command: DELETE lock_key, whoever holds it by now.
ReleaseDelete(r) ==
    /\ stage[r] = "reldel"
    /\ holder' = NoRun
    /\ ttl' = 0
    /\ stage' = [stage EXCEPT ![r] = "done"]
    /\ UNCHANGED <<hb, waited, missed, deaths>>

\* Either command raised: logged, and the key is left to expire.
ReleaseError(r) ==
    /\ stage[r] \in {"relget", "reldel"}
    /\ stage' = [stage EXCEPT ![r] = "done"]
    /\ UNCHANGED <<holder, ttl, hb, waited, missed, deaths>>

-----------------------------------------------------------------------------
(* _lock_heartbeat_loop and _renew_lock_if_owned.                          *)

\* asyncio.sleep(interval) is over and GET lock_key answers.
HeartbeatGet(r) ==
    /\ hb[r] = "sleep"
    /\ waited[r] >= Renew
    /\ hb' = [hb EXCEPT ![r] = IF holder = r THEN "expire" ELSE "sleep"]
    /\ waited' = [waited EXCEPT ![r] = 0]
    /\ UNCHANGED <<holder, ttl, stage, missed, deaths>>

\* Mutant: the EXPIRE is dropped and the heartbeat goes back to sleep.
HeartbeatWithoutExpire(r) ==
    /\ hb[r] = "expire"
    /\ hb' = [hb EXCEPT ![r] = "sleep"]
    /\ waited' = [waited EXCEPT ![r] = 0]
    /\ UNCHANGED <<holder, ttl, stage, missed, deaths>>

\* EXPIRE lock_key ttl: extends the key whoever holds it, no-op without one.
HeartbeatExpire(r) ==
    /\ hb[r] = "expire"
    /\ ttl' = IF holder = NoRun THEN 0 ELSE TTL
    /\ hb' = [hb EXCEPT ![r] = "sleep"]
    /\ waited' = [waited EXCEPT ![r] = 0]
    /\ missed' = [missed EXCEPT ![r] = 0]
    /\ UNCHANGED <<holder, stage, deaths>>

\* Either command raised: logged, the loop sleeps again.
HeartbeatError(r) ==
    /\ \/ hb[r] = "sleep" /\ waited[r] >= Renew
       \/ hb[r] = "expire"
    /\ missed[r] < MaxMissed
    /\ missed' = [missed EXCEPT ![r] = @ + 1]
    /\ hb' = [hb EXCEPT ![r] = "sleep"]
    /\ waited' = [waited EXCEPT ![r] = 0]
    /\ UNCHANGED <<holder, ttl, stage, deaths>>

-----------------------------------------------------------------------------
(* The environment.                                                        *)

\* The process dies: no finally block runs, the key stays until its TTL.
Death ==
    /\ deaths < MaxDeaths
    /\ deaths' = deaths + 1
    /\ stage' = [r \in Runs |-> IF stage[r] \in {"run", "relget", "reldel"}
                                THEN "dead" ELSE stage[r]]
    /\ hb' = [r \in Runs |-> "off"]
    /\ UNCHANGED <<holder, ttl, waited, missed>>

\* A run has a Redis step that is already Stall ticks late.
Overdue(r) ==
    \/ hb[r] = "sleep"  /\ waited[r] >= Renew + Stall
    \/ hb[r] = "expire" /\ waited[r] >= Stall
    \/ stage[r] \in {"relget", "reldel"} /\ waited[r] >= Stall

\* Time matters only while the key lives or a step is pending.
LeaseTick ==
    /\ holder # NoRun \/ \E r \in Runs : stage[r] \in {"run", "relget", "reldel"}
    /\ \A r \in Runs : ~Overdue(r)
    /\ ttl' = IF ttl = 0 THEN 0 ELSE ttl - 1
    /\ holder' = IF ttl = 1 THEN NoRun ELSE holder
    /\ waited' = [r \in Runs |->
                    IF stage[r] \in {"run", "relget", "reldel"} THEN waited[r] + 1 ELSE waited[r]]
    /\ UNCHANGED <<stage, hb, missed, deaths>>

LeaseNext ==
    \/ \E r \in Runs :
          \/ Acquire(r) \/ Refuse(r) \/ AcquireReplyLost(r)
          \/ PipelineEnds(r)
          \/ ReleaseGet(r) \/ ReleaseDelete(r) \/ ReleaseError(r)
          \/ HeartbeatGet(r) \/ HeartbeatExpire(r) \/ HeartbeatError(r)
    \/ Death
    \/ LeaseTick

\* The event loop keeps running the heartbeat and the release, and time
\* passes.  Nothing is assumed of the pipeline: it may run for ever.
LeaseFairness ==
    /\ WF_leaseVars(LeaseTick)
    /\ \A r \in Runs : /\ WF_leaseVars(HeartbeatGet(r))
                       /\ WF_leaseVars(HeartbeatExpire(r))
                       /\ WF_leaseVars(ReleaseGet(r) \/ ReleaseDelete(r) \/ ReleaseError(r))

LeaseSpec == LeaseInit /\ [][LeaseNext]_leaseVars
FairLeaseSpec == LeaseSpec /\ LeaseFairness

-----------------------------------------------------------------------------
(* Properties.                                                             *)

\* The runs whose pipeline is executing.
Active == {r \in Runs : stage[r] = "run"}

\* Two runs of one jurisdiction and session never execute at once, although
\* the lease expires, renewals fail and processes die.
MutualExclusion == \A r, s \in Active : r = s

\* A run that checked ownership still owns the key when its EXPIRE or its
\* DELETE lands: the gap between the two commands is never long enough for
\* the key to pass to a newer trigger.
CheckedOwnerStillOwns ==
    \A r \in Runs : hb[r] = "expire" \/ stage[r] = "reldel" => holder = r

\* A lease nobody renews any more (its process died, its release or the
\* reply to its SET was lost) frees the key.
AbandonedLeaseExpires ==
    \A r \in Runs :
       (holder = r /\ stage[r] \in {"dead", "done", "refused"}) ~> holder # r

Guard == INSTANCE OverlapGuard WITH active <- Active

\* The lease implements the guard its callers rely on.
GuardSpec == Guard!Spec
=============================================================================
