---------------------------- MODULE LegbotProofs ----------------------------
(***************************************************************************)
(* Theorems about LegbotLease and LegbotDispatch.                          *)
(*                                                                         *)
(* For every set of runs and every TTL, renewal interval, stall and number *)
(* of lost renewals that satisfy TimingOK, the lease is a lock.            *)
(*                                                                         *)
(* The dispatch is proved for any number of tasks, any timeouts that       *)
(* satisfy SweepTimingOK, and any number of failures and crashes.          *)
(* Everything rests on one race: the sweep must not pick a record whose    *)
(* dispatcher is at work.  TimingInv bounds the age of a task by the       *)
(* deadline it polls under, the overshoot of one poll and the handling;    *)
(* with SweepTimingOK that stays below the age of the sweep.  Two writers  *)
(* of a row are then never at work together, and what each of them writes  *)
(* agrees with what CAMS holds.                                            *)
(***************************************************************************)
EXTENDS LegbotLease, LegbotDispatch, TLAPS

-----------------------------------------------------------------------------
(* The lease: what is known of a key that is held.                         *)

\* A key without a life does not exist (every writer sets an expiry).
KeyHasLife == holder = NoRun <=> ttl = 0

\* Only an executing run has a heartbeat.
HeartbeatOfActive == \A r \in Runs : hb[r] # "off" <=> stage[r] = "run"

\* An executing run holds the key, and what has been used of its life is at
\* most the lost renewals plus the part of the cycle that has passed.
ActiveLease ==
    \A r \in Runs : stage[r] = "run" =>
        /\ holder = r
        /\ hb[r] = "sleep" => /\ waited[r] <= Renew + Stall
                              /\ ttl + Lost(missed[r]) + waited[r] >= TTL
        /\ hb[r] = "expire" =>
              /\ waited[r] <= Stall
              /\ ttl + Lost(missed[r]) + Renew + Stall + waited[r] >= TTL

\* A releasing run still holds the key: the release fits in what is left.
ReleasingLease ==
    \A r \in Runs :
        /\ stage[r] = "relget" =>
              /\ holder = r
              /\ waited[r] <= Stall
              /\ ttl + Lost(MaxMissed) + Cycle + waited[r] >= TTL
        /\ stage[r] = "reldel" =>
              /\ holder = r
              /\ waited[r] <= Stall
              /\ ttl + Lost(MaxMissed) + Cycle + Stall + waited[r] >= TTL

LeaseInv == LeaseTypeOK /\ KeyHasLife /\ HeartbeatOfActive /\ ActiveLease /\ ReleasingLease

\* Arithmetic of lost renewals: one more costs one cycle, and no run has
\* lost more than MaxMissed.
LEMMA LostFacts ==
    /\ Cycle \in Nat
    /\ \A m \in Nat : Lost(m) \in Nat /\ Lost(m + 1) = Lost(m) + Cycle
    /\ \A m \in 0..MaxMissed : Lost(m) <= Lost(MaxMissed)
    /\ Lost(0) = 0
<1>1. Cycle \in Nat
  BY LeaseAssumption DEF Cycle
<1>2. \A m \in Nat : Lost(m) \in Nat /\ Lost(m + 1) = Lost(m) + Cycle
  BY <1>1 DEF Lost
<1>3. \A m \in 0..MaxMissed : Lost(m) <= Lost(MaxMissed)
  <2>1. SUFFICES ASSUME NEW m \in 0..MaxMissed PROVE m * Cycle <= MaxMissed * Cycle
    BY DEF Lost
  <2>2. PICK k \in Nat : MaxMissed = m + k
    <3>1. MaxMissed - m \in Nat /\ MaxMissed = m + (MaxMissed - m)
      BY LeaseAssumption
    <3> QED BY <3>1
  <2>3. MaxMissed * Cycle = m * Cycle + k * Cycle /\ k * Cycle \in Nat
    BY <1>1, <2>2
  <2> QED BY <1>1, <2>3
<1>4. Lost(0) = 0
  BY <1>1 DEF Lost
<1> QED BY <1>1, <1>2, <1>3, <1>4

\* Arithmetic of the last step: what is left covers what the release may take.
LEMMA ReleaseFits ==
    ASSUME NEW t \in Nat, NEW a \in Nat, NEW l \in Nat, NEW c \in Nat, NEW s \in Nat, NEW k \in Nat,
           l + c + s + s < k, a < s, t + l + c + s + a >= k
    PROVE  t > 1
OBVIOUS

LEMMA InitLease == LeaseInit => LeaseInv
BY LeaseAssumption
   DEF LeaseInit, LeaseInv, LeaseTypeOK, KeyHasLife, HeartbeatOfActive, ActiveLease,
       ReleasingLease, RunStates, HbStates

\* Every step preserves the lease invariant, when the timing is right.
LEMMA NextLease ==
    ASSUME TimingOK, LeaseInv, [LeaseNext]_leaseVars
    PROVE  LeaseInv'
<1> USE LeaseAssumption, LostFacts DEF LeaseInv, RunStates, HbStates
<1>1. ASSUME NEW r \in Runs, Acquire(r) PROVE LeaseInv'
  BY <1>1 DEF Acquire, LeaseTypeOK, KeyHasLife, HeartbeatOfActive, ActiveLease, ReleasingLease
<1>2. ASSUME NEW r \in Runs, Refuse(r) PROVE LeaseInv'
  BY <1>2 DEF Refuse, LeaseTypeOK, KeyHasLife, HeartbeatOfActive, ActiveLease, ReleasingLease
<1>3. ASSUME NEW r \in Runs, AcquireReplyLost(r) PROVE LeaseInv'
  BY <1>3
     DEF AcquireReplyLost, LeaseTypeOK, KeyHasLife, HeartbeatOfActive, ActiveLease, ReleasingLease
<1>4. ASSUME NEW r \in Runs, PipelineEnds(r) PROVE LeaseInv'
  <2>1. LeaseTypeOK' /\ KeyHasLife' /\ HeartbeatOfActive' /\ ActiveLease'
    BY <1>4 DEF PipelineEnds, LeaseTypeOK, KeyHasLife, HeartbeatOfActive, ActiveLease
  <2>2. ttl + Lost(MaxMissed) + Cycle >= TTL /\ holder = r
    <3>1. ttl \in Nat /\ waited[r] \in Nat /\ missed[r] \in 0..MaxMissed /\ Lost(missed[r]) \in Nat
      BY DEF LeaseTypeOK
    <3>2. Lost(missed[r]) <= Lost(MaxMissed) /\ Lost(MaxMissed) \in Nat
      BY <3>1
    <3>3. hb[r] \in {"sleep", "expire"} /\ stage[r] = "run"
      BY <1>4 DEF PipelineEnds, LeaseTypeOK, HeartbeatOfActive
    <3> QED BY <3>1, <3>2, <3>3 DEF ActiveLease, Cycle
  <2>3. ReleasingLease'
    BY <1>4, <2>2 DEF PipelineEnds, LeaseTypeOK, ReleasingLease
  <2> QED BY <2>1, <2>3
<1>5. ASSUME NEW r \in Runs, ReleaseGet(r) PROVE LeaseInv'
  BY <1>5 DEF ReleaseGet, LeaseTypeOK, KeyHasLife, HeartbeatOfActive, ActiveLease, ReleasingLease
<1>6. ASSUME NEW r \in Runs, ReleaseDelete(r) PROVE LeaseInv'
  BY <1>6 DEF ReleaseDelete, LeaseTypeOK, KeyHasLife, HeartbeatOfActive, ActiveLease, ReleasingLease
<1>7. ASSUME NEW r \in Runs, ReleaseError(r) PROVE LeaseInv'
  BY <1>7 DEF ReleaseError, LeaseTypeOK, KeyHasLife, HeartbeatOfActive, ActiveLease, ReleasingLease
<1>8. ASSUME NEW r \in Runs, HeartbeatGet(r) PROVE LeaseInv'
  BY <1>8 DEF HeartbeatGet, LeaseTypeOK, KeyHasLife, HeartbeatOfActive, ActiveLease, ReleasingLease
<1>9. ASSUME NEW r \in Runs, HeartbeatExpire(r) PROVE LeaseInv'
  BY <1>9
     DEF HeartbeatExpire, LeaseTypeOK, KeyHasLife, HeartbeatOfActive, ActiveLease, ReleasingLease
<1>10. ASSUME NEW r \in Runs, HeartbeatError(r) PROVE LeaseInv'
  <2>1. LeaseTypeOK' /\ KeyHasLife' /\ HeartbeatOfActive' /\ ReleasingLease'
    <3>1. LeaseTypeOK' /\ KeyHasLife'
      BY <1>10 DEF HeartbeatError, LeaseTypeOK, KeyHasLife
    <3>2. HeartbeatOfActive'
      BY <1>10 DEF HeartbeatError, LeaseTypeOK, HeartbeatOfActive
    <3>3. UNCHANGED <<stage, holder, ttl>> /\ \A q \in Runs : q # r => waited'[q] = waited[q]
      BY <1>10 DEF HeartbeatError, LeaseTypeOK
    <3>4. stage[r] = "run"
      BY <1>10 DEF HeartbeatError, LeaseTypeOK, HeartbeatOfActive
    <3>5. ReleasingLease'
      BY <3>3, <3>4 DEF ReleasingLease
    <3> QED BY <3>1, <3>2, <3>5
  <2>2. Lost(missed[r] + 1) = Lost(missed[r]) + Cycle /\ Lost(missed[r]) \in Nat
    BY DEF LeaseTypeOK
  <2>3. ActiveLease'
    BY <1>10, <2>2 DEF HeartbeatError, LeaseTypeOK, HeartbeatOfActive, ActiveLease, Cycle
  <2> QED BY <2>1, <2>3
<1>11. ASSUME Death PROVE LeaseInv'
  BY <1>11 DEF Death, LeaseTypeOK, KeyHasLife, HeartbeatOfActive, ActiveLease, ReleasingLease
<1>12. ASSUME LeaseTick PROVE LeaseInv'
  <2>1. LeaseTypeOK' /\ KeyHasLife' /\ HeartbeatOfActive'
    BY <1>12 DEF LeaseTick, LeaseTypeOK, KeyHasLife, HeartbeatOfActive
  <2>2. ASSUME NEW r \in Runs, stage[r] \in {"run", "relget", "reldel"} PROVE ttl > 1
    <3>1. /\ ttl \in Nat /\ waited[r] \in Nat /\ missed[r] \in 0..MaxMissed
          /\ Lost(missed[r]) \in Nat /\ Lost(missed[r]) <= Lost(MaxMissed)
          /\ Lost(MaxMissed) \in Nat
      BY DEF LeaseTypeOK
    <3>2. ~Overdue(r)
      BY <1>12 DEF LeaseTick
    <3>3. CASE stage[r] = "run"
      BY <3>1, <3>2, <3>3 DEF Overdue, LeaseTypeOK, HeartbeatOfActive, ActiveLease, TimingOK, Cycle
    <3>4. CASE stage[r] \in {"relget", "reldel"}
      <4>1. waited[r] < Stall
        BY <3>1, <3>2, <3>4, LeaseAssumption DEF Overdue
      <4>2. Cycle \in Nat /\ Stall \in Nat /\ TTL \in Nat
        BY LeaseAssumption DEF Cycle
      <4> HIDE LeaseAssumption, LostFacts
      <4>3. CASE stage[r] = "relget"
        <5>1. ttl + Lost(MaxMissed) + Cycle + waited[r] >= TTL
          BY <4>3 DEF ReleasingLease
        <5> QED BY <3>1, <4>1, <4>2, <5>1, ReleaseFits DEF TimingOK
      <4>4. CASE stage[r] = "reldel"
        <5>1. ttl + Lost(MaxMissed) + Cycle + Stall + waited[r] >= TTL
          BY <4>4 DEF ReleasingLease
        <5> QED BY <3>1, <4>1, <4>2, <5>1, ReleaseFits DEF TimingOK
      <4> QED BY <3>4, <4>3, <4>4
    <3> QED BY <2>2, <3>3, <3>4
  <2>3. ActiveLease'
    <3> SUFFICES ASSUME NEW r \in Runs, stage[r] = "run"
                 PROVE  /\ holder' = r
                        /\ hb[r] = "sleep" => /\ waited'[r] <= Renew + Stall
                                              /\ ttl' + Lost(missed[r]) + waited'[r] >= TTL
                        /\ hb[r] = "expire" =>
                              /\ waited'[r] <= Stall
                              /\ ttl' + Lost(missed[r]) + Renew + Stall + waited'[r] >= TTL
      BY <1>12 DEF LeaseTick, ActiveLease
    <3>1. /\ ttl \in Nat /\ waited[r] \in Nat
          /\ missed[r] \in 0..MaxMissed /\ Lost(missed[r]) \in Nat
      BY DEF LeaseTypeOK
    <3>0. ttl > 1
      BY <2>2
    <3>2. ttl' = ttl - 1 /\ holder' = holder /\ waited'[r] = waited[r] + 1
      BY <1>12, <3>0, <3>1 DEF LeaseTick
    <3>3. ~Overdue(r)
      BY <1>12 DEF LeaseTick
    <3>4. holder = r
      BY DEF ActiveLease
    <3>5. hb[r] = "sleep" => /\ waited'[r] <= Renew + Stall
                             /\ ttl' + Lost(missed[r]) + waited'[r] >= TTL
      BY <3>1, <3>2, <3>3 DEF Overdue, ActiveLease
    <3>6. hb[r] = "expire" => /\ waited'[r] <= Stall
                              /\ ttl' + Lost(missed[r]) + Renew + Stall + waited'[r] >= TTL
      BY <3>1, <3>2, <3>3 DEF Overdue, ActiveLease
    <3> QED BY <3>2, <3>4, <3>5, <3>6
  <2>4. ReleasingLease'
    BY <1>12, <2>2 DEF LeaseTick, Overdue, LeaseTypeOK, ReleasingLease
  <2> QED BY <2>1, <2>3, <2>4
<1>13. CASE UNCHANGED leaseVars
  BY <1>13 DEF leaseVars, LeaseTypeOK, KeyHasLife, HeartbeatOfActive, ActiveLease, ReleasingLease
<1> QED
  BY <1>1, <1>2, <1>3, <1>4, <1>5, <1>6, <1>7, <1>8, <1>9, <1>10, <1>11, <1>12, <1>13
  DEF LeaseNext

\* The lease invariant holds in every reachable state.
THEOREM LeaseInvariance == ASSUME TimingOK PROVE LeaseSpec => []LeaseInv
<1>1. LeaseInv /\ [LeaseNext]_leaseVars => LeaseInv'
  BY NextLease
<1> QED BY <1>1, InitLease, PTL DEF LeaseSpec

\* The variables of the lease keep their types.
THEOREM LeaseTypes == ASSUME TimingOK PROVE LeaseSpec => []LeaseTypeOK
<1>1. LeaseInv => LeaseTypeOK
  BY DEF LeaseInv
<1> QED BY <1>1, LeaseInvariance, PTL

\* No two runs of one jurisdiction and session execute at once
\* (trigger_scraper_session_pipeline), for every choice of the constants
\* that satisfies TimingOK.
THEOREM LeaseIsMutex == ASSUME TimingOK PROVE LeaseSpec => []MutualExclusion
<1>1. LeaseInv => MutualExclusion
  BY DEF LeaseInv, ActiveLease, MutualExclusion, Active
<1> QED BY <1>1, LeaseInvariance, PTL

\* The GET of _renew_lock_if_owned, or of the fenced release, is still true
\* when the EXPIRE or the DELETE that relies on it takes effect.
THEOREM LeaseCheckStaysTrue == ASSUME TimingOK PROVE LeaseSpec => []CheckedOwnerStillOwns
<1>1. LeaseInv => CheckedOwnerStillOwns
  BY DEF LeaseInv, HeartbeatOfActive, ActiveLease, ReleasingLease, CheckedOwnerStillOwns
<1> QED BY <1>1, LeaseInvariance, PTL

\* The lease implements OverlapGuard: every step of it is an admission into
\* an empty guard, a departure, or invisible to the callers.
THEOREM LeaseImplementsGuard == ASSUME TimingOK PROVE LeaseSpec => GuardSpec
<1>1. LeaseInit => Guard!Init
  BY DEF LeaseInit, Guard!Init, Active
<1>2. LeaseInv /\ [LeaseNext]_leaseVars => [Guard!Next]_Active
  <2> SUFFICES ASSUME LeaseInv, [LeaseNext]_leaseVars PROVE [Guard!Next]_Active
    OBVIOUS
  <2> USE DEF Active, Guard!Next, Guard!Admit, Guard!Leave
  <2>1. \A r \in Active : holder = r /\ Active = {r}
    BY DEF LeaseInv, ActiveLease
  <2>2. ASSUME NEW r \in Runs, Acquire(r) PROVE Guard!Admit(r)
    <3>1. Active = {}
      BY <2>1, <2>2, LeaseAssumption DEF Acquire
    <3>2. Active' = {r}
      BY <2>2, <3>1 DEF Acquire, LeaseInv, LeaseTypeOK
    <3> QED BY <3>1, <3>2
  <2>3. ASSUME NEW r \in Runs, PipelineEnds(r) PROVE Guard!Leave(r)
    BY <2>3 DEF PipelineEnds, LeaseInv, LeaseTypeOK
  <2>4. ASSUME Death PROVE UNCHANGED Active \/ \E r \in Runs : Guard!Leave(r)
    <3>1. Active' = {}
      BY <2>4 DEF Death, LeaseInv, LeaseTypeOK
    <3>2. CASE Active = {}
      BY <3>1, <3>2
    <3>3. CASE Active # {}
      <4>1. PICK r \in Active : TRUE
        BY <3>3
      <4>2. r \in Runs /\ Active = {r}
        BY <2>1, <4>1
      <4> QED BY <3>1, <4>2
    <3> QED BY <3>2, <3>3
  <2>5. ASSUME NEW r \in Runs,
               \/ Refuse(r) \/ AcquireReplyLost(r) \/ ReleaseGet(r) \/ ReleaseDelete(r)
               \/ ReleaseError(r)
        PROVE  UNCHANGED Active
    BY <2>5
       DEF Refuse, AcquireReplyLost, ReleaseGet, ReleaseDelete, ReleaseError, LeaseInv, LeaseTypeOK
  <2>6. ASSUME NEW r \in Runs, HeartbeatGet(r) \/ HeartbeatExpire(r) \/ HeartbeatError(r)
        PROVE  UNCHANGED Active
    BY <2>6 DEF HeartbeatGet, HeartbeatExpire, HeartbeatError
  <2>7. LeaseTick \/ UNCHANGED leaseVars => UNCHANGED Active
    BY DEF LeaseTick, leaseVars
  <2> QED BY <2>2, <2>3, <2>4, <2>5, <2>6, <2>7 DEF LeaseNext
<1> QED BY <1>1, <1>2, LeaseInvariance, PTL DEF LeaseSpec, GuardSpec, Guard!Spec

-----------------------------------------------------------------------------
(* The dispatch.                                                           *)

Pre == {"idle", "post", "track"}
PcStates == {"idle"} \cup Live \cup Ended

-----------------------------------------------------------------------------
(* Types.                                                                  *)

\* A dispatcher that writes has an answer to write.
Types == TypeOK /\ \A t \in Tasks : pc[t] = "write" => answer[t] # "none"

LEMMA TypesInit == Init => Types
<1> SUFFICES ASSUME Init PROVE Types
  OBVIOUS
<1> USE DispatchAssumption DEF Init
<1>1. pc \in [Tasks -> {"idle"} \cup Live \cup Ended]
  OBVIOUS
<1>2. /\ left \in [Tasks -> Nat] /\ op \in [Tasks -> Nat]
      /\ age \in [Tasks -> 0..Stale]
  BY DEF Stale
<1>3. seen \subseteq Tasks /\ legacy \subseteq Tasks /\ placed \subseteq OnDemand
  OBVIOUS
<1>4. answer \in [Tasks -> {"none", "complete", "failed"}]
  OBVIOUS
<1>5. tracked \subseteq recorded /\ recorded \subseteq Tasks
  OBVIOUS
<1>6. cams \in [Tasks -> CamsStates]
  BY DEF CamsStates
<1>7. row \in [Tasks -> {"absent", "pending", "complete", "failed"}]
  OBVIOUS
<1>8. sweep \in [task : Tasks \cup {NoTask}, step : SweepSteps]
  BY DEF SweepIdle, SweepSteps
<1>9. faults \in 0..MaxFaults /\ crashes \in 0..MaxCrashes
  OBVIOUS
<1> QED
  BY <1>1, <1>2, <1>3, <1>4, <1>5, <1>6, <1>7, <1>8, <1>9 DEF TypeOK, Types

LEMMA AnswerStep ==
    ASSUME Types, [Next]_vars, NEW u \in Tasks, (pc[u] = "write")'
    PROVE  answer'[u] # "none"
<1> USE DEF Types, TypeOK, Goto, dispatcher, Live, Looping, Handling, Ended
<1>1. ASSUME NEW t \in Tasks, PollTerminal(t) PROVE answer'[u] # "none"
  BY <1>1 DEF PollTerminal, Verdict
<1>2. ASSUME NEW t \in Tasks, Cleanup(t) PROVE answer'[u] # "none"
  BY <1>2 DEF Cleanup, AfterCleanup
<1>3. ASSUME NEW t \in Tasks,
             \/ StartBatch(t) \/ StartOnDemand(t) \/ ReportFailure(t) \/ PostTask(t)
             \/ PostRaises(t) \/ Track(t) \/ LoopHead(t) \/ PollPending(t)
      PROVE  answer'[u] # "none"
  BY <1>3 DEF StartBatch, StartOnDemand, ReportFailure, PostTask, PostRaises, Track,
      LoopHead, PollPending
<1>4. ASSUME NEW t \in Tasks, PollExhausted(t) \/ Cancel(t) \/ WriteAnswer(t)
      PROVE  answer'[u] # "none"
  BY <1>4 DEF PollExhausted, Cancel, WriteAnswer
<1>5. CASE Crash
  BY <1>5 DEF Crash
<1>6. CASE UNCHANGED <<pc, answer>>
  BY <1>6
<1> QED
  BY <1>1, <1>2, <1>3, <1>4, <1>5, <1>6
  DEF Next, DispatcherStep, SweepStep, SweepPick, SweepCheck, SweepWrite, SweepDelete,
      CamsStep, CamsForget, Tick, vars

LEMMA TypeOKStep == Types /\ [Next]_vars => TypeOK'
<1> SUFFICES ASSUME Types, [Next]_vars PROVE TypeOK'
  OBVIOUS
<1>t. TypeOK
  BY DEF Types
<1>f. Fault => faults' \in 0..MaxFaults
  BY <1>t, DispatchAssumption DEF TypeOK, Fault
<1>s. Stale \in Nat
  BY DispatchAssumption DEF Stale
<1>g. ASSUME NEW t \in Tasks, NEW x \in PcStates, Goto(t, x)
      PROVE  pc' \in [Tasks -> {"idle"} \cup Live \cup Ended]
  BY <1>t, <1>g DEF TypeOK, Goto, PcStates
<1> USE <1>t DEF TypeOK, PcStates, Live, Looping, Handling, Ended, dispatcher
<1>1. ASSUME NEW t \in Tasks, StartBatch(t) PROVE TypeOK'
  BY <1>1, <1>g DEF StartBatch
<1>2. ASSUME NEW t \in Tasks, StartOnDemand(t) PROVE TypeOK'
  <2>1. pc' \in [Tasks -> {"idle"} \cup Live \cup Ended]
    BY <1>2, <1>g DEF StartOnDemand
  <2>2. row' \in [Tasks -> {"absent", "pending", "complete", "failed"}] /\ faults' \in 0..MaxFaults
    BY <1>2, <1>f DEF StartOnDemand
  <2> QED BY <1>2, <2>1, <2>2 DEF StartOnDemand
<1>3. ASSUME NEW t \in Tasks, ReportFailure(t) PROVE TypeOK'
  <2>1. pc' \in [Tasks -> {"idle"} \cup Live \cup Ended]
    BY <1>3, <1>g DEF ReportFailure
  <2>2. row' \in [Tasks -> {"absent", "pending", "complete", "failed"}] /\ faults' \in 0..MaxFaults
    BY <1>3, <1>f DEF ReportFailure
  <2> QED BY <1>3, <2>1, <2>2 DEF ReportFailure
<1>4. ASSUME NEW t \in Tasks, PostTask(t) \/ PostRaises(t) PROVE TypeOK'
  <2>1. pc' \in [Tasks -> {"idle"} \cup Live \cup Ended]
    BY <1>4, <1>g DEF PostTask, PostRaises
  <2>2. cams' \in [Tasks -> CamsStates] /\ faults' \in 0..MaxFaults
    BY <1>4, <1>f DEF PostTask, PostRaises, CamsStates
  <2> QED BY <1>4, <2>1, <2>2 DEF PostTask, PostRaises
<1>5. ASSUME NEW t \in Tasks, Track(t) PROVE TypeOK'
  <2>1. pc' \in [Tasks -> {"idle"} \cup Live \cup Ended]
    BY <1>5, <1>g DEF Track
  <2>2. /\ tracked' \subseteq recorded' /\ recorded' \subseteq Tasks
        /\ faults' \in 0..MaxFaults
    BY <1>5, <1>f DEF Track
  <2>3. left' \in [Tasks -> Nat] /\ age' \in [Tasks -> 0..Stale]
    BY <1>5, <1>s, DispatchAssumption DEF Track
  <2> QED BY <1>5, <2>1, <2>2, <2>3 DEF Track
<1>6. ASSUME NEW t \in Tasks, LoopHead(t) PROVE TypeOK'
  <2>1. pc' \in [Tasks -> {"idle"} \cup Live \cup Ended] /\ op' \in [Tasks -> Nat]
    BY <1>6, <1>g DEF LoopHead
  <2> QED BY <1>6, <2>1 DEF LoopHead
<1>7. ASSUME NEW t \in Tasks, PollPending(t) PROVE TypeOK'
  <2>1. pc' \in [Tasks -> {"idle"} \cup Live \cup Ended]
    BY <1>7, <1>g DEF PollPending
  <2>2. left' = left \/ \E n \in Nat : left' = [left EXCEPT ![t] = n]
    BY <1>7, <1>s, DispatchAssumption DEF PollPending
  <2>3. seen' \subseteq Tasks /\ legacy' \subseteq Tasks
    BY <1>7 DEF PollPending
  <2> QED BY <1>7, <2>1, <2>2, <2>3 DEF PollPending
<1>8. ASSUME NEW t \in Tasks, PollTerminal(t) \/ PollExhausted(t) PROVE TypeOK'
  <2>1. pc' \in [Tasks -> {"idle"} \cup Live \cup Ended]
    BY <1>8, <1>g DEF PollTerminal, PollExhausted
  <2>2. op' \in [Tasks -> Nat] /\ faults' \in 0..MaxFaults
    BY <1>8, <1>f DEF PollTerminal, PollExhausted
  <2>3. answer' \in [Tasks -> {"none", "complete", "failed"}]
    BY <1>8 DEF PollTerminal, PollExhausted, Verdict
  <2> QED BY <1>8, <2>1, <2>2, <2>3 DEF PollTerminal, PollExhausted
<1>9. ASSUME NEW t \in Tasks, Cancel(t) PROVE TypeOK'
  <2>1. pc' \in [Tasks -> {"idle"} \cup Live \cup Ended]
    BY <1>9, <1>g DEF Cancel
  <2>2. cams' \in [Tasks -> CamsStates] /\ faults' \in 0..MaxFaults
    BY <1>9, <1>f DEF Cancel, CamsStates, Terminal
  <2> QED BY <1>9, <2>1, <2>2 DEF Cancel
<1>10. ASSUME NEW t \in Tasks, WriteAnswer(t) PROVE TypeOK'
  <2>1. pc' \in [Tasks -> {"idle"} \cup Live \cup Ended] /\ faults' \in 0..MaxFaults
    BY <1>10, <1>f, <1>g DEF WriteAnswer
  <2>2. row' = row \/ row' = [row EXCEPT ![t] = answer[t]]
    BY <1>10 DEF WriteAnswer
  <2>3. answer[t] \in {"complete", "failed"}
    BY <1>10 DEF WriteAnswer, Types
  <2>4. row' \in [Tasks -> {"absent", "pending", "complete", "failed"}]
    BY <2>2, <2>3
  <2> QED BY <1>10, <2>1, <2>4 DEF WriteAnswer
<1>11. ASSUME NEW t \in Tasks, Cleanup(t) PROVE TypeOK'
  <2>1. pc' \in [Tasks -> {"idle"} \cup Live \cup Ended] /\ faults' \in 0..MaxFaults
    BY <1>11, <1>f, <1>g DEF Cleanup, AfterCleanup
  <2>2. tracked' \subseteq tracked
    BY <1>11 DEF Cleanup
  <2> QED BY <1>11, <2>1, <2>2 DEF Cleanup
<1>12. ASSUME NEW t \in Tasks, SweepPick(t) PROVE TypeOK'
  BY <1>12 DEF SweepPick, SweepSteps
<1>13. CASE SweepCheck
  <2>1. sweep' \in [task : Tasks \cup {NoTask}, step : SweepSteps]
    BY <1>13 DEF SweepCheck, SweepIdle, SweepSteps, Verdict
  <2> QED BY <1>13, <1>f, <2>1 DEF SweepCheck
<1>14. CASE SweepWrite
  <2>1. sweep' \in [task : Tasks \cup {NoTask}, step : SweepSteps]
    BY <1>14 DEF SweepWrite, SweepIdle, SweepSteps
  <2>2. row' \in [Tasks -> {"absent", "pending", "complete", "failed"}]
    BY <1>14 DEF SweepWrite
  <2> QED BY <1>14, <1>f, <2>1, <2>2 DEF SweepWrite
<1>15. CASE SweepDelete
  <2>1. sweep' \in [task : Tasks \cup {NoTask}, step : SweepSteps] /\ tracked' \subseteq tracked
    BY <1>15 DEF SweepDelete, SweepIdle, SweepSteps
  <2> QED BY <1>15, <1>f, <2>1 DEF SweepDelete
<1>16. ASSUME NEW t \in Tasks, CamsStep(t) \/ CamsForget(t) PROVE TypeOK'
  <2>1. cams' \in [Tasks -> CamsStates]
    BY <1>16 DEF CamsStep, CamsForget, CamsStates, Terminal
  <2> QED BY <1>16, <2>1 DEF CamsStep, CamsForget
<1>17. CASE Crash
  <2>1. pc' \in [Tasks -> {"idle"} \cup Live \cup Ended]
    BY <1>17 DEF Crash
  <2>2. sweep' \in [task : Tasks \cup {NoTask}, step : SweepSteps]
    BY <1>17 DEF Crash, SweepIdle, SweepSteps
  <2>3. crashes' \in 0..MaxCrashes
    BY <1>17, DispatchAssumption DEF Crash
  <2> QED BY <1>17, <2>1, <2>2, <2>3 DEF Crash
<1>18. CASE Tick
  <2>1. left' \in [Tasks -> Nat] /\ op' \in [Tasks -> Nat]
    BY <1>18 DEF Tick
  <2>2. age' \in [Tasks -> 0..Stale]
    BY <1>18, <1>s DEF Tick
  <2> QED BY <1>18, <2>1, <2>2 DEF Tick
<1>19. CASE UNCHANGED vars
  BY <1>19 DEF vars
<1> QED
  BY <1>1, <1>2, <1>3, <1>4, <1>5, <1>6, <1>7, <1>8, <1>9, <1>10, <1>11, <1>12, <1>13,
     <1>14, <1>15, <1>16, <1>17, <1>18, <1>19
  DEF Next, DispatcherStep, SweepStep

LEMMA TypesStep == Types /\ [Next]_vars => Types'
BY AnswerStep, TypeOKStep DEF Types

\* Every variable keeps its type, and no row status is written that is none.
THEOREM DispatchTypes == Spec => []TypeOK
<1>1. Types => TypeOK
  BY DEF Types
<1> QED
  BY <1>1, TypesInit, TypesStep, PTL DEF Spec

-----------------------------------------------------------------------------
(* No sweep beside a dispatcher.                                           *)

\* The deadline a task is polled under, counted from its dispatch.
Deadline(t) == IF t \in seen THEN QueueWait + PollMax + GenTimeout ELSE QueueWait

\* How old a task can be at each stage of its dispatcher.
Timing(t) ==
    /\ pc[t] \in Pre => age[t] = 0 /\ op[t] = 0 /\ t \notin tracked
    /\ pc[t] = "loop" => age[t] <= Deadline(t) + PollMax
    /\ pc[t] = "poll" => op[t] <= PollMax /\ age[t] <= Deadline(t) + op[t]
    /\ pc[t] \in Looping /\ left[t] > 0 => age[t] + left[t] <= Deadline(t)
    /\ pc[t] \in Handling => op[t] <= HandleMax /\ age[t] <= Deadline(t) + PollMax + op[t]

TimingInv == \A t \in Tasks : Timing(t)

SweepInv == sweep = SweepIdle \/ (sweep.task \in Tasks /\ pc[sweep.task] \in Ended)

LEMMA TimingInit == Init => TimingInv /\ SweepInv
BY DispatchAssumption DEF Init, TimingInv, Timing, SweepInv, Pre, Looping, Handling, Deadline

LEMMA TimingStep ==
    ASSUME SweepTimingOK, Types, TimingInv, [Next]_vars
    PROVE  TimingInv'
<1> SUFFICES ASSUME NEW u \in Tasks PROVE Timing(u)'
  BY DEF TimingInv
<1>a. Timing(u) /\ QueueWait \in Nat /\ GenTimeout \in Nat /\ PollMax \in Nat /\ HandleMax \in Nat
  BY DispatchAssumption DEF TimingInv
<1>b. /\ pc \in [Tasks -> {"idle"} \cup Live \cup Ended]
      /\ left \in [Tasks -> Nat] /\ op \in [Tasks -> Nat] /\ age \in [Tasks -> Nat]
  BY DispatchAssumption DEF Types, TypeOK, Stale
<1>c. GenTimeout <= QueueWait
  BY DEF SweepTimingOK
<1> USE <1>a, <1>b DEF Timing, Deadline, Pre, Live, Looping, Handling, Ended, Goto, dispatcher
<1>1. ASSUME NEW t \in Tasks, StartBatch(t) \/ StartOnDemand(t) \/ PostTask(t) PROVE Timing(u)'
  BY <1>1 DEF StartBatch, StartOnDemand, PostTask
<1>2. ASSUME NEW t \in Tasks, PostRaises(t) PROVE Timing(u)'
  BY <1>2 DEF PostRaises
<1>3. ASSUME NEW t \in Tasks, Track(t) PROVE Timing(u)'
  BY <1>3 DEF Track
<1>4. ASSUME NEW t \in Tasks, LoopHead(t) PROVE Timing(u)'
  BY <1>4 DEF LoopHead
<1>5. ASSUME NEW t \in Tasks, PollPending(t) PROVE Timing(u)'
  <2>1. CASE u # t
    BY <1>5, <2>1 DEF PollPending
  <2>2. CASE u = t
    <3>1. /\ pc[u] = "poll" /\ pc'[u] = "loop"
          /\ age' = age /\ op' = op /\ tracked' = tracked
      BY <1>5, <2>2 DEF PollPending
    <3>2. age[u] <= Deadline(u) + PollMax
      BY <3>1
    <3>3. CASE u \notin seen /\ u \in seen' /\ left'[u] = GenTimeout
      BY <3>1, <3>2, <3>3
    <3>4. CASE seen' = seen /\ left'[u] = left[u]
      BY <3>1, <3>2, <3>4
    <3>5. CASE /\ seen' = seen
               /\ left'[u] = IF age[u] < GenTimeout THEN GenTimeout - age[u] ELSE 0
      BY <1>c, <3>1, <3>2, <3>5
    <3> QED
      BY <1>5, <2>2, <3>3, <3>4, <3>5 DEF PollPending
  <2> QED BY <2>1, <2>2
<1>6. ASSUME NEW t \in Tasks, PollTerminal(t) PROVE Timing(u)'
  BY <1>6 DEF PollTerminal
<1>7. ASSUME NEW t \in Tasks, PollExhausted(t) \/ Cancel(t) PROVE Timing(u)'
  BY <1>7 DEF PollExhausted, Cancel
<1>8. ASSUME NEW t \in Tasks, WriteAnswer(t) \/ ReportFailure(t) PROVE Timing(u)'
  BY <1>8 DEF WriteAnswer, ReportFailure
<1>9. ASSUME NEW t \in Tasks, Cleanup(t) PROVE Timing(u)'
  BY <1>9 DEF Cleanup, AfterCleanup
<1>10. CASE SweepDelete
  BY <1>10 DEF SweepDelete
<1>11. CASE Crash
  BY <1>11 DEF Crash
<1>12. CASE Tick
  <2>1. /\ pc' = pc /\ seen' = seen /\ tracked' = tracked
        /\ left'[u] = IF pc[u] = "poll" /\ left[u] > 0 THEN left[u] - 1 ELSE left[u]
        /\ op'[u] = IF pc[u] \in Looping \cup Handling THEN op[u] + 1 ELSE op[u]
        /\ age'[u] \in {age[u], age[u] + 1}
        /\ u \notin tracked /\ pc[u] \notin Looping => age'[u] = age[u]
        /\ pc[u] # "loop"
        /\ pc[u] = "poll" => op[u] < PollMax
        /\ pc[u] \in Handling => op[u] < HandleMax
    BY <1>12 DEF Tick, Due
  <2>2. CASE pc[u] \in Pre
    BY <2>1, <2>2
  <2>3. CASE pc[u] = "poll"
    BY <2>1, <2>3
  <2>4. CASE pc[u] \in Handling
    BY <2>1, <2>4
  <2> QED BY <2>1, <2>2, <2>3, <2>4
<1>13. CASE UNCHANGED <<dispatcher, tracked>>
  BY <1>13
<1> QED
  BY <1>1, <1>2, <1>3, <1>4, <1>5, <1>6, <1>7, <1>8, <1>9, <1>10, <1>11, <1>12, <1>13
  DEF Next, DispatcherStep, SweepStep, SweepPick, SweepCheck, SweepWrite,
      CamsStep, CamsForget, vars

\* A dispatcher that has ended does not come back.
LEMMA EndedStays ==
    ASSUME Types, [Next]_vars, NEW u \in Tasks, pc[u] \in Ended
    PROVE  pc'[u] = pc[u]
<1>1. pc \in [Tasks -> {"idle"} \cup Live \cup Ended]
  BY DEF Types, TypeOK
<1> USE <1>1 DEF Live, Looping, Handling, Ended, Goto, dispatcher
<1>2. ASSUME NEW t \in Tasks, DispatcherStep(t) \/ StartBatch(t) \/ StartOnDemand(t)
      PROVE  pc'[u] = pc[u]
  <2>1. pc[t] \notin Ended
    BY <1>2 DEF DispatcherStep, StartBatch, StartOnDemand, PostTask, PostRaises, Track,
       LoopHead, PollPending, PollTerminal, PollExhausted, Cancel, WriteAnswer, Cleanup,
       ReportFailure
  <2>2. \E x : Goto(t, x)
    BY <1>2 DEF DispatcherStep, StartBatch, StartOnDemand, PostTask, PostRaises, Track,
       LoopHead, PollPending, PollTerminal, PollExhausted, Cancel, WriteAnswer, Cleanup,
       ReportFailure
  <2> QED BY <2>1, <2>2
<1>3. CASE Crash
  BY <1>3 DEF Crash
<1>4. CASE UNCHANGED pc
  BY <1>4
<1> QED
  BY <1>2, <1>3, <1>4
  DEF Next, SweepStep, SweepPick, SweepCheck, SweepWrite, SweepDelete,
      CamsStep, CamsForget, Tick, vars

LEMMA SweepInvStep ==
    ASSUME SweepTimingOK, Types, TimingInv, SweepInv, [Next]_vars
    PROVE  SweepInv'
<1>1. ASSUME NEW t \in Tasks, SweepPick(t) PROVE SweepInv'
  <2>1. t \in tracked /\ age[t] >= Stale
    BY <1>1 DEF SweepPick
  <2>2. Timing(t) /\ age[t] \in Nat /\ op[t] \in Nat
    BY DispatchAssumption DEF TimingInv, Types, TypeOK, Stale
  <2>3. pc[t] \in {"idle"} \cup Live \cup Ended
    BY DEF Types, TypeOK
  <2>4. pc[t] \in Ended
    BY <2>1, <2>2, <2>3, DispatchAssumption
    DEF Timing, Deadline, Stale, SweepTimingOK, Pre, Live, Looping, Handling
  <2> QED BY <1>1, <2>4 DEF SweepPick, SweepInv, dispatcher
<1>2. ASSUME SweepStep PROVE SweepInv'
  <2>1. sweep # SweepIdle /\ pc' = pc
    BY <1>2 DEF SweepStep, SweepCheck, SweepWrite, SweepDelete, SweepIdle, dispatcher
  <2>2. sweep \in [task : Tasks \cup {NoTask}, step : SweepSteps]
    BY DEF Types, TypeOK
  <2>3. sweep' = SweepIdle \/ sweep'.task = sweep.task
    BY <1>2, <2>2 DEF SweepStep, SweepCheck, SweepWrite, SweepDelete
  <2> QED BY <2>1, <2>3 DEF SweepInv
<1>3. CASE sweep' = SweepIdle
  BY <1>3 DEF SweepInv
<1>4. CASE sweep' = sweep
  BY <1>4, EndedStays DEF SweepInv
<1> QED
  BY <1>1, <1>2, <1>3, <1>4
  DEF Next, DispatcherStep, StartBatch, StartOnDemand, PostTask, PostRaises, Track,
      LoopHead, PollPending, PollTerminal, PollExhausted, Cancel, WriteAnswer, Cleanup,
      ReportFailure, CamsStep, CamsForget, Crash, Tick, vars

\* The sweep leaves the record of a dispatcher that is still at work alone,
\* when the buffer covers two late polls and the handling of the answer.
THEOREM DispatchSweepSparesLive ==
    ASSUME SweepTimingOK PROVE Spec => []SweepSparesLive
<1>1. SweepInv => SweepSparesLive
  BY DEF SweepInv, SweepSparesLive
<1>2. Init => Types /\ TimingInv /\ SweepInv
  BY TypesInit, TimingInit
<1>3. Types /\ TimingInv /\ SweepInv /\ [Next]_vars => (Types /\ TimingInv /\ SweepInv)'
  BY TypesStep, TimingStep, SweepInvStep
<1> QED
  BY <1>1, <1>2, <1>3, PTL DEF Spec

-----------------------------------------------------------------------------
(* The two writers of a row agree with CAMS, so no answer is lost and no   *)
(* complete row is set back.                                               *)

\* A recorded task keeps its record until its dispatcher has ended, or has
\* an answer stored, or has none to store.
Keeps(t) == \/ pc[t] \in {"loop", "poll", "write", "keep"}
            \/ pc[t] = "fail" /\ answer[t] # "none"

Answers(t) ==
    /\ answer[t] = "complete" => cams[t] \in {"completed", "gone"}
    /\ answer[t] = "failed" => cams[t] \in {"insufficient", "gone"}
    /\ answer[t] # "none" => pc[t] \in {"write", "delOk", "keep", "fail"} \cup Ended
    /\ pc[t] \in Pre => t \notin recorded /\ row[t] # "complete"
    /\ pc[t] = "delOk" => row[t] = answer[t]
    /\ Keeps(t) /\ t \in recorded => t \in tracked
    /\ row[t] = "complete" /\ cams[t] # "gone" => cams[t] = "completed"
    /\ pc[t] \in Ended /\ answer[t] # "none" /\ t \in recorded =>
          row[t] = answer[t] \/ t \in tracked \/ cams[t] = "gone"

AnswersInv == \A t \in Tasks : Answers(t)

\* What the sweep carries from one of its steps to the next.
Carried ==
    /\ sweep.step = "complete" => cams[sweep.task] \in {"completed", "gone"}
    /\ sweep.step = "failed" => cams[sweep.task] \in Terminal \ {"completed"}
    /\ sweep.step = "delete" /\ answer[sweep.task] # "none" /\ cams[sweep.task] # "gone" =>
          row[sweep.task] = answer[sweep.task]

SweepCarries == sweep # SweepIdle => Carried

LEMMA AnswersInit == Init => AnswersInv /\ SweepCarries
BY DEF Init, AnswersInv, Answers, SweepCarries, Keeps, Ended

LEMMA AnswersStep ==
    ASSUME Types, SweepInv, AnswersInv, SweepCarries, [Next]_vars
    PROVE  AnswersInv'
<1> SUFFICES ASSUME NEW u \in Tasks PROVE Answers(u)'
  BY DEF AnswersInv
<1>a. Answers(u)
  BY DEF AnswersInv
<1>b. /\ pc \in [Tasks -> {"idle"} \cup Live \cup Ended]
      /\ answer \in [Tasks -> {"none", "complete", "failed"}]
      /\ cams \in [Tasks -> CamsStates]
      /\ row \in [Tasks -> {"absent", "pending", "complete", "failed"}]
  BY DEF Types, TypeOK
<1>c. pc[u] = "write" => answer[u] # "none"
  BY DEF Types
<1> USE <1>a, <1>b DEF Answers, Keeps, Pre, Live, Looping, Handling, Ended, Goto, dispatcher
<1>1. ASSUME NEW t \in Tasks, StartBatch(t) \/ StartOnDemand(t) PROVE Answers(u)'
  BY <1>1 DEF StartBatch, StartOnDemand
<1>2. ASSUME NEW t \in Tasks, PostTask(t) \/ PostRaises(t) PROVE Answers(u)'
  BY <1>2 DEF PostTask, PostRaises
<1>3. ASSUME NEW t \in Tasks, Track(t) PROVE Answers(u)'
  BY <1>3 DEF Track
<1>4. ASSUME NEW t \in Tasks, LoopHead(t) \/ PollPending(t) \/ PollExhausted(t)
      PROVE  Answers(u)'
  BY <1>4 DEF LoopHead, PollPending, PollExhausted
<1>5. ASSUME NEW t \in Tasks, PollTerminal(t) PROVE Answers(u)'
  BY <1>5 DEF PollTerminal, Verdict, Terminal
<1>6. ASSUME NEW t \in Tasks, Cancel(t) PROVE Answers(u)'
  BY <1>6 DEF Cancel
<1>7. ASSUME NEW t \in Tasks, WriteAnswer(t) PROVE Answers(u)'
  BY <1>7, <1>c DEF WriteAnswer
<1>8. ASSUME NEW t \in Tasks, ReportFailure(t) PROVE Answers(u)'
  BY <1>8 DEF ReportFailure
<1>9. ASSUME NEW t \in Tasks, Cleanup(t) PROVE Answers(u)'
  BY <1>9 DEF Cleanup, AfterCleanup
<1>10. CASE SweepWrite
  <2>1. sweep # SweepIdle /\ sweep.step \in {"complete", "failed"}
    BY <1>10 DEF SweepWrite, SweepIdle
  <2>2. sweep.task \in Tasks /\ pc[sweep.task] \in Ended /\ Carried
    BY <2>1 DEF SweepInv, SweepCarries
  <2>3. /\ pc' = pc /\ answer' = answer /\ cams' = cams
        /\ recorded' = recorded /\ tracked' = tracked
        /\ row' = row \/ row' = [row EXCEPT ![sweep.task] = sweep.step]
    BY <1>10 DEF SweepWrite
  <2>4. CASE u # sweep.task \/ row' = row
    BY <2>2, <2>3, <2>4
  <2>5. CASE u = sweep.task /\ row'[u] = sweep.step
    <3>1. answer[u] # "none" /\ cams[u] # "gone" => row'[u] = answer[u]
      BY <2>1, <2>2, <2>5 DEF Carried, Terminal
    <3>2. row'[u] = "complete" /\ cams[u] # "gone" => cams[u] = "completed"
      BY <2>1, <2>2, <2>5 DEF Carried
    <3> QED BY <2>2, <2>3, <2>5, <3>1, <3>2
  <2> QED BY <2>2, <2>3, <2>4, <2>5
<1>11. CASE SweepDelete
  <2>1. sweep # SweepIdle /\ sweep.step = "delete"
    BY <1>11 DEF SweepDelete, SweepIdle
  <2>2. sweep.task \in Tasks /\ pc[sweep.task] \in Ended /\ Carried
    BY <2>1 DEF SweepInv, SweepCarries
  <2> QED BY <1>11, <2>1, <2>2 DEF SweepDelete, Carried
<1>12. ASSUME NEW t \in Tasks, CamsStep(t) \/ CamsForget(t) PROVE Answers(u)'
  BY <1>12 DEF CamsStep, CamsForget
<1>13. CASE Crash
  BY <1>13, <1>c DEF Crash
<1>14. CASE UNCHANGED <<pc, answer, tracked, recorded, cams, row>>
  BY <1>14
<1> QED
  BY <1>1, <1>2, <1>3, <1>4, <1>5, <1>6, <1>7, <1>8, <1>9, <1>10, <1>11, <1>12, <1>13, <1>14
  DEF Next, DispatcherStep, SweepStep, SweepPick, SweepCheck, Tick, vars

LEMMA SweepCarriesStep ==
    ASSUME Types, SweepInv, AnswersInv, SweepCarries, [Next]_vars
    PROVE  SweepCarries'
<1>a. SUFFICES ASSUME sweep' # SweepIdle PROVE Carried'
  BY DEF SweepCarries
<1>b. sweep \in [task : Tasks \cup {NoTask}, step : SweepSteps] /\ cams \in [Tasks -> CamsStates]
  BY DEF Types, TypeOK
<1>1. ASSUME NEW t \in Tasks, SweepPick(t) PROVE Carried'
  BY <1>1 DEF SweepPick, Carried
<1>2. CASE SweepCheck
  <2>1. /\ cams[sweep.task] \in Terminal /\ cams' = cams
        /\ sweep' = [sweep EXCEPT !.step = Verdict(sweep.task)]
    BY <1>2, <1>a DEF SweepCheck
  <2>2. sweep'.task = sweep.task /\ sweep'.step = Verdict(sweep.task)
    <3> DEFINE v == Verdict(sweep.task)
    <3> HIDE DEF v
    <3>1. sweep' = [sweep EXCEPT !.step = v]
      BY <2>1 DEF v
    <3>2. sweep'.task = sweep.task /\ sweep'.step = v
      BY <3>1, <1>b
    <3> QED BY <3>2 DEF v
  <2> QED BY <2>1, <2>2 DEF Carried, Verdict
<1>3. CASE SweepWrite
  <2>1. sweep # SweepIdle /\ sweep.step \in {"complete", "failed"}
    BY <1>3 DEF SweepWrite, SweepIdle
  <2>2. sweep.task \in Tasks /\ Carried /\ Answers(sweep.task)
    BY <2>1 DEF SweepInv, SweepCarries, AnswersInv
  <2>3. row \in [Tasks -> {"absent", "pending", "complete", "failed"}]
    BY DEF Types, TypeOK
  <2>4. answer[sweep.task] \in {"none", "complete", "failed"}
    BY <2>2 DEF Types, TypeOK
  <2>5. /\ row'[sweep.task] = sweep.step /\ sweep'.task = sweep.task /\ sweep'.step = "delete"
        /\ answer' = answer /\ cams' = cams
    BY <1>3, <1>a, <1>b, <2>2, <2>3 DEF SweepWrite, dispatcher
  <2> QED BY <2>1, <2>2, <2>4, <2>5 DEF Carried, Answers, Terminal
<1>4. CASE sweep' = sweep /\ answer' = answer /\ row' = row /\ cams' = cams
  BY <1>4, <1>a DEF SweepCarries, Carried
<1>5. ASSUME sweep' = sweep, NEW t \in Tasks, DispatcherStep(t) \/ StartBatch(t) \/ StartOnDemand(t)
      PROVE  Carried'
  <2>1. pc[t] \notin Ended
    BY <1>5 DEF DispatcherStep, StartBatch, StartOnDemand, PostTask, PostRaises, Track,
       LoopHead, PollPending, PollTerminal, PollExhausted, Cancel, WriteAnswer, Cleanup,
       ReportFailure, Ended, Live, Looping, Handling
  <2>2. sweep.task \in Tasks /\ sweep.task # t /\ Carried
    BY <1>a, <1>5, <2>1 DEF SweepInv, SweepCarries
  <2>3. /\ answer \in [Tasks -> {"none", "complete", "failed"}]
        /\ row \in [Tasks -> {"absent", "pending", "complete", "failed"}]
    BY DEF Types, TypeOK
  <2>4. /\ answer'[sweep.task] = answer[sweep.task]
        /\ cams'[sweep.task] = cams[sweep.task]
        /\ row'[sweep.task] = row[sweep.task]
    BY <1>5, <1>b, <2>2, <2>3
    DEF DispatcherStep, StartBatch, StartOnDemand, PostTask, PostRaises, Track,
       LoopHead, PollPending, PollTerminal, PollExhausted, Cancel, WriteAnswer, Cleanup,
       ReportFailure, dispatcher
  <2> QED BY <1>5, <2>2, <2>4 DEF Carried
<1>6. ASSUME NEW t \in Tasks, CamsStep(t) \/ CamsForget(t) PROVE Carried'
  <2>1. sweep' = sweep /\ answer' = answer /\ row' = row
    BY <1>6 DEF CamsStep, CamsForget, dispatcher
  <2>2. sweep.task \in Tasks /\ Carried /\ Answers(sweep.task)
    BY <1>a, <2>1 DEF SweepInv, SweepCarries, AnswersInv
  <2>3. answer[sweep.task] \in {"none", "complete", "failed"}
    BY <2>2 DEF Types, TypeOK
  <2>4. cams'[sweep.task] = cams[sweep.task] \/ cams'[sweep.task] = "gone"
        \/ cams[sweep.task] \in {"queued", "generating"}
    BY <1>6, <1>b, <2>2 DEF CamsStep, CamsForget
  <2> QED BY <2>1, <2>2, <2>3, <2>4, <1>6, <1>b DEF Carried, Answers, Terminal, CamsStep, CamsForget
<1> QED
  BY <1>a, <1>1, <1>2, <1>3, <1>4, <1>5, <1>6
  DEF Next, DispatcherStep, StartBatch, StartOnDemand, PostTask, PostRaises, Track,
      LoopHead, PollPending, PollTerminal, PollExhausted, Cancel, WriteAnswer, Cleanup,
      ReportFailure, SweepStep, SweepDelete, Crash, Tick, vars, dispatcher

Coherent == Types /\ TimingInv /\ SweepInv /\ AnswersInv /\ SweepCarries

LEMMA CoherentInit == Init => Coherent
BY TypesInit, TimingInit, AnswersInit DEF Coherent

LEMMA CoherentStep == SweepTimingOK /\ Coherent /\ [Next]_vars => Coherent'
BY TypesStep, TimingStep, SweepInvStep, AnswersStep, SweepCarriesStep DEF Coherent

\* An answer that reached this process is in the broker, is being written,
\* or can still be found by the sweep, unless CAMS lost the task.
THEOREM DispatchAnswerNotLost ==
    ASSUME SweepTimingOK PROVE Spec => []AnswerNotLost
<1>1. Coherent => AnswerNotLost
  <2> SUFFICES ASSUME Coherent, NEW t \in recorded, answer[t] # "none"
               PROVE  \/ row[t] = answer[t] \/ pc[t] = "write"
                      \/ t \in tracked \/ cams[t] = "gone"
    BY DEF AnswerNotLost
  <2>1. t \in Tasks
    BY DEF Coherent, Types, TypeOK
  <2> QED BY <2>1 DEF Coherent, AnswersInv, Answers, Keeps
<1> QED
  BY <1>1, CoherentInit, CoherentStep, PTL DEF Spec

\* Neither the dispatcher nor a later sweep sets a complete changelog of the
\* session pipeline back while CAMS knows its task.
THEOREM DispatchCompleteStays ==
    ASSUME SweepTimingOK PROVE Spec => CompleteStays
<1>1. ASSUME Coherent, [Next]_vars, NEW t \in Tasks \ placed,
             row[t] = "complete", cams[t] # "gone"
      PROVE  row'[t] = "complete"
  <2>1. /\ Answers(t) /\ cams[t] = "completed"
        /\ row \in [Tasks -> {"absent", "pending", "complete", "failed"}]
        /\ answer[t] \in {"none", "complete", "failed"}
        /\ pc[t] = "write" => answer[t] # "none"
    BY <1>1 DEF Coherent, AnswersInv, Answers, Types, TypeOK
  <2>2. CASE SweepWrite
    <3>1. sweep # SweepIdle /\ sweep.step \in {"complete", "failed"}
      BY <2>2 DEF SweepWrite, SweepIdle
    <3>2. Carried
      BY <1>1, <3>1 DEF Coherent, SweepCarries
    <3> QED BY <1>1, <2>1, <2>2, <3>1, <3>2 DEF SweepWrite, Carried
  <2>3. ASSUME NEW u \in Tasks, StartOnDemand(u) \/ ReportFailure(u) \/ WriteAnswer(u)
        PROVE  row'[t] = "complete"
    BY <1>1, <2>1, <2>3 DEF StartOnDemand, ReportFailure, WriteAnswer, Answers, Pre
  <2>4. CASE row' = row
    BY <1>1, <2>4
  <2> QED
    BY <1>1, <2>2, <2>3, <2>4
    DEF Next, DispatcherStep, StartBatch, PostTask, PostRaises, Track,
      LoopHead, PollPending, PollTerminal, PollExhausted, Cancel, Cleanup, SweepPick,
      SweepStep, SweepCheck, SweepDelete, CamsStep, CamsForget, Crash, Tick, vars, dispatcher
<1>2. Coherent /\ [Next]_vars =>
        [\A t \in Tasks \ placed :
            row[t] = "complete" /\ cams[t] # "gone" => row'[t] = "complete"]_vars
  BY <1>1
<1> QED
  BY <1>2, CoherentInit, CoherentStep, PTL DEF Spec, CompleteStays
=============================================================================
