--------------------------- MODULE ScheduleProofs ---------------------------
(***************************************************************************)
(* Theorems about Schedule, for any states, manifests, hosts, windows and  *)
(* bounds.                                                                 *)
(*                                                                         *)
(* OneJobEach is inductive as it stands.  NightlyRecorded needs what the   *)
(* review carries from its reads to its registration: the states it knows  *)
(* to be nightly have their override, and those it escalates have it or    *)
(* are still to be stored.  That an undisturbed review demotes nobody      *)
(* needs the converse: no state with a job of its own is missed by it.     *)
(***************************************************************************)
EXTENDS Schedule, TLAPS

\* What the review knows is recorded in Redis.
KnownStored ==
    /\ known \subseteq stored
    /\ pc = "storing" => todo \subseteq escalate /\ escalate \subseteq stored \union todo

RecordInv == NightlyRecorded /\ KnownStored

\* A state with a job of its own is known to an undisturbed review that has
\* read it.
NobodyMissed ==
    /\ pc = "reading" /\ ~disturbed => own \intersect Enrolled \subseteq known \union todo
    /\ pc = "storing" /\ ~disturbed => own \intersect Enrolled \subseteq known

OwnAllowed == own \intersect excluded = {}

DemotionInv == RecordInv /\ NobodyMissed /\ OwnAllowed

-----------------------------------------------------------------------------
(* One job for each state.                                                 *)

\* A registration leaves every listed state in one job.
LEMMA RegisterSplits ==
    ASSUME NEW cadences, Register(cadences) PROVE OneJobEach'
BY DEF Register, OneJobEach, OwnAfter, BatchAfter, Allowed, Enrolled, ManifestAnswers

\* Every step keeps it; a restart begins with an empty `own'.
LEMMA OneJobStep == OneJobEach /\ [Next]_vars => OneJobEach'
<1> SUFFICES ASSUME OneJobEach, [Next]_vars PROVE OneJobEach'
  OBVIOUS
<1>1. CASE Apply
  BY <1>1, RegisterSplits DEF Apply, OneJobEach, jobVars
<1>2. CASE Restart
  BY <1>2 DEF Restart, OneJobEach
<1>3. CASE UNCHANGED jobVars
  BY <1>3 DEF OneJobEach, jobVars
<1> QED
  BY <1>1, <1>2, <1>3
  DEF Next, ReviewStep, ReviewStarts, ReadsEnd, Read, ReadFails, ReadAs, Store,
      StoreFails, ApplyRaises, RunRecorded, Pull, vars

\* Every secondary state of the last registration is in the batch or has a job
\* of its own, and none is in both, whatever is escalated, misread or relisted
\* (_register_openstates_scrape_jobs).
THEOREM ScheduleOneJobEach == Spec => []OneJobEach
<1>1. Init => OneJobEach
  BY DEF Init, OneJobEach
<1> QED
  BY <1>1, OneJobStep, PTL DEF Spec

-----------------------------------------------------------------------------
(* Types.                                                                  *)

\* A host registers no job that a host with every gate open would not.
LEMMA IdsGrow ==
    ASSUME NEW host, host \subseteq Gates, NEW gate, NEW ids
    PROVE  Ids(host, gate, ids) \subseteq Ids(Gates, gate, ids)
BY DEF Ids

LEMMA ScrapeIds ==
    ASSUME NEW host, host \subseteq Gates
    PROVE  ScrapeJobs(host) \subseteq ScrapeJobs(Gates)
<1>1. FixedScrapeJobs(host) \subseteq FixedScrapeJobs(Gates)
  BY IdsGrow DEF FixedScrapeJobs
<1> QED
  BY <1>1 DEF ScrapeJobs, Ids

LEMMA BootIds ==
    ASSUME NEW host, host \subseteq Gates
    PROVE  BootJobs(host) \subseteq BootJobs(Gates)
<1>1. /\ BillAndLegislatorJobs(host) \subseteq BillAndLegislatorJobs(Gates)
      /\ BioAndOrganizationJobs(host) \subseteq BioAndOrganizationJobs(Gates)
      /\ DdpApiJobs(host) \subseteq DdpApiJobs(Gates)
      /\ VotebotEvalJob(host) \subseteq VotebotEvalJob(Gates)
      /\ ApiHealthJob(host) \subseteq ApiHealthJob(Gates)
      /\ CheckoutJobs(host) \subseteq CheckoutJobs(Gates)
  BY DEF Ids, BillAndLegislatorJobs, BioAndOrganizationJobs, DdpApiJobs, VotebotEvalJob,
     ApiHealthJob, CheckoutJobs
<1>2. /\ ArchiveJobs(host) \subseteq ArchiveJobs(Gates)
      /\ MiCookieJob(host) \subseteq MiCookieJob(Gates)
      /\ GrantbotJobs(host) \subseteq GrantbotJobs(Gates)
      /\ SlackAndDockerJobs(host) \subseteq SlackAndDockerJobs(Gates)
  BY DEF Ids, ArchiveJobs, MiCookieJob, GrantbotJobs, SlackAndDockerJobs
<1> QED
  BY <1>1, <1>2, ScrapeIds DEF BootJobs

LEMMA ScrapesBoot == ScrapeJobs(Gates) \subseteq BootJobs(Gates)
BY DEF BootJobs

LEMMA EnrolledType == manifest \subseteq Secondary => Enrolled \subseteq Secondary
BY DEF Enrolled

LEMMA TypesInit == Init => TypeOK
<1> SUFFICES ASSUME Init PROVE TypeOK
  OBVIOUS
<1>1. on \in Hosts /\ excluded \subseteq Excludable
  BY DEF Init
<1>2. jobs \subseteq BootJobs(Gates)
  BY BootIds, ScheduleAssumption DEF Init
<1>3. manifest \subseteq Secondary /\ readable \in BOOLEAN
  BY DEF Init
<1>4. layout \subseteq Secondary /\ batch \subseteq Secondary /\ own \subseteq Secondary
  BY <1>3, EnrolledType DEF Init
<1>5. stored \subseteq States /\ flDaily \in BOOLEAN /\ report \subseteq States
  BY DEF Init, States
<1>6. history \in [States -> Seq(Outcomes)]
  BY DEF Init
<1>7. /\ pc \in {"idle", "reading", "storing"} /\ disturbed \in BOOLEAN
      /\ todo \subseteq States /\ known \subseteq States /\ escalate \subseteq States
  BY DEF Init
<1>8. faults \in 0..MaxFaults /\ pulls \in 0..MaxPulls /\ restarts \in 0..MaxRestarts
  BY ScheduleAssumption DEF Init
<1> QED
  BY <1>1, <1>2, <1>3, <1>4, <1>5, <1>6, <1>7, <1>8 DEF TypeOK

LEMMA TypesStep == TypeOK /\ [Next]_vars => TypeOK'
<1> SUFFICES ASSUME TypeOK, [Next]_vars PROVE TypeOK'
  OBVIOUS
<1> USE DEF configVars, jobVars, redisVars, checkoutVars, reviewVars, boundVars
<1>e. Enrolled \subseteq Secondary
  BY EnrolledType DEF TypeOK
<1>f. faults < MaxFaults /\ faults' = faults + 1 => faults' \in 0..MaxFaults
  BY ScheduleAssumption DEF TypeOK
<1>1. CASE ReviewStarts
  BY <1>1, <1>e DEF ReviewStarts, TypeOK, Floors, States
<1>2. CASE ReadsEnd
  BY <1>2 DEF ReadsEnd, TypeOK
<1>3. ASSUME NEW j \in States, NEW o, NEW r, ReadAs(j, o, r), faults' \in 0..MaxFaults,
             disturbed' \in BOOLEAN
      PROVE  TypeOK'
  <2>1. known' \subseteq States /\ escalate' \subseteq States /\ todo' \subseteq States
    BY <1>3 DEF ReadAs, TypeOK
  <2> QED BY <1>3, <2>1 DEF ReadAs, TypeOK
<1>4. ASSUME NEW j \in States, Read(j) PROVE TypeOK'
  BY <1>3, <1>4 DEF Read, TypeOK
<1>5. ASSUME NEW j \in States, ReadFails(j) PROVE TypeOK'
  BY <1>3, <1>5, <1>f DEF ReadFails
<1>6. ASSUME NEW j \in States, Store(j) PROVE TypeOK'
  BY <1>6 DEF Store, TypeOK
<1>7. ASSUME NEW j \in States, StoreFails(j) PROVE TypeOK'
  BY <1>7, <1>f DEF StoreFails, TypeOK
<1>8. CASE Apply
  <2>1. CASE escalate # {}
    <3>1. Register(known \union escalate)
      BY <1>8, <2>1 DEF Apply
    <3>2. jobs' \subseteq BootJobs(Gates)
      BY <3>1, ScrapeIds, ScrapesBoot, ScheduleAssumption DEF Register, TypeOK
    <3>3. /\ own' \subseteq Secondary /\ batch' \subseteq Secondary
          /\ layout' \subseteq Secondary /\ report' \subseteq States
      BY <3>1, <1>e DEF Register, OwnAfter, BatchAfter, Allowed, Floors, States, TypeOK
    <3>4. flDaily' \in BOOLEAN
      BY <3>1 DEF Register, FloridaDaily
    <3> QED BY <1>8, <3>2, <3>3, <3>4 DEF Apply, Idle, TypeOK
  <2>2. CASE escalate = {}
    BY <1>8, <2>2 DEF Apply, Idle, TypeOK
  <2> QED BY <2>1, <2>2
<1>9. CASE ApplyRaises
  BY <1>9, <1>f DEF ApplyRaises, Idle, TypeOK
<1>10. ASSUME NEW j \in Secondary, NEW outcome \in Outcomes, RunRecorded(j, outcome)
       PROVE  TypeOK'
  <2> DEFINE longer == Append(history[j], outcome)
  <2>1. j \in States /\ history[j] \in Seq(Outcomes)
    BY DEF States, TypeOK
  <2>2. longer \in Seq(Outcomes) /\ longer # << >>
    <3>1. outcome \in Outcomes
      BY <1>10
    <3>2. Len(longer) = Len(history[j]) + 1 /\ Len(history[j]) \in Nat
      BY <2>1
    <3>3. longer \in Seq(Outcomes)
      BY <2>1, <3>1
    <3> QED BY <3>2, <3>3
  <2>3. Tail(longer) \in Seq(Outcomes)
    BY <2>2
  <2>4. \E s \in Seq(Outcomes) : history' = [history EXCEPT ![j] = s]
    BY <1>10, <2>2, <2>3 DEF RunRecorded
  <2>5. history' \in [States -> Seq(Outcomes)]
    BY <2>1, <2>4 DEF TypeOK
  <2> QED BY <1>10, <2>5 DEF RunRecorded, TypeOK
<1>11. CASE Pull
  <2>1. manifest' \subseteq Secondary /\ readable' \in BOOLEAN
    BY <1>11, ScheduleAssumption DEF Pull, TypeOK
  <2>2. pulls' \in 0..MaxPulls
    BY <1>11, ScheduleAssumption DEF Pull, TypeOK
  <2>3. disturbed' \in BOOLEAN
    BY <1>11 DEF Pull
  <2> QED BY <1>11, <2>1, <2>2, <2>3 DEF Pull, TypeOK
<1>12. CASE Restart
  <2>1. jobs' \subseteq BootJobs(Gates)
    BY <1>12, BootIds, ScheduleAssumption DEF Restart
  <2>2. layout' \subseteq Secondary /\ batch' \subseteq Secondary
    BY <1>12, <1>e DEF Restart
  <2>3. restarts' \in 0..MaxRestarts
    BY <1>12, ScheduleAssumption DEF Restart, TypeOK
  <2>4. /\ on' \in Hosts /\ excluded' \subseteq Excludable /\ own' = {} /\ flDaily' = FALSE
        /\ report' = {} /\ pc' = "idle" /\ todo' = {} /\ known' = {} /\ escalate' = {}
        /\ disturbed' = FALSE
        /\ stored' = stored /\ history' = history /\ manifest' = manifest
        /\ readable' = readable /\ faults' = faults /\ pulls' = pulls
    BY <1>12 DEF Restart, Idle
  <2> QED BY <2>1, <2>2, <2>3, <2>4 DEF TypeOK
<1>13. CASE UNCHANGED vars
  BY <1>13 DEF vars, TypeOK
<1> QED
  BY <1>1, <1>2, <1>4, <1>5, <1>6, <1>7, <1>8, <1>9, <1>10, <1>11, <1>12, <1>13
  DEF Next, ReviewStep

\* The variables of the schedule keep their types; every job id is
\* one of the registration, every run history a sequence of outcomes.
THEOREM ScheduleTypes == Spec => []TypeOK
BY TypesInit, TypesStep, PTL DEF Spec

-----------------------------------------------------------------------------
(* Nightly jobs are recorded.                                              *)

\* Registering recorded cadences gives recorded jobs.
LEMMA RegisterRecorded ==
    ASSUME NightlyRecorded, NEW cadences, cadences \subseteq stored,
           Register(cadences), stored' = stored
    PROVE  NightlyRecorded'
BY DEF Register, NightlyRecorded, OwnAfter, FloridaDaily, Allowed

\* A read adds a state to those known to be nightly only on an override.
LEMMA ReadKnows ==
    ASSUME NEW j, NEW records, NEW override, ReadAs(j, override, records)
    PROVE  known' = IF override THEN known \union {j} ELSE known
BY DEF ReadAs, Review, Resolved

\* Every step keeps the record; Redis never loses an override.
LEMMA RecordStep == RecordInv /\ [Next]_vars => RecordInv'
<1> SUFFICES ASSUME RecordInv, [Next]_vars PROVE RecordInv'
  OBVIOUS
<1> USE DEF RecordInv, KnownStored
<1>1. CASE Apply
  <2>1. known \union escalate \subseteq stored
    BY <1>1 DEF Apply
  <2>2. NightlyRecorded'
    BY <1>1, <2>1, RegisterRecorded DEF Apply, NightlyRecorded, jobVars, redisVars
  <2> QED BY <1>1, <2>2 DEF Apply, Idle
<1>2. CASE Restart
  BY <1>2 DEF Restart, Idle, NightlyRecorded
<1>3. ASSUME NEW j \in States, NEW override, NEW records, override => j \in stored,
             ReadAs(j, override, records)
      PROVE  RecordInv'
  <2>1. known' = known \/ (j \in stored /\ known' = known \union {j})
    BY <1>3, ReadKnows
  <2> QED BY <1>3, <2>1 DEF ReadAs, NightlyRecorded, jobVars, redisVars
<1>4. ASSUME NEW j \in States, Read(j) \/ ReadFails(j) PROVE RecordInv'
  BY <1>3, <1>4 DEF Read, ReadFails
<1>5. CASE ReadsEnd
  BY <1>5 DEF ReadsEnd, NightlyRecorded, jobVars, redisVars
<1>6. ASSUME NEW j \in States, Store(j) PROVE RecordInv'
  BY <1>6 DEF Store, NightlyRecorded, jobVars
<1>7. ASSUME NEW j \in States, StoreFails(j) PROVE RecordInv'
  BY <1>7 DEF StoreFails, NightlyRecorded, jobVars
<1>8. CASE ApplyRaises
  BY <1>8 DEF ApplyRaises, Idle, NightlyRecorded, jobVars, redisVars
<1>9. CASE ReviewStarts
  BY <1>9 DEF ReviewStarts, NightlyRecorded, jobVars, redisVars
<1>10. CASE UNCHANGED <<own, flDaily, stored, pc, todo, known, escalate>>
  BY <1>10 DEF NightlyRecorded
<1> QED
  BY <1>1, <1>2, <1>3, <1>4, <1>5, <1>6, <1>7, <1>8, <1>9, <1>10
  DEF Next, ReviewStep, RunRecorded, Pull, vars, jobVars, redisVars, reviewVars

LEMMA RecordInit == Init => RecordInv
BY DEF Init, RecordInv, KnownStored, NightlyRecorded

\* A job of its own, or Florida's daily run, has its override in Redis,
\* whichever read, write or registration failed (_run_cadence_review).
THEOREM ScheduleNightlyRecorded == Spec => []NightlyRecorded
<1>1. RecordInv => NightlyRecorded
  BY DEF RecordInv
<1> QED
  BY <1>1, RecordInit, RecordStep, PTL DEF Spec

-----------------------------------------------------------------------------
(* No demotion.                                                            *)

LEMMA DemotionStep == DemotionInv /\ [Next]_vars => DemotionInv'
<1> SUFFICES ASSUME DemotionInv, [Next]_vars PROVE DemotionInv'
  OBVIOUS
<1>0. RecordInv'
  BY RecordStep DEF DemotionInv
<1>a. own \subseteq stored
  BY DEF DemotionInv, RecordInv, NightlyRecorded
<1> USE <1>0 DEF DemotionInv, NobodyMissed, OwnAllowed, Enrolled, ManifestAnswers
<1>1. CASE Apply
  <2>1. OwnAllowed'
    BY <1>1 DEF Apply, Register, OwnAfter, Allowed, configVars, jobVars
  <2> QED BY <1>1, <2>1 DEF Apply, Idle
<1>2. CASE Restart
  BY <1>2 DEF Restart, Idle
<1>3. ASSUME NEW j \in States, Read(j) PROVE DemotionInv'
  BY <1>3, <1>a DEF Read, ReadAs, Review, Resolved, jobVars, configVars, checkoutVars
<1>4. ASSUME NEW j \in States, ReadFails(j) PROVE DemotionInv'
  BY <1>4 DEF ReadFails, ReadAs, jobVars, configVars
<1>5. CASE ReadsEnd
  BY <1>5 DEF ReadsEnd, jobVars, configVars, checkoutVars
<1>6. ASSUME NEW j \in States, Store(j) \/ StoreFails(j) PROVE DemotionInv'
  BY <1>6 DEF Store, StoreFails, jobVars, configVars, checkoutVars
<1>7. CASE ApplyRaises
  BY <1>7 DEF ApplyRaises, Idle, jobVars, configVars
<1>8. CASE ReviewStarts
  BY <1>8 DEF ReviewStarts, Floors, jobVars, configVars, checkoutVars
<1>9. CASE Pull
  BY <1>9 DEF Pull, jobVars, configVars
<1>10. CASE UNCHANGED <<configVars, jobVars, checkoutVars, reviewVars>>
  BY <1>10 DEF jobVars, configVars, checkoutVars, reviewVars
<1> QED
  BY <1>1, <1>2, <1>3, <1>4, <1>5, <1>6, <1>7, <1>8, <1>9, <1>10
  DEF Next, ReviewStep, RunRecorded, vars

\* A step of an undisturbed review keeps every job of a single state.
LEMMA OwnStep ==
    DemotionInv /\ [Next]_vars => (restarts' = restarts /\ ~disturbed => own \subseteq own')
<1> SUFFICES ASSUME DemotionInv, [Next]_vars, restarts' = restarts, ~disturbed
             PROVE  own \subseteq own'
  OBVIOUS
<1>1. CASE Apply
  <2>1. own \intersect Enrolled \subseteq Allowed(known \union escalate)
    BY <1>1 DEF Apply, DemotionInv, NobodyMissed, OwnAllowed, Allowed
  <2> QED BY <1>1, <2>1 DEF Apply, Register, OwnAfter, jobVars
<1>2. CASE Restart
  BY <1>2, ScheduleAssumption DEF Restart
<1>3. CASE UNCHANGED jobVars
  BY <1>3 DEF jobVars
<1> QED
  BY <1>1, <1>2, <1>3
  DEF Next, ReviewStep, ReviewStarts, ReadsEnd, Read, ReadFails, ReadAs, Store,
      StoreFails, ApplyRaises, RunRecorded, Pull, vars

\* While the process runs, a review that read everything, from one list,
\* takes no nightly job away from a state (_run_cadence_review).
THEOREM ScheduleNeverDemoted == Spec => NeverDemoted
<1>1. Init => DemotionInv
  BY RecordInit DEF Init, DemotionInv, NobodyMissed, OwnAllowed
<1> QED
  BY <1>1, DemotionStep, OwnStep, PTL DEF Spec, NeverDemoted
=============================================================================
