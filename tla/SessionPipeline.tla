-------------------------- MODULE SessionPipeline ---------------------------
(***************************************************************************)
(* The LegBot runs of one process: trigger_scraper_session_pipeline takes  *)
(* the overlap lock of its (jurisdiction, session) and calls               *)
(* run_legbot_pipeline, which runs one bill task per candidate under a     *)
(* process-wide semaphore (pipelines/session_pipeline_runner.py).  Every   *)
(* bill task reads what the broker has, decides what is missing and        *)
(* generates it (pipelines/bill_artifact_generation.py).                   *)
(* run_single_bill_full starts a bill task with neither lock nor           *)
(* semaphore.                                                              *)
(*                                                                         *)
(* LegbotLease shows that the lock is one; here it is atomic.  A row of    *)
(* the broker is an item of a bill: an artifact type, or, for              *)
(* bill_changelog, the newer version of one transition.                    *)
(***************************************************************************)
EXTENDS Naturals, FiniteSets

CONSTANTS
    Calls,        \* calls of the trigger and of run_single_bill_full
    NoCall,       \* the lock is free
    Singles,      \* those of run_single_bill_full
    Retrying,     \* those with retry_failed
    Keys,         \* lock keys, one per (jurisdiction, session)
    KeyOf,        \* Calls -> Keys
    Bills,
    BillsOf,      \* Calls -> candidates of the call
    Plain,        \* artifact types that are one row per bill
    Transitions,  \* versions of a bill that have an archived diff
    Latest,       \* the newest of them
    InitStatus,   \* row statuses the broker may start with
    Slots,        \* session_pipeline_concurrency
    MaxEscapes,   \* bound: replies that are not JSON (ValueError)
    MaxRejects,   \* bound: rows rejected by staff
    MaxCrashes    \* bound: process deaths

Statuses == {"absent", "failed", "rejected", "complete"}

ASSUME PipelineAssumption ==
    /\ NoCall \notin Calls
    /\ Singles \subseteq Calls /\ Retrying \subseteq Calls
    /\ KeyOf \in [Calls -> Keys]
    /\ BillsOf \in [Calls -> SUBSET Bills]
    /\ Plain \cap Transitions = {}
    /\ Latest \in Transitions
    /\ InitStatus \subseteq Statuses
    /\ IsFiniteSet(Calls) /\ IsFiniteSet(Bills)
    /\ Slots \in Nat \ {0}
    /\ MaxEscapes \in Nat /\ MaxRejects \in Nat /\ MaxCrashes \in Nat

VARIABLES
    lock,     \* per key: the call that holds it, or NoCall
    call,     \* per call: idle, running, ended, refused, dead
    pc,       \* per bill task: where _process_bill stands
    todo,     \* per bill task: items it decided to generate
    org,      \* per bill task: its organisation-research task
    row,      \* per bill and item: status of the broker's row
    concept,  \* per bill: concept statements in the broker
    free,     \* permits of the semaphore
    holders,  \* _session_pipeline_active_holders
    escapes, rejects, crashes

vars == <<lock, call, pc, todo, org, row, concept, free, holders, escapes, rejects, crashes>>
bounds == <<escapes, rejects, crashes>>

Sessions == Calls \ Singles
Items    == Plain \cup Transitions
Tasks    == {w \in Calls \X Bills : w[2] \in BillsOf[w[1]]}
TasksOf(c) == {w \in Tasks : w[1] = c}

\* gate .. changelog: inside _process_bill_inner; endOk, endRaise: in the finally
\* block of _process_bill.
Inner   == {"gate", "cover", "depth", "resolve", "plain", "conceptWrite",
            "clCover", "changelog"}
Working == Inner \cup {"endOk", "endRaise"}
PcStates == {"none", "queued", "done", "raised", "dead"} \cup Working

\* The bill tasks that hold a permit.
Inside == {w \in Tasks : w[1] \in Sessions /\ pc[w] \in Working}

TypeOK ==
    /\ lock \in [Keys -> Calls \cup {NoCall}]
    /\ call \in [Calls -> {"idle", "running", "ended", "refused", "dead"}]
    /\ pc \in [Tasks -> PcStates]
    /\ todo \in [Tasks -> SUBSET Items]
    /\ org \in [Tasks -> {"none", "running", "checked", "over", "raised"}]
    /\ row \in [Bills \X Items -> Statuses]
    /\ concept \in [Bills -> BOOLEAN]
    /\ free \in Nat /\ holders \in Nat
    /\ escapes \in 0..MaxEscapes /\ rejects \in 0..MaxRejects /\ crashes \in 0..MaxCrashes

Init ==
    /\ lock = [k \in Keys |-> NoCall]
    /\ call = [c \in Calls |-> "idle"]
    /\ pc = [w \in Tasks |-> "none"]
    /\ todo = [w \in Tasks |-> {}]
    /\ org = [w \in Tasks |-> "none"]
    /\ row \in [Bills \X Items -> InitStatus]
    /\ concept = [b \in Bills |-> FALSE]
    /\ free = Slots /\ holders = 0
    /\ escapes = 0 /\ rejects = 0 /\ crashes = 0

Goto(w, where) == pc' = [pc EXCEPT ![w] = where]
Escape == escapes < MaxEscapes /\ escapes' = escapes + 1

\* artifact_counts_as_present: any row that staff did not reject.
Present(b, i) == row[<<b, i>>] \in {"failed", "complete"}

\* What get_bill_artifact_coverage_all_versions leaves to do: a transition
\* without a row, or with a rejected one.
Uncovered(b) == {v \in Transitions : ~Present(b, v)}

-----------------------------------------------------------------------------
(* The calls.                                                              *)

\* Mutant: the lock is taken whoever holds it.
TriggerWithoutLock(c) ==
    /\ call[c] = "idle" /\ c \in Sessions
    /\ lock' = [lock EXCEPT ![KeyOf[c]] = c]
    /\ call' = [call EXCEPT ![c] = "running"]
    /\ pc' = [w \in Tasks |-> IF w[1] = c THEN "queued" ELSE pc[w]]
    /\ UNCHANGED <<todo, org, row, concept, free, holders, bounds>>

\* The lock was free: run_legbot_pipeline lists the candidates and gathers
\* one task per bill, each waiting for the semaphore.
Trigger(c) ==
    /\ call[c] = "idle" /\ c \in Sessions
    /\ lock[KeyOf[c]] = NoCall
    /\ lock' = [lock EXCEPT ![KeyOf[c]] = c]
    /\ call' = [call EXCEPT ![c] = "running"]
    /\ pc' = [w \in Tasks |-> IF w[1] = c THEN "queued" ELSE pc[w]]
    /\ UNCHANGED <<todo, org, row, concept, free, holders, bounds>>

\* already_running, or an argument or candidate listing that raised, which
\* gives the lock back.
TriggerRefused(c) ==
    /\ call[c] = "idle" /\ c \in Sessions
    /\ call' = [call EXCEPT ![c] = "refused"]
    /\ UNCHANGED <<lock, pc, todo, org, row, concept, free, holders, bounds>>

\* run_single_bill_full calls _process_bill directly.
StartSingle(c) ==
    /\ call[c] = "idle" /\ c \in Singles
    /\ call' = [call EXCEPT ![c] = "running"]
    /\ pc' = [w \in Tasks |-> IF w[1] = c THEN "gate" ELSE pc[w]]
    /\ UNCHANGED <<lock, todo, org, row, concept, free, holders, bounds>>

\* asyncio.gather returned, every task with a result, or raised the first
\* exception of a task at once, the other tasks running on.  The trigger's
\* finally block gives the lock back either way.
GatherEnds(c) ==
    /\ call[c] = "running"
    /\ \/ \A w \in TasksOf(c) : pc[w] = "done"
       \/ \E w \in TasksOf(c) : pc[w] = "raised"
    /\ call' = [call EXCEPT ![c] = "ended"]
    /\ lock' = [k \in Keys |-> IF lock[k] = c THEN NoCall ELSE lock[k]]
    /\ UNCHANGED <<pc, todo, org, row, concept, free, holders, bounds>>

-----------------------------------------------------------------------------
(* One bill task.                                                          *)

\* _process_bill_bounded: async with semaphore, then the counter.
Enter(w) ==
    /\ pc[w] = "queued" /\ free > 0
    /\ free' = free - 1 /\ holders' = holders + 1
    /\ Goto(w, "gate")
    /\ UNCHANGED <<lock, call, todo, org, row, concept, bounds>>

\* The replica allowlist and freshness check.
Gate(w) ==
    /\ pc[w] = "gate"
    /\ Goto(w, "cover") \/ Goto(w, "endOk")
    /\ UNCHANGED <<lock, call, todo, org, row, concept, free, holders, bounds>>

\* A broker read inside the bill task: any BrokerClientError goes where the
\* handler sends it; a body that is not JSON is a ValueError nobody handles.
BrokerRead(w, handled) ==
    \/ Goto(w, handled) /\ UNCHANGED bounds
    \/ Goto(w, "endRaise") /\ Escape /\ UNCHANGED <<rejects, crashes>>

\* The items get_bill_artifacts makes the bill task generate.  It reports
\* the changelog of the latest version only; "depth" asks for the others.
Missing(w) ==
    {i \in Plain \cup {Latest} :
        \/ ~Present(w[2], i)
        \/ row[<<w[2], i>>] = "failed" /\ w[1] \in Retrying}

ReadCoverage(w) ==
    /\ pc[w] = "cover"
    /\ \/ /\ todo' = [todo EXCEPT ![w] = Missing(w)]
          /\ Goto(w, IF row[<<w[2], Latest>>] = "complete" THEN "depth" ELSE "resolve")
          /\ UNCHANGED bounds
       \/ /\ BrokerRead(w, "endOk")
          /\ UNCHANGED todo
    /\ UNCHANGED <<lock, call, org, row, concept, free, holders>>

\* _changelog_fully_covered: an uncovered transition asks for the changelog;
\* a read that fails counts as covered.
ReadDepth(w) ==
    /\ pc[w] = "depth"
    /\ \/ /\ todo' = [todo EXCEPT ![w] = @ \cup Uncovered(w[2])]
          /\ Goto(w, "resolve")
          /\ UNCHANGED bounds
       \/ /\ BrokerRead(w, "resolve")
          /\ UNCHANGED todo
    /\ UNCHANGED <<lock, call, org, row, concept, free, holders>>

\* get_current_version_identity and ensure_bill_exists went well; then the
\* organisation research is started.
Resolve(w) ==
    /\ pc[w] = "resolve"
    /\ Goto(w, "plain")
    /\ UNCHANGED org \/ org' = [org EXCEPT ![w] = "running"]
    /\ UNCHANGED <<lock, call, todo, row, concept, free, holders, bounds>>

\* ensure_bill_exists raised: the bill ends with ensure_failed.
EnsureFails(w) ==
    /\ pc[w] = "resolve"
    /\ Goto(w, "endOk")
    /\ UNCHANGED <<lock, call, todo, org, row, concept, free, holders, bounds>>

\* write_bill_artifact: the broker creates the row or overwrites it.
WriteRow(b, i, status) == row' = [row EXCEPT ![<<b, i>>] = status]

\* What LegBot and the broker make of a generated item: complete, failed for
\* insufficient_information, or nothing written (not applicable, no version
\* resolved, dry run, or an error).
Written(w, i) ==
    \/ \E s \in {"complete", "failed"} : WriteRow(w[2], i, s)
    \/ UNCHANGED row

\* _dispatch_artifact for a type that shares the prompt cache.
GeneratePlain(w) ==
    /\ pc[w] = "plain"
    /\ \E i \in todo[w] \cap Plain :
          /\ Written(w, i)
          /\ todo' = [todo EXCEPT ![w] = @ \ {i}]
    /\ UNCHANGED <<lock, call, pc, org, concept, free, holders, bounds>>

\* get_concept_statement_statuses, once the plain types are done: generated
\* only when there are none.
ConceptCheck(w) ==
    /\ pc[w] = "plain" /\ todo[w] \cap Plain = {}
    /\ \/ /\ Goto(w, IF concept[w[2]] THEN "clCover" ELSE "conceptWrite")
          /\ UNCHANGED bounds
       \/ BrokerRead(w, "clCover")
    /\ UNCHANGED <<lock, call, todo, org, row, concept, free, holders>>

\* create_concept_statement_set: a set, published or awaiting review.
StoreConcepts(b) == concept' = [concept EXCEPT ![b] = TRUE]

\* dispatch_and_store_concept_statements: stored, or nothing to publish or
\* an error.
ConceptWrite(w) ==
    /\ pc[w] = "conceptWrite"
    /\ StoreConcepts(w[2]) \/ UNCHANGED concept
    /\ Goto(w, "clCover")
    /\ UNCHANGED <<lock, call, todo, org, row, free, holders, bounds>>

\* Mutant: the per-transition filter is skipped.
ChangelogWithoutFilter(w) ==
    /\ pc[w] = "clCover"
    /\ todo' = [todo EXCEPT ![w] = IF @ = {} THEN {} ELSE Transitions]
    /\ Goto(w, "changelog")
    /\ UNCHANGED <<lock, call, org, row, concept, free, holders, bounds>>

\* generate_and_store_bill_changelog, if asked for, first drops every
\* transition that has a row, of any status but rejected.  Any error, a body
\* that is not JSON included, is caught by _dispatch_artifact.
ChangelogCover(w) ==
    /\ pc[w] = "clCover"
    /\ \/ /\ todo[w] # {}
          /\ todo' = [todo EXCEPT ![w] = Uncovered(w[2])]
       \/ todo' = [todo EXCEPT ![w] = {}]
    /\ Goto(w, "changelog")
    /\ UNCHANGED <<lock, call, org, row, concept, free, holders, bounds>>

\* One transition; an error abandons the rest.
GenerateTransition(w) ==
    /\ pc[w] = "changelog" /\ todo[w] # {}
    /\ \E v \in todo[w] :
          /\ Written(w, v)
          /\ \/ todo' = [todo EXCEPT ![w] = @ \ {v}]
             \/ row' = row /\ todo' = [todo EXCEPT ![w] = {}]
    /\ UNCHANGED <<lock, call, pc, org, concept, free, holders, bounds>>

\* result.update(await org_task): its exception becomes the bill's.
AwaitOrg(w) ==
    /\ pc[w] = "changelog" /\ todo[w] = {}
    /\ org[w] \in {"none", "over", "raised"}
    /\ Goto(w, IF org[w] = "raised" THEN "endRaise" ELSE "endOk")
    /\ UNCHANGED <<lock, call, todo, org, row, concept, free, holders, bounds>>

\* get_bill_organization_positions_status: rows exist or the broker refused,
\* and the task is over; none do; or the body is not JSON.
OrgCheck(w) ==
    /\ org[w] = "running"
    /\ \/ \E s \in {"checked", "over"} : org' = [org EXCEPT ![w] = s] /\ UNCHANGED bounds
       \/ org' = [org EXCEPT ![w] = "raised"] /\ Escape /\ UNCHANGED <<rejects, crashes>>
    /\ UNCHANGED <<lock, call, pc, todo, row, concept, free, holders>>

\* The research itself, every error of which is caught.
OrgResearch(w) ==
    /\ org[w] = "checked"
    /\ org' = [org EXCEPT ![w] = "over"]
    /\ UNCHANGED <<lock, call, pc, todo, row, concept, free, holders, bounds>>

\* _run_org_research.
OrgStep(w) == OrgCheck(w) \/ OrgResearch(w)

\* Mutant: the research task is left to itself.
FinishWithoutCancel(w) ==
    /\ pc[w] \in {"endOk", "endRaise"}
    /\ Goto(w, IF pc[w] = "endOk" THEN "done" ELSE "raised")
    /\ IF w[1] \in Sessions THEN free' = free + 1 /\ holders' = holders - 1
                            ELSE UNCHANGED <<free, holders>>
    /\ UNCHANGED <<lock, call, todo, org, row, concept, bounds>>

\* Mutant: the permit of a bill that raised is not given back.
FinishKeepsPermit(w) ==
    /\ pc[w] \in {"endOk", "endRaise"}
    /\ org' = [org EXCEPT ![w] = "over"]
    /\ Goto(w, IF pc[w] = "endOk" THEN "done" ELSE "raised")
    /\ UNCHANGED <<lock, call, todo, row, concept, free, holders, bounds>>

\* The finally blocks: the research task is cancelled and awaited, then the
\* counter goes down and the permit is given back, with no await between.
Finish(w) ==
    /\ pc[w] \in {"endOk", "endRaise"}
    /\ org' = [org EXCEPT ![w] = IF @ = "none" THEN @ ELSE "over"]
    /\ Goto(w, IF pc[w] = "endOk" THEN "done" ELSE "raised")
    /\ IF w[1] \in Sessions THEN free' = free + 1 /\ holders' = holders - 1
                            ELSE UNCHANGED <<free, holders>>
    /\ UNCHANGED <<lock, call, todo, row, concept, bounds>>

-----------------------------------------------------------------------------
(* The environment.                                                        *)

\* Staff reject a complete row in the broker.
Reject(b, i) ==
    /\ row[<<b, i>>] = "complete" /\ rejects < MaxRejects
    /\ rejects' = rejects + 1
    /\ row' = [row EXCEPT ![<<b, i>>] = "rejected"]
    /\ UNCHANGED <<lock, call, pc, todo, org, concept, free, holders, escapes, crashes>>

\* The process dies and comes back with a fresh semaphore; the locks of its
\* runs stay until they expire.
Crash ==
    /\ crashes < MaxCrashes
    /\ crashes' = crashes + 1
    /\ call' = [c \in Calls |-> IF call[c] = "running" THEN "dead" ELSE call[c]]
    /\ pc' = [w \in Tasks |-> IF pc[w] \in Working \cup {"queued"} THEN "dead" ELSE pc[w]]
    /\ org' = [w \in Tasks |-> IF org[w] = "none" THEN "none" ELSE "over"]
    /\ free' = Slots /\ holders' = 0
    /\ UNCHANGED <<lock, todo, row, concept, escapes, rejects>>

LockExpires(k) ==
    /\ \E c \in Calls : lock[k] = c /\ call[c] = "dead"
    /\ lock' = [lock EXCEPT ![k] = NoCall]
    /\ UNCHANGED <<call, pc, todo, org, row, concept, free, holders, bounds>>

BillStep(w) ==
    \/ Gate(w) \/ ReadCoverage(w) \/ ReadDepth(w) \/ Resolve(w) \/ EnsureFails(w)
    \/ GeneratePlain(w) \/ ConceptCheck(w) \/ ConceptWrite(w)
    \/ ChangelogCover(w) \/ GenerateTransition(w)
    \/ AwaitOrg(w) \/ Finish(w)

Next ==
    \/ \E c \in Calls : Trigger(c) \/ TriggerRefused(c) \/ StartSingle(c) \/ GatherEnds(c)
    \/ \E w \in Tasks : Enter(w) \/ BillStep(w) \/ OrgStep(w)
    \/ \E b \in Bills, i \in Items : Reject(b, i)
    \/ Crash
    \/ \E k \in Keys : LockExpires(k)

\* The event loop runs every task whose await is over, every request has a
\* timeout, and asyncio.Semaphore serves its waiters in order.
Fairness ==
    /\ \A c \in Calls : WF_vars(GatherEnds(c))
    /\ \A w \in Tasks : SF_vars(Enter(w)) /\ WF_vars(BillStep(w)) /\ WF_vars(OrgStep(w))

Spec == Init /\ [][Next]_vars
FairSpec == Spec /\ Fairness

-----------------------------------------------------------------------------
(* Properties.                                                             *)

\* The semaphore of get_session_pipeline_semaphore bounds the bill tasks of
\* all runs together, and the logged counter is their exact number.
BudgetExact ==
    /\ holders = Cardinality(Inside)
    /\ free + holders = Slots

\* A research task never outlives the bill task that owns it, however that
\* one ended.
OrgOwned == \A w \in Tasks : org[w] \in {"running", "checked"} => pc[w] \in Working

\* Calls of key k with a bill task that waits or works.
ActiveRuns(k) ==
    {c \in Sessions : KeyOf[c] = k /\ \E w \in TasksOf(c) : pc[w] \in Working \cup {"queued"}}

\* trigger_scraper_session_pipeline's promise: two runs of one jurisdiction
\* and session never work at once.
OneRunPerSession == \A k \in Keys : \A c, d \in ActiveRuns(k) : c = d

\* The same as long as no exception escaped from a bill task.
OneRunWithoutEscape == escapes = 0 => OneRunPerSession

\* Without a single-bill call and without an escaped exception, a complete
\* row is only ever lost to a rejection: no run sets back what another one,
\* or an earlier one, finished.
CompleteKept ==
    [][\A r \in Bills \X Items : row[r] = "complete" => row'[r] \in {"complete", "rejected"}]_vars

\* A run that was admitted ends, the waiters of the semaphore included.
RunEnds == \A c \in Calls : call[c] = "running" ~> call[c] # "running"

=============================================================================
