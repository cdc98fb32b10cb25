------------------------ MODULE SessionPipelineProofs -----------------------
(***************************************************************************)
(* For any calls, keys, bills and artifact types: permits are exact, a     *)
(* research task is owned by a bill at work, and, as long as no exception  *)
(* escapes a bill task, two runs of one session never work at once.        *)
(***************************************************************************)
EXTENDS SessionPipeline, FiniteSetTheorems, TLAPS

OrgStates  == {"none", "running", "checked", "over", "raised"}
CallStates == {"idle", "running", "ended", "refused", "dead"}

\* The part of TypeOK that is about control.
ControlOK ==
    /\ lock \in [Keys -> Calls \cup {NoCall}]
    /\ call \in [Calls -> CallStates]
    /\ pc \in [Tasks -> PcStates]
    /\ org \in [Tasks -> OrgStates]
    /\ escapes \in 0..MaxEscapes /\ rejects \in 0..MaxRejects /\ crashes \in 0..MaxCrashes

\* The part that is about the broker's rows and what is still to generate.
DataOK ==
    /\ todo \in [Tasks -> SUBSET Items]
    /\ row \in [Bills \X Items -> Statuses]
    /\ concept \in [Bills -> BOOLEAN]

Busy == Working \cup {"queued"}

\* What holds of a bill task: it starts with its call, only those of a session
\* queue, and its research is under way only while it works.
TaskInv(w) ==
    /\ call[w[1]] = "idle" => pc[w] = "none"
    /\ pc[w] = "queued" => w[1] \in Sessions
    /\ org[w] \in {"running", "checked"} => pc[w] \in Working

\* As long as nothing escaped: no task raised or is about to, and a session's
\* task at work belongs to a call that is still gathering.
CalmInv(w) ==
    escapes = 0 =>
        /\ pc[w] \notin {"raised", "endRaise"} /\ org[w] # "raised"
        /\ w[1] \in Sessions /\ pc[w] \in Busy => call[w[1]] = "running"

\* A running session call holds its key.
LockInv == \A c \in Sessions : call[c] = "running" => lock[KeyOf[c]] = c

BudgetInv ==
    /\ IsFiniteSet(Inside)
    /\ free \in Nat /\ holders \in Nat
    /\ BudgetExact

ControlInv ==
    ControlOK /\ LockInv /\ \A w \in Tasks : TaskInv(w) /\ CalmInv(w)
Inv == ControlInv /\ DataOK /\ BudgetInv

-----------------------------------------------------------------------------
\* The steps of a bill task up to its finally block.
BodyStep(w) ==
    \/ Gate(w) \/ ReadCoverage(w) \/ ReadDepth(w) \/ Resolve(w) \/ EnsureFails(w)
    \/ GeneratePlain(w) \/ ConceptCheck(w) \/ ConceptWrite(w)
    \/ ChangelogCover(w) \/ GenerateTransition(w) \/ AwaitOrg(w)

\* What they have in common: a task at work stays at work, and it turns to
\* raising only with an escape or with a research task that raised.
BodyEffect(w) ==
    /\ pc[w] \in Working
    /\ \E x \in Working : pc' = [pc EXCEPT ![w] = x]
    /\ org' = org \/ org' = [org EXCEPT ![w] = "running"]
    /\ \/ UNCHANGED bounds
       \/ Escape /\ UNCHANGED <<rejects, crashes>>
    /\ pc'[w] = "endRaise" => escapes' # 0 \/ org[w] = "raised"
    /\ UNCHANGED <<lock, call, free, holders>>

\* Every step of _process_bill_inner is of that form.
LEMMA BodySteps ==
    ASSUME ControlOK, NEW w \in Tasks, BodyStep(w) PROVE BodyEffect(w)
<1> USE DEF ControlOK, BodyEffect, PcStates, Working, Inner, Goto
<1>1. CASE Gate(w)
  BY <1>1 DEF Gate
<1>2. CASE ReadCoverage(w)
  BY <1>2, PipelineAssumption DEF ReadCoverage, BrokerRead, Escape
<1>3. CASE ReadDepth(w)
  BY <1>3, PipelineAssumption DEF ReadDepth, BrokerRead, Escape
<1>4. CASE Resolve(w)
  BY <1>4 DEF Resolve
<1>5. CASE GeneratePlain(w)
  BY <1>5 DEF GeneratePlain
<1>6. CASE ConceptCheck(w)
  BY <1>6, PipelineAssumption DEF ConceptCheck, BrokerRead, Escape
<1>7. CASE ConceptWrite(w)
  BY <1>7 DEF ConceptWrite
<1>8. CASE ChangelogCover(w)
  BY <1>8 DEF ChangelogCover
<1>9. CASE GenerateTransition(w)
  BY <1>9 DEF GenerateTransition
<1>10. CASE AwaitOrg(w)
  BY <1>10 DEF AwaitOrg
<1>11. CASE EnsureFails(w)
  BY <1>11 DEF EnsureFails
<1> QED
  BY <1>1, <1>2, <1>3, <1>4, <1>5, <1>6, <1>7, <1>8, <1>9, <1>10, <1>11 DEF BodyStep

\* Control keeps its types.
LEMMA ControlTypes == ControlOK /\ [Next]_vars => ControlOK'
<1> SUFFICES ASSUME ControlOK, [Next]_vars PROVE ControlOK'
  OBVIOUS
<1> USE PipelineAssumption DEF ControlOK, PcStates, CallStates, OrgStates, bounds
<1>1. ASSUME NEW c \in Calls, Trigger(c) PROVE ControlOK'
  BY <1>1 DEF Trigger
<1>2. ASSUME NEW c \in Calls, TriggerRefused(c) PROVE ControlOK'
  BY <1>2 DEF TriggerRefused
<1>3. ASSUME NEW c \in Calls, StartSingle(c) PROVE ControlOK'
  BY <1>3 DEF StartSingle, Working, Inner
<1>4. ASSUME NEW c \in Calls, GatherEnds(c) PROVE ControlOK'
  BY <1>4 DEF GatherEnds
<1>5. ASSUME NEW w \in Tasks, Enter(w) PROVE ControlOK'
  BY <1>5 DEF Enter, Goto, Working, Inner
<1>6. ASSUME NEW w \in Tasks, BodyStep(w) PROVE ControlOK'
  <2>1. BodyEffect(w)
    BY <1>6, BodySteps
  <2> QED BY <2>1 DEF BodyEffect, Escape
<1>7. ASSUME NEW w \in Tasks, Finish(w) PROVE ControlOK'
  BY <1>7 DEF Finish, Goto
<1>8. ASSUME NEW w \in Tasks, OrgStep(w) PROVE ControlOK'
  BY <1>8 DEF OrgStep, OrgCheck, OrgResearch, Escape
<1>9. ASSUME NEW b \in Bills, NEW i \in Items, Reject(b, i) PROVE ControlOK'
  BY <1>9 DEF Reject
<1>10. CASE Crash
  BY <1>10 DEF Crash
<1>11. ASSUME NEW k \in Keys, LockExpires(k) PROVE ControlOK'
  BY <1>11 DEF LockExpires
<1>12. CASE UNCHANGED vars
  BY <1>12 DEF vars
<1> QED
  BY <1>1, <1>2, <1>3, <1>4, <1>5, <1>6, <1>7, <1>8, <1>9, <1>10, <1>11,
     <1>12 DEF Next, BillStep, BodyStep

\* A running session call keeps its key: it is taken from it by its own end,
\* and expires only after the process died.
LEMMA LockStep == ControlOK /\ LockInv /\ [Next]_vars => LockInv'
<1> SUFFICES ASSUME ControlOK, LockInv, [Next]_vars,
                    NEW c \in Sessions, call'[c] = "running"
             PROVE  lock'[KeyOf[c]] = c
  BY DEF LockInv
<1> USE PipelineAssumption DEF ControlOK, LockInv, Sessions
<1>1. ASSUME NEW d \in Calls, Trigger(d) PROVE lock'[KeyOf[c]] = c
  <2>1. CASE c = d
    BY <1>1, <2>1 DEF Trigger
  <2>2. CASE c # d
    BY <1>1, <2>2 DEF Trigger
  <2> QED BY <2>1, <2>2
<1>2. ASSUME NEW d \in Calls, TriggerRefused(d) \/ StartSingle(d)
      PROVE  lock'[KeyOf[c]] = c
  BY <1>2 DEF TriggerRefused, StartSingle
<1>3. ASSUME NEW d \in Calls, GatherEnds(d) PROVE lock'[KeyOf[c]] = c
  BY <1>3 DEF GatherEnds
<1>4. ASSUME NEW w \in Tasks, BodyStep(w) PROVE lock'[KeyOf[c]] = c
  BY <1>4, BodySteps DEF BodyEffect
<1>5. CASE Crash
  BY <1>5 DEF Crash
<1>6. ASSUME NEW k \in Keys, LockExpires(k) PROVE lock'[KeyOf[c]] = c
  BY <1>6 DEF LockExpires
<1>7. CASE UNCHANGED <<lock, call>>
  BY <1>7
<1> QED
  BY <1>1, <1>2, <1>3, <1>4, <1>5, <1>6, <1>7
  DEF Next, BillStep, BodyStep, Enter, Finish, OrgStep, OrgCheck, OrgResearch, Reject, vars

\* A step keeps what the invariant says of every bill task.
LEMMA TaskStepInv ==
    ControlInv /\ [Next]_vars => \A u \in Tasks : TaskInv(u)' /\ CalmInv(u)'
<1> SUFFICES ASSUME ControlInv, [Next]_vars, NEW u \in Tasks
             PROVE  TaskInv(u)' /\ CalmInv(u)'
  OBVIOUS
<1>0. /\ ControlOK /\ TaskInv(u) /\ CalmInv(u)
      /\ u[1] \in Calls
  BY DEF ControlInv, Tasks
<1> USE PipelineAssumption DEF ControlOK, TaskInv, CalmInv, Busy, Working, Inner, bounds
<1>1. ASSUME NEW c \in Calls, Trigger(c) PROVE TaskInv(u)' /\ CalmInv(u)'
  BY <1>0, <1>1 DEF Trigger
<1>2. ASSUME NEW c \in Calls, TriggerRefused(c) PROVE TaskInv(u)' /\ CalmInv(u)'
  BY <1>0, <1>2 DEF TriggerRefused
<1>3. ASSUME NEW c \in Calls, StartSingle(c) PROVE TaskInv(u)' /\ CalmInv(u)'
  BY <1>0, <1>3 DEF StartSingle, Sessions
<1>4. ASSUME NEW c \in Calls, GatherEnds(c) PROVE TaskInv(u)' /\ CalmInv(u)'
  <2>1. escapes = 0 /\ u[1] = c => pc[u] = "done"
    BY <1>0, <1>4 DEF GatherEnds, TasksOf, ControlInv
  <2> QED BY <1>0, <1>4, <2>1 DEF GatherEnds
<1>5. ASSUME NEW w \in Tasks, Enter(w) PROVE TaskInv(u)' /\ CalmInv(u)'
  BY <1>0, <1>5 DEF Enter, Goto
<1>6. ASSUME NEW w \in Tasks, BodyStep(w) PROVE TaskInv(u)' /\ CalmInv(u)'
  <2>1. BodyEffect(w)
    BY <1>0, <1>6, BodySteps
  <2> QED BY <1>0, <2>1 DEF BodyEffect, Escape
<1>7. ASSUME NEW w \in Tasks, Finish(w) PROVE TaskInv(u)' /\ CalmInv(u)'
  BY <1>0, <1>7 DEF Finish, Goto
<1>8. ASSUME NEW w \in Tasks, OrgStep(w) PROVE TaskInv(u)' /\ CalmInv(u)'
  BY <1>0, <1>8 DEF OrgStep, OrgCheck, OrgResearch, Escape
<1>9. ASSUME NEW b \in Bills, NEW i \in Items, Reject(b, i)
      PROVE  TaskInv(u)' /\ CalmInv(u)'
  BY <1>0, <1>9 DEF Reject
<1>10. CASE Crash
  BY <1>0, <1>10 DEF Crash, OrgStates, PcStates
<1>11. ASSUME NEW k \in Keys, LockExpires(k) PROVE TaskInv(u)' /\ CalmInv(u)'
  BY <1>0, <1>11 DEF LockExpires
<1>12. CASE UNCHANGED vars
  BY <1>0, <1>12 DEF vars
<1> QED
  BY <1>1, <1>2, <1>3, <1>4, <1>5, <1>6, <1>7, <1>8, <1>9, <1>10, <1>11,
     <1>12 DEF Next, BillStep, BodyStep

-----------------------------------------------------------------------------
\* The control of the pipeline keeps its invariant, from the empty start on.
THEOREM SessionControl == Spec => []ControlInv
<1>1. Init => ControlInv
  BY PipelineAssumption
  DEF Init, ControlInv, ControlOK, LockInv, TaskInv, CalmInv, Busy, Working,
      Inner, PcStates, CallStates, OrgStates, Sessions, Tasks
<1>2. ControlInv /\ [Next]_vars => ControlInv'
  BY ControlTypes, LockStep, TaskStepInv DEF ControlInv
<1> QED BY <1>1, <1>2, PTL DEF Spec

\* A research task never outlives its bill task, whatever calls, bills and
\* failures there are.
THEOREM SessionOrgOwned == Spec => []OrgOwned
<1>1. ControlInv => OrgOwned
  BY DEF ControlInv, TaskInv, OrgOwned
<1> QED BY <1>1, SessionControl, PTL

\* As long as no exception escaped a bill task, the lock keeps the runs of one
\* jurisdiction and session apart.
THEOREM SessionOneRun == Spec => []OneRunWithoutEscape
<1>1. ControlInv => OneRunWithoutEscape
  <2> SUFFICES ASSUME ControlInv, escapes = 0, NEW k \in Keys,
                      NEW c \in ActiveRuns(k), NEW d \in ActiveRuns(k)
               PROVE  c = d
    BY DEF OneRunWithoutEscape, OneRunPerSession
  <2>1. ASSUME NEW e \in ActiveRuns(k) PROVE lock[k] = e
    <3>1. PICK w \in TasksOf(e) : pc[w] \in Busy
      BY <2>1 DEF ActiveRuns, Busy
    <3>2. e \in Sessions /\ KeyOf[e] = k /\ w \in Tasks /\ w[1] = e
      BY <2>1, <3>1 DEF ActiveRuns, TasksOf
    <3>3. call[e] = "running"
      BY <3>1, <3>2 DEF ControlInv, CalmInv
    <3> QED BY <3>2, <3>3 DEF ControlInv, LockInv
  <2> QED BY <2>1
<1> QED BY <1>1, SessionControl, PTL

-----------------------------------------------------------------------------
\* Permits and the counter follow the bill tasks that are inside: one enters,
\* one leaves, or the process dies with all of them.
LEMMA BudgetStep ==
    ControlInv /\ BudgetInv /\ [Next]_vars => BudgetInv'
<1> SUFFICES ASSUME ControlInv, BudgetInv, [Next]_vars PROVE BudgetInv'
  OBVIOUS
<1>0. ControlOK /\ \A w \in Tasks : TaskInv(w) /\ w[1] \in Calls
  BY DEF ControlInv, Tasks
<1> USE PipelineAssumption DEF ControlOK
<1>a. ASSUME Inside' = Inside, UNCHANGED <<free, holders>> PROVE BudgetInv'
  BY <1>a DEF BudgetInv, BudgetExact
<1>1. ASSUME NEW c \in Calls, Trigger(c) \/ StartSingle(c) PROVE BudgetInv'
  <2>1. \A w \in Tasks : w[1] = c => pc[w] = "none"
    BY <1>0, <1>1 DEF TaskInv, Trigger, StartSingle
  <2>2. \A w \in Tasks : w[1] \in Sessions =>
           (pc'[w] \in Working <=> pc[w] \in Working)
    BY <1>0, <1>1, <2>1 DEF Trigger, StartSingle, Working, Inner, Sessions
  <2>3. Inside' = Inside
    BY <2>2 DEF Inside
  <2> QED BY <1>1, <1>a, <2>3 DEF Trigger, StartSingle
<1>2. ASSUME NEW w \in Tasks, Enter(w) PROVE BudgetInv'
  <2>1. w[1] \in Sessions /\ pc[w] \notin Working /\ pc' = [pc EXCEPT ![w] = "gate"]
    BY <1>0, <1>2 DEF TaskInv, Enter, Goto, Working, Inner
  <2>2. Inside' = Inside \cup {w} /\ w \notin Inside
    BY <1>0, <2>1 DEF Inside, Working, Inner
  <2>3. IsFiniteSet(Inside') /\ Cardinality(Inside') = Cardinality(Inside) + 1
    BY <2>2, FS_AddElement DEF BudgetInv
  <2> QED BY <1>2, <2>3 DEF BudgetInv, BudgetExact, Enter
<1>3. ASSUME NEW w \in Tasks, BodyStep(w) PROVE BudgetInv'
  <2>1. BodyEffect(w)
    BY <1>0, <1>3, BodySteps
  <2>2. Inside' = Inside
    BY <1>0, <2>1 DEF Inside, BodyEffect
  <2> QED BY <1>a, <2>1, <2>2 DEF BodyEffect
<1>4. ASSUME NEW w \in Tasks, Finish(w) PROVE BudgetInv'
  <2>1. /\ pc[w] \in Working
        /\ \E x \in {"done", "raised"} : pc' = [pc EXCEPT ![w] = x]
    BY <1>4 DEF Finish, Goto, Working, Inner
  <2>2. CASE w[1] \in Sessions
    <3>1. Inside' = Inside \ {w} /\ w \in Inside
      BY <1>0, <2>1, <2>2 DEF Inside, Working, Inner
    <3>2. IsFiniteSet(Inside') /\ Cardinality(Inside') = Cardinality(Inside) - 1
      BY <3>1, FS_RemoveElement DEF BudgetInv
    <3>3. Cardinality(Inside') \in Nat
      BY <3>2, FS_CardinalityType
    <3> QED BY <1>4, <2>2, <3>2, <3>3 DEF BudgetInv, BudgetExact, Finish
  <2>3. CASE w[1] \notin Sessions
    <3>1. Inside' = Inside
      BY <1>0, <2>1, <2>3 DEF Inside
    <3> QED BY <1>4, <1>a, <2>3, <3>1 DEF Finish
  <2> QED BY <2>2, <2>3
<1>5. CASE Crash
  <2>1. Inside' = {}
    BY <1>0, <1>5 DEF Crash, Inside, Working, Inner
  <2> QED BY <1>5, <2>1, FS_EmptySet DEF Crash, BudgetInv, BudgetExact
<1>6. CASE UNCHANGED <<pc, free, holders>>
  BY <1>6, <1>a DEF Inside
<1> QED
  BY <1>1, <1>2, <1>3, <1>4, <1>5, <1>6
  DEF Next, BillStep, BodyStep, TriggerRefused, GatherEnds, OrgStep, OrgCheck, OrgResearch, Reject,
      LockExpires, vars

\* The rows and the lists of items keep their types.
LEMMA DataStep == ControlInv /\ DataOK /\ [Next]_vars => DataOK'
<1> SUFFICES ASSUME ControlInv, DataOK, [Next]_vars PROVE DataOK'
  OBVIOUS
<1> USE PipelineAssumption DEF DataOK
<1>0. \A w \in Tasks : w[2] \in Bills
  BY DEF Tasks
<1>a. \A w \in Tasks, i \in Items : Written(w, i) => row' \in [Bills \X Items -> Statuses]
  BY <1>0 DEF Written, WriteRow, Statuses
<1>1. ASSUME NEW w \in Tasks, ReadCoverage(w) \/ ReadDepth(w) PROVE DataOK'
  <2>1. Missing(w) \subseteq Items
    BY DEF Missing, Items
  <2> QED BY <1>1, <2>1 DEF ReadCoverage, ReadDepth, Uncovered, Items
<1>2. ASSUME NEW w \in Tasks, GeneratePlain(w) PROVE DataOK'
  <2>1. PICK i \in todo[w] \cap Plain :
           Written(w, i) /\ todo' = [todo EXCEPT ![w] = @ \ {i}]
    BY <1>2 DEF GeneratePlain
  <2>2. row' \in [Bills \X Items -> Statuses]
    BY <1>a, <2>1 DEF Items
  <2> QED BY <1>2, <2>1, <2>2 DEF GeneratePlain
<1>3. ASSUME NEW w \in Tasks, ConceptWrite(w) PROVE DataOK'
  BY <1>0, <1>3 DEF ConceptWrite, StoreConcepts
<1>4. ASSUME NEW w \in Tasks, ChangelogCover(w) PROVE DataOK'
  BY <1>4 DEF ChangelogCover, Uncovered, Items
<1>5. ASSUME NEW w \in Tasks, GenerateTransition(w) PROVE DataOK'
  <2>1. PICK v \in todo[w] :
           /\ Written(w, v)
           /\ \/ todo' = [todo EXCEPT ![w] = @ \ {v}]
              \/ todo' = [todo EXCEPT ![w] = {}]
    BY <1>5 DEF GenerateTransition
  <2>2. row' \in [Bills \X Items -> Statuses]
    BY <1>a, <2>1
  <2> QED BY <1>5, <2>1, <2>2 DEF GenerateTransition
<1>6. ASSUME NEW b \in Bills, NEW i \in Items, Reject(b, i) PROVE DataOK'
  BY <1>6 DEF Reject, Statuses
<1>7. CASE UNCHANGED <<todo, row, concept>>
  BY <1>7
<1> QED
  BY <1>1, <1>2, <1>3, <1>4, <1>5, <1>6, <1>7
  DEF Next, BillStep, Trigger, TriggerRefused, StartSingle, GatherEnds, Enter,
      Gate, Resolve, EnsureFails, ConceptCheck, AwaitOrg, Finish, OrgStep, OrgCheck,
      OrgResearch, Crash, LockExpires, vars

\* The whole invariant.
THEOREM SessionInvariance == Spec => []Inv
<1>1. Init => DataOK /\ BudgetInv
  <2>1. ASSUME Init PROVE Inside = {}
    BY <2>1 DEF Init, Inside, Working, Inner
  <2>2. ASSUME Init PROVE BudgetInv
    <3>1. IsFiniteSet(Inside) /\ Cardinality(Inside) = 0
      BY <2>1, <2>2, FS_EmptySet
    <3> QED BY <2>2, <3>1, PipelineAssumption DEF Init, BudgetInv, BudgetExact
  <2>3. ASSUME Init PROVE row \in [Bills \X Items -> Statuses]
    BY <2>3, PipelineAssumption DEF Init
  <2>4. ASSUME Init PROVE concept \in [Bills -> BOOLEAN] /\ todo \in [Tasks -> SUBSET Items]
    BY <2>4, Zenon DEF Init
  <2> QED BY <2>2, <2>3, <2>4 DEF DataOK
<1>2. ControlInv /\ DataOK /\ BudgetInv /\ [Next]_vars => (DataOK /\ BudgetInv)'
  BY BudgetStep, DataStep
<1> QED BY <1>1, <1>2, SessionControl, PTL DEF Spec, Inv

\* Every variable of the pipeline keeps its type.
THEOREM SessionTypes == Spec => []TypeOK
<1>1. Inv => TypeOK
  BY DEF Inv, ControlInv, ControlOK, DataOK, BudgetInv, TypeOK, CallStates, OrgStates
<1> QED BY <1>1, SessionInvariance, PTL

\* The semaphore's permits and the logged counter are exact for any number of
\* runs, single-bill calls, escaped exceptions and restarts.
THEOREM SessionBudget == Spec => []BudgetExact
<1>1. Inv => BudgetExact
  BY DEF Inv, BudgetInv
<1> QED BY <1>1, SessionInvariance, PTL
-----------------------------------------------------------------------------
(* A complete row is only ever lost to a rejection.                        *)

\* A bill is of one jurisdiction and session: calls that share one share the key.
OneKeyPerBill ==
    \A c, d \in Calls : BillsOf[c] \cap BillsOf[d] # {} => KeyOf[c] = KeyOf[d]

\* What a bill task has decided to generate is not complete, from the coverage
\* it read up to the write.
Decides == {"depth", "resolve", "plain", "conceptWrite", "clCover", "changelog"}
Decided(w) == pc[w] \in Decides => \A i \in todo[w] : row[<<w[2], i>>] # "complete"
DecidedInv == \A w \in Tasks : Decided(w)

\* With no single-bill call and nothing escaped, one task at most works on a bill.
LEMMA OneTaskPerBill ==
    ASSUME ControlInv, Singles = {}, escapes = 0, OneKeyPerBill,
           NEW u \in Tasks, NEW w \in Tasks, u[2] = w[2],
           pc[u] \in Working, pc[w] \in Working
    PROVE  u = w
<1>1. /\ u \in Calls \X Bills /\ u[2] \in BillsOf[u[1]]
      /\ w \in Calls \X Bills /\ w[2] \in BillsOf[w[1]]
  BY DEF Tasks
<1>2. KeyOf[u[1]] = KeyOf[w[1]]
  BY <1>1 DEF OneKeyPerBill
<1>3. call[u[1]] = "running" /\ call[w[1]] = "running"
  BY <1>1 DEF ControlInv, CalmInv, Busy, Sessions
<1>4. lock[KeyOf[u[1]]] = u[1] /\ lock[KeyOf[w[1]]] = w[1]
  BY <1>1, <1>3 DEF ControlInv, LockInv, Sessions
<1>5. u[1] = w[1]
  BY <1>2, <1>4
<1> QED BY <1>1, <1>5

\* What a step may do to the rows and the lists of a bill task.
Keeps(r) == row[r] = "complete" => row'[r] \in {"complete", "rejected"}

\* A task that writes an item of its list disturbs no other task and no complete row.
LEMMA WriteStep ==
    ASSUME ControlInv, DataOK, DecidedInv, Singles = {}, escapes = 0, OneKeyPerBill,
           NEW w \in Tasks, NEW i \in todo[w], pc[w] \in Decides, Written(w, i), pc' = pc,
           \/ todo' = [todo EXCEPT ![w] = @ \ {i}]
           \/ row' = row /\ todo' = [todo EXCEPT ![w] = {}]
    PROVE  DecidedInv' /\ \A r \in Bills \X Items : Keeps(r)
<1>1. w[2] \in Bills /\ i \in Items /\ row \in [Bills \X Items -> Statuses]
      /\ todo \in [Tasks -> SUBSET Items]
  BY DEF DataOK, Tasks
<1>2. \A r \in Bills \X Items : r # <<w[2], i>> => row'[r] = row[r]
  BY <1>1 DEF Written, WriteRow
<1>3. row[<<w[2], i>>] # "complete"
  BY DEF DecidedInv, Decided
<1>4. \A r \in Bills \X Items : Keeps(r)
  BY <1>2, <1>3 DEF Keeps
<1>5. ASSUME NEW u \in Tasks, pc[u] \in Decides, NEW j \in todo'[u]
      PROVE  row'[<<u[2], j>>] # "complete"
  <2>1. j \in todo[u] /\ j \in Items /\ u[2] \in Bills /\ row[<<u[2], j>>] # "complete"
    <3>1. todo'[u] \subseteq todo[u]
      BY <1>1
    <3> QED BY <1>1, <1>5, <3>1 DEF DecidedInv, Decided, Tasks
  <2>2. CASE u[2] = w[2] /\ j = i
    <3>1. u = w
      BY <1>5, <2>2, OneTaskPerBill DEF Decides, Working, Inner
    <3>2. row' = row
      BY <1>1, <1>5, <2>2, <3>1
    <3> QED BY <2>1, <3>2
  <2>3. CASE ~(u[2] = w[2] /\ j = i)
    <3>1. <<u[2], j>> # <<w[2], i>> /\ <<u[2], j>> \in Bills \X Items
      BY <2>1, <2>3
    <3> QED BY <1>2, <2>1, <3>1
  <2> QED BY <2>2, <2>3
<1> QED BY <1>4, <1>5 DEF DecidedInv, Decided

\* A step that writes no row: a list is only filled with items that are not complete.
LEMMA DecideStep ==
    ASSUME DecidedInv, row' = row,
           \A u \in Tasks : pc'[u] \in Decides =>
              \/ pc[u] \in Decides /\ todo'[u] \subseteq todo[u]
              \/ \A i \in todo'[u] \ (IF pc[u] \in Decides THEN todo[u] ELSE {}) :
                    row[<<u[2], i>>] # "complete"
    PROVE  DecidedInv' /\ \A r \in Bills \X Items : Keeps(r)
<1>1. \A u \in Tasks : pc'[u] \in Decides => \A i \in todo'[u] : row[<<u[2], i>>] # "complete"
  BY DEF DecidedInv, Decided
<1> QED BY <1>1 DEF DecidedInv, Decided, Keeps

LEMMA DecidedStep ==
    ASSUME ControlInv, DataOK, DecidedInv, Singles = {}, escapes = 0, OneKeyPerBill, [Next]_vars
    PROVE  DecidedInv' /\ \A r \in Bills \X Items : Keeps(r)
<1> DEFINE Goal == DecidedInv' /\ \A r \in Bills \X Items : Keeps(r)
<1>0. pc \in [Tasks -> PcStates] /\ todo \in [Tasks -> SUBSET Items]
  BY DEF ControlInv, ControlOK, DataOK
<1>1. ASSUME NEW w \in Tasks, GeneratePlain(w) PROVE Goal
  BY <1>1, WriteStep DEF GeneratePlain, Decides
<1>2. ASSUME NEW w \in Tasks, GenerateTransition(w) PROVE Goal
  BY <1>2, WriteStep DEF GenerateTransition, Decides
<1>3. ASSUME NEW w \in Tasks, ReadCoverage(w) PROVE Goal
  <2>1. \A i \in Missing(w) : row[<<w[2], i>>] # "complete"
    BY DEF Missing, Present
  <2>2. row' = row /\ pc[w] = "cover"
    BY <1>3 DEF ReadCoverage
  <2>3. \E x : pc' = [pc EXCEPT ![w] = x] /\ (x \in Decides => todo' = [todo EXCEPT ![w] = Missing(w)])
    BY <1>3 DEF ReadCoverage, BrokerRead, Goto, Decides
  <2>4. todo' = todo \/ todo' = [todo EXCEPT ![w] = Missing(w)]
    BY <1>3 DEF ReadCoverage
  <2> QED BY <1>0, <2>1, <2>2, <2>3, <2>4, DecideStep
<1>4. ASSUME NEW w \in Tasks, ReadDepth(w) PROVE Goal
  <2>1. \A i \in Uncovered(w[2]) : row[<<w[2], i>>] # "complete"
    BY DEF Uncovered, Present
  <2>2. /\ row' = row /\ pc[w] \in Decides
        /\ todo' = todo \/ todo' = [todo EXCEPT ![w] = @ \cup Uncovered(w[2])]
        /\ \E x : pc' = [pc EXCEPT ![w] = x]
    BY <1>4 DEF ReadDepth, BrokerRead, Goto, Decides
  <2> QED BY <1>0, <2>1, <2>2, DecideStep
<1>5. ASSUME NEW w \in Tasks, ChangelogCover(w) PROVE Goal
  <2>1. \A i \in Uncovered(w[2]) : row[<<w[2], i>>] # "complete"
    BY DEF Uncovered, Present
  <2>2. /\ row' = row /\ pc[w] \in Decides
        /\ \E set : todo' = [todo EXCEPT ![w] = set] /\ set \in {{}, Uncovered(w[2])}
        /\ \E x : pc' = [pc EXCEPT ![w] = x]
    BY <1>5 DEF ChangelogCover, Goto, Decides
  <2> QED BY <1>0, <2>1, <2>2, DecideStep
<1>6. ASSUME NEW w \in Tasks,
             Gate(w) \/ Resolve(w) \/ EnsureFails(w) \/ ConceptCheck(w) \/ ConceptWrite(w) \/ AwaitOrg(w)
             \/ Finish(w) \/ Enter(w)
      PROVE  Goal
  <2>1. /\ row' = row /\ todo' = todo
        /\ \E x : pc' = [pc EXCEPT ![w] = x] /\ (x \in Decides => pc[w] \in Decides)
    BY <1>6 DEF Gate, Resolve, EnsureFails, ConceptCheck, ConceptWrite, AwaitOrg, Finish, Enter, BrokerRead,
       Goto, Decides
  <2> QED BY <1>0, <2>1, DecideStep
<1>7. ASSUME NEW b \in Bills, NEW i \in Items, Reject(b, i) PROVE Goal
  <2>1. /\ row' = [row EXCEPT ![<<b, i>>] = "rejected"] /\ pc' = pc /\ todo' = todo
    BY <1>7 DEF Reject
  <2>2. row \in [Bills \X Items -> Statuses]
    BY DEF DataOK
  <2>3. \A r \in Bills \X Items : row'[r] = row[r] \/ row'[r] = "rejected"
    BY <2>1, <2>2
  <2>4. \A u \in Tasks : \A j \in todo[u] : <<u[2], j>> \in Bills \X Items
    BY <1>0 DEF Tasks
  <2>5. \A r \in Bills \X Items : Keeps(r)
    BY <2>3 DEF Keeps
  <2>6. DecidedInv'
    BY <2>1, <2>3, <2>4 DEF DecidedInv, Decided
  <2> QED BY <2>5, <2>6
<1>8. ASSUME NEW c \in Calls, Trigger(c) \/ StartSingle(c) PROVE Goal
  <2>1. /\ row' = row /\ todo' = todo
        /\ \A u \in Tasks : pc'[u] \in Decides => pc[u] \in Decides
    BY <1>0, <1>8 DEF Trigger, StartSingle, Decides
  <2> QED BY <2>1, DecideStep
<1>9. CASE Crash
  <2>1. /\ row' = row /\ todo' = todo
        /\ \A u \in Tasks : pc'[u] \in Decides => pc[u] \in Decides
    BY <1>0, <1>9 DEF Crash, Decides
  <2> QED BY <2>1, DecideStep
<1>10. CASE UNCHANGED <<pc, todo, row>>
  BY <1>10, DecideStep
<1> QED
  BY <1>1, <1>2, <1>3, <1>4, <1>5, <1>6, <1>7, <1>8, <1>9, <1>10
  DEF Next, BillStep, TriggerRefused, GatherEnds, OrgStep, OrgCheck, OrgResearch, LockExpires, vars

\* No run sets back a row that another run, or an earlier one, finished
\* (artifact_counts_as_present, _changelog_fully_covered): where no single-bill
\* call passes the lock by and no reply escapes the handlers, a complete row is
\* only ever lost to a rejection, for any calls, bills, artifact types and deaths.
THEOREM SessionCompleteKept ==
    ASSUME Singles = {}, MaxEscapes = 0, OneKeyPerBill
    PROVE  Spec => CompleteKept
<1>1. Init => DecidedInv
  BY DEF Init, DecidedInv, Decided, Decides
<1>2. ASSUME Inv PROVE ControlInv /\ DataOK /\ escapes = 0
  BY <1>2 DEF Inv, ControlInv, ControlOK
<1>3. Inv /\ DecidedInv /\ [Next]_vars => DecidedInv'
  BY <1>2, DecidedStep
<1>4. Inv /\ DecidedInv /\ [Next]_vars =>
         [\A r \in Bills \X Items : row[r] = "complete" => row'[r] \in {"complete", "rejected"}]_vars
  BY <1>2, DecidedStep DEF Keeps
<1> QED BY <1>1, <1>3, <1>4, SessionInvariance, PTL DEF Spec, CompleteKept
=============================================================================
