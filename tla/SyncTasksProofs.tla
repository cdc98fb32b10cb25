-------------------------- MODULE SyncTasksProofs ---------------------------
(***************************************************************************)
(* For any number of tasks, items, failing calls and process deaths:       *)
(* checkpoints name only items a task has been through, a completed batch  *)
(* has been through all of them, and a final record stays.                 *)
(***************************************************************************)
EXTENDS SyncTasks, TLAPS

\* A task whose checkpoints are being copied resumes some task, and the body
\* of the loop is about some item.
Where(t) ==
    /\ pc[t] = "copy" => req[t].from \in Tasks
    /\ pc[t] \in {"ingest", "mark", "beat"} => cur[t] \in Items
WhereInv == \A t \in Tasks : Where(t)

\* Before the handler returns nothing says the task is over, and what Redis
\* says of an id before it is used is nothing.
StatusInv(t) ==
    /\ pc[t] = "new" => mem[t] = None
    /\ pc[t] \in {"new", "copy"} => rec[t] = None
    /\ mem[t] \in Terminal => pc[t] \in {"persist", "done"}
    /\ rec[t] \in Terminal => pc[t] \in {"done", "dead"}

\* What the handler has passed over or gone through, at each of its steps.
LoopInv(t) ==
    /\ ckpt[t] \subseteq tried[t]
    /\ skip[t] \subseteq tried[t]
    /\ pc[t] \in {"new", "copy"} => skip[t] = {}
    /\ pc[t] \in {"items", "ingest", "mark", "beat", "rest"} => ~req[t].dry
    /\ pc[t] \in {"mark", "beat"} => cur[t] \in tried[t]
    /\ pc[t] \in {"items", "mark", "beat"} => Items \ todo[t] \subseteq tried[t]
    /\ pc[t] = "ingest" => Items \ todo[t] \subseteq tried[t] \cup {cur[t]}
    /\ pc[t] = "rest" /\ req[t].index => Items \subseteq tried[t]

Covered(t) ==
    ("completed" \in {mem[t], rec[t]} /\ req[t].index /\ ~req[t].dry)
        => Items \subseteq tried[t]

TaskInv(t) == StatusInv(t) /\ LoopInv(t) /\ Covered(t)
Inv == TypeOK /\ WhereInv /\ \A t \in Tasks : TaskInv(t)

-----------------------------------------------------------------------------
\* What a coroutine's end leaves of its variables has their types.
LEMMA ForgetType ==
    ASSUME TypeOK, NEW ended \in SUBSET Tasks, Forget(ended)
    PROVE  /\ skip' \in [Tasks -> SUBSET Items]
           /\ todo' \in [Tasks -> SUBSET Items]
           /\ cur' \in [Tasks -> Items \cup {None}]
           /\ succ' \in [Tasks -> BOOLEAN]
           /\ beats' \in [Tasks -> 0..(WriteEvery - 1)]
<1>1. skip' \in [Tasks -> SUBSET Items] /\ todo' \in [Tasks -> SUBSET Items]
  BY DEF TypeOK, Forget
<1>2. cur' \in [Tasks -> Items \cup {None}]
  BY DEF TypeOK, Forget
<1>3. succ' \in [Tasks -> BOOLEAN]
  BY DEF TypeOK, Forget
<1>4. beats' \in [Tasks -> 0..(WriteEvery - 1)]
  BY SyncAssumption DEF TypeOK, Forget
<1> QED BY <1>1, <1>2, <1>3, <1>4

\* Each action of SyncTasks keeps the variables in their types.
LEMMA TypeStep == TypeOK /\ WhereInv /\ [Next]_vars => TypeOK'
<1> SUFFICES ASSUME TypeOK, WhereInv, [Next]_vars PROVE TypeOK'
  OBVIOUS
<1> USE SyncAssumption DEF TypeOK, PcStates, Live, Statuses, Terminal, Goto, At,
        Rest, NoFault, Fault
<1>1. ASSUME NEW t \in Tasks, NEW r \in Asked, Accept(t, r) PROVE TypeOK'
  <2>1. r \in Requests
    BY AskedAssumption
  <2> QED BY <1>1, <2>1 DEF Accept, progress, local
<1>2. ASSUME NEW t \in Tasks, CopyCheckpoints(t) PROVE TypeOK'
  <2>1. req[t].from \in Tasks
    BY <1>2 DEF CopyCheckpoints, WhereInv, Where
  <2> QED BY <1>2, <2>1 DEF CopyCheckpoints
<1>3. ASSUME NEW t \in Tasks, RecordAccepted(t) PROVE TypeOK'
  BY <1>3 DEF RecordAccepted, SetSyncTask, progress, local
<1>4. ASSUME NEW t \in Tasks, Announce(t) PROVE TypeOK'
  BY <1>4 DEF Announce, SetSyncTask, progress, local
<1>5. ASSUME NEW t \in Tasks, DryRun(t) PROVE TypeOK'
  <2>1. Forget({t})
    BY <1>5 DEF DryRun, Return
  <2> QED BY <1>5, <2>1, ForgetType DEF DryRun, Return
<1>6. ASSUME NEW t \in Tasks, ListItems(t) PROVE TypeOK'
  BY <1>6 DEF ListItems
<1>7. ASSUME NEW t \in Tasks, IngestLegislators(t) PROVE TypeOK'
  BY <1>7 DEF IngestLegislators, IngestBatch
<1>8. ASSUME NEW t \in Tasks, IngestOrganizations(t) PROVE TypeOK'
  <2>1. Forget({t})
    BY <1>8 DEF IngestOrganizations, IngestBatch, Return
  <2> QED BY <1>8, <2>1, ForgetType DEF IngestOrganizations, IngestBatch, Return
<1>9. ASSUME NEW t \in Tasks, IngestTraining(t) PROVE TypeOK'
  <2>1. Forget({t})
    BY <1>9 DEF IngestTraining, IngestBatch, Return
  <2> QED BY <1>9, <2>1, ForgetType DEF IngestTraining, IngestBatch, Return
<1>10. ASSUME NEW t \in Tasks, NEW i \in Items, SkipItem(t, i) PROVE TypeOK'
  BY <1>10 DEF SkipItem, Progress, SetSyncTask
<1>11. ASSUME NEW t \in Tasks, NEW i \in Items, TakeItem(t, i) PROVE TypeOK'
  BY <1>11 DEF TakeItem
<1>12. ASSUME NEW t \in Tasks, Ingest(t) PROVE TypeOK'
  <2>1. cur[t] \in Items
    BY <1>12 DEF Ingest, WhereInv, Where
  <2>2. PICK counted \in BOOLEAN : succ' = [succ EXCEPT ![t] = @ \/ counted]
    BY <1>12 DEF Ingest
  <2>3. succ' \in [Tasks -> BOOLEAN]
    BY <2>2
  <2>4. tried' \in [Tasks -> SUBSET Items] /\ cur' \in [Tasks -> Items \cup {None}]
    BY <1>12, <2>1 DEF Ingest
  <2> QED BY <1>12, <2>3, <2>4 DEF Ingest
<1>13. ASSUME NEW t \in Tasks, Checkpoint(t) PROVE TypeOK'
  <2>1. cur[t] \in Items
    BY <1>13 DEF Checkpoint, WhereInv, Where
  <2> QED BY <1>13, <2>1 DEF Checkpoint
<1>14. ASSUME NEW t \in Tasks, ItemBeat(t) PROVE TypeOK'
  BY <1>14 DEF ItemBeat, Progress, SetSyncTask
<1>15. ASSUME NEW t \in Tasks, LoopEnds(t) PROVE TypeOK'
  BY <1>15 DEF LoopEnds, progress, local
<1>16. ASSUME NEW t \in Tasks, HandlerReturns(t) PROVE TypeOK'
  <2>1. Forget({t})
    BY <1>16 DEF HandlerReturns, Return
  <2> QED BY <1>16, <2>1, ForgetType DEF HandlerReturns, Return
<1>17. ASSUME NEW t \in Tasks, Persist(t) PROVE TypeOK'
  BY <1>17 DEF Persist, SetSyncTask, progress, local
<1>18. ASSUME NEW t \in Tasks, PhaseBeat(t) PROVE TypeOK'
  BY <1>18 DEF PhaseBeat, Progress, SetSyncTask
<1>19. ASSUME NEW t \in Tasks, HandlerRaises(t) PROVE TypeOK'
  <2>1. Forget({t})
    BY <1>19 DEF HandlerRaises, Return
  <2> QED BY <1>19, <2>1, ForgetType DEF HandlerRaises, Return
<1>20. CASE Crash
  <2>1. Forget(Tasks)
    BY <1>20 DEF Crash
  <2>2. pc' \in [Tasks -> PcStates] /\ mem' \in [Tasks -> Statuses]
    BY <1>20 DEF Crash
  <2>3. crashes' \in 0..MaxCrashes
    BY <1>20 DEF Crash
  <2>4. up' \in BOOLEAN /\ watchdog' \in {"sleep", "sweep"}
    BY <1>20, Zenon DEF Crash
  <2>5. UNCHANGED <<req, rec, ckpt, tried, faults>>
    BY <1>20 DEF Crash
  <2> QED BY <2>1, <2>2, <2>3, <2>4, <2>5, ForgetType
<1>21. CASE Restart
  BY <1>21 DEF Restart, control, progress, local
<1>22. CASE Wake
  BY <1>22 DEF Wake, control, progress, local
<1>23. CASE Sweep
  BY <1>23 DEF Sweep, control, progress, local
<1>24. CASE UNCHANGED vars
  BY <1>24 DEF vars, control, progress, local
<1> QED
  BY <1>1, <1>2, <1>3, <1>4, <1>5, <1>6, <1>7, <1>8, <1>9, <1>10, <1>11,
     <1>12, <1>13, <1>14, <1>15, <1>16, <1>17, <1>18, <1>19, <1>20, <1>21,
     <1>22, <1>23, <1>24
  DEF Next, TaskStep

-----------------------------------------------------------------------------
\* Nothing but its own steps changes what the invariant says of a task.
LEMMA OtherTask ==
    ASSUME NEW t \in Tasks, TaskInv(t), Where(t),
           pc'[t] = pc[t], req'[t] = req[t], mem'[t] = mem[t], rec'[t] = rec[t],
           ckpt'[t] = ckpt[t], skip'[t] = skip[t], todo'[t] = todo[t],
           cur'[t] = cur[t], tried'[t] = tried[t]
    PROVE  TaskInv(t)' /\ Where(t)'
BY DEF TaskInv, StatusInv, LoopInv, Covered, Where
\* A step keeps what the invariant says of every task: its own by the step's
\* assignments, the others by OtherTask.
LEMMA TaskStepInv ==
    Inv /\ [Next]_vars => \A u \in Tasks : TaskInv(u)' /\ Where(u)'
<1> SUFFICES ASSUME Inv, [Next]_vars, NEW u \in Tasks
             PROVE  TaskInv(u)' /\ Where(u)'
  OBVIOUS
<1> USE DEF Goto, At, Rest, NoFault, Fault
<1>0. TypeOK /\ TaskInv(u) /\ Where(u)
  BY DEF Inv, WhereInv
<1>1. ASSUME NEW t \in Tasks, NEW r \in Asked, Accept(t, r)
      PROVE  TaskInv(u)' /\ Where(u)'
  <2>1. CASE u # t
    BY <1>0, <1>1, <2>1, OtherTask DEF TypeOK, Accept, progress, local
  <2>2. CASE u = t
    <3>1. r \in Requests /\ r.from \in Tasks \cup {None}
      BY AskedAssumption DEF Requests
    <3> QED
      BY <1>0, <1>1, <2>2, <3>1, SyncAssumption
      DEF TypeOK, TaskInv, StatusInv, LoopInv, Covered, Where, Accept, Terminal, progress, local
  <2> QED BY <2>1, <2>2
<1>2. ASSUME NEW t \in Tasks, CopyCheckpoints(t)
      PROVE  TaskInv(u)' /\ Where(u)'
  <2>1. CASE u # t
    BY <1>0, <1>2, <2>1, OtherTask DEF TypeOK, CopyCheckpoints
  <2>2. CASE u = t
    <3>1. req[t].from \in Tasks /\ ckpt[req[t].from] \subseteq tried[req[t].from]
      BY <1>2 DEF CopyCheckpoints, Inv, WhereInv, Where, TaskInv, LoopInv
    <3> QED
      BY <1>0, <1>2, <2>2, <3>1, SyncAssumption
      DEF TypeOK, TaskInv, StatusInv, LoopInv, Covered, Where, CopyCheckpoints, Terminal
  <2> QED BY <2>1, <2>2
<1>3. ASSUME NEW t \in Tasks, RecordAccepted(t)
      PROVE  TaskInv(u)' /\ Where(u)'
  <2>1. CASE u # t
    BY <1>0, <1>3, <2>1, OtherTask DEF TypeOK, RecordAccepted, SetSyncTask, progress, local
  <2>2. CASE u = t
    BY <1>0, <1>3, <2>2
    DEF TypeOK, TaskInv, StatusInv, LoopInv, Covered, Where, RecordAccepted, SetSyncTask, progress, local
  <2> QED BY <2>1, <2>2
<1>4. ASSUME NEW t \in Tasks, Announce(t)
      PROVE  TaskInv(u)' /\ Where(u)'
  <2>1. CASE u # t
    BY <1>0, <1>4, <2>1, OtherTask DEF TypeOK, Announce, SetSyncTask, progress, local
  <2>2. CASE u = t
    BY <1>0, <1>4, <2>2
    DEF TypeOK, TaskInv, StatusInv, LoopInv, Covered, Where, Announce, SetSyncTask,
        Terminal, progress, local
  <2> QED BY <2>1, <2>2
<1>5. ASSUME NEW t \in Tasks, DryRun(t)
      PROVE  TaskInv(u)' /\ Where(u)'
  <2>1. CASE u # t
    BY <1>0, <1>5, <2>1, OtherTask DEF TypeOK, DryRun, Return, Forget
  <2>2. CASE u = t
    BY <1>0, <1>5, <2>2
    DEF TypeOK, TaskInv, StatusInv, LoopInv, Covered, Where, DryRun, Return, Forget
  <2> QED BY <2>1, <2>2
<1>6. ASSUME NEW t \in Tasks, ListItems(t)
      PROVE  TaskInv(u)' /\ Where(u)'
  <2>1. CASE u # t
    BY <1>0, <1>6, <2>1, OtherTask DEF TypeOK, ListItems
  <2>2. CASE u = t
    BY <1>0, <1>6, <2>2
    DEF TypeOK, TaskInv, StatusInv, LoopInv, Covered, Where, ListItems
  <2> QED BY <2>1, <2>2
<1>7. ASSUME NEW t \in Tasks, IngestLegislators(t)
      PROVE  TaskInv(u)' /\ Where(u)'
  <2>1. CASE u # t
    BY <1>0, <1>7, <2>1, OtherTask DEF TypeOK, IngestLegislators, IngestBatch
  <2>2. CASE u = t
    BY <1>0, <1>7, <2>2
    DEF TypeOK, TaskInv, StatusInv, LoopInv, Covered, Where, IngestLegislators, IngestBatch
  <2> QED BY <2>1, <2>2
<1>8. ASSUME NEW t \in Tasks, IngestOrganizations(t)
      PROVE  TaskInv(u)' /\ Where(u)'
  <2>1. CASE u # t
    BY <1>0, <1>8, <2>1, OtherTask DEF TypeOK, IngestOrganizations, IngestBatch, Return, Forget
  <2>2. CASE u = t
    BY <1>0, <1>8, <2>2
    DEF TypeOK, TaskInv, StatusInv, LoopInv, Covered, Where, IngestOrganizations, IngestBatch, Return, Forget
  <2> QED BY <2>1, <2>2
<1>9. ASSUME NEW t \in Tasks, IngestTraining(t)
      PROVE  TaskInv(u)' /\ Where(u)'
  <2>1. CASE u # t
    BY <1>0, <1>9, <2>1, OtherTask DEF TypeOK, IngestTraining, IngestBatch, Return, Forget
  <2>2. CASE u = t
    BY <1>0, <1>9, <2>2
    DEF TypeOK, TaskInv, StatusInv, LoopInv, Covered, Where, IngestTraining, IngestBatch, Return, Forget
  <2> QED BY <2>1, <2>2
<1>10. ASSUME NEW t \in Tasks, NEW i \in Items, SkipItem(t, i)
      PROVE  TaskInv(u)' /\ Where(u)'
  <2>1. CASE u # t
    BY <1>0, <1>10, <2>1, OtherTask DEF TypeOK, SkipItem, Progress, SetSyncTask
  <2>2. CASE u = t
    BY <1>0, <1>10, <2>2
    DEF TypeOK, TaskInv, StatusInv, LoopInv, Covered, Where, SkipItem, Progress, SetSyncTask
  <2> QED BY <2>1, <2>2
<1>11. ASSUME NEW t \in Tasks, NEW i \in Items, TakeItem(t, i)
      PROVE  TaskInv(u)' /\ Where(u)'
  <2>1. CASE u # t
    BY <1>0, <1>11, <2>1, OtherTask DEF TypeOK, TakeItem
  <2>2. CASE u = t
    BY <1>0, <1>11, <2>2
    DEF TypeOK, TaskInv, StatusInv, LoopInv, Covered, Where, TakeItem
  <2> QED BY <2>1, <2>2
<1>12. ASSUME NEW t \in Tasks, Ingest(t)
      PROVE  TaskInv(u)' /\ Where(u)'
  <2>1. CASE u # t
    BY <1>0, <1>12, <2>1, OtherTask DEF TypeOK, Ingest
  <2>2. CASE u = t
    BY <1>0, <1>12, <2>2
    DEF TypeOK, TaskInv, StatusInv, LoopInv, Covered, Where, Ingest
  <2> QED BY <2>1, <2>2
<1>13. ASSUME NEW t \in Tasks, Checkpoint(t)
      PROVE  TaskInv(u)' /\ Where(u)'
  <2>1. CASE u # t
    BY <1>0, <1>13, <2>1, OtherTask DEF TypeOK, Checkpoint
  <2>2. CASE u = t
    BY <1>0, <1>13, <2>2
    DEF TypeOK, TaskInv, StatusInv, LoopInv, Covered, Where, Checkpoint
  <2> QED BY <2>1, <2>2
<1>14. ASSUME NEW t \in Tasks, ItemBeat(t)
      PROVE  TaskInv(u)' /\ Where(u)'
  <2>1. CASE u # t
    BY <1>0, <1>14, <2>1, OtherTask DEF TypeOK, ItemBeat, Progress, SetSyncTask
  <2>2. CASE u = t
    BY <1>0, <1>14, <2>2
    DEF TypeOK, TaskInv, StatusInv, LoopInv, Covered, Where, ItemBeat, Progress, SetSyncTask
  <2> QED BY <2>1, <2>2
<1>15. ASSUME NEW t \in Tasks, LoopEnds(t)
      PROVE  TaskInv(u)' /\ Where(u)'
  <2>1. CASE u # t
    BY <1>0, <1>15, <2>1, OtherTask DEF TypeOK, LoopEnds, progress, local
  <2>2. CASE u = t
    BY <1>0, <1>15, <2>2
    DEF TypeOK, TaskInv, StatusInv, LoopInv, Covered, Where, LoopEnds, progress, local
  <2> QED BY <2>1, <2>2
<1>16. ASSUME NEW t \in Tasks, HandlerReturns(t)
      PROVE  TaskInv(u)' /\ Where(u)'
  <2>1. CASE u # t
    BY <1>0, <1>16, <2>1, OtherTask DEF TypeOK, HandlerReturns, Return, Forget
  <2>2. CASE u = t
    BY <1>0, <1>16, <2>2
    DEF TypeOK, TaskInv, StatusInv, LoopInv, Covered, Where, HandlerReturns, Return, Forget
  <2> QED BY <2>1, <2>2
<1>17. ASSUME NEW t \in Tasks, Persist(t)
      PROVE  TaskInv(u)' /\ Where(u)'
  <2>1. CASE u # t
    BY <1>0, <1>17, <2>1, OtherTask DEF TypeOK, Persist, SetSyncTask, progress, local
  <2>2. CASE u = t
    BY <1>0, <1>17, <2>2
    DEF TypeOK, TaskInv, StatusInv, LoopInv, Covered, Where, Persist, SetSyncTask, progress, local
  <2> QED BY <2>1, <2>2
<1>18. ASSUME NEW t \in Tasks, PhaseBeat(t)
      PROVE  TaskInv(u)' /\ Where(u)'
  <2>1. CASE u # t
    BY <1>0, <1>18, <2>1, OtherTask DEF TypeOK, PhaseBeat, Progress, SetSyncTask
  <2>2. CASE u = t
    BY <1>0, <1>18, <2>2
    DEF TypeOK, TaskInv, StatusInv, LoopInv, Covered, Where, PhaseBeat, Progress, SetSyncTask
  <2> QED BY <2>1, <2>2
<1>19. ASSUME NEW t \in Tasks, HandlerRaises(t)
      PROVE  TaskInv(u)' /\ Where(u)'
  <2>1. CASE u # t
    BY <1>0, <1>19, <2>1, OtherTask DEF TypeOK, HandlerRaises, MayRaise, Return, Forget
  <2>2. CASE u = t
    BY <1>0, <1>19, <2>2
    DEF TypeOK, TaskInv, StatusInv, LoopInv, Covered, Where, HandlerRaises, MayRaise, Return, Forget
  <2> QED BY <2>1, <2>2
<1>20. CASE Crash
  <2>1. /\ mem'[u] = None /\ skip'[u] = {}
        /\ pc'[u] = IF pc[u] \in Live THEN "dead" ELSE pc[u]
        /\ UNCHANGED <<req, rec, ckpt, tried>>
    BY <1>20 DEF Crash, Forget
  <2>2. None \notin Terminal
    BY SyncAssumption DEF Terminal
  <2>3. StatusInv(u)'
    BY <1>0, <2>1, <2>2 DEF TypeOK, TaskInv, StatusInv, Live, PcStates
  <2>4. LoopInv(u)' /\ Where(u)'
    BY <1>0, <2>1 DEF TypeOK, TaskInv, LoopInv, Where, Live, PcStates
  <2>5. Covered(u)'
    BY <1>0, <2>1, <2>2 DEF TaskInv, Covered, Terminal
  <2> QED BY <2>3, <2>4, <2>5 DEF TaskInv
<1>21. CASE Restart \/ Wake \/ Sweep \/ UNCHANGED vars
  BY <1>0, <1>21, OtherTask DEF Restart, Wake, Sweep, vars, control, progress, local
<1> QED
  BY <1>1, <1>2, <1>3, <1>4, <1>5, <1>6, <1>7, <1>8, <1>9, <1>10, <1>11, <1>12, <1>13, <1>14, <1>15, <1>16, <1>17, <1>18, <1>19, <1>20, <1>21
  DEF Next, TaskStep

\* The invariant holds from the start and every step keeps it.
THEOREM SyncInvariance == Spec => []Inv
<1>1. Init => Inv
  <2> SUFFICES ASSUME Init PROVE Inv
    OBVIOUS
  <2>1. NoRequest \in Requests
    BY DEF NoRequest, Requests, Kinds, Looping
  <2>2. TypeOK
    BY <2>1, SyncAssumption DEF Init, TypeOK, PcStates, Statuses
  <2>3. ASSUME NEW t \in Tasks PROVE TaskInv(t) /\ Where(t)
    BY SyncAssumption
    DEF Init, TaskInv, StatusInv, LoopInv, Covered, Where, Terminal
  <2> QED BY <2>2, <2>3 DEF Inv, WhereInv
<1>2. Inv /\ [Next]_vars => Inv'
  BY TypeStep, TaskStepInv DEF Inv, WhereInv
<1> QED BY <1>1, <1>2, PTL DEF Spec

\* Type correctness of the batch sync tasks.
THEOREM SyncTypes == Spec => []TypeOK
<1>1. Inv => TypeOK
  BY DEF Inv
<1> QED BY <1>1, SyncInvariance, PTL

\* A checkpoint, copied or not, names an item whose documents were handed to
\* the index (handlers/bill.py:385-394, redis_store.copy_sync_checkpoints).
THEOREM SyncCheckpoints == Spec => []CheckpointedWasTried
<1>1. Inv => CheckpointedWasTried
  BY DEF Inv, TaskInv, LoopInv, CheckpointedWasTried
<1> QED BY <1>1, SyncInvariance, PTL

\* "completed", in memory or in Redis, means that the batch, with what it
\* resumes, has been through every item listed (sync_unified.py:210-223).
THEOREM SyncCompleted == Spec => []CompletedCoversItems
<1>1. Inv => CompletedCoversItems
  BY DEF Inv, TaskInv, Covered, CompletedCoversItems
<1> QED BY <1>1, SyncInvariance, PTL

\* Once Redis says a task is over, no later write of sync_unified.py says
\* otherwise.
THEOREM SyncFinal == Spec => FinishedStays
<1>1. ASSUME Inv, [Next]_vars, NEW t \in Tasks, rec[t] \in Terminal
      PROVE  rec'[t] = rec[t]
  <2>1. pc[t] \in {"done", "dead"} /\ TypeOK
    BY <1>1 DEF Inv, TaskInv, StatusInv
  <2>2. CASE \E u \in Tasks : TaskStep(u) \/ PhaseBeat(u)
    <3>1. PICK u \in Tasks : TaskStep(u) \/ PhaseBeat(u)
      BY <2>2
    <3>2. pc[u] \notin {"done", "dead"} /\ (rec' = rec \/ rec' = [rec EXCEPT ![u] = mem'[u]])
      BY <3>1 DEF TaskStep, CopyCheckpoints, RecordAccepted, Announce, DryRun, ListItems,
         IngestLegislators, IngestOrganizations, IngestTraining, IngestBatch, SkipItem,
         TakeItem, Ingest, Checkpoint, ItemBeat, LoopEnds, HandlerReturns, Persist,
         PhaseBeat, Progress, SetSyncTask, At
    <3> QED BY <2>1, <3>2 DEF TypeOK
  <2>3. CASE rec' = rec
    BY <2>3
  <2> QED
    BY <1>1, <2>2, <2>3
    DEF Next, Accept, HandlerRaises, Crash, Restart, Wake, Sweep, vars, control
<1>2. Inv /\ [Next]_vars
        => [\A t \in Tasks : rec[t] \in Terminal => rec'[t] = rec[t]]_vars
  BY <1>1
<1> QED BY <1>2, SyncInvariance, PTL DEF Spec, FinishedStays
=============================================================================
