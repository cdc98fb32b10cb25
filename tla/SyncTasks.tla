------------------------------ MODULE SyncTasks -----------------------------
(***************************************************************************)
(* Background batch syncs: POST /unified in batch mode accepts a task and  *)
(* runs it in the background (api/routes/sync_unified.py), a handler walks *)
(* the items and checkpoints the bills it has been through                 *)
(* (sync/handlers/), a later task may resume an earlier one from its       *)
(* checkpoints, and the watchdog of app.py looks for tasks that died.      *)
(*                                                                         *)
(* The status of a task lives twice: in _background_tasks, lost with the   *)
(* process, and in Redis, where every write is best effort.  Webflow,      *)
(* OpenStates and Pinecone are the outcomes of the calls made to them.     *)
(***************************************************************************)
EXTENDS Naturals

CONSTANTS
    Tasks,       \* task ids
    Items,       \* what the listing returns after its filters
    Asked,       \* the requests made, a subset of Requests
    None,        \* no task, no item, no status
    WriteEvery,  \* progress calls per write of the record to Redis
    MaxFaults,   \* bound: calls that fail
    MaxCrashes   \* bound: process deaths

ASSUME SyncAssumption ==
    /\ None \notin Tasks /\ None \notin Items
    /\ None \notin {"accepted", "running", "completed", "failed"}
    /\ WriteEvery \in Nat \ {0, 1}
    /\ MaxFaults \in Nat /\ MaxCrashes \in Nat

VARIABLES
    up,        \* the process is running
    pc,        \* per task: where its handler stands
    req,       \* per task: what was asked for
    mem,       \* per task: its status in _background_tasks
    rec,       \* per task: its status in Redis
    ckpt,      \* per task: its checkpoint set in Redis
    skip,      \* per task: completed_ids, as read when it started
    todo,      \* per task: items the loop has not come to
    cur,       \* per task: the item in the loop's body
    succ,      \* per task: total_successful > 0
    beats,     \* per task: progress calls since the last write
    tried,     \* history: items it, or what it resumes, has been through
    watchdog,  \* the watchdog of this process
    faults,
    crashes

control  == <<pc, req, mem, rec>>
local    == <<skip, todo, cur, succ, beats>>
progress == <<ckpt, local, tried>>
vars == <<up, control, progress, watchdog, faults, crashes>>

\* ContentType.  Bills and web pages are ingested one by one, the others in
\* one call; only bills are checkpointed.
Looping  == {"bill", "webpage"}
Kinds    == Looping \cup {"legislator", "organization", "training"}
\* What of the request the control depends on: index is target # webflow.
Requests == [kind : Kinds, index : BOOLEAN, dry : BOOLEAN,
             from : Tasks \cup {None}]
ASSUME AskedAssumption == Asked \subseteq Requests
Terminal == {"completed", "failed"}
Statuses == Terminal \cup {None, "accepted", "running"}
Live     == {"copy", "record", "queued", "list", "items",
             "ingest", "mark", "beat", "rest", "persist"}
PcStates == Live \cup {"new", "done", "dead"}

TypeOK ==
    /\ up \in BOOLEAN
    /\ pc \in [Tasks -> PcStates]
    /\ req \in [Tasks -> Requests]
    /\ mem \in [Tasks -> Statuses]
    /\ rec \in [Tasks -> Statuses]
    /\ ckpt \in [Tasks -> SUBSET Items]
    /\ skip \in [Tasks -> SUBSET Items]
    /\ todo \in [Tasks -> SUBSET Items]
    /\ cur \in [Tasks -> Items \cup {None}]
    /\ succ \in [Tasks -> BOOLEAN]
    /\ beats \in [Tasks -> 0..(WriteEvery - 1)]
    /\ tried \in [Tasks -> SUBSET Items]
    /\ watchdog \in {"sleep", "sweep"}
    /\ faults \in 0..MaxFaults
    /\ crashes \in 0..MaxCrashes

NoRequest == [kind |-> "bill", index |-> TRUE, dry |-> FALSE, from |-> None]

Init ==
    /\ up = TRUE
    /\ pc = [t \in Tasks |-> "new"]
    /\ req = [t \in Tasks |-> NoRequest]
    /\ mem = [t \in Tasks |-> None]
    /\ rec = [t \in Tasks |-> None]
    /\ ckpt = [t \in Tasks |-> {}]
    /\ skip = [t \in Tasks |-> {}]
    /\ todo = [t \in Tasks |-> {}]
    /\ cur = [t \in Tasks |-> None]
    /\ succ = [t \in Tasks |-> FALSE]
    /\ beats = [t \in Tasks |-> 0]
    /\ tried = [t \in Tasks |-> {}]
    /\ watchdog = "sleep"
    /\ faults = 0
    /\ crashes = 0

At(t, where)   == up /\ pc[t] = where
Goto(t, where) == pc' = [pc EXCEPT ![t] = where]
Fault   == faults < MaxFaults /\ faults' = faults + 1
NoFault == faults' = faults
Rest    == UNCHANGED <<up, req, watchdog, crashes>>

\* set_sync_task: the record becomes what memory holds, unless Redis fails.
SetSyncTask(t) ==
    \/ rec' = [rec EXCEPT ![t] = mem'[t]] /\ NoFault
    \/ rec' = rec /\ Fault

-----------------------------------------------------------------------------
(* sync_unified: the request.                                              *)

\* The task exists in memory, under a fresh id, before anything is awaited.
\* Only the bill handler looks at target.  Resuming an id that no task has
\* copies nothing and is the same as resuming none.
Accept(t, r) ==
    /\ At(t, "new")
    /\ t = CHOOSE fresh \in Tasks : pc[fresh] = "new"
    /\ r.index \/ r.kind = "bill"
    /\ r.from # None => pc[r.from] # "new"
    /\ req' = [req EXCEPT ![t] = r]
    /\ mem' = [mem EXCEPT ![t] = "accepted"]
    /\ Goto(t, IF r.from = None THEN "record" ELSE "copy")
    /\ UNCHANGED <<up, rec, progress, watchdog, faults, crashes>>

\* copy_sync_checkpoints.
CopyCheckpoints(t) ==
    /\ At(t, "copy")
    /\ \/ /\ ckpt' = [ckpt EXCEPT ![t] = ckpt[req[t].from]]
          /\ tried' = [tried EXCEPT ![t] = tried[req[t].from]]
          /\ NoFault
       \/ UNCHANGED <<ckpt, tried>> /\ Fault
    /\ Goto(t, "record")
    /\ Rest /\ UNCHANGED <<mem, rec, skip, todo, cur, succ, beats>>

RecordAccepted(t) ==
    /\ At(t, "record")
    /\ mem' = mem
    /\ SetSyncTask(t)
    /\ Goto(t, "queued")
    /\ Rest /\ UNCHANGED progress

-----------------------------------------------------------------------------
(* _run_batch_sync_background and the handlers' sync_batch.                *)

Announce(t) ==
    /\ At(t, "queued")
    /\ mem' = [mem EXCEPT ![t] = "running"]
    /\ SetSyncTask(t)
    /\ Goto(t, "list")
    /\ Rest /\ UNCHANGED progress

\* The handler's variables are gone with its coroutine.
Forget(ended) ==
    /\ skip' = [t \in Tasks |-> IF t \in ended THEN {} ELSE skip[t]]
    /\ todo' = [t \in Tasks |-> IF t \in ended THEN {} ELSE todo[t]]
    /\ cur' = [t \in Tasks |-> IF t \in ended THEN None ELSE cur[t]]
    /\ succ' = [t \in Tasks |-> IF t \in ended THEN FALSE ELSE succ[t]]
    /\ beats' = [t \in Tasks |-> IF t \in ended THEN 0 ELSE beats[t]]

\* The handler's result becomes the status; the record is written next.
Return(t, success) ==
    /\ mem' = [mem EXCEPT ![t] = IF success THEN "completed" ELSE "failed"]
    /\ Forget({t})
    /\ Goto(t, "persist")

\* A dry run lists the items and returns.
DryRun(t) ==
    /\ At(t, "list")
    /\ req[t].dry
    /\ Return(t, TRUE)
    /\ Rest /\ NoFault /\ UNCHANGED <<rec, ckpt, tried>>

\* The items are listed; a bill sync that resumes reads its own checkpoints,
\* the copy, and finds none when Redis fails.
ListItems(t) ==
    /\ At(t, "list")
    /\ ~req[t].dry
    /\ todo' = [todo EXCEPT ![t] = Items]
    /\ IF req[t].kind = "bill" /\ req[t].from # None
       THEN \/ skip' = [skip EXCEPT ![t] = ckpt[t]] /\ NoFault
            \/ skip' = skip /\ Fault
       ELSE skip' = skip /\ NoFault
    /\ Goto(t, IF req[t].kind = "bill" /\ ~req[t].index
               THEN "rest" ELSE "items")
    /\ Rest /\ UNCHANGED <<mem, rec, ckpt, cur, succ, beats, tried>>

\* One ingest_batch call for everything listed.  A document whose chunking
\* fails is not counted; documents_processed counts one whose upsert failed.
IngestBatch(t, kind, success) ==
    /\ At(t, "items")
    /\ req[t].kind = kind
    /\ tried' = [tried EXCEPT ![t] = Items]
    /\ \/ success = (Items # {}) /\ NoFault
       \/ success = FALSE /\ Fault
    /\ Rest /\ UNCHANGED <<rec, ckpt>>

\* Legislators go on to their sponsored bills and votes.
IngestLegislators(t) ==
    \E success \in BOOLEAN :
        /\ IngestBatch(t, "legislator", success)
        /\ todo' = [todo EXCEPT ![t] = {}]
        /\ succ' = [succ EXCEPT ![t] = success]
        /\ Goto(t, "rest")
        /\ UNCHANGED <<mem, skip, cur, beats>>

IngestOrganizations(t) ==
    \E success \in BOOLEAN :
        IngestBatch(t, "organization", success) /\ Return(t, success)

\* A file that cannot be read or decoded is an error like a failed chunking.
IngestTraining(t) ==
    \E success \in BOOLEAN :
        IngestBatch(t, "training", success) /\ Return(t, success)

\* The progress callback: every WriteEvery-th call writes the record.
Progress(t) ==
    IF beats[t] + 1 = WriteEvery
    THEN beats' = [beats EXCEPT ![t] = 0] /\ SetSyncTask(t)
    ELSE beats' = [beats EXCEPT ![t] = @ + 1] /\ rec' = rec /\ NoFault

\* A bill the resumed task had checkpointed counts as a success.
SkipItem(t, i) ==
    /\ At(t, "items")
    /\ req[t].kind = "bill"
    /\ i \in todo[t] \cap skip[t]
    /\ todo' = [todo EXCEPT ![t] = @ \ {i}]
    /\ succ' = [succ EXCEPT ![t] = TRUE]
    /\ mem' = mem
    /\ Progress(t)
    /\ Rest /\ UNCHANGED <<pc, ckpt, skip, cur, tried>>

\* Mutant: the checkpoint is taken before the ingest.
TakeItemMarked(t, i) ==
    /\ At(t, "items")
    /\ req[t].kind \in Looping
    /\ i \in todo[t] \ skip[t]
    /\ todo' = [todo EXCEPT ![t] = @ \ {i}]
    /\ cur' = [cur EXCEPT ![t] = i]
    /\ ckpt' = [ckpt EXCEPT ![t] = @ \cup {i}]
    /\ Goto(t, "ingest")
    /\ Rest /\ NoFault
    /\ UNCHANGED <<mem, rec, skip, succ, beats, tried>>

TakeItem(t, i) ==
    /\ At(t, "items")
    /\ req[t].kind \in Looping
    /\ i \in todo[t] \ skip[t]
    /\ todo' = [todo EXCEPT ![t] = @ \ {i}]
    /\ cur' = [cur EXCEPT ![t] = i]
    /\ Goto(t, "ingest")
    /\ Rest /\ NoFault
    /\ UNCHANGED <<mem, rec, ckpt, skip, succ, beats, tried>>

\* The documents of one item are handed to the index.  The item is counted,
\* also when only the upsert failed; or it is not, for it has no documents or
\* its failure was added to the errors.
Ingest(t) ==
    /\ At(t, "ingest")
    /\ tried' = [tried EXCEPT ![t] = @ \cup {cur[t]}]
    /\ \E counted \in BOOLEAN : succ' = [succ EXCEPT ![t] = @ \/ counted]
    /\ NoFault
    /\ IF req[t].kind = "bill"
       THEN Goto(t, "mark") /\ cur' = cur
       ELSE Goto(t, "items") /\ cur' = [cur EXCEPT ![t] = None]
    /\ Rest /\ UNCHANGED <<mem, rec, ckpt, skip, todo, beats>>

\* add_sync_checkpoint: after the ingest, whatever its errors.
Checkpoint(t) ==
    /\ At(t, "mark")
    /\ \/ ckpt' = [ckpt EXCEPT ![t] = @ \cup {cur[t]}] /\ NoFault
       \/ ckpt' = ckpt /\ Fault
    /\ Goto(t, "beat")
    /\ Rest /\ UNCHANGED <<mem, rec, skip, todo, cur, succ, beats, tried>>

ItemBeat(t) ==
    /\ At(t, "beat")
    /\ mem' = mem
    /\ Progress(t)
    /\ cur' = [cur EXCEPT ![t] = None]
    /\ Goto(t, "items")
    /\ Rest /\ UNCHANGED <<ckpt, skip, todo, succ, tried>>

LoopEnds(t) ==
    /\ At(t, "items")
    /\ req[t].kind \in Looping
    /\ todo[t] = {}
    /\ Goto(t, "rest")
    /\ Rest /\ NoFault /\ UNCHANGED <<mem, rec, progress>>

\* Mutant: a phase's progress write is not awaited and may come last.
PhaseBeatDetached(t) ==
    /\ up /\ pc[t] \in {"rest", "done"}
    /\ req[t].kind = "bill"
    /\ rec' = [rec EXCEPT ![t] = "running"]
    /\ Rest /\ NoFault /\ UNCHANGED <<pc, mem, progress>>

\* The OpenStates, version and status phases of a bill sync report progress.
\* The other handlers report once at most, which never reaches Redis.
PhaseBeat(t) ==
    /\ At(t, "rest")
    /\ req[t].kind = "bill"
    /\ mem' = mem
    /\ Progress(t)
    /\ Rest /\ UNCHANGED <<pc, ckpt, skip, todo, cur, succ, tried>>

\* Mutant: a handler without a success never returns.
HandlerReturnsSuccess(t) ==
    /\ At(t, "rest")
    /\ succ[t]
    /\ Return(t, TRUE)
    /\ Rest /\ NoFault /\ UNCHANGED <<rec, ckpt, tried>>

\* success = total_successful > 0: never of a bill sync with target webflow.
HandlerReturns(t) ==
    /\ At(t, "rest")
    /\ Return(t, succ[t])
    /\ Rest /\ NoFault /\ UNCHANGED <<rec, ckpt, tried>>

\* Where a handler's call can raise: caught in the handler or in
\* _run_batch_sync_background, and the task failed.  The loop over the pages
\* catches per page.
MayRaise(t) ==
    \/ pc[t] = "list"
    \/ pc[t] = "items" /\ req[t].kind \notin Looping
    \/ pc[t] = "ingest" /\ req[t].kind = "bill"
    \/ pc[t] = "rest" /\ req[t].kind # "webpage"

\* Mutant: the except clause keeps the successes counted so far.
HandlerRaisesKept(t) ==
    /\ up /\ MayRaise(t)
    /\ Return(t, succ[t])
    /\ Fault
    /\ Rest /\ UNCHANGED <<rec, ckpt, tried>>

HandlerRaises(t) ==
    /\ up /\ MayRaise(t)
    /\ Return(t, FALSE)
    /\ Fault
    /\ Rest /\ UNCHANGED <<rec, ckpt, tried>>

Persist(t) ==
    /\ At(t, "persist")
    /\ mem' = mem
    /\ SetSyncTask(t)
    /\ Goto(t, "done")
    /\ Rest /\ UNCHANGED progress

-----------------------------------------------------------------------------
(* The process and its watchdog (app.py).                                  *)

Crash ==
    /\ up
    /\ crashes < MaxCrashes
    /\ crashes' = crashes + 1
    /\ up' = FALSE
    /\ mem' = [t \in Tasks |-> None]
    /\ pc' = [t \in Tasks |-> IF pc[t] \in Live THEN "dead" ELSE pc[t]]
    /\ watchdog' = "sleep"
    /\ Forget(Tasks)
    /\ UNCHANGED <<req, rec, ckpt, tried, faults>>

Restart ==
    /\ ~up
    /\ up' = TRUE
    /\ UNCHANGED <<control, progress, watchdog, faults, crashes>>

\* Every 1800 s the watchdog looks at the records.
Wake ==
    /\ up
    /\ watchdog = "sleep"
    /\ watchdog' = "sweep"
    /\ UNCHANGED <<up, control, progress, faults, crashes>>

\* _check_and_resume_stale_syncs.  The client is made with decode_responses,
\* so a key is a str and key.decode() raises at the first key; the except
\* around the loop logs it and the sweep is over.  With no key it is over too.
Sweep ==
    /\ up
    /\ watchdog = "sweep"
    /\ watchdog' = "sleep"
    /\ UNCHANGED <<up, control, progress, faults, crashes>>

TaskStep(t) ==
    \/ CopyCheckpoints(t) \/ RecordAccepted(t) \/ Announce(t)
    \/ DryRun(t) \/ ListItems(t)
    \/ IngestLegislators(t) \/ IngestOrganizations(t) \/ IngestTraining(t)
    \/ \E i \in Items : SkipItem(t, i) \/ TakeItem(t, i)
    \/ Ingest(t) \/ Checkpoint(t) \/ ItemBeat(t) \/ LoopEnds(t)
    \/ HandlerReturns(t) \/ Persist(t)

Next ==
    \/ \E t \in Tasks :
         \/ \E r \in Asked : Accept(t, r)
         \/ TaskStep(t)
         \/ PhaseBeat(t)
         \/ HandlerRaises(t)
    \/ Crash \/ Restart \/ Wake \/ Sweep

Spec == Init /\ [][Next]_vars

\* Every awaited call returns or times out, a supervisor restarts the process
\* and the watchdog's sleep ends.  Nothing says when a phase stops reporting
\* progress, only that it does.
Fairness ==
    /\ \A t \in Tasks : WF_vars(TaskStep(t))
    /\ WF_vars(Restart) /\ WF_vars(Wake) /\ WF_vars(Sweep)

FairSpec == Spec /\ Fairness

-----------------------------------------------------------------------------
(* Properties.                                                             *)

\* A checkpoint says the item's documents were handed to the index: by this
\* task, or by one it resumes, wherever the process died between the two
\* calls and however many times the set was copied.
CheckpointedWasTried == \A t \in Tasks : ckpt[t] \subseteq tried[t]

\* What a batch that indexes must not do is report "completed", here or
\* through Redis after a restart, with an item nobody has been through:
\* an item is only passed over for the checkpoints of what it resumes, and
\* an exception in the middle of the loop is a failure.
CompletedCoversItems ==
    \A t \in Tasks :
        ("completed" \in {mem[t], rec[t]} /\ req[t].index /\ ~req[t].dry)
            => Items \subseteq tried[t]

\* A finished status in Redis is final: no late progress write, no second
\* record of the acceptance overtakes it.
FinishedStays ==
    [][\A t \in Tasks : rec[t] \in Terminal => rec'[t] = rec[t]]_vars

\* An accepted task ends: its handler finishes and its record is written, or
\* the process dies.
TaskEnds ==
    \A t \in Tasks : (pc[t] \in Live) ~> (pc[t] \in {"done", "dead"})

\* What the watchdog is for: a task that died while Redis says it runs is
\* found and its record says so in the end.
DeadTaskFound ==
    \A t \in Tasks :
        (pc[t] = "dead" /\ rec[t] = "running") ~> (rec[t] # "running")
=============================================================================
