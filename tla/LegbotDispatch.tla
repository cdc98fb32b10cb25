--------------------------- MODULE LegbotDispatch ---------------------------
(***************************************************************************)
(* One bill_changelog question from dispatch to stored answer:             *)
(* _dispatch_and_await (services/legbot_client.py) creates a CAMS task and *)
(* polls it under a two-phase deadline; _dispatch_and_write_changelog      *)
(* (pipelines/bill_artifact_generation.py) keeps a Redis record of the     *)
(* task meanwhile and writes the answer to the broker;                     *)
(* recover_stale_legbot_dispatches, run by the watchdog of app.py,         *)
(* resolves the records whose dispatcher never came back.  The caller is   *)
(* the session pipeline, or dispatch_and_record_bill_artifact, which       *)
(* writes a pending row first and a failed one on error.                   *)
(*                                                                         *)
(* CAMS and the broker are external.  Time is discrete and relative: age   *)
(* runs from dispatched_at, left is what remains to the deadline, op times *)
(* the call in flight.                                                     *)
(***************************************************************************)
EXTENDS Naturals

CONSTANTS
    Tasks,        \* dispatches, one CAMS task each
    OnDemand,     \* those dispatch_and_record_bill_artifact may start
    NoTask,       \* the sweep is not looking at a record
    QueueWait,    \* legbot_queue_wait_timeout_seconds
    GenTimeout,   \* legbot_dispatch_timeout_seconds
    Buffer,       \* _LEGBOT_TASK_STALE_BUFFER_SECONDS
    PollMax,      \* longest status poll, its retries and the sleep included
    HandleMax,    \* longest time from the last poll to the dispatcher's end
    MaxFaults,    \* bound: failed or unanswered broker, CAMS and Redis calls
    MaxCrashes    \* bound: process deaths

ASSUME DispatchAssumption ==
    /\ OnDemand \subseteq Tasks
    /\ NoTask \notin Tasks
    /\ QueueWait \in Nat /\ GenTimeout \in Nat /\ Buffer \in Nat
    /\ PollMax \in Nat /\ HandleMax \in Nat
    /\ MaxFaults \in Nat /\ MaxCrashes \in Nat

VARIABLES
    pc,        \* per task: where its dispatcher stands
    left,      \* per task: ticks to the deadline of the poll loop
    op,        \* per task: ticks spent in the call in flight
    age,       \* per task: ticks since dispatched_at, counted up to Stale
    seen,      \* tasks with generation_started_seen
    legacy,    \* tasks with legacy_no_marker_field
    placed,    \* tasks started on demand, with a placeholder row
    answer,    \* per task: row status its dispatcher's answer asks for, or none
    tracked,   \* tasks with a Redis record ddp:legbot:task:<id>
    recorded,  \* tasks that ever had one (history)
    cams,      \* per task: its state in CAMS
    row,       \* per task: status of the BillArtifact row in the broker
    sweep,     \* the recovery sweep: the task in hand and the step
    faults,
    crashes

vars == <<pc, left, op, age, seen, legacy, placed, answer, tracked, recorded, cams, row,
          sweep, faults, crashes>>

dispatcher == <<pc, left, op, age, seen, legacy, placed, answer>>

\* The stale_after_seconds of the sweep.
Stale == QueueWait + GenTimeout + Buffer

\* The deployment condition under which a stale record has no dispatcher:
\* both deadlines overshot by one poll each, and the handling, fit in the
\* buffer; and the fallback deadline is not the longer one.
SweepTimingOK ==
    /\ PollMax + PollMax + HandleMax < Buffer
    /\ GenTimeout <= QueueWait

Looping  == {"loop", "poll"}
Handling == {"cancel", "write", "delOk", "delErr", "delEsc", "keep", "fail"}
Live     == {"post", "track"} \cup Looping \cup Handling
Ended    == {"done", "dead", "escaped"}

\* insufficient: completed, but insufficient_information and nothing else;
\* garbled: completed, but task_result.json is unreadable or malformed;
\* gone: CAMS answers 404.
Terminal == {"completed", "insufficient", "garbled", "failed", "cancelled", "gone"}
CamsStates == {"none", "queued", "generating"} \cup Terminal
SweepSteps == {"idle", "check", "complete", "failed", "delete"}

TypeOK ==
    /\ pc \in [Tasks -> {"idle"} \cup Live \cup Ended]
    /\ left \in [Tasks -> Nat]
    /\ op \in [Tasks -> Nat]
    /\ age \in [Tasks -> 0..Stale]
    /\ seen \subseteq Tasks /\ legacy \subseteq Tasks /\ placed \subseteq OnDemand
    /\ answer \in [Tasks -> {"none", "complete", "failed"}]
    /\ tracked \subseteq recorded /\ recorded \subseteq Tasks
    /\ cams \in [Tasks -> CamsStates]
    /\ row \in [Tasks -> {"absent", "pending", "complete", "failed"}]
    /\ sweep \in [task : Tasks \cup {NoTask}, step : SweepSteps]
    /\ faults \in 0..MaxFaults
    /\ crashes \in 0..MaxCrashes

SweepIdle == [task |-> NoTask, step |-> "idle"]

Init ==
    /\ pc = [t \in Tasks |-> "idle"]
    /\ left = [t \in Tasks |-> 0]
    /\ op = [t \in Tasks |-> 0]
    /\ age = [t \in Tasks |-> 0]
    /\ seen = {} /\ legacy = {} /\ placed = {}
    /\ answer = [t \in Tasks |-> "none"]
    /\ tracked = {} /\ recorded = {}
    /\ cams = [t \in Tasks |-> "none"]
    /\ row = [t \in Tasks |-> "absent"]
    /\ sweep = SweepIdle
    /\ faults = 0
    /\ crashes = 0

\* The row status _write_changelog_answer asks for, by what CAMS holds.
Verdict(t) == IF cams[t] = "completed" THEN "complete" ELSE "failed"

Goto(t, where) == pc' = [pc EXCEPT ![t] = where]
Fault == faults < MaxFaults /\ faults' = faults + 1

-----------------------------------------------------------------------------
(* The callers.                                                            *)

\* The session pipeline dispatches with no row in place.
StartBatch(t) ==
    /\ pc[t] = "idle"
    /\ Goto(t, "post")
    /\ UNCHANGED <<left, op, age, seen, legacy, placed, answer, tracked, recorded, cams, row,
                   sweep, faults, crashes>>

\* dispatch_and_record_bill_artifact writes the pending placeholder first,
\* and returns at once when the broker refuses it.
StartOnDemand(t) ==
    /\ pc[t] = "idle" /\ t \in OnDemand
    /\ placed' = placed \cup {t}
    /\ \/ /\ row' = [row EXCEPT ![t] = "pending"]
          /\ Goto(t, "post")
          /\ UNCHANGED faults
       \/ /\ Fault
          /\ Goto(t, "done")
          /\ UNCHANGED row
    /\ UNCHANGED <<left, op, age, seen, legacy, answer, tracked, recorded, cams,
                   sweep, crashes>>

\* Its except clause: the placeholder becomes failed, or stays as it is when
\* the broker refuses that too.  The session pipeline only notes the error.
ReportFailure(t) ==
    /\ pc[t] = "fail"
    /\ \/ /\ t \in placed
          /\ row' = [row EXCEPT ![t] = "failed"]
          /\ UNCHANGED faults
       \/ /\ t \in placed /\ Fault
          /\ UNCHANGED row
       \/ /\ t \notin placed
          /\ UNCHANGED <<row, faults>>
    /\ Goto(t, "done")
    /\ UNCHANGED <<left, op, age, seen, legacy, placed, answer, tracked, recorded, cams,
                   sweep, crashes>>

-----------------------------------------------------------------------------
(* _dispatch_and_await.                                                    *)

\* POST /api/v1/tasks answers with a task id.
PostTask(t) ==
    /\ pc[t] = "post"
    /\ cams' = [cams EXCEPT ![t] = "queued"]
    /\ Goto(t, "track")
    /\ UNCHANGED <<left, op, age, seen, legacy, placed, answer, tracked, recorded, row,
                   sweep, faults, crashes>>

\* The POST was refused or never answered: an httpx error, which no caller
\* but the session pipeline's catch-all handles.
PostRaises(t) ==
    /\ pc[t] = "post"
    /\ Fault
    /\ \/ cams' = [cams EXCEPT ![t] = "queued"]   \* created, answer lost
       \/ UNCHANGED cams
    /\ Goto(t, IF t \in placed THEN "escaped" ELSE "fail")
    /\ UNCHANGED <<left, op, age, seen, legacy, placed, answer, tracked, recorded, row,
                   sweep, crashes>>

\* on_task_created: _track writes the Redis record (a Redis error is logged
\* and ignored), then the loop starts with the queue-wait deadline.
Track(t) ==
    /\ pc[t] = "track"
    /\ \/ /\ tracked' = tracked \cup {t}
          /\ recorded' = recorded \cup {t}
          /\ UNCHANGED faults
       \/ /\ Fault
          /\ UNCHANGED <<tracked, recorded>>
    /\ age' = [age EXCEPT ![t] = 0]
    /\ left' = [left EXCEPT ![t] = QueueWait]
    /\ Goto(t, "loop")
    /\ UNCHANGED <<op, seen, legacy, placed, answer, cams, row, sweep, crashes>>

\* while time.monotonic() < deadline: a poll starts, or the loop gives up.
LoopHead(t) ==
    /\ pc[t] = "loop"
    /\ op' = [op EXCEPT ![t] = 0]
    /\ Goto(t, IF left[t] > 0 THEN "poll" ELSE "cancel")
    /\ UNCHANGED <<left, age, seen, legacy, placed, answer, tracked, recorded, cams, row,
                   sweep, faults, crashes>>

\* The task is not finished: the first reply without the marker field falls
\* back to one deadline from dispatch, the first that shows generation
\* started restarts it.
PollPending(t) ==
    /\ pc[t] = "poll" /\ cams[t] \in {"queued", "generating"}
    /\ \/ /\ IF t \in legacy THEN UNCHANGED left
             ELSE left' = [left EXCEPT ![t] = IF age[t] < GenTimeout THEN GenTimeout - age[t]
                                                                    ELSE 0]
          /\ legacy' = legacy \cup {t}
          /\ UNCHANGED seen
       \/ /\ cams[t] = "generating" /\ t \notin seen
          /\ seen' = seen \cup {t}
          /\ left' = [left EXCEPT ![t] = GenTimeout]
          /\ UNCHANGED legacy
       \/ /\ cams[t] = "queued" \/ t \in seen
          /\ UNCHANGED <<left, seen, legacy>>
    /\ Goto(t, "loop")
    /\ UNCHANGED <<op, age, placed, answer, tracked, recorded, cams, row, sweep, faults, crashes>>

\* A terminal status: a usable answer goes on to the broker, anything else
\* is a LegBotDispatchError.  A 404 is an httpx error.
PollTerminal(t) ==
    /\ pc[t] = "poll" /\ cams[t] \in Terminal
    /\ op' = [op EXCEPT ![t] = 0]
    /\ \/ /\ cams[t] \in {"completed", "insufficient"}
          /\ answer' = [answer EXCEPT ![t] = Verdict(t)]
          /\ Goto(t, "write")
       \/ /\ cams[t] \in {"garbled", "failed", "cancelled"}
          /\ Goto(t, "delErr")
          /\ UNCHANGED answer
       \/ /\ cams[t] = "gone"
          /\ Goto(t, "delEsc")
          /\ UNCHANGED answer
    /\ UNCHANGED <<left, age, seen, legacy, placed, tracked, recorded, cams, row,
                   sweep, faults, crashes>>

\* Every retry of the poll failed: the task is given up.
PollExhausted(t) ==
    /\ pc[t] = "poll" /\ Fault
    /\ op' = [op EXCEPT ![t] = 0]
    /\ Goto(t, "cancel")
    /\ UNCHANGED <<left, age, seen, legacy, placed, answer, tracked, recorded, cams, row,
                   sweep, crashes>>

\* _cancel_task_best_effort, then LegBotDispatchError.
Cancel(t) ==
    /\ pc[t] = "cancel"
    /\ \/ /\ cams' = [cams EXCEPT ![t] = IF @ \in {"queued", "generating"} THEN "cancelled"
                                                                           ELSE @]
          /\ UNCHANGED faults
       \/ /\ Fault
          /\ UNCHANGED cams
    /\ Goto(t, "delErr")
    /\ UNCHANGED <<left, op, age, seen, legacy, placed, answer, tracked, recorded, row,
                   sweep, crashes>>

-----------------------------------------------------------------------------
(* _dispatch_and_write_changelog after the answer.                         *)

\* Mutant: a broker error cleans up like every other outcome.
WriteAnswerAlwaysCleansUp(t) ==
    /\ pc[t] = "write"
    /\ \/ /\ row' = [row EXCEPT ![t] = answer[t]]
          /\ Goto(t, "delOk")
          /\ UNCHANGED faults
       \/ /\ Fault
          /\ \/ row' = [row EXCEPT ![t] = answer[t]]
             \/ UNCHANGED row
          /\ Goto(t, "delErr")
    /\ UNCHANGED <<left, op, age, seen, legacy, placed, answer, tracked, recorded, cams,
                   sweep, crashes>>

\* _write_changelog_answer: the row becomes complete (or failed, when the
\* model had insufficient information); a BrokerClientError (refused, or
\* written with the reply lost) sets skip_cleanup.
WriteAnswer(t) ==
    /\ pc[t] = "write"
    /\ \/ /\ row' = [row EXCEPT ![t] = answer[t]]
          /\ Goto(t, "delOk")
          /\ UNCHANGED faults
       \/ /\ Fault
          /\ \/ row' = [row EXCEPT ![t] = answer[t]]
             \/ UNCHANGED row
          /\ Goto(t, "keep")
    /\ UNCHANGED <<left, op, age, seen, legacy, placed, answer, tracked, recorded, cams,
                   sweep, crashes>>

\* What follows the finally block: success returns, an error of the named
\* kinds reaches the caller's except clause, an httpx error passes the
\* on-demand caller's by.
AfterCleanup(t) ==
    CASE pc[t] = "delOk" -> "done"
      [] pc[t] = "delEsc" /\ t \in placed -> "escaped"
      [] OTHER -> "fail"

\* finally: delete_legbot_task (a Redis error is logged and ignored), unless
\* skip_cleanup.
Cleanup(t) ==
    /\ pc[t] \in {"delOk", "delErr", "delEsc", "keep"}
    /\ \/ /\ tracked' = IF pc[t] = "keep" THEN tracked ELSE tracked \ {t}
          /\ UNCHANGED faults
       \/ /\ pc[t] # "keep" /\ Fault
          /\ UNCHANGED tracked
    /\ Goto(t, AfterCleanup(t))
    /\ UNCHANGED <<left, op, age, seen, legacy, placed, answer, recorded, cams, row,
                   sweep, crashes>>

-----------------------------------------------------------------------------
(* recover_stale_legbot_dispatches, one record at a time.                  *)

\* Mutant: the sweep inspects a record whatever its age.
SweepPickAny(t) ==
    /\ sweep = SweepIdle
    /\ t \in tracked
    /\ sweep' = [task |-> t, step |-> "check"]
    /\ UNCHANGED <<dispatcher, tracked, recorded, cams, row, faults, crashes>>

\* A record is read and found old enough; the status request goes out.
SweepPick(t) ==
    /\ sweep = SweepIdle
    /\ t \in tracked /\ age[t] >= Stale
    /\ sweep' = [task |-> t, step |-> "check"]
    /\ UNCHANGED <<dispatcher, tracked, recorded, cams, row, faults, crashes>>

\* Mutant: a completed task is resolved like any other terminal one.
SweepCheckNeverReads ==
    /\ sweep.step = "check"
    /\ sweep' = IF cams[sweep.task] \in Terminal THEN [sweep EXCEPT !.step = "failed"]
                                                 ELSE SweepIdle
    /\ UNCHANGED <<dispatcher, tracked, recorded, cams, row, faults, crashes>>

\* What CAMS says decides the write: the answer's own status, failed for a
\* terminal or unknown task, nothing for one still running or when CAMS
\* does not answer.
SweepCheck ==
    /\ sweep.step = "check"
    /\ \/ /\ cams[sweep.task] \in Terminal
          /\ sweep' = [sweep EXCEPT !.step = Verdict(sweep.task)]
          /\ UNCHANGED faults
       \/ /\ cams[sweep.task] \notin Terminal
          /\ sweep' = SweepIdle
          /\ UNCHANGED faults
       \/ /\ Fault
          /\ sweep' = SweepIdle
    /\ UNCHANGED <<dispatcher, tracked, recorded, cams, row, crashes>>

\* The row is written; on a BrokerClientError the record stays for the next
\* sweep.
SweepWrite ==
    /\ sweep.step \in {"complete", "failed"}
    /\ \/ /\ row' = [row EXCEPT ![sweep.task] = sweep.step]
          /\ sweep' = [sweep EXCEPT !.step = "delete"]
          /\ UNCHANGED faults
       \/ /\ Fault
          /\ \/ row' = [row EXCEPT ![sweep.task] = sweep.step]
             \/ UNCHANGED row
          /\ sweep' = SweepIdle
    /\ UNCHANGED <<dispatcher, tracked, recorded, cams, crashes>>

\* Mutant: the resolved record is left in the working set.
SweepDeleteNothing ==
    /\ sweep.step = "delete"
    /\ sweep' = SweepIdle
    /\ UNCHANGED <<dispatcher, tracked, recorded, cams, row, faults, crashes>>

\* delete_legbot_task of the resolved record.
SweepDelete ==
    /\ sweep.step = "delete"
    /\ \/ /\ tracked' = tracked \ {sweep.task}
          /\ UNCHANGED faults
       \/ /\ Fault
          /\ UNCHANGED tracked
    /\ sweep' = SweepIdle
    /\ UNCHANGED <<dispatcher, recorded, cams, row, crashes>>

-----------------------------------------------------------------------------
(* The environment.                                                        *)

\* CAMS works through its queue and ends every task one way or another.
CamsStep(t) ==
    /\ \/ cams[t] = "queued" /\ cams' = [cams EXCEPT ![t] = "generating"]
       \/ /\ cams[t] = "generating"
          /\ \E s \in {"completed", "insufficient", "garbled", "failed"} :
                cams' = [cams EXCEPT ![t] = s]
    /\ UNCHANGED <<dispatcher, tracked, recorded, row, sweep, faults, crashes>>

\* CAMS loses a finished task.
CamsForget(t) ==
    /\ cams[t] \in Terminal \ {"gone"}
    /\ cams' = [cams EXCEPT ![t] = "gone"]
    /\ UNCHANGED <<dispatcher, tracked, recorded, row, sweep, faults, crashes>>

\* The process dies and is started again: dispatchers and sweep are gone.
Crash ==
    /\ crashes < MaxCrashes
    /\ sweep # SweepIdle \/ \E t \in Tasks : pc[t] \in Live
    /\ crashes' = crashes + 1
    /\ pc' = [t \in Tasks |-> IF pc[t] \in Live THEN "dead" ELSE pc[t]]
    /\ sweep' = SweepIdle
    /\ UNCHANGED <<left, op, age, seen, legacy, placed, answer, tracked, recorded, cams, row, faults>>

\* A call of the dispatcher that must return before time goes on.
Due(t) ==
    \/ pc[t] = "loop"
    \/ pc[t] = "poll" /\ op[t] >= PollMax
    \/ pc[t] \in Handling /\ op[t] >= HandleMax

Tick ==
    /\ \E t \in Tasks : pc[t] \in Looping \cup Handling \/ (t \in tracked /\ age[t] < Stale)
    /\ \A t \in Tasks : ~Due(t)
    /\ left' = [t \in Tasks |-> IF pc[t] = "poll" /\ left[t] > 0 THEN left[t] - 1 ELSE left[t]]
    /\ op' = [t \in Tasks |-> IF pc[t] \in Looping \cup Handling THEN op[t] + 1 ELSE op[t]]
    /\ age' = [t \in Tasks |-> IF age[t] < Stale /\ (t \in tracked \/ pc[t] \in Looping)
                               THEN age[t] + 1 ELSE age[t]]
    /\ UNCHANGED <<pc, seen, legacy, placed, answer, tracked, recorded, cams, row, sweep,
                   faults, crashes>>

DispatcherStep(t) ==
    \/ PostTask(t) \/ PostRaises(t) \/ Track(t)
    \/ LoopHead(t) \/ PollPending(t) \/ PollTerminal(t) \/ PollExhausted(t)
    \/ Cancel(t) \/ WriteAnswer(t) \/ Cleanup(t) \/ ReportFailure(t)

SweepStep == SweepCheck \/ SweepWrite \/ SweepDelete

Next ==
    \/ \E t \in Tasks :
          \/ StartBatch(t) \/ StartOnDemand(t) \/ DispatcherStep(t)
          \/ SweepPick(t) \/ CamsStep(t) \/ CamsForget(t)
    \/ SweepStep
    \/ Crash
    \/ Tick

\* The event loop runs every dispatcher and the watchdog, time passes, and
\* CAMS ends its tasks.
Fairness ==
    /\ WF_vars(Tick)
    /\ WF_vars(SweepStep)
    /\ \A t \in Tasks : /\ WF_vars(DispatcherStep(t))
                        /\ SF_vars(SweepPick(t))
                        /\ WF_vars(CamsStep(t))

Spec == Init /\ [][Next]_vars
FairSpec == Spec /\ Fairness

-----------------------------------------------------------------------------
(* Properties.                                                             *)

\* The sweep leaves the record of a dispatcher that is still at work alone:
\* no row is written twice and no running dispatch is declared failed
\* behind its back.
SweepSparesLive ==
    sweep # SweepIdle => pc[sweep.task] \in Ended

\* An answer that reached this process is in the broker, is still being
\* written, or can still be found by the sweep, unless CAMS lost the task.
AnswerNotLost ==
    \A t \in recorded :
        answer[t] # "none" =>
            \/ row[t] = answer[t]
            \/ pc[t] = "write"
            \/ t \in tracked
            \/ cams[t] = "gone"

\* A changelog of the session pipeline that the broker holds as complete is
\* never set back while CAMS knows its task, not by its dispatcher and not
\* by a later sweep of a record whose delete was lost.
CompleteStays ==
    [][\A t \in Tasks \ placed :
          row[t] = "complete" /\ cams[t] # "gone" => row'[t] = "complete"]_vars

\* Whatever fails in between, an answer that reached this process and was
\* recorded is stored in the end, unless CAMS lost the task first.
AnswerEventuallyStored ==
    \A t \in Tasks :
        (answer[t] # "none" /\ t \in recorded) ~> (row[t] = answer[t] \/ cams[t] = "gone")

\* A record whose dispatcher is gone leaves the working set.
AbandonedRecordResolved ==
    \A t \in Tasks : (t \in tracked /\ pc[t] \in Ended) ~> t \notin tracked
=============================================================================
