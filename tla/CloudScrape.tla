---------------------------- MODULE CloudScrape -----------------------------
(***************************************************************************)
(* A scrape collected by a Fargate task and loaded into RDS by this        *)
(* process: run_cloud_scrape, the Redis hash of in-flight jobs             *)
(* (pipelines/inflight_fargate_jobs.py) and the resumption of orphaned     *)
(* jobs at startup (pipelines/cloud_scrape_trigger.py, app.py).            *)
(*                                                                         *)
(* ECS, Redis and the loader are external: ECS may stop a task at any      *)
(* time with any exit code and forgets stopped tasks; every Redis call is  *)
(* best effort.  The process may die between any two calls.                *)
(***************************************************************************)
EXTENDS Naturals

CONSTANTS
    Jobs,           \* run ids, one per call of run_cloud_scrape
    MaxCallFaults,  \* bound: Redis calls that fail and replies that are lost
    MaxCrashes      \* bound: process deaths

ASSUME CloudAssumption == MaxCallFaults \in Nat /\ MaxCrashes \in Nat

VARIABLES
    up,        \* the process is running
    thread,    \* per job: where its thread stands
    resumed,   \* jobs whose thread is resume_inflight_fargate_job
    ecs,       \* per job: its task in ECS
    inflight,  \* jobs with a record in ddp:inflight_fargate_jobs
    loads,     \* per job: times its output was loaded into RDS
    alerted,   \* jobs a failure alert was sent for
    callFaults,
    crashes

cloudVars == <<up, thread, resumed, ecs, inflight, loads, alerted, callFaults, crashes>>

Watching == {"wait", "load", "clear"}
Active   == {"launch", "record", "alert"} \cup Watching
ThreadStates == {"idle", "done", "dead"} \cup Active
Stopped  == {"exit0", "exitErr"}
EcsStates == {"none", "running", "gone"} \cup Stopped

CloudTypeOK ==
    /\ up \in BOOLEAN
    /\ thread \in [Jobs -> ThreadStates]
    /\ resumed \subseteq Jobs
    /\ ecs \in [Jobs -> EcsStates]
    /\ inflight \subseteq Jobs
    /\ loads \in [Jobs -> Nat]
    /\ alerted \subseteq Jobs
    /\ callFaults \in 0..MaxCallFaults
    /\ crashes \in 0..MaxCrashes

CloudInit ==
    /\ up = TRUE
    /\ thread = [j \in Jobs |-> "idle"]
    /\ resumed = {}
    /\ ecs = [j \in Jobs |-> "none"]
    /\ inflight = {}
    /\ loads = [j \in Jobs |-> 0]
    /\ alerted = {}
    /\ callFaults = 0
    /\ crashes = 0

MovesTo(j, where) == thread' = [thread EXCEPT ![j] = where]
Alert(j) == alerted' = alerted \cup {j}
CallFails == callFaults < MaxCallFaults /\ callFaults' = callFaults + 1

-----------------------------------------------------------------------------
(* run_cloud_scrape.                                                       *)

\* Bad config or no RDS target: refused before anything is launched.
Preflight(j) ==
    /\ thread[j] = "idle" /\ up
    /\ \/ MovesTo(j, "launch") /\ UNCHANGED alerted
       \/ MovesTo(j, "done") /\ Alert(j)
    /\ UNCHANGED <<up, resumed, ecs, inflight, loads, callFaults, crashes>>

\* _launch_fargate_task: run_task started the task, refused it, or started
\* it while its reply was lost, which counts as never started.
LaunchTask(j) ==
    /\ thread[j] = "launch"
    /\ \/ /\ ecs' = [ecs EXCEPT ![j] = "running"]
          /\ MovesTo(j, "record")
          /\ UNCHANGED <<alerted, callFaults>>
       \/ /\ MovesTo(j, "done") /\ Alert(j)
          /\ UNCHANGED <<ecs, callFaults>>
       \/ /\ CallFails
          /\ ecs' = [ecs EXCEPT ![j] = "running"]
          /\ MovesTo(j, "done") /\ Alert(j)
    /\ UNCHANGED <<up, resumed, inflight, loads, crashes>>

\* Mutant: the wait starts without a durable record.
RecordNothing(j) ==
    /\ thread[j] = "record"
    /\ MovesTo(j, "wait")
    /\ UNCHANGED <<up, resumed, ecs, inflight, loads, alerted, callFaults, crashes>>

\* record_started: HSET, best effort.
RecordStarted(j) ==
    /\ thread[j] = "record"
    /\ \/ inflight' = inflight \cup {j} /\ UNCHANGED callFaults
       \/ CallFails /\ UNCHANGED inflight
    /\ MovesTo(j, "wait")
    /\ UNCHANGED <<up, resumed, ecs, loads, alerted, crashes>>

-----------------------------------------------------------------------------
(* _finish_after_launch, for a fresh and for a resumed job.                *)

\* _wait_for_task_stop saw the task stopped: exit code 0 goes on to the
\* load, any other is alerted and reported.
TaskStopped(j) ==
    /\ thread[j] = "wait" /\ ecs[j] \in Stopped
    /\ \/ /\ ecs[j] = "exit0"
          /\ MovesTo(j, "load") /\ UNCHANGED alerted
       \/ /\ ecs[j] = "exitErr"
          /\ MovesTo(j, "clear") /\ Alert(j)
    /\ UNCHANGED <<up, resumed, ecs, inflight, loads, callFaults, crashes>>

\* max_wait_seconds passed without a stop: stop_task (best effort), alert.
GiveUp(j) ==
    /\ thread[j] = "wait" /\ ecs[j] \notin Stopped
    /\ \/ /\ ecs' = [ecs EXCEPT ![j] = IF @ = "running" THEN "exitErr" ELSE @]
          /\ UNCHANGED callFaults
       \/ /\ CallFails
          /\ UNCHANGED ecs
    /\ MovesTo(j, "clear") /\ Alert(j)
    /\ UNCHANGED <<up, resumed, inflight, loads, crashes>>

\* Mutant: an exception while resuming is swallowed without an alert.
PollRaisesSilently(j) ==
    /\ thread[j] = "wait"
    /\ CallFails
    /\ MovesTo(j, "clear")
    /\ UNCHANGED <<up, resumed, ecs, inflight, loads, alerted, crashes>>

\* describe_tasks (or the ECS client) raised.  A resumed job alerts in its
\* except clause and clears in its finally; a fresh one clears in the inner
\* finally first and alerts in the outer except.
PollRaises(j) ==
    /\ thread[j] = "wait"
    /\ CallFails
    /\ \/ /\ j \in resumed
          /\ MovesTo(j, "clear") /\ Alert(j)
          /\ UNCHANGED inflight
       \/ /\ j \notin resumed
          /\ inflight' = inflight \ {j}
          /\ MovesTo(j, "alert") /\ UNCHANGED alerted
    /\ UNCHANGED <<up, resumed, ecs, loads, crashes>>

\* Mutant: a load that succeeded is run again.
LoadTwice(j) ==
    /\ thread[j] = "load"
    /\ loads[j] < 4
    /\ loads' = [loads EXCEPT ![j] = @ + 1]
    /\ MovesTo(j, IF loads[j] = 0 THEN "load" ELSE "clear")
    /\ UNCHANGED <<up, resumed, ecs, inflight, alerted, callFaults, crashes>>

\* _run_load: cloud_loader.py loaded the run, or failed, timed out or found
\* no RDS target, which is alerted.
Load(j) ==
    /\ thread[j] = "load"
    /\ \/ loads' = [loads EXCEPT ![j] = @ + 1] /\ UNCHANGED alerted
       \/ Alert(j) /\ UNCHANGED loads
    /\ MovesTo(j, "clear")
    /\ UNCHANGED <<up, resumed, ecs, inflight, callFaults, crashes>>

\* The finally block: HDEL, best effort.
Clear(j) ==
    /\ thread[j] = "clear"
    /\ \/ inflight' = inflight \ {j} /\ UNCHANGED callFaults
       \/ CallFails /\ UNCHANGED inflight
    /\ MovesTo(j, "done")
    /\ UNCHANGED <<up, resumed, ecs, loads, alerted, crashes>>

\* The outer except of run_cloud_scrape, after the record is gone.
AlertAfterClear(j) ==
    /\ thread[j] = "alert"
    /\ MovesTo(j, "done") /\ Alert(j)
    /\ UNCHANGED <<up, resumed, ecs, inflight, loads, callFaults, crashes>>

-----------------------------------------------------------------------------
(* The environment, and startup.                                           *)

TaskEnds(j) ==
    /\ \/ ecs[j] = "running" /\ \E s \in Stopped : ecs' = [ecs EXCEPT ![j] = s]
       \/ ecs[j] \in Stopped /\ ecs' = [ecs EXCEPT ![j] = "gone"]
    /\ UNCHANGED <<up, thread, resumed, inflight, loads, alerted, callFaults, crashes>>

Crash ==
    /\ up /\ crashes < MaxCrashes
    /\ crashes' = crashes + 1
    /\ up' = FALSE
    /\ thread' = [j \in Jobs |-> IF thread[j] \in Active THEN "dead" ELSE thread[j]]
    /\ UNCHANGED <<resumed, ecs, inflight, loads, alerted, callFaults>>

\* Mutant: startup forgets to reconcile.
StartupWithoutReconcile ==
    /\ ~up
    /\ up' = TRUE
    /\ UNCHANGED <<thread, resumed, ecs, inflight, loads, alerted, callFaults, crashes>>

\* app.py's lifespan: reconcile_inflight_fargate_jobs lists the hash and
\* starts one thread per record before any request or cron job can run.
Startup ==
    /\ ~up
    /\ up' = TRUE
    /\ \/ /\ thread' = [j \in Jobs |-> IF j \in inflight THEN "wait" ELSE thread[j]]
          /\ resumed' = resumed \cup inflight
          /\ UNCHANGED callFaults
       \/ /\ CallFails                         \* list_inflight answered {}
          /\ UNCHANGED <<thread, resumed>>
    /\ UNCHANGED <<ecs, inflight, loads, alerted, crashes>>

JobStep(j) ==
    \/ LaunchTask(j) \/ RecordStarted(j)
    \/ TaskStopped(j) \/ GiveUp(j) \/ PollRaises(j)
    \/ Load(j) \/ Clear(j) \/ AlertAfterClear(j)

CloudNext ==
    \/ \E j \in Jobs : Preflight(j) \/ JobStep(j) \/ TaskEnds(j)
    \/ Crash
    \/ Startup

\* Threads make progress (the wait has a deadline) and the service is
\* started again after it died.
CloudFairness == WF_cloudVars(Startup) /\ \A j \in Jobs : WF_cloudVars(JobStep(j))

CloudSpec == CloudInit /\ [][CloudNext]_cloudVars
FairCloudSpec == CloudSpec /\ CloudFairness

-----------------------------------------------------------------------------
(* Properties.                                                             *)

\* While every Redis call succeeded, a job whose thread waits, loads or is
\* about to clear has its record: a death at any such moment is survived.
WatchedIsDurable ==
    callFaults = 0 => \A j \in Jobs : thread[j] \in Watching => j \in inflight

\* The output of one collection is loaded once, and once more for each
\* death that interrupted the watch before its record was cleared.
LoadsBounded == \A j \in Jobs : loads[j] <= 1 + crashes

\* A task left running with nobody watching it was reported to a human.
UnwatchedTaskReported ==
    \A j \in Jobs : thread[j] = "done" /\ ecs[j] = "running" => j \in alerted

\* A resumed job's record is removed only after its output was loaded or an
\* alert was sent.
ResumedClearedAfterReport ==
    [][\A j \in resumed : j \in inflight /\ j \notin inflight'
                             => loads[j] > 0 \/ j \in alerted]_cloudVars

\* A job orphaned by a process death while its record stood is loaded or
\* reported in the end, through further deaths and failing calls; the one
\* exception is a startup at which Redis would not list the records.
OrphanResolved ==
    \A j \in Jobs : (j \in inflight /\ thread[j] = "dead")
                       ~> \/ loads[j] > 0 \/ j \in alerted
                          \/ callFaults > 0 /\ up /\ thread[j] = "dead"
=============================================================================
