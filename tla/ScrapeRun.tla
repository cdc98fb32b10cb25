---------------------------- MODULE ScrapeRun ------------------------------
(***************************************************************************)
(* The scrape calls of one jurisdiction that is collected on this host,    *)
(* (pipelines/openstates_scrape.py).  Calls overlap: a manual trigger      *)
(* starts one beside the scheduled one.  ArchiveEmbed has the archive run  *)
(* that a successful call starts and awaits.                               *)
(*                                                                         *)
(* The site publishes changes 1, 2, ...  A scrape examines those after its *)
(* cutoff, the marker <key>.ts, or all of them when there is no marker; a  *)
(* forced full walk removes the marker first.  run-scrape.sh itself is not *)
(* in this repository: it reads the marker once, after it took the         *)
(* scrape lock of the state, exits when that is held, and writes the       *)
(* marker when it succeeded.                                               *)
(***************************************************************************)
EXTENDS Integers, Sequences, FiniteSets

CONSTANTS
    Scrapes,     \* calls of _run_scrape
    Scheduled,   \* those made by run_secondary_scrapes_job
    NoMark,      \* no marker
    Nobody,      \* the scrape lock is free
    TailLines,        \* how far back _read_scraper_log_tail looks
    Window, Threshold,  \* escalation
    MaxFiled,    \* bound: changes published
    MaxLog,      \* bound: log lines of other jurisdictions and rotations
    MaxFaults,   \* bound: failing file, Redis and process operations
    MaxDeaths    \* bound: process deaths

ASSUME ScrapeAssumption ==
    /\ Scheduled \subseteq Scrapes /\ IsFiniteSet(Scrapes)
    /\ NoMark \notin Nat
    /\ Nobody \notin Scrapes
    /\ TailLines \in Nat \ {0} /\ Window \in Nat \ {0} /\ Threshold \in Nat \ {0}
    /\ MaxFiled \in Nat \ {0} /\ MaxLog \in Nat /\ MaxFaults \in Nat /\ MaxDeaths \in Nat

VARIABLES
    filed,     \* changes the site has published
    examined,  \* changes imported
    marker,    \* <key>.ts
    due,       \* the .fullwalk stamp is older than its interval
    pc,        \* per call
    forced,    \* per scrape: its full walk was forced
    prev,      \* per scrape: the marker it removed
    proc,      \* per scrape: its run-scrape.sh
    cut, upto, \* per scrape: the range its script examines
    killer,    \* per scrape: who decided to kill the script
    lock,      \* the script's scrape lock
    log,       \* scraper.log: its size and where its last WAF marker is
    offset,    \* per scrape: size of the log when it was launched
    during,    \* per scrape: a WAF marker was logged since (history variable)
    reason,    \* per scrape: failure_reason, "ok" or "none"
    history,   \* run history in Redis
    escalated, \* a sustained block was alerted
    noise, faults, deaths

scrapeVars == <<forced, prev, cut, upto, killer, offset, during, reason>>
siteVars   == <<filed, examined, marker, due>>
logVars    == <<log, noise>>
runHistory == <<history, escalated>>
vars == <<siteVars, pc, proc, lock, scrapeVars, logVars, runHistory, faults, deaths>>

Marks   == 0..MaxFiled \cup {NoMark}
Alive   == {"started", "running"}
Exited  == {"ok", "err", "killed"}
Reasons == {"none", "ok", "refused", "timeout", "waf_block", "nonzero_exit_other", "network_error"}

TypeOK ==
    /\ filed \in 0..MaxFiled /\ examined \subseteq 1..MaxFiled
    /\ marker \in Marks /\ due \in BOOLEAN
    /\ pc \in [Scrapes -> {"idle", "launch", "script", "hook", "done", "dead"}]
    /\ forced \in [Scrapes -> BOOLEAN] /\ prev \in [Scrapes -> Marks]
    /\ proc \in [Scrapes -> {"none"} \cup Alive \cup Exited]
    /\ cut \in [Scrapes -> Marks] /\ upto \in [Scrapes -> 0..MaxFiled]
    /\ killer \in [Scrapes -> {"none", "watchdog", "ceiling"}]
    /\ lock \in Scrapes \cup {Nobody}
    /\ log \in [size : Nat, waf : Nat]
    /\ offset \in [Scrapes -> Nat] /\ during \in [Scrapes -> BOOLEAN]
    /\ reason \in [Scrapes -> Reasons]
    /\ history \in Seq(Reasons) /\ escalated \in BOOLEAN
    /\ noise \in 0..MaxLog /\ faults \in 0..MaxFaults /\ deaths \in 0..MaxDeaths

Init ==
    /\ filed = 1 /\ examined = {1} /\ marker = 1 /\ due \in BOOLEAN
    /\ pc = [c \in Scrapes |-> "idle"]
    /\ forced = [s \in Scrapes |-> FALSE] /\ prev = [s \in Scrapes |-> NoMark]
    /\ proc = [s \in Scrapes |-> "none"]
    /\ cut = [s \in Scrapes |-> NoMark] /\ upto = [s \in Scrapes |-> 0]
    /\ killer = [s \in Scrapes |-> "none"]
    /\ lock = Nobody
    /\ log = [size |-> 1, waf |-> 1]
    /\ offset = [s \in Scrapes |-> 0] /\ during = [s \in Scrapes |-> FALSE]
    /\ reason = [s \in Scrapes |-> "none"]
    /\ history = <<>> /\ escalated = FALSE
    /\ noise = 0 /\ faults = 0 /\ deaths = 0

Goto(c, where) == pc' = [pc EXCEPT ![c] = where]
Fault == faults < MaxFaults /\ faults' = faults + 1

-----------------------------------------------------------------------------
(* A scrape.                                                               *)

\* people_check_refusal: the count of legislators could not be read or is 0.
Refused(s) ==
    /\ pc[s] = "idle"
    /\ Goto(s, "done") /\ reason' = [reason EXCEPT ![s] = "refused"]
    /\ UNCHANGED <<siteVars, proc, lock, forced, prev, cut, upto, killer, offset, during,
                   logVars, runHistory, faults, deaths>>

\* _maybe_force_full_walk: when a walk is due, the marker is read and removed.
\* A file error leaves an ordinary run; a marker that cannot be read is
\* removed all the same.
ForceFullWalk(s) ==
    /\ due
    /\ \/ /\ forced' = [forced EXCEPT ![s] = TRUE]
          /\ prev' = [prev EXCEPT ![s] = marker]
          /\ marker' = NoMark /\ UNCHANGED faults
       \/ /\ marker # NoMark /\ Fault
          /\ forced' = [forced EXCEPT ![s] = TRUE]
          /\ marker' = NoMark /\ UNCHANGED prev
       \/ Fault /\ UNCHANGED <<forced, prev, marker>>

\* _run_scrape_impl up to the thread that runs the script: there is no await
\* between the decision to walk, the size of the log and the hand-over.
Prepare(s) ==
    /\ pc[s] = "idle"
    /\ \/ ForceFullWalk(s)
       \/ ~due /\ UNCHANGED <<forced, prev, marker, faults>>
    /\ offset' = [offset EXCEPT ![s] = log.size]
    /\ Goto(s, "launch")
    /\ UNCHANGED <<filed, examined, due, proc, lock, cut, upto, killer, during, reason,
                   logVars, runHistory, deaths>>

\* A thread of the pool takes the call and starts the script.
Launch(s) ==
    /\ pc[s] = "launch"
    /\ Goto(s, "script") /\ proc' = [proc EXCEPT ![s] = "started"]
    /\ UNCHANGED <<siteVars, lock, scrapeVars, logVars, runHistory, faults, deaths>>

\* Mutant: the watermark of a failed walk is written as of now.
RestoredAsNow(s) == IF forced[s] /\ marker = NoMark THEN filed ELSE marker

\* Mutant: the marker is left as the walk found it removed.
NotRestored(s) == marker

\* _restore_full_walk_marker, in the finally block of a run that did not
\* complete: exactly the previous content, and only if nothing is there.
Restored(s) ==
    IF forced[s] /\ prev[s] # NoMark /\ marker = NoMark THEN prev[s] ELSE marker

\* A finished call forgets what it carried.
Forget(s) ==
    /\ forced' = [forced EXCEPT ![s] = FALSE] /\ prev' = [prev EXCEPT ![s] = NoMark]
    /\ killer' = [killer EXCEPT ![s] = "none"]
    /\ cut' = [cut EXCEPT ![s] = NoMark] /\ upto' = [upto EXCEPT ![s] = 0]
    /\ proc' = [proc EXCEPT ![s] = "none"]
    /\ offset' = [offset EXCEPT ![s] = 0]

Failed(s, why) ==
    /\ Goto(s, "done") /\ reason' = [reason EXCEPT ![s] = why]
    /\ marker' = Restored(s) /\ Forget(s)
    /\ UNCHANGED <<filed, examined, due, lock, logVars, runHistory, deaths>>

\* The script could not be started: the except branch.
LaunchError(s) ==
    /\ pc[s] = "launch" /\ Fault
    /\ Failed(s, "network_error")
    /\ UNCHANGED during

\* The watchdog thread of _run_with_group_kill saw no new file for
\* SCRAPE_STALL_SECONDS, polled the process and found it alive.
WatchdogDecides(s) ==
    /\ pc[s] = "script" /\ killer[s] = "none" /\ proc[s] \in Alive
    /\ killer' = [killer EXCEPT ![s] = "watchdog"]
    /\ UNCHANGED <<siteVars, pc, proc, lock, forced, prev, cut, upto, offset, during, reason,
                   logVars, runHistory, faults, deaths>>

\* killpg, which also releases the script's lock; harmless if it is gone.
KillGroup(s) ==
    /\ proc' = [proc EXCEPT ![s] = IF @ \in Alive THEN "killed" ELSE @]
    /\ lock' = IF lock = s /\ proc[s] \in Alive THEN Nobody ELSE lock

WatchdogKills(s) ==
    /\ pc[s] = "script" /\ killer[s] = "watchdog" /\ proc[s] \in Alive
    /\ KillGroup(s)
    /\ UNCHANGED <<siteVars, pc, scrapeVars, logVars, runHistory, faults, deaths>>

\* Mutant: the ceiling is noted but the group lives on.
CeilingSparesScript(s) ==
    /\ pc[s] = "script" /\ proc[s] \in Alive
    /\ killer' = [killer EXCEPT ![s] = IF @ = "none" THEN "ceiling" ELSE @]
    /\ UNCHANGED <<siteVars, pc, proc, lock, forced, prev, cut, upto, offset, during, reason,
                   logVars, runHistory, faults, deaths>>

\* communicate(timeout) expired; the watchdog's verdict, if any, stays.
CeilingKills(s) ==
    /\ pc[s] = "script" /\ proc[s] \in Alive
    /\ KillGroup(s)
    /\ killer' = [killer EXCEPT ![s] = IF @ = "none" THEN "ceiling" ELSE @]
    /\ UNCHANGED <<siteVars, pc, forced, prev, cut, upto, offset, during, reason,
                   logVars, runHistory, faults, deaths>>

\* Mutant: the tail of the log is read from a fixed distance before its end.
TailWithoutOffset(s) == IF log.size > TailLines THEN log.size - TailLines ELSE 0

\* _read_scraper_log_tail: from the offset of the launch, from the start if
\* the log was rotated, at most TailLines back.
TailStart(s) ==
    LET from == IF offset[s] <= log.size THEN offset[s] ELSE 0
    IN  IF log.size - TailLines > from THEN log.size - TailLines ELSE from

\* classify_failure_reason for a script that exited or was killed by a signal
\* of somebody else.
ClassifyFailure(s) == IF log.waf > TailStart(s) THEN "waf_block" ELSE "nonzero_exit_other"

\* The result of a run that was killed by us, stalled first, or that failed.
CollectFailure(s) ==
    /\ pc[s] = "script" /\ proc[s] \in Exited
    /\ killer[s] # "none" \/ proc[s] # "ok"
    /\ Failed(s, IF killer[s] # "none" THEN "timeout" ELSE ClassifyFailure(s))
    /\ UNCHANGED <<during, faults>>

\* _record_full_walk
StampedWalk(s) == due /\ ~forced[s]

\* Exit code 0: a forced walk is stamped as done, then the broker is
\* signalled and the archive hook is next.
CollectSuccess(s) ==
    /\ pc[s] = "script" /\ proc[s] = "ok" /\ killer[s] = "none"
    /\ Goto(s, "hook") /\ reason' = [reason EXCEPT ![s] = "ok"]
    /\ due' = StampedWalk(s)
    /\ Forget(s)
    /\ UNCHANGED <<filed, examined, marker, lock, during, logVars, runHistory, faults, deaths>>

\* _run_scrape after a success: the broker is signalled and the archive run of
\* the jurisdiction awaited; neither can change the result.
HooksEnd(s) ==
    /\ pc[s] = "hook" /\ Goto(s, "done")
    /\ UNCHANGED <<siteVars, proc, lock, scrapeVars, logVars, runHistory, faults, deaths>>

-----------------------------------------------------------------------------
(* run-scrape.sh, the log it shares with other jurisdictions, the site.    *)

\* The lock is taken and the marker read, or the script exits at once.
ScriptStarts(s) ==
    /\ proc[s] = "started"
    /\ \/ /\ lock = Nobody /\ lock' = s
          /\ proc' = [proc EXCEPT ![s] = "running"]
          /\ cut' = [cut EXCEPT ![s] = marker] /\ upto' = [upto EXCEPT ![s] = filed]
       \/ /\ lock # Nobody
          /\ proc' = [proc EXCEPT ![s] = "err"]
          /\ UNCHANGED <<lock, cut, upto>>
    /\ UNCHANGED <<siteVars, pc, forced, prev, killer, offset, during, reason,
                   logVars, runHistory, faults, deaths>>

\* The changes of the script's range.
RangeOf(s) == {n \in 1..upto[s] : cut[s] = NoMark \/ n > cut[s]}

ScriptSucceeds(s) ==
    /\ proc[s] = "running"
    /\ proc' = [proc EXCEPT ![s] = "ok"] /\ lock' = Nobody
    /\ examined' = examined \cup RangeOf(s)
    /\ marker' = upto[s]
    /\ UNCHANGED <<filed, due, pc, scrapeVars, logVars, runHistory, faults, deaths>>

\* A line of the shared log: a WAF marker or not.
LogLine(waf) ==
    /\ log' = [size |-> log.size + 1, waf |-> IF waf THEN log.size + 1 ELSE log.waf]
    /\ during' = [s \in Scrapes |-> during[s] \/ (waf /\ pc[s] \in {"launch", "script"})]

\* Part of the range is imported; a block is logged before the exit.
ScriptFails(s) ==
    /\ proc[s] = "running"
    /\ proc' = [proc EXCEPT ![s] = "err"] /\ lock' = Nobody
    /\ \E part \in {{}, RangeOf(s)} : examined' = examined \cup part
    /\ \E waf \in BOOLEAN : LogLine(waf)
    /\ UNCHANGED <<filed, marker, due, pc, forced, prev, cut, upto, killer, offset, reason,
                   noise, runHistory, faults, deaths>>

OtherJurisdictionLogs ==
    /\ noise < MaxLog /\ noise' = noise + 1
    /\ \/ \E waf \in BOOLEAN : LogLine(waf)
       \/ log' = [size |-> 0, waf |-> 0] /\ UNCHANGED during
    /\ UNCHANGED <<siteVars, pc, proc, lock, forced, prev, cut, upto, killer, offset, reason,
                   runHistory, faults, deaths>>

SitePublishes ==
    /\ filed < MaxFiled /\ filed' = filed + 1
    /\ UNCHANGED <<examined, marker, due, pc, proc, lock, scrapeVars, logVars, runHistory, faults, deaths>>

-----------------------------------------------------------------------------
(* Bookkeeping, process death.                                             *)

\* should_escalate
ShouldEscalate(h) ==
    LET recent == SubSeq(h, IF Len(h) > Window THEN Len(h) - Window + 1 ELSE 1, Len(h))
    IN  Cardinality({i \in DOMAIN recent : recent[i] = "waf_block"}) >= Threshold

\* _check_sustained_blocking: the outcome of every run of the batch.
HistoryWith(s) == Append(history, reason[s])

\* run_secondary_scrapes_job, once the whole batch, archives included, is over.
RecordHistory(s) ==
    /\ s \in Scheduled /\ pc[s] = "done" /\ reason[s] # "none"
    /\ \/ /\ history' = HistoryWith(s)
          /\ escalated' = (escalated \/ ShouldEscalate(history'))
          /\ UNCHANGED faults
       \/ Fault /\ UNCHANGED runHistory
    /\ reason' = [reason EXCEPT ![s] = "none"]
    /\ UNCHANGED <<siteVars, pc, proc, lock, forced, prev, cut, upto, killer, offset, during,
                   logVars, deaths>>

\* The process dies; a script runs on in its own session.
Death ==
    /\ deaths < MaxDeaths /\ deaths' = deaths + 1
    /\ pc' = [c \in Scrapes |-> IF pc[c] \in {"idle", "done"} THEN pc[c] ELSE "dead"]
    /\ forced' = [s \in Scrapes |-> FALSE] /\ prev' = [s \in Scrapes |-> NoMark]
    /\ killer' = [s \in Scrapes |-> "none"]
    /\ UNCHANGED <<siteVars, proc, lock, cut, upto, offset, during, reason, logVars, runHistory, faults>>

ScrapeStep(s) ==
    \/ Refused(s) \/ Prepare(s) \/ Launch(s) \/ LaunchError(s)
    \/ WatchdogDecides(s) \/ WatchdogKills(s) \/ CeilingKills(s)
    \/ CollectFailure(s) \/ CollectSuccess(s) \/ HooksEnd(s) \/ RecordHistory(s)

ScriptStep(s) == ScriptStarts(s) \/ ScriptSucceeds(s) \/ ScriptFails(s)

Next ==
    \/ \E s \in Scrapes : ScrapeStep(s) \/ ScriptStep(s)
    \/ OtherJurisdictionLogs \/ SitePublishes \/ Death

\* A thread of the pool becomes free, a ceiling is reached, an ended script
\* is collected and the hooks, which catch everything, return.  Nothing is
\* assumed of the script: it may hang for ever.
Fairness ==
    \A s \in Scrapes :
        /\ WF_vars(Launch(s)) /\ WF_vars(CeilingKills(s))
        /\ WF_vars(CollectFailure(s) \/ CollectSuccess(s)) /\ WF_vars(HooksEnd(s))

Spec == Init /\ [][Next]_vars
FairSpec == Spec /\ Fairness

-----------------------------------------------------------------------------
(* Properties.                                                             *)

\* The marker never claims more than was examined, through failed and
\* overlapping walks, kills, deaths and scripts that outlive the process:
\* no change is passed over by a later incremental run.
WatermarkSound == marker # NoMark => 1..marker \subseteq examined

\* A walk that fails does not cost the jurisdiction its incremental mode:
\* while no file operation fails and the process lives, a removed marker is
\* remembered by the call that removed it.
MarkerKept ==
    faults = 0 /\ deaths = 0
        => marker # NoMark \/ \E s \in Scrapes : forced[s] /\ prev[s] # NoMark

\* A run counts as blocked only if a WAF marker was logged while it ran, never
\* for a block of an earlier run, whatever the log gains or loses meanwhile;
\* a sustained block is alerted only after Threshold such runs.
BlockIsOwnEra ==
    /\ \A s \in Scrapes : reason[s] = "waf_block" => during[s]
    /\ escalated => Cardinality({s \in Scrapes : during[s]}) >= Threshold

\* A call that started ends, a script that hangs for ever included.
CallEnds ==
    \A s \in Scrapes : pc[s] \in {"launch", "script", "hook"} ~> pc[s] \in {"done", "dead"}

=============================================================================
