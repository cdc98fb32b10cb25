---------------------------- MODULE ScrapeProofs ----------------------------
(***************************************************************************)
(* Theorems about the two ways a jurisdiction is collected: ScrapeRun on   *)
(* this host and CloudScrape on Fargate, for any number of calls and jobs, *)
(* any site, log and number of failures and deaths.                        *)
(*                                                                         *)
(* The marker is sound because every copy of it is: the one a forced walk  *)
(* removed, and the one a script reads as its cutoff, which may return     *)
(* long after the marker has moved on.  A removed marker is kept because   *)
(* the call that removed it last has not finished its walk: a script that  *)
(* succeeded wrote a newer one.  A block is of its own run because a log   *)
(* without a marker since the launch has none behind the launch's offset,  *)
(* and none at all once it was rotated.                                    *)
(*                                                                         *)
(* A cloud job's loads are bounded because the first watch pays for one    *)
(* and every death for one more.                                           *)
(***************************************************************************)
EXTENDS CloudScrape, ScrapeRun, FiniteSetTheorems, TLAPS


-----------------------------------------------------------------------------
(* Types.                                                                  *)

LEMMA TypesInit == Init => TypeOK
<1> SUFFICES ASSUME Init PROVE TypeOK
  OBVIOUS
<1> USE ScrapeAssumption DEF Init, Marks, Reasons
<1>1. /\ filed \in 0..MaxFiled /\ examined \subseteq 1..MaxFiled
      /\ marker \in Marks /\ due \in BOOLEAN
  OBVIOUS
<1>2. /\ pc \in [Scrapes -> {"idle", "launch", "script", "hook", "done", "dead"}]
      /\ forced \in [Scrapes -> BOOLEAN] /\ prev \in [Scrapes -> Marks]
      /\ proc \in [Scrapes -> {"none"} \cup Alive \cup Exited]
  OBVIOUS
<1>3. /\ cut \in [Scrapes -> Marks] /\ upto \in [Scrapes -> 0..MaxFiled]
      /\ killer \in [Scrapes -> {"none", "watchdog", "ceiling"}]
      /\ lock \in Scrapes \cup {Nobody}
  OBVIOUS
<1>7. log \in [size : Nat, waf : Nat]
  OBVIOUS
<1>4. offset \in [Scrapes -> Nat] /\ reason \in [Scrapes -> Reasons]
  OBVIOUS
<1>8. during \in [Scrapes -> BOOLEAN]
  OBVIOUS
<1>5. history \in Seq(Reasons)
  OBVIOUS
<1>9. escalated \in BOOLEAN
  OBVIOUS
<1>6. noise \in 0..MaxLog /\ faults \in 0..MaxFaults /\ deaths \in 0..MaxDeaths
  OBVIOUS
<1> QED BY <1>1, <1>2, <1>3, <1>4, <1>5, <1>6, <1>7, <1>8, <1>9 DEF TypeOK

LEMMA TypesStep == TypeOK /\ [Next]_vars => TypeOK'
<1> SUFFICES ASSUME TypeOK, [Next]_vars PROVE TypeOK'
  OBVIOUS
<1> USE ScrapeAssumption DEF TypeOK, Marks, Alive, Exited, Reasons, siteVars, logVars,
        scrapeVars, runHistory
<1>1. ASSUME NEW s \in Scrapes, Refused(s) PROVE TypeOK'
  BY <1>1 DEF Refused, Goto
<1>2. ASSUME NEW s \in Scrapes, Prepare(s) PROVE TypeOK'
  <2>1. forced' \in [Scrapes -> BOOLEAN]
    BY <1>2 DEF Prepare, ForceFullWalk
  <2>5. marker' \in Marks
    BY <1>2 DEF Prepare, ForceFullWalk
  <2>2. prev' \in [Scrapes -> Marks]
    <3>1. prev' = prev \/ prev' = [prev EXCEPT ![s] = marker]
      BY <1>2 DEF Prepare, ForceFullWalk
    <3> QED BY <3>1
  <2>3. faults' \in 0..MaxFaults
    BY <1>2 DEF Prepare, ForceFullWalk, Fault
  <2>4. offset' \in [Scrapes -> Nat]
    BY <1>2 DEF Prepare
  <2> QED BY <1>2, <2>1, <2>2, <2>3, <2>4, <2>5 DEF Prepare, Goto
<1>3. ASSUME NEW s \in Scrapes, Launch(s) PROVE TypeOK'
  BY <1>3 DEF Launch, Goto
<1>a. ASSUME NEW s \in Scrapes, NEW why \in Reasons, Failed(s, why),
             faults' \in 0..MaxFaults, during' = during
      PROVE  TypeOK'
  <2>1. Restored(s) \in Marks
    BY DEF Restored
  <2>2. pc' \in [Scrapes -> {"idle", "launch", "script", "hook", "done", "dead"}]
    BY <1>a DEF Failed, Goto
  <2>3. reason' \in [Scrapes -> Reasons]
    BY <1>a DEF Failed
  <2>4. Forget(s) /\ marker' \in Marks
    BY <1>a, <2>1 DEF Failed
  <2> QED BY <1>a, <2>2, <2>3, <2>4 DEF Failed, Forget
<1>4. ASSUME NEW s \in Scrapes, LaunchError(s) PROVE TypeOK'
  <2>1. faults' \in 0..MaxFaults
    BY <1>4 DEF LaunchError, Fault
  <2>2. Failed(s, "network_error") /\ during' = during
    BY <1>4 DEF LaunchError
  <2> QED BY <1>a, <2>1, <2>2
<1>5. ASSUME NEW s \in Scrapes, WatchdogDecides(s) PROVE TypeOK'
  BY <1>5 DEF WatchdogDecides
<1>6. ASSUME NEW s \in Scrapes, WatchdogKills(s) \/ CeilingKills(s) PROVE TypeOK'
  <2>1. KillGroup(s) /\ (killer' = killer \/ killer' = [killer EXCEPT ![s] = IF @ = "none" THEN "ceiling" ELSE @])
    BY <1>6 DEF WatchdogKills, CeilingKills
  <2>2. /\ proc' \in [Scrapes -> {"none"} \cup Alive \cup Exited]
        /\ lock' \in Scrapes \cup {Nobody}
    BY <2>1 DEF KillGroup
  <2>3. killer' \in [Scrapes -> {"none", "watchdog", "ceiling"}]
    <3> HIDE DEF TypeOK, Marks, Alive, Exited, Reasons
    <3>1. killer \in [Scrapes -> {"none", "watchdog", "ceiling"}]
      BY DEF TypeOK
    <3> QED BY <2>1, <3>1
  <2>4. UNCHANGED <<siteVars, pc, forced, prev, cut, upto, offset, during, reason, logVars, runHistory, faults, deaths>>
    BY <1>6 DEF WatchdogKills, CeilingKills
  <2> QED BY <2>2, <2>3, <2>4
<1>7. ASSUME NEW s \in Scrapes, CollectFailure(s) PROVE TypeOK'
  BY <1>a, <1>7 DEF CollectFailure, ClassifyFailure
<1>8. ASSUME NEW s \in Scrapes, CollectSuccess(s) PROVE TypeOK'
  BY <1>8 DEF CollectSuccess, StampedWalk, Forget, Goto
<1>9. ASSUME NEW s \in Scrapes, HooksEnd(s) PROVE TypeOK'
  BY <1>9 DEF HooksEnd, Goto
<1>10. ASSUME NEW s \in Scrapes, RecordHistory(s) PROVE TypeOK'
  <2>1. HistoryWith(s) \in Seq(Reasons)
    BY DEF HistoryWith
  <2>2. ShouldEscalate(history') \in BOOLEAN
    BY DEF ShouldEscalate
  <2>3. history' \in Seq(Reasons) /\ escalated' \in BOOLEAN
    BY <1>10, <2>1, <2>2 DEF RecordHistory
  <2>4. faults' \in 0..MaxFaults /\ reason' \in [Scrapes -> Reasons]
    BY <1>10 DEF RecordHistory, Fault
  <2> QED BY <1>10, <2>3, <2>4 DEF RecordHistory
<1>11. ASSUME NEW s \in Scrapes, ScriptStarts(s) PROVE TypeOK'
  <2>1. CASE lock = Nobody
    <3>1. proc' = [proc EXCEPT ![s] = "running"] /\ lock' = s
      BY <1>11, <2>1 DEF ScriptStarts
    <3>2. cut' = [cut EXCEPT ![s] = marker] /\ upto' = [upto EXCEPT ![s] = filed]
      BY <1>11, <2>1 DEF ScriptStarts
    <3> QED BY <1>11, <3>1, <3>2 DEF ScriptStarts
  <2>2. CASE lock # Nobody
    BY <1>11, <2>2 DEF ScriptStarts
  <2> QED BY <2>1, <2>2
<1>12. ASSUME NEW s \in Scrapes, ScriptSucceeds(s) PROVE TypeOK'
  <2>1. RangeOf(s) \subseteq 1..MaxFiled
    BY DEF RangeOf
  <2> QED BY <1>12, <2>1 DEF ScriptSucceeds
<1>b. ASSUME NEW waf \in BOOLEAN, LogLine(waf)
      PROVE  log' \in [size : Nat, waf : Nat] /\ during' \in [Scrapes -> BOOLEAN]
  <2>1. log' \in [size : Nat, waf : Nat]
    BY <1>b DEF LogLine
  <2>2. during' \in [Scrapes -> BOOLEAN]
    BY <1>b DEF LogLine
  <2> QED BY <2>1, <2>2
<1>13. ASSUME NEW s \in Scrapes, ScriptFails(s) PROVE TypeOK'
  <2>1. RangeOf(s) \subseteq 1..MaxFiled
    BY DEF RangeOf
  <2>2. log' \in [size : Nat, waf : Nat] /\ during' \in [Scrapes -> BOOLEAN]
    BY <1>b, <1>13 DEF ScriptFails
  <2>3. examined' \subseteq 1..MaxFiled
    BY <1>13, <2>1 DEF ScriptFails
  <2> QED BY <1>13, <2>2, <2>3 DEF ScriptFails
<1>14. CASE OtherJurisdictionLogs
  <2>1. log' \in [size : Nat, waf : Nat] /\ during' \in [Scrapes -> BOOLEAN]
    BY <1>b, <1>14 DEF OtherJurisdictionLogs
  <2> QED BY <1>14, <2>1 DEF OtherJurisdictionLogs
<1>15. CASE SitePublishes
  BY <1>15 DEF SitePublishes
<1>16. CASE Death
  BY <1>16 DEF Death
<1>17. CASE UNCHANGED vars
  BY <1>17 DEF vars
<1> QED
  BY <1>1, <1>2, <1>3, <1>4, <1>5, <1>6, <1>7, <1>8, <1>9, <1>10, <1>11, <1>12,
     <1>13, <1>14, <1>15, <1>16, <1>17
  DEF Next, ScrapeStep, ScriptStep

\* Every variable keeps its type.
THEOREM ScrapeTypes == Spec => []TypeOK
BY TypesInit, TypesStep, PTL DEF Spec

-----------------------------------------------------------------------------
(* The marker.                                                             *)

\* A marker that claims no more than was examined.
Sound(m) == m # NoMark => 1..m \subseteq examined

MarkInv ==
    /\ TypeOK
    /\ Sound(marker)
    /\ \A s \in Scrapes : Sound(prev[s]) /\ Sound(cut[s])

\* Sound marks stay sound while the imported changes only grow.
LEMMA SoundStays ==
    ASSUME NEW m, Sound(m), examined \subseteq examined' PROVE Sound(m)'
BY DEF Sound

LEMMA MarkStep == MarkInv /\ [Next]_vars => MarkInv'
<1> SUFFICES ASSUME MarkInv, [Next]_vars PROVE MarkInv'
  OBVIOUS
<1>0. TypeOK /\ TypeOK'
  BY TypesStep DEF MarkInv
<1> USE <1>0, ScrapeAssumption DEF MarkInv, siteVars, logVars, scrapeVars, runHistory
<1>a. TypeOK => /\ prev \in [Scrapes -> Marks] /\ cut \in [Scrapes -> Marks]
                /\ upto \in [Scrapes -> 0..MaxFiled]
  BY DEF TypeOK
<1>1. ASSUME NEW s \in Scrapes, Prepare(s) PROVE MarkInv'
  <2>1. /\ prev' = prev \/ prev' = [prev EXCEPT ![s] = marker]
        /\ marker' = marker \/ marker' = NoMark
        /\ cut' = cut /\ examined' = examined
    BY <1>1 DEF Prepare, ForceFullWalk
  <2> QED BY <1>a, <2>1 DEF Sound
<1>2. ASSUME NEW s \in Scrapes, Forget(s), examined' = examined,
             marker' = marker \/ marker' = prev[s]
      PROVE  MarkInv'
  BY <1>a, <1>2 DEF Forget, Sound
<1>3. ASSUME NEW s \in Scrapes, LaunchError(s) \/ CollectFailure(s) PROVE MarkInv'
  <2>1. Forget(s) /\ examined' = examined /\ (marker' = marker \/ marker' = prev[s])
    BY <1>3 DEF LaunchError, CollectFailure, Failed, Restored
  <2> QED BY <1>2, <2>1
<1>4. ASSUME NEW s \in Scrapes, CollectSuccess(s) PROVE MarkInv'
  BY <1>2, <1>4 DEF CollectSuccess
<1>5. ASSUME NEW s \in Scrapes, ScriptStarts(s) PROVE MarkInv'
  <2>1. /\ cut' = cut \/ cut' = [cut EXCEPT ![s] = marker]
        /\ UNCHANGED <<prev, marker, examined>>
    BY <1>5 DEF ScriptStarts
  <2> QED BY <1>a, <2>1 DEF Sound
<1>6. ASSUME NEW s \in Scrapes, ScriptSucceeds(s) PROVE MarkInv'
  <2>1. examined' = examined \cup RangeOf(s) /\ marker' = upto[s] /\ UNCHANGED <<prev, cut>>
    BY <1>6 DEF ScriptSucceeds
  <2>2. Sound(cut[s])
    OBVIOUS
  <2>3. ASSUME NEW n \in 1..upto[s] PROVE n \in examined'
    <3>1. CASE cut[s] = NoMark
      BY <2>1, <3>1 DEF RangeOf
    <3>2. CASE cut[s] # NoMark
      <4>1. cut[s] \in Nat /\ upto[s] \in Nat
        BY <1>a, <3>2 DEF Marks
      <4>2. n > cut[s] \/ n \in 1..cut[s]
        BY <4>1
      <4> QED BY <2>1, <2>2, <3>2, <4>2 DEF RangeOf, Sound
    <3> QED BY <3>1, <3>2
  <2>4. Sound(marker)'
    BY <2>1, <2>3 DEF Sound
  <2> QED BY <2>1, <2>4, SoundStays
<1>7. ASSUME NEW s \in Scrapes, ScriptFails(s) PROVE MarkInv'
  <2>1. examined \subseteq examined' /\ UNCHANGED <<marker, prev, cut>>
    BY <1>7 DEF ScriptFails
  <2> QED BY <2>1, SoundStays
<1>8. CASE Death
  BY <1>8 DEF Death, Sound
<1>9. CASE UNCHANGED <<examined, marker, prev, cut>>
  BY <1>9 DEF Sound
<1> QED
  BY <1>1, <1>3, <1>4, <1>5, <1>6, <1>7, <1>8, <1>9
  DEF Next, ScrapeStep, ScriptStep, Refused, Launch, WatchdogDecides, WatchdogKills,
      CeilingKills, HooksEnd, RecordHistory, OtherJurisdictionLogs, SitePublishes, vars

LEMMA MarkInit == Init => MarkInv
<1> SUFFICES ASSUME Init PROVE MarkInv
  OBVIOUS
<1>1. TypeOK
  BY TypesInit
<1>2. 1..1 \subseteq {1}
  OBVIOUS
<1> QED BY <1>1, <1>2 DEF Init, MarkInv, Sound

\* The marker never claims more than was examined, whatever overlaps, fails,
\* is killed or outlives the process (_maybe_force_full_walk,
\* _restore_full_walk_marker).
THEOREM ScrapeWatermarkSound == Spec => []WatermarkSound
<1>1. MarkInv => WatermarkSound
  BY DEF MarkInv, Sound, WatermarkSound
<1> QED
  BY <1>1, MarkInit, MarkStep, PTL DEF Spec

-----------------------------------------------------------------------------
(* A removed marker is remembered.                                         *)

\* The call whose walk removed the marker and has not yet succeeded.
Keeper(s) == forced[s] /\ prev[s] # NoMark /\ proc[s] # "ok"

Quiet == faults = 0 /\ deaths = 0

KeptInv ==
    /\ TypeOK
    /\ \A s \in Scrapes : pc[s] \in {"idle", "launch"} => proc[s] = "none"
    /\ \A s \in Scrapes : pc[s] = "idle" => ~forced[s]
    /\ Quiet => marker # NoMark \/ \E s \in Scrapes : Keeper(s)

\* A fault, once counted, stays.
LEMMA FaultStays == TypeOK /\ Fault => ~Quiet'
BY ScrapeAssumption DEF TypeOK, Fault, Quiet

LEMMA KeptStep == KeptInv /\ [Next]_vars => KeptInv'
<1> SUFFICES ASSUME KeptInv, [Next]_vars PROVE KeptInv'
  OBVIOUS
<1>0. TypeOK /\ TypeOK'
  BY TypesStep DEF KeptInv
<1>a. /\ prev \in [Scrapes -> Marks] /\ upto \in [Scrapes -> 0..MaxFiled]
      /\ forced \in [Scrapes -> BOOLEAN] /\ marker \in Marks
      /\ DOMAIN pc = Scrapes /\ DOMAIN proc = Scrapes
      /\ faults \in Nat /\ deaths \in Nat /\ NoMark \notin Nat
  <2>1. /\ prev \in [Scrapes -> Marks] /\ upto \in [Scrapes -> 0..MaxFiled]
        /\ forced \in [Scrapes -> BOOLEAN] /\ marker \in Marks
    BY <1>0 DEF TypeOK
  <2>2. DOMAIN pc = Scrapes /\ DOMAIN proc = Scrapes
    BY <1>0 DEF TypeOK
  <2>3. faults \in 0..MaxFaults /\ deaths \in 0..MaxDeaths
    BY <1>0 DEF TypeOK
  <2>4. faults \in Nat /\ deaths \in Nat /\ NoMark \notin Nat
    BY <2>3, ScrapeAssumption
  <2> QED BY <2>1, <2>2, <2>4
<1> USE <1>0, <1>a DEF KeptInv, Keeper, siteVars, logVars, scrapeVars, runHistory
<1>1. ASSUME NEW s \in Scrapes, Prepare(s) PROVE KeptInv'
  <2>1. pc' = [pc EXCEPT ![s] = "launch"] /\ proc' = proc /\ pc[s] = "idle" /\ deaths' = deaths
    BY <1>1 DEF Prepare, Goto
  <2>2. \/ ~Quiet'
        \/ UNCHANGED <<forced, prev, marker, faults>>
        \/ /\ forced' = [forced EXCEPT ![s] = TRUE]
           /\ prev' = [prev EXCEPT ![s] = marker]
           /\ marker' = NoMark /\ faults' = faults
    BY <1>1, FaultStays DEF Prepare, ForceFullWalk
  <2>3. \A t \in Scrapes : t # s => forced'[t] = forced[t]
    BY <1>1 DEF Prepare, ForceFullWalk
  <2>4. Quiet' => marker' # NoMark \/ \E t \in Scrapes : Keeper(t)'
    <3>1. CASE UNCHANGED <<forced, prev, marker, faults>>
      BY <2>1, <3>1 DEF Quiet
    <3>2. CASE /\ forced' = [forced EXCEPT ![s] = TRUE]
               /\ prev' = [prev EXCEPT ![s] = marker]
               /\ marker' = NoMark /\ faults' = faults
      <4>1. CASE marker # NoMark
        <5>1. Keeper(s)'
          BY <2>1, <3>2, <4>1
        <5> QED BY <5>1
      <4>2. CASE marker = NoMark
        <5>1. ASSUME Quiet' PROVE \E t \in Scrapes : Keeper(t)
          BY <2>1, <3>2, <4>2, <5>1 DEF Quiet
        <5>2. ASSUME NEW t \in Scrapes, Keeper(t) PROVE Keeper(t)'
          <6>1. t # s
            BY <2>1, <5>2
          <6> QED BY <2>1, <3>2, <5>2, <6>1
        <5> QED BY <5>1, <5>2
      <4> QED BY <4>1, <4>2
    <3> QED BY <2>2, <3>1, <3>2
  <2> QED BY <2>1, <2>3, <2>4
<1>2. ASSUME NEW s \in Scrapes, Forget(s), UNCHANGED <<faults, deaths>>,
             \E x \in {"hook", "done"} : pc' = [pc EXCEPT ![s] = x],
             marker' = Restored(s) \/ (marker' = marker /\ proc[s] = "ok")
      PROVE  KeptInv'
  <2>1. ASSUME NEW t \in Scrapes, t # s, Keeper(t) PROVE Keeper(t)'
    BY <1>2, <2>1 DEF Forget
  <2>2. marker # NoMark => marker' # NoMark
    BY <1>2 DEF Restored
  <2>3. Keeper(s) => marker' # NoMark
    BY <1>2 DEF Restored
  <2>4. Quiet' => marker' # NoMark \/ \E t \in Scrapes : Keeper(t)'
    BY <1>2, <2>1, <2>2, <2>3 DEF Quiet
  <2>5. \A t \in Scrapes : /\ pc'[t] \in {"idle", "launch"} => proc'[t] = "none"
                           /\ pc'[t] = "idle" => ~forced'[t]
    BY <1>2 DEF Forget
  <2> QED BY <2>4, <2>5
<1>3. ASSUME NEW s \in Scrapes, LaunchError(s) PROVE KeptInv'
  <2>1. ~Quiet' /\ Forget(s) /\ pc' = [pc EXCEPT ![s] = "done"]
    BY <1>3, FaultStays DEF LaunchError, Failed, Goto
  <2> QED BY <2>1 DEF Forget
<1>4. ASSUME NEW s \in Scrapes, CollectFailure(s) \/ CollectSuccess(s) PROVE KeptInv'
  BY <1>2, <1>4 DEF CollectFailure, CollectSuccess, Failed, Goto
<1>5. ASSUME NEW s \in Scrapes, ScriptSucceeds(s) PROVE KeptInv'
  <2>1. marker' # NoMark
    BY <1>5 DEF ScriptSucceeds
  <2>2. pc[s] \notin {"idle", "launch"}
    BY <1>5 DEF ScriptSucceeds
  <2> QED BY <1>5, <2>1, <2>2 DEF ScriptSucceeds
<1>6. CASE Death
  <2>1. ~Quiet'
    BY <1>6 DEF Death, Quiet
  <2> QED BY <1>6, <2>1 DEF Death
<1>7. ASSUME NEW s \in Scrapes, ~(pc[s] \in {"idle", "launch"} /\ proc[s] # "none"),
             NEW y, y # "ok", proc' = [proc EXCEPT ![s] = y],
             pc' = [pc EXCEPT ![s] = "script"] \/ (pc' = pc /\ pc[s] \notin {"idle", "launch"}),
             UNCHANGED <<marker, forced, prev, faults, deaths>>
      PROVE  KeptInv'
  <2>1. ASSUME NEW t \in Scrapes, Keeper(t) PROVE Keeper(t)'
    BY <1>7, <2>1
  <2>2. Quiet' => marker' # NoMark \/ \E t \in Scrapes : Keeper(t)'
    BY <1>7, <2>1 DEF Quiet
  <2> QED BY <1>7, <2>2
<1>8. ASSUME NEW s \in Scrapes, Launch(s) \/ ScriptStarts(s) \/ ScriptFails(s) PROVE KeptInv'
  <2>1. CASE Launch(s)
    BY <1>7, <2>1 DEF Launch, Goto
  <2>2. CASE ScriptStarts(s)
    <3>1. proc[s] = "started"
      BY <2>2 DEF ScriptStarts
    <3> QED BY <1>7, <2>2, <3>1 DEF ScriptStarts
  <2>3. CASE ScriptFails(s)
    <3>1. proc[s] = "running"
      BY <2>3 DEF ScriptFails
    <3> QED BY <1>7, <2>3, <3>1 DEF ScriptFails
  <2> QED BY <1>8, <2>1, <2>2, <2>3
<1>9. ASSUME NEW s \in Scrapes, WatchdogKills(s) \/ CeilingKills(s) PROVE KeptInv'
  <2>1. proc' = [proc EXCEPT ![s] = "killed"] /\ pc[s] = "script"
    BY <1>9 DEF WatchdogKills, CeilingKills, KillGroup
  <2> QED BY <1>7, <1>9, <2>1 DEF WatchdogKills, CeilingKills
<1>10. ASSUME NEW s \in Scrapes, Refused(s) \/ HooksEnd(s) PROVE KeptInv'
  <2>1. /\ pc' = [pc EXCEPT ![s] = "done"]
        /\ UNCHANGED <<marker, forced, prev, proc, faults, deaths>>
    BY <1>10 DEF Refused, HooksEnd, Goto
  <2> QED BY <2>1 DEF Quiet
<1>11. ASSUME NEW s \in Scrapes, RecordHistory(s) PROVE KeptInv'
  <2>1. UNCHANGED <<pc, marker, forced, prev, proc, deaths>> /\ (faults' = faults \/ ~Quiet')
    BY <1>11, FaultStays DEF RecordHistory
  <2> QED BY <2>1 DEF Quiet
<1>12. CASE UNCHANGED <<pc, marker, forced, prev, proc, faults, deaths>>
  BY <1>12 DEF Quiet
<1> QED
  BY <1>1, <1>3, <1>4, <1>5, <1>6, <1>8, <1>9, <1>10, <1>11, <1>12
  DEF Next, ScrapeStep, ScriptStep, WatchdogDecides, OtherJurisdictionLogs,
      SitePublishes, vars

\* A walk that fails does not cost the jurisdiction its incremental mode: a
\* removed marker is remembered by the call that removed it, as long as no
\* file operation failed and the process lives (_restore_full_walk_marker).
THEOREM ScrapeMarkerKept == Spec => []MarkerKept
<1>1. Init => KeptInv
  BY TypesInit, ScrapeAssumption DEF Init, KeptInv
<1>2. KeptInv => MarkerKept
  BY DEF KeptInv, Keeper, Quiet, MarkerKept
<1> QED
  BY <1>1, <1>2, KeptStep, PTL DEF Spec

-----------------------------------------------------------------------------
(* A block is of its own run.                                              *)

\* Without a WAF marker since its launch, a call finds none: those in the log
\* are older than the launch, or gone with the rotation.
NoOldBlock(s) ==
    pc[s] \in {"launch", "script"} /\ ~during[s]
        => log.waf <= offset[s] /\ (log.size < offset[s] => log.waf = 0)

EraInv ==
    /\ TypeOK
    /\ log.waf <= log.size
    /\ \A s \in Scrapes : NoOldBlock(s)
    /\ \A s \in Scrapes : reason[s] = "waf_block" => during[s]

\* The tail read for a call without a marker since its launch has none.
LEMMA TailClean ==
    ASSUME EraInv, NEW s \in Scrapes, pc[s] = "script", ClassifyFailure(s) = "waf_block"
    PROVE  during[s]
<1>1. log.waf \in Nat /\ log.size \in Nat /\ offset[s] \in Nat
  BY DEF EraInv, TypeOK
<1>2. log.waf > TailStart(s)
  BY DEF ClassifyFailure
<1>3. NoOldBlock(s)
  BY DEF EraInv
<1> QED
  BY <1>1, <1>2, <1>3, ScrapeAssumption DEF TailStart, NoOldBlock

LEMMA EraStep == EraInv /\ [Next]_vars => EraInv'
<1> SUFFICES ASSUME EraInv, [Next]_vars PROVE EraInv'
  OBVIOUS
<1>0. TypeOK /\ TypeOK'
  BY TypesStep DEF EraInv
<1>a. /\ log \in [size : Nat, waf : Nat] /\ offset \in [Scrapes -> Nat]
      /\ during \in [Scrapes -> BOOLEAN] /\ reason \in [Scrapes -> Reasons]
      /\ DOMAIN pc = Scrapes
  BY <1>0 DEF TypeOK
<1> USE <1>0, <1>a DEF siteVars, logVars, scrapeVars, runHistory
<1>b. ASSUME NEW s \in Scrapes, NEW x, x \in {"hook", "done", "dead"},
             pc' = [pc EXCEPT ![s] = x], UNCHANGED <<log, during>>,
             offset' = offset \/ offset' = [offset EXCEPT ![s] = 0],
             reason' = reason
                \/ \E y : reason' = [reason EXCEPT ![s] = y] /\ (y = "waf_block" => during[s])
      PROVE  EraInv'
  <2>1. ASSUME NEW t \in Scrapes PROVE NoOldBlock(t)'
    BY <1>b, <2>1 DEF EraInv, NoOldBlock
  <2>2. ASSUME NEW t \in Scrapes, reason'[t] = "waf_block" PROVE during'[t]
    BY <1>b, <2>2 DEF EraInv
  <2> QED BY <1>b, <2>1, <2>2 DEF EraInv
<1>1. ASSUME NEW s \in Scrapes, Prepare(s) PROVE EraInv'
  <2>1. ASSUME NEW t \in Scrapes PROVE NoOldBlock(t)'
    BY <1>1, <2>1 DEF Prepare, Goto, EraInv, NoOldBlock
  <2> QED BY <1>1, <2>1 DEF Prepare, EraInv
<1>2. ASSUME NEW s \in Scrapes, Launch(s) PROVE EraInv'
  <2>1. ASSUME NEW t \in Scrapes PROVE NoOldBlock(t)'
    BY <1>2, <2>1 DEF Launch, Goto, EraInv, NoOldBlock
  <2> QED BY <1>2, <2>1 DEF Launch, EraInv
<1>3. ASSUME NEW s \in Scrapes, LaunchError(s) PROVE EraInv'
  <2>1. /\ pc' = [pc EXCEPT ![s] = "done"]
        /\ reason' = [reason EXCEPT ![s] = "network_error"]
        /\ offset' = [offset EXCEPT ![s] = 0] /\ UNCHANGED <<log, during>>
    BY <1>3 DEF LaunchError, Failed, Goto, Forget
  <2>2. \E y : reason' = [reason EXCEPT ![s] = y] /\ (y = "waf_block" => during[s])
    <3> WITNESS "network_error"
    <3> QED BY <2>1
  <2> QED BY <1>b, <2>1, <2>2
<1>4. ASSUME NEW s \in Scrapes, CollectFailure(s) PROVE EraInv'
  <2>1. ClassifyFailure(s) = "waf_block" => during[s]
    BY <1>4, TailClean DEF CollectFailure
  <2> QED BY <1>b, <1>4, <2>1 DEF CollectFailure, Failed, Goto, Forget
<1>5. ASSUME NEW s \in Scrapes, CollectSuccess(s) \/ Refused(s) \/ HooksEnd(s) PROVE EraInv'
  BY <1>b, <1>5 DEF CollectSuccess, Refused, HooksEnd, Goto, Forget
<1>6. ASSUME NEW s \in Scrapes, RecordHistory(s) PROVE EraInv'
  <2>1. UNCHANGED <<pc, log, during, offset>> /\ reason' = [reason EXCEPT ![s] = "none"]
    BY <1>6 DEF RecordHistory
  <2> QED BY <2>1 DEF EraInv, NoOldBlock
<1>c. ASSUME NEW waf \in BOOLEAN, LogLine(waf), UNCHANGED <<pc, offset, reason>>
      PROVE  EraInv'
  <2>1. ASSUME NEW t \in Scrapes PROVE NoOldBlock(t)'
    <3>1. CASE waf
      BY <1>c, <3>1 DEF LogLine, EraInv, NoOldBlock
    <3>2. CASE ~waf
      BY <1>c, <3>2 DEF LogLine, EraInv, NoOldBlock
    <3> QED BY <3>1, <3>2
  <2>2. log'.waf <= log'.size
    BY <1>c DEF LogLine, EraInv
  <2>3. \A t \in Scrapes : during[t] => during'[t]
    BY <1>c DEF LogLine
  <2> QED BY <1>c, <2>1, <2>2, <2>3 DEF EraInv
<1>7. ASSUME NEW s \in Scrapes, ScriptFails(s) PROVE EraInv'
  BY <1>c, <1>7 DEF ScriptFails
<1>8. CASE OtherJurisdictionLogs
  <2>1. CASE log' = [size |-> 0, waf |-> 0] /\ UNCHANGED during
    <3>1. ASSUME NEW t \in Scrapes PROVE NoOldBlock(t)'
      BY <1>8, <2>1, <3>1 DEF OtherJurisdictionLogs, NoOldBlock
    <3> QED BY <1>8, <2>1, <3>1 DEF OtherJurisdictionLogs, EraInv
  <2> QED BY <1>c, <1>8, <2>1 DEF OtherJurisdictionLogs
<1>9. CASE Death
  <2>1. ASSUME NEW t \in Scrapes PROVE NoOldBlock(t)'
    BY <1>9, <2>1 DEF Death, EraInv, NoOldBlock
  <2> QED BY <1>9, <2>1 DEF Death, EraInv
<1>10. CASE UNCHANGED <<pc, log, during, offset, reason>>
  BY <1>10 DEF EraInv, NoOldBlock
<1> QED
  BY <1>1, <1>2, <1>3, <1>4, <1>5, <1>6, <1>7, <1>8, <1>9, <1>10
  DEF Next, ScrapeStep, ScriptStep, WatchdogDecides, WatchdogKills, CeilingKills,
      ScriptStarts, ScriptSucceeds, SitePublishes, vars

LEMMA EraInit == Init => EraInv
<1> SUFFICES ASSUME Init PROVE EraInv
  OBVIOUS
<1>1. TypeOK
  BY TypesInit
<1> QED BY <1>1 DEF Init, EraInv, NoOldBlock

-----------------------------------------------------------------------------
(* A sustained block is counted over runs that were blocked.               *)

\* The blocked runs of a history, and the calls that may have recorded them.
BlockedIn(h) == {i \in DOMAIN h : h[i] = "waf_block"}
Counted == {s \in Scrapes : pc[s] = "done" /\ reason[s] = "none" /\ during[s]}
HadBlock == {s \in Scrapes : during[s]}

CountInv ==
    /\ EraInv
    /\ Cardinality(BlockedIn(history)) <= Cardinality(Counted)
    /\ escalated => Cardinality(HadBlock) >= Threshold

\* The last runs of a history hold no more blocks than all of it.
LEMMA WindowCounts ==
    ASSUME NEW h \in Seq(Reasons), ShouldEscalate(h)
    PROVE  Cardinality(BlockedIn(h)) >= Threshold
<1> DEFINE from == IF Len(h) > Window THEN Len(h) - Window + 1 ELSE 1
           recent == SubSeq(h, from, Len(h))
           R == {i \in DOMAIN recent : recent[i] = "waf_block"}
           f == [i \in R |-> i + from - 1]
<1>1. Len(h) \in Nat /\ DOMAIN h = 1..Len(h) /\ from \in 1..(Len(h) + 1)
  BY ScrapeAssumption
<1> HIDE DEF from
<1>2. /\ DOMAIN recent = 1..(Len(h) - from + 1)
      /\ \A i \in DOMAIN recent : recent[i] = h[i + from - 1]
  BY <1>1
<1>3. IsFiniteSet(BlockedIn(h))
  <2>1. IsFiniteSet(1..Len(h))
    BY <1>1, FS_Interval
  <2>2. BlockedIn(h) \in SUBSET (1..Len(h))
    BY <1>1 DEF BlockedIn
  <2> QED BY <2>1, <2>2, FS_Subset
<1>4. \A i \in R : i \in Int /\ i + from - 1 \in BlockedIn(h)
  <2> SUFFICES ASSUME NEW i \in R PROVE i \in Int /\ i + from - 1 \in BlockedIn(h)
    OBVIOUS
  <2>1. i \in 1..(Len(h) - from + 1) /\ h[i + from - 1] = "waf_block"
    BY <1>2
  <2>2. i + from - 1 \in 1..Len(h)
    BY <1>1, <2>1
  <2> QED BY <1>1, <2>1, <2>2 DEF BlockedIn
<1>5. f \in Injection(R, BlockedIn(h))
  <2>1. f \in [R -> BlockedIn(h)]
    BY <1>4
  <2>2. IsInjective(f)
    BY <1>1, <1>4 DEF IsInjective
  <2> QED BY <2>1, <2>2 DEF Injection
<1> HIDE DEF f, R
<1>6. IsFiniteSet(R) /\ Cardinality(R) <= Cardinality(BlockedIn(h))
  BY <1>3, <1>5, FS_Injection
<1>7. Cardinality(R) >= Threshold
  BY DEF ShouldEscalate, R, from
<1>8. Cardinality(R) \in Nat /\ Cardinality(BlockedIn(h)) \in Nat
  BY <1>3, <1>6, FS_CardinalityType
<1> QED
  BY <1>6, <1>7, <1>8, ScrapeAssumption

\* Sets of calls are finite, and a larger one has no smaller cardinality.
LEMMA CallSets ==
    ASSUME NEW S, NEW T, S \subseteq T, T \subseteq Scrapes
    PROVE  /\ IsFiniteSet(S) /\ IsFiniteSet(T)
           /\ Cardinality(S) \in Nat /\ Cardinality(T) \in Nat
           /\ Cardinality(S) <= Cardinality(T)
<1>1. IsFiniteSet(T)
  BY ScrapeAssumption, FS_Subset
<1> QED
  BY <1>1, FS_Subset, FS_CardinalityType

\* A longer history has one block more, or none.
LEMMA BlockedAppend ==
    ASSUME NEW h \in Seq(Reasons), NEW why \in Reasons
    PROVE  /\ IsFiniteSet(BlockedIn(h))
           /\ Cardinality(BlockedIn(h)) \in Nat
           /\ Cardinality(BlockedIn(Append(h, why)))
                 = Cardinality(BlockedIn(h)) + (IF why = "waf_block" THEN 1 ELSE 0)
<1>1. /\ Len(h) \in Nat /\ DOMAIN h = 1..Len(h)
      /\ DOMAIN Append(h, why) = 1..(Len(h) + 1)
      /\ \A i \in 1..Len(h) : Append(h, why)[i] = h[i]
      /\ Append(h, why)[Len(h) + 1] = why
  OBVIOUS
<1>2. IsFiniteSet(BlockedIn(h))
  <2>1. IsFiniteSet(1..Len(h))
    BY <1>1, FS_Interval
  <2>2. BlockedIn(h) \in SUBSET (1..Len(h))
    BY <1>1 DEF BlockedIn
  <2> QED BY <2>1, <2>2, FS_Subset
<1>3. Len(h) + 1 \notin BlockedIn(h)
  BY <1>1 DEF BlockedIn
<1>4. CASE why = "waf_block"
  <2>1. BlockedIn(Append(h, why)) = BlockedIn(h) \cup {Len(h) + 1}
    BY <1>1, <1>4 DEF BlockedIn
  <2> QED BY <1>2, <1>3, <1>4, <2>1, FS_AddElement, FS_CardinalityType
<1>5. CASE why # "waf_block"
  <2>1. BlockedIn(Append(h, why)) = BlockedIn(h)
    BY <1>1, <1>5 DEF BlockedIn
  <2> QED BY <1>2, <1>5, <2>1, FS_CardinalityType
<1> QED BY <1>4, <1>5

\* A recorded block is one more on both sides; what was counted stays counted.
LEMMA CountStep == CountInv /\ [Next]_vars => CountInv'
<1> SUFFICES ASSUME CountInv, [Next]_vars PROVE CountInv'
  OBVIOUS
<1>0. EraInv /\ EraInv' /\ TypeOK /\ TypeOK'
  BY EraStep DEF CountInv, EraInv
<1>a. /\ during \in [Scrapes -> BOOLEAN] /\ during' \in [Scrapes -> BOOLEAN]
      /\ reason \in [Scrapes -> Reasons] /\ history \in Seq(Reasons)
      /\ DOMAIN pc = Scrapes
  BY <1>0 DEF TypeOK
<1> USE <1>0, <1>a, ScrapeAssumption DEF siteVars, logVars, scrapeVars, runHistory
<1>b. Counted \subseteq Scrapes /\ Counted' \subseteq HadBlock' /\ HadBlock' \subseteq Scrapes
  BY DEF Counted, HadBlock
<1>c. ASSUME Counted \subseteq Counted', HadBlock \subseteq HadBlock', UNCHANGED runHistory
      PROVE  CountInv'
  <2>1. Cardinality(Counted) <= Cardinality(Counted') /\ Cardinality(HadBlock) <= Cardinality(HadBlock')
    BY <1>b, <1>c, CallSets
  <2>2. /\ Cardinality(Counted) \in Nat /\ Cardinality(Counted') \in Nat
        /\ Cardinality(HadBlock) \in Nat /\ Cardinality(HadBlock') \in Nat
    BY <1>b, <1>c, CallSets
  <2>3. Cardinality(BlockedIn(history)) \in Nat
    BY BlockedAppend DEF Reasons
  <2>4. BlockedIn(history)' = BlockedIn(history) /\ escalated' = escalated
    BY <1>c DEF BlockedIn
  <2> QED BY <2>1, <2>2, <2>3, <2>4 DEF CountInv
<1>1. ASSUME NEW s \in Scrapes, RecordHistory(s) PROVE CountInv'
  <2>1. /\ pc[s] = "done" /\ reason[s] # "none" /\ UNCHANGED <<pc, during>>
        /\ reason' = [reason EXCEPT ![s] = "none"]
    BY <1>1 DEF RecordHistory
  <2>2. Counted \subseteq Counted' /\ HadBlock' = HadBlock
    BY <2>1 DEF Counted, HadBlock
  <2>3. CASE UNCHANGED runHistory
    BY <1>c, <2>2, <2>3
  <2>4. CASE /\ history' = HistoryWith(s)
             /\ escalated' = (escalated \/ ShouldEscalate(history'))
    <3>1. /\ IsFiniteSet(BlockedIn(history)) /\ Cardinality(BlockedIn(history)) \in Nat
          /\ Cardinality(BlockedIn(history')) = Cardinality(BlockedIn(history))
                + (IF reason[s] = "waf_block" THEN 1 ELSE 0)
      BY <2>4, BlockedAppend DEF HistoryWith
    <3>2. IsFiniteSet(Counted) /\ Cardinality(Counted) \in Nat
      BY <1>b, CallSets
    <3>3. Cardinality(Counted') >= Cardinality(Counted) + (IF reason[s] = "waf_block" THEN 1 ELSE 0)
      <4>1. CASE reason[s] = "waf_block"
        <5>1. during[s]
          BY <4>1 DEF EraInv
        <5>2. s \notin Counted /\ Counted \cup {s} \subseteq Counted'
          BY <2>1, <2>2, <5>1 DEF Counted
        <5>3. Counted' \subseteq Scrapes
          BY DEF Counted
        <5>4. Cardinality(Counted \cup {s}) = Cardinality(Counted) + 1
          BY <3>2, <5>2, FS_AddElement
        <5>5. Cardinality(Counted \cup {s}) <= Cardinality(Counted')
          BY <5>2, <5>3, CallSets
        <5> QED BY <4>1, <5>4, <5>5
      <4>2. CASE reason[s] # "waf_block"
        <5>1. Cardinality(Counted) <= Cardinality(Counted') /\ Cardinality(Counted') \in Nat
          BY <1>b, <2>2, CallSets
        <5> QED BY <3>2, <4>2, <5>1
      <4> QED BY <4>1, <4>2
    <3>4. /\ Cardinality(Counted') <= Cardinality(HadBlock')
          /\ Cardinality(Counted') \in Nat /\ Cardinality(HadBlock') \in Nat
      BY <1>b, CallSets
    <3>5. Cardinality(BlockedIn(history')) <= Cardinality(Counted')
      BY <3>1, <3>2, <3>3, <3>4 DEF CountInv
    <3>6. history' \in Seq(Reasons)
      BY <2>4 DEF HistoryWith
    <3>7. ASSUME ShouldEscalate(history') PROVE Cardinality(HadBlock') >= Threshold
      <4>1. Cardinality(BlockedIn(history')) >= Threshold
        BY <3>6, <3>7, WindowCounts
      <4>2. Cardinality(BlockedIn(history')) \in Nat
        BY <3>1
      <4> QED BY <3>4, <3>5, <4>1, <4>2
    <3>8. escalated' => Cardinality(HadBlock') >= Threshold
      BY <2>2, <2>4, <3>7 DEF CountInv
    <3>9. BlockedIn(history)' = BlockedIn(history')
      BY DEF BlockedIn
    <3> QED BY <3>5, <3>8, <3>9 DEF CountInv
  <2> QED BY <1>1, <2>3, <2>4 DEF RecordHistory
<1>2. ASSUME NEW s \in Scrapes, pc[s] # "done", pc' = [pc EXCEPT ![s] = "done"],
             \E y : reason' = [reason EXCEPT ![s] = y], UNCHANGED <<during, runHistory>>
      PROVE  CountInv'
  BY <1>c, <1>2 DEF Counted, HadBlock
<1>3. ASSUME NEW s \in Scrapes, Refused(s) \/ LaunchError(s) \/ CollectFailure(s) PROVE CountInv'
  BY <1>2, <1>3 DEF Refused, LaunchError, CollectFailure, Failed, Goto
<1>4. ASSUME NEW s \in Scrapes, CollectSuccess(s) PROVE CountInv'
  <2>1. /\ pc[s] = "script" /\ pc' = [pc EXCEPT ![s] = "hook"]
        /\ reason' = [reason EXCEPT ![s] = "ok"] /\ UNCHANGED <<during, runHistory>>
    BY <1>4 DEF CollectSuccess, Goto
  <2> QED BY <1>c, <2>1 DEF Counted, HadBlock
<1>5. ASSUME NEW s \in Scrapes, Prepare(s) \/ Launch(s) \/ HooksEnd(s) PROVE CountInv'
  <2>1. /\ pc[s] # "done" /\ \E x : pc' = [pc EXCEPT ![s] = x]
        /\ UNCHANGED <<reason, during, runHistory>>
    BY <1>5 DEF Prepare, Launch, HooksEnd, Goto
  <2> QED BY <1>c, <2>1 DEF Counted, HadBlock
<1>6. ASSUME NEW waf \in BOOLEAN, LogLine(waf), UNCHANGED <<pc, reason, runHistory>>
      PROVE  CountInv'
  <2>1. \A t \in Scrapes : during[t] => during'[t]
    BY <1>6 DEF LogLine
  <2> QED BY <1>c, <1>6, <2>1 DEF Counted, HadBlock
<1>7. ASSUME NEW s \in Scrapes, ScriptFails(s) PROVE CountInv'
  BY <1>6, <1>7 DEF ScriptFails
<1>8. CASE OtherJurisdictionLogs
  <2>1. CASE UNCHANGED during
    BY <1>8, <1>c, <2>1 DEF OtherJurisdictionLogs, Counted, HadBlock
  <2> QED BY <1>6, <1>8, <2>1 DEF OtherJurisdictionLogs
<1>9. CASE Death
  BY <1>9, <1>c DEF Death, Counted, HadBlock
<1>10. CASE UNCHANGED <<pc, reason, during, runHistory>>
  BY <1>10, <1>c DEF Counted, HadBlock
<1> QED
  BY <1>1, <1>3, <1>4, <1>5, <1>7, <1>8, <1>9, <1>10
  DEF Next, ScrapeStep, ScriptStep, WatchdogDecides, WatchdogKills, CeilingKills,
      ScriptStarts, ScriptSucceeds, SitePublishes, vars

LEMMA CountInit == Init => CountInv
<1> SUFFICES ASSUME Init PROVE CountInv
  OBVIOUS
<1>1. EraInv
  BY EraInit
<1>2. BlockedIn(history) = {} /\ Counted = {}
  BY DEF Init, BlockedIn, Counted
<1>3. Cardinality(BlockedIn(history)) <= Cardinality(Counted)
  BY <1>2, FS_EmptySet
<1> QED BY <1>1, <1>3 DEF Init, CountInv

\* A run counts as blocked only if a WAF marker was logged while it ran, and a
\* sustained block is alerted only after Threshold such runs, whatever the log
\* gains or loses (_read_scraper_log_tail, _check_sustained_blocking).
THEOREM ScrapeBlockIsOwnEra == Spec => []BlockIsOwnEra
<1>1. CountInv => BlockIsOwnEra
  BY DEF CountInv, EraInv, HadBlock, BlockIsOwnEra
<1> QED
  BY <1>1, CountInit, CountStep, PTL DEF Spec

-----------------------------------------------------------------------------
(* The cloud scrape.                                                       *)

BeforeLoad == {"idle", "launch", "record", "wait", "load"}

\* The load a job has before it is paid for by the first collection or by a
\* death; while the process is down, and no thread is at work, the last death
\* has paid for the next.
LoadBudget(j) ==
    /\ thread[j] \in Active => up
    /\ thread[j] \in BeforeLoad \/ ~up => loads[j] <= crashes
    /\ loads[j] <= 1 + crashes

\* What ECS and the alerts say at the steps of a job's thread.
Reported(j) ==
    /\ thread[j] \in {"idle", "launch"} => ecs[j] = "none"
    /\ thread[j] = "load" => ecs[j] # "running"
    /\ thread[j] \in {"clear", "done"} /\ ecs[j] = "running" => j \in alerted
    /\ thread[j] = "clear" => loads[j] > 0 \/ j \in alerted

Durable(j) == callFaults = 0 /\ thread[j] \in Watching => j \in inflight

JobInv(j) == LoadBudget(j) /\ Reported(j) /\ Durable(j)
CloudInv == CloudTypeOK /\ \A j \in Jobs : JobInv(j)

-----------------------------------------------------------------------------
\* Every action of CloudScrape keeps the types.
LEMMA CloudTypeStep == CloudTypeOK /\ [CloudNext]_cloudVars => CloudTypeOK'
<1> SUFFICES ASSUME CloudTypeOK, [CloudNext]_cloudVars PROVE CloudTypeOK'
  OBVIOUS
<1> USE CloudAssumption DEF CloudTypeOK, ThreadStates, EcsStates, Stopped, Active, Watching,
        MovesTo, Alert, CallFails
<1>1. ASSUME NEW j \in Jobs, Preflight(j) PROVE CloudTypeOK'
  BY <1>1 DEF Preflight
<1>2. ASSUME NEW j \in Jobs, LaunchTask(j) PROVE CloudTypeOK'
  BY <1>2 DEF LaunchTask
<1>3. ASSUME NEW j \in Jobs, RecordStarted(j) PROVE CloudTypeOK'
  BY <1>3 DEF RecordStarted
<1>4. ASSUME NEW j \in Jobs, TaskStopped(j) PROVE CloudTypeOK'
  BY <1>4 DEF TaskStopped
<1>5. ASSUME NEW j \in Jobs, GiveUp(j) PROVE CloudTypeOK'
  BY <1>5 DEF GiveUp
<1>6. ASSUME NEW j \in Jobs, PollRaises(j) PROVE CloudTypeOK'
  BY <1>6 DEF PollRaises
<1>7. ASSUME NEW j \in Jobs, Load(j) PROVE CloudTypeOK'
  BY <1>7 DEF Load
<1>8. ASSUME NEW j \in Jobs, Clear(j) PROVE CloudTypeOK'
  BY <1>8 DEF Clear
<1>9. ASSUME NEW j \in Jobs, AlertAfterClear(j) PROVE CloudTypeOK'
  BY <1>9 DEF AlertAfterClear
<1>10. ASSUME NEW j \in Jobs, TaskEnds(j) PROVE CloudTypeOK'
  BY <1>10 DEF TaskEnds
<1>11. CASE Crash
  <2>1. thread' \in [Jobs -> ThreadStates] /\ crashes' \in 0..MaxCrashes
    BY <1>11 DEF Crash
  <2>2. up' \in BOOLEAN /\ UNCHANGED <<resumed, ecs, inflight, loads, alerted, callFaults>>
    BY <1>11, Zenon DEF Crash
  <2> QED BY <2>1, <2>2
<1>12. CASE Startup
  BY <1>12 DEF Startup
<1>13. CASE UNCHANGED cloudVars
  BY <1>13 DEF cloudVars
<1> QED
  BY <1>1, <1>2, <1>3, <1>4, <1>5, <1>6, <1>7, <1>8, <1>9, <1>10, <1>11,
     <1>12, <1>13 DEF CloudNext, JobStep

\* A step keeps what the invariant says of every job.
LEMMA JobStepInv == CloudInv /\ [CloudNext]_cloudVars => \A k \in Jobs : JobInv(k)'
<1> SUFFICES ASSUME CloudInv, [CloudNext]_cloudVars, NEW k \in Jobs PROVE JobInv(k)'
  OBVIOUS
<1>0. CloudTypeOK /\ JobInv(k)
  BY DEF CloudInv
<1> USE CloudAssumption DEF CloudTypeOK, JobInv, LoadBudget, Reported, Durable, BeforeLoad,
        Active, Watching, MovesTo, Alert, CallFails
<1>1. ASSUME NEW j \in Jobs, Preflight(j) PROVE JobInv(k)'
  BY <1>0, <1>1 DEF Preflight
<1>2. ASSUME NEW j \in Jobs, LaunchTask(j) PROVE JobInv(k)'
  BY <1>0, <1>2 DEF LaunchTask
<1>3. ASSUME NEW j \in Jobs, RecordStarted(j) PROVE JobInv(k)'
  BY <1>0, <1>3 DEF RecordStarted
<1>4. ASSUME NEW j \in Jobs, TaskStopped(j) PROVE JobInv(k)'
  BY <1>0, <1>4 DEF TaskStopped, Stopped
<1>5. ASSUME NEW j \in Jobs, GiveUp(j) PROVE JobInv(k)'
  BY <1>0, <1>5 DEF GiveUp
<1>6. ASSUME NEW j \in Jobs, PollRaises(j) PROVE JobInv(k)'
  BY <1>0, <1>6 DEF PollRaises
<1>7. ASSUME NEW j \in Jobs, Load(j) PROVE JobInv(k)'
  BY <1>0, <1>7 DEF Load
<1>8. ASSUME NEW j \in Jobs, Clear(j) PROVE JobInv(k)'
  BY <1>0, <1>8 DEF Clear
<1>9. ASSUME NEW j \in Jobs, AlertAfterClear(j) PROVE JobInv(k)'
  BY <1>0, <1>9 DEF AlertAfterClear
<1>10. ASSUME NEW j \in Jobs, TaskEnds(j) PROVE JobInv(k)'
  BY <1>0, <1>10 DEF TaskEnds, Stopped
<1>11. CASE Crash
  BY <1>0, <1>11 DEF Crash
<1>12. CASE Startup
  BY <1>0, <1>12 DEF Startup
<1>13. CASE UNCHANGED cloudVars
  BY <1>0, <1>13 DEF cloudVars
<1> QED
  BY <1>1, <1>2, <1>3, <1>4, <1>5, <1>6, <1>7, <1>8, <1>9, <1>10, <1>11,
     <1>12, <1>13 DEF CloudNext, JobStep

\* The invariant holds from the start and every step keeps it.
THEOREM CloudInvariance == CloudSpec => []CloudInv
<1>1. CloudInit => CloudInv
  BY CloudAssumption
  DEF CloudInit, CloudInv, CloudTypeOK, JobInv, LoadBudget, Reported, Durable, ThreadStates,
      EcsStates, Active, Watching
<1>2. CloudInv /\ [CloudNext]_cloudVars => CloudInv'
  BY CloudTypeStep, JobStepInv DEF CloudInv
<1> QED BY <1>1, <1>2, PTL DEF CloudSpec

\* The variables of the cloud scrape keep their types.
THEOREM CloudTypes == CloudSpec => []CloudTypeOK
<1>1. CloudInv => CloudTypeOK
  BY DEF CloudInv
<1> QED BY <1>1, CloudInvariance, PTL

\* Without a failing call, a death at any moment of the watch leaves the
\* record from which startup resumes (inflight_fargate_jobs.py).
THEOREM CloudDurable == CloudSpec => []WatchedIsDurable
<1>1. CloudInv => WatchedIsDurable
  BY DEF CloudInv, JobInv, Durable, WatchedIsDurable
<1> QED BY <1>1, CloudInvariance, PTL

\* One collection is loaded at most once for its first watch and once for
\* each process death (cloud_scrape_trigger.py, _run_load).
THEOREM CloudLoads == CloudSpec => []LoadsBounded
<1>1. CloudInv => LoadsBounded
  BY DEF CloudInv, JobInv, LoadBudget, LoadsBounded
<1> QED BY <1>1, CloudInvariance, PTL

\* A Fargate task is never left running, its thread over, without an alert
\* (cloud_scrape_trigger.py, _wait_for_task_stop and _launch_fargate_task).
THEOREM CloudReported == CloudSpec => []UnwatchedTaskReported
<1>1. CloudInv => UnwatchedTaskReported
  BY DEF CloudInv, JobInv, Reported, UnwatchedTaskReported
<1> QED BY <1>1, CloudInvariance, PTL

\* The record of a resumed job goes only after a load or an alert
\* (cloud_scrape_trigger.py, resume_inflight_fargate_job).
THEOREM CloudResumed == CloudSpec => ResumedClearedAfterReport
<1>1. ASSUME CloudInv, [CloudNext]_cloudVars, NEW j \in resumed, j \in inflight, j \notin inflight'
      PROVE  loads[j] > 0 \/ j \in alerted
  <2>1. j \in Jobs /\ CloudTypeOK /\ Reported(j)
    BY <1>1 DEF CloudInv, CloudTypeOK, JobInv
  <2>2. CASE \E k \in Jobs : PollRaises(k)
    BY <1>1, <2>2 DEF PollRaises
  <2>3. CASE \E k \in Jobs : Clear(k)
    <3>1. PICK k \in Jobs : Clear(k)
      BY <2>3
    <3>2. k = j /\ thread[j] = "clear"
      BY <1>1, <3>1 DEF Clear
    <3> QED BY <2>1, <3>2 DEF Reported
  <2>4. CASE inflight \subseteq inflight'
    BY <1>1, <2>4
  <2> QED
    BY <1>1, <2>2, <2>3, <2>4
    DEF CloudNext, JobStep, Preflight, LaunchTask, RecordStarted, TaskStopped, GiveUp, Load,
        AlertAfterClear, TaskEnds, Crash, Startup, cloudVars
<1>2. CloudInv /\ [CloudNext]_cloudVars
        => [\A j \in resumed : j \in inflight /\ j \notin inflight'
                                  => loads[j] > 0 \/ j \in alerted]_cloudVars
  BY <1>1
<1> QED BY <1>2, CloudInvariance, PTL DEF CloudSpec, ResumedClearedAfterReport
=============================================================================
