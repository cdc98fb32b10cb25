------------------------- MODULE BillVersionSync ---------------------------
(***************************************************************************)
(* One bill under the bill jobs: the daily version check                   *)
(* (pipelines/bill_version.py: the ledger of seen versions, the text in    *)
(* the vector index, the status in the CMS) and the runs a caller starts   *)
(* beside it: the same check, the status sync or the vote sync             *)
(* (pipelines/bill_sync.py).  Nothing keeps two of them apart.             *)
(*                                                                         *)
(* A version is its place in upstream's list; Date gives its date, which   *)
(* two versions may share.  url[v] counts the addresses its text had, 0    *)
(* for none.  activity counts the actions on the bill, and stands for its  *)
(* votes too.  The ledger is ddp-broker-py's BillVersion: a write with a   *)
(* known (date, note) updates that row, and the latest row is the last one *)
(* created among those of the greatest date.                               *)
(***************************************************************************)
EXTENDS Integers, Sequences, SequencesExt, FiniteSets, FiniteSetsExt

CONSTANTS
    Daily,         \* the scheduled job
    Manual,        \* runs started by a caller
    Date,          \* dates of the versions upstream may publish, in its order
    Chunks,        \* chunks of the text of each version
    Unlinked,      \* versions that have no text link when they are published
    Moving,        \* versions whose text gets another address later
    MaxAttempts,   \* max_retry_attempts of a fetch
    NoButtons,     \* VoteBot's button cache holds nothing about the bill
    MaxUrl, MaxActivity,    \* bounds: addresses per text, actions on the bill
    MaxManual,     \* bound: runs a caller starts
    MaxFaults      \* bound: failing calls and process deaths

Jobs == {Daily} \cup Manual
Versions == DOMAIN Date
Most == Max(Range(Chunks))
Places == 0..(Most - 1)

ASSUME VersionAssumption ==
    /\ Daily \notin Manual
    /\ Date \in Seq(Nat) /\ Chunks \in Seq(Nat \ {0})
    /\ Len(Date) > 0 /\ Len(Date) = Len(Chunks)
    /\ Unlinked \subseteq Versions /\ Moving \subseteq Versions /\ MaxAttempts \in Nat \ {0}
    /\ MaxUrl \in Nat \ {0} /\ MaxActivity \in Nat /\ MaxManual \in Nat /\ MaxFaults \in Nat
    /\ NoButtons \notin [Places -> {0} \cup Versions]

VARIABLES
    up,        \* upstream: [n, url, activity]
    flagged,   \* upstream flags the bill's session as current
    ledger,    \* per version its row: [url, count, born], born = 0 for no row
    index,     \* per chunk id the version whose text it holds, 0 for none
    votes,     \* activity the bill-votes document was made from
    cms,       \* the CMS item: [activity, gov]
    job,       \* per job: where it is and what it read
    buttons,   \* the index as VoteBot's button cache saw it
    manual, faults,
    overlap,   \* two version checks ran at once (history variable)
    kept,      \* surplus chunks were left in place (history variable)
    unheard    \* a text change was never announced (history variable)

history == <<overlap, kept, unheard>>
vars == <<up, flagged, ledger, index, votes, cms, job, buttons, manual, faults, history>>

None == 0
Kinds == {"versions", "statuses", "votes"}
Steps == {"idle", "fetch", "read", "backfill", "ingest", "surplus", "describe", "record", "publish", "status", "votes"}

UpStates == [n : 0..Len(Date), url : [Versions -> 0..MaxUrl], activity : 0..MaxActivity]
CmsStates == [activity : 0..MaxActivity, gov : (0..Len(Date)) \X (0..MaxUrl)]
TypeOK ==
    /\ up \in UpStates /\ flagged \in BOOLEAN
    /\ ledger \in [Versions -> [url : 0..MaxUrl, count : 0..Most, born : 0..Len(Date)]]
    /\ index \in [Places -> {0} \cup Versions]
    /\ votes \in 0..MaxActivity /\ cms \in CmsStates
    /\ job \in [Jobs -> [pc : Steps, kind : Kinds, tries : 0..MaxAttempts, snap : CmsStates,
                         data : UpStates,
                         old : 0..Most, made : 0..Most]]
    /\ buttons \in {NoButtons} \cup [Places -> {0} \cup Versions]
    /\ manual \in 0..MaxManual /\ faults \in 0..MaxFaults
    /\ overlap \in BOOLEAN /\ kept \in BOOLEAN /\ unheard \in BOOLEAN

NoRow == [url |-> 0, count |-> 0, born |-> 0]
NoUp == [n |-> 0, url |-> [v \in Versions |-> 0], activity |-> 0]
NoGov == <<0, 0>>
NoCms == [activity |-> 0, gov |-> NoGov]
Idle == [pc |-> "idle", kind |-> "versions", tries |-> 0, snap |-> NoCms, data |-> NoUp,
         old |-> 0, made |-> 0]

Init ==
    /\ up = NoUp /\ flagged = FALSE
    /\ ledger = [v \in Versions |-> NoRow]
    /\ index = [i \in Places |-> 0] /\ votes = 0
    /\ cms = NoCms /\ job = [j \in Jobs |-> Idle]
    /\ buttons = NoButtons /\ manual = 0 /\ faults = 0
    /\ overlap = FALSE /\ kept = FALSE /\ unheard = FALSE

Fault == faults < MaxFaults /\ faults' = faults + 1
Goto(j, where) == job' = [job EXCEPT ![j].pc = where]
Rests(j) == job' = [job EXCEPT ![j] = Idle]
VersionCheckEnds(j) ==
    job' = [job EXCEPT ![j].pc = "status", ![j].old = 0, ![j].made = 0]

-----------------------------------------------------------------------------
(* What the jobs compute.                                                  *)

\* _get_latest_version: the sort by date is stable, so the first version of
\* the greatest date.
Latest(data) ==
    CHOOSE v \in 1..data.n : \A w \in 1..data.n : \/ Date[w] < Date[v]
                                                  \/ Date[w] = Date[v] /\ v <= w
HasText(data) == data.n > 0 /\ data.url[Latest(data)] # 0

Recorded == {v \in Versions : ledger[v].born # 0}

\* The row get_latest_bill_version answers with.
LatestRow ==
    IF Recorded = {} THEN None
    ELSE CHOOSE v \in Recorded : \A w \in Recorded :
            \/ Date[w] < Date[v]
            \/ Date[w] = Date[v] /\ ledger[w].born <= ledger[v].born

\* Mutant: the addresses are not compared.
IsNewerByDate(data, cached) ==
    cached # None => \/ Date[Latest(data)] > Date[cached]
                     \/ Date[Latest(data)] = Date[cached] /\ Latest(data) # cached

\* _is_newer_version: nothing recorded, a later date, another version of the
\* same date, or another address of the text.
IsNewer(data, cached) ==
    cached # None =>
       LET v == Latest(data) IN
       \/ Date[v] > Date[cached]
       \/ Date[v] = Date[cached] /\ v # cached
       \/ <<v, data.url[v]>> # <<cached, ledger[cached].url>>

\* write_bill_version: an update of the row, or a new one.
Written(v, u, c) ==
    [url |-> u, count |-> c,
     born |-> IF v \in Recorded THEN ledger[v].born ELSE Cardinality(Recorded) + 1]

\* Mutant: the range starts one too late.
SurplusShort(old, new) == {i \in Places : new < i /\ i < old}

\* delete_surplus_chunks: the ids of the range new..old - 1.
Implausible(old, new) == old > new * 4
Surplus(old, new) ==
    IF old = 0 \/ Implausible(old, new) THEN {} ELSE {i \in Places : new <= i /\ i < old}

-----------------------------------------------------------------------------
(* Upstream, and VoteBot.                                                  *)

Publish ==
    /\ up.n < Len(Date)
    /\ up' = [up EXCEPT !.n = @ + 1, !.url[up.n + 1] = IF up.n + 1 \in Unlinked THEN 0 ELSE 1]
    /\ UNCHANGED <<flagged, ledger, index, votes, cms, job, buttons, manual, faults, history>>

MoveText ==
    /\ \E v \in Moving \cap 1..up.n : up.url[v] < MaxUrl /\ up' = [up EXCEPT !.url[v] = @ + 1]
    /\ UNCHANGED <<flagged, ledger, index, votes, cms, job, buttons, manual, faults, history>>

Act ==
    /\ up.activity < MaxActivity /\ up' = [up EXCEPT !.activity = @ + 1]
    /\ UNCHANGED <<flagged, ledger, index, votes, cms, job, buttons, manual, faults, history>>

\* Upstream flags the session as current.
Flag ==
    /\ ~flagged /\ flagged' = TRUE
    /\ UNCHANGED <<up, ledger, index, votes, cms, job, buttons, manual, faults, history>>

\* A button is tapped: the answer is generated from the index and cached.
Tap ==
    /\ buttons = NoButtons /\ buttons' = index
    /\ UNCHANGED <<up, flagged, ledger, index, votes, cms, job, manual, faults, history>>

-----------------------------------------------------------------------------
(* A run: the bill is listed from the CMS, then fetched.                   *)

\* The daily job, or a request (trigger_openstates_sync, trigger_bill_status_sync,
\* a batch of the bill handler).
CallerStarts == manual < MaxManual /\ manual' = manual + 1
Begin(j, k) ==
    /\ job[j].pc = "idle"
    /\ IF j = Daily THEN UNCHANGED manual ELSE CallerStarts
    /\ job' = [job EXCEPT ![j] = [Idle EXCEPT !.pc = "fetch", !.kind = k, !.snap = cms]]
    /\ UNCHANGED <<up, flagged, ledger, index, votes, cms, buttons, faults, kept, unheard>>

\* sync_bill_versions takes bills of a current session only.
StartVersions(j) ==
    /\ flagged /\ Begin(j, "versions")
    /\ overlap' = (overlap \/ \E o \in Jobs \ {j} : job[o].pc # "idle" /\ job[o].kind = "versions")

\* sync_bill_statuses also runs for all sessions.
StartStatuses(j) == j \in Manual /\ Begin(j, "statuses") /\ UNCHANGED overlap

\* sync_current_session_bills, or backload_all_bills for all sessions.
BackloadAll(j) == j \in Manual
StartVotes(j) == (flagged \/ BackloadAll(j)) /\ j # Daily /\ Begin(j, "votes") /\ UNCHANGED overlap

\* check_and_update_bill: the version first, then the status.
AfterFetch(k) ==
    CASE k = "votes" -> "votes"
      [] k = "versions" /\ HasText(up) -> "read"
      [] OTHER -> "status"

\* fetch_bill_from_openstates.
Fetched(j) ==
    /\ job[j].pc = "fetch"
    /\ job' = [job EXCEPT ![j].data = up, ![j].tries = 0, ![j].pc = AfterFetch(job[j].kind)]
    /\ UNCHANGED <<up, flagged, ledger, index, votes, cms, buttons, manual, faults, history>>

\* 429, a server error or a timeout is tried again; anything else is not.
FetchFails(j) ==
    /\ job[j].pc = "fetch" /\ Fault
    /\ \/ job[j].tries + 1 < MaxAttempts /\ job' = [job EXCEPT ![j].tries = @ + 1]
       \/ Rests(j)
    /\ UNCHANGED <<up, flagged, ledger, index, votes, cms, buttons, manual, history>>

-----------------------------------------------------------------------------
(* check_and_reingest_version.                                             *)

\* A ledger that cannot be read ends the version check of this run.
ReadLedger(j) ==
    /\ job[j].pc = "read"
    /\ \/ /\ IsNewer(job[j].data, LatestRow) /\ UNCHANGED faults
          /\ job' = [job EXCEPT ![j].old = IF LatestRow = None THEN 0 ELSE ledger[LatestRow].count,
                       ![j].pc = IF LatestRow = None /\ job[j].data.n > 1 THEN "backfill"
                                 ELSE "ingest"]
       \/ ~IsNewer(job[j].data, LatestRow) /\ UNCHANGED faults /\ VersionCheckEnds(j)
       \/ Fault /\ VersionCheckEnds(j)
    /\ UNCHANGED <<up, flagged, ledger, index, votes, cms, buttons, manual, history>>

\* _backfill_missing_versions, the writes that fail being skipped.
Backfill(j) ==
    /\ job[j].pc = "backfill" /\ Goto(j, "ingest")
    /\ \E failed \in SUBSET (1..job[j].data.n \ {Latest(job[j].data)}) :
        /\ faults + Cardinality(failed) <= MaxFaults
        /\ faults' = faults + Cardinality(failed)
        /\ LET others == 1..job[j].data.n \ ({Latest(job[j].data)} \cup failed)
               Before(v) == Cardinality({w \in others \ Recorded : w < v})
           IN ledger' = [v \in Versions |->
                  IF v \notin others THEN ledger[v]
                  ELSE LET new == Written(v, job[j].data.url[v], 0) IN
                       IF v \in Recorded THEN new ELSE [new EXCEPT !.born = @ + Before(v)]]
    /\ UNCHANGED <<up, flagged, index, votes, cms, buttons, manual, history>>

\* Mutant: a failed upsert counts as nothing ingested.
IngestCountsUpserted(j) ==
    /\ job[j].pc = "ingest"
    /\ LET v == Latest(job[j].data)
           Upserted(k) == index' = [i \in Places |-> IF i < k THEN v ELSE index[i]]
       IN \/ Upserted(Chunks[v]) /\ UNCHANGED faults
             /\ job' = [job EXCEPT ![j].made = Chunks[v], ![j].pc = "surplus"]
          \/ Fault /\ Goto(j, "record") /\ \E k \in 0..(Chunks[v] - 1) : Upserted(k)
    /\ UNCHANGED <<up, flagged, ledger, votes, cms, buttons, manual, history>>

\* _ingest_bill_text: no text or an exception leaves nothing to index.  An
\* upsert that fails, after some batches, is returned with every chunk
\* counted (ingest_document).
Ingest(j) ==
    /\ job[j].pc = "ingest"
    /\ LET v == Latest(job[j].data)
           Upserted(k) == index' = [i \in Places |-> IF i < k THEN v ELSE index[i]]
       IN \/ Upserted(Chunks[v]) /\ UNCHANGED faults
             /\ job' = [job EXCEPT ![j].made = Chunks[v], ![j].pc = "surplus"]
          \/ /\ Fault /\ \E k \in 0..(Chunks[v] - 1) : Upserted(k)
             /\ job' = [job EXCEPT ![j].made = Chunks[v], ![j].pc = "surplus"]
          \/ Fault /\ Goto(j, "record") /\ UNCHANGED index
    /\ UNCHANGED <<up, flagged, ledger, votes, cms, buttons, manual, history>>

\* delete_surplus_chunks; an error skips Describe.
DeleteSurplus(j) ==
    /\ job[j].pc = "surplus"
    /\ LET old == job[j].old  new == job[j].made IN
        \/ /\ index' = [i \in Places |-> IF i \in Surplus(old, new) THEN 0 ELSE index[i]]
           /\ kept' = (kept \/ Implausible(old, new))
           /\ Goto(j, "describe") /\ UNCHANGED faults
        \/ Fault /\ Goto(j, "record") /\ UNCHANGED <<index, kept>>
    /\ UNCHANGED <<up, flagged, ledger, votes, cms, buttons, manual, overlap, unheard>>

\* _ingest_bill_history and _generate_and_ingest_changelog write documents of
\* their own, which nothing reads back.  A changelog is made for a bill seen
\* before; one that cannot be made is skipped, and only the upsert may raise.
HistoryFails == Fault
ChangelogFails(j) == job[j].data.n > 1 /\ Fault
Describe(j) ==
    /\ job[j].pc = "describe" /\ Goto(j, "record")
    /\ UNCHANGED faults \/ HistoryFails \/ ChangelogFails(j)
    /\ UNCHANGED <<up, flagged, ledger, index, votes, cms, buttons, manual, history>>

\* write_bill_version, whatever became of the text.
Record(j) ==
    /\ job[j].pc = "record"
    /\ LET v == Latest(job[j].data) IN
        \/ ledger' = [ledger EXCEPT ![v] = Written(v, job[j].data.url[v], job[j].made)]
           /\ UNCHANGED faults
        \/ Fault /\ UNCHANGED ledger
    /\ IF job[j].made > 0 THEN Goto(j, "publish") ELSE VersionCheckEnds(j)
    /\ UNCHANGED <<up, flagged, index, votes, cms, buttons, manual, history>>

\* The invalidation VoteBot subscribes to.
Announce(j) ==
    /\ job[j].pc = "publish" /\ VersionCheckEnds(j)
    /\ \/ buttons' = NoButtons /\ UNCHANGED <<faults, unheard>>
       \/ Fault /\ unheard' = TRUE /\ UNCHANGED buttons
    /\ UNCHANGED <<up, flagged, ledger, index, votes, cms, manual, overlap, kept>>

-----------------------------------------------------------------------------
(* update_bill_status: the fields that differ from the listing are patched. *)

Patched(j) ==
    LET d == job[j].data  snap == job[j].snap
        gov == IF HasText(d) THEN <<Latest(d), d.url[Latest(d)]>> ELSE NoGov
    IN [activity |-> IF d.activity # snap.activity THEN d.activity ELSE cms.activity,
        gov      |-> IF gov \notin {NoGov, snap.gov} THEN gov ELSE cms.gov]

\* update_bill_fields gives FALSE for a patch that did not land.
Patch(j) == \/ cms' = Patched(j) /\ UNCHANGED faults
            \/ Fault /\ UNCHANGED cms

UpdateStatus(j) ==
    /\ job[j].pc = "status" /\ Rests(j)
    /\ \/ job[j].data.activity = 0 /\ UNCHANGED <<cms, faults>>
       \/ job[j].data.activity # 0 /\ Patch(j)
    /\ UNCHANGED <<up, flagged, ledger, index, votes, buttons, manual, history>>

\* format_bill_votes_chunk: no document when there were no votes.
VotesDocument(data) == IF data.activity = 0 THEN votes ELSE data.activity

\* sync_bill.
SyncVotes(j) ==
    /\ job[j].pc = "votes" /\ Rests(j)
    /\ \/ votes' = VotesDocument(job[j].data) /\ UNCHANGED faults
       \/ Fault /\ UNCHANGED votes
    /\ UNCHANGED <<up, flagged, ledger, index, cms, buttons, manual, history>>

\* The process dies; a version check past its first upsert has announced
\* nothing, and whether a later run will is known only if none was recorded.
Die ==
    /\ Fault /\ \E j \in Jobs : job[j].pc # "idle"
    /\ job' = [j \in Jobs |-> Idle]
    /\ unheard' = (unheard \/ \E j \in Jobs : job[j].pc \in {"surplus", "describe", "record", "publish"})
    /\ UNCHANGED <<up, flagged, ledger, index, votes, cms, buttons, manual, overlap, kept>>

Step(j) ==
    \/ Fetched(j) \/ FetchFails(j) \/ ReadLedger(j) \/ Backfill(j) \/ Ingest(j)
    \/ DeleteSurplus(j) \/ Describe(j) \/ Record(j) \/ Announce(j)
    \/ UpdateStatus(j) \/ SyncVotes(j)

Next ==
    \/ Publish \/ MoveText \/ Act \/ Flag \/ Tap \/ Die
    \/ \E j \in Jobs : Step(j) \/ StartVersions(j) \/ StartStatuses(j) \/ StartVotes(j)

Spec == Init /\ [][Next]_vars

\* The scheduler starts the daily job again and again while the bill is
\* eligible, and every await returns.
DailyRuns == WF_vars(StartVersions(Daily))
FairSpec == Spec /\ DailyRuns /\ \A j \in Jobs : WF_vars(Step(j))

-----------------------------------------------------------------------------
(* Properties.                                                             *)

InVersionCheck(j) == job[j].pc \notin {"idle", "fetch", "read", "status", "votes"}
AtRest == \A j \in Jobs : ~InVersionCheck(j)

\* The text of one version: with no failure, no overlapping check and no
\* surplus left on purpose, the index holds between checks exactly the chunks
\* of the version the ledger calls the latest, none of a longer predecessor
\* (_delete_surplus_chunks works from the count in the ledger).
OneText ==
    (AtRest /\ faults = 0 /\ ~overlap /\ ~kept /\ LatestRow # None) =>
        index = [i \in Places |-> IF i < Chunks[LatestRow] THEN LatestRow ELSE 0]

\* VoteBot never keeps an answer made from text that has been replaced: once
\* no check is under way the cached answer is one from the present index,
\* also after failed upserts, failed deletions and overlapping checks, unless
\* an announcement was lost (publish to votebot:cache:invalidate comes last).
ButtonsFresh == (AtRest /\ ~unheard) => buttons \in {NoButtons, index}

\* Once upstream is quiet and the session is flagged as current, the daily job brings
\* the ledger and the CMS to upstream's latest version and action, whatever
\* failed before, and then stops re-ingesting the text.
UpToDate ==
    /\ HasText(up) => /\ LatestRow = Latest(up)
                      /\ ledger[LatestRow].url = up.url[LatestRow]
    /\ up.activity # 0 =>
        /\ cms.activity = up.activity
        /\ HasText(up) => cms.gov = <<Latest(up), up.url[Latest(up)]>>
Settles == <>flagged => <>[](UpToDate /\ AtRest)
====
