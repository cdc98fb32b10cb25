----------------------------- MODULE Schedule ------------------------------
(***************************************************************************)
(* The scheduler (scheduler.py) and the cadence of the OpenStates scrapes  *)
(* (services/scrape_cadence.py, the overrides and run histories in         *)
(* services/redis_store.py).                                               *)
(*                                                                         *)
(* Boot registers every job the host's gates let through; the scrapes from *)
(* the cadences in the YAML alone, which are floors: Florida and the       *)
(* secondary states once a week, the latter in one batch.  A review,       *)
(* shortly after boot and then every day, reads the overrides and the run  *)
(* histories from Redis, stores "nightly" for each state that files bills, *)
(* and registers the scrapes again: a state that goes nightly leaves the   *)
(* batch and gets a job of its own.  Redis outlives the process, the jobs  *)
(* do not.                                                                 *)
(*                                                                         *)
(* Which states are secondary is read at every registration and at every   *)
(* review from the manifest in the ddp-open-states checkout, or from the   *)
(* YAML when the host is not authoritative or cannot read the manifest.    *)
(***************************************************************************)
EXTENDS Integers, Sequences, FiniteSets

CONSTANTS
    Secondary,      \* the secondary states of the YAML
    FL,             \* Florida, which has a job of its own
    Authoritative,  \* JURISDICTION_MANIFEST_MODE is "authoritative"
    Manifests,      \* lists the manifest may hold
    Excludable,     \* states dynamic_cadence.jurisdictions_excluded may name
    Hosts,          \* what the gates of a host may let through
    EscalateWindow, \* measured runs that count
    MaxLen,         \* records a run history keeps
    MaxFaults,      \* bound: failing Redis calls and registrations
    MaxPulls,       \* bound: changes of the manifest
    MaxRestarts     \* bound: restarts

States == Secondary \union {FL}

(* Every gate: an environment flag of the host and the "enabled" of the    *)
(* YAML, both on.                                                          *)
Gates == {"bill_sync", "legislator_sync", "legislator_bio_sync",
          "organization_sync", "voatz_sync", "webflow_batch", "votebot_eval",
          "api_health_check", "openstates_scrape", "patch_refresh",
          "people_pull", "fork_upstream_check", "jurisdiction_drift_check",
          "openstates_archive", "mi_cookie_publish", "grantbot_scrape",
          "grantbot_similarity_refresh", "slack_citations", "docker_cleanup"}

ASSUME ScheduleAssumption ==
    /\ FL \notin Secondary
    /\ Authoritative \in BOOLEAN
    /\ Manifests \subseteq SUBSET Secondary
    /\ Excludable \subseteq States
    /\ Hosts \subseteq SUBSET Gates
    /\ EscalateWindow \in Nat \ {0} /\ MaxLen \in Nat \ {0}
    /\ MaxFaults \in Nat /\ MaxPulls \in Nat /\ MaxRestarts \in Nat

VARIABLES
    on,        \* gates that are on
    excluded,  \* states that may not be escalated
    jobs,      \* ids of the registered jobs, those of single states aside
    own,       \* states with a nightly job of their own
    batch,     \* states the weekly job openstates_secondary_scrapes scrapes
    flDaily,   \* Florida's job has no day of the week
    layout,    \* secondary states at the last registration (history variable)
    report,    \* _openstates_cadence: the states /schedule reports as nightly
    stored,    \* states whose override in Redis is "nightly"
    history,   \* per state, the run history in Redis
    manifest,  \* the secondary states of the manifest
    readable,  \* the manifest can be read
    pc,        \* of the review
    todo,      \* states the review has yet to read, or to store
    known,     \* states the review resolved to "nightly"
    escalate,  \* states the review escalates
    disturbed, \* a read of this review failed, or the manifest changed during
               \* it (history variable)
    faults, pulls, restarts

configVars == <<on, excluded>>
jobVars    == <<jobs, own, batch, flDaily, layout>>
redisVars  == <<stored, history>>
checkoutVars == <<manifest, readable>>
reviewVars == <<pc, todo, known, escalate, disturbed>>
boundVars  == <<faults, pulls, restarts>>
vars == <<configVars, jobVars, report, redisVars, checkoutVars, reviewVars, boundVars>>

Outcomes == {"new", "quiet", "unmeasured"}

(***************************************************************************)
(* Who is enrolled                                                         *)
(***************************************************************************)

\* load_manifest and manifest_codes: a file that cannot be used gives no answer;
\* it is looked at again whenever it changes.
ManifestAnswers == readable

\* enrolled: the manifest's list only when the host is authoritative.
Enrolled == IF Authoritative /\ ManifestAnswers THEN manifest ELSE Secondary

\* _secondary_jurisdictions and the floors of the review: Florida and the
\* batch, all weekly in sync_schedule.yaml.
Floors == {FL} \union Enrolled

(***************************************************************************)
(* The decision: services/scrape_cadence.py                                *)
(***************************************************************************)

\* Mutant: only the floor counts.
ResolvedToFloor(override) == FALSE

\* resolve_cadence: the override "nightly" or the floor, which is weekly.
Resolved(override) == override

\* Mutant: runs without a measurement take up the window.
ShouldEscalateRaw(records) ==
    LET first == IF Len(records) > EscalateWindow THEN Len(records) - EscalateWindow + 1 ELSE 1
    IN  \E i \in first..Len(records) : records[i] = "new"

\* should_escalate: one of the last measured runs imported new bills.
ShouldEscalate(records) ==
    LET measured == SelectSeq(records, LAMBDA r : r # "unmeasured")
        first    == IF Len(measured) > EscalateWindow THEN Len(measured) - EscalateWindow + 1 ELSE 1
    IN  \E i \in first..Len(measured) : measured[i] = "new"

\* cadence_review of one state: what it is on, and whether it goes up.  The
\* advice to demote is only logged.
Review(j, override, records) ==
    LET previous == Resolved(override)
    IN  [nightly  |-> previous,
         escalate |-> ~previous /\ j \notin excluded /\ ShouldEscalate(records)]

(***************************************************************************)
(* Boot: the jobs the gates of the host let through                        *)
(***************************************************************************)

Ids(host, gate, ids) == IF gate \in host THEN ids ELSE {}

\* start: the bill sync, and the legislator sync, weekly as in the YAML.
BillAndLegislatorJobs(host) ==
    Ids(host, "bill_sync", {"daily_bill_sync"})
        \union Ids(host, "legislator_sync", {"weekly_legislator_sync"})

\* start: the bio sync, weekly as in the YAML, and the organization sync.
BioAndOrganizationJobs(host) ==
    Ids(host, "legislator_bio_sync", {"weekly_legislator_bio_sync"})
        \union Ids(host, "organization_sync", {"monthly_organization_sync"})

\* _register_ddp_api_jobs
DdpApiJobs(host) ==
    Ids(host, "voatz_sync", {"voatz_user_sync", "voatz_full_sync"})
        \union Ids(host, "webflow_batch",
                   {"webflow_fill_session_code", "webflow_fill_map_url",
                    "webflow_bill_org_sync", "webflow_org_about_parse",
                    "webflow_check_org_missing", "webflow_find_duplicates"})

\* _register_votebot_eval_job; its gate includes a valid YAML block and checkout.
VotebotEvalJob(host) == Ids(host, "votebot_eval", {"weekly_votebot_eval"})

\* _register_api_health_check_job
ApiHealthJob(host) == Ids(host, "api_health_check", {"api_health_check"})

\* _register_people_pull_job, _register_fork_upstream_check_job and
\* _register_jurisdiction_drift_check_job: not behind the scrape gate.
CheckoutJobs(host) ==
    Ids(host, "people_pull", {"openstates_people_pull"})
        \union Ids(host, "fork_upstream_check", {"fork_upstream_check"})
        \union Ids(host, "jurisdiction_drift_check", {"jurisdiction_drift_check"})

\* _register_openstates_archive_jobs: the weekly jobs of the jurisdictions,
\* taken as one.
ArchiveJobs(host) == Ids(host, "openstates_archive", {"openstates_archive"})

\* _register_mi_cookie_publish_job
MiCookieJob(host) == Ids(host, "mi_cookie_publish", {"mi_cookie_publish"})

\* _register_grantbot_similarity_refresh_job, _register_grantbot_scrape_job
GrantbotJobs(host) ==
    Ids(host, "grantbot_scrape", {"grantbot_scrape"})
        \union Ids(host, "grantbot_similarity_refresh", {"grantbot_similarity_refresh"})

\* _register_slack_citations_job, _register_docker_cleanup_job
SlackAndDockerJobs(host) ==
    Ids(host, "slack_citations", {"slack_citations"})
        \union Ids(host, "docker_cleanup", {"docker_cleanup"})

\* The scrape jobs of a fixed cadence: patches, Washington, the federal one,
\* the primaries (taken as one).
FixedScrapeJobs(host) ==
    Ids(host, "patch_refresh", {"openstates_patch_refresh"})
        \union {"openstates_wa_scrape", "openstates_usa_scrape", "openstates_primary_scrapes"}

PeopleRefreshJob == "openstates_people_refresh"

\* _register_cadence_review_job, with dynamic_cadence on; at boot the first
\* review is due within minutes.
ReviewJob == "openstates_cadence_review"

\* _register_openstates_scrape_jobs returns at once behind a closed gate.
ScrapeJobs(host) ==
    Ids(host, "openstates_scrape", FixedScrapeJobs(host) \union {PeopleRefreshJob, ReviewJob})

BootJobs(host) ==
    BillAndLegislatorJobs(host) \union BioAndOrganizationJobs(host)
        \union DdpApiJobs(host) \union VotebotEvalJob(host) \union ApiHealthJob(host)
        \union ScrapeJobs(host) \union CheckoutJobs(host)
        \union ArchiveJobs(host) \union MiCookieJob(host) \union GrantbotJobs(host)
        \union SlackAndDockerJobs(host)

TypeOK ==
    /\ on \in Hosts /\ excluded \subseteq Excludable
    /\ jobs \subseteq BootJobs(Gates) /\ own \subseteq Secondary /\ batch \subseteq Secondary
    /\ layout \subseteq Secondary
    /\ flDaily \in BOOLEAN /\ report \subseteq States
    /\ stored \subseteq States /\ history \in [States -> Seq(Outcomes)]
    /\ manifest \subseteq Secondary /\ readable \in BOOLEAN
    /\ pc \in {"idle", "reading", "storing"}
    /\ todo \subseteq States /\ known \subseteq States /\ escalate \subseteq States
    /\ disturbed \in BOOLEAN
    /\ faults \in 0..MaxFaults /\ pulls \in 0..MaxPulls /\ restarts \in 0..MaxRestarts

Scrapes(host) == "openstates_scrape" \in host

Idle == /\ pc' = "idle" /\ todo' = {} /\ known' = {} /\ escalate' = {}
        /\ disturbed' = FALSE

\* A first boot: it registers from the floors and does not read Redis, where an
\* operator may have put Florida, whose runs are not recorded.
Init ==
    /\ on \in Hosts /\ excluded \in SUBSET Excludable
    /\ stored \in SUBSET {FL} /\ history = [j \in States |-> << >>]
    /\ manifest = Secondary /\ readable = TRUE
    /\ jobs = BootJobs(on)
    /\ own = {} /\ flDaily = FALSE /\ report = {}
    /\ layout = (IF Scrapes(on) THEN Enrolled ELSE {}) /\ batch = layout
    /\ pc = "idle" /\ todo = {} /\ known = {} /\ escalate = {} /\ disturbed = FALSE
    /\ faults = 0 /\ pulls = 0 /\ restarts = 0

\* stop or death, then start, perhaps with an edited configuration.
Restart ==
    /\ restarts < MaxRestarts /\ restarts' = restarts + 1
    /\ on' \in Hosts /\ excluded' \in SUBSET Excludable
    /\ jobs' = BootJobs(on')
    /\ own' = {} /\ flDaily' = FALSE /\ report' = {}
    /\ layout' = (IF Scrapes(on') THEN Enrolled ELSE {}) /\ batch' = layout'
    /\ Idle
    /\ UNCHANGED <<redisVars, checkoutVars, faults, pulls>>

(***************************************************************************)
(* Registration of the scrapes on a running scheduler                      *)
(***************************************************************************)

\* An excluded state gets no nightly job, whoever asks for one.
Allowed(nightly) == nightly \ excluded

\* Mutant: the job of a state that goes back to the batch is not removed.
OwnAfterKeepsStale(nightly) == own \union (nightly \intersect Enrolled)

\* The secondary section: jobs of states that are listed and not nightly are
\* removed (a job of a state that left the list stays), the nightly states get
\* one each.
OwnAfter(nightly) == (own \ Enrolled) \union (nightly \intersect Enrolled)

\* The other listed states share the batch, whose job is removed when empty.
BatchAfter(nightly) == Enrolled \ nightly

\* Florida keeps its job, which loses its day of the week.
FloridaDaily(nightly) == FL \in nightly

\* _register_openstates_scrape_jobs, called by a review; it does not await, so
\* nothing comes between its steps.
Register(cadences) ==
    LET nightly == Allowed(cadences) IN
    /\ own' = OwnAfter(nightly)
    /\ batch' = BatchAfter(nightly)
    /\ flDaily' = FloridaDaily(nightly)
    /\ layout' = Enrolled
    /\ jobs' = jobs \union ScrapeJobs(on)
    /\ report' = nightly \intersect Floors

(***************************************************************************)
(* The review                                                              *)
(***************************************************************************)

\* At most one review at a time (max_instances); it takes the floors first.
ReviewStarts ==
    /\ pc = "idle" /\ ReviewJob \in jobs
    /\ pc' = "reading" /\ todo' = Floors
    /\ UNCHANGED <<configVars, jobVars, report, redisVars, checkoutVars, known, escalate, disturbed, boundVars>>

\* The loops go through a dict: Florida, then the list in its order.
Following(j) == j \in todo /\ j = IF FL \in todo THEN FL ELSE CHOOSE k \in todo : TRUE

ReadAs(j, override, records) ==
    LET verdict == Review(j, override, records) IN
    /\ pc = "reading" /\ Following(j) /\ todo' = todo \ {j}
    /\ known' = IF verdict.nightly THEN known \union {j} ELSE known
    /\ escalate' = IF verdict.escalate THEN escalate \union {j} ELSE escalate
    /\ UNCHANGED <<configVars, jobVars, report, redisVars, checkoutVars, pc, pulls, restarts>>

\* get_scrape_cadence and get_run_history
Read(j) ==
    /\ ReadAs(j, j \in stored, history[j])
    /\ UNCHANGED <<faults, disturbed>>

\* A failing read is no error to the review: get_scrape_cadence answers no
\* override, get_run_history no records.
ReadFails(j) ==
    /\ faults < MaxFaults /\ faults' = faults + 1 /\ disturbed' = TRUE
    /\ \/ ReadAs(j, FALSE, history[j])
       \/ ReadAs(j, j \in stored, << >>)

\* Every read comes before the first write.
ReadsEnd ==
    /\ pc = "reading" /\ todo = {}
    /\ pc' = "storing" /\ todo' = escalate
    /\ UNCHANGED <<configVars, jobVars, report, redisVars, checkoutVars, known, escalate, disturbed, boundVars>>

\* set_scrape_cadence
Store(j) ==
    /\ pc = "storing" /\ Following(j) /\ todo' = todo \ {j}
    /\ stored' = stored \union {j}
    /\ UNCHANGED <<configVars, jobVars, report, history, checkoutVars, pc, known, escalate, disturbed, boundVars>>

\* Mutant: an escalation that was not stored is scheduled all the same.
StoreFailsUnnoticed(j) ==
    /\ pc = "storing" /\ Following(j) /\ todo' = todo \ {j}
    /\ faults < MaxFaults /\ faults' = faults + 1
    /\ UNCHANGED <<configVars, jobVars, report, redisVars, checkoutVars, pc, known, escalate, disturbed, pulls, restarts>>

\* The write fails, or only its reply is lost: the state keeps its cadence.
StoreFails(j) ==
    /\ pc = "storing" /\ Following(j) /\ todo' = todo \ {j}
    /\ faults < MaxFaults /\ faults' = faults + 1
    /\ stored' \in {stored, stored \union {j}}
    /\ escalate' = escalate \ {j}
    /\ UNCHANGED <<configVars, jobVars, report, history, checkoutVars, pc, known, disturbed, pulls, restarts>>

\* Only an escalation registers the scrapes again.
Apply ==
    /\ pc = "storing" /\ todo = {} /\ Idle
    /\ IF escalate # {}
       THEN Register(known \union escalate)
       ELSE report' = known /\ UNCHANGED jobVars
    /\ UNCHANGED <<configVars, redisVars, checkoutVars, boundVars>>

\* The registration raises before it has touched a job.
ApplyRaises ==
    /\ pc = "storing" /\ todo = {} /\ escalate # {} /\ Idle
    /\ faults < MaxFaults /\ faults' = faults + 1
    /\ report' = known \union escalate
    /\ UNCHANGED <<configVars, jobVars, redisVars, checkoutVars, pulls, restarts>>

(***************************************************************************)
(* The scrapes and the checkout                                            *)
(***************************************************************************)

\* The states whose runs are recorded: run_secondary_scrapes_job does that for
\* the batch and for single states, run_fl_scrapes_job does not.
Recorded == own \union batch

\* append_run_history: RPUSH and LTRIM.
RunRecorded(j, outcome) ==
    LET longer == Append(history[j], outcome) IN
    /\ j \in Recorded
    /\ history' = [history EXCEPT ![j] = IF Len(longer) > MaxLen THEN Tail(longer) ELSE longer]
    /\ UNCHANGED <<configVars, jobVars, report, stored, checkoutVars, reviewVars, boundVars>>

\* A pull of the checkout, or an edit that makes the manifest unusable.
Pull ==
    /\ pulls < MaxPulls /\ pulls' = pulls + 1
    /\ \/ manifest' \in Manifests \ {manifest} /\ readable' = TRUE
       \/ readable' = FALSE /\ UNCHANGED manifest
    /\ disturbed' = (pc # "idle")
    /\ UNCHANGED <<configVars, jobVars, report, redisVars, pc, todo, known, escalate, faults, restarts>>

ReviewStep ==
    \/ ReviewStarts \/ ReadsEnd \/ Apply
    \/ \E j \in States : Read(j) \/ Store(j)

Next ==
    \/ ReviewStep
    \/ ApplyRaises
    \/ \E j \in States : ReadFails(j) \/ StoreFails(j)
    \/ \E j \in Secondary, outcome \in Outcomes : RunRecorded(j, outcome)
    \/ Pull
    \/ Restart

Spec == Init /\ [][Next]_vars

\* The review job fires every day and its calls return.
FairSpec == Spec /\ WF_vars(ReviewStep)

(***************************************************************************)
(* Properties                                                              *)
(***************************************************************************)

(* "Exactly one cron": every secondary state of the last registration is   *)
(* scraped by one job, the batch or its own, through any sequence of       *)
(* escalations, failed reads and changes of the list; no state is ever     *)
(* in two (_register_openstates_scrape_jobs, scheduler.py:770-840).        *)
OneJobEach ==
    /\ own \intersect batch = {}
    /\ batch \subseteq layout /\ layout \subseteq own \union batch

(* "Do not schedule from a decision we could not record": a nightly job    *)
(* has its override in Redis, whichever write failed (scheduler.py:1148).  *)
NightlyRecorded == own \subseteq stored /\ (flDaily => FL \in stored)

(* "Demotion is deliberately NOT automatic": while the process runs, a     *)
(* review that read everything, from one list, takes no nightly job away   *)
(* from a state (scrape_cadence.py:29-43, scheduler.py:770).               *)
NeverDemoted == [][restarts' = restarts /\ ~disturbed => own \subseteq own']_vars

Filing(j) ==
    \E i \in DOMAIN history[j] :
        /\ history[j][i] = "new"
        /\ \A k \in DOMAIN history[j] : k > i => history[j][k] = "unmeasured"

(* A secondary state whose newest measured run keeps showing new bills is  *)
(* escalated for good, though reads, writes and registrations fail and the *)
(* process restarts (_run_cadence_review).                                 *)
FilingIsRecorded ==
    \A j \in Secondary :
        <>[](Filing(j) /\ Scrapes(on) /\ j \in Enrolled \ excluded) => <>[](j \in stored)

=============================================================================
