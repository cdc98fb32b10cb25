---------------------------- MODULE LegislatorBio ----------------------------
(***************************************************************************)
(* The legislator bio sync: LegislatorBioPipeline.run                      *)
(* (pipelines/legislator_bio.py) goes through the legislators of the       *)
(* Webflow CMS, page by page, looks each one up in OpenStates and in the   *)
(* congress-legislators data set, uploads a photo where there is none      *)
(* (services/webflow_assets.py), and patches the fields in which upstream  *)
(* differs (services/webflow_lookup.py).  The weekly job of the scheduler  *)
(* and POST /trigger/legislator-bio-sync start it; nothing keeps one from  *)
(* running beside the other.                                               *)
(*                                                                         *)
(* Two fields of an item stand for all: "bio", fed by congress-legislators *)
(* for a federal member it knows and by OpenStates otherwise, and "image". *)
(* An upstream value is a version number.  The three files of the data set *)
(* are one, and all photos have one source URL.                            *)
(***************************************************************************)
EXTENDS Naturals, Sequences, FiniteSets, SequencesExt

CONSTANTS
    Order,          \* items of the collection, in listing order
    Federal,        \* those with a federal seat
    WithOpenStates, \* those with an openstatesid
    WithBioguide,   \* those with a bioguide-id
    NewMember,      \* does Congress have a member the CMS lacks?
    WeeklyOptions,  \* BioSyncOptions of _run_legislator_bio_sync
    ManualOptions,  \* those the trigger may be called with
    PerPage,        \* per_page of iter_legislator_items
    MaxChanges,     \* bound: changes of the two upstreams together
    MaxManual,      \* bound: trigger calls
    MaxEdits,       \* bound: edits by staff
    MaxFaults       \* bound: failing calls and process deaths together

Legislators == {Order[i] : i \in DOMAIN Order}
Fields == {"bio", "image"}

\* only: the jurisdiction, "US" for federal; limit 0 is none; dryRun also
\* stands for target "pinecone", which writes nothing either.
Options ==
    [dryRun : BOOLEAN, photos : BOOLEAN, photosDryRun : BOOLEAN, strict : BOOLEAN,
     autoCreate : BOOLEAN, limit : Nat, only : {"all", "US", "state"}]

ASSUME BioAssumption ==
    /\ Order \in Seq(Legislators)
    /\ Federal \subseteq Legislators /\ WithOpenStates \subseteq Legislators
    /\ WithBioguide \subseteq Legislators
    /\ NewMember \in BOOLEAN
    /\ WeeklyOptions \in Options /\ ManualOptions \subseteq Options
    /\ PerPage \in Nat \ {0}
    /\ MaxChanges \in Nat /\ MaxManual \in Nat /\ MaxEdits \in Nat
    /\ MaxFaults \in Nat

VARIABLES
    openstates,  \* version OpenStates serves
    congress,    \* version congress-legislators publishes
    file,        \* the data set in the cache directory
    source,      \* app.state.congress_legislators
    listing,     \* items of the collection, in order
    cms,         \* per item: its two fields
    known,       \* fields the collection's schema has
    run,         \* per actor: the run it executes
    manuals, edits, faults

upstream == <<openstates, congress>>
bounds == <<manuals, edits, faults>>
vars == <<upstream, file, source, listing, cms, known, run, bounds>>

-----------------------------------------------------------------------------
(* Values and items.                                                       *)

Nothing == <<"none", 0>>
OfStaff == <<"staff", 0>>
OpenStates(v) == <<"openstates", v>>
Congress(v)   == <<"congress", v>>
Stored == <<"stored", 0>>      \* an asset with its bytes
Bare   == <<"bare", 0>>        \* an asset of which only the metadata exist

\* is_empty: an upstream value that says nothing.
IsEmpty(value) == value[2] = 0 /\ value[1] \notin {"staff", "stored", "bare"}

\* Mutant: a field that is filled is left as it is.
ShouldFill(old, new) == ~IsEmpty(new) /\ IsEmpty(old)

\* should_write: upstream says something, and something else.  No caller
\* passes locked_fields.
ShouldWrite(old, new) == ~IsEmpty(new) /\ old # new

\* _matches_jurisdiction: a state needs the mapping of CMS references to
\* state codes.
Matches(l, only, mapped) ==
    \/ only = "all"
    \/ only = "US" /\ l \in Federal
    \/ only = "state" /\ l \notin Federal /\ mapped

-----------------------------------------------------------------------------
(* The run of an actor: "startup" only warms the source of app.state.      *)

Actors == {"startup", "weekly", "manual"}

\* page: items read and not yet processed, by their place in the page, as
\* they were when it was read; last: no page follows; found: what OpenStates
\* answered; photo: the reference to put in the payload; cache: that of the
\* asset service; counted: patched records and errors, as far as the limit
\* looks at them; failed: there were errors; read0, alone (weekly only):
\* OpenStates' version at the start, and nobody else wrote since.
NoRun ==
    [pc |-> "idle", opt |-> WeeklyOptions, version |-> 0, mapped |-> FALSE,
     offset |-> 0, page |-> <<>>, last |-> FALSE,
     found |-> Nothing, photo |-> Nothing, cache |-> Nothing,
     counted |-> 0, failed |-> FALSE, orphans |-> {}, aborted |-> FALSE, raised |-> FALSE,
     read0 |-> 0, alone |-> TRUE]

Versions == 0..(MaxChanges + 1)
Values ==
    {Nothing, OfStaff, Stored, Bare} \cup {OpenStates(v) : v \in Versions}
                                    \cup {Congress(v) : v \in Versions}
Snapshots == [id : Legislators, bio : Values, image : Values]
Pages == UNION {[S -> Snapshots] : S \in SUBSET (1..PerPage)}
Steps == {"idle", "warm", "writing", "map", "page", "lookup", "photo", "put", "patch",
          "create", "alert"}

Runs ==
    [pc : Steps, opt : Options, version : Versions, mapped : BOOLEAN,
     offset : Nat, page : Pages, last : BOOLEAN,
     found : Values, photo : Values, cache : Values,
     counted : Nat, failed : BOOLEAN, orphans : SUBSET Legislators, aborted : BOOLEAN,
     raised : BOOLEAN, read0 : Versions, alone : BOOLEAN]

TypeOK ==
    /\ openstates \in Versions \ {0} /\ congress \in Versions \ {0}
    /\ file \in [version : Versions, fresh : BOOLEAN, torn : BOOLEAN]
    /\ source \in [warmed : BOOLEAN, version : Versions]
    /\ listing \in Seq(Legislators)
    /\ cms \in [Legislators -> [Fields -> Values]]
    /\ known \subseteq Fields
    /\ run \in [Actors -> Runs]
    /\ manuals \in 0..MaxManual /\ edits \in 0..MaxEdits /\ faults \in 0..MaxFaults

Init ==
    /\ openstates = 1 /\ congress = 1
    /\ file = [version |-> 0, fresh |-> FALSE, torn |-> FALSE]
    /\ source = [warmed |-> FALSE, version |-> 0]
    /\ listing = Order
    /\ cms = [l \in Legislators |-> [bio |-> Nothing, image |-> Nothing]]
    /\ known \in {Fields, {"bio"}}
    /\ run = [p \in Actors |-> IF p = "startup" THEN [NoRun EXCEPT !.pc = "warm"] ELSE NoRun]
    /\ manuals = 0 /\ edits = 0 /\ faults = 0

Fault == faults < MaxFaults /\ faults' = faults + 1 /\ UNCHANGED <<manuals, edits>>
NoFault == UNCHANGED bounds

At(p, pc) == run[p].pc = pc
Becomes(p, r) == run' = [run EXCEPT ![p] = r]
Goto(p, pc) == Becomes(p, [run[p] EXCEPT !.pc = pc])

Place(r) == Min(DOMAIN r.page)
Item(r) == r.page[Place(r)]
Id(r) == Item(r).id

LimitReached(r) == r.opt.limit > 0 /\ r.counted >= r.opt.limit
Counted(r) == [r EXCEPT !.counted = IF r.counted < r.opt.limit THEN @ + 1 ELSE @]

\* The head of the loop of _process_cms_records, which does not wait: the
\* next record, the next page, or what follows the loop.
Advance(r) ==
    [r EXCEPT !.pc =
        IF DOMAIN r.page = {} /\ ~r.last THEN "page"
        ELSE IF DOMAIN r.page # {} /\ ~LimitReached(r) THEN "lookup"
        ELSE IF r.opt.autoCreate THEN "create" ELSE "alert"]

\* The record in hand is done with.
Past(r) ==
    Advance([r EXCEPT !.page = Restrict(@, DOMAIN @ \ {Place(r)}),
                      !.found = Nothing, !.photo = Nothing])

WithError(r) == [Counted(r) EXCEPT !.failed = TRUE]

\* A patch or an edit is news to a weekly run.
Disturbed(runs, p) ==
    IF p = "weekly" \/ runs["weekly"].pc = "idle" THEN runs
    ELSE [runs EXCEPT !["weekly"].alone = FALSE]

-----------------------------------------------------------------------------
(* Starting a run and warming its source.                                  *)

\* The first step on the CMS; the resolver is only consulted for a state.
Listing(r) == [r EXCEPT !.pc = IF r.opt.only = "state" THEN "map" ELSE "page"]

\* _run_legislator_bio_sync, on its cron: a pipeline and a source of its
\* own.  The job never overlaps itself.
StartWeekly ==
    /\ At("weekly", "idle")
    /\ Becomes("weekly", [NoRun EXCEPT !.pc = "warm", !.read0 = openstates])
    /\ UNCHANGED <<upstream, file, source, listing, cms, known, bounds>>

\* trigger_legislator_bio_sync: 503 unless app.state's source is warmed;
\* otherwise with that source, however old it is.
StartManual(o) ==
    /\ At("manual", "idle") /\ manuals < MaxManual
    /\ source.warmed
    /\ manuals' = manuals + 1
    /\ Becomes("manual", Listing([NoRun EXCEPT !.opt = o, !.version = source.version]))
    /\ UNCHANGED <<upstream, file, source, listing, cms, known, edits, faults>>

\* warm_cache raised: outside the try block of run, so there is no report
\* and no alert; _prewarm_congress_legislators only logs.
WarmFails(p) == Goto(p, "idle")

\* The source is warm.
Warmed(p) ==
    IF p = "startup"
    THEN /\ source' = [warmed |-> TRUE, version |-> file.version]
         /\ Goto(p, "idle")
    ELSE /\ Becomes(p, Listing([run[p] EXCEPT !.version = file.version]))
         /\ UNCHANGED source

\* _fetch_or_cache_one: the file is young enough; half written, it does not
\* parse.
ReadCache(p) ==
    /\ At(p, "warm") /\ file.fresh
    /\ IF file.torn THEN WarmFails(p) /\ UNCHANGED source
                    ELSE Warmed(p)
    /\ UNCHANGED <<upstream, file, listing, cms, known, bounds>>

\* The download; write_bytes empties the file before it fills it.
Download(p) ==
    /\ At(p, "warm") /\ ~file.fresh
    /\ \/ /\ file' = [version |-> congress, fresh |-> TRUE, torn |-> TRUE]
          /\ Goto(p, "writing")
          /\ NoFault
       \/ /\ Fault
          /\ WarmFails(p) /\ UNCHANGED file
    /\ UNCHANGED <<upstream, source, listing, cms, known>>

FileWritten(p) ==
    /\ At(p, "writing")
    /\ file' = [file EXCEPT !.torn = FALSE]
    /\ Warmed(p)
    /\ UNCHANGED <<upstream, listing, cms, known, bounds>>

-----------------------------------------------------------------------------
(* _process_cms_records.                                                   *)

\* get_jurisdiction_mapping never raises: an unreadable collection is an
\* empty mapping.
BuildResolver(p) ==
    /\ At(p, "map")
    /\ \/ Becomes(p, [run[p] EXCEPT !.pc = "page", !.mapped = TRUE]) /\ NoFault
       \/ Goto(p, "page") /\ Fault
    /\ UNCHANGED <<upstream, file, source, listing, cms, known>>

Snapshot(l) == [id |-> l, bio |-> cms[l].bio, image |-> cms[l].image]

PageAt(offset) == SubSeq(listing, offset + 1, Min({offset + PerPage, Len(listing)}))

\* The records of a page that the jurisdiction filter lets through.
Wanted(p, items) ==
    [i \in {i \in DOMAIN items : Matches(items[i], run[p].opt.only, run[p].mapped)}
        |-> Snapshot(items[i])]

\* Mutant: the last page is left out.
ListPageShort(p) ==
    /\ At(p, "page")
    /\ \/ LET items == PageAt(run[p].offset)
          IN  /\ Becomes(p, Advance([run[p] EXCEPT
                    !.offset = @ + Len(items), !.page = Wanted(p, items),
                    !.last = run[p].offset + Len(items) + PerPage >= Len(listing)]))
              /\ NoFault
       \/ /\ Fault
          /\ Becomes(p, [run[p] EXCEPT !.pc = "alert", !.raised = TRUE])
    /\ UNCHANGED <<upstream, file, source, listing, cms, known>>

\* One request of iter_legislator_items; any status but 200, a 429 too, is
\* a WebflowError that passes the handlers of run by.
ListPage(p) ==
    /\ At(p, "page")
    /\ \/ LET items == PageAt(run[p].offset)
          IN  /\ Becomes(p, Advance([run[p] EXCEPT
                    !.offset = @ + Len(items), !.page = Wanted(p, items),
                    !.last = run[p].offset + Len(items) >= Len(listing)]))
              /\ NoFault
       \/ /\ Fault
          /\ Becomes(p, [run[p] EXCEPT !.pc = "alert", !.raised = TRUE])
    /\ UNCHANGED <<upstream, file, source, listing, cms, known>>

-----------------------------------------------------------------------------
(* _sync_one_record.                                                       *)

\* The federal record is found by the item's bioguide-id, or by the one
\* OpenStates knows.
InCongress(r) == Id(r) \in Federal /\ (Id(r) \in WithBioguide \/ r.found # Nothing)

\* _build_federal_payload: Congress before OpenStates.
FederalPayload(r) == IF InCongress(r) THEN Congress(r.version) ELSE r.found

\* _build_state_payload, which only OpenStates feeds.
StatePayload(r) == r.found

Payload(r, f) ==
    CASE f = "image" -> r.photo
      [] f = "bio" -> IF Id(r) \in Federal THEN FederalPayload(r) ELSE StatePayload(r)

\* _diff_payload, against the item as it was when its page was read.
Changed(r) == {f \in Fields : ShouldWrite(Item(r)[f], Payload(r, f))}

\* Nothing differs, or only a report is wanted, or the item is patched.
Diff(r) ==
    IF Changed(r) = {} THEN Past(r)
    ELSE IF r.opt.dryRun THEN Past(Counted(r))
    ELSE [r EXCEPT !.pc = "patch"]

\* A record neither source resolves is an upstream orphan; one without an
\* image gets a photo first.
Orphan(r) == r.found = Nothing /\ ~InCongress(r)
Resolved(r) ==
    IF Orphan(r) THEN Past([r EXCEPT !.orphans = @ \cup {Id(r)}])
    ELSE IF r.opt.photos /\ Item(r).image = Nothing THEN [r EXCEPT !.pc = "photo"]
    ELSE Diff(r)

\* fetch_by_id: a person, or none for a 404 that persists; without an id the
\* record asks for nobody.
Person(l) == IF l \in WithOpenStates THEN OpenStates(openstates) ELSE Nothing

\* The record in hand is looked up.  An error, OpenStatesRateLimitError too,
\* is caught and treated like none.
Lookup(p) ==
    /\ At(p, "lookup")
    /\ \/ /\ Becomes(p, Resolved([run[p] EXCEPT !.found = Person(Id(run[p]))]))
          /\ NoFault
       \/ /\ Id(run[p]) \in WithOpenStates /\ Fault
          /\ Becomes(p, Resolved(run[p]))
    /\ UNCHANGED <<upstream, file, source, listing, cms, known>>

\* _maybe_upload_photo: an error is noted and the record goes on without.
WithoutPhoto(r) == Diff(WithError(r))

\* upload_from_url: a URL this run has uploaded already; in a photo dry run
\* the image is fetched and that is all.
ReuseAsset(p) ==
    /\ At(p, "photo")
    /\ run[p].cache # Nothing \/ run[p].opt.photosDryRun
    /\ Becomes(p, Diff([run[p] EXCEPT !.photo = run[p].cache]))
    /\ UNCHANGED <<upstream, file, source, listing, cms, known, bounds>>

\* _fetch_image, the fallbacks included, and _create_asset.
CreateAsset(p) ==
    /\ At(p, "photo") /\ run[p].cache = Nothing
    /\ \/ /\ ~run[p].opt.photosDryRun
          /\ Goto(p, "put") /\ NoFault
       \/ Becomes(p, WithoutPhoto(run[p])) /\ Fault
    /\ UNCHANGED <<upstream, file, source, listing, cms, known>>

\* Mutant: the reference is cached before the bytes are there.
PutBytesCachedFirst(p) ==
    /\ At(p, "put")
    /\ \/ /\ Becomes(p, Diff([run[p] EXCEPT !.photo = Stored, !.cache = Stored]))
          /\ NoFault
       \/ /\ Fault
          /\ Becomes(p, Diff([WithError(run[p]) EXCEPT !.cache = Bare]))
    /\ UNCHANGED <<upstream, file, source, listing, cms, known>>

\* _put_to_signed_url: only then is there a reference.
PutBytes(p) ==
    /\ At(p, "put")
    /\ \/ /\ Becomes(p, Diff([run[p] EXCEPT !.photo = Stored, !.cache = Stored]))
          /\ NoFault
       \/ /\ Fault
          /\ Becomes(p, WithoutPhoto(run[p]))
    /\ UNCHANGED <<upstream, file, source, listing, cms, known>>

\* The fields _partition_payload keeps; the schema, which the code caches for
\* an hour, is read for each patch.
Kept(p) == Changed(run[p]) \cap known

\* The request reached Webflow; whatever the answer, r is the run after it.
Applied(p, r) ==
    /\ cms' = [cms EXCEPT ![Id(run[p])] =
                   [f \in Fields |-> IF f \in Kept(p) THEN Payload(run[p], f) ELSE @[f]]]
    /\ run' = Disturbed([run EXCEPT ![p] = r], p)

\* update_legislator_fields: fields the schema lacks are dropped, or fail
\* the record under strict_schema; with none left there is no request.  An
\* error, of the schema request too, an item that is gone, or an answer that
\* never came fails the record; 429 on every try aborts the run.
Patch(p) ==
    /\ At(p, "patch")
    /\ LET refused == \/ run[p].opt.strict /\ ~(Changed(run[p]) \subseteq known)
                      \/ ~Contains(listing, Id(run[p])) /\ Kept(p) # {}
           patched == Past(Counted(run[p]))
           failed == Past(WithError(run[p]))
       IN  \/ /\ refused
              /\ Becomes(p, failed) /\ UNCHANGED cms /\ NoFault
           \/ /\ ~refused /\ Kept(p) = {}
              /\ Becomes(p, patched) /\ UNCHANGED cms /\ NoFault
           \/ /\ ~refused /\ Kept(p) # {}
              /\ Applied(p, patched) /\ NoFault
           \/ /\ ~refused /\ Kept(p) # {} /\ Fault
              /\ \/ Applied(p, failed)
                 \/ Becomes(p, failed) /\ UNCHANGED cms
           \/ /\ ~refused /\ Kept(p) # {} /\ Fault
              /\ Becomes(p, [run[p] EXCEPT !.pc = "alert", !.aborted = TRUE])
              /\ UNCHANGED cms
    /\ UNCHANGED <<upstream, file, source, listing, known>>

-----------------------------------------------------------------------------
(* The end of a run.                                                       *)

\* _discover_and_create: a member without an item is reported as a merge
\* candidate or, in a dry run, as one to create.  To create one the code
\* builds a CMSLegislator without seat_refs, a TypeError that passes the
\* handlers of run by, as does a failing listing.
Discover(p) ==
    /\ At(p, "create")
    /\ \/ Goto(p, "alert") /\ NoFault
       \/ /\ run[p].opt.autoCreate /\ NewMember /\ ~run[p].opt.dryRun
          /\ Becomes(p, [run[p] EXCEPT !.pc = "alert", !.raised = TRUE])
          /\ NoFault
       \/ /\ run[p].opt.autoCreate /\ Fault
          /\ Becomes(p, [run[p] EXCEPT !.pc = "alert", !.raised = TRUE])
    /\ UNCHANGED <<upstream, file, source, listing, cms, known>>

\* on_failure of push_bio_sync_alert, which does not see what was raised.
OnFailure(r) == r.failed \/ r.aborted

\* The finally block of run; a webhook that fails is logged.
Alert(p) ==
    /\ At(p, "alert")
    /\ Becomes(p, NoRun)
    /\ UNCHANGED <<upstream, file, source, listing, cms, known, bounds>>

-----------------------------------------------------------------------------
(* The environment.                                                        *)

Changes == openstates + congress - 2

OpenStatesChanges ==
    /\ Changes < MaxChanges /\ openstates' = openstates + 1
    /\ UNCHANGED <<congress, file, source, listing, cms, known, run, bounds>>

CongressChanges ==
    /\ Changes < MaxChanges /\ congress' = congress + 1
    /\ UNCHANGED <<openstates, file, source, listing, cms, known, run, bounds>>

\* _cache_is_fresh: the cached file reaches its age limit.
CacheAges ==
    /\ file.fresh
    /\ file' = [file EXCEPT !.fresh = FALSE]
    /\ UNCHANGED <<upstream, source, listing, cms, known, run, bounds>>

\* Staff fill in an item of their own accord, or delete one.
StaffEdits ==
    /\ edits < MaxEdits /\ edits' = edits + 1
    /\ \E i \in DOMAIN listing :
          \/ /\ cms' = [cms EXCEPT ![listing[i]] = [f \in Fields |-> OfStaff]]
             /\ UNCHANGED listing
          \/ /\ listing' = RemoveAt(listing, i)
             /\ UNCHANGED cms
    /\ run' = Disturbed(run, "staff")
    /\ UNCHANGED <<upstream, file, source, known, manuals, faults>>

\* The process dies and comes back: runs are gone, the source is cold.
Restart ==
    /\ Fault
    /\ run' = [p \in Actors |-> IF p = "startup" THEN [NoRun EXCEPT !.pc = "warm"] ELSE NoRun]
    /\ source' = [warmed |-> FALSE, version |-> 0]
    /\ UNCHANGED <<upstream, file, listing, cms, known>>

Step(p) ==
    \/ ReadCache(p) \/ Download(p) \/ FileWritten(p)
    \/ BuildResolver(p) \/ ListPage(p)
    \/ Lookup(p) \/ ReuseAsset(p) \/ CreateAsset(p) \/ PutBytes(p)
    \/ Patch(p)
    \/ Discover(p) \/ Alert(p)

Next ==
    \/ StartWeekly
    \/ \E o \in ManualOptions : StartManual(o)
    \/ \E p \in Actors : Step(p)
    \/ OpenStatesChanges \/ CongressChanges \/ CacheAges
    \/ StaffEdits
    \/ Restart

\* The cron fires every week, every request has a timeout, and a file grows
\* old.  Nothing is asked of the startup and of manual runs.
Fairness == WF_vars(StartWeekly \/ Step("weekly")) /\ WF_vars(CacheAges)

Spec == Init /\ [][Next]_vars
FairSpec == Spec /\ Fairness

-----------------------------------------------------------------------------
(* Properties.                                                             *)

\* An image of the CMS has its bytes in the asset library, however the
\* upload, its cache and the two runs went (upload_from_url).
ImageBacked == \A l \in Legislators : cms[l].image # Bare

\* The item's bio is what a run that read version v of Congress, and
\* OpenStates not before version w, would have written.
NotOlder(l, v, w) ==
    LET value == cms[l].bio
    IN  IF l \in Federal THEN value = Congress(v)
        ELSE value[1] = "openstates" /\ value[2] >= w

\* An alert without the failure flag can be relied on: unless the listing
\* raised or somebody else wrote meanwhile, every item of the CMS that the
\* alert does not count as an orphan carries what upstream had when the
\* weekly run began, or later (push_bio_sync_alert, _process_cms_records).
QuietRunIsComplete ==
    [][(/\ At("weekly", "alert") /\ run'["weekly"] = NoRun /\ faults' = faults
        /\ ~OnFailure(run["weekly"]) /\ ~run["weekly"].raised /\ run["weekly"].alone)
       => \A l \in ToSet(listing) \ run["weekly"].orphans :
             NotOlder(l, run["weekly"].version, run["weekly"].read0)]_vars

\* Upstream's newest value, if a source has the legislator.
Best(l) ==
    CASE l \in Federal /\ l \in WithBioguide \cup WithOpenStates -> Congress(congress)
      [] l \notin Federal /\ l \in WithOpenStates -> OpenStates(openstates)
      [] OTHER -> Nothing

InStep ==
    \A l \in ToSet(listing) :
        /\ IsEmpty(Best(l)) \/ cms[l].bio = Best(l)
        /\ "image" \in known /\ Best(l) # Nothing => cms[l].image # Nothing

\* Whatever failed, died or was overwritten by a manual run with an old
\* source, the weekly runs bring the CMS in step with upstream.
Converges == <>[]InStep
=============================================================================
