--------------------------- MODULE ArchiveEmbed ----------------------------
(***************************************************************************)
(* One jurisdiction's archive runs (pipelines/openstates_archive.py), the  *)
(* embedding of what they archived into the knowledge-base index           *)
(* (pipelines/knowledge_base_embedding.py) and the backfill that walks the *)
(* same bills beside them (pipelines/knowledge_base_backfill.py).          *)
(*                                                                         *)
(* Documents are numbered in version order; BillOf gives the bill of each. *)
(* arch is api-v3's view: the text of a document, 0 while it is not        *)
(* listed, and the clock reading when its row last changed.  Texts are     *)
(* numbered by the clock, so a changed text is a new one; a row that left  *)
(* the listing does not come back.  vec is the text whose chunks the index *)
(* holds, rec the document's entry in its bill's version record in Redis.  *)
(***************************************************************************)
EXTENDS Integers, FiniteSets, FiniteSetsExt

CONSTANTS
    BillOf,         \* the bill of each document
    Archive0,       \* the documents archived before embedding was enabled
    LedgerCap,      \* knowledge_base_embedding.ledger.max_bills_per_run, where it is not 0
    ReconcileCap,   \* knowledge_base_embedding.reconcile.max_bills_per_run
    DeleteOrphans,  \* knowledge_base_embedding.delete_orphans
    OrphanBudget,   \* MAX_ORPHAN_DOCUMENTS_PER_RUN
    FillScope,      \* EmbedScope.text of the stage that is backfilled
    SaveEvery,      \* CHECKPOINT_EVERY
    MaxFailed,      \* MAX_FAILED_BILLS
    MaxClock,       \* bound: changes of archived rows
    MaxRestarts,    \* bound: backfills that start afresh
    MaxFaults       \* bound: failing calls and process deaths

Docs == DOMAIN BillOf
Bills == {BillOf[d] : d \in Docs}
Writers == {"hook", "fill"}
Clock == 0..MaxClock

ASSUME ArchiveAssumption ==
    /\ Docs \subseteq Nat /\ Bills \subseteq Nat \ {0}
    /\ Archive0 \subseteq Docs /\ DeleteOrphans \in BOOLEAN
    /\ LedgerCap \in Nat /\ ReconcileCap \in Nat /\ OrphanBudget \in Nat
    /\ FillScope \in {"all", "current"}
    /\ SaveEvery \in Nat \ {0} /\ MaxFailed \in Nat
    /\ MaxClock \in Nat \ {0} /\ MaxRestarts \in Nat /\ MaxFaults \in Nat

VARIABLES
    useLedger,   \* configuration: LedgerCap is in force, not 0; it never changes
    arch, now,   \* api-v3's documents, and the clock
    vec,         \* the vector index
    rec, known,  \* version records: their entries, and the bills that have one
    mark, base,  \* the embedding watermark, 0 for none; where its coverage begins (history variable)
    deb,         \* the debounce key is held
    hook,        \* the archive run
    fill,        \* the backfill run
    cp,          \* its checkpoint
    at,          \* per writer: its call of embed_bill
    restarts, faults,
    collided,    \* two writers held one bill at once (history variable)
    settled      \* bills a backfill finished with nothing undone (history variable)

recVars == <<rec, known>>
markVars == <<mark, base>>
fillVars == <<fill, cp, restarts, settled>>
vars == <<useLedger, arch, now, vec, recVars, markVars, deb, hook, fillVars, at, faults, collided>>

Entry == [hash : Clock, stamp : Clock]
TypeOK ==
    /\ useLedger \in BOOLEAN /\ now \in Clock
    /\ arch \in [Docs -> [text : Clock, stamp : Clock]]
    /\ vec \in [Docs -> Clock] /\ rec \in [Docs -> Entry] /\ known \subseteq Bills
    /\ mark \in 0..(MaxClock + 1) /\ base \in 0..(MaxClock + 1) /\ deb \in BOOLEAN
    /\ hook \in [pc : {"idle", "archiving", "legbot", "search", "ledger", "since", "touched", "bills", "unrecorded"},
                 start : 0..(MaxClock + 1), since : 0..(MaxClock + 1), todo : SUBSET Bills, ok : BOOLEAN, gone : Nat]
    /\ fill \in [pc : {"off", "bills", "save", "abort"}, last : {0} \cup Bills, failed : SUBSET Bills,
                 retry : SUBSET Bills, rest : SUBSET Bills, count : 0..(SaveEvery - 1), took : SUBSET Bills]
    /\ cp \in [last : {0} \cup Bills, failed : SUBSET Bills, done : BOOLEAN, took : SUBSET Bills]
    /\ at \in [Writers -> [pc : {"off", "read", "docs", "ingest", "delete", "latest", "record"},
                           bill : {0} \cup Bills, src : [Docs -> [text : Clock, stamp : Clock]],
                           seen : [Docs -> Entry], had : BOOLEAN, ingest : SUBSET Docs, remove : SUBSET Docs,
                           upd : SUBSET Docs, rem : SUBSET Docs, undone : BOOLEAN, latest : [Docs -> Entry]]]
    /\ restarts \in 0..MaxRestarts /\ faults \in 0..MaxFaults
    /\ collided \in BOOLEAN /\ settled \subseteq Bills

Blank == [hash |-> 0, stamp |-> 0]
NoBill == 0
Off == [pc |-> "off", bill |-> NoBill, src |-> [d \in Docs |-> [text |-> 0, stamp |-> 0]],
        seen |-> [d \in Docs |-> Blank], had |-> FALSE, ingest |-> {}, remove |-> {},
        upd |-> {}, rem |-> {}, undone |-> FALSE, latest |-> [d \in Docs |-> Blank]]
NoRun == [pc |-> "idle", start |-> 0, since |-> 0, todo |-> {}, ok |-> TRUE, gone |-> 0]
NoFill == [pc |-> "off", last |-> 0, failed |-> {}, retry |-> {}, rest |-> {}, count |-> 0, took |-> {}]
NoCheckpoint == [last |-> 0, failed |-> {}, done |-> FALSE, took |-> {}]

Of(b) == {d \in Docs : BillOf[d] = b}
Listed == {d \in Docs : arch[d].text # 0}
ListedBills == {BillOf[d] : d \in Listed}

Init ==
    /\ useLedger \in BOOLEAN
    /\ arch = [d \in Docs |-> IF d \in Archive0 THEN [text |-> 1, stamp |-> 1] ELSE [text |-> 0, stamp |-> 0]]
    /\ now = 1
    /\ vec = [d \in Docs |-> 0] /\ rec = [d \in Docs |-> Blank] /\ known = {}
    /\ mark = 0 /\ base = 0 /\ deb = FALSE
    /\ hook = NoRun /\ fill = NoFill /\ cp = NoCheckpoint
    /\ at = [w \in Writers |-> Off]
    /\ restarts = 0 /\ faults = 0
    /\ collided = FALSE /\ settled = {}

Fault == faults < MaxFaults /\ faults' = faults + 1

---------------------------------------------------------------------------
(* The archive run. *)

\* A run starts unless another began within the debounce; a Redis error counts as a free key.
ArchiveStarts ==
    /\ hook.pc = "idle"
    /\ \/ ~deb /\ deb' = TRUE /\ UNCHANGED faults
       \/ Fault /\ UNCHANGED deb
    /\ hook' = [NoRun EXCEPT !.pc = "archiving", !.start = now + 1]
    /\ UNCHANGED <<useLedger, arch, now, vec, recVars, markVars, fillVars, at, collided>>

\* The key expires after half an hour, whatever the run does; it shows when the next one asks.
DebounceExpires ==
    /\ hook.pc = "idle" /\ deb /\ deb' = FALSE
    /\ UNCHANGED <<useLedger, arch, now, vec, recVars, markVars, hook, fillVars, at, faults, collided>>

\* The archiver stores a new text, or a new row of the same text.
Archived(d) ==
    /\ hook.pc = "archiving" /\ now < MaxClock
    /\ now' = now + 1
    /\ \E text \in {now + 1, arch[d].text} \ {0} : arch' = [arch EXCEPT ![d] = [text |-> text, stamp |-> now + 1]]
    /\ UNCHANGED <<useLedger, vec, recVars, markVars, deb, hook, fillVars, at, faults, collided>>

\* api-v3's picker turns from a document to another one of its bill.
Dropped(d) ==
    /\ hook.pc = "archiving"
    /\ d \in Listed /\ \E e \in Listed \ {d} : BillOf[e] = BillOf[d]
    /\ arch' = [arch EXCEPT ![d].text = 0]
    /\ UNCHANGED <<useLedger, now, vec, recVars, markVars, deb, hook, fillVars, at, faults, collided>>

\* An exit code, a timeout, a task that never started or an exception end the run without its hooks.
ArchiveFails ==
    /\ hook.pc = "archiving" /\ Fault
    /\ hook' = NoRun
    /\ UNCHANGED <<useLedger, arch, now, vec, recVars, markVars, deb, fillVars, at, collided>>

ArchiveSucceeds ==
    /\ hook.pc = "archiving"
    /\ hook' = [hook EXCEPT !.pc = "legbot"]
    /\ UNCHANGED <<useLedger, arch, now, vec, recVars, markVars, deb, fillVars, at, faults, collided>>

\* The LegBot hook, then the search refresh; neither can keep the next one from running.
TriggerLegbot ==
    /\ hook.pc = "legbot"
    /\ hook' = [hook EXCEPT !.pc = "search"]
    /\ UNCHANGED <<useLedger, arch, now, vec, recVars, markVars, deb, fillVars, at, faults, collided>>

RefreshSearch ==
    /\ hook.pc = "search"
    /\ hook' = [hook EXCEPT !.pc = IF useLedger THEN "ledger" ELSE "since"]
    /\ UNCHANGED <<useLedger, arch, now, vec, recVars, markVars, deb, fillVars, at, faults, collided>>

---------------------------------------------------------------------------
(* What the embedding hook works on. *)

\* ledger_findings: bills with a listed document that has no entry, one whose row changed
\* since it was embedded, or an entry that is not listed.
Missing(d) == d \in Listed /\ rec[d] = Blank
Changed(d) == d \in Listed /\ rec[d] # Blank /\ rec[d].stamp # arch[d].stamp
Orphaned(d) == DeleteOrphans /\ d \notin Listed /\ rec[d] # Blank
Findings == {b \in ListedBills : \E d \in Of(b) : Missing(d) \/ Changed(d) \/ Orphaned(d)}

\* A random slice when there are more than the cap.
Slices(set, cap) == kSubset(IF Cardinality(set) <= cap THEN Cardinality(set) ELSE cap, set)

\* Without the ledger, or without the records to hold against it, the run falls back to the watermark.
ListLedger ==
    /\ hook.pc = "ledger"
    /\ \/ \E chosen \in Slices(Findings, LedgerCap) :
            hook' = [hook EXCEPT !.pc = "bills", !.todo = chosen] /\ UNCHANGED faults
       \/ Fault /\ hook' = [hook EXCEPT !.pc = "since"]
       \/ Fault /\ \E part \in SUBSET Findings : hook' = [hook EXCEPT !.pc = "bills", !.todo = part]
    /\ UNCHANGED <<useLedger, arch, now, vec, recVars, markVars, deb, fillVars, at, collided>>

\* Mutant: a run looks at what its own archive run changed.
SinceOwnStart(previous) == hook.start

\* The watermark when there is one; a value that cannot be read is none.  Without one, coverage
\* begins with this run.
Since(previous) == IF previous = 0 THEN hook.start ELSE Min({hook.start, previous})
ReadWatermark ==
    /\ hook.pc = "since"
    /\ \E previous \in {mark, 0} :
         /\ IF previous = mark THEN UNCHANGED faults ELSE Fault
         /\ hook' = [hook EXCEPT !.pc = "touched", !.since = Since(previous)]
         /\ base' = IF previous = 0 THEN hook.start ELSE base
    /\ UNCHANGED <<useLedger, arch, now, vec, recVars, mark, deb, fillVars, at, collided>>

Touched == {BillOf[d] : d \in {e \in Listed : arch[e].stamp >= hook.since}}

\* A failed later page makes the run incomplete; a failed first one ends it.
ListTouched ==
    /\ hook.pc = "touched"
    /\ \/ hook' = [hook EXCEPT !.pc = "bills", !.todo = Touched] /\ UNCHANGED faults
       \/ Fault /\ hook' = NoRun
       \/ /\ Fault
          /\ \E part \in SUBSET Touched : hook' = [hook EXCEPT !.pc = "bills", !.todo = part, !.ok = FALSE]
    /\ UNCHANGED <<useLedger, arch, now, vec, recVars, markVars, deb, fillVars, at, collided>>

\* The end of the pass: the watermark moves to the run's start when nothing was left undone.
\* Then, on the watermark path, bills without a record get their turn.
Unrecorded == ListedBills \ (Touched \cup known)
PassEnds ==
    /\ hook.pc = "bills" /\ hook.todo = {} /\ at["hook"].pc = "off"
    /\ LET advance == hook.since # 0 /\ hook.ok IN
       \/ mark' = (IF advance THEN hook.start ELSE mark) /\ UNCHANGED faults
       \/ advance /\ Fault /\ UNCHANGED mark
    /\ IF hook.since # 0 /\ ReconcileCap > 0
       THEN \E chosen \in Slices(Unrecorded, ReconcileCap) :
              hook' = [hook EXCEPT !.pc = "unrecorded", !.todo = chosen]
       ELSE hook' = NoRun
    /\ UNCHANGED <<useLedger, arch, now, vec, recVars, base, deb, fillVars, at, collided>>

ReconcileEnds ==
    /\ hook.pc = "unrecorded" /\ hook.todo = {} /\ at["hook"].pc = "off"
    /\ hook' = NoRun
    /\ UNCHANGED <<useLedger, arch, now, vec, recVars, markVars, deb, fillVars, at, faults, collided>>

\* The watermark's expiry of 30 days, renewed by each complete run.
WatermarkExpires ==
    /\ mark # 0 /\ Fault
    /\ mark' = 0
    /\ UNCHANGED <<useLedger, arch, now, vec, recVars, base, deb, hook, fillVars, at, collided>>

---------------------------------------------------------------------------
(* The backfill of one stage. *)

\* Mutant: a resumed run goes on after the last bill and leaves the failed ones out.
FillStartsForgetful ==
    /\ fill.pc = "off" /\ ~cp.done
    /\ fill' = [NoFill EXCEPT !.pc = "bills", !.last = cp.last,
                  !.rest = {b \in ListedBills : b > cp.last},
                  !.took = cp.took \cup {b \in ListedBills : b > cp.last}]
    /\ UNCHANGED <<useLedger, arch, now, vec, recVars, markVars, deb, hook, cp, restarts, at, faults, collided, settled>>

\* A run resumes from the checkpoint, failed bills first, or from nothing on restart.
\* A finished stage is left alone.
FillStarts ==
    /\ fill.pc = "off"
    /\ \E restart \in BOOLEAN :
         LET from == IF restart THEN NoCheckpoint ELSE cp IN
         /\ restart => restarts < MaxRestarts
         /\ restarts' = restarts + (IF restart THEN 1 ELSE 0)
         /\ ~from.done
         /\ \/ cp' = from /\ UNCHANGED faults
            \/ restart /\ Fault /\ UNCHANGED cp
         /\ fill' = [NoFill EXCEPT !.pc = "bills", !.last = from.last, !.retry = from.failed,
                       !.rest = {b \in ListedBills : b > from.last /\ b \notin from.failed},
                       !.took = from.took \cup {b \in ListedBills : b > from.last}]
    /\ UNCHANGED <<useLedger, arch, now, vec, recVars, markVars, deb, hook, at, collided, settled>>

\* What save() stores: the failures of this run and the carried-over ones it has not retried.
\* took, the bills its runs listed, is a history field.
Checkpoint(done) == [last |-> fill.last, failed |-> fill.failed \cup fill.retry, done |-> done, took |-> fill.took]
FillDone == fill.failed = {} /\ fill.retry = {}

\* A save every SaveEvery bills, before an abort and at the end; a failing one is only logged.
Save ==
    LET over == fill.pc = "bills" /\ fill.retry \cup fill.rest = {} /\ at["fill"].pc = "off" IN
    /\ fill.pc \in {"save", "abort"} \/ over
    /\ \/ cp' = Checkpoint(over /\ FillDone) /\ UNCHANGED faults
       \/ Fault /\ UNCHANGED cp
    /\ fill' = IF fill.pc = "save" THEN [fill EXCEPT !.pc = "bills"] ELSE NoFill
    /\ UNCHANGED <<useLedger, arch, now, vec, recVars, markVars, deb, hook, at, restarts, collided, settled>>

---------------------------------------------------------------------------
(* One bill: embed_bill, and what its caller makes of the outcome. *)

\* The bill left the hook's list.
HookBillEnds(b, undone) ==
    /\ hook' = [hook EXCEPT !.todo = @ \ {b}, !.ok = @ /\ (hook.pc = "bills" => ~undone),
                            !.gone = @ + Cardinality(at["hook"].rem)]
    /\ UNCHANGED fillVars

\* The bill left the backfill's list: retried or new, it counts as failed when anything is undone.
FillBillEnds(b, undone) ==
    LET failed == fill.failed \cup (IF undone THEN {b} ELSE {})
        count  == (fill.count + 1) % SaveEvery
    IN  /\ fill' = [fill EXCEPT !.failed = failed, !.retry = @ \ {b}, !.rest = @ \ {b}, !.count = count,
                        !.last = Max({@, b}),
                        !.pc = IF Cardinality(failed) > MaxFailed THEN "abort"
                               ELSE IF count = 0 THEN "save" ELSE "bills"]
        /\ settled' = IF undone THEN settled ELSE settled \cup {b}
        /\ UNCHANGED <<hook, cp, restarts>>

BillEnds(w, b, undone) ==
    /\ at' = [at EXCEPT ![w] = Off]
    /\ IF w = "hook" THEN HookBillEnds(b, undone) ELSE FillBillEnds(b, undone)

Turn(w) == IF w = "hook" THEN IF hook.pc \in {"bills", "unrecorded"} THEN hook.todo ELSE {}
           ELSE IF fill.pc # "bills" THEN {} ELSE IF fill.retry # {} THEN fill.retry ELSE fill.rest

\* The bill is fetched, or cannot be.
Fetch(w) ==
    /\ at[w].pc = "off" /\ Turn(w) # {}
    /\ LET b == Min(Turn(w)) IN
       \/ /\ at' = [at EXCEPT ![w] = [Off EXCEPT !.pc = "read", !.bill = b,
                       !.src = [d \in Docs |-> IF d \in Of(b) THEN arch[d] ELSE Off.src[d]]]]
          /\ collided' = (collided \/ \E v \in Writers \ {w} : at[v].bill = b)
          /\ UNCHANGED <<hook, fillVars, faults>>
       \/ Fault /\ BillEnds(w, b, TRUE) /\ UNCHANGED collided
    /\ UNCHANGED <<useLedger, arch, now, vec, recVars, markVars, deb>>

\* EmbedScope: the hook wants every text, a stage perhaps only the current one.
Given(e) == {d \in Of(e.bill) : e.src[d].text # 0}
Wanted(w, e) == {d \in Given(e) : w = "hook" \/ FillScope = "all" \/ d = Max(Given(e))}
Outdated(w, e, seen) == {d \in Wanted(w, e) : seen[d].hash # e.src[d].text}
Orphans(w, e, seen) ==
    IF w = "hook" /\ DeleteOrphans /\ Given(e) # {}
    THEN Slices({d \in Of(e.bill) \ Given(e) : seen[d] # Blank}, OrphanBudget - hook.gone) ELSE {{}}

\* The record is read once for the bill; one that cannot be read looks empty.  What Check then
\* leaves to another writer nobody writes: coverage begins anew with this run.
ReadRecord(w) ==
    LET e == at[w] IN
    /\ e.pc = "read"
    /\ \E readable \in BOOLEAN :
         LET seen == [d \in Docs |-> IF readable /\ d \in Of(e.bill) THEN rec[d] ELSE Blank] IN
         /\ readable \/ e.bill \in known
         /\ IF readable THEN UNCHANGED faults ELSE Fault
         /\ base' = IF w = "hook" /\ hook.since # 0 /\ ~readable THEN hook.start ELSE base
         /\ \E gone \in Orphans(w, e, seen) :
              at' = [at EXCEPT ![w] = [e EXCEPT !.pc = "docs", !.seen = seen, !.had = readable /\ e.bill \in known,
                                                !.ingest = Outdated(w, e, seen), !.remove = gone]]
    /\ UNCHANGED <<useLedger, arch, now, vec, recVars, mark, deb, hook, fillVars, collided>>

\* Right before a document is written its entry is read again: another writer's is left alone.
Check(w) ==
    LET e == at[w]
        d == Min(e.ingest)
    IN  /\ e.pc = "docs" /\ e.ingest # {}
        /\ \/ /\ at' = [at EXCEPT ![w] = IF rec[d].hash # e.seen[d].hash THEN [e EXCEPT !.ingest = @ \ {d}]
                                          ELSE [e EXCEPT !.pc = "ingest"]]
              /\ UNCHANGED faults
           \/ /\ Fault
              /\ at' = [at EXCEPT ![w] = IF e.had THEN [e EXCEPT !.ingest = @ \ {d}, !.undone = TRUE]
                                          ELSE [e EXCEPT !.pc = "ingest"]]
        /\ UNCHANGED <<useLedger, arch, now, vec, recVars, markVars, deb, hook, fillVars, collided>>

\* The chunks are upserted and the surplus of the old text deleted; a failure may leave either text.
Ingest(w) ==
    LET e == at[w]
        d == Min(e.ingest)
        next == [e EXCEPT !.pc = "docs", !.ingest = @ \ {d}]
    IN  /\ e.pc = "ingest"
        /\ \/ /\ vec' = [vec EXCEPT ![d] = e.src[d].text]
              /\ at' = [at EXCEPT ![w] = [next EXCEPT !.upd = @ \cup {d}]]
              /\ UNCHANGED faults
           \/ /\ Fault
              /\ \E left \in {vec[d], e.src[d].text} : vec' = [vec EXCEPT ![d] = left]
              /\ at' = [at EXCEPT ![w] = [next EXCEPT !.undone = TRUE]]
        /\ UNCHANGED <<useLedger, arch, now, recVars, markVars, deb, hook, fillVars, collided>>

\* The same guard before an orphan is removed.
CheckOrphan(w) ==
    LET e == at[w]
        d == Min(e.remove)
    IN  /\ e.pc = "docs" /\ e.ingest = {} /\ e.remove # {}
        /\ \/ /\ at' = [at EXCEPT ![w] = IF rec[d] # e.seen[d] THEN [e EXCEPT !.remove = @ \ {d}]
                                          ELSE [e EXCEPT !.pc = "delete"]]
              /\ UNCHANGED faults
           \/ Fault /\ at' = [at EXCEPT ![w] = [e EXCEPT !.remove = @ \ {d}, !.undone = TRUE]]
        /\ UNCHANGED <<useLedger, arch, now, vec, recVars, markVars, deb, hook, fillVars, collided>>

DeleteOrphan(w) ==
    LET e == at[w]
        d == Min(e.remove)
        next == [e EXCEPT !.pc = "docs", !.remove = @ \ {d}]
    IN  /\ e.pc = "delete"
        /\ \/ /\ vec' = [vec EXCEPT ![d] = 0]
              /\ at' = [at EXCEPT ![w] = [next EXCEPT !.rem = @ \cup {d}]]
              /\ UNCHANGED faults
           \/ /\ Fault
              /\ \E left \in {vec[d], 0} : vec' = [vec EXCEPT ![d] = left]
              /\ at' = [at EXCEPT ![w] = [next EXCEPT !.undone = TRUE]]
        /\ UNCHANGED <<useLedger, arch, now, recVars, markVars, deb, hook, fillVars, collided>>

\* Mutant: every row read is stamped, whether its text is embedded or not.
RestampedBlindly(e) == {d \in Given(e) : d \in e.upd \/ e.seen[d].stamp # e.src[d].stamp}

\* Documents whose text is embedded but whose row was stamped anew.
Restamped(e) == {d \in Given(e) : d \in e.upd \/ (e.seen[d].hash = e.src[d].text /\ e.seen[d].stamp # e.src[d].stamp)}

\* Nothing is recorded unless everything was written.  A bill of the unrecorded pass that had
\* nothing to embed gets an empty record.
AllExamined(w) ==
    LET e == at[w] IN
    /\ e.pc = "docs" /\ e.ingest = {} /\ e.remove = {}
    /\ IF e.undone \/ Restamped(e) \cup e.rem = {}
       THEN /\ BillEnds(w, e.bill, e.undone)
            /\ known' = IF w = "hook" /\ hook.pc = "unrecorded" /\ ~e.undone THEN known \cup {e.bill} ELSE known
       ELSE at' = [at EXCEPT ![w].pc = "latest"] /\ UNCHANGED <<hook, fillVars, known>>
    /\ UNCHANGED <<useLedger, arch, now, vec, rec, markVars, deb, faults, collided>>

\* The record is read afresh, to keep what others wrote for other documents.
ReadLatest(w) ==
    LET e == at[w]
        Go(latest) == at' = [at EXCEPT ![w] = [e EXCEPT !.pc = "record", !.latest = latest]]
    IN  /\ e.pc = "latest"
        /\ \/ Go([d \in Docs |-> IF d \in Of(e.bill) THEN rec[d] ELSE Blank]) /\ UNCHANGED <<hook, fillVars, faults>>
           \/ Fault /\ IF e.had THEN BillEnds(w, e.bill, TRUE) ELSE Go(Off.latest) /\ UNCHANGED <<hook, fillVars>>
        /\ UNCHANGED <<useLedger, arch, now, vec, recVars, markVars, deb, collided>>

\* The fields this call set, merged onto the fresh read, without what it removed.
Merged(e) == [d \in Docs |->
    IF d \notin Of(e.bill) THEN rec[d]
    ELSE IF d \in e.rem /\ e.latest[d] = e.seen[d] THEN Blank
    ELSE IF d \in Restamped(e)
    THEN [hash |-> IF d \in e.upd THEN e.src[d].text ELSE e.latest[d].hash, stamp |-> e.src[d].stamp]
    ELSE e.latest[d]]
Record(w) ==
    LET e == at[w] IN
    /\ e.pc = "record"
    /\ \/ rec' = Merged(e) /\ known' = known \cup {e.bill} /\ BillEnds(w, e.bill, FALSE) /\ UNCHANGED faults
       \/ Fault /\ BillEnds(w, e.bill, TRUE) /\ UNCHANGED recVars
    /\ UNCHANGED <<useLedger, arch, now, vec, markVars, deb, collided>>

\* The process dies with the archive run and the backfill in it.
Dies ==
    /\ hook.pc # "idle" \/ fill.pc # "off"
    /\ Fault
    /\ hook' = NoRun /\ fill' = NoFill /\ at' = [w \in Writers |-> Off]
    /\ UNCHANGED <<useLedger, arch, now, vec, recVars, markVars, deb, cp, restarts, collided, settled>>

---------------------------------------------------------------------------
Embed(w) == Fetch(w) \/ ReadRecord(w) \/ Check(w) \/ Ingest(w) \/ CheckOrphan(w) \/ DeleteOrphan(w)
            \/ AllExamined(w) \/ ReadLatest(w) \/ Record(w)
Hook == ArchiveStarts \/ ArchiveSucceeds \/ TriggerLegbot \/ RefreshSearch \/ ListLedger \/ ReadWatermark
        \/ ListTouched \/ PassEnds \/ ReconcileEnds
Next == Hook \/ DebounceExpires \/ ArchiveFails \/ WatermarkExpires \/ FillStarts \/ Save \/ Dies
        \/ (\E d \in Docs : Archived(d) \/ Dropped(d)) \/ (\E w \in Writers : Embed(w))

Spec == Init /\ [][Next]_vars

\* The scheduler starts a run every day and keys expire; calls are answered or time out.
FairSpec == Spec /\ WF_vars(Hook) /\ WF_vars(DebounceExpires) /\ WF_vars(Save) /\ \A w \in Writers : WF_vars(Embed(w))

---------------------------------------------------------------------------
(* Properties *)

\* Every bill of the stage at or below the checkpoint's last bill is one the backfill embedded, or is in its
\* list of failed bills: none is lost by a failed save, an abort or a death (backfill_stage).
ForgetsNothing ==
    \A b \in cp.took : b <= cp.last /\ b \notin cp.failed => b \in settled

\* A listed document whose row changed before the watermark, since coverage began, has its
\* present text in the index, as long as no two writers held one bill at once: the next run,
\* which starts from the watermark, need not look at it (embed_archived_bills).  Coverage begins
\* anew with a run that cannot read the watermark or misreads a record.
WatermarkSound ==
    ~collided => \A d \in Listed : base <= arch[d].stamp /\ arch[d].stamp < mark => vec[d] = arch[d].text

\* The index holds the present text of every listed document, and no unlisted one is on record.
InStep ==
    /\ \A d \in Listed : vec[d] = arch[d].text
    /\ \A d \in Docs \ Listed : DeleteOrphans /\ BillOf[d] \in ListedBills => rec[d] = Blank

\* With the ledger, unless two writers held one bill at once, the runs bring the index in step with api-v3 once
\* the archived rows stay as they are (_reconcile_from_ledger).
Converges == useLedger => <>collided \/ <>[]InStep

====
