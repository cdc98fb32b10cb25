------------------------- MODULE LegislatorBioProofs -------------------------
(***************************************************************************)
(* Theorems about LegislatorBio, for any legislators, options, page size   *)
(* and bounds.                                                             *)
(*                                                                         *)
(* An image has its bytes because no run holds the reference of an asset   *)
(* without them, neither for the record in hand nor in its cache.          *)
(*                                                                         *)
(* A quiet alert accounts for every item because the weekly run does at    *)
(* each step (QuietInv): of the items it has read each is an orphan,       *)
(* carries what upstream had when the run began, or is still in the page,  *)
(* and the page holds of those what the CMS holds, as long as nobody else  *)
(* writes.  The run comes to its alert with its page empty and no page to  *)
(* follow.                                                                 *)
(***************************************************************************)
EXTENDS LegislatorBio, WellFoundedInduction, TLAPS

-----------------------------------------------------------------------------
(* What the operators on a run make of it.                                 *)

RunFields ==
    {"pc", "opt", "version", "mapped", "offset", "page", "last", "found", "photo", "cache",
     "counted", "failed", "orphans", "aborted", "raised", "read0", "alone"}

\* The steps that work on the record in hand, and the runs that have one then.
RecordSteps == {"lookup", "photo", "put", "patch"}
Placed == {r \in Runs : r.pc \in RecordSteps => DOMAIN r.page # {}}

BioTypes == TypeOK /\ run \in [Actors -> Placed]

SameBut(q, r, fields) == \A f \in RunFields \ fields : q[f] = r[f]

Below == {ss \in Nat \X Nat : ss[1] < ss[2]}

\* The first record of a page that holds one.
LEMMA BelowWellFounded == IsWellFoundedOn(Below, Nat)
PROOF
  BY NatLessThanWellFounded DEF OpToRel, Below

LEMMA FirstPlace ==
    ASSUME NEW S \in SUBSET (1..PerPage), S # {}
    PROVE  Min(S) \in S
PROOF
<1>1. S \subseteq Nat
  OBVIOUS
<1>2. \E m \in S : \A n \in S : ~ (<<n, m>> \in Below)
  BY <1>1, BelowWellFounded, WFMin
<1>3. PICK m \in S : \A n \in S : ~ (<<n, m>> \in Below)
  BY <1>2
<1>4. ASSUME NEW n \in S PROVE m <= n
  <2>1. n \in Nat /\ m \in Nat
    BY <1>1
  <2>2. n < m => <<n, m>> \in Below
    BY <2>1 DEF Below
  <2>. QED BY <1>3, <2>1, <2>2
<1>. QED BY <1>4 DEF Min

LEMMA EmptyPage == <<>> \in Pages /\ DOMAIN <<>> = {}
PROOF
<1>1. <<>> \in [{} -> Snapshots] /\ DOMAIN <<>> = {}
  OBVIOUS
<1>. QED BY <1>1 DEF Pages

LEMMA ValueTypes ==
    /\ Nothing \in Values /\ OfStaff \in Values /\ Stored \in Values
    /\ \A v \in Versions : OpenStates(v) \in Values /\ Congress(v) \in Values
PROOF
  BY DEF Values

LEMMA ItemTypes ==
    ASSUME BioAssumption, NEW r \in Runs, DOMAIN r.page # {}
    PROVE  Place(r) \in DOMAIN r.page /\ Item(r) \in Snapshots /\ Id(r) \in Legislators
PROOF
<1>1. PICK S \in SUBSET (1..PerPage) : r.page \in [S -> Snapshots]
  BY DEF Runs, Pages
<1>2. Place(r) \in S
  BY <1>1, FirstPlace DEF Place
<1>. QED BY <1>1, <1>2 DEF Item, Id, Snapshots

\* Advance only moves on; without a limit it goes through the page, then to
\* the next one, and last to what follows the loop.
LEMMA AdvanceFacts ==
    ASSUME NEW r \in Runs
    PROVE  /\ Advance(r) \in Placed
           /\ SameBut(Advance(r), r, {"pc"})
           /\ Advance(r).pc \in {"page", "lookup", "create", "alert"}
           /\ Advance(r).pc = "page" => DOMAIN r.page = {}
           /\ Advance(r).pc = "lookup" => DOMAIN r.page # {}
           /\ Advance(r).pc \in {"create", "alert"} /\ r.opt.limit = 0
                => DOMAIN r.page = {} /\ r.last
PROOF
  BY DEF Advance, Runs, Steps, LimitReached, Options, SameBut, RunFields, Placed, RecordSteps

LEMMA CountedFacts ==
    ASSUME NEW r \in Runs
    PROVE  /\ Counted(r) \in Runs /\ SameBut(Counted(r), r, {"counted"})
           /\ WithError(r) \in Runs /\ SameBut(WithError(r), r, {"counted", "failed"})
           /\ WithError(r).failed
PROOF
<1>. DEFINE n == IF r.counted < r.opt.limit THEN r.counted + 1 ELSE r.counted
<1>1. n \in Nat
  BY DEF Runs, Options
<1>2. Counted(r) = [r EXCEPT !.counted = n]
  BY DEF Counted
<1>. HIDE DEF n
<1>3. Counted(r) \in Runs /\ SameBut(Counted(r), r, {"counted"})
  BY <1>1, <1>2 DEF Runs, SameBut, RunFields
<1>4. WithError(r) = [r EXCEPT !.counted = n, !.failed = TRUE]
  BY <1>2 DEF WithError
<1>5. /\ WithError(r) \in Runs /\ SameBut(WithError(r), r, {"counted", "failed"})
      /\ WithError(r).failed
  BY <1>1, <1>4 DEF Runs, SameBut, RunFields
<1>. QED BY <1>3, <1>5

\* The record in hand is taken from the page, nothing else of it.
LEMMA PastFacts ==
    ASSUME BioAssumption, NEW r \in Runs, DOMAIN r.page # {}
    PROVE  /\ Past(r) \in Placed
           /\ SameBut(Past(r), r, {"pc", "page", "found", "photo"})
           /\ Past(r).page = Restrict(r.page, DOMAIN r.page \ {Place(r)})
           /\ Past(r).found = Nothing /\ Past(r).photo = Nothing
           /\ Past(r).pc \in {"page", "lookup", "create", "alert"}
           /\ Past(r).pc = "page" => DOMAIN Past(r).page = {}
           /\ Past(r).pc = "lookup" => DOMAIN Past(r).page # {}
           /\ Past(r).pc \in {"create", "alert"} /\ r.opt.limit = 0
                => DOMAIN Past(r).page = {} /\ r.last
PROOF
<1>. DEFINE page == Restrict(r.page, DOMAIN r.page \ {Place(r)})
<1>. DEFINE q == [r EXCEPT !.page = page, !.found = Nothing, !.photo = Nothing]
<1>1. page \in Pages
  <2>1. PICK S \in SUBSET (1..PerPage) : r.page \in [S -> Snapshots]
    BY DEF Runs, Pages
  <2>2. page \in [S \ {Place(r)} -> Snapshots]
    BY <2>1 DEF Restrict
  <2>3. S \ {Place(r)} \in SUBSET (1..PerPage)
    OBVIOUS
  <2>. QED BY <2>2, <2>3 DEF Pages
<1>2. Past(r) = Advance(q)
  BY DEF Past
<1>. HIDE DEF page
<1>3. /\ q \in Runs /\ SameBut(q, r, {"page", "found", "photo"})
      /\ q.page = page /\ q.found = Nothing /\ q.photo = Nothing
  BY <1>1, ValueTypes DEF Runs, SameBut, RunFields
<1>. HIDE DEF q
<1>4. SameBut(Past(r), q, {"pc"})
  BY <1>2, <1>3, AdvanceFacts
<1>5. /\ Past(r).page = page /\ Past(r).found = Nothing /\ Past(r).photo = Nothing
      /\ SameBut(Past(r), r, {"pc", "page", "found", "photo"})
      /\ q.last = r.last /\ q.opt = r.opt
  BY <1>3, <1>4 DEF SameBut, RunFields
<1>6. /\ Past(r) \in Placed
      /\ Past(r).pc \in {"page", "lookup", "create", "alert"}
      /\ Past(r).pc = "page" => DOMAIN q.page = {}
      /\ Past(r).pc = "lookup" => DOMAIN q.page # {}
      /\ Past(r).pc \in {"create", "alert"} /\ q.opt.limit = 0
           => DOMAIN q.page = {} /\ q.last
  BY <1>2, <1>3, AdvanceFacts
<1>. QED BY <1>3, <1>5, <1>6 DEF page

LEMMA PastFields ==
    ASSUME BioAssumption, NEW r \in Runs, DOMAIN r.page # {}
    PROVE  /\ Past(r).opt = r.opt /\ Past(r).version = r.version /\ Past(r).offset = r.offset
           /\ Past(r).last = r.last /\ Past(r).cache = r.cache /\ Past(r).failed = r.failed
           /\ Past(r).orphans = r.orphans /\ Past(r).aborted = r.aborted
           /\ Past(r).raised = r.raised /\ Past(r).read0 = r.read0 /\ Past(r).alone = r.alone
           /\ Past(r).found = Nothing /\ Past(r).photo = Nothing
PROOF
<1>1. SameBut(Past(r), r, {"pc", "page", "found", "photo"})
  BY PastFacts
<1>2. Past(r).found = Nothing /\ Past(r).photo = Nothing
  BY PastFacts
<1>. QED BY <1>1, <1>2 DEF SameBut, RunFields

LEMMA DiffTypes ==
    ASSUME BioAssumption, NEW r \in Runs, DOMAIN r.page # {}
    PROVE  Diff(r) \in Placed
PROOF
<1>1. Past(r) \in Placed
  BY PastFacts
<1>2. Past(Counted(r)) \in Placed
  <2>1. Counted(r) \in Runs /\ Counted(r).page = r.page
    BY CountedFacts DEF SameBut, RunFields
  <2>. QED BY <2>1, PastFacts
<1>3. [r EXCEPT !.pc = "patch"] \in Placed
  BY DEF Runs, Steps, Placed
<1>. QED BY <1>1, <1>2, <1>3 DEF Diff

LEMMA ResolvedTypes ==
    ASSUME BioAssumption, NEW r \in Runs, DOMAIN r.page # {}
    PROVE  Resolved(r) \in Placed
PROOF
<1>1. Past([r EXCEPT !.orphans = @ \cup {Id(r)}]) \in Placed
  <2>. DEFINE q == [r EXCEPT !.orphans = @ \cup {Id(r)}]
  <2>1. q \in Runs /\ q.page = r.page
    BY ItemTypes DEF Runs
  <2>. QED BY <2>1, PastFacts
<1>2. [r EXCEPT !.pc = "photo"] \in Placed
  BY DEF Runs, Steps, Placed
<1>. QED BY <1>1, <1>2, DiffTypes DEF Resolved

\* One page of the listing.
LEMMA PageAtFacts ==
    ASSUME BioAssumption, listing \in Seq(Legislators), NEW n \in Nat
    PROVE  /\ PageAt(n) \in Seq(Legislators) /\ Len(PageAt(n)) \in 0..PerPage
           /\ \A i \in 1..Len(PageAt(n)) :
                n + i \in 1..Len(listing) /\ PageAt(n)[i] = listing[n + i]
           /\ n <= Len(listing) => n + Len(PageAt(n)) <= Len(listing)
PROOF
<1>. DEFINE m == Min({n + PerPage, Len(listing)})
<1>1. PerPage \in Nat /\ PerPage > 0 /\ Len(listing) \in Nat
  BY DEF BioAssumption
<1>2. m \in Nat /\ m <= Len(listing) /\ m <= n + PerPage
  BY <1>1 DEF Min
<1>3. PageAt(n) = SubSeq(listing, n + 1, m)
  BY DEF PageAt
<1>. HIDE DEF m
<1>4. CASE n < m
  <2>1. /\ PageAt(n) \in Seq(Legislators) /\ Len(PageAt(n)) = m - n
        /\ \A i \in 1..(m - n) : PageAt(n)[i] = listing[n + i]
    BY <1>1, <1>2, <1>3, <1>4
  <2>. QED BY <1>1, <1>2, <1>4, <2>1
<1>5. CASE n >= m
  <2>1. PageAt(n) = <<>>
    BY <1>1, <1>2, <1>3, <1>5
  <2>. QED BY <1>1, <1>2, <1>5, <2>1
<1>. QED BY <1>2, <1>4, <1>5

-----------------------------------------------------------------------------
(* Types.                                                                  *)

LEMMA NoRunTypes ==
    ASSUME BioAssumption
    PROVE  NoRun \in Placed /\ DOMAIN NoRun.page = {}
PROOF
<1>1. 0 \in Versions
  BY DEF Versions, BioAssumption
<1>2. WeeklyOptions \in Options
  BY DEF BioAssumption
<1>. QED BY <1>1, <1>2, EmptyPage, ValueTypes DEF NoRun, Runs, Steps, Placed, RecordSteps

\* Types of the parts.
LEMMA TypeParts ==
    ASSUME BioTypes, BioAssumption
    PROVE  /\ \A p \in Actors : run[p] \in Placed /\ run[p] \in Runs
           /\ openstates \in Versions /\ congress \in Versions
           /\ file.version \in Versions /\ source.version \in Versions
           /\ faults \in 0..MaxFaults /\ manuals \in 0..MaxManual /\ edits \in 0..MaxEdits
           /\ MaxFaults \in Nat /\ MaxManual \in Nat /\ MaxEdits \in Nat
PROOF
  BY DEF BioTypes, TypeOK, BioAssumption, Placed

LEMMA SetFields ==
    ASSUME NEW r \in Runs
    PROVE  /\ \A s \in Steps \ RecordSteps : [r EXCEPT !.pc = s] \in Placed
           /\ \A v \in Versions : [r EXCEPT !.version = v] \in Runs
           /\ Listing(r) \in Placed
           /\ [r EXCEPT !.pc = "page", !.mapped = TRUE] \in Placed
           /\ [r EXCEPT !.pc = "alert", !.raised = TRUE] \in Placed
           /\ [r EXCEPT !.pc = "alert", !.aborted = TRUE] \in Placed
PROOF
<1>1. \A s \in Steps \ RecordSteps : [r EXCEPT !.pc = s] \in Placed
  BY DEF Runs, Placed
<1>2. \A v \in Versions : [r EXCEPT !.version = v] \in Runs
  BY DEF Runs
<1>3. Listing(r) \in Placed
  BY <1>1 DEF Listing, Steps, RecordSteps
<1>4. /\ [r EXCEPT !.pc = "page", !.mapped = TRUE] \in Placed
      /\ [r EXCEPT !.pc = "alert", !.raised = TRUE] \in Placed
      /\ [r EXCEPT !.pc = "alert", !.aborted = TRUE] \in Placed
  BY DEF Runs, Steps, RecordSteps, Placed
<1>. QED BY <1>1, <1>2, <1>3, <1>4

\* Where only the run of an actor and the count of faults change, it is the
\* run that has to be typed.
LEMMA RunTypes ==
    ASSUME BioTypes, NEW p \in Actors, NEW r \in Placed, Becomes(p, r), Fault \/ NoFault,
           UNCHANGED <<upstream, listing, cms, known>>,
           UNCHANGED file, UNCHANGED source, BioAssumption
    PROVE  BioTypes'
PROOF
<1>1. run' \in [Actors -> Placed]
  BY DEF BioTypes, TypeOK, Becomes
<1>2. manuals' \in 0..MaxManual /\ edits' \in 0..MaxEdits /\ faults' \in 0..MaxFaults
  BY DEF BioTypes, TypeOK, Fault, NoFault, bounds, BioAssumption
<1>. QED BY <1>1, <1>2 DEF BioTypes, TypeOK, Placed, upstream

LEMMA TypeInit == ASSUME BioAssumption, Init PROVE BioTypes
PROOF
<1>1. run \in [Actors -> Placed]
  <2>1. [NoRun EXCEPT !.pc = "warm"] \in Placed
    BY NoRunTypes DEF Runs, Steps, Placed, RecordSteps
  <2>. QED BY <2>1, NoRunTypes DEF Init
<1>2. listing \in Seq(Legislators)
  BY DEF Init, BioAssumption
<1>3. cms \in [Legislators -> [Fields -> Values]]
  BY ValueTypes DEF Init, Fields
<1>. QED BY <1>1, <1>2, <1>3 DEF Init, BioTypes, TypeOK, Placed, Versions, Fields, BioAssumption

\* Starting a run and warming its source.
LEMMA TypeStart ==
    ASSUME BioAssumption, BioTypes, StartWeekly \/ \E o \in ManualOptions : StartManual(o)
    PROVE  BioTypes'
PROOF
<1>1. CASE StartWeekly
  <2>1. [NoRun EXCEPT !.pc = "warm", !.read0 = openstates] \in Placed
    BY NoRunTypes, TypeParts DEF Runs, Steps, Placed, RecordSteps
  <2>. QED BY <1>1, <2>1, RunTypes DEF StartWeekly, NoFault, upstream, Actors
<1>2. ASSUME NEW o \in ManualOptions, StartManual(o) PROVE BioTypes'
  <2>. DEFINE r == [NoRun EXCEPT !.opt = o, !.version = source.version]
  <2>1. r \in Runs
    BY NoRunTypes, TypeParts DEF Runs, Placed, BioAssumption
  <2>2. Listing(r) \in Placed
    BY <2>1, SetFields
  <2>3. run' \in [Actors -> Placed]
    BY <1>2, <2>2 DEF StartManual, Becomes, BioTypes, TypeOK, Actors
  <2>4. manuals' \in 0..MaxManual
    <3>1. manuals < MaxManual /\ manuals' = manuals + 1
      BY <1>2 DEF StartManual
    <3>. QED BY <3>1, TypeParts
  <2>. QED BY <1>2, <2>3, <2>4 DEF StartManual, BioTypes, TypeOK, Placed, upstream
<1>. QED BY <1>1, <1>2

LEMMA TypeGoto ==
    ASSUME BioAssumption, BioTypes, NEW p \in Actors, NEW s \in Steps \ RecordSteps, Goto(p, s)
    PROVE  run' \in [Actors -> Placed]
PROOF
<1>1. [run[p] EXCEPT !.pc = s] \in Placed
  BY TypeParts, SetFields
<1>. QED BY <1>1 DEF Goto, Becomes, BioTypes, TypeOK, Placed

LEMMA TypeWarmed ==
    ASSUME BioAssumption, BioTypes, NEW p \in Actors, Warmed(p)
    PROVE  run' \in [Actors -> Placed] /\ source' \in [warmed : BOOLEAN, version : Versions]
PROOF
<1>1. CASE p = "startup"
  <2>1. source' = [warmed |-> TRUE, version |-> file.version] /\ Goto(p, "idle")
    BY <1>1 DEF Warmed
  <2>2. file.version \in Versions
    BY TypeParts
  <2>3. run' \in [Actors -> Placed]
    BY <2>1, TypeGoto DEF Steps, RecordSteps
  <2>. QED BY <2>1, <2>2, <2>3
<1>2. CASE p # "startup"
  <2>. DEFINE r == Listing([run[p] EXCEPT !.version = file.version])
  <2>1. r \in Placed
    BY TypeParts, SetFields
  <2>2. Becomes(p, r) /\ UNCHANGED source
    BY <1>2 DEF Warmed
  <2>. HIDE DEF r
  <2>. QED BY <2>1, <2>2 DEF Becomes, BioTypes, TypeOK, Placed
<1>. QED BY <1>1, <1>2

LEMMA TypeWarm ==
    ASSUME BioAssumption, BioTypes, NEW p \in Actors,
           ReadCache(p) \/ Download(p) \/ FileWritten(p)
    PROVE  BioTypes'
PROOF
<1>1. run' \in [Actors -> Placed] /\ source' \in [warmed : BOOLEAN, version : Versions]
  <2>1. CASE ReadCache(p)
    BY <2>1, TypeWarmed, TypeGoto DEF ReadCache, WarmFails, BioTypes, TypeOK, Steps, RecordSteps
  <2>2. CASE Download(p)
    BY <2>2, TypeGoto DEF Download, WarmFails, BioTypes, TypeOK, Steps, RecordSteps
  <2>3. CASE FileWritten(p)
    BY <2>3, TypeWarmed DEF FileWritten
  <2>. QED BY <2>1, <2>2, <2>3
<1>2. file' \in [version : Versions, fresh : BOOLEAN, torn : BOOLEAN]
  <2>1. CASE ReadCache(p)
    BY <2>1 DEF ReadCache, BioTypes, TypeOK
  <2>2. CASE Download(p)
    <3>1. congress \in Versions /\ file \in [version : Versions, fresh : BOOLEAN, torn : BOOLEAN]
      BY DEF BioTypes, TypeOK
    <3>2. \/ file' = [version |-> congress, fresh |-> TRUE, torn |-> TRUE]
          \/ UNCHANGED file
      BY <2>2 DEF Download
    <3>3. [version |-> congress, fresh |-> TRUE, torn |-> TRUE]
            \in [version : Versions, fresh : BOOLEAN, torn : BOOLEAN]
      BY <3>1
    <3>. QED BY <3>1, <3>2, <3>3
  <2>3. CASE FileWritten(p)
    <3>1. file \in [version : Versions, fresh : BOOLEAN, torn : BOOLEAN]
      BY DEF BioTypes, TypeOK
    <3>2. file' = [file EXCEPT !.torn = FALSE]
      BY <2>3 DEF FileWritten
    <3>. QED BY <3>1, <3>2
  <2>. QED BY <2>1, <2>2, <2>3
<1>3. manuals' \in 0..MaxManual /\ edits' \in 0..MaxEdits /\ faults' \in 0..MaxFaults
  BY TypeParts DEF ReadCache, Download, FileWritten, Fault, NoFault, bounds
<1>4. UNCHANGED <<upstream, listing, cms, known>>
  BY DEF ReadCache, Download, FileWritten
<1>. QED BY <1>1, <1>2, <1>3, <1>4 DEF BioTypes, TypeOK, Placed, upstream

\* Going through the records.
LEMMA TypeList ==
    ASSUME BioAssumption, BioTypes, NEW p \in Actors, BuildResolver(p) \/ ListPage(p)
    PROVE  BioTypes'
PROOF
<1>1. CASE BuildResolver(p)
  <2>1. [run[p] EXCEPT !.pc = "page", !.mapped = TRUE] \in Placed
    BY TypeParts, SetFields
  <2>2. [run[p] EXCEPT !.pc = "page"] \in Placed
    BY TypeParts, SetFields DEF Steps, RecordSteps
  <2>. QED BY <1>1, <2>1, <2>2, RunTypes DEF BuildResolver, Goto
<1>2. CASE ListPage(p)
  <2>. DEFINE items == PageAt(run[p].offset)
              n == run[p].offset + Len(items)
              end == (n >= Len(listing))
              r == [run[p] EXCEPT !.offset = n, !.page = Wanted(p, items), !.last = end]
  <2>1. run[p].offset \in Nat
    BY TypeParts DEF Runs
  <2>2. items \in Seq(Legislators) /\ Len(items) \in 0..PerPage
    BY <2>1, PageAtFacts DEF BioTypes, TypeOK
  <2>3. Wanted(p, items) \in Pages
    <3>. HIDE DEF items
    <3>. DEFINE S == {i \in DOMAIN items : Matches(items[i], run[p].opt.only, run[p].mapped)}
    <3>1. S \in SUBSET (1..PerPage)
      BY <2>2 DEF BioAssumption
    <3>2. \A i \in S : Snapshot(items[i]) \in Snapshots
      BY <2>2 DEF Snapshot, Snapshots, BioTypes, TypeOK, Fields
    <3>3. Wanted(p, items) \in [S -> Snapshots]
      BY <3>2 DEF Wanted
    <3>. QED BY <3>1, <3>3 DEF Pages
  <2>4. r \in Runs
    <3>. HIDE DEF items
    <3>1. run[p] \in Runs /\ n \in Nat /\ end \in BOOLEAN
      BY <2>1, <2>2, TypeParts
    <3>. HIDE DEF n, end
    <3>. QED BY <3>1, <2>3 DEF Runs
  <2>5. Advance(r) \in Placed
    <3>. HIDE DEF r
    <3>. QED BY <2>4, AdvanceFacts
  <2>6. [run[p] EXCEPT !.pc = "alert", !.raised = TRUE] \in Placed
    BY TypeParts, SetFields
  <2>. HIDE DEF r
  <2>7. UNCHANGED <<upstream, file, source, listing, cms, known>>
    BY <1>2 DEF ListPage
  <2>8. \/ Becomes(p, Advance(r)) /\ NoFault
        \/ Becomes(p, [run[p] EXCEPT !.pc = "alert", !.raised = TRUE]) /\ Fault
    BY <1>2 DEF ListPage, r
  <2>. QED BY <2>5, <2>6, <2>7, <2>8, RunTypes
<1>. QED BY <1>1, <1>2

LEMMA TypeRecord ==
    ASSUME BioAssumption, BioTypes, NEW p \in Actors,
           Lookup(p) \/ ReuseAsset(p) \/ CreateAsset(p) \/ PutBytes(p)
    PROVE  BioTypes'
PROOF
<1>1. run[p] \in Runs /\ DOMAIN run[p].page # {}
  BY TypeParts DEF Placed, RecordSteps, Lookup, ReuseAsset, CreateAsset, PutBytes, At
<1>2. CASE Lookup(p)
  <2>. DEFINE r == [run[p] EXCEPT !.found = Person(Id(run[p]))]
  <2>1. Person(Id(run[p])) \in Values
    BY ValueTypes DEF Person, BioTypes, TypeOK
  <2>2. r \in Runs /\ r.page = run[p].page
    <3>. DEFINE v == Person(Id(run[p]))
    <3>. HIDE DEF v
    <3>. QED BY <1>1, <2>1 DEF Runs
  <2>3. Resolved(r) \in Placed /\ Resolved(run[p]) \in Placed
    BY <1>1, <2>2, ResolvedTypes
  <2>4. UNCHANGED <<upstream, file, source, listing, cms, known>>
    BY <1>2 DEF Lookup
  <2>5. \/ Becomes(p, Resolved(r)) /\ NoFault
        \/ Becomes(p, Resolved(run[p])) /\ Fault
    BY <1>2 DEF Lookup
  <2>. QED BY <2>3, <2>4, <2>5, RunTypes
<1>3. WithoutPhoto(run[p]) \in Placed
  <2>1. WithError(run[p]) \in Runs /\ WithError(run[p]).page = run[p].page
    BY <1>1, CountedFacts DEF SameBut, RunFields
  <2>. QED BY <1>1, <2>1, DiffTypes DEF WithoutPhoto
<1>4. CASE ReuseAsset(p)
  <2>. DEFINE r == [run[p] EXCEPT !.photo = run[p].cache]
  <2>1. r \in Runs /\ r.page = run[p].page
    BY <1>1 DEF Runs
  <2>2. Diff(r) \in Placed
    BY <1>1, <2>1, DiffTypes
  <2>. QED BY <1>4, <2>2, RunTypes DEF ReuseAsset, NoFault
<1>5. CASE CreateAsset(p)
  <2>1. [run[p] EXCEPT !.pc = "put"] \in Placed
    BY <1>1 DEF Runs, Steps, Placed
  <2>. QED BY <1>3, <1>5, <2>1, RunTypes DEF CreateAsset, Goto
<1>6. CASE PutBytes(p)
  <2>. DEFINE r == [run[p] EXCEPT !.photo = Stored, !.cache = Stored]
  <2>1. r \in Runs /\ r.page = run[p].page
    BY <1>1, ValueTypes DEF Runs
  <2>2. Diff(r) \in Placed
    BY <1>1, <2>1, DiffTypes
  <2>. QED BY <1>3, <1>6, <2>2, RunTypes DEF PutBytes
<1>. QED BY <1>2, <1>4, <1>5, <1>6

\* What a patch puts into an item are values.
LEMMA PayloadTypes ==
    ASSUME BioAssumption, NEW r \in Runs
    PROVE  Payload(r, "bio") \in Values /\ Payload(r, "image") = r.photo
PROOF
  BY ValueTypes DEF Payload, FederalPayload, StatePayload, Runs

LEMMA TypePatch ==
    ASSUME BioAssumption, BioTypes, NEW p \in Actors, Patch(p)
    PROVE  BioTypes'
PROOF
<1>1. run[p] \in Runs /\ DOMAIN run[p].page # {}
  BY TypeParts DEF Placed, RecordSteps, Patch, At
<1>. DEFINE patched == Past(Counted(run[p]))
            failed == Past(WithError(run[p]))
            aborted == [run[p] EXCEPT !.pc = "alert", !.aborted = TRUE]
<1>2. patched \in Placed /\ failed \in Placed
  <2>1. /\ Counted(run[p]) \in Runs /\ WithError(run[p]) \in Runs
        /\ Counted(run[p]).page = run[p].page /\ WithError(run[p]).page = run[p].page
    BY <1>1, CountedFacts DEF SameBut, RunFields
  <2>. QED BY <1>1, <2>1, PastFacts
<1>3. aborted \in Placed
  BY <1>1, SetFields
<1>4. UNCHANGED <<upstream, file, source, listing, known>> /\ (Fault \/ NoFault)
  BY DEF Patch
<1>5. \/ UNCHANGED cms /\ \E r \in {patched, failed, aborted} : Becomes(p, r)
      \/ \E r \in {patched, failed} : Applied(p, r)
  BY DEF Patch
<1>6. ASSUME NEW r \in {patched, failed, aborted}, Becomes(p, r), UNCHANGED cms PROVE BioTypes'
  <2>1. r \in Placed
    BY <1>2, <1>3
  <2>. QED BY <1>4, <1>6, <2>1, RunTypes
<1>7. ASSUME NEW r \in {patched, failed}, Applied(p, r) PROVE BioTypes'
  <2>1. r \in Placed
    BY <1>2
  <2>2. run' \in [Actors -> Placed]
    <3>1. [run EXCEPT ![p] = r] \in [Actors -> Placed]
      BY <2>1 DEF BioTypes
    <3>2. \A runs \in [Actors -> Placed] : Disturbed(runs, p) \in [Actors -> Placed]
      <4>1. ASSUME NEW q \in Placed PROVE [q EXCEPT !.alone = FALSE] \in Placed
        BY DEF Placed, Runs
      <4>. QED BY <4>1 DEF Disturbed
    <3>. QED BY <1>7, <3>1, <3>2 DEF Applied
  <2>3. cms' \in [Legislators -> [Fields -> Values]]
    <3>1. Id(run[p]) \in Legislators
      BY <1>1, ItemTypes
    <3>2. \A f \in Fields : Payload(run[p], f) \in Values
      BY <1>1, PayloadTypes DEF Fields, Runs
    <3>3. cms \in [Legislators -> [Fields -> Values]]
      BY DEF BioTypes, TypeOK
    <3>4. [f \in Fields |-> IF f \in Kept(p) THEN Payload(run[p], f) ELSE cms[Id(run[p])][f]]
            \in [Fields -> Values]
      BY <3>1, <3>2, <3>3
    <3>. QED BY <1>7, <3>1, <3>3, <3>4 DEF Applied
  <2>4. manuals' \in 0..MaxManual /\ edits' \in 0..MaxEdits /\ faults' \in 0..MaxFaults
    BY <1>4, TypeParts DEF Fault, NoFault, bounds
  <2>. QED BY <1>4, <2>2, <2>3, <2>4 DEF BioTypes, TypeOK, Placed, upstream
<1>. QED BY <1>5, <1>6, <1>7

\* The end of a run.
LEMMA TypeEnd ==
    ASSUME BioAssumption, BioTypes, NEW p \in Actors, Discover(p) \/ Alert(p)
    PROVE  BioTypes'
PROOF
<1>1. CASE Discover(p)
  <2>1. /\ [run[p] EXCEPT !.pc = "alert"] \in Placed
        /\ [run[p] EXCEPT !.pc = "alert", !.raised = TRUE] \in Placed
    BY TypeParts, SetFields DEF Steps, RecordSteps
  <2>. QED BY <1>1, <2>1, RunTypes DEF Discover, Goto
<1>2. CASE Alert(p)
  BY <1>2, NoRunTypes, RunTypes DEF Alert, NoFault
<1>. QED BY <1>1, <1>2

\* The two sources, the cache, the staff and the process.
LEMMA TypeOutside ==
    ASSUME BioAssumption, BioTypes,
           OpenStatesChanges \/ CongressChanges \/ CacheAges \/ StaffEdits \/ Restart
    PROVE  BioTypes'
PROOF
<1>1. CASE OpenStatesChanges \/ CongressChanges
  <2>1. openstates' \in Versions \ {0} /\ congress' \in Versions \ {0}
    BY <1>1
       DEF OpenStatesChanges, CongressChanges, Changes, BioTypes, TypeOK, Versions, BioAssumption
  <2>. QED BY <1>1, <2>1 DEF OpenStatesChanges, CongressChanges, BioTypes, TypeOK, bounds, Placed
<1>2. CASE CacheAges
  <2>1. file \in [version : Versions, fresh : BOOLEAN, torn : BOOLEAN]
    BY DEF BioTypes, TypeOK
  <2>2. file' \in [version : Versions, fresh : BOOLEAN, torn : BOOLEAN]
    BY <1>2, <2>1 DEF CacheAges
  <2>. QED BY <1>2, <2>2 DEF CacheAges, BioTypes, TypeOK, bounds, upstream, Placed
<1>3. CASE StaffEdits
  <2>1. PICK i \in DOMAIN listing :
          \/ cms' = [cms EXCEPT ![listing[i]] = [f \in Fields |-> OfStaff]] /\ UNCHANGED listing
          \/ listing' = RemoveAt(listing, i) /\ UNCHANGED cms
    BY <1>3 DEF StaffEdits
  <2>2. listing \in Seq(Legislators) /\ cms \in [Legislators -> [Fields -> Values]]
    BY DEF BioTypes, TypeOK
  <2>3. cms' \in [Legislators -> [Fields -> Values]]
    BY <2>1, <2>2, ValueTypes
  <2>4. listing' \in Seq(Legislators)
    <3>1. SubSeq(listing, 1, i - 1) \in Seq(Legislators)
      BY <2>2
    <3>2. SubSeq(listing, i + 1, Len(listing)) \in Seq(Legislators)
      BY <2>2
    <3>3. RemoveAt(listing, i) \in Seq(Legislators)
      <4>1. \A s, t \in Seq(Legislators) : s \o t \in Seq(Legislators)
        OBVIOUS
      <4>. QED BY <3>1, <3>2, <4>1 DEF RemoveAt
    <3>. QED BY <2>1, <2>2, <3>3
  <2>5. run' \in [Actors -> Placed]
    <3>1. ASSUME NEW q \in Placed PROVE [q EXCEPT !.alone = FALSE] \in Placed
      BY DEF Placed, Runs
    <3>2. run' = Disturbed(run, "staff")
      BY <1>3 DEF StaffEdits
    <3>. QED BY <3>1, <3>2 DEF Disturbed, BioTypes
  <2>6. edits' \in 0..MaxEdits
    <3>1. edits < MaxEdits /\ edits' = edits + 1
      BY <1>3 DEF StaffEdits
    <3>. QED BY <3>1, TypeParts
  <2>. QED BY <1>3, <2>3, <2>4, <2>5, <2>6 DEF StaffEdits, BioTypes, TypeOK, upstream, Placed
<1>4. CASE Restart
  <2>1. run' \in [Actors -> Placed]
    <3>1. NoRun \in Placed /\ [NoRun EXCEPT !.pc = "warm"] \in Placed
      BY NoRunTypes, SetFields DEF Steps, RecordSteps, Placed
    <3>. QED BY <1>4, <3>1 DEF Restart
  <2>2. source' \in [warmed : BOOLEAN, version : Versions]
    <3>1. 0 \in Versions
      BY DEF Versions, BioAssumption
    <3>. QED BY <1>4, <3>1 DEF Restart
  <2>3. manuals' \in 0..MaxManual /\ edits' \in 0..MaxEdits /\ faults' \in 0..MaxFaults
    BY <1>4, TypeParts DEF Restart, Fault
  <2>. QED BY <1>4, <2>1, <2>2, <2>3 DEF Restart, BioTypes, TypeOK, upstream, Placed
<1>. QED BY <1>1, <1>2, <1>3, <1>4

LEMMA TypeNext == ASSUME BioAssumption, BioTypes, [Next]_vars PROVE BioTypes'
PROOF
<1>1. ASSUME NEW p \in Actors, Step(p) PROVE BioTypes'
  BY <1>1, TypeWarm, TypeList, TypeRecord, TypePatch, TypeEnd DEF Step
<1>2. CASE UNCHANGED vars
  BY <1>2 DEF vars, upstream, bounds, BioTypes, TypeOK
<1>. QED BY <1>1, <1>2, TypeStart, TypeOutside DEF Next

\* Type correctness of the bio sync, for any legislators, options, page size
\* and bounds; a run that works on a record has one in hand.
THEOREM BioTypesOK == Spec => [](TypeOK /\ BioTypes)
PROOF
<1>1. Init => BioTypes
  BY TypeInit, BioAssumption
<1>2. BioTypes /\ [Next]_vars => BioTypes'
  BY TypeNext, BioAssumption
<1>3. BioTypes => TypeOK
  BY DEF BioTypes
<1>. QED BY <1>1, <1>2, <1>3, PTL DEF Spec

-----------------------------------------------------------------------------
(* Images.                                                                 *)

\* No run holds the reference of an asset without its bytes, neither for the
\* record in hand nor in the cache of the asset service.
Backed(r) == r.photo \in {Nothing, Stored} /\ r.cache \in {Nothing, Stored}

\* What is done with a record neither makes up a reference nor a cached one.
LEMMA BackedKept ==
    ASSUME BioAssumption, NEW r \in Runs, DOMAIN r.page # {}, Backed(r)
    PROVE  /\ Backed(Past(r)) /\ Backed(Past(Counted(r))) /\ Backed(Past(WithError(r)))
           /\ Backed(Diff(r)) /\ Backed(WithoutPhoto(r)) /\ Backed(Resolved(r))
PROOF
<1>1. ASSUME NEW q \in Runs, DOMAIN q.page # {}, Backed(q) PROVE Backed(Past(q))
  BY <1>1, PastFields DEF Backed
<1>2. ASSUME NEW q \in Runs, DOMAIN q.page # {}, Backed(q)
      PROVE  /\ Counted(q) \in Runs /\ Counted(q).page = q.page /\ Backed(Counted(q))
             /\ WithError(q) \in Runs /\ WithError(q).page = q.page /\ Backed(WithError(q))
  BY <1>2, CountedFacts DEF Backed, SameBut, RunFields
<1>3. ASSUME NEW q \in Runs, DOMAIN q.page # {}, Backed(q) PROVE Backed(Diff(q))
  <2>1. Backed(Past(q)) /\ Backed(Past(Counted(q)))
    BY <1>1, <1>2, <1>3
  <2>2. Backed([q EXCEPT !.pc = "patch"])
    BY <1>3 DEF Backed, Runs
  <2>. QED BY <2>1, <2>2 DEF Diff
<1>4. Backed(WithoutPhoto(r))
  BY <1>2, <1>3 DEF WithoutPhoto
<1>5. Backed(Resolved(r))
  <2>. DEFINE q == [r EXCEPT !.orphans = @ \cup {Id(r)}]
  <2>1. q \in Runs /\ q.page = r.page /\ Backed(q)
    BY ItemTypes DEF Runs, Backed
  <2>2. Backed(Past(q))
    BY <1>1, <2>1
  <2>3. Backed([r EXCEPT !.pc = "photo"])
    BY DEF Backed, Runs
  <2>4. Backed(Diff(r))
    BY <1>3
  <2>. QED BY <2>2, <2>3, <2>4 DEF Resolved
<1>. QED BY <1>1, <1>2, <1>3, <1>4, <1>5

ImageInv == BioTypes /\ ImageBacked /\ \A p \in Actors : Backed(run[p])

LEMMA ImageStep ==
    ASSUME BioAssumption, ImageInv, NEW p \in Actors, Step(p)
    PROVE  ImageBacked' /\ \A q \in Actors : Backed(run[q])'
PROOF
<1>. DEFINE r == run[p]
<1>1. r \in Runs /\ Backed(r)
  BY TypeParts DEF ImageInv, BioTypes
<1>2. r.pc \in RecordSteps => DOMAIN r.page # {}
  BY TypeParts DEF ImageInv, BioTypes, Placed
<1>3. ASSUME NEW q, Becomes(p, q), Backed(q), UNCHANGED cms
      PROVE  ImageBacked' /\ \A o \in Actors : Backed(run[o])'
  BY <1>3 DEF Becomes, ImageInv, ImageBacked, BioTypes, Backed
<1>4. /\ \A s : Backed([r EXCEPT !.pc = s])
      /\ Backed(Listing([r EXCEPT !.version = file.version]))
      /\ Backed([r EXCEPT !.pc = "page", !.mapped = TRUE])
      /\ Backed([r EXCEPT !.pc = "alert", !.raised = TRUE])
      /\ Backed([r EXCEPT !.pc = "alert", !.aborted = TRUE])
      /\ Backed(NoRun)
  BY <1>1 DEF Backed, Runs, Listing, NoRun
<1>5. CASE ReadCache(p) \/ Download(p) \/ FileWritten(p)
  BY <1>3, <1>4, <1>5 DEF ReadCache, Download, FileWritten, WarmFails, Warmed, Goto
<1>6. CASE BuildResolver(p) \/ Discover(p) \/ Alert(p)
  BY <1>3, <1>4, <1>6 DEF BuildResolver, Discover, Alert, Goto
<1>7. CASE ListPage(p)
  <2>. DEFINE items == PageAt(r.offset)
              n == r.offset + Len(items)
              end == (n >= Len(listing))
              q == [r EXCEPT !.offset = n, !.page = Wanted(p, items), !.last = end]
  <2>1. Backed(Advance(q))
    <3>. HIDE DEF n, end, items
    <3>. QED BY <1>1 DEF Backed, Runs, Advance
  <2>2. \/ Becomes(p, Advance(q))
        \/ Becomes(p, [r EXCEPT !.pc = "alert", !.raised = TRUE])
    BY <1>7 DEF ListPage
  <2>3. UNCHANGED cms
    BY <1>7 DEF ListPage
  <2>. HIDE DEF q
  <2>. QED BY <1>3, <1>4, <2>1, <2>2, <2>3
<1>8. CASE Lookup(p)
  <2>. DEFINE v == Person(Id(r))
              q == [r EXCEPT !.found = v]
  <2>1. q \in Runs /\ q.page = r.page /\ Backed(q)
    <3>1. v \in Values
      BY ValueTypes DEF Person, ImageInv, BioTypes, TypeOK
    <3>. HIDE DEF v
    <3>. QED BY <1>1, <3>1 DEF Runs, Backed
  <2>2. DOMAIN r.page # {}
    BY <1>2, <1>8 DEF Lookup, At, RecordSteps
  <2>3. Backed(Resolved(q)) /\ Backed(Resolved(r))
    <3>. HIDE DEF q
    <3>. QED BY <1>1, <2>1, <2>2, BackedKept
  <2>. QED BY <1>3, <1>8, <2>3 DEF Lookup
<1>9. CASE ReuseAsset(p) \/ CreateAsset(p) \/ PutBytes(p)
  <2>1. DOMAIN r.page # {}
    BY <1>2, <1>9 DEF ReuseAsset, CreateAsset, PutBytes, At, RecordSteps
  <2>. DEFINE reused == [r EXCEPT !.photo = r.cache]
              stored == [r EXCEPT !.photo = Stored, !.cache = Stored]
  <2>2. /\ reused \in Runs /\ reused.page = r.page /\ Backed(reused)
        /\ stored \in Runs /\ stored.page = r.page /\ Backed(stored)
    BY <1>1, ValueTypes DEF Runs, Backed
  <2>3. Backed(Diff(reused)) /\ Backed(Diff(stored)) /\ Backed(WithoutPhoto(r))
    <3>. HIDE DEF reused, stored
    <3>. QED BY <1>1, <2>1, <2>2, BackedKept
  <2>. QED BY <1>3, <1>4, <1>9, <2>3 DEF ReuseAsset, CreateAsset, PutBytes, Goto
<1>10. CASE Patch(p)
  <2>1. DOMAIN r.page # {}
    BY <1>2, <1>10 DEF Patch, At, RecordSteps
  <2>. DEFINE patched == Past(Counted(r))
              failed == Past(WithError(r))
              aborted == [r EXCEPT !.pc = "alert", !.aborted = TRUE]
  <2>2. Backed(patched) /\ Backed(failed) /\ Backed(aborted)
    BY <1>1, <1>4, <2>1, BackedKept
  <2>3. \/ UNCHANGED cms /\ \E q \in {patched, failed, aborted} : Becomes(p, q)
        \/ \E q \in {patched, failed} : Applied(p, q)
    BY <1>10 DEF Patch
  <2>. HIDE DEF patched, failed, aborted
  <2>4. ASSUME NEW q \in {patched, failed}, Applied(p, q)
        PROVE  ImageBacked' /\ \A o \in Actors : Backed(run[o])'
    <3>1. ImageBacked'
      <4>1. Payload(r, "image") # Bare
        BY <1>1, PayloadTypes DEF Backed, Nothing, Stored, Bare
      <4>2. cms \in [Legislators -> [Fields -> Values]] /\ "image" \in Fields
        BY DEF ImageInv, BioTypes, TypeOK, Fields
      <4>3. \A l \in Legislators : cms'[l].image \in {cms[l].image, Payload(r, "image")}
        BY <2>4, <4>2 DEF Applied
      <4>4. \A l \in Legislators : cms[l].image # Bare
        BY DEF ImageInv, ImageBacked
      <4>5. \A l \in Legislators : cms'[l].image # Bare
        BY <4>1, <4>3, <4>4
      <4>. QED BY <4>5 DEF ImageBacked
    <3>2. \A o \in Actors : Backed(run[o])'
      <4>1. \A o \in Actors : Backed([run EXCEPT ![p] = q][o])
        BY <2>2, <2>4 DEF ImageInv, BioTypes
      <4>. QED BY <2>4, <4>1 DEF Applied, Disturbed, Backed, ImageInv, BioTypes, Placed, Runs
    <3>. QED BY <3>1, <3>2
  <2>. QED BY <1>3, <2>2, <2>3, <2>4
<1>. QED BY <1>5, <1>6, <1>7, <1>8, <1>9, <1>10 DEF Step

\* An image of the CMS has its bytes, whatever runs beside what and fails:
\* no run ever holds the reference of an asset that has none.
THEOREM BioImageBacked == Spec => []ImageBacked
PROOF
<1>1. Init => ImageInv
  <2>1. Init => \A p \in Actors : Backed(run[p])
    BY DEF Init, Backed, NoRun
  <2>2. Init => ImageBacked
    BY DEF Init, ImageBacked, Nothing, Bare
  <2>. QED BY <2>1, <2>2, TypeInit, BioAssumption DEF ImageInv
<1>2. ImageInv /\ [Next]_vars => ImageInv'
  <2>. SUFFICES ASSUME ImageInv, [Next]_vars PROVE ImageInv'
    OBVIOUS
  <2>1. BioTypes'
    BY TypeNext, BioAssumption DEF ImageInv
  <2>2. ImageBacked' /\ \A q \in Actors : Backed(run[q])'
    <3>1. CASE \E p \in Actors : Step(p)
      BY <3>1, ImageStep, BioAssumption
    <3>2. CASE StartWeekly \/ \E o \in ManualOptions : StartManual(o)
      <4>1. /\ Backed([NoRun EXCEPT !.pc = "warm", !.read0 = openstates])
            /\ \A o : Backed(Listing([NoRun EXCEPT !.opt = o, !.version = source.version]))
        BY DEF NoRun, Backed, Listing
      <4>2. \E p \in Actors : \E q : Backed(q) /\ Becomes(p, q)
        BY <3>2, <4>1 DEF StartWeekly, StartManual, Actors
      <4>3. UNCHANGED cms
        BY <3>2 DEF StartWeekly, StartManual
      <4>. QED BY <4>2, <4>3 DEF Becomes, ImageInv, ImageBacked, BioTypes, Backed
    <3>3. CASE OpenStatesChanges \/ CongressChanges \/ CacheAges \/ UNCHANGED vars
      BY <3>3 DEF OpenStatesChanges, CongressChanges, CacheAges, vars, ImageInv, ImageBacked, Backed
    <3>4. CASE StaffEdits
      <4>1. ImageBacked'
        <5>1. cms \in [Legislators -> [Fields -> Values]] /\ "image" \in Fields
          BY DEF ImageInv, BioTypes, TypeOK, Fields
        <5>2. \A l \in Legislators : cms'[l].image \in {cms[l].image, OfStaff}
          BY <3>4, <5>1 DEF StaffEdits
        <5>3. OfStaff # Bare
          BY DEF OfStaff, Bare
        <5>. QED BY <5>2, <5>3 DEF ImageInv, ImageBacked
      <4>2. \A q \in Actors : Backed(run[q])'
        BY <3>4 DEF StaffEdits, Disturbed, Backed, ImageInv, BioTypes, Placed, Runs
      <4>. QED BY <4>1, <4>2
    <3>5. CASE Restart
      BY <3>5 DEF Restart, NoRun, Backed, ImageInv, ImageBacked
    <3>. QED BY <3>1, <3>2, <3>3, <3>4, <3>5 DEF Next
  <2>. QED BY <2>1, <2>2 DEF ImageInv
<1>3. ImageInv => ImageBacked
  BY DEF ImageInv
<1>. QED BY <1>1, <1>2, <1>3, PTL DEF Spec

-----------------------------------------------------------------------------
(* What a quiet alert says.                                                *)

\* _run_legislator_bio_sync passes BioSyncOptions that write, without a
\* limit, for every jurisdiction.
WholeRun == WeeklyOptions.only = "all" /\ ~WeeklyOptions.dryRun /\ WeeklyOptions.limit = 0

\* Past the warming of its source, and the steps that have a record resolved.
OnItems == {"page", "lookup", "photo", "put", "patch", "create", "alert"}
ResolvedSteps == {"photo", "put", "patch"}

\* What the alert of the weekly run would let pass without a word.
Quiet(r) == r.alone /\ ~r.failed /\ ~r.aborted /\ ~r.raised

\* NotOlder, of the contents c of the CMS, or an orphan.
Dealt(r, l, c) ==
    \/ l \in r.orphans
    \/ l \in Federal /\ c[l].bio = Congress(r.version)
    \/ l \notin Federal /\ c[l].bio[1] = "openstates" /\ c[l].bio[2] >= r.read0

\* Of the items read so far each is dealt with or still in the page, which
\* holds what the CMS does.
Accounted(r, c, items) ==
    /\ r.offset <= Len(items)
    /\ \A i \in 1..r.offset :
         Dealt(r, items[i], c) \/ \E k \in DOMAIN r.page : r.page[k].id = items[i]
    /\ \A k \in DOMAIN r.page :
         c[r.page[k].id].bio = r.page[k].bio \/ Dealt(r, r.page[k].id, c)
    /\ r.last => r.offset >= Len(items)

Covers(r, c, items) ==
    /\ Accounted(r, c, items)
    /\ r.pc = "page" => DOMAIN r.page = {}
    /\ r.pc \in {"create", "alert"} => r.last /\ DOMAIN r.page = {}

\* An answer of OpenStates is not older than the run.
Answer(r) ==
    r.found = Nothing \/ \E v \in Versions \ {0} : v >= r.read0 /\ r.found = OpenStates(v)

\* The record in hand is known to the source its bio is taken from.
KnownUpstream(r) == IF Id(r) \in Federal THEN InCongress(r) ELSE r.found # Nothing

WeeklyRun(r) ==
    /\ r.opt = WeeklyOptions /\ r.pc # "map"
    /\ Answer(r) /\ (r.pc \in {"warm", "writing", "page", "lookup"} => r.found = Nothing)
    /\ r.pc \in ResolvedSteps => KnownUpstream(r)
    /\ r.pc \in OnItems => r.version # 0
    /\ r.pc \in {"warm", "writing"} => r.offset = 0 /\ DOMAIN r.page = {} /\ ~r.last

Good(r, c, items) ==
    WeeklyRun(r) /\ (r.pc \in OnItems /\ Quiet(r) => Covers(r, c, items))

FileInv == file.fresh \/ (\E p \in Actors : run[p].pc = "writing") => file.version # 0

QuietInv ==
    /\ BioTypes /\ "bio" \in known /\ FileInv
    /\ run["weekly"].read0 <= openstates
    /\ Good(run["weekly"], cms, listing)

\* The fields Accounted looks at.
CoverFields == {"offset", "page", "last", "orphans", "version", "read0"}

LEMMA AccountedSame ==
    ASSUME NEW r, NEW q, NEW c, NEW items,
           \A f \in CoverFields : q[f] = r[f]
    PROVE  /\ Accounted(q, c, items) <=> Accounted(r, c, items)
           /\ \A l : Dealt(q, l, c) <=> Dealt(r, l, c)
PROOF
<1>1. /\ q.offset = r.offset /\ q.page = r.page /\ q.last = r.last
      /\ q.orphans = r.orphans /\ q.version = r.version /\ q.read0 = r.read0
  BY DEF CoverFields
<1>. QED BY <1>1 DEF Accounted, Dealt

\* With the record in hand dealt with, the run may pass on.
LEMMA PastCovers ==
    ASSUME BioAssumption, NEW r \in Runs, DOMAIN r.page # {}, r.opt.limit = 0,
           NEW c, NEW items, Accounted(r, c, items), Dealt(r, Id(r), c)
    PROVE  Covers(Past(r), c, items)
PROOF
<1>. DEFINE q == Past(r)
<1>1. /\ q.offset = r.offset /\ q.last = r.last /\ q.orphans = r.orphans
      /\ q.version = r.version /\ q.read0 = r.read0
  BY PastFields
<1>2. /\ DOMAIN q.page = DOMAIN r.page \ {Place(r)}
      /\ \A k \in DOMAIN q.page : q.page[k] = r.page[k]
  <2>1. q.page = Restrict(r.page, DOMAIN r.page \ {Place(r)})
    BY PastFacts
  <2>. HIDE DEF q
  <2>. QED BY <2>1 DEF Restrict
<1>3. /\ q.pc = "page" => DOMAIN q.page = {}
      /\ q.pc \in {"create", "alert"} => DOMAIN q.page = {} /\ r.last
  BY PastFacts
<1>. HIDE DEF q
<1>4. \A l : Dealt(q, l, c) <=> Dealt(r, l, c)
  BY <1>1 DEF Dealt
<1>5. \A k \in DOMAIN r.page : k \in DOMAIN q.page \/ r.page[k].id = Id(r)
  BY <1>2 DEF Id, Item
<1>6. Accounted(q, c, items)
  <2>1. \A i \in 1..r.offset :
          Dealt(q, items[i], c) \/ \E k \in DOMAIN q.page : q.page[k].id = items[i]
    BY <1>2, <1>4, <1>5 DEF Accounted
  <2>2. \A k \in DOMAIN q.page :
          c[q.page[k].id].bio = q.page[k].bio \/ Dealt(q, q.page[k].id, c)
    BY <1>2, <1>4 DEF Accounted
  <2>. QED BY <1>1, <2>1, <2>2 DEF Accounted
<1>. QED BY <1>1, <1>3, <1>6 DEF Covers, q

\* What the run would write for a known record says something, and with it
\* the record is dealt with.
LEMMA PayloadDealt ==
    ASSUME BioAssumption, NEW r \in Runs, Answer(r), KnownUpstream(r), r.version # 0
    PROVE  /\ ~IsEmpty(Payload(r, "bio"))
           /\ \A c : c[Id(r)].bio = Payload(r, "bio") => Dealt(r, Id(r), c)
PROOF
<1>1. r.version \in Nat \ {0} /\ r.read0 \in Nat
  BY DEF Runs, Versions
<1>2. CASE Id(r) \in Federal
  <2>1. Payload(r, "bio") = Congress(r.version)
    BY <1>2 DEF Payload, FederalPayload, KnownUpstream
  <2>2. ~IsEmpty(Congress(r.version))
    BY <1>1 DEF Congress, IsEmpty
  <2>. QED BY <1>2, <2>1, <2>2 DEF Dealt
<1>3. CASE Id(r) \notin Federal
  <2>1. Payload(r, "bio") = r.found /\ r.found # Nothing
    BY <1>3 DEF Payload, StatePayload, KnownUpstream
  <2>2. PICK v \in Versions \ {0} : v >= r.read0 /\ r.found = OpenStates(v)
    BY <2>1 DEF Answer
  <2>3. ~IsEmpty(OpenStates(v))
    BY <2>2 DEF OpenStates, IsEmpty, Versions
  <2>4. OpenStates(v)[1] = "openstates" /\ OpenStates(v)[2] = v
    BY DEF OpenStates
  <2>. QED BY <1>3, <2>1, <2>2, <2>3, <2>4 DEF Dealt
<1>. QED BY <1>2, <1>3

\* A record that needs no new bio has been dealt with.
LEMMA UnchangedDealt ==
    ASSUME BioAssumption, NEW r \in Runs, DOMAIN r.page # {},
           Answer(r), KnownUpstream(r), r.version # 0,
           NEW c, NEW items, Accounted(r, c, items), "bio" \notin Changed(r)
    PROVE  Dealt(r, Id(r), c)
PROOF
<1>1. ~ShouldWrite(Item(r)["bio"], Payload(r, "bio"))
  BY DEF Changed, Fields
<1>2. Item(r).bio = Payload(r, "bio")
  BY <1>1, PayloadDealt DEF ShouldWrite
<1>3. Place(r) \in DOMAIN r.page
  BY ItemTypes
<1>4. c[Id(r)].bio = Item(r).bio \/ Dealt(r, Id(r), c)
  BY <1>3 DEF Accounted, Item, Id
<1>. QED BY <1>2, <1>4, PayloadDealt

LEMMA DiffCovers ==
    ASSUME BioAssumption, WholeRun, NEW r \in Runs, DOMAIN r.page # {}, r.opt = WeeklyOptions,
           Answer(r), KnownUpstream(r), r.version # 0,
           NEW c, NEW items, Accounted(r, c, items)
    PROVE  Covers(Diff(r), c, items)
PROOF
<1>1. r.opt.limit = 0 /\ ~r.opt.dryRun
  BY DEF WholeRun
<1>2. CASE Changed(r) = {}
  <2>1. Diff(r) = Past(r)
    BY <1>2 DEF Diff
  <2>. QED BY <1>1, <1>2, <2>1, UnchangedDealt, PastCovers
<1>3. CASE Changed(r) # {}
  <2>. DEFINE q == [r EXCEPT !.pc = "patch"]
  <2>1. Diff(r) = q
    BY <1>1, <1>3 DEF Diff
  <2>2. q.pc = "patch" /\ \A f \in CoverFields : q[f] = r[f]
    BY DEF Runs, CoverFields
  <2>. HIDE DEF q
  <2>3. Accounted(q, c, items)
    BY <2>2, AccountedSame
  <2>. QED BY <2>1, <2>2, <2>3 DEF Covers
<1>. QED BY <1>2, <1>3

\* The weekly run stays one as it passes on.
LEMMA PastWeekly ==
    ASSUME BioAssumption, NEW r \in Runs, DOMAIN r.page # {}, r.opt = WeeklyOptions,
           r.version # 0
    PROVE  WeeklyRun(Past(r)) /\ Past(r).pc \in OnItems
PROOF
<1>1. Past(r).opt = r.opt /\ Past(r).version = r.version /\ Past(r).found = Nothing
  BY PastFields
<1>2. Past(r).pc \in {"page", "lookup", "create", "alert"}
  BY PastFacts
<1>. QED BY <1>1, <1>2 DEF WeeklyRun, Answer, OnItems, ResolvedSteps

LEMMA DiffWeekly ==
    ASSUME BioAssumption, WholeRun, NEW r \in Runs, DOMAIN r.page # {}, r.opt = WeeklyOptions,
           Answer(r), KnownUpstream(r), r.version # 0
    PROVE  WeeklyRun(Diff(r)) /\ Diff(r).pc \in OnItems
PROOF
<1>1. ~r.opt.dryRun
  BY DEF WholeRun
<1>2. CASE Changed(r) = {}
  BY <1>2, PastWeekly DEF Diff
<1>3. CASE Changed(r) # {}
  <2>. DEFINE q == [r EXCEPT !.pc = "patch"]
  <2>1. Diff(r) = q
    BY <1>1, <1>3 DEF Diff
  <2>2. /\ q.pc = "patch" /\ q.opt = r.opt /\ q.found = r.found /\ q.read0 = r.read0
        /\ q.page = r.page /\ q.version = r.version
    BY DEF Runs
  <2>. HIDE DEF q
  <2>3. Answer(q) /\ KnownUpstream(q)
    BY <2>2 DEF Answer, KnownUpstream, InCongress, Id, Item, Place
  <2>. QED BY <2>1, <2>2, <2>3 DEF WeeklyRun, OnItems, ResolvedSteps
<1>. QED BY <1>2, <1>3

LEMMA GoodPast ==
    ASSUME BioAssumption, WholeRun, NEW r \in Runs, DOMAIN r.page # {}, r.opt = WeeklyOptions,
           r.version # 0, NEW c, NEW items,
           Quiet(r) => Accounted(r, c, items) /\ Dealt(r, Id(r), c)
    PROVE  Good(Past(r), c, items)
PROOF
<1>1. r.opt.limit = 0
  BY DEF WholeRun
<1>2. Quiet(Past(r)) => Quiet(r)
  BY PastFields DEF Quiet
<1>. QED BY <1>1, <1>2, PastCovers, PastWeekly DEF Good

LEMMA GoodDiff ==
    ASSUME BioAssumption, WholeRun, NEW r \in Runs, DOMAIN r.page # {}, r.opt = WeeklyOptions,
           Answer(r), KnownUpstream(r), r.version # 0, NEW c, NEW items,
           Quiet(r) => Accounted(r, c, items)
    PROVE  Good(Diff(r), c, items)
PROOF
<1>1. Quiet(Diff(r)) => Quiet(r)
  <2>1. Quiet(Past(r)) => Quiet(r)
    BY PastFields DEF Quiet
  <2>2. Quiet([r EXCEPT !.pc = "patch"]) => Quiet(r)
    BY DEF Quiet, Runs
  <2>3. ~r.opt.dryRun
    BY DEF WholeRun
  <2>. QED BY <2>1, <2>2, <2>3 DEF Diff
<1>. QED BY <1>1, DiffCovers, DiffWeekly DEF Good

\* The record in hand after its lookup: an orphan, one that gets a photo, or
\* one whose fields are compared.
LEMMA GoodResolved ==
    ASSUME BioAssumption, WholeRun, NEW r \in Runs, DOMAIN r.page # {}, r.opt = WeeklyOptions,
           Answer(r), r.version # 0, NEW c, NEW items,
           Quiet(r) => Accounted(r, c, items)
    PROVE  Good(Resolved(r), c, items)
PROOF
<1>1. CASE Orphan(r)
  <2>. DEFINE q == [r EXCEPT !.orphans = @ \cup {Id(r)}]
  <2>1. /\ q \in Runs /\ q.page = r.page /\ q.opt = r.opt /\ q.version = r.version
        /\ q.orphans = r.orphans \cup {Id(r)}
        /\ q.offset = r.offset /\ q.last = r.last /\ q.read0 = r.read0
        /\ Quiet(q) => Quiet(r)
    BY ItemTypes DEF Runs, Quiet
  <2>2. Resolved(r) = Past(q)
    BY <1>1 DEF Resolved
  <2>. HIDE DEF q
  <2>3. Id(q) = Id(r)
    BY <2>1 DEF Id, Item, Place
  <2>4. Dealt(q, Id(q), c)
    BY <2>1, <2>3 DEF Dealt
  <2>5. \A l : Dealt(r, l, c) => Dealt(q, l, c)
    BY <2>1 DEF Dealt
  <2>6. Accounted(r, c, items) => Accounted(q, c, items)
    BY <2>1, <2>5 DEF Accounted
  <2>. QED BY <2>1, <2>2, <2>4, <2>6, GoodPast
<1>2. CASE ~Orphan(r)
  <2>1. KnownUpstream(r)
    BY <1>2 DEF KnownUpstream, InCongress, Orphan
  <2>2. CASE r.opt.photos /\ Item(r).image = Nothing
    <3>. DEFINE q == [r EXCEPT !.pc = "photo"]
    <3>1. Resolved(r) = q
      BY <1>2, <2>2 DEF Resolved
    <3>2. /\ q.pc = "photo" /\ q.opt = r.opt /\ q.found = r.found /\ q.read0 = r.read0
          /\ q.page = r.page /\ q.version = r.version
          /\ \A f \in CoverFields : q[f] = r[f]
          /\ Quiet(q) => Quiet(r)
      BY DEF Runs, CoverFields, Quiet
    <3>. HIDE DEF q
    <3>3. Answer(q) /\ KnownUpstream(q)
      BY <2>1, <3>2 DEF Answer, KnownUpstream, InCongress, Id, Item, Place
    <3>4. Accounted(q, c, items) <=> Accounted(r, c, items)
      BY <3>2, AccountedSame
    <3>. QED BY <3>1, <3>2, <3>3, <3>4 DEF Good, WeeklyRun, Covers, OnItems, ResolvedSteps
  <2>3. CASE ~(r.opt.photos /\ Item(r).image = Nothing)
    BY <1>2, <2>1, <2>3, GoodDiff DEF Resolved
  <2>. QED BY <2>2, <2>3
<1>. QED BY <1>1, <1>2

\* The steps of the weekly run.
LEMMA WeeklyWarms ==
    ASSUME BioAssumption, WholeRun, QuietInv,
           ReadCache("weekly") \/ Download("weekly") \/ FileWritten("weekly")
    PROVE  Good(run["weekly"], cms, listing)'
PROOF
<1>. DEFINE r == run["weekly"]
            warmed == [r EXCEPT !.version = file.version]
<1>1. /\ r \in Runs /\ WeeklyRun(r) /\ r.pc \in {"warm", "writing"}
      /\ run \in [Actors -> Placed] /\ "weekly" \in Actors
  BY TypeParts DEF QuietInv, Good, ReadCache, Download, FileWritten, At, BioTypes, Actors
<1>2. UNCHANGED <<cms, listing>>
  BY DEF ReadCache, Download, FileWritten
<1>3. /\ r.opt = WeeklyOptions /\ r.found = Nothing /\ r.offset = 0 /\ DOMAIN r.page = {}
      /\ ~r.last /\ r.opt.only # "state"
  BY <1>1 DEF WeeklyRun, WholeRun
<1>4. \A s \in {"idle", "writing"} : Good([r EXCEPT !.pc = s], cms, listing)
  <2>. TAKE s \in {"idle", "writing"}
  <2>. DEFINE q == [r EXCEPT !.pc = s]
  <2>1. /\ q.pc = s /\ q.opt = r.opt /\ q.found = r.found /\ q.offset = r.offset
        /\ q.page = r.page /\ q.last = r.last
    BY <1>1 DEF Runs
  <2>. HIDE DEF q
  <2>2. Good(q, cms, listing)
    BY <1>3, <2>1 DEF Good, WeeklyRun, Answer, OnItems, ResolvedSteps
  <2>. QED BY <2>2 DEF q
<1>5. file.version # 0 => Good(Listing(warmed), cms, listing)
  <2>. DEFINE q == Listing(warmed)
  <2>1. /\ q.pc = "page" /\ q.opt = r.opt /\ q.found = r.found /\ q.offset = r.offset
        /\ q.page = r.page /\ q.last = r.last /\ q.version = file.version
    BY <1>1, <1>3 DEF Listing, Runs
  <2>. HIDE DEF q
  <2>2. Accounted(q, cms, listing)
    <3>1. listing \in Seq(Legislators)
      BY DEF QuietInv, BioTypes, TypeOK
    <3>. QED BY <1>3, <2>1, <3>1 DEF Accounted
  <2>. QED BY <1>3, <2>1, <2>2 DEF Good, WeeklyRun, Answer, OnItems, ResolvedSteps, Covers, q
<1>6. \/ \E s \in {"idle", "writing"} : Becomes("weekly", [r EXCEPT !.pc = s])
      \/ file.version # 0 /\ Becomes("weekly", Listing(warmed))
  <2>1. file.fresh \/ r.pc = "writing" => file.version # 0
    BY <1>1 DEF QuietInv, FileInv
  <2>2. CASE ReadCache("weekly")
    BY <2>1, <2>2 DEF ReadCache, Warmed, WarmFails, Goto
  <2>3. CASE Download("weekly")
    BY <2>3 DEF Download, WarmFails, Goto
  <2>4. CASE FileWritten("weekly")
    BY <2>1, <2>4 DEF FileWritten, Warmed, At
  <2>. QED BY <2>2, <2>3, <2>4
<1>. HIDE DEF warmed
<1>. QED BY <1>1, <1>2, <1>4, <1>5, <1>6 DEF Becomes

LEMMA WeeklyLists ==
    ASSUME BioAssumption, WholeRun, QuietInv, ListPage("weekly")
    PROVE  Good(run["weekly"], cms, listing)'
PROOF
<1>. DEFINE r == run["weekly"]
            items == PageAt(r.offset)
            n == r.offset + Len(items)
            end == (n >= Len(listing))
            q == [r EXCEPT !.offset = n, !.page = Wanted("weekly", items), !.last = end]
            broken == [r EXCEPT !.pc = "alert", !.raised = TRUE]
<1>1. /\ r \in Runs /\ WeeklyRun(r) /\ r.pc = "page" /\ r.offset \in Nat
      /\ run \in [Actors -> Placed] /\ "weekly" \in Actors
      /\ Quiet(r) => Covers(r, cms, listing)
  BY TypeParts DEF QuietInv, Good, ListPage, At, BioTypes, Actors, OnItems, Runs
<1>2. UNCHANGED <<cms, listing>>
  BY DEF ListPage
<1>3. r.opt = WeeklyOptions /\ r.found = Nothing /\ r.version # 0 /\ r.opt.limit = 0
  BY <1>1 DEF WeeklyRun, WholeRun, OnItems
<1>4. listing \in Seq(Legislators)
  BY DEF QuietInv, BioTypes, TypeOK
<1>5. /\ items \in Seq(Legislators) /\ Len(items) \in 0..PerPage
      /\ \A i \in 1..Len(items) :
           r.offset + i \in 1..Len(listing) /\ items[i] = listing[r.offset + i]
      /\ r.offset <= Len(listing) => n <= Len(listing)
  BY <1>1, <1>4, PageAtFacts
<1>6. /\ DOMAIN Wanted("weekly", items) = 1..Len(items)
      /\ \A i \in 1..Len(items) : Wanted("weekly", items)[i] = Snapshot(items[i])
  <2>1. r.opt.only = "all"
    BY <1>3 DEF WholeRun
  <2>. HIDE DEF items
  <2>. QED BY <1>5, <2>1 DEF Wanted, Matches
<1>7. n \in Nat
  BY <1>1, <1>5
<1>8. Wanted("weekly", items) \in Pages
  <2>. HIDE DEF items
  <2>1. \A i \in 1..Len(items) : Snapshot(items[i]) \in Snapshots
    BY <1>5 DEF Snapshot, Snapshots, QuietInv, BioTypes, TypeOK, Fields
  <2>2. 1..Len(items) \in SUBSET (1..PerPage)
    BY <1>5 DEF BioAssumption
  <2>3. Wanted("weekly", items) \in [1..Len(items) -> Snapshots]
    BY <1>6, <2>1 DEF Wanted
  <2>. QED BY <2>2, <2>3 DEF Pages
<1>9. /\ q \in Runs /\ q.offset = n /\ q.page = Wanted("weekly", items) /\ q.last = end
      /\ q.opt = r.opt /\ q.found = r.found /\ q.version = r.version /\ q.orphans = r.orphans
      /\ q.read0 = r.read0 /\ (Quiet(q) <=> Quiet(r))
  <2>1. ASSUME NEW m \in Nat, NEW page \in Pages, NEW b \in BOOLEAN,
               q = [r EXCEPT !.offset = m, !.page = page, !.last = b]
        PROVE  /\ q \in Runs /\ q.offset = m /\ q.page = page /\ q.last = b
               /\ q.opt = r.opt /\ q.found = r.found /\ q.version = r.version
               /\ q.orphans = r.orphans /\ q.read0 = r.read0 /\ (Quiet(q) <=> Quiet(r))
    <3>. HIDE DEF q
    <3>. QED BY <1>1, <2>1 DEF Runs, Quiet
  <2>2. end \in BOOLEAN
    OBVIOUS
  <2>. QED BY <1>7, <1>8, <2>1, <2>2
<1>10. Quiet(r) => Accounted(q, cms, listing)
  <2>. SUFFICES ASSUME Quiet(r) PROVE Accounted(q, cms, listing)
    OBVIOUS
  <2>1. Accounted(r, cms, listing) /\ DOMAIN r.page = {}
    BY <1>1 DEF Covers
  <2>. HIDE DEF q, items
  <2>2. \A l : Dealt(q, l, cms) <=> Dealt(r, l, cms)
    BY <1>9 DEF Dealt
  <2>3. ASSUME NEW i \in 1..n
        PROVE  Dealt(q, listing[i], cms) \/ \E k \in DOMAIN q.page : q.page[k].id = listing[i]
    <3>1. CASE i <= r.offset
      BY <1>1, <2>1, <2>2, <3>1 DEF Accounted
    <3>2. CASE i > r.offset
      <4>. DEFINE k == i - r.offset
      <4>1. k \in 1..Len(items) /\ r.offset + k = i
        BY <1>1, <1>5, <3>2
      <4>2. items[k] = listing[i]
        BY <1>5, <4>1
      <4>3. k \in DOMAIN q.page /\ q.page[k] = Snapshot(items[k])
        BY <1>6, <1>9, <4>1
      <4>. QED BY <4>2, <4>3 DEF Snapshot
    <3>. QED BY <1>1, <3>1, <3>2
  <2>4. ASSUME NEW k \in DOMAIN q.page PROVE cms[q.page[k].id].bio = q.page[k].bio
    <3>1. q.page[k] = Snapshot(items[k])
      BY <1>6, <1>9
    <3>. QED BY <3>1 DEF Snapshot
  <2>5. n <= Len(listing) /\ (end => n >= Len(listing))
    BY <1>5, <2>1 DEF Accounted
  <2>. QED BY <1>9, <2>3, <2>4, <2>5 DEF Accounted
<1>11. Good(Advance(q), cms, listing)
  <2>. DEFINE a == Advance(q)
  <2>. HIDE DEF q
  <2>1. /\ a.pc \in {"page", "lookup", "create", "alert"}
        /\ a.pc = "page" => DOMAIN q.page = {}
        /\ a.pc \in {"create", "alert"} => DOMAIN q.page = {} /\ q.last
    BY <1>3, <1>9, AdvanceFacts
  <2>2. /\ a.page = q.page /\ a.last = q.last /\ a.opt = q.opt /\ a.found = q.found
        /\ a.version = q.version /\ (Quiet(a) <=> Quiet(q))
        /\ \A f \in CoverFields : a[f] = q[f]
    BY <1>9, AdvanceFacts DEF SameBut, RunFields, CoverFields, Quiet
  <2>3. Accounted(a, cms, listing) <=> Accounted(q, cms, listing)
    BY <2>2, AccountedSame
  <2>. HIDE DEF a
  <2>4. Good(a, cms, listing)
    BY <1>3, <1>9, <1>10, <2>1, <2>2, <2>3
       DEF Good, WeeklyRun, Covers, Answer, OnItems, ResolvedSteps
  <2>. QED BY <2>4 DEF a
<1>12. Good(broken, cms, listing)
  <2>1. /\ broken.pc = "alert" /\ broken.raised /\ broken.opt = r.opt /\ broken.found = r.found
        /\ broken.version = r.version
    BY <1>1 DEF Runs
  <2>. HIDE DEF broken
  <2>. QED BY <1>3, <2>1 DEF Good, WeeklyRun, Quiet, Answer, OnItems, ResolvedSteps
<1>13. Becomes("weekly", Advance(q)) \/ Becomes("weekly", broken)
  BY DEF ListPage
<1>. HIDE DEF q, broken
<1>. QED BY <1>1, <1>2, <1>11, <1>12, <1>13 DEF Becomes

\* What is known of the weekly run on a record.
LEMMA WeeklyOnRecord ==
    ASSUME BioAssumption, QuietInv, run["weekly"].pc \in RecordSteps
    PROVE  LET r == run["weekly"]
           IN  /\ r \in Runs /\ DOMAIN r.page # {} /\ r.opt = WeeklyOptions /\ r.version # 0
               /\ Answer(r) /\ (r.pc = "lookup" => r.found = Nothing)
               /\ r.pc # "lookup" => KnownUpstream(r)
               /\ Quiet(r) => Accounted(r, cms, listing)
               /\ run \in [Actors -> Placed] /\ "weekly" \in Actors
PROOF
  BY TypeParts DEF QuietInv, BioTypes, Good, WeeklyRun, Covers, RecordSteps, ResolvedSteps, OnItems,
     Placed, Actors

LEMMA WeeklyLooksUp ==
    ASSUME BioAssumption, WholeRun, QuietInv, Lookup("weekly")
    PROVE  Good(run["weekly"], cms, listing)'
PROOF
<1>. DEFINE r == run["weekly"]
            v == Person(Id(r))
            q == [r EXCEPT !.found = v]
<1>1. /\ r \in Runs /\ DOMAIN r.page # {} /\ r.opt = WeeklyOptions /\ r.version # 0
      /\ Answer(r) /\ (Quiet(r) => Accounted(r, cms, listing))
      /\ run \in [Actors -> Placed] /\ "weekly" \in Actors
  BY WeeklyOnRecord DEF Lookup, At, RecordSteps
<1>2. UNCHANGED <<cms, listing>>
  BY DEF Lookup
<1>3. v = Nothing \/ \E w \in Versions \ {0} : w >= r.read0 /\ v = OpenStates(w)
  <2>1. openstates \in Versions \ {0} /\ openstates >= r.read0
    BY <1>1 DEF QuietInv, BioTypes, TypeOK, Runs, Versions
  <2>. QED BY <2>1 DEF Person
<1>4. v \in Values
  BY <1>3, ValueTypes
<1>5. /\ q \in Runs /\ q.page = r.page /\ q.opt = r.opt /\ q.version = r.version
      /\ q.found = v /\ q.read0 = r.read0 /\ (Quiet(q) <=> Quiet(r))
      /\ \A f \in CoverFields : q[f] = r[f]
  <2>. HIDE DEF v
  <2>. QED BY <1>1, <1>4 DEF Runs, Quiet, CoverFields
<1>6. Answer(q) /\ (Accounted(q, cms, listing) <=> Accounted(r, cms, listing))
  <2>. HIDE DEF q
  <2>. QED BY <1>3, <1>5, AccountedSame DEF Answer
<1>7. Good(Resolved(q), cms, listing) /\ Good(Resolved(r), cms, listing)
  <2>. HIDE DEF q
  <2>. QED BY <1>1, <1>5, <1>6, GoodResolved
<1>8. Becomes("weekly", Resolved(q)) \/ Becomes("weekly", Resolved(r))
  BY DEF Lookup
<1>. HIDE DEF q
<1>. QED BY <1>1, <1>2, <1>7, <1>8 DEF Becomes

\* A photo, or its failure, changes nothing of what is accounted for.
LEMMA WeeklyPhoto ==
    ASSUME BioAssumption, WholeRun, QuietInv,
           ReuseAsset("weekly") \/ CreateAsset("weekly") \/ PutBytes("weekly")
    PROVE  Good(run["weekly"], cms, listing)'
PROOF
<1>. DEFINE r == run["weekly"]
<1>1. /\ r \in Runs /\ DOMAIN r.page # {} /\ r.opt = WeeklyOptions /\ r.version # 0
      /\ Answer(r) /\ KnownUpstream(r) /\ (Quiet(r) => Accounted(r, cms, listing))
      /\ run \in [Actors -> Placed] /\ "weekly" \in Actors
  BY WeeklyOnRecord DEF ReuseAsset, CreateAsset, PutBytes, At, RecordSteps
<1>2. UNCHANGED <<cms, listing>>
  BY DEF ReuseAsset, CreateAsset, PutBytes
<1>3. ASSUME NEW q \in Runs, q.page = r.page, q.opt = r.opt, q.version = r.version,
             q.found = r.found, q.read0 = r.read0, q.orphans = r.orphans, q.offset = r.offset,
             q.last = r.last, Quiet(q) => Quiet(r)
      PROVE  Good(Diff(q), cms, listing)
  <2>1. \A f \in CoverFields : q[f] = r[f]
    BY <1>3 DEF CoverFields
  <2>2. Accounted(q, cms, listing) <=> Accounted(r, cms, listing)
    BY <2>1, AccountedSame
  <2>3. Answer(q) /\ KnownUpstream(q)
    BY <1>1, <1>3 DEF Answer, KnownUpstream, InCongress, Id, Item, Place
  <2>. QED BY <1>1, <1>3, <2>2, <2>3, GoodDiff
<1>. DEFINE reused == [r EXCEPT !.photo = r.cache]
            stored == [r EXCEPT !.photo = Stored, !.cache = Stored]
            put == [r EXCEPT !.pc = "put"]
<1>4. Good(Diff(reused), cms, listing) /\ Good(Diff(stored), cms, listing)
  <2>1. reused \in Runs /\ stored \in Runs
    BY <1>1, ValueTypes DEF Runs
  <2>2. \A q \in {reused, stored} :
           /\ q.page = r.page /\ q.opt = r.opt /\ q.version = r.version
           /\ q.found = r.found /\ q.read0 = r.read0 /\ q.orphans = r.orphans
           /\ q.offset = r.offset /\ q.last = r.last /\ (Quiet(q) => Quiet(r))
    BY <1>1 DEF Runs, Quiet
  <2>. HIDE DEF reused, stored
  <2>. QED BY <1>3, <2>1, <2>2
<1>5. Good(WithoutPhoto(r), cms, listing)
  <2>1. WithError(r) \in Runs /\ ~Quiet(WithError(r))
    BY <1>1, CountedFacts DEF Quiet
  <2>2. \A f \in RunFields \ {"counted", "failed"} : WithError(r)[f] = r[f]
    BY <1>1, CountedFacts DEF SameBut
  <2>. DEFINE q == WithError(r)
  <2>. HIDE DEF q
  <2>3. /\ q.page = r.page /\ q.opt = r.opt /\ q.version = r.version
        /\ q.found = r.found /\ q.read0 = r.read0 /\ q.orphans = r.orphans
        /\ q.offset = r.offset /\ q.last = r.last
    BY <2>2 DEF RunFields, q
  <2>4. Good(Diff(q), cms, listing)
    BY <1>3, <2>1, <2>3 DEF q
  <2>. QED BY <2>4 DEF WithoutPhoto, q
<1>6. Good(put, cms, listing)
  <2>1. /\ put.pc = "put" /\ put.opt = r.opt /\ put.found = r.found /\ put.read0 = r.read0
        /\ put.page = r.page /\ put.version = r.version /\ (Quiet(put) <=> Quiet(r))
        /\ \A f \in CoverFields : put[f] = r[f]
    BY <1>1 DEF Runs, Quiet, CoverFields
  <2>. HIDE DEF put
  <2>2. Accounted(put, cms, listing) <=> Accounted(r, cms, listing)
    BY <2>1, AccountedSame
  <2>3. Answer(put) /\ KnownUpstream(put)
    BY <1>1, <2>1 DEF Answer, KnownUpstream, InCongress, Id, Item, Place
  <2>. QED BY <1>1, <2>1, <2>2, <2>3 DEF Good, WeeklyRun, Covers, OnItems, ResolvedSteps
<1>7. \E q \in {Diff(reused), Diff(stored), WithoutPhoto(r), put} : Becomes("weekly", q)
  BY DEF ReuseAsset, CreateAsset, PutBytes, Goto
<1>. HIDE DEF reused, stored, put
<1>. QED BY <1>1, <1>2, <1>4, <1>5, <1>6, <1>7 DEF Becomes

LEMMA WeeklyPatches ==
    ASSUME BioAssumption, WholeRun, QuietInv, Patch("weekly")
    PROVE  Good(run["weekly"], cms, listing)'
PROOF
<1>. DEFINE r == run["weekly"]
            patched == Past(Counted(r))
            failed == Past(WithError(r))
            aborted == [r EXCEPT !.pc = "alert", !.aborted = TRUE]
<1>1. /\ r \in Runs /\ DOMAIN r.page # {} /\ r.opt = WeeklyOptions /\ r.version # 0
      /\ Answer(r) /\ KnownUpstream(r) /\ (Quiet(r) => Accounted(r, cms, listing))
      /\ run \in [Actors -> Placed] /\ "weekly" \in Actors
  BY WeeklyOnRecord DEF Patch, At, RecordSteps
<1>2. UNCHANGED listing /\ "bio" \in known
  BY DEF Patch, QuietInv
\* The record is counted, and dealt with.
<1>3. ASSUME NEW c, Quiet(r) => Accounted(r, c, listing) /\ Dealt(r, Id(r), c)
      PROVE  Good(patched, c, listing)
  <2>. DEFINE q == Counted(r)
  <2>1. q \in Runs /\ \A f \in RunFields \ {"counted"} : q[f] = r[f]
    BY <1>1, CountedFacts DEF SameBut
  <2>. HIDE DEF q
  <2>2. /\ q.page = r.page /\ q.opt = r.opt /\ q.version = r.version
        /\ (Quiet(q) <=> Quiet(r)) /\ \A f \in CoverFields : q[f] = r[f]
    BY <2>1 DEF RunFields, Quiet, CoverFields
  <2>3. /\ Accounted(q, c, listing) <=> Accounted(r, c, listing)
        /\ \A l : Dealt(q, l, c) <=> Dealt(r, l, c)
    BY <2>2, AccountedSame
  <2>4. Id(q) = Id(r)
    BY <2>2 DEF Id, Item, Place
  <2>5. Good(Past(q), c, listing)
    BY <1>1, <1>3, <2>1, <2>2, <2>3, <2>4, GoodPast
  <2>. QED BY <2>5 DEF q
\* A run that reports an error or was aborted need not account for anything.
<1>4. \A c : Good(failed, c, listing)
  <2>. TAKE c
  <2>. DEFINE q == WithError(r)
  <2>1. q \in Runs /\ q.failed /\ \A f \in RunFields \ {"counted", "failed"} : q[f] = r[f]
    BY <1>1, CountedFacts DEF SameBut
  <2>. HIDE DEF q
  <2>2. q.page = r.page /\ q.opt = r.opt /\ q.version = r.version /\ ~Quiet(q)
    BY <2>1 DEF RunFields, Quiet
  <2>3. Good(Past(q), c, listing)
    BY <1>1, <2>1, <2>2, GoodPast
  <2>. QED BY <2>3 DEF q
<1>5. \A c : Good(aborted, c, listing)
  <2>1. /\ aborted.pc = "alert" /\ aborted.aborted /\ aborted.opt = r.opt
        /\ aborted.found = r.found /\ aborted.read0 = r.read0 /\ aborted.version = r.version
    BY <1>1 DEF Runs
  <2>. HIDE DEF aborted
  <2>. QED BY <1>1, <2>1 DEF Good, WeeklyRun, Quiet, Answer, OnItems, ResolvedSteps
<1>6. \/ /\ "bio" \notin Changed(r) /\ UNCHANGED cms /\ Becomes("weekly", patched)
      \/ Applied("weekly", patched)
      \/ \E q \in {failed, aborted} : Becomes("weekly", q)
      \/ Applied("weekly", failed)
  BY <1>2 DEF Patch, Kept
<1>7. CASE "bio" \notin Changed(r) /\ UNCHANGED cms /\ Becomes("weekly", patched)
  <2>1. Quiet(r) => Dealt(r, Id(r), cms)
    BY <1>1, <1>7, UnchangedDealt
  <2>2. Good(patched, cms, listing)
    BY <1>1, <1>3, <2>1
  <2>. HIDE DEF patched
  <2>. QED BY <1>1, <1>2, <1>7, <2>2 DEF Becomes
<1>8. CASE Applied("weekly", patched)
  <2>1. cms' = [cms EXCEPT ![Id(r)] =
                   [f \in Fields |-> IF f \in Kept("weekly") THEN Payload(r, f) ELSE @[f]]]
    BY <1>8 DEF Applied
  <2>2. Id(r) \in Legislators /\ cms \in [Legislators -> [Fields -> Values]]
    BY <1>1, ItemTypes DEF QuietInv, BioTypes, TypeOK
  <2>3. /\ \A l : l # Id(r) => cms'[l] = cms[l]
        /\ "bio" \in Changed(r) => cms'[Id(r)].bio = Payload(r, "bio")
        /\ "bio" \notin Changed(r) => cms'[Id(r)].bio = cms[Id(r)].bio
    BY <1>2, <2>1, <2>2 DEF Kept, Fields
  <2>4. Quiet(r) => Dealt(r, Id(r), cms')
    <3>1. CASE "bio" \in Changed(r)
      BY <1>1, <2>3, <3>1, PayloadDealt
    <3>2. CASE "bio" \notin Changed(r)
      <4>1. Quiet(r) => Dealt(r, Id(r), cms)
        BY <1>1, <3>2, UnchangedDealt
      <4>. QED BY <2>3, <3>2, <4>1 DEF Dealt
    <3>. QED BY <3>1, <3>2
  <2>5. \A l : l # Id(r) => (Dealt(r, l, cms') <=> Dealt(r, l, cms))
    BY <2>3 DEF Dealt
  <2>6. Quiet(r) => Accounted(r, cms', listing)
    BY <1>1, <2>3, <2>4, <2>5 DEF Accounted
  <2>7. Good(patched, cms', listing)
    BY <1>3, <2>4, <2>6
  <2>8. run' = [run EXCEPT !["weekly"] = patched]
    BY <1>8 DEF Applied, Disturbed
  <2>. HIDE DEF patched
  <2>. QED BY <1>1, <1>2, <2>7, <2>8
<1>9. CASE (\E q \in {failed, aborted} : Becomes("weekly", q)) \/ Applied("weekly", failed)
  <2>1. PICK q \in {failed, aborted} : run' = [run EXCEPT !["weekly"] = q]
    BY <1>9 DEF Becomes, Applied, Disturbed
  <2>. HIDE DEF failed, aborted
  <2>. QED BY <1>1, <1>2, <1>4, <1>5, <2>1
<1>. QED BY <1>6, <1>7, <1>8, <1>9

LEMMA WeeklyEnds ==
    ASSUME BioAssumption, WholeRun, QuietInv, Discover("weekly") \/ Alert("weekly")
    PROVE  Good(run["weekly"], cms, listing)'
PROOF
<1>. DEFINE r == run["weekly"]
            on == [r EXCEPT !.pc = "alert"]
            broken == [r EXCEPT !.pc = "alert", !.raised = TRUE]
<1>1. /\ r \in Runs /\ r.pc \in {"create", "alert"} /\ WeeklyRun(r)
      /\ run \in [Actors -> Placed] /\ "weekly" \in Actors
      /\ (Quiet(r) => Covers(r, cms, listing))
  BY TypeParts DEF QuietInv, Good, BioTypes, Discover, Alert, At, OnItems, Actors
<1>2. UNCHANGED <<cms, listing>>
  BY DEF Discover, Alert
<1>3. Good(on, cms, listing)
  <2>1. /\ on.pc = "alert" /\ on.opt = r.opt /\ on.found = r.found /\ on.read0 = r.read0
        /\ on.page = r.page /\ on.last = r.last /\ on.version = r.version
        /\ (Quiet(on) <=> Quiet(r)) /\ \A f \in CoverFields : on[f] = r[f]
    BY <1>1 DEF Runs, Quiet, CoverFields
  <2>. HIDE DEF on
  <2>2. Accounted(on, cms, listing) <=> Accounted(r, cms, listing)
    BY <2>1, AccountedSame
  <2>. QED BY <1>1, <2>1, <2>2 DEF Good, WeeklyRun, Covers, Answer, OnItems, ResolvedSteps
<1>4. Good(broken, cms, listing)
  <2>1. /\ broken.pc = "alert" /\ broken.raised /\ broken.opt = r.opt
        /\ broken.found = r.found /\ broken.read0 = r.read0 /\ broken.version = r.version
    BY <1>1 DEF Runs
  <2>. HIDE DEF broken
  <2>. QED BY <1>1, <2>1 DEF Good, WeeklyRun, Quiet, Answer, OnItems, ResolvedSteps
<1>5. Good(NoRun, cms, listing)
  BY DEF NoRun, Good, WeeklyRun, Answer, OnItems, ResolvedSteps
<1>6. \E q \in {on, broken, NoRun} : Becomes("weekly", q)
  BY DEF Discover, Alert, Goto
<1>. HIDE DEF on, broken
<1>. QED BY <1>1, <1>2, <1>3, <1>4, <1>5, <1>6 DEF Becomes

LEMMA WeeklyStep ==
    ASSUME BioAssumption, WholeRun, QuietInv, Step("weekly")
    PROVE  Good(run["weekly"], cms, listing)'
PROOF
<1>1. ~BuildResolver("weekly")
  BY DEF QuietInv, Good, WeeklyRun, BuildResolver, At
<1>. QED BY <1>1, WeeklyWarms, WeeklyLists, WeeklyLooksUp, WeeklyPhoto, WeeklyPatches, WeeklyEnds
         DEF Step

\* The weekly run while others write: it need not account for anything.
LEMMA GoodDisturbed ==
    ASSUME NEW r \in Runs, WeeklyRun(r)
    PROVE  \A c, items : /\ Good([r EXCEPT !.alone = FALSE], c, items)
                         /\ r.pc = "idle" => Good(r, c, items)
PROOF
<1>. DEFINE q == [r EXCEPT !.alone = FALSE]
<1>1. /\ q.pc = r.pc /\ q.opt = r.opt /\ q.found = r.found /\ q.read0 = r.read0
      /\ q.page = r.page /\ q.last = r.last /\ q.version = r.version /\ q.offset = r.offset
      /\ ~q.alone
  BY DEF Runs
<1>. HIDE DEF q
<1>2. WeeklyRun(q)
  BY <1>1 DEF WeeklyRun, Answer, KnownUpstream, InCongress, Id, Item, Place
<1>3. \A c, items : Good(q, c, items)
  BY <1>1, <1>2 DEF Good, Quiet
<1>4. \A c, items : r.pc = "idle" => Good(r, c, items)
  BY DEF Good, OnItems
<1>. QED BY <1>3, <1>4 DEF q

LEMMA DisturbedGood ==
    ASSUME BioAssumption, QuietInv, NEW runs \in [Actors -> Placed], NEW p, p # "weekly",
           runs["weekly"] = run["weekly"], run' = Disturbed(runs, p)
    PROVE  Good(run["weekly"], cms, listing)'
PROOF
<1>1. run["weekly"] \in Runs /\ WeeklyRun(run["weekly"]) /\ "weekly" \in Actors
  BY TypeParts DEF QuietInv, Good, Actors
<1>2. \/ run["weekly"].pc = "idle" /\ run'["weekly"] = run["weekly"]
      \/ run'["weekly"] = [run["weekly"] EXCEPT !.alone = FALSE]
  BY <1>1 DEF Disturbed
<1>. QED BY <1>1, <1>2, GoodDisturbed

LEMMA OthersStep ==
    ASSUME BioAssumption, QuietInv, NEW p \in Actors \ {"weekly"}, Step(p)
    PROVE  Good(run["weekly"], cms, listing)'
PROOF
<1>1. UNCHANGED listing
  BY DEF Step, ReadCache, Download, FileWritten, BuildResolver, ListPage, Lookup, ReuseAsset,
         CreateAsset, PutBytes, Patch, Discover, Alert
<1>2. \/ UNCHANGED cms /\ \E q : Becomes(p, q)
      \/ /\ At(p, "patch")
         /\ \E q \in {Past(Counted(run[p])), Past(WithError(run[p]))} : Applied(p, q)
  <2>1. ~Patch(p) => UNCHANGED cms /\ \E q : Becomes(p, q)
    BY DEF Step, ReadCache, Download, FileWritten, WarmFails, Warmed, BuildResolver, ListPage,
           Lookup, ReuseAsset, CreateAsset, PutBytes, Discover, Alert, Goto
  <2>2. ASSUME Patch(p)
        PROVE  \/ UNCHANGED cms /\ \E q : Becomes(p, q)
               \/ /\ At(p, "patch")
                  /\ \E q \in {Past(Counted(run[p])), Past(WithError(run[p]))} : Applied(p, q)
    BY <2>2 DEF Patch
  <2>. QED BY <2>1, <2>2
<1>3. CASE UNCHANGED cms /\ \E q : Becomes(p, q)
  BY <1>1, <1>3 DEF Becomes, QuietInv, BioTypes
<1>4. ASSUME At(p, "patch"),
             NEW q \in {Past(Counted(run[p])), Past(WithError(run[p]))}, Applied(p, q)
      PROVE  Good(run["weekly"], cms, listing)'
  <2>1. q \in Placed
    <3>1. run[p] \in Runs /\ DOMAIN run[p].page # {}
      BY <1>4, TypeParts DEF QuietInv, Placed, RecordSteps, At
    <3>2. /\ Counted(run[p]) \in Runs /\ WithError(run[p]) \in Runs
          /\ Counted(run[p]).page = run[p].page /\ WithError(run[p]).page = run[p].page
      BY <3>1, CountedFacts DEF SameBut, RunFields
    <3>. QED BY <1>4, <3>1, <3>2, PastFacts
  <2>2. /\ [run EXCEPT ![p] = q] \in [Actors -> Placed]
        /\ [run EXCEPT ![p] = q]["weekly"] = run["weekly"]
    BY <2>1 DEF QuietInv, BioTypes, Actors
  <2>3. run' = Disturbed([run EXCEPT ![p] = q], p)
    BY <1>4 DEF Applied
  <2>. QED BY <2>2, <2>3, DisturbedGood
<1>. QED BY <1>2, <1>3, <1>4

\* What a step makes of a run was begun when that run was, and does not
\* write the cache.
Later(q, r) == q.read0 = r.read0 /\ q.pc # "writing"

LEMMA LaterKept ==
    ASSUME BioAssumption, NEW r \in Runs, DOMAIN r.page # {}
    PROVE  /\ Later(Past(r), r) /\ Later(Past(Counted(r)), r) /\ Later(Past(WithError(r)), r)
           /\ Later(Diff(r), r) /\ Later(WithoutPhoto(r), r) /\ Later(Resolved(r), r)
PROOF
<1>1. ASSUME NEW q \in Runs, DOMAIN q.page # {} PROVE Later(Past(q), q)
  BY <1>1, PastFacts, PastFields DEF Later
<1>2. ASSUME NEW q \in Runs, DOMAIN q.page # {}
      PROVE  /\ Counted(q) \in Runs /\ Counted(q).page = q.page /\ Counted(q).read0 = q.read0
             /\ WithError(q) \in Runs /\ WithError(q).page = q.page
             /\ WithError(q).read0 = q.read0
  BY <1>2, CountedFacts DEF SameBut, RunFields
<1>3. ASSUME NEW q \in Runs, DOMAIN q.page # {}
      PROVE  Later(Past(Counted(q)), q) /\ Later(Past(WithError(q)), q)
  <2>1. Later(Past(Counted(q)), Counted(q)) /\ Later(Past(WithError(q)), WithError(q))
    BY <1>1, <1>2, <1>3
  <2>. QED BY <1>2, <1>3, <2>1 DEF Later
<1>4. ASSUME NEW q \in Runs, DOMAIN q.page # {} PROVE Later(Diff(q), q)
  <2>1. Later([q EXCEPT !.pc = "patch"], q)
    BY DEF Later, Runs
  <2>. QED BY <1>1, <1>3, <1>4, <2>1 DEF Diff
<1>5. Later(WithoutPhoto(r), r)
  <2>1. Later(Diff(WithError(r)), WithError(r))
    BY <1>2, <1>4
  <2>. QED BY <1>2, <2>1 DEF Later, WithoutPhoto
<1>6. Later(Resolved(r), r)
  <2>. DEFINE q == [r EXCEPT !.orphans = @ \cup {Id(r)}]
  <2>1. q \in Runs /\ q.page = r.page /\ q.read0 = r.read0
    BY ItemTypes DEF Runs
  <2>2. Later(Past(q), q)
    BY <1>1, <2>1
  <2>3. Later(Past(q), r)
    <3>. HIDE DEF q
    <3>. QED BY <2>1, <2>2 DEF Later
  <2>4. Later([r EXCEPT !.pc = "photo"], r)
    BY DEF Later, Runs
  <2>. QED BY <1>4, <2>3, <2>4 DEF Resolved
<1>. QED BY <1>1, <1>3, <1>4, <1>5, <1>6

\* The runs after a step, but for the one that starts to write the cache.
LEMMA StepRuns ==
    ASSUME BioAssumption, BioTypes, NEW p \in Actors, Step(p)
    PROVE  \/ /\ file'.version = congress
              /\ Becomes(p, [run[p] EXCEPT !.pc = "writing"])
           \/ /\ file'.version = file.version /\ file'.fresh = file.fresh
              /\ \E q : /\ Later(q, run[p]) \/ q = NoRun
                        /\ Becomes(p, q) \/ run' = Disturbed([run EXCEPT ![p] = q], p)
PROOF
<1>. DEFINE r == run[p]
            Kept1(q) == Later(q, r) \/ q = NoRun
<1>1. r \in Runs /\ (r.pc \in RecordSteps => DOMAIN r.page # {})
  BY TypeParts DEF Placed
<1>2. /\ \A s \in Steps \ {"writing"} : Later([r EXCEPT !.pc = s], r)
      /\ \A v : Later(Listing([r EXCEPT !.version = v]), r)
      /\ Later([r EXCEPT !.pc = "page", !.mapped = TRUE], r)
      /\ Later([r EXCEPT !.pc = "alert", !.raised = TRUE], r)
      /\ Later([r EXCEPT !.pc = "alert", !.aborted = TRUE], r)
  BY <1>1 DEF Later, Runs, Listing
<1>3. CASE ReadCache(p) \/ Download(p) \/ FileWritten(p)
  <2>1. CASE ReadCache(p)
    BY <1>2, <2>1 DEF ReadCache, Warmed, WarmFails, Goto, Steps
  <2>2. CASE Download(p)
    <3>. DEFINE idle == [r EXCEPT !.pc = "idle"]
                writing == [r EXCEPT !.pc = "writing"]
    <3>1. Later(idle, r)
      BY <1>2 DEF Steps
    <3>2. \/ /\ file' = [version |-> congress, fresh |-> TRUE, torn |-> TRUE]
             /\ Becomes(p, writing)
          \/ UNCHANGED file /\ Becomes(p, idle)
      BY <2>2 DEF Download, WarmFails, Goto
    <3>. HIDE DEF idle
    <3>. QED BY <3>1, <3>2
  <2>3. CASE FileWritten(p)
    <3>1. file'.version = file.version /\ file'.fresh = file.fresh
      BY <2>3 DEF FileWritten, BioTypes, TypeOK
    <3>. DEFINE v == file.version
                idle == [r EXCEPT !.pc = "idle"]
                listed == Listing([r EXCEPT !.version = v])
    <3>2. Becomes(p, idle) \/ Becomes(p, listed)
      BY <2>3 DEF FileWritten, Warmed, Goto
    <3>3. "idle" \in Steps \ {"writing"}
      BY DEF Steps
    <3>4. Later(idle, r) /\ Later(listed, r)
      BY <1>2, <3>3
    <3>. HIDE DEF idle, listed
    <3>. QED BY <3>1, <3>2, <3>4
  <2>. QED BY <1>3, <2>1, <2>2, <2>3
<1>4. CASE BuildResolver(p) \/ Discover(p) \/ Alert(p)
  BY <1>2, <1>4 DEF BuildResolver, Discover, Alert, Goto, Steps
<1>5. CASE ListPage(p)
  <2>. DEFINE items == PageAt(r.offset)
              n == r.offset + Len(items)
              end == (n >= Len(listing))
              q == [r EXCEPT !.offset = n, !.page = Wanted(p, items), !.last = end]
  <2>1. Later(Advance(q), r)
    <3>. HIDE DEF n, end, items
    <3>. QED BY <1>1 DEF Later, Runs, Advance
  <2>2. \/ Becomes(p, Advance(q))
        \/ Becomes(p, [r EXCEPT !.pc = "alert", !.raised = TRUE])
    BY <1>5 DEF ListPage
  <2>3. UNCHANGED file
    BY <1>5 DEF ListPage
  <2>. HIDE DEF q
  <2>. QED BY <1>2, <2>1, <2>2, <2>3
<1>6. CASE Lookup(p)
  <2>. DEFINE q == [r EXCEPT !.found = Person(Id(r))]
  <2>1. q \in Runs /\ q.page = r.page /\ q.read0 = r.read0
    <3>1. Person(Id(r)) \in Values
      BY ValueTypes DEF Person, BioTypes, TypeOK
    <3>. QED BY <1>1, <3>1 DEF Runs
  <2>2. DOMAIN r.page # {}
    BY <1>1, <1>6 DEF Lookup, At, RecordSteps
  <2>3. Later(Resolved(q), q) /\ Later(Resolved(r), r)
    <3>. HIDE DEF q
    <3>. QED BY <1>1, <2>1, <2>2, LaterKept
  <2>4. Later(Resolved(q), r)
    BY <2>1, <2>3 DEF Later
  <2>5. Becomes(p, Resolved(q)) \/ Becomes(p, Resolved(r))
    BY <1>6 DEF Lookup
  <2>6. UNCHANGED file
    BY <1>6 DEF Lookup
  <2>. HIDE DEF q
  <2>. QED BY <2>3, <2>4, <2>5, <2>6
<1>7. CASE ReuseAsset(p) \/ CreateAsset(p) \/ PutBytes(p)
  <2>1. DOMAIN r.page # {}
    BY <1>1, <1>7 DEF ReuseAsset, CreateAsset, PutBytes, At, RecordSteps
  <2>. DEFINE reused == [r EXCEPT !.photo = r.cache]
              stored == [r EXCEPT !.photo = Stored, !.cache = Stored]
  <2>2. /\ reused \in Runs /\ reused.page = r.page /\ reused.read0 = r.read0
        /\ stored \in Runs /\ stored.page = r.page /\ stored.read0 = r.read0
    BY <1>1, ValueTypes DEF Runs
  <2>. HIDE DEF reused, stored
  <2>3. Later(Diff(reused), reused) /\ Later(Diff(stored), stored) /\ Later(WithoutPhoto(r), r)
    BY <1>1, <2>1, <2>2, LaterKept
  <2>4. Later(Diff(reused), r) /\ Later(Diff(stored), r)
    BY <2>2, <2>3 DEF Later
  <2>5. \E q \in {Diff(reused), Diff(stored), WithoutPhoto(r), [r EXCEPT !.pc = "put"]} :
          Becomes(p, q)
    BY <1>7 DEF ReuseAsset, CreateAsset, PutBytes, Goto, reused, stored
  <2>6. UNCHANGED file
    BY <1>7 DEF ReuseAsset, CreateAsset, PutBytes
  <2>. QED BY <1>2, <2>3, <2>4, <2>5, <2>6 DEF Steps
<1>8. CASE Patch(p)
  <2>1. DOMAIN r.page # {}
    BY <1>1, <1>8 DEF Patch, At, RecordSteps
  <2>. DEFINE patched == Past(Counted(r))
              failed == Past(WithError(r))
              aborted == [r EXCEPT !.pc = "alert", !.aborted = TRUE]
  <2>2. Later(patched, r) /\ Later(failed, r) /\ Later(aborted, r)
    BY <1>1, <1>2, <2>1, LaterKept
  <2>3. \E q \in {patched, failed, aborted} : Becomes(p, q) \/ Applied(p, q)
    BY <1>8 DEF Patch
  <2>4. UNCHANGED file
    BY <1>8 DEF Patch
  <2>. HIDE DEF patched, failed, aborted
  <2>. QED BY <2>2, <2>3, <2>4 DEF Applied
<1>. QED BY <1>3, <1>4, <1>5, <1>6, <1>7, <1>8 DEF Step

\* What the cache and the start of the weekly run are known for is kept.
LEMMA StepKeeps ==
    ASSUME BioAssumption, QuietInv, NEW p \in Actors, Step(p)
    PROVE  FileInv' /\ run'["weekly"].read0 <= openstates' /\ UNCHANGED known
PROOF
<1>1. /\ \A o \in Actors : run[o] \in Runs
      /\ run \in [Actors -> Placed] /\ "weekly" \in Actors
      /\ congress # 0 /\ openstates \in Nat /\ run["weekly"].read0 <= openstates
  BY TypeParts DEF QuietInv, BioTypes, TypeOK, Actors, Versions
<1>2. UNCHANGED <<known, openstates>>
  BY DEF Step, ReadCache, Download, FileWritten, BuildResolver, ListPage, Lookup, ReuseAsset,
         CreateAsset, PutBytes, Patch, Discover, Alert, upstream
<1>3. BioTypes
  BY DEF QuietInv
<1>4. CASE file'.version = congress /\ Becomes(p, [run[p] EXCEPT !.pc = "writing"])
  <2>1. run'["weekly"].read0 = run["weekly"].read0
    BY <1>1, <1>4 DEF Becomes, Runs
  <2>. QED BY <1>1, <1>2, <1>4, <2>1 DEF FileInv
<1>5. ASSUME file'.version = file.version, file'.fresh = file.fresh,
             NEW q, Later(q, run[p]) \/ q = NoRun,
             Becomes(p, q) \/ run' = Disturbed([run EXCEPT ![p] = q], p)
      PROVE  FileInv' /\ run'["weekly"].read0 <= openstates'
  <2>1. q.pc # "writing" /\ q.read0 \in {run[p].read0, 0}
    BY <1>5 DEF Later, NoRun
  <2>. DEFINE runs == [run EXCEPT ![p] = q]
  <2>0. \/ run' = runs
        \/ p # "weekly" /\ run' = [runs EXCEPT !["weekly"].alone = FALSE]
    BY <1>5 DEF Becomes, Disturbed
  <2>2. \A o \in Actors : run'[o].pc = runs[o].pc
    <3>1. p # "weekly" => runs["weekly"] \in Runs /\ DOMAIN runs = Actors
      BY <1>1
    <3>2. p # "weekly" => [runs["weekly"] EXCEPT !.alone = FALSE].pc = runs["weekly"].pc
      BY <3>1 DEF Runs
    <3>. HIDE DEF runs
    <3>. QED BY <1>1, <2>0, <3>1, <3>2
  <2>3. run'["weekly"].read0 = runs["weekly"].read0
    BY <1>1, <2>0 DEF Runs
  <2>4. (\E o \in Actors : run'[o].pc = "writing") => \E o \in Actors : run[o].pc = "writing"
    BY <1>1, <2>1, <2>2
  <2>5. run'["weekly"].read0 \in {run["weekly"].read0, 0}
    BY <1>1, <2>1, <2>3
  <2>6. FileInv'
    BY <1>5, <2>4 DEF QuietInv, FileInv
  <2>. QED BY <1>1, <1>2, <2>5, <2>6
<1>6. FileInv' /\ run'["weekly"].read0 <= openstates'
  BY <1>3, <1>4, <1>5, StepRuns
<1>. QED BY <1>2, <1>6

LEMMA QuietInit == ASSUME BioAssumption, Init PROVE QuietInv
PROOF
<1>1. run["weekly"] = NoRun /\ \A p \in Actors : run[p].pc \in {"idle", "warm"}
  BY DEF Init, NoRun, Actors
<1>2. Good(NoRun, cms, listing)
  BY DEF NoRun, Good, WeeklyRun, Answer, OnItems, ResolvedSteps
<1>3. NoRun.read0 = 0 /\ openstates = 1 /\ ~file.fresh /\ "bio" \in known
  BY DEF NoRun, Init, Fields
<1>. QED BY <1>1, <1>2, <1>3, TypeInit DEF QuietInv, FileInv

\* What begins a run, happens upstream or to the process, or is done by staff.
LEMMA QuietOutside ==
    ASSUME BioAssumption, QuietInv,
           \/ StartWeekly \/ \E o \in ManualOptions : StartManual(o)
           \/ OpenStatesChanges \/ CongressChanges \/ CacheAges \/ StaffEdits \/ Restart
    PROVE  /\ FileInv' /\ run'["weekly"].read0 <= openstates' /\ UNCHANGED known
           /\ Good(run["weekly"], cms, listing)'
PROOF
<1>1. /\ run \in [Actors -> Placed] /\ "weekly" \in Actors /\ openstates \in Nat
      /\ \A p \in Actors : run[p] \in Runs
      /\ run["weekly"].read0 \in Nat /\ run["weekly"].read0 <= openstates
      /\ FileInv /\ Good(run["weekly"], cms, listing)
  <2>1. /\ run \in [Actors -> Placed] /\ "weekly" \in Actors /\ openstates \in Nat
        /\ run["weekly"].read0 <= openstates
        /\ FileInv /\ Good(run["weekly"], cms, listing)
    BY DEF QuietInv, BioTypes, TypeOK, Actors, Versions
  <2>2. \A p \in Actors : run[p] \in Runs
    BY TypeParts DEF QuietInv
  <2>3. \A r \in Runs : r.read0 \in Nat
    BY DEF Runs, Versions
  <2>. QED BY <2>1, <2>2, <2>3
<1>2. CASE StartWeekly
  <2>. DEFINE q == [NoRun EXCEPT !.pc = "warm", !.read0 = openstates]
  <2>1. /\ q.pc = "warm" /\ q.read0 = openstates /\ q.opt = WeeklyOptions
        /\ q.found = Nothing /\ q.offset = 0 /\ q.page = <<>> /\ ~q.last
    BY DEF NoRun
  <2>2. run' = [run EXCEPT !["weekly"] = q]
    BY <1>2 DEF StartWeekly, Becomes
  <2>3. UNCHANGED <<openstates, file, listing, cms, known>>
    BY <1>2 DEF StartWeekly, upstream
  <2>. HIDE DEF q
  <2>4. Good(q, cms, listing)
    BY <2>1, EmptyPage DEF Good, WeeklyRun, Answer, OnItems, ResolvedSteps
  <2>5. run'["weekly"] = q /\ \A p \in Actors : p # "weekly" => run'[p] = run[p]
    BY <1>1, <2>2
  <2>. QED BY <1>1, <2>1, <2>3, <2>4, <2>5 DEF FileInv
<1>3. ASSUME NEW o \in ManualOptions, StartManual(o)
      PROVE  /\ FileInv' /\ run'["weekly"].read0 <= openstates' /\ UNCHANGED known
             /\ Good(run["weekly"], cms, listing)'
  <2>. DEFINE q == Listing([NoRun EXCEPT !.opt = o, !.version = source.version])
  <2>1. q.pc # "writing"
    BY DEF Listing, NoRun
  <2>2. run' = [run EXCEPT !["manual"] = q]
    BY <1>3 DEF StartManual, Becomes
  <2>3. UNCHANGED <<openstates, file, listing, cms, known>>
    BY <1>3 DEF StartManual, upstream
  <2>. HIDE DEF q
  <2>4. \A p \in Actors : run'[p] = run[p] \/ run'[p].pc # "writing"
    BY <1>1, <2>1, <2>2
  <2>5. run'["weekly"] = run["weekly"]
    BY <1>1, <2>2
  <2>. QED BY <1>1, <2>3, <2>4, <2>5 DEF FileInv
<1>4. CASE OpenStatesChanges
  <2>1. openstates' = openstates + 1 /\ UNCHANGED <<file, listing, cms, known, run>>
    BY <1>4 DEF OpenStatesChanges
  <2>. QED BY <1>1, <2>1 DEF FileInv
<1>5. CASE CongressChanges \/ CacheAges
  <2>1. UNCHANGED <<openstates, listing, cms, known, run>>
    BY <1>5 DEF CongressChanges, CacheAges, upstream
  <2>2. file'.version = file.version /\ (file'.fresh => file.fresh)
    BY <1>5 DEF CongressChanges, CacheAges, QuietInv, BioTypes, TypeOK
  <2>. QED BY <1>1, <2>1, <2>2 DEF FileInv
<1>6. CASE StaffEdits
  <2>1. run' = Disturbed(run, "staff") /\ UNCHANGED <<openstates, file, known>>
    BY <1>6 DEF StaffEdits, upstream
  <2>2. Good(run["weekly"], cms, listing)'
    BY <1>1, <2>1, DisturbedGood
  <2>3. /\ \A p \in Actors : run'[p].pc = run[p].pc
        /\ run'["weekly"].read0 = run["weekly"].read0
    <3>1. run' = run \/ run' = [run EXCEPT !["weekly"].alone = FALSE]
      BY <2>1 DEF Disturbed
    <3>. QED BY <1>1, <3>1 DEF Runs
  <2>. QED BY <1>1, <2>1, <2>2, <2>3 DEF FileInv
<1>7. CASE Restart
  <2>1. run'["weekly"] = NoRun /\ \A p \in Actors : run'[p].pc \in {"idle", "warm"}
    BY <1>7 DEF Restart, NoRun, Actors
  <2>2. UNCHANGED <<openstates, file, known>>
    BY <1>7 DEF Restart, upstream
  <2>3. \A c, items : Good(NoRun, c, items)
    BY DEF NoRun, Good, WeeklyRun, Answer, OnItems, ResolvedSteps
  <2>4. NoRun.read0 = 0
    BY DEF NoRun
  <2>. QED BY <1>1, <2>1, <2>2, <2>3, <2>4 DEF FileInv
<1>. QED BY <1>2, <1>3, <1>4, <1>5, <1>6, <1>7

LEMMA QuietNext ==
    ASSUME BioAssumption, WholeRun, QuietInv, [Next]_vars
    PROVE  QuietInv'
PROOF
<1>1. BioTypes'
  BY TypeNext DEF QuietInv
<1>2. ASSUME NEW p \in Actors, Step(p) PROVE QuietInv'
  <2>1. FileInv' /\ run'["weekly"].read0 <= openstates' /\ UNCHANGED known
    BY <1>2, StepKeeps
  <2>2. Good(run["weekly"], cms, listing)'
    BY <1>2, WeeklyStep, OthersStep
  <2>. QED BY <1>1, <2>1, <2>2 DEF QuietInv
<1>3. CASE UNCHANGED vars
  <2>1. UNCHANGED <<openstates, file, listing, cms, known, run>>
    BY <1>3 DEF vars, upstream
  <2>. QED BY <1>1, <2>1 DEF QuietInv, FileInv
<1>4. CASE \/ StartWeekly \/ \E o \in ManualOptions : StartManual(o)
           \/ OpenStatesChanges \/ CongressChanges \/ CacheAges \/ StaffEdits \/ Restart
  <2>1. /\ FileInv' /\ run'["weekly"].read0 <= openstates' /\ UNCHANGED known
        /\ Good(run["weekly"], cms, listing)'
    BY <1>4, QuietOutside
  <2>. QED BY <1>1, <2>1 DEF QuietInv
<1>. QED BY <1>2, <1>3, <1>4 DEF Next

\* At the alert of a quiet run nothing is left to account for.
LEMMA QuietAlert ==
    ASSUME BioAssumption, QuietInv, At("weekly", "alert"), Quiet(run["weekly"]),
           NEW l \in ToSet(listing) \ run["weekly"].orphans
    PROVE  NotOlder(l, run["weekly"].version, run["weekly"].read0)
PROOF
<1>. DEFINE r == run["weekly"]
<1>1. Covers(r, cms, listing) /\ r.pc = "alert" /\ r.offset \in Nat
  BY TypeParts DEF QuietInv, Good, At, OnItems, BioTypes, Actors, Runs
<1>2. r.last /\ DOMAIN r.page = {}
  BY <1>1 DEF Covers
<1>3. r.offset = Len(listing)
  BY <1>1, <1>2 DEF Covers, Accounted, QuietInv, BioTypes, TypeOK
<1>4. PICK i \in DOMAIN listing : l = listing[i]
  BY DEF ToSet
<1>5. i \in 1..r.offset
  BY <1>3, <1>4 DEF QuietInv, BioTypes, TypeOK
<1>6. Dealt(r, l, cms)
  BY <1>1, <1>2, <1>4, <1>5 DEF Covers, Accounted
<1>. QED BY <1>6 DEF Dealt, NotOlder

\* An alert without the failure flag can be relied on, for any legislators,
\* page size, upstream changes, edits and faults: provided the options are
\* the ones _run_legislator_bio_sync passes, an item of the CMS that the alert
\* does not count as an orphan carries what upstream had when the weekly run
\* began, or later.
THEOREM BioQuietRunIsComplete ==
    ASSUME WholeRun
    PROVE  Spec => QuietRunIsComplete
PROOF
<1>1. Init => QuietInv
  BY QuietInit, BioAssumption
<1>2. QuietInv /\ [Next]_vars => QuietInv'
  BY QuietNext, BioAssumption
<1>3. QuietInv
      => [(/\ At("weekly", "alert") /\ run'["weekly"] = NoRun /\ faults' = faults
           /\ ~OnFailure(run["weekly"]) /\ ~run["weekly"].raised /\ run["weekly"].alone)
          => \A l \in ToSet(listing) \ run["weekly"].orphans :
                NotOlder(l, run["weekly"].version, run["weekly"].read0)]_vars
  BY QuietAlert, BioAssumption DEF Quiet, OnFailure
<1>. QED BY <1>1, <1>2, <1>3, PTL DEF Spec, QuietRunIsComplete
=============================================================================
