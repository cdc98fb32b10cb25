------------------------- MODULE ArchiveEmbedProofs -------------------------
(***************************************************************************)
(* ArchiveEmbed for any documents, caps and save interval and any number   *)
(* of failed calls, early ends, restarts and deaths: the backfill forgets  *)
(* no bill, and the watermark passes none that is not in the index.        *)
(*                                                                         *)
(* A backfill takes the bills it carried over, then the others in          *)
(* increasing order, so that whatever it took and has not come to lies     *)
(* above its last bill; and bills do not leave the listing, so that what   *)
(* an earlier run took above its checkpoint is listed again.               *)
(*                                                                         *)
(* The watermark is sound because a record with the hash of the present    *)
(* text vouches for the vectors, and because a text that a slow backfill   *)
(* still holds, older than the present one, is of a document that is not   *)
(* in the index yet, so that no watermark covers it.                       *)
(***************************************************************************)
EXTENDS ArchiveEmbed, FiniteSetTheorems, TLAPS

FillFields == {"pc", "last", "failed", "retry", "rest", "count", "took"}
CheckpointFields == {"last", "failed", "done", "took"}

\* As much of the types as the argument needs.
CallShape == DOMAIN at = Writers /\ \A w \in Writers : {"pc", "bill"} \subseteq DOMAIN at[w]
Shapes ==
    /\ arch \in [Docs -> [text : Nat, stamp : Nat]] /\ now \in Nat
    /\ DOMAIN fill = FillFields /\ DOMAIN cp = CheckpointFields
    /\ fill.last \in Nat /\ cp.last \in Nat
    /\ fill.failed \cup fill.retry \cup fill.rest \subseteq Bills
    /\ cp.failed \subseteq Bills
    /\ CallShape

\* What a run took is handled, carried over, or above its last bill and to come.
RunKeeps ==
    /\ fill.took \subseteq ListedBills
    /\ \A b \in fill.failed \cup fill.retry : b <= fill.last
    /\ \A b \in fill.rest : b > fill.last
    /\ \A b \in fill.took : b > fill.last => b \in fill.rest
    /\ \A b \in fill.took : b <= fill.last => b \in fill.failed \cup fill.retry \cup settled

CheckpointKeeps ==
    /\ cp.took \subseteq ListedBills
    /\ \A b \in cp.failed : b <= cp.last
    /\ \A b \in cp.took : b <= cp.last => b \in cp.failed \cup settled

\* The backfill works on the first bill of its turn.
InTurn ==
    at["fill"].pc # "off" =>
        fill.pc = "bills" /\ Turn("fill") # {} /\ at["fill"].bill = Min(Turn("fill"))

FillInv == Shapes /\ RunKeeps /\ CheckpointKeeps /\ InTurn

-----------------------------------------------------------------------------
\* A set of numbers has a least one: the initial segments below its members
\* are finite, and strict inclusion of finite sets is well-founded.
LEMMA LeastOfNats ==
    ASSUME NEW S, S \subseteq Nat, S # {}
    PROVE  Min(S) \in S /\ \A x \in S : Min(S) <= x
<1> DEFINE T == {0..m : m \in S}
<1>1. IsWellFoundedOn(StrictSubsetOrdering(Nat), FiniteSubsetsOf(Nat))
  BY FS_StrictSubsetOrderingWellFounded
<1>2. T \subseteq FiniteSubsetsOf(Nat)
  <2> SUFFICES ASSUME NEW m \in S PROVE 0..m \in FiniteSubsetsOf(Nat)
    OBVIOUS
  <2>1. IsFiniteSet(0..m)
    BY FS_Interval
  <2> QED BY <2>1 DEF FiniteSubsetsOf
<1>3. T # {}
  OBVIOUS
<1> HIDE DEF T
<1>4. PICK I \in T : \A J \in T : <<J, I>> \notin StrictSubsetOrdering(Nat)
  BY <1>1, <1>2, <1>3, WFMin
<1>5. PICK m \in S : I = 0..m
  BY <1>4 DEF T
<1>6. ASSUME NEW x \in S PROVE m <= x
  <2>1. 0..x \in T
    BY DEF T
  <2>2. SUFFICES ASSUME x < m PROVE FALSE
    OBVIOUS
  <2>3. 0..x \subseteq 0..m /\ m \in 0..m /\ m \notin 0..x
    BY <2>2
  <2>4. <<0..x, 0..m>> \in StrictSubsetOrdering(Nat)
    <3>1. 0..x \in SUBSET Nat /\ 0..m \in SUBSET Nat /\ 0..x # 0..m
      BY <2>3
    <3> DEFINE p == <<0..x, 0..m>>
    <3>2. p \in (SUBSET Nat) \X (SUBSET Nat) /\ p[1] = 0..x /\ p[2] = 0..m
      BY <3>1
    <3> HIDE DEF p
    <3>3. p \in StrictSubsetOrdering(Nat)
      BY <2>3, <3>1, <3>2 DEF StrictSubsetOrdering
    <3> QED BY <3>3 DEF p
  <2> QED BY <1>4, <1>5, <2>1, <2>4
<1> QED
  BY <1>6 DEF Min

LEMMA GreaterOfTwo ==
    ASSUME NEW a \in Nat, NEW b \in Nat
    PROVE  Max({a, b}) = IF a >= b THEN a ELSE b
BY DEF Max

-----------------------------------------------------------------------------
(* What a step does to the backfill.                                       *)

First == Min(Turn("fill"))
\* The backfill's call of embed_bill goes on, or nothing changes for the backfill.
Moves ==
    /\ UNCHANGED fillVars
    /\ at["fill"].pc # "off" \/ at'["fill"].pc = "off"
    /\ at'["fill"].bill = at["fill"].bill

Fetches == Turn("fill") # {} /\ UNCHANGED fillVars /\ at'["fill"].bill = First

\* A call ends: its bill leaves the turn, as a failed one or as one that is settled.
Ends ==
    /\ Turn("fill") # {} /\ at'["fill"].pc = "off" /\ UNCHANGED cp
    /\ DOMAIN fill' = DOMAIN fill
    /\ fill'.retry = fill.retry \ {First} /\ fill'.rest = fill.rest \ {First}
    /\ fill'.last = Max({fill.last, First}) /\ fill'.took = fill.took
    /\ \/ fill'.failed = fill.failed \cup {First} /\ settled' = settled
       \/ fill'.failed = fill.failed /\ settled' = settled \cup {First}

\* Bills stay listed, and the shape of the listing too.
LEMMA ListingStep ==
    ASSUME Shapes, [Next]_vars
    PROVE  /\ ListedBills \subseteq ListedBills'
           /\ arch' \in [Docs -> [text : Nat, stamp : Nat]] /\ now' \in Nat
<1> USE DEF Shapes
<1>1. ASSUME NEW d \in Docs, Archived(d)
      PROVE  /\ ListedBills \subseteq ListedBills'
             /\ arch' \in [Docs -> [text : Nat, stamp : Nat]] /\ now' \in Nat
  <2>1. PICK text \in {now + 1, arch[d].text} \ {0} :
           arch' = [arch EXCEPT ![d] = [text |-> text, stamp |-> now + 1]]
    BY <1>1 DEF Archived
  <2>2. text \in Nat /\ text # 0 /\ now' = now + 1
    BY <1>1, <2>1 DEF Archived
  <2>3. \A e \in Docs : arch[e].text # 0 => arch'[e].text # 0
    BY <2>1, <2>2
  <2>4. Listed \subseteq Listed'
    BY <2>3 DEF Listed
  <2> QED BY <2>1, <2>2, <2>4 DEF ListedBills
<1>2. ASSUME NEW d \in Docs, Dropped(d)
      PROVE  /\ ListedBills \subseteq ListedBills'
             /\ arch' \in [Docs -> [text : Nat, stamp : Nat]] /\ now' \in Nat
  <2>1. PICK e \in Listed \ {d} : BillOf[e] = BillOf[d]
    BY <1>2 DEF Dropped
  <2>2. arch' = [arch EXCEPT ![d].text = 0] /\ now' = now
    BY <1>2 DEF Dropped
  <2>3. arch' \in [Docs -> [text : Nat, stamp : Nat]]
    BY <2>2
  <2>4. \A f \in Docs \ {d} : arch'[f] = arch[f]
    BY <2>2
  <2>5. Listed \ {d} \subseteq Listed'
    BY <2>4 DEF Listed
  <2>6. ASSUME NEW b \in ListedBills PROVE b \in ListedBills'
    <3>1. PICK f \in Listed : b = BillOf[f]
      BY DEF ListedBills
    <3>2. CASE f = d
      BY <2>1, <2>5, <3>1, <3>2 DEF ListedBills
    <3>3. CASE f # d
      BY <2>5, <3>1, <3>3 DEF ListedBills
    <3> QED BY <3>2, <3>3
  <2> QED BY <2>2, <2>3, <2>6
<1>3. CASE UNCHANGED <<arch, now>>
  BY <1>3 DEF ListedBills, Listed
<1> QED
  BY <1>1, <1>2, <1>3
  DEF Next, Hook, Embed, ArchiveStarts, ArchiveSucceeds, TriggerLegbot, RefreshSearch, ListLedger,
      ReadWatermark, ListTouched, PassEnds, ReconcileEnds, DebounceExpires, ArchiveFails,
      WatermarkExpires, FillStarts, Save, Dies, Fetch, ReadRecord, Check, Ingest, CheckOrphan,
      DeleteOrphan, AllExamined, ReadLatest, Record, vars

\* The calls of the hook leave the backfill alone.
LEMMA HookSteps ==
    ASSUME CallShape, Embed("hook")
    PROVE  CallShape' /\ UNCHANGED fillVars /\ at'["fill"] = at["fill"]
<1> USE DEF CallShape, Writers
<1>1. ASSUME NEW b, NEW undone, BillEnds("hook", b, undone)
      PROVE  CallShape' /\ UNCHANGED fillVars /\ at'["fill"] = at["fill"]
  BY <1>1 DEF BillEnds, HookBillEnds, Off
<1>2. CASE Fetch("hook")
  <2>1. CASE BillEnds("hook", Min(Turn("hook")), TRUE)
    BY <1>1, <2>1
  <2>2. CASE ~BillEnds("hook", Min(Turn("hook")), TRUE)
    <3>1. /\ UNCHANGED fillVars
          /\ \E src : at' = [at EXCEPT !["hook"] = [Off EXCEPT !.pc = "read", !.bill = Min(Turn("hook")), !.src = src]]
      BY <1>2, <2>2 DEF Fetch
    <3> QED BY <3>1 DEF Off
  <2> QED BY <2>1, <2>2
<1>3. CASE ReadRecord("hook")
  BY <1>3 DEF ReadRecord
<1>4. CASE Check("hook")
  BY <1>4 DEF Check
<1>5. CASE Ingest("hook")
  BY <1>5, ZenonT(60) DEF Ingest
<1>6. CASE CheckOrphan("hook")
  BY <1>6 DEF CheckOrphan
<1>7. CASE DeleteOrphan("hook")
  BY <1>7, ZenonT(60) DEF DeleteOrphan
<1>8. CASE AllExamined("hook")
  BY <1>1, <1>8 DEF AllExamined
<1>9. CASE ReadLatest("hook")
  BY <1>1, <1>9, ZenonT(60) DEF ReadLatest
<1>10. CASE Record("hook")
  BY <1>1, <1>10 DEF Record
<1> QED
  BY <1>2, <1>3, <1>4, <1>5, <1>6, <1>7, <1>8, <1>9, <1>10 DEF Embed

\* A step of the backfill's call goes on with its bill, takes one, or ends it.
LEMMA FillSteps ==
    ASSUME CallShape, DOMAIN fill = FillFields, InTurn, Embed("fill")
    PROVE  CallShape' /\ (Moves \/ Fetches \/ Ends)
<1> USE DEF CallShape, Writers, InTurn, First
<1>1. ASSUME NEW b, NEW undone, BillEnds("fill", b, undone), Turn("fill") # {}, b = First
      PROVE  CallShape' /\ Ends
  <2>1. at' = [at EXCEPT !["fill"] = Off] /\ FillBillEnds(b, undone)
    BY <1>1 DEF BillEnds
  <2>2. CallShape' /\ at'["fill"].pc = "off"
    BY <2>1 DEF Off
  <2>3. /\ UNCHANGED cp /\ DOMAIN fill' = DOMAIN fill
        /\ fill'.retry = fill.retry \ {b} /\ fill'.rest = fill.rest \ {b}
        /\ fill'.last = Max({fill.last, b}) /\ fill'.took = fill.took
        /\ fill'.failed = fill.failed \cup (IF undone THEN {b} ELSE {})
        /\ settled' = IF undone THEN settled ELSE settled \cup {b}
    BY <2>1 DEF FillBillEnds, FillFields
  <2>4. CASE undone
    BY <1>1, <2>2, <2>3, <2>4 DEF Ends
  <2>5. CASE ~undone
    BY <1>1, <2>2, <2>3, <2>5 DEF Ends
  <2> QED BY <2>4, <2>5
<1>2. CASE Fetch("fill")
  <2>1. CASE BillEnds("fill", First, TRUE)
    BY <1>1, <1>2, <2>1 DEF Fetch
  <2>2. CASE ~BillEnds("fill", First, TRUE)
    <3>1. /\ Turn("fill") # {} /\ UNCHANGED fillVars
          /\ \E src : at' = [at EXCEPT !["fill"] = [Off EXCEPT !.pc = "read", !.bill = First, !.src = src]]
      BY <1>2, <2>2 DEF Fetch
    <3> QED BY <3>1 DEF Off, Fetches
  <2> QED BY <2>1, <2>2
<1>3. CASE ReadRecord("fill")
  BY <1>3 DEF ReadRecord, Moves, fillVars
<1>4. CASE Check("fill")
  BY <1>4 DEF Check, Moves
<1>5. CASE Ingest("fill")
  BY <1>5, ZenonT(60) DEF Ingest, Moves
<1>6. CASE CheckOrphan("fill")
  BY <1>6, ZenonT(60) DEF CheckOrphan, Moves
<1>7. CASE DeleteOrphan("fill")
  BY <1>7, ZenonT(60) DEF DeleteOrphan, Moves
<1>8. CASE AllExamined("fill")
  <2>1. CASE BillEnds("fill", at["fill"].bill, at["fill"].undone)
    BY <1>1, <1>8, <2>1 DEF AllExamined
  <2>2. CASE ~BillEnds("fill", at["fill"].bill, at["fill"].undone)
    BY <1>8, <2>2 DEF AllExamined, Moves
  <2> QED BY <2>1, <2>2
<1>9. CASE ReadLatest("fill")
  <2>1. CASE BillEnds("fill", at["fill"].bill, TRUE)
    BY <1>1, <1>9, <2>1 DEF ReadLatest
  <2>2. CASE ~BillEnds("fill", at["fill"].bill, TRUE)
    BY <1>9, <2>2 DEF ReadLatest, Moves
  <2> QED BY <2>1, <2>2
<1>10. CASE Record("fill")
  <2>1. at["fill"].pc = "record"
        /\ (BillEnds("fill", at["fill"].bill, TRUE) \/ BillEnds("fill", at["fill"].bill, FALSE))
    BY <1>10 DEF Record
  <2> QED BY <1>1, <2>1
<1> QED
  BY <1>2, <1>3, <1>4, <1>5, <1>6, <1>7, <1>8, <1>9, <1>10 DEF Embed

-----------------------------------------------------------------------------
(* The steps keep the invariant. *)

LEMMA FirstOfTurn ==
    ASSUME Shapes, Turn("fill") # {}
    PROVE  /\ First \in Turn("fill") /\ First \in Bills /\ First \in Nat
           /\ \A b \in Turn("fill") : First <= b
<1>1. Bills \subseteq Nat
  BY ArchiveAssumption
<1>2. Turn("fill") \subseteq Bills
  BY DEF Turn, Shapes
<1> QED
  BY <1>1, <1>2, LeastOfNats DEF First

\* A step that leaves the backfill's fields alone.
LEMMA QuietStep ==
    ASSUME FillInv, [Next]_vars, UNCHANGED fillVars, CallShape', InTurn'
    PROVE  FillInv'
<1>1. ListedBills \subseteq ListedBills' /\ arch' \in [Docs -> [text : Nat, stamp : Nat]] /\ now' \in Nat
  BY ListingStep DEF FillInv
<1> QED
  BY <1>1 DEF FillInv, Shapes, RunKeeps, CheckpointKeeps, fillVars

LEMMA EndsStep ==
    ASSUME FillInv, [Next]_vars, CallShape', Ends
    PROVE  FillInv'
<1>1. ListedBills \subseteq ListedBills' /\ arch' \in [Docs -> [text : Nat, stamp : Nat]] /\ now' \in Nat
  BY ListingStep DEF FillInv
<1>2. /\ First \in Turn("fill") /\ First \in Bills /\ First \in Nat
      /\ \A b \in Turn("fill") : First <= b
  BY FirstOfTurn DEF FillInv, Ends
<1>3. Bills \subseteq Nat /\ fill.last \in Nat
  BY ArchiveAssumption DEF FillInv, Shapes
<1>4. fill'.last = IF fill.last >= First THEN fill.last ELSE First
  BY <1>2, <1>3, GreaterOfTwo DEF Ends
<1>5. Shapes'
  BY <1>1, <1>2, <1>3, <1>4 DEF FillInv, Shapes, Ends
<1>6. CheckpointKeeps'
  BY <1>1 DEF FillInv, CheckpointKeeps, Ends
<1>7. InTurn'
  BY DEF InTurn, Ends
<1>8. fill.took \subseteq Nat /\ fill.failed \cup fill.retry \cup fill.rest \subseteq Nat
  <2>1. ListedBills \subseteq Bills
    BY DEF ListedBills, Listed, Bills
  <2> QED BY <2>1, <1>3 DEF FillInv, Shapes, RunKeeps
<1>9. RunKeeps'
  <2>1. CASE fill.retry # {}
    <3>1. First \in fill.retry /\ fill'.last = fill.last
      BY <1>2, <1>3, <1>4, <2>1 DEF Turn, FillInv, RunKeeps
    <3>2. First \notin fill.rest
      BY <1>2, <1>3, <3>1 DEF FillInv, RunKeeps
    <3> QED BY <1>1, <3>1, <3>2 DEF FillInv, RunKeeps, Ends
  <2>2. CASE fill.retry = {}
    <3>1. First \in fill.rest /\ \A b \in fill.rest : First <= b
      BY <1>2, <2>2 DEF Turn
    <3>2. First > fill.last /\ fill'.last = First
      BY <1>2, <1>3, <1>4, <3>1 DEF FillInv, RunKeeps
    <3>3. fill'.took \subseteq ListedBills'
      BY <1>1 DEF FillInv, RunKeeps, Ends
    <3>4. \A b \in fill'.failed \cup fill'.retry : b <= fill'.last
      BY <1>2, <1>3, <1>8, <2>2, <3>2 DEF FillInv, RunKeeps, Ends
    <3>5. \A b \in fill'.rest : b > fill'.last
      BY <1>2, <1>8, <3>1, <3>2 DEF Ends
    <3>6. \A b \in fill'.took : b > fill'.last => b \in fill'.rest
      BY <1>2, <1>3, <1>8, <3>2 DEF FillInv, RunKeeps, Ends
    <3>7. ASSUME NEW b \in fill'.took, b <= fill'.last
          PROVE  b \in fill'.failed \cup fill'.retry \cup settled'
      <4>1. CASE b = First
        BY <4>1 DEF Ends
      <4>2. CASE b # First
        <5>1. b \in fill.took /\ b \in Nat /\ b <= First
          BY <1>8, <3>2, <3>7 DEF Ends
        <5>2. b \notin fill.rest
          BY <1>2, <3>1, <4>2, <5>1
        <5>3. b <= fill.last
          BY <1>3, <5>1, <5>2 DEF FillInv, RunKeeps
        <5> QED BY <4>2, <5>1, <5>3 DEF FillInv, RunKeeps, Ends
      <4> QED BY <4>1, <4>2
    <3> QED BY <3>3, <3>4, <3>5, <3>6, <3>7 DEF RunKeeps
  <2> QED BY <2>1, <2>2
<1> QED
  BY <1>5, <1>6, <1>7, <1>9 DEF FillInv

\* A run takes what lay above the checkpoint's last bill and is listed, and what failed.
LEMMA FillStartsStep ==
    ASSUME FillInv, FillStarts
    PROVE  FillInv'
<1>1. PICK restart \in BOOLEAN :
        LET from == IF restart THEN NoCheckpoint ELSE cp IN
        /\ cp' = from \/ (restart /\ cp' = cp)
        /\ fill' = [NoFill EXCEPT !.pc = "bills", !.last = from.last, !.retry = from.failed,
                      !.rest = {b \in ListedBills : b > from.last /\ b \notin from.failed},
                      !.took = from.took \cup {b \in ListedBills : b > from.last}]
  BY DEF FillStarts
<1> DEFINE from == IF restart THEN NoCheckpoint ELSE cp
<1>2. /\ UNCHANGED <<arch, now, at, settled>> /\ fill.pc = "off"
  BY DEF FillStarts
<1>3. ListedBills' = ListedBills /\ ListedBills \subseteq Bills /\ Bills \subseteq Nat
  BY <1>2, ArchiveAssumption DEF ListedBills, Listed, Bills
<1>4. /\ DOMAIN from = CheckpointFields /\ from.last \in Nat /\ from.failed \subseteq Bills
      /\ from.took \subseteq ListedBills /\ \A b \in from.failed : b <= from.last
      /\ \A b \in from.took : b <= from.last => b \in from.failed \cup settled
  BY DEF FillInv, Shapes, CheckpointKeeps, NoCheckpoint, CheckpointFields
<1>5. cp' \in {from, cp}
  BY <1>1
<1> HIDE DEF from
<1>6. /\ DOMAIN fill' = FillFields /\ fill'.last = from.last /\ fill'.retry = from.failed
      /\ fill'.failed = {}
      /\ fill'.rest = {b \in ListedBills : b > from.last /\ b \notin from.failed}
      /\ fill'.took = from.took \cup {b \in ListedBills : b > from.last}
  BY <1>1 DEF from, NoFill, FillFields
<1>7. CallShape'
  BY <1>2 DEF FillInv, Shapes, CallShape
<1>8. Shapes'
  BY <1>2, <1>3, <1>4, <1>5, <1>6, <1>7 DEF FillInv, Shapes
<1>9. RunKeeps'
  <2>1. ListedBills \subseteq Nat /\ from.last \in Nat
    BY <1>3, <1>4
  <2>2. fill'.took \subseteq ListedBills' /\ \A b \in fill'.rest : b > fill'.last
    BY <1>3, <1>4, <1>6
  <2>3. \A b \in fill'.failed \cup fill'.retry : b <= fill'.last
    BY <1>4, <1>6
  <2>4. \A b \in fill'.took : b > fill'.last => b \in fill'.rest
    <3> SUFFICES ASSUME NEW b \in fill'.took, b > from.last PROVE b \in fill'.rest
      BY <1>6
    <3>1. b \in ListedBills /\ b \in Nat
      BY <1>4, <1>6, <2>1
    <3>2. b \notin from.failed
      BY <1>4, <2>1, <3>1
    <3> QED BY <1>6, <3>1, <3>2
  <2>5. \A b \in fill'.took : b <= fill'.last => b \in fill'.failed \cup fill'.retry \cup settled'
    <3> SUFFICES ASSUME NEW b \in fill'.took, b <= from.last PROVE b \in from.failed \cup settled
      BY <1>2, <1>6
    <3>1. b \in from.took \/ b \in {c \in ListedBills : c > from.last}
      BY <1>6
    <3>2. b \notin {c \in ListedBills : c > from.last}
      <4> SUFFICES ASSUME b \in ListedBills, b > from.last PROVE FALSE
        OBVIOUS
      <4>1. b \in Nat /\ from.last \in Nat
        BY <2>1
      <4> QED BY <4>1
    <3>3. b \in from.took
      BY <3>1, <3>2
    <3> QED BY <1>4, <3>3
  <2> QED BY <2>2, <2>3, <2>4, <2>5 DEF RunKeeps
<1>10. CheckpointKeeps'
  BY <1>2, <1>3, <1>4, <1>5 DEF FillInv, CheckpointKeeps
<1>11. InTurn'
  BY <1>2 DEF FillInv, InTurn
<1> QED
  BY <1>8, <1>9, <1>10, <1>11 DEF FillInv

LEMMA SaveStep ==
    ASSUME FillInv, Save
    PROVE  FillInv'
<1>1. UNCHANGED <<arch, now, at, settled>> /\ at["fill"].pc = "off"
  BY DEF Save, FillInv, InTurn
<1>2. \E done : cp' = Checkpoint(done) \/ cp' = cp
  BY DEF Save
<1>3. fill' = [fill EXCEPT !.pc = "bills"] \/ fill' = NoFill
  BY DEF Save
<1>4. ListedBills' = ListedBills
  BY <1>1 DEF ListedBills, Listed
<1>5. /\ DOMAIN cp' = CheckpointFields /\ cp'.last \in Nat /\ cp'.failed \subseteq Bills
      /\ CheckpointKeeps'
  <2>1. CASE cp' = cp
    BY <1>1, <1>4, <2>1 DEF FillInv, Shapes, CheckpointKeeps
  <2>2. CASE \E done : cp' = Checkpoint(done)
    <3>1. /\ DOMAIN cp' = CheckpointFields /\ cp'.last = fill.last
          /\ cp'.failed = fill.failed \cup fill.retry /\ cp'.took = fill.took
      BY <2>2 DEF Checkpoint, CheckpointFields
    <3> QED BY <1>1, <1>4, <3>1 DEF FillInv, Shapes, RunKeeps, CheckpointKeeps
  <2> QED BY <1>2, <2>1, <2>2
<1>6. Shapes'
  BY <1>1, <1>3, <1>5 DEF FillInv, Shapes, CallShape, NoFill, FillFields
<1>7. RunKeeps'
  BY <1>1, <1>3, <1>4 DEF FillInv, Shapes, RunKeeps, NoFill, FillFields
<1>8. InTurn'
  BY <1>1 DEF InTurn
<1> QED
  BY <1>5, <1>6, <1>7, <1>8 DEF FillInv

LEMMA DiesStep ==
    ASSUME FillInv, Dies
    PROVE  FillInv'
<1>1. /\ UNCHANGED <<arch, now, cp, settled>> /\ fill' = NoFill
      /\ at' = [w \in Writers |-> Off]
  BY DEF Dies
<1>2. CallShape' /\ InTurn'
  BY <1>1 DEF CallShape, InTurn, Writers, Off
<1>3. ListedBills' = ListedBills
  BY <1>1 DEF ListedBills, Listed
<1> QED
  BY <1>1, <1>2, <1>3 DEF FillInv, Shapes, RunKeeps, CheckpointKeeps, NoFill, FillFields

LEMMA FillInvStep ==
    ASSUME FillInv, [Next]_vars
    PROVE  FillInv'
<1>1. ASSUME UNCHANGED fillVars, CallShape', at'["fill"] = at["fill"]
      PROVE  FillInv'
  <2>1. InTurn'
    BY <1>1 DEF FillInv, InTurn, Turn, fillVars
  <2> QED BY <1>1, <2>1, QuietStep
<1>2. ASSUME UNCHANGED <<fillVars, at>>
      PROVE  FillInv'
  BY <1>1, <1>2 DEF FillInv, Shapes, CallShape
<1>3. CASE Embed("hook")
  BY <1>1, <1>3, HookSteps DEF FillInv, Shapes
<1>4. CASE Embed("fill")
  <2>1. CallShape' /\ (Moves \/ Fetches \/ Ends)
    BY <1>4, FillSteps DEF FillInv, Shapes
  <2>2. CASE Moves
    <3>1. InTurn'
      BY <2>2 DEF Moves, FillInv, InTurn, Turn, fillVars
    <3> QED BY <2>1, <2>2, <3>1, QuietStep DEF Moves
  <2>3. CASE Fetches
    <3>1. InTurn'
      BY <2>3 DEF Fetches, First, InTurn, Turn, fillVars
    <3> QED BY <2>1, <2>3, <3>1, QuietStep DEF Fetches
  <2>4. CASE Ends
    BY <2>1, <2>4, EndsStep
  <2> QED BY <2>1, <2>2, <2>3, <2>4
<1>5. CASE FillStarts \/ Save \/ Dies
  BY <1>5, FillStartsStep, SaveStep, DiesStep
<1>6. CASE UNCHANGED vars
  BY <1>2, <1>6 DEF vars
<1>7. CASE \E d \in Docs : Archived(d) \/ Dropped(d)
  BY <1>2, <1>7 DEF Archived, Dropped
<1>8. CASE Hook \/ DebounceExpires \/ ArchiveFails \/ WatermarkExpires
  BY <1>2, <1>8 DEF Hook, ArchiveStarts, ArchiveSucceeds, TriggerLegbot, RefreshSearch, ListLedger,
     ReadWatermark, ListTouched, PassEnds, ReconcileEnds, DebounceExpires, ArchiveFails, WatermarkExpires
<1> QED
  BY <1>3, <1>4, <1>5, <1>6, <1>7, <1>8 DEF Next, Writers

LEMMA InitFillInv == Init => FillInv
<1> SUFFICES ASSUME Init PROVE FillInv
  OBVIOUS
<1>1. Shapes
  BY DEF Init, Shapes, CallShape, NoFill, NoCheckpoint, Off, Writers, FillFields, CheckpointFields
<1>2. RunKeeps /\ CheckpointKeeps /\ InTurn
  BY DEF Init, RunKeeps, CheckpointKeeps, InTurn, NoFill, NoCheckpoint, Off, Writers
<1> QED BY <1>1, <1>2 DEF FillInv

-----------------------------------------------------------------------------
\* Every bill of the stage at or below the checkpoint's last bill has been embedded by a backfill or is
\* on the checkpoint's list of failed bills, however often saves and calls fail, runs abort and
\* processes die (backfill_stage, embed_bill).
THEOREM ArchiveForgetsNothing == Spec => []ForgetsNothing
<1>1. Init => FillInv
  BY InitFillInv
<1>2. FillInv /\ [Next]_vars => FillInv'
  BY FillInvStep
<1>3. FillInv => ForgetsNothing
  BY DEF FillInv, CheckpointKeeps, ForgetsNothing
<1> QED
  BY <1>1, <1>2, <1>3, PTL DEF Spec

-----------------------------------------------------------------------------
(* The watermark. *)

Row == [text : Nat, stamp : Nat]
Mark == [hash : Nat, stamp : Nat]
Call == [pc : {"off", "read", "docs", "ingest", "delete", "latest", "record"}, bill : {0} \cup Bills,
         src : [Docs -> Row], seen : [Docs -> Mark], had : BOOLEAN, ingest : SUBSET Docs, remove : SUBSET Docs,
         upd : SUBSET Docs, rem : SUBSET Docs, undone : BOOLEAN, latest : [Docs -> Mark]]
HookFields == {"pc", "start", "since", "todo", "ok", "gone"}

Types ==
    /\ arch \in [Docs -> Row] /\ vec \in [Docs -> Nat] /\ rec \in [Docs -> Mark]
    /\ now \in Nat /\ mark \in Nat /\ base \in Nat /\ collided \in BOOLEAN
    /\ DOMAIN hook = HookFields
    /\ hook.start \in Nat /\ hook.since \in Nat /\ hook.todo \subseteq Bills /\ hook.ok \in BOOLEAN
    /\ at \in [Writers -> Call]

\* The clock bounds what is stored; a run began after the watermark was set.
Times ==
    /\ \A d \in Docs : arch[d].text <= now /\ arch[d].stamp <= now /\ vec[d] <= now
    /\ \A w \in Writers, d \in Docs : at[w].src[d].text <= now
    /\ mark <= now + 1 /\ hook.start <= now + 1
    /\ hook.pc # "idle" => mark <= hook.start

\* The steps of a call against its lists, for either writer.
CallKeeps(e) ==
    /\ e.pc # "off" => e.bill \in Bills
    /\ e.pc = "ingest" => e.ingest # {}
    /\ e.pc = "delete" => e.remove # {}
    /\ e.pc \in {"latest", "record"} => e.ingest = {} /\ e.remove = {} /\ ~e.undone
    /\ e.pc \in {"off", "read"} => e.upd = {}
    /\ \A d \in e.ingest \cup e.upd : d \in Of(e.bill) /\ e.src[d].text # 0
    /\ \A d \in e.remove : d \in Of(e.bill) /\ e.src[d].text = 0
Calls ==
    /\ \A w \in Writers : CallKeeps(at[w])
    /\ at["hook"].pc # "off" => hook.pc \in {"bills", "unrecorded"}
    /\ at["fill"].remove = {}
    /\ hook.pc \in {"archiving", "legbot", "search", "ledger", "since"} => hook.since = 0

Good(d) == vec[d] = arch[d].text
InCall(w) == at[w].pc \notin {"off", "read"}

\* Where no two writers meet on a bill: nobody else touches the documents of a call.
Apart == at["hook"].pc # "off" /\ at["fill"].pc # "off" => at["hook"].bill # at["fill"].bill
WrittenStays ==
    \A w \in Writers :
        /\ \A d \in at[w].upd : vec[d] = at[w].src[d].text
        /\ at[w].pc = "record" => \A d \in Of(at[w].bill) : at[w].latest[d] \in {rec[d], Blank}
\* An entry with the hash of the present text vouches for the vectors.
RecordTrue ==
    /\ \A d \in Docs : rec[d].hash <= now
    /\ \A d \in Listed : rec[d].hash = arch[d].text => Good(d)
\* The hook sees the archive as it is; what the backfill sees differently is not in the index.
HookCurrent == at["hook"].pc # "off" => \A d \in Of(at["hook"].bill) : at["hook"].src[d] = arch[d]
FillStale ==
    at["fill"].pc # "off" =>
        \A d \in Of(at["fill"].bill) : d \in Listed /\ at["fill"].src[d].text # arch[d].text => ~Good(d)
\* The hook's view of the record holds, or coverage begins after what it could have missed.
HookSees ==
    InCall("hook") /\ hook.since # 0 /\ base < hook.start =>
        \A d \in Of(at["hook"].bill) : at["hook"].seen[d] = rec[d]
\* What the run in progress must leave in the index: before a bill's turn, and during it.
Covered(d, m) == d \in Listed /\ base <= arch[d].stamp /\ arch[d].stamp < m
HookCovers ==
    /\ hook.pc = "touched" => \A d \in Docs : Covered(d, hook.since) => Good(d)
    /\ hook.pc = "bills" /\ hook.since # 0 /\ hook.ok =>
         \A d \in Docs : Covered(d, hook.start) => Good(d) \/ BillOf[d] \in hook.todo
    /\ InCall("hook") /\ hook.since # 0 /\ ~at["hook"].undone =>
         \A d \in Of(at["hook"].bill) : Covered(d, hook.start) => Good(d) \/ d \in at["hook"].ingest

MarkKeeps == Apart /\ WrittenStays /\ RecordTrue /\ HookCurrent /\ FillStale /\ HookSees /\ HookCovers
             /\ \A d \in Docs : Covered(d, mark) => Good(d)
MarkInv == Types /\ Times /\ Calls /\ (collided \/ MarkKeeps)

-----------------------------------------------------------------------------
(* One call of embed_bill moves. *)

\* What a step must do to call w, which becomes e, for the invariant to survive.
Sound(w, e) ==
    /\ e \in Call /\ at' = [at EXCEPT ![w] = e] /\ e.pc # "off"
    /\ CallKeeps(e) /\ (w = "fill" => e.remove = {})
    /\ (w = "hook" => hook.pc \in {"bills", "unrecorded"})
    /\ \A d \in Docs : e.src[d].text <= now
    /\ UNCHANGED <<arch, now, rec, mark, hook>>
    /\ collided' \in BOOLEAN /\ (collided => collided')
    /\ base' = base \/ (w = "hook" /\ base' = hook.start)
    /\ vec' \in [Docs -> Nat] /\ \A d \in Docs : vec'[d] <= now

\* The same where no two writers have met on a bill.
SoundApart(w, e) ==
    /\ \A v \in Writers \ {w} : at[v].pc # "off" => at[v].bill # e.bill
    /\ \A d \in Docs \ Of(e.bill) : vec'[d] = vec[d]
    /\ \A d \in Listed : Good(d) => vec'[d] = arch[d].text
    /\ \A d \in e.upd : vec'[d] = e.src[d].text
    /\ e.pc = "record" => \A d \in Of(e.bill) : e.latest[d] \in {rec[d], Blank}
    /\ w = "fill" =>
         \A d \in Of(e.bill) : d \in Listed /\ e.src[d].text # arch[d].text => vec'[d] # arch[d].text
    /\ w = "hook" => \A d \in Of(e.bill) : e.src[d] = arch[d]
    /\ w = "hook" /\ e.pc # "read" /\ hook.since # 0 /\ base' < hook.start =>
         \A d \in Of(e.bill) : e.seen[d] = rec[d]
    /\ w = "hook" /\ e.pc # "read" /\ hook.since # 0 /\ ~e.undone =>
         \A d \in Of(e.bill) : d \in Listed /\ base' <= arch[d].stamp /\ arch[d].stamp < hook.start =>
                                 vec'[d] = arch[d].text \/ d \in e.ingest

LEMMA CallStep ==
    ASSUME MarkInv, NEW w \in Writers, NEW e, Sound(w, e), ~collided' => SoundApart(w, e)
    PROVE  MarkInv'
<1>1. /\ Types /\ Times /\ Calls /\ e \in Call /\ at \in [Writers -> Call]
      /\ at'[w] = e /\ \A v \in Writers \ {w} : at'[v] = at[v]
      /\ at' \in [Writers -> Call]
  BY DEF MarkInv, Types, Sound
<1>2. Types'
  BY <1>1 DEF Types, Sound
<1>3. Times'
  <2>1. \A v \in Writers, d \in Docs : at'[v].src[d].text <= now
    BY <1>1 DEF Sound, Times
  <2> QED BY <1>1, <2>1 DEF Sound, Times
<1>4. Calls'
  <2>1. \A v \in Writers : CallKeeps(at'[v])
    BY <1>1 DEF Sound, Calls
  <2>2. (\A v \in Writers : CallKeeps(at[v]))'
    BY <2>1 DEF CallKeeps, Of
  <2> QED BY <1>1, <2>2 DEF Sound, Calls, Writers
<1>5. ASSUME ~collided' PROVE MarkKeeps'
  <2>1. MarkKeeps /\ SoundApart(w, e)
    BY <1>5 DEF MarkInv, Sound
  <2>2. /\ UNCHANGED <<arch, now, rec, mark, hook>> /\ Listed' = Listed
        /\ e.pc # "off" /\ (w = "hook" => hook.pc \in {"bills", "unrecorded"})
        /\ base' = base \/ (w = "hook" /\ base' = hook.start)
    BY DEF Sound, Listed
  <2>3. \A d \in Listed : Good(d) => Good(d)'
    BY <2>1, <2>2 DEF SoundApart, Good
  <2>4. \A v \in Writers \ {w}, d \in Docs : at[v].pc # "off" /\ d \in Of(at[v].bill) => vec'[d] = vec[d]
    BY <2>1 DEF SoundApart, Of
  <2>5. Apart'
    BY <1>1, <2>1 DEF Apart, SoundApart, Writers
  <2>6. WrittenStays'
    <3> SUFFICES ASSUME NEW v \in Writers
                 PROVE  /\ \A d \in at'[v].upd : vec'[d] = at'[v].src[d].text
                        /\ at'[v].pc = "record" => \A d \in Of(at'[v].bill) : at'[v].latest[d] \in {rec'[d], Blank}
      BY DEF WrittenStays, Of, Blank
    <3>1. CASE v = w
      BY <1>1, <2>1, <2>2, <3>1 DEF SoundApart
    <3>2. CASE v # w
      <4>1. at'[v] = at[v] /\ CallKeeps(at[v])
        BY <1>1, <3>2 DEF Calls
      <4>2. \A d \in at[v].upd : at[v].pc # "off" /\ d \in Of(at[v].bill) /\ d \in Docs
        BY <4>1 DEF CallKeeps, Of
      <4> QED BY <2>1, <2>2, <2>4, <3>2, <4>1, <4>2 DEF WrittenStays, MarkKeeps
    <3> QED BY <3>1, <3>2
  <2>7. RecordTrue'
    BY <2>1, <2>2, <2>3 DEF MarkKeeps, RecordTrue
  <2>8. HookCurrent'
    BY <1>1, <2>1, <2>2 DEF MarkKeeps, HookCurrent, SoundApart, Of, Writers
  <2>9. FillStale'
    <3>1. CASE w = "fill"
      BY <1>1, <2>1, <2>2, <3>1 DEF FillStale, SoundApart, Of, Good
    <3>2. CASE w = "hook"
      BY <1>1, <2>1, <2>2, <2>4, <3>2 DEF MarkKeeps, FillStale, Of, Good, Writers
    <3> QED BY <3>1, <3>2 DEF Writers
  <2>10. HookSees'
    <3>1. CASE w = "hook"
      BY <1>1, <2>1, <2>2, <3>1 DEF HookSees, SoundApart, Of, InCall
    <3>2. CASE w = "fill"
      BY <1>1, <2>1, <2>2, <3>2 DEF MarkKeeps, HookSees, Of, InCall, Writers
    <3> QED BY <3>1, <3>2 DEF Writers
  <2>11. HookCovers' /\ \A d \in Docs : Covered(d, mark)' => Good(d)'
    <3>1. CASE base' = base
      <4>1. \A d \in Docs, m \in {hook.start, hook.since, mark} : Covered(d, m)' => Covered(d, m) /\ d \in Listed
        BY <2>2, <3>1 DEF Covered
      <4>2. CASE w = "hook"
        BY <1>1, <2>1, <2>2, <2>3, <3>1, <4>1, <4>2
        DEF MarkKeeps, HookCovers, SoundApart, InCall, Of, Covered, Good
      <4>3. CASE w = "fill"
        BY <1>1, <2>1, <2>2, <2>3, <4>1, <4>3 DEF MarkKeeps, HookCovers, InCall, Of, Covered, Writers
      <4> QED BY <4>2, <4>3 DEF Writers
    <3>2. CASE w = "hook" /\ base' = hook.start
      <4>1. mark <= hook.start /\ mark \in Nat /\ hook.start \in Nat /\ \A d \in Docs : arch[d].stamp \in Nat
        BY <1>1, <2>2, <3>2 DEF Times, Types, Row
      <4>2. \A d \in Docs : ~Covered(d, hook.start)' /\ ~Covered(d, mark)'
        BY <2>2, <3>2, <4>1 DEF Covered
      <4> QED BY <1>1, <2>2, <3>2, <4>2 DEF HookCovers, Of
    <3> QED BY <2>2, <3>1, <3>2
  <2> QED BY <2>5, <2>6, <2>7, <2>8, <2>9, <2>10, <2>11 DEF MarkKeeps
<1> QED
  BY <1>2, <1>3, <1>4, <1>5 DEF MarkInv, Types

\* A call that was under way goes on with its bill and what it has fetched.
GoesOn(w, e) ==
    /\ at[w].pc # "off" /\ e \in Call /\ e.pc # "off"
    /\ e.bill = at[w].bill /\ e.src = at[w].src /\ at' = [at EXCEPT ![w] = e]
    /\ CallKeeps(e) /\ (w = "fill" => e.remove = {})
    /\ UNCHANGED <<arch, now, rec, mark, hook, collided>>
    /\ base' = base \/ (w = "hook" /\ base' = hook.start)
    /\ vec' \in [Docs -> Nat] /\ \A d \in Docs : vec'[d] <= now
LEMMA MoveStep ==
    ASSUME MarkInv, NEW w \in Writers, NEW e, GoesOn(w, e)
    PROVE  /\ Sound(w, e)
           /\ ~collided' =>
                /\ \A v \in Writers \ {w} : at[v].pc # "off" => at[v].bill # e.bill
                /\ w = "hook" => \A d \in Of(e.bill) : e.src[d] = arch[d]
<1>1. /\ w = "hook" => hook.pc \in {"bills", "unrecorded"}
      /\ \A d \in Docs : e.src[d].text <= now
      /\ collided \in BOOLEAN
  BY DEF MarkInv, Types, Times, Calls, GoesOn
<1>2. ~collided' => /\ \A v \in Writers \ {w} : at[v].pc # "off" => at[v].bill # e.bill
                    /\ w = "hook" => \A d \in Of(e.bill) : e.src[d] = arch[d]
  BY DEF MarkInv, MarkKeeps, Apart, HookCurrent, Writers, GoesOn
<1> QED
  BY <1>1, <1>2 DEF Sound, GoesOn

LEMMA FirstDoc ==
    ASSUME NEW S, S \subseteq Docs, S # {}
    PROVE  Min(S) \in S /\ Min(S) \in Docs
BY LeastOfNats, ArchiveAssumption

LEMMA ReadRecordStep ==
    ASSUME MarkInv, NEW w \in Writers, ReadRecord(w)
    PROVE  MarkInv'
<1> DEFINE e == at[w]
<1>1. /\ Types /\ Times /\ Calls /\ e \in Call /\ e.pc = "read" /\ CallKeeps(e)
  BY DEF MarkInv, Types, Calls, ReadRecord
<1>2. PICK readable \in BOOLEAN :
        LET seen == [d \in Docs |-> IF readable /\ d \in Of(e.bill) THEN rec[d] ELSE Blank] IN
        /\ base' = IF w = "hook" /\ hook.since # 0 /\ ~readable THEN hook.start ELSE base
        /\ \E gone \in Orphans(w, e, seen) :
             at' = [at EXCEPT ![w] = [e EXCEPT !.pc = "docs", !.seen = seen, !.had = readable /\ e.bill \in known,
                                               !.ingest = Outdated(w, e, seen), !.remove = gone]]
  BY DEF ReadRecord
<1> DEFINE seen == [d \in Docs |-> IF readable /\ d \in Of(e.bill) THEN rec[d] ELSE Blank]
<1>3. PICK gone \in Orphans(w, e, seen) :
        at' = [at EXCEPT ![w] = [e EXCEPT !.pc = "docs", !.seen = seen, !.had = readable /\ e.bill \in known,
                                          !.ingest = Outdated(w, e, seen), !.remove = gone]]
  BY <1>2
<1> DEFINE n == [e EXCEPT !.pc = "docs", !.seen = seen, !.had = readable /\ e.bill \in known,
                          !.ingest = Outdated(w, e, seen), !.remove = gone]
<1>4. seen \in [Docs -> Mark]
  BY <1>1 DEF Types, Blank, Mark
<1>5. gone \subseteq Of(e.bill) \ Given(e) /\ (w = "fill" => gone = {})
  BY DEF Orphans, Slices, kSubset
<1>6. Outdated(w, e, seen) \subseteq Given(e) /\ Given(e) \subseteq Docs /\ Of(e.bill) \subseteq Docs
  BY DEF Outdated, Wanted, Given, Of
<1>7. /\ n \in Call /\ n.pc = "docs" /\ n.bill = e.bill /\ n.src = e.src /\ n.seen = seen /\ n.upd = {}
      /\ n.ingest = Outdated(w, e, seen) /\ n.remove = gone /\ n.undone = e.undone
  BY <1>1, <1>4, <1>5, <1>6 DEF Call, CallKeeps
<1>8. CallKeeps(n)
  BY <1>1, <1>5, <1>6, <1>7 DEF CallKeeps, Given, Of
<1>9. /\ UNCHANGED <<arch, now, vec, rec, mark, hook, collided>> /\ at' = [at EXCEPT ![w] = n]
      /\ base' = base \/ (w = "hook" /\ base' = hook.start)
      /\ (w = "hook" /\ hook.since # 0 /\ ~readable) => base' = hook.start
  <2>1. UNCHANGED <<arch, now, vec, rec, mark, hook, collided>>
    BY DEF ReadRecord, recVars
  <2>2. at' = [at EXCEPT ![w] = n]
    BY <1>3
  <2>3. base' = IF w = "hook" /\ hook.since # 0 /\ ~readable THEN hook.start ELSE base
    BY <1>2
  <2> QED BY <2>1, <2>2, <2>3
<1> HIDE DEF n, seen
<1>10. vec' \in [Docs -> Nat] /\ (\A d \in Docs : vec'[d] <= now) /\ (w = "fill" => n.remove = {})
  BY <1>1, <1>5, <1>7, <1>9 DEF Types, Times
<1>11. /\ Sound(w, n)
       /\ ~collided' => /\ \A v \in Writers \ {w} : at[v].pc # "off" => at[v].bill # n.bill
                        /\ w = "hook" => \A d \in Of(n.bill) : n.src[d] = arch[d]
  <2>1. GoesOn(w, n)
    BY <1>1, <1>7, <1>8, <1>9, <1>10 DEF GoesOn
  <2> QED BY <2>1, MoveStep
<1>12. ASSUME ~collided' PROVE SoundApart(w, n)
  <2>1. MarkKeeps
    BY <1>9, <1>12 DEF MarkInv
  <2>2. w = "hook" /\ readable => \A d \in Of(n.bill) : n.seen[d] = rec[d]
    BY <1>7 DEF seen, Of
  <2>3. hook.start \in Nat
    BY <1>1 DEF Types
  <2>4. w = "hook" /\ hook.since # 0 /\ base' < hook.start => readable
    BY <1>2, <1>9, <2>3
  <2>5. ASSUME w = "hook", hook.since # 0, NEW d \in Of(n.bill), d \in Listed,
               base' <= arch[d].stamp, arch[d].stamp < hook.start
        PROVE  vec'[d] = arch[d].text \/ d \in n.ingest
    <3>1. d \in Docs /\ n.src[d] = arch[d] /\ d \in Given(e)
      BY <1>7, <1>11, <1>12, <2>5 DEF Given, Of, Listed
    <3>2. arch[d].stamp \in Nat /\ base' \in Nat
      BY <1>1, <1>9, <2>3, <3>1 DEF Types, Row
    <3>3. readable /\ n.seen[d] = rec[d]
      BY <2>2, <2>3, <2>4, <2>5, <3>2
    <3>4. CASE rec[d].hash = arch[d].text
      BY <1>9, <2>1, <2>5, <3>1, <3>4 DEF MarkKeeps, RecordTrue, Good
    <3>5. CASE rec[d].hash # arch[d].text
      BY <1>7, <2>5, <3>1, <3>3, <3>5 DEF Outdated, Wanted
    <3> QED BY <3>4, <3>5
  <2>6. w = "fill" => \A d \in Of(n.bill) : d \in Listed /\ n.src[d].text # arch[d].text => vec'[d] # arch[d].text
    BY <1>1, <1>7, <1>9, <2>1 DEF MarkKeeps, FillStale, Good
  <2> QED
    BY <1>7, <1>9, <1>11, <1>12, <2>2, <2>4, <2>5, <2>6 DEF SoundApart, Good
<1> QED
  BY <1>11, <1>12, CallStep

\* A document leaves one of the lists, or its turn comes; the index is left alone.
Passes(w, n) ==
    /\ at[w].pc \in {"docs", "latest"} /\ n \in Call /\ n.pc \in {"docs", "ingest", "delete", "latest", "record"}
    /\ at' = [at EXCEPT ![w] = n]
    /\ n.bill = at[w].bill /\ n.src = at[w].src /\ n.seen = at[w].seen /\ n.upd = at[w].upd
    /\ n.remove \subseteq at[w].remove /\ n.ingest \subseteq at[w].ingest /\ CallKeeps(n)
    /\ UNCHANGED <<arch, now, vec, rec, mark, base, hook, collided>>
    /\ n.pc = "record" => \A d \in Of(n.bill) : n.latest[d] \in {rec[d], Blank}
    /\ at[w].undone => n.undone
    /\ \/ n.undone \/ n.ingest = at[w].ingest
       \/ \E d \in Docs : n.ingest = at[w].ingest \ {d} /\ d \in Of(n.bill) /\ rec[d] # at[w].seen[d]
LEMMA ListStep ==
    ASSUME MarkInv, NEW w \in Writers, NEW n, Passes(w, n)
    PROVE  MarkInv'
<1> DEFINE e == at[w]
<1>1. /\ Types /\ Times /\ Calls /\ e \in Call /\ e.pc # "off" /\ CallKeeps(e) /\ n.pc # "off" /\ n.pc # "read"
  BY DEF MarkInv, Types, Calls, Passes
<1>2. vec' \in [Docs -> Nat] /\ (\A d \in Docs : vec'[d] <= now) /\ (w = "fill" => n.remove = {})
  BY <1>1 DEF Types, Times, Calls, Passes, Writers
<1>3. /\ Sound(w, n)
      /\ ~collided' => /\ \A v \in Writers \ {w} : at[v].pc # "off" => at[v].bill # n.bill
                       /\ w = "hook" => \A d \in Of(n.bill) : n.src[d] = arch[d]
  <2>1. GoesOn(w, n)
    BY <1>1, <1>2 DEF GoesOn, Passes
  <2> QED BY <2>1, MoveStep
<1>4. ASSUME ~collided' PROVE SoundApart(w, n)
  <2>1. MarkKeeps
    BY <1>4 DEF MarkInv, Passes
  <2>2. \A d \in n.upd : vec'[d] = n.src[d].text
    BY <2>1 DEF MarkKeeps, WrittenStays, Passes
  <2>3. w = "fill" => \A d \in Of(n.bill) : d \in Listed /\ n.src[d].text # arch[d].text => vec'[d] # arch[d].text
    BY <1>1, <2>1 DEF MarkKeeps, FillStale, Good, Passes
  <2>4. w = "hook" /\ hook.since # 0 /\ base' < hook.start => \A d \in Of(n.bill) : n.seen[d] = rec[d]
    BY <1>1, <2>1 DEF MarkKeeps, HookSees, InCall, Passes
  <2>5. ASSUME w = "hook", hook.since # 0, ~n.undone, NEW d \in Of(n.bill), d \in Listed,
               base' <= arch[d].stamp, arch[d].stamp < hook.start
        PROVE  vec'[d] = arch[d].text \/ d \in n.ingest
    <3>1. d \in Docs /\ ~e.undone
      BY <1>1, <2>5 DEF Of, Call, Passes
    <3>2. Good(d) \/ d \in e.ingest
      BY <1>1, <2>1, <2>5, <3>1 DEF MarkKeeps, HookCovers, InCall, Covered, Passes
    <3>3. base' < hook.start
      BY <1>1, <2>5, <3>1 DEF Types, Row, Passes
    <3>4. n.ingest = e.ingest
      BY <2>4, <2>5, <3>3 DEF Passes
    <3> QED BY <3>2, <3>4 DEF Good, Passes
  <2> QED
    BY <1>1, <1>3, <1>4, <2>2, <2>3, <2>4, <2>5 DEF SoundApart, Good, Passes
<1> QED
  BY <1>3, <1>4, CallStep

LEMMA CheckStep ==
    ASSUME MarkInv, NEW w \in Writers, Check(w)
    PROVE  MarkInv'
<1> DEFINE e == at[w]
           d == Min(e.ingest)
           skip == [e EXCEPT !.ingest = @ \ {d}]
           undo == [e EXCEPT !.ingest = @ \ {d}, !.undone = TRUE]
           go == [e EXCEPT !.pc = "ingest"]
<1>1. /\ e \in Call /\ CallKeeps(e) /\ e.pc = "docs" /\ e.ingest # {} /\ rec \in [Docs -> Mark]
  BY DEF MarkInv, Types, Calls, Check
<1>2. d \in e.ingest /\ d \in Docs /\ d \in Of(e.bill)
  BY <1>1, FirstDoc DEF Call, CallKeeps
<1>3. UNCHANGED <<arch, now, vec, rec, mark, base, hook, collided>>
  BY DEF Check, recVars, markVars
<1>4. \/ at' = [at EXCEPT ![w] = skip] /\ rec[d].hash # e.seen[d].hash
      \/ at' = [at EXCEPT ![w] = undo]
      \/ at' = [at EXCEPT ![w] = go]
  BY DEF Check
<1> HIDE DEF d
<1>5. CASE at' = [at EXCEPT ![w] = skip] /\ rec[d].hash # e.seen[d].hash
  <2>1. Passes(w, skip)
    BY <1>1, <1>2, <1>3, <1>5 DEF Passes, Call, CallKeeps
  <2> QED BY <2>1, ListStep
<1>6. CASE at' = [at EXCEPT ![w] = undo]
  <2>1. Passes(w, undo)
    BY <1>1, <1>2, <1>3, <1>6 DEF Passes, Call, CallKeeps
  <2> QED BY <2>1, ListStep
<1>7. CASE at' = [at EXCEPT ![w] = go]
  <2>1. Passes(w, go)
    BY <1>1, <1>2, <1>3, <1>7 DEF Passes, Call, CallKeeps
  <2> QED BY <2>1, ListStep
<1> QED BY <1>4, <1>5, <1>6, <1>7

LEMMA CheckOrphanStep ==
    ASSUME MarkInv, NEW w \in Writers, CheckOrphan(w)
    PROVE  MarkInv'
<1> DEFINE e == at[w]
           d == Min(e.remove)
           skip == [e EXCEPT !.remove = @ \ {d}]
           undo == [e EXCEPT !.remove = @ \ {d}, !.undone = TRUE]
           go == [e EXCEPT !.pc = "delete"]
<1>1. /\ e \in Call /\ CallKeeps(e) /\ e.pc = "docs" /\ e.remove # {}
  BY DEF MarkInv, Types, Calls, CheckOrphan
<1>2. UNCHANGED <<arch, now, vec, rec, mark, base, hook, collided>>
  BY DEF CheckOrphan, recVars, markVars
<1>3. \E n \in {skip, undo, go} : at' = [at EXCEPT ![w] = n]
  BY DEF CheckOrphan
<1> HIDE DEF d
<1>4. \A n \in {skip, undo, go} : at' = [at EXCEPT ![w] = n] => Passes(w, n)
  <2>1. at' = [at EXCEPT ![w] = skip] => Passes(w, skip)
    BY <1>1, <1>2 DEF Passes, Call, CallKeeps
  <2>2. at' = [at EXCEPT ![w] = undo] => Passes(w, undo)
    BY <1>1, <1>2 DEF Passes, Call, CallKeeps
  <2>3. at' = [at EXCEPT ![w] = go] => Passes(w, go)
    BY <1>1, <1>2 DEF Passes, Call, CallKeeps
  <2> QED BY <2>1, <2>2, <2>3
<1> QED BY <1>3, <1>4, ListStep

\* The vectors of one document change, to the text this call has fetched.
LEMMA IngestStep ==
    ASSUME MarkInv, NEW w \in Writers, Ingest(w)
    PROVE  MarkInv'
<1> DEFINE e == at[w]
           d == Min(e.ingest)
           next == [e EXCEPT !.pc = "docs", !.ingest = @ \ {d}]
           done == [next EXCEPT !.upd = @ \cup {d}]
           undo == [next EXCEPT !.undone = TRUE]
<1>1. /\ Types /\ Times /\ Calls /\ e \in Call /\ CallKeeps(e) /\ e.pc = "ingest" /\ e.ingest # {}
  BY DEF MarkInv, Types, Calls, CallKeeps, Ingest
<1>2. d \in e.ingest /\ d \in Docs /\ d \in Of(e.bill) /\ e.src[d].text # 0 /\ e.src[d].text \in Nat
  BY <1>1, FirstDoc DEF Call, CallKeeps, Row
<1>3. UNCHANGED <<arch, now, rec, mark, base, hook, collided>>
  BY DEF Ingest, recVars, markVars
<1>4. \/ at' = [at EXCEPT ![w] = done] /\ vec' = [vec EXCEPT ![d] = e.src[d].text]
      \/ at' = [at EXCEPT ![w] = undo] /\ \E left \in {vec[d], e.src[d].text} : vec' = [vec EXCEPT ![d] = left]
  BY DEF Ingest
<1> DEFINE Outcome(n) ==
             /\ n \in Call /\ at' = [at EXCEPT ![w] = n]
             /\ n.pc = "docs" /\ n.bill = e.bill /\ n.src = e.src /\ n.seen = e.seen
             /\ n.ingest = e.ingest \ {d} /\ n.remove = e.remove
             /\ \/ n.undone /\ n.upd = e.upd
                \/ n.undone = e.undone /\ n.upd = e.upd \cup {d} /\ vec'[d] = e.src[d].text
<1> HIDE DEF d
<1>5. \E n : Outcome(n)
  <2>1. CASE at' = [at EXCEPT ![w] = done] /\ vec' = [vec EXCEPT ![d] = e.src[d].text]
    <3>1. vec'[d] = e.src[d].text
      BY <1>1, <1>2, <2>1 DEF Types
    <3>2. /\ done \in Call /\ done.pc = "docs" /\ done.bill = e.bill /\ done.src = e.src /\ done.seen = e.seen
          /\ done.ingest = e.ingest \ {d} /\ done.remove = e.remove
          /\ done.undone = e.undone /\ done.upd = e.upd \cup {d}
      BY <1>1, <1>2 DEF Call
    <3> HIDE DEF done
    <3>3. Outcome(done)
      BY <2>1, <3>1, <3>2
    <3> QED BY <3>3
  <2>2. CASE at' = [at EXCEPT ![w] = undo]
    <3>1. /\ undo \in Call /\ undo.pc = "docs" /\ undo.bill = e.bill /\ undo.src = e.src /\ undo.seen = e.seen
          /\ undo.ingest = e.ingest \ {d} /\ undo.remove = e.remove /\ undo.undone /\ undo.upd = e.upd
      BY <1>1, <1>2 DEF Call
    <3> HIDE DEF undo
    <3>2. Outcome(undo)
      BY <2>2, <3>1
    <3> QED BY <3>2
  <2> QED BY <1>4, <2>1, <2>2
<1>6. PICK n : Outcome(n)
  BY <1>5
<1> HIDE DEF next, done, undo
<1>7. vec' \in [Docs -> Nat] /\ (\A c \in Docs : vec'[c] <= now) /\ (\A c \in Docs \ {d} : vec'[c] = vec[c])
      /\ vec'[d] \in {vec[d], e.src[d].text}
  BY <1>1, <1>2, <1>4 DEF Types, Times
<1>8. CallKeeps(n) /\ (w = "fill" => n.remove = {})
  BY <1>1, <1>2, <1>6 DEF CallKeeps, Calls
<1>9. /\ Sound(w, n)
      /\ ~collided' => /\ \A v \in Writers \ {w} : at[v].pc # "off" => at[v].bill # n.bill
                       /\ w = "hook" => \A c \in Of(n.bill) : n.src[c] = arch[c]
  <2>1. GoesOn(w, n)
    BY <1>1, <1>3, <1>6, <1>7, <1>8 DEF GoesOn
  <2> QED BY <2>1, MoveStep
<1>10. ASSUME ~collided' PROVE SoundApart(w, n)
  <2>1. MarkKeeps
    BY <1>3, <1>10 DEF MarkInv
  <2>2. \A c \in Docs \ Of(n.bill) : vec'[c] = vec[c]
    BY <1>2, <1>6, <1>7
  <2>3. \A c \in n.upd : vec'[c] = n.src[c].text
    <3>1. \A c \in e.upd : vec[c] = e.src[c].text /\ c \in Docs
      BY <1>1, <2>1 DEF MarkKeeps, WrittenStays, Call
    <3>2. d \in n.upd \ e.upd => vec'[d] = e.src[d].text
      BY <1>6
    <3> QED BY <1>6, <1>7, <3>1, <3>2
  <2>4. w = "fill" => \A c \in Of(n.bill) : c \in Listed /\ n.src[c].text # arch[c].text => vec'[c] # arch[c].text
    BY <1>1, <1>6, <1>7, <2>1 DEF MarkKeeps, FillStale, Good, Of
  <2>5. ASSUME NEW c \in Listed, Good(c) PROVE vec'[c] = arch[c].text
    <3>1. CASE c # d
      BY <1>7, <2>5, <3>1 DEF Good, Listed
    <3>2. CASE c = d
      <4>1. vec[d] = arch[d].text
        BY <2>5, <3>2 DEF Good
      <4>2. CASE w = "hook"
        BY <1>2, <1>6, <1>7, <1>9, <1>10, <3>2, <4>1, <4>2
      <4>3. CASE w = "fill"
        BY <1>2, <1>6, <1>7, <2>4, <2>5, <3>2, <4>1, <4>3, <1>1, <2>1 DEF MarkKeeps, FillStale, Good
      <4> QED BY <4>2, <4>3 DEF Writers
    <3> QED BY <3>1, <3>2
  <2>6. w = "hook" /\ hook.since # 0 /\ base' < hook.start => \A c \in Of(n.bill) : n.seen[c] = rec[c]
    BY <1>1, <1>3, <1>6, <2>1 DEF MarkKeeps, HookSees, InCall
  <2>7. ASSUME w = "hook", hook.since # 0, ~n.undone, NEW c \in Of(n.bill), c \in Listed,
               base' <= arch[c].stamp, arch[c].stamp < hook.start
        PROVE  vec'[c] = arch[c].text \/ c \in n.ingest
    <3>1. vec'[d] = e.src[d].text /\ ~e.undone
      BY <1>6, <2>7
    <3>2. Good(c) \/ c \in e.ingest
      BY <1>1, <1>3, <1>6, <2>1, <2>7, <3>1 DEF MarkKeeps, HookCovers, InCall, Covered, Of
    <3>3. CASE c = d
      BY <1>6, <1>9, <1>10, <2>7, <3>1, <3>3
    <3>4. CASE c # d
      BY <1>6, <2>5, <2>7, <3>2, <3>4
    <3> QED BY <3>3, <3>4
  <2> QED
    BY <1>6, <1>9, <1>10, <2>2, <2>3, <2>4, <2>5, <2>6, <2>7 DEF SoundApart
<1> QED
  BY <1>9, <1>10, CallStep

\* Only vectors of documents that are not listed are removed.
LEMMA DeleteOrphanStep ==
    ASSUME MarkInv, NEW w \in Writers, DeleteOrphan(w)
    PROVE  MarkInv'
<1> DEFINE e == at[w]
           d == Min(e.remove)
           next == [e EXCEPT !.pc = "docs", !.remove = @ \ {d}]
           done == [next EXCEPT !.rem = @ \cup {d}]
           undo == [next EXCEPT !.undone = TRUE]
<1>1. /\ Types /\ Times /\ Calls /\ e \in Call /\ CallKeeps(e) /\ e.pc = "delete" /\ e.remove # {}
  BY DEF MarkInv, Types, Calls, CallKeeps, DeleteOrphan
<1>2. d \in e.remove /\ d \in Docs /\ d \in Of(e.bill) /\ e.src[d].text = 0 /\ w = "hook"
  BY <1>1, FirstDoc DEF Call, CallKeeps, Calls, Writers
<1>3. UNCHANGED <<arch, now, rec, mark, base, hook, collided>>
  BY DEF DeleteOrphan, recVars, markVars
<1>4. /\ at' = [at EXCEPT ![w] = done] \/ at' = [at EXCEPT ![w] = undo]
      /\ \E left \in {vec[d], 0} : vec' = [vec EXCEPT ![d] = left]
  BY DEF DeleteOrphan
<1> DEFINE Outcome(n) ==
             /\ n \in Call /\ at' = [at EXCEPT ![w] = n]
             /\ n.pc = "docs" /\ n.bill = e.bill /\ n.src = e.src /\ n.seen = e.seen
             /\ n.ingest = e.ingest /\ n.remove = e.remove \ {d} /\ n.upd = e.upd
             /\ n.undone \/ n.undone = e.undone
<1> HIDE DEF d
<1>5. \E n : Outcome(n)
  <2>1. CASE at' = [at EXCEPT ![w] = done]
    <3>1. /\ done \in Call /\ done.pc = "docs" /\ done.bill = e.bill /\ done.src = e.src /\ done.seen = e.seen
          /\ done.ingest = e.ingest /\ done.remove = e.remove \ {d} /\ done.upd = e.upd /\ done.undone = e.undone
      BY <1>1, <1>2 DEF Call
    <3> HIDE DEF done
    <3> QED BY <2>1, <3>1
  <2>2. CASE at' = [at EXCEPT ![w] = undo]
    <3>1. /\ undo \in Call /\ undo.pc = "docs" /\ undo.bill = e.bill /\ undo.src = e.src /\ undo.seen = e.seen
          /\ undo.ingest = e.ingest /\ undo.remove = e.remove \ {d} /\ undo.upd = e.upd /\ undo.undone
      BY <1>1, <1>2 DEF Call
    <3> HIDE DEF undo
    <3> QED BY <2>2, <3>1
  <2> QED BY <1>4, <2>1, <2>2
<1>6. PICK n : Outcome(n)
  BY <1>5
<1> HIDE DEF next, done, undo
<1>7. vec' \in [Docs -> Nat] /\ (\A c \in Docs : vec'[c] <= now) /\ (\A c \in Docs \ {d} : vec'[c] = vec[c])
  BY <1>1, <1>2, <1>4 DEF Types, Times
<1>8. CallKeeps(n)
  BY <1>1, <1>2, <1>6 DEF CallKeeps
<1>9. /\ Sound(w, n)
      /\ ~collided' => /\ \A v \in Writers \ {w} : at[v].pc # "off" => at[v].bill # n.bill
                       /\ w = "hook" => \A c \in Of(n.bill) : n.src[c] = arch[c]
  <2>1. GoesOn(w, n)
    BY <1>1, <1>2, <1>3, <1>6, <1>7, <1>8 DEF GoesOn
  <2> QED BY <2>1, MoveStep
<1>10. ASSUME ~collided' PROVE SoundApart(w, n)
  <2>1. MarkKeeps
    BY <1>3, <1>10 DEF MarkInv
  <2>2. d \notin Listed
    BY <1>2, <1>6, <1>9, <1>10 DEF Listed
  <2>3. \A c \in n.upd : c # d /\ c \in Docs
    BY <1>1, <1>2, <1>6 DEF CallKeeps, Call
  <2>4. \A c \in n.upd : vec'[c] = n.src[c].text
    BY <1>6, <1>7, <2>1, <2>3 DEF MarkKeeps, WrittenStays
  <2>5. \A c \in Listed : vec'[c] = vec[c]
    BY <1>7, <2>2 DEF Listed
  <2>6. hook.since # 0 /\ base' < hook.start => \A c \in Of(n.bill) : n.seen[c] = rec[c]
    BY <1>1, <1>2, <1>3, <1>6, <2>1 DEF MarkKeeps, HookSees, InCall
  <2>7. ASSUME hook.since # 0, ~n.undone, NEW c \in Of(n.bill), c \in Listed,
               base' <= arch[c].stamp, arch[c].stamp < hook.start
        PROVE  vec'[c] = arch[c].text \/ c \in n.ingest
    <3>1. Good(c) \/ c \in e.ingest
      BY <1>1, <1>2, <1>3, <1>6, <2>1, <2>7 DEF MarkKeeps, HookCovers, InCall, Covered, Of
    <3> QED BY <1>6, <2>5, <2>7, <3>1 DEF Good
  <2> QED
    BY <1>2, <1>6, <1>7, <1>9, <1>10, <2>4, <2>5, <2>6, <2>7 DEF SoundApart, Good
<1> QED
  BY <1>9, <1>10, CallStep

LEMMA LatestStep ==
    ASSUME MarkInv, NEW w \in Writers, at[w].pc = "latest",
           UNCHANGED <<arch, now, vec, rec, mark, base, hook, collided>>,
           NEW latest, latest \in [Docs -> Mark], \A d \in Of(at[w].bill) : latest[d] \in {rec[d], Blank},
           at' = [at EXCEPT ![w] = [at[w] EXCEPT !.pc = "record", !.latest = latest]]
    PROVE  MarkInv'
<1> DEFINE e == at[w]
           n == [e EXCEPT !.pc = "record", !.latest = latest]
<1>1. e \in Call /\ CallKeeps(e)
  BY DEF MarkInv, Types, Calls
<1>2. /\ n \in Call /\ n.pc = "record" /\ n.bill = e.bill /\ n.src = e.src /\ n.seen = e.seen
      /\ n.ingest = e.ingest /\ n.remove = e.remove /\ n.upd = e.upd /\ n.undone = e.undone /\ n.latest = latest
  BY <1>1 DEF Call
<1> HIDE DEF n
<1>3. Passes(w, n)
  <2>1. at' = [at EXCEPT ![w] = n]
    BY DEF n
  <2>2. CallKeeps(n)
    BY <1>1, <1>2 DEF CallKeeps
  <2> QED BY <1>2, <2>1, <2>2 DEF Passes
<1> QED BY <1>3, ListStep

-----------------------------------------------------------------------------
(* A call ends.                                                            *)

Ended(w, b, undone) ==
    /\ BillEnds(w, b, undone)
    /\ UNCHANGED <<arch, now, vec, mark, base, collided>>
    /\ rec' \in [Docs -> Mark]
    /\ w = "hook" => hook.pc \in {"bills", "unrecorded"}
    /\ w = "hook" /\ ~undone =>
         InCall("hook") /\ at["hook"].ingest = {} /\ ~at["hook"].undone /\ b = at["hook"].bill
    /\ \/ rec' = rec
       \/ at[w].pc # "off" /\ \A d \in Docs \ Of(at[w].bill) : rec'[d] = rec[d]

LEMMA OffIsCall == Off \in Call /\ Off.pc = "off" /\ Off.upd = {} /\ Off.remove = {} /\ CallKeeps(Off)
  /\ Off.ingest = {} /\ \A d \in Docs : Off.src[d].text = 0
BY DEF Off, Call, NoBill, Blank, Mark, Row, CallKeeps

LEMMA EndStep ==
    ASSUME MarkInv, NEW w \in Writers, NEW b, NEW undone \in BOOLEAN, Ended(w, b, undone), ~collided => RecordTrue'
    PROVE  MarkInv'
<1>1. /\ Types /\ Times /\ Calls /\ at \in [Writers -> Call]
      /\ at' = [at EXCEPT ![w] = Off]
      /\ at'[w] = Off /\ \A v \in Writers \ {w} : at'[v] = at[v]
      /\ at' \in [Writers -> Call]
  BY OffIsCall DEF MarkInv, Types, Ended, BillEnds
<1>2. /\ hook'.pc = hook.pc /\ hook'.start = hook.start /\ hook'.since = hook.since
      /\ DOMAIN hook' = HookFields /\ hook'.todo \subseteq hook.todo /\ hook'.ok \in BOOLEAN
      /\ (hook'.ok => hook.ok)
      /\ w = "hook" => hook.todo \ {b} \subseteq hook'.todo /\ (hook'.ok /\ hook.pc = "bills" => ~undone)
      /\ w = "fill" => hook' = hook
  <2>1. CASE w = "hook"
    <3>1. DOMAIN hook = HookFields /\ hook.ok \in BOOLEAN /\ HookBillEnds(b, undone)
      BY <1>1, <2>1 DEF Types, Ended, BillEnds
    <3>2. /\ hook'.todo = hook.todo \ {b} /\ hook'.pc = hook.pc /\ hook'.start = hook.start
          /\ hook'.since = hook.since /\ DOMAIN hook' = HookFields
          /\ hook'.ok = (hook.ok /\ (hook.pc = "bills" => ~undone))
      BY <3>1 DEF HookBillEnds, HookFields
    <3> QED BY <2>1, <3>1, <3>2
  <2>2. CASE w = "fill"
    BY <1>1, <2>2 DEF Types, Ended, BillEnds, FillBillEnds
  <2> QED BY <2>1, <2>2 DEF Writers
<1>3. Types'
  BY <1>1, <1>2 DEF Types, Ended
<1>4. Times'
  <2>1. \A v \in Writers, d \in Docs : at'[v].src[d].text <= now
    BY <1>1, OffIsCall DEF Times, Types
  <2> QED BY <1>1, <1>2, <2>1 DEF Times, Ended
<1>5. Calls'
  <2>1. (\A v \in Writers : CallKeeps(at[v]))'
    BY <1>1, OffIsCall DEF Calls, CallKeeps, Of
  <2> QED BY <1>1, <1>2, <2>1, OffIsCall DEF Calls, Ended, Writers
<1>6. ASSUME ~collided' PROVE MarkKeeps'
  <2>1. MarkKeeps /\ RecordTrue'
    BY <1>6 DEF MarkInv, Ended
  <2>2. UNCHANGED <<arch, vec, mark, base>> /\ Listed' = Listed
    BY DEF Ended, Listed
  <2>3. \A v \in Writers \ {w}, d \in Docs : at[v].pc # "off" /\ d \in Of(at[v].bill) => rec'[d] = rec[d]
    BY <2>1 DEF Ended, MarkKeeps, Apart, Of, Writers
  <2>4. Apart'
    BY <1>1, OffIsCall DEF Apart, Writers
  <2>5. WrittenStays'
    <3> SUFFICES ASSUME NEW v \in Writers
                 PROVE  /\ \A d \in at'[v].upd : vec'[d] = at'[v].src[d].text
                        /\ at'[v].pc = "record" => \A d \in Of(at'[v].bill) : at'[v].latest[d] \in {rec'[d], Blank}
      BY DEF WrittenStays, Of, Blank
    <3>1. CASE v = w
      BY <1>1, <3>1, OffIsCall
    <3>2. CASE v # w
      BY <1>1, <2>1, <2>2, <2>3, <3>2 DEF WrittenStays, MarkKeeps, Of
    <3> QED BY <3>1, <3>2
  <2>6. HookCurrent' /\ FillStale'
    BY <1>1, <2>1, <2>2, OffIsCall DEF MarkKeeps, HookCurrent, FillStale, Good, Of, Writers
  <2>7. HookSees'
    <3>1. CASE w = "hook"
      BY <1>1, <3>1, OffIsCall DEF HookSees, InCall
    <3>2. CASE w = "fill"
      BY <1>1, <1>2, <2>1, <2>2, <2>3, <3>2 DEF MarkKeeps, HookSees, InCall, Of, Writers
    <3> QED BY <3>1, <3>2 DEF Writers
  <2>8. \A d \in Docs, m \in {hook.start, hook.since, mark} : (Covered(d, m)' <=> Covered(d, m)) /\ (Good(d)' <=> Good(d))
    BY <1>2, <2>2 DEF Covered, Good
  <2>9. HookCovers'
    <3>1. hook'.pc = "touched" => \A d \in Docs : Covered(d, hook.since)' => Good(d)'
      BY <1>2, <2>1, <2>8 DEF MarkKeeps, HookCovers
    <3>2. ASSUME hook.pc = "bills", hook.since # 0, hook'.ok, NEW d \in Docs, Covered(d, hook.start)'
          PROVE  Good(d)' \/ BillOf[d] \in hook'.todo
      <4>1. Covered(d, hook.start) /\ hook.ok /\ (Good(d) \/ BillOf[d] \in hook.todo)
        BY <1>2, <2>1, <2>8, <3>2 DEF MarkKeeps, HookCovers
      <4>2. CASE w = "hook" /\ BillOf[d] = b
        <5>1. InCall("hook") /\ ~at["hook"].undone /\ at["hook"].ingest = {} /\ d \in Of(at["hook"].bill)
          BY <1>2, <3>2, <4>2 DEF Ended, Of
        <5> QED BY <2>1, <2>8, <3>2, <4>1, <5>1 DEF MarkKeeps, HookCovers
      <4>3. CASE ~(w = "hook" /\ BillOf[d] = b)
        BY <1>2, <2>8, <4>1, <4>3 DEF Writers
      <4> QED BY <4>2, <4>3
    <3>3. InCall("hook")' /\ hook'.since # 0 /\ ~at'["hook"].undone =>
            \A d \in Of(at'["hook"].bill) : Covered(d, hook.start)' => Good(d)' \/ d \in at'["hook"].ingest
      <4>1. CASE w = "hook"
        BY <1>1, <4>1, OffIsCall DEF InCall
      <4>2. CASE w = "fill"
        BY <1>1, <1>2, <2>1, <2>8, <4>2 DEF MarkKeeps, HookCovers, InCall, Writers, Of
      <4> QED BY <4>1, <4>2 DEF Writers
    <3> QED BY <1>2, <3>1, <3>2, <3>3 DEF HookCovers, Of
  <2>10. \A d \in Docs : Covered(d, mark)' => Good(d)'
    BY <2>1, <2>2 DEF MarkKeeps, Covered, Good
  <2> QED BY <2>1, <2>4, <2>5, <2>6, <2>7, <2>9, <2>10 DEF MarkKeeps
<1> QED
  BY <1>3, <1>4, <1>5, <1>6 DEF MarkInv, Types

\* A call that ends without writing a record.
LEMMA PlainEndStep ==
    ASSUME MarkInv, NEW w \in Writers, NEW b, NEW undone \in BOOLEAN, BillEnds(w, b, undone),
           UNCHANGED <<arch, now, vec, rec, mark, base, collided>>,
           w = "hook" => hook.pc \in {"bills", "unrecorded"},
           w = "hook" /\ ~undone =>
             InCall("hook") /\ at["hook"].ingest = {} /\ ~at["hook"].undone /\ b = at["hook"].bill
    PROVE  MarkInv'
<1>1. Ended(w, b, undone)
  BY DEF Ended, MarkInv, Types, Times
<1>2. ~collided => RecordTrue'
  BY DEF MarkInv, MarkKeeps, RecordTrue, Listed, Good
<1> QED BY <1>1, <1>2, EndStep

LEMMA FetchStep ==
    ASSUME MarkInv, FillInv, NEW w \in Writers, Fetch(w)
    PROVE  MarkInv'
<1> DEFINE b == Min(Turn(w))
           src == [d \in Docs |-> IF d \in Of(b) THEN arch[d] ELSE Off.src[d]]
           n == [Off EXCEPT !.pc = "read", !.bill = b, !.src = src]
<1>1. /\ Types /\ Times /\ Calls /\ at[w].pc = "off" /\ Turn(w) # {}
      /\ UNCHANGED <<arch, now, vec, rec, mark, base>>
  BY DEF MarkInv, Fetch, recVars, markVars
<1>2. CASE BillEnds(w, b, TRUE) /\ UNCHANGED collided
  <2>1. w = "hook" => hook.pc \in {"bills", "unrecorded"}
    BY <1>1 DEF Turn
  <2> QED BY <1>1, <1>2, <2>1, PlainEndStep
<1>3. CASE /\ at' = [at EXCEPT ![w] = n] /\ UNCHANGED hook
           /\ collided' = (collided \/ \E v \in Writers \ {w} : at[v].bill = b)
  <2>1. src \in [Docs -> Row] /\ \A d \in Docs : src[d].text <= now
    BY <1>1 DEF Types, Times, Off, Row
  <2> HIDE DEF b, src
  <2>2. b \in Bills
    <3>1. Turn(w) \subseteq Bills
      <4>1. CASE w = "hook"
        BY <1>1, <4>1 DEF Turn, Types
      <4>2. CASE w = "fill"
        BY <4>2 DEF Turn, FillInv, Shapes
      <4> QED BY <4>1, <4>2 DEF Writers
    <3> QED BY <1>1, <3>1, LeastOfNats, ArchiveAssumption DEF b
  <2>3. /\ n \in Call /\ n.pc = "read" /\ n.bill = b /\ n.src = src /\ n.upd = {} /\ n.ingest = {} /\ n.remove = {}
    BY <2>1, <2>2, OffIsCall DEF Call, Off
  <2> HIDE DEF n
  <2>4. Sound(w, n)
    <3>1. w = "hook" => hook.pc \in {"bills", "unrecorded"}
      BY <1>1 DEF Turn
    <3>2. CallKeeps(n)
      BY <2>2, <2>3 DEF CallKeeps
    <3>3. collided \in BOOLEAN /\ collided' \in BOOLEAN /\ (collided => collided')
      BY <1>1, <1>3 DEF Types
    <3>4. vec' \in [Docs -> Nat] /\ \A d \in Docs : vec'[d] <= now
      BY <1>1 DEF Types, Times
    <3> QED BY <1>1, <1>3, <2>1, <2>3, <3>1, <3>2, <3>3, <3>4 DEF Sound
  <2>5. ASSUME ~collided' PROVE SoundApart(w, n)
    <3>1. \A v \in Writers \ {w} : at[v].bill # n.bill
      BY <1>3, <2>3, <2>5
    <3>2. \A d \in Of(n.bill) : n.src[d] = arch[d]
      BY <2>3 DEF src, Of
    <3> QED BY <1>1, <2>3, <3>1, <3>2 DEF SoundApart, Good
  <2> QED BY <2>4, <2>5, CallStep
<1> QED
  BY <1>2, <1>3 DEF Fetch

LEMMA AllExaminedStep ==
    ASSUME MarkInv, NEW w \in Writers, AllExamined(w)
    PROVE  MarkInv'
<1> DEFINE e == at[w]
           n == [e EXCEPT !.pc = "latest"]
<1>1. /\ Types /\ Calls /\ e \in Call /\ CallKeeps(e) /\ e.pc = "docs" /\ e.ingest = {} /\ e.remove = {}
      /\ UNCHANGED <<arch, now, vec, rec, mark, base, collided>>
      /\ w = "hook" => hook.pc \in {"bills", "unrecorded"}
  BY DEF MarkInv, Types, Calls, AllExamined, markVars
<1>2. CASE BillEnds(w, e.bill, e.undone)
  <2>1. e.undone \in BOOLEAN
    BY <1>1 DEF Call
  <2>2. w = "hook" /\ ~e.undone =>
          InCall("hook") /\ at["hook"].ingest = {} /\ ~at["hook"].undone /\ e.bill = at["hook"].bill
    BY <1>1 DEF InCall
  <2> QED BY <1>1, <1>2, <2>1, <2>2, PlainEndStep
<1>3. CASE at' = [at EXCEPT ![w] = n] /\ ~e.undone /\ UNCHANGED hook
  <2>1. /\ n \in Call /\ n.pc = "latest" /\ n.bill = e.bill /\ n.src = e.src /\ n.seen = e.seen
        /\ n.ingest = e.ingest /\ n.remove = e.remove /\ n.upd = e.upd /\ n.undone = e.undone
    BY <1>1 DEF Call
  <2> HIDE DEF n
  <2>2. CallKeeps(n)
    BY <1>1, <1>3, <2>1 DEF CallKeeps
  <2>3. Passes(w, n)
    BY <1>1, <1>3, <2>1, <2>2 DEF Passes
  <2> QED BY <2>3, ListStep
<1> QED
  BY <1>2, <1>3 DEF AllExamined

LEMMA ReadLatestStep ==
    ASSUME MarkInv, NEW w \in Writers, ReadLatest(w)
    PROVE  MarkInv'
<1> DEFINE e == at[w]
           fresh == [d \in Docs |-> IF d \in Of(e.bill) THEN rec[d] ELSE Blank]
           Go(latest) == at' = [at EXCEPT ![w] = [e EXCEPT !.pc = "record", !.latest = latest]]
<1>1. /\ Types /\ Calls /\ e.pc = "latest"
      /\ UNCHANGED <<arch, now, vec, rec, mark, base, collided>>
      /\ w = "hook" => hook.pc \in {"bills", "unrecorded"}
  BY DEF MarkInv, Calls, ReadLatest, recVars, markVars
<1>2. CASE BillEnds(w, e.bill, TRUE)
  BY <1>1, <1>2, PlainEndStep
<1>3. CASE Go(fresh) /\ UNCHANGED hook
  <2>1. fresh \in [Docs -> Mark] /\ \A d \in Of(e.bill) : fresh[d] \in {rec[d], Blank}
    BY <1>1 DEF Types, Blank, Mark, Of
  <2> HIDE DEF fresh
  <2> QED BY <1>1, <1>3, <2>1, LatestStep
<1>4. CASE Go(Off.latest) /\ UNCHANGED hook
  <2>1. Off.latest \in [Docs -> Mark] /\ \A d \in Of(e.bill) : Off.latest[d] \in {rec[d], Blank}
    BY DEF Off, Blank, Mark, Of
  <2> QED BY <1>1, <1>4, <2>1, LatestStep
<1> QED
  BY <1>2, <1>3, <1>4 DEF ReadLatest

\* What is recorded is in the index: the texts this call has written, and what was on record before.
LEMMA RecordStep ==
    ASSUME MarkInv, NEW w \in Writers, Record(w)
    PROVE  MarkInv'
<1> DEFINE e == at[w]
<1>1. /\ Types /\ Times /\ Calls /\ e \in Call /\ CallKeeps(e) /\ e.pc = "record" /\ e.ingest = {} /\ ~e.undone
      /\ UNCHANGED <<arch, now, vec, mark, base, collided>>
      /\ w = "hook" => hook.pc \in {"bills", "unrecorded"}
  BY DEF MarkInv, Types, Calls, CallKeeps, Record, markVars
<1>2. CASE BillEnds(w, e.bill, TRUE) /\ UNCHANGED rec
  BY <1>1, <1>2, PlainEndStep
<1>3. CASE rec' = Merged(e) /\ BillEnds(w, e.bill, FALSE)
  <2>1. /\ \A d \in Docs \ Of(e.bill) : rec'[d] = rec[d]
        /\ \A d \in Of(e.bill) :
             \/ rec'[d] = Blank
             \/ d \in e.upd /\ rec'[d] = [hash |-> e.src[d].text, stamp |-> e.src[d].stamp]
             \/ rec'[d] = [hash |-> e.latest[d].hash, stamp |-> e.src[d].stamp]
             \/ rec'[d] = e.latest[d]
    BY <1>3 DEF Merged, Of
  <2>2. rec' \in [Docs -> Mark]
    <3>1. \A d \in Docs : Merged(e)[d] = rec'[d]
      BY <1>3
    <3>2. \A d \in Docs : rec[d] \in Mark /\ e.src[d] \in Row /\ e.latest[d] \in Mark
      BY <1>1 DEF Types, Call
    <3>3. \A d \in Docs : rec'[d] \in Mark
      <4> SUFFICES ASSUME NEW d \in Docs PROVE rec'[d] \in Mark
        OBVIOUS
      <4>1. /\ Blank \in Mark /\ [hash |-> e.src[d].text, stamp |-> e.src[d].stamp] \in Mark
            /\ [hash |-> e.latest[d].hash, stamp |-> e.src[d].stamp] \in Mark
        BY <3>2 DEF Row, Mark, Blank
      <4>2. CASE d \in Of(e.bill)
        BY <2>1, <3>2, <4>1, <4>2
      <4>3. CASE d \notin Of(e.bill)
        BY <2>1, <3>2, <4>3
      <4> QED BY <4>2, <4>3
    <3> QED BY <1>3, <3>3 DEF Merged
  <2>3. ASSUME ~collided PROVE RecordTrue'
    <3>1. MarkKeeps
      BY <2>3 DEF MarkInv
    <3>2. UNCHANGED <<arch, now, vec>> /\ Listed' = Listed /\ \A d \in Docs : Good(d)' <=> Good(d)
      BY <1>1 DEF Listed, Good
    <3>3. \A d \in Docs : e.src[d].text <= now /\ e.src[d].text \in Nat
      BY <1>1 DEF Times, Call, Row
    <3>4. \A d \in e.upd : vec[d] = e.src[d].text
      BY <3>1 DEF MarkKeeps, WrittenStays
    <3>5. \A d \in Of(e.bill) : e.latest[d] \in {rec[d], Blank}
      BY <1>1, <3>1 DEF MarkKeeps, WrittenStays
    <3>6. ASSUME NEW d \in Docs
          PROVE  rec'[d].hash <= now /\ (d \in Listed /\ rec'[d].hash = arch[d].text => Good(d))
      <4>1. rec[d].hash <= now /\ (d \in Listed /\ rec[d].hash = arch[d].text => Good(d)) /\ 0 <= now
        BY <1>1, <3>1 DEF MarkKeeps, RecordTrue, Types
      <4>2. d \in Listed => arch[d].text # 0
        BY DEF Listed
      <4>3. CASE rec'[d].hash \in {rec[d].hash, 0}
        BY <4>1, <4>2, <4>3
      <4>4. CASE d \in e.upd /\ rec'[d].hash = e.src[d].text
        BY <3>3, <3>4, <4>4 DEF Good
      <4>5. rec'[d].hash \in {rec[d].hash, 0} \/ (d \in e.upd /\ rec'[d].hash = e.src[d].text)
        <5>1. CASE d \notin Of(e.bill)
          BY <2>1, <5>1
        <5>2. CASE d \in Of(e.bill)
          <6>1. e.latest[d].hash \in {rec[d].hash, 0} /\ Blank.hash = 0
            BY <3>5, <5>2 DEF Blank
          <6>2. \/ rec'[d].hash = 0
                \/ d \in e.upd /\ rec'[d].hash = e.src[d].text
                \/ rec'[d].hash = e.latest[d].hash
            <7>1. [hash |-> e.src[d].text, stamp |-> e.src[d].stamp].hash = e.src[d].text
                  /\ [hash |-> e.latest[d].hash, stamp |-> e.src[d].stamp].hash = e.latest[d].hash
              OBVIOUS
            <7>2. CASE rec'[d] = Blank
              BY <6>1, <7>2
            <7>3. CASE d \in e.upd /\ rec'[d] = [hash |-> e.src[d].text, stamp |-> e.src[d].stamp]
              BY <7>1, <7>3
            <7>4. CASE rec'[d] = [hash |-> e.latest[d].hash, stamp |-> e.src[d].stamp]
              BY <7>1, <7>4
            <7>5. CASE rec'[d] = e.latest[d]
              BY <7>5
            <7> QED BY <2>1, <5>2, <7>2, <7>3, <7>4, <7>5
          <6> QED BY <6>1, <6>2
        <5> QED BY <5>1, <5>2
      <4> QED BY <4>3, <4>4, <4>5
    <3> QED BY <3>2, <3>6 DEF RecordTrue, Listed
  <2>4. Ended(w, e.bill, FALSE)
    BY <1>1, <1>3, <2>1, <2>2 DEF Ended, InCall
  <2> QED BY <2>3, <2>4, EndStep
<1> QED
  BY <1>2, <1>3 DEF Record, recVars

-----------------------------------------------------------------------------
(* The other steps.                                                        *)

\* The hook moves between its stages while no bill is in hand.
LEMMA StageStep ==
    ASSUME MarkInv, UNCHANGED <<arch, now, vec, rec, at, collided>>, at["hook"].pc = "off",
           base' \in Nat, mark' \in Nat, mark' <= now + 1,
           ~collided => \A d \in Docs : Covered(d, mark)' => Good(d),
           DOMAIN hook' = HookFields, hook'.start \in Nat, hook'.since \in Nat, hook'.todo \subseteq Bills,
           hook'.ok \in BOOLEAN, hook'.start <= now + 1, hook'.pc # "idle" => mark' <= hook'.start,
           hook'.pc \in {"archiving", "legbot", "search", "ledger", "since"} => hook'.since = 0,
           hook'.pc = "touched" /\ ~collided => \A d \in Docs : Covered(d, hook.since)' => Good(d),
           hook'.pc = "bills" /\ hook'.since # 0 /\ hook'.ok /\ ~collided =>
             \A d \in Docs : Covered(d, hook.start)' => Good(d) \/ BillOf[d] \in hook'.todo
    PROVE  MarkInv'
<1>1. Types /\ Times /\ Calls
  BY DEF MarkInv
<1>2. Types' /\ Times' /\ Calls'
  BY <1>1 DEF Types, Times, Calls, CallKeeps, Of, Writers
<1>3. ASSUME ~collided' PROVE MarkKeeps'
  <2>1. MarkKeeps /\ ~collided
    BY <1>3 DEF MarkInv
  <2>2. Listed' = Listed
    BY DEF Listed
  <2>3. Apart' /\ WrittenStays' /\ RecordTrue' /\ HookCurrent' /\ FillStale' /\ HookSees'
    BY <2>1, <2>2
    DEF MarkKeeps, Apart, WrittenStays, RecordTrue, HookCurrent, FillStale, HookSees, Good, Of, InCall
  <2>4. HookCovers'
    BY <2>1 DEF HookCovers, Good, InCall
  <2>5. \A d \in Docs : Covered(d, mark)' => Good(d)'
    BY <2>1 DEF Good
  <2> QED BY <2>3, <2>4, <2>5 DEF MarkKeeps
<1> QED
  BY <1>2, <1>3 DEF MarkInv, Types

\* Coverage may begin later.
LEMMA CoveredStays ==
    ASSUME MarkInv, UNCHANGED <<arch, vec, mark>>, base' \in Nat, base' >= base \/ base' >= mark, ~collided
    PROVE  \A d \in Docs : Covered(d, mark)' => Good(d)
<1> SUFFICES ASSUME NEW d \in Docs, d \in Listed, base' <= arch[d].stamp, arch[d].stamp < mark
             PROVE  Good(d)
  BY DEF Covered, Listed
<1>1. arch[d].stamp \in Nat /\ base \in Nat /\ mark \in Nat
  BY DEF MarkInv, Types, Row
<1>2. base <= arch[d].stamp
  BY <1>1
<1> QED BY <1>2 DEF MarkInv, MarkKeeps, Covered

LEMMA StillStep ==
    ASSUME MarkInv, UNCHANGED <<arch, now, vec, rec, mark, base, at, hook, collided>>
    PROVE  MarkInv'
<1>1. Types' /\ Times' /\ Calls'
  BY DEF MarkInv, Types, Times, Calls, CallKeeps, Of
<1>2. ASSUME MarkKeeps PROVE MarkKeeps'
  <2>1. Apart' /\ WrittenStays' /\ RecordTrue'
    BY <1>2 DEF MarkKeeps, Apart, WrittenStays, RecordTrue, Good, Listed, Of
  <2>2. HookCurrent' /\ FillStale' /\ HookSees'
    BY <1>2 DEF MarkKeeps, HookCurrent, FillStale, HookSees, InCall, Good, Listed, Of
  <2>3. HookCovers' /\ \A d \in Docs : Covered(d, mark)' => Good(d)'
    BY <1>2 DEF MarkKeeps, HookCovers, Covered, InCall, Good, Listed, Of
  <2> QED BY <2>1, <2>2, <2>3 DEF MarkKeeps
<1> QED BY <1>1, <1>2 DEF MarkInv

LEMMA HookStep ==
    ASSUME MarkInv, Hook \/ ArchiveFails, ~ReadWatermark, ~ListTouched, ~PassEnds
    PROVE  MarkInv'
<1>1. /\ Types /\ Times /\ Calls /\ mark \in Nat /\ base \in Nat /\ mark <= now + 1
      /\ UNCHANGED <<arch, vec, mark, base>> /\ ~collided => \A d \in Docs : Covered(d, mark)' => Good(d)
  <2>1. UNCHANGED <<arch, vec, mark, base>>
    BY DEF Hook, ArchiveStarts, ArchiveSucceeds, TriggerLegbot, RefreshSearch, ReconcileEnds, ArchiveFails,
       ListLedger, markVars
  <2>2. Types /\ Times /\ Calls /\ mark \in Nat /\ base \in Nat /\ mark <= now + 1
    BY DEF MarkInv, Types, Times
  <2> QED BY <2>1, <2>2, CoveredStays
<1>2. CASE ArchiveStarts
  BY <1>1, <1>2, StageStep DEF ArchiveStarts, Types, Times, Calls, NoRun, HookFields, recVars, markVars
<1>3. CASE ArchiveSucceeds \/ TriggerLegbot \/ RefreshSearch
  BY <1>1, <1>3, StageStep
  DEF ArchiveSucceeds, TriggerLegbot, RefreshSearch, Types, Times, Calls, HookFields, recVars, markVars
<1>4. CASE ReconcileEnds \/ ArchiveFails
  <2>1. /\ UNCHANGED <<arch, now, vec, rec, mark, base, at, collided>> /\ at["hook"].pc = "off"
        /\ hook' = NoRun
    BY <1>1, <1>4 DEF ReconcileEnds, ArchiveFails, recVars, markVars, Calls
  <2>2. /\ DOMAIN hook' = HookFields /\ hook'.start = 0 /\ hook'.since = 0 /\ hook'.todo = {}
        /\ hook'.ok \in BOOLEAN /\ hook'.pc = "idle" /\ 0 <= now + 1 /\ base \in Nat
    BY <1>1, <2>1 DEF NoRun, HookFields, Types
  <2> QED BY <1>1, <2>1, <2>2, StageStep
<1>5. CASE ListLedger
  <2>1. /\ UNCHANGED <<arch, now, vec, rec, mark, base, at, collided>> /\ at["hook"].pc = "off" /\ hook.pc = "ledger"
        /\ base \in Nat
    BY <1>1, <1>5 DEF ListLedger, recVars, markVars, Calls, Types
  <2>2. Findings \subseteq Bills
    BY DEF Findings, ListedBills, Listed, Bills
  <2>3. PICK todo \in SUBSET Bills, pc \in {"bills", "since"} :
          hook' = [hook EXCEPT !.pc = pc, !.todo = todo] \/ (pc = "since" /\ hook' = [hook EXCEPT !.pc = pc])
    BY <1>5, <2>2 DEF ListLedger, Slices, kSubset
  <2>4. /\ DOMAIN hook' = HookFields /\ hook'.start = hook.start /\ hook'.since = 0 /\ hook'.todo \subseteq Bills
        /\ hook'.ok = hook.ok /\ hook'.pc \in {"bills", "since"}
    BY <1>1, <2>1, <2>3 DEF Types, Calls, HookFields
  <2>5. hook.start \in Nat /\ hook.start <= now + 1 /\ mark <= hook.start /\ hook.ok \in BOOLEAN
    BY <1>1, <2>1 DEF Types, Times
  <2> QED BY <1>1, <2>1, <2>4, <2>5, StageStep
<1> QED
  BY <1>2, <1>3, <1>4, <1>5 DEF Hook

\* Without a watermark coverage begins with this run; with one, everything before it is in the index.
LEMMA ReadWatermarkStep ==
    ASSUME MarkInv, ReadWatermark
    PROVE  MarkInv'
<1>1. /\ Types /\ Times /\ Calls /\ hook.pc = "since" /\ at["hook"].pc = "off"
      /\ UNCHANGED <<arch, now, vec, rec, mark, at, collided>>
  BY DEF MarkInv, Calls, ReadWatermark, recVars
<1>2. PICK previous \in {mark, 0} :
        /\ hook' = [hook EXCEPT !.pc = "touched", !.since = Since(previous)]
        /\ base' = IF previous = 0 THEN hook.start ELSE base
  BY DEF ReadWatermark
<1>3. hook.start \in Nat /\ mark \in Nat /\ base \in Nat /\ mark <= hook.start /\ hook.start <= now + 1
  BY <1>1 DEF Types, Times
<1>4. /\ Since(previous) \in Nat /\ (previous = 0 => Since(previous) = hook.start)
      /\ (previous # 0 => Since(previous) <= mark)
  <2>1. CASE previous = 0
    BY <1>3, <2>1 DEF Since
  <2>2. CASE previous # 0
    <3>1. Min({hook.start, mark}) \in {hook.start, mark} /\ Min({hook.start, mark}) <= mark
      BY <1>3, LeastOfNats
    <3> QED BY <1>2, <1>3, <2>2, <3>1 DEF Since
  <2> QED BY <2>1, <2>2
<1>5. /\ DOMAIN hook' = HookFields /\ hook'.pc = "touched" /\ hook'.start = hook.start
      /\ hook'.since = Since(previous) /\ hook'.todo \subseteq Bills /\ hook'.ok \in BOOLEAN
  BY <1>1, <1>2 DEF Types, HookFields
<1>6. base' \in Nat /\ (base' >= base \/ base' >= mark)
  BY <1>2, <1>3
<1>7. ~collided => \A d \in Docs : Covered(d, mark)' => Good(d)
  BY <1>1, <1>6, CoveredStays
<1>8. ~collided => \A d \in Docs : Covered(d, hook.since)' => Good(d)
  <2> SUFFICES ASSUME ~collided, NEW d \in Docs, Covered(d, hook.since)' PROVE Good(d)
    OBVIOUS
  <2>1. arch[d].stamp \in Nat /\ d \in Listed /\ base' <= arch[d].stamp /\ arch[d].stamp < Since(previous)
    BY <1>1, <1>5 DEF Covered, Types, Row, Listed
  <2>2. previous # 0 /\ base' = base /\ arch[d].stamp < mark
    BY <1>2, <1>3, <1>4, <2>1
  <2> QED BY <2>1, <2>2 DEF MarkInv, MarkKeeps, Covered
<1> QED
  <2>1. /\ mark' \in Nat /\ mark' <= now + 1 /\ hook'.start \in Nat /\ hook'.since \in Nat
        /\ hook'.start <= now + 1 /\ mark' <= hook'.start /\ base' \in Nat
        /\ hook'.pc \notin {"archiving", "legbot", "search", "ledger", "since", "bills"}
    BY <1>1, <1>3, <1>4, <1>5, <1>6 DEF Types
  <2> QED BY <1>1, <1>5, <1>7, <1>8, <2>1, StageStep

\* What lies before the list's beginning is covered by the watermark, the rest is in the list.
LEMMA ListTouchedStep ==
    ASSUME MarkInv, ListTouched
    PROVE  MarkInv'
<1>1. /\ Types /\ Times /\ Calls /\ hook.pc = "touched" /\ at["hook"].pc = "off"
      /\ UNCHANGED <<arch, now, vec, rec, mark, base, at, collided>>
  BY DEF MarkInv, Calls, ListTouched, recVars, markVars
<1>2. /\ hook.start \in Nat /\ hook.since \in Nat /\ mark \in Nat /\ base \in Nat /\ mark <= hook.start
      /\ hook.start <= now + 1 /\ mark <= now + 1
  BY <1>1 DEF Types, Times
<1>3. ~collided => \A d \in Docs : Covered(d, mark)' => Good(d)
  BY <1>1, <1>2, CoveredStays
<1>4. Touched \subseteq Bills
  BY DEF Touched, Listed, Bills
<1>5. CASE hook' = NoRun
  <2>1. /\ DOMAIN hook' = HookFields /\ hook'.start = 0 /\ hook'.since = 0 /\ hook'.todo = {}
        /\ hook'.ok \in BOOLEAN /\ hook'.pc = "idle" /\ 0 <= now + 1
    BY <1>1, <1>5 DEF NoRun, HookFields, Types
  <2> QED BY <1>1, <1>2, <1>3, <1>5, <2>1, StageStep
<1>6. CASE \E part \in SUBSET Touched : hook' = [hook EXCEPT !.pc = "bills", !.todo = part, !.ok = FALSE]
  BY <1>1, <1>2, <1>3, <1>4, <1>6, StageStep DEF Types, HookFields
<1>7. CASE hook' = [hook EXCEPT !.pc = "bills", !.todo = Touched]
  <2>1. /\ DOMAIN hook' = HookFields /\ hook'.pc = "bills" /\ hook'.start = hook.start
        /\ hook'.since = hook.since /\ hook'.todo = Touched /\ hook'.ok \in BOOLEAN
    BY <1>1, <1>7 DEF Types, HookFields
  <2>2. ASSUME ~collided, NEW d \in Docs, Covered(d, hook.start)'
        PROVE  Good(d) \/ BillOf[d] \in Touched
    <3>1. d \in Listed /\ base <= arch[d].stamp /\ arch[d].stamp \in Nat
      BY <1>1, <2>2 DEF Covered, Listed, Types, Row
    <3>2. CASE arch[d].stamp >= hook.since
      BY <3>1, <3>2 DEF Touched
    <3>3. CASE ~(arch[d].stamp >= hook.since)
      <4>1. Covered(d, hook.since)
        BY <1>2, <3>1, <3>3 DEF Covered
      <4> QED BY <1>1, <2>2, <4>1 DEF MarkInv, MarkKeeps, HookCovers
    <3> QED BY <3>2, <3>3
  <2> QED BY <1>1, <1>2, <1>3, <1>4, <2>1, <2>2, StageStep
<1> QED
  BY <1>5, <1>6, <1>7 DEF ListTouched

\* The watermark moves to the run's start only when nothing it covers is left out of the index.
LEMMA PassEndsStep ==
    ASSUME MarkInv, PassEnds
    PROVE  MarkInv'
<1>1. /\ Types /\ Times /\ Calls /\ hook.pc = "bills" /\ hook.todo = {} /\ at["hook"].pc = "off"
      /\ UNCHANGED <<arch, now, vec, rec, base, at, collided>>
  BY DEF MarkInv, PassEnds, recVars
<1>2. /\ hook.start \in Nat /\ hook.since \in Nat /\ mark \in Nat /\ base \in Nat /\ mark <= hook.start
      /\ hook.start <= now + 1 /\ mark <= now + 1
  BY <1>1 DEF Types, Times
<1>3. mark' = mark \/ (mark' = hook.start /\ hook.since # 0 /\ hook.ok)
  BY DEF PassEnds
<1>4. mark' \in Nat /\ mark' <= now + 1 /\ mark' <= hook.start
  BY <1>2, <1>3
<1>5. ASSUME ~collided, NEW d \in Docs, Covered(d, mark)' PROVE Good(d)
  <2>1. CASE mark' = mark
    BY <1>1, <1>5, <2>1 DEF MarkInv, MarkKeeps, Covered, Listed
  <2>2. CASE mark' = hook.start /\ hook.since # 0 /\ hook.ok
    <3>1. Covered(d, hook.start)
      BY <1>1, <1>5, <2>2 DEF Covered, Listed
    <3> QED BY <1>1, <1>5, <2>2, <3>1 DEF MarkInv, MarkKeeps, HookCovers
  <2> QED BY <1>3, <2>1, <2>2
<1>6. CASE hook' = NoRun
  <2>1. /\ DOMAIN hook' = HookFields /\ hook'.start = 0 /\ hook'.since = 0 /\ hook'.todo = {}
        /\ hook'.ok \in BOOLEAN /\ hook'.pc = "idle" /\ 0 <= now + 1
    BY <1>1, <1>6 DEF NoRun, HookFields, Types
  <2> QED BY <1>1, <1>2, <1>4, <1>5, <1>6, <2>1, StageStep
<1>7. CASE \E chosen \in Slices(Unrecorded, ReconcileCap) : hook' = [hook EXCEPT !.pc = "unrecorded", !.todo = chosen]
  <2>1. Unrecorded \subseteq Bills
    BY DEF Unrecorded, ListedBills, Listed, Bills
  <2>2. /\ DOMAIN hook' = HookFields /\ hook'.pc = "unrecorded" /\ hook'.start = hook.start
        /\ hook'.since = hook.since /\ hook'.todo \subseteq Bills /\ hook'.ok \in BOOLEAN
    BY <1>1, <1>7, <2>1 DEF Types, HookFields, Slices, kSubset
  <2> QED BY <1>1, <1>2, <1>4, <1>5, <2>2, StageStep
<1> QED
  BY <1>6, <1>7 DEF PassEnds

LEMMA WatermarkExpiresStep ==
    ASSUME MarkInv, WatermarkExpires
    PROVE  MarkInv'
<1>1. /\ Types /\ Times /\ Calls /\ mark' = 0
      /\ UNCHANGED <<arch, now, vec, rec, base, at, hook, collided>>
  BY DEF MarkInv, WatermarkExpires, recVars
<1>2. Types' /\ Times' /\ Calls'
  BY <1>1 DEF Types, Times, Calls, CallKeeps, Of
<1>3. ASSUME ~collided' PROVE MarkKeeps'
  <2>1. MarkKeeps
    BY <1>1, <1>3 DEF MarkInv
  <2>2. \A d \in Docs : ~Covered(d, mark)'
    BY <1>1 DEF Covered, Types, Row
  <2> QED
    BY <1>1, <2>1, <2>2 DEF MarkKeeps, Apart, WrittenStays, RecordTrue, HookCurrent, FillStale, HookSees,
       HookCovers, Covered, Good, InCall, Listed, Of
<1> QED
  BY <1>2, <1>3 DEF MarkInv, Types

\* A text that changes is new: neither index nor records can hold it yet.
LEMMA ArchivedStep ==
    ASSUME MarkInv, NEW d \in Docs, Archived(d)
    PROVE  MarkInv'
<1>1. /\ Types /\ Times /\ Calls /\ hook.pc = "archiving" /\ at["hook"].pc = "off" /\ now' = now + 1
      /\ UNCHANGED <<vec, rec, mark, base, at, hook, collided>>
  BY DEF MarkInv, Calls, Archived, recVars, markVars
<1>2. PICK text \in {now + 1, arch[d].text} \ {0} :
        arch' = [arch EXCEPT ![d] = [text |-> text, stamp |-> now + 1]]
  BY DEF Archived
<1>3. /\ text \in Nat /\ text <= now + 1 /\ now \in Nat /\ text # 0
      /\ arch'[d] = [text |-> text, stamp |-> now + 1] /\ \A c \in Docs \ {d} : arch'[c] = arch[c]
      /\ arch' \in [Docs -> Row]
  BY <1>1, <1>2 DEF Types, Times, Row
<1>4. Types' /\ Calls'
  BY <1>1, <1>3 DEF Types, Calls, CallKeeps, Of
<1>5. Times'
  <2>1. \A c \in Docs : arch'[c].text <= now + 1 /\ arch'[c].stamp <= now + 1
    BY <1>1, <1>3 DEF Times, Types, Row
  <2>2. \A c \in Docs : vec[c] <= now + 1
    BY <1>1, <1>3 DEF Times, Types
  <2>3. \A w \in Writers, c \in Docs : at[w].src[c].text <= now + 1
    <3>1. \A w \in Writers, c \in Docs : at[w].src[c].text \in Nat
      BY <1>1 DEF Types, Call, Row
    <3> QED BY <1>1, <1>3, <3>1 DEF Times
  <2>4. mark <= now + 2 /\ hook.start <= now + 2 /\ mark <= hook.start
    BY <1>1, <1>3 DEF Times, Types
  <2> QED BY <1>1, <1>3, <2>1, <2>2, <2>3, <2>4 DEF Times
<1>6. ASSUME ~collided' PROVE MarkKeeps'
  <2>1. MarkKeeps
    BY <1>1, <1>6 DEF MarkInv
  <2>2. \A c \in Docs \ {d} : (c \in Listed' <=> c \in Listed) /\ (Good(c)' <=> Good(c)) /\ arch'[c] = arch[c]
    BY <1>1, <1>3 DEF Listed, Good
  <2>3. \/ text = arch[d].text /\ d \in Listed /\ (Good(d)' <=> Good(d)) /\ arch'[d].text = arch[d].text
        \/ arch'[d].text = now + 1 /\ ~Good(d)' /\ rec[d].hash # arch'[d].text
    <3>1. vec[d] <= now /\ vec[d] \in Nat /\ rec[d].hash <= now /\ rec[d].hash \in Nat
      BY <1>1, <2>1 DEF Types, Times, Mark, MarkKeeps, RecordTrue
    <3>2. arch'[d].text = text
      BY <1>3
    <3>3. CASE text = arch[d].text
      BY <1>1, <1>3, <3>2, <3>3 DEF Listed, Good
    <3>4. CASE text = now + 1
      BY <1>1, <1>3, <3>1, <3>2, <3>4 DEF Good
    <3> QED BY <1>2, <3>3, <3>4
  <2>4. Apart' /\ WrittenStays'
    BY <1>1, <2>1 DEF MarkKeeps, Apart, WrittenStays, Of
  <2>5. RecordTrue'
    <3>1. \A c \in Docs : rec[c].hash <= now + 1
      BY <1>1, <1>3, <2>1 DEF MarkKeeps, RecordTrue, Types, Mark
    <3>2. \A c \in Listed' : rec[c].hash = arch'[c].text => Good(c)'
      BY <2>1, <2>2, <2>3 DEF MarkKeeps, RecordTrue, Listed
    <3> QED BY <1>1, <3>1, <3>2 DEF RecordTrue
  <2>6. FillStale'
    BY <1>1, <2>1, <2>2, <2>3 DEF MarkKeeps, FillStale, Of
  <2>7. HookCurrent' /\ HookSees' /\ HookCovers'
    BY <1>1 DEF HookCurrent, HookSees, HookCovers, InCall
  <2>8. ASSUME NEW c \in Docs, Covered(c, mark)' PROVE Good(c)'
    <3>1. c \in Listed' /\ base <= arch'[c].stamp /\ arch'[c].stamp < mark
      BY <1>1, <2>8 DEF Covered
    <3>2. c # d
      BY <1>1, <1>3, <3>1 DEF Times, Types
    <3> QED BY <2>1, <2>2, <3>1, <3>2 DEF MarkKeeps, Covered
  <2> QED BY <2>4, <2>5, <2>6, <2>7, <2>8 DEF MarkKeeps
<1> QED
  BY <1>4, <1>5, <1>6 DEF MarkInv, Types

LEMMA DroppedStep ==
    ASSUME MarkInv, NEW d \in Docs, Dropped(d)
    PROVE  MarkInv'
<1>1. /\ Types /\ Times /\ Calls /\ hook.pc = "archiving" /\ at["hook"].pc = "off"
      /\ UNCHANGED <<now, vec, rec, mark, base, at, hook, collided>>
      /\ arch' = [arch EXCEPT ![d].text = 0]
  BY DEF MarkInv, Calls, Dropped, recVars, markVars
<1>2. /\ arch' \in [Docs -> Row] /\ \A c \in Docs \ {d} : arch'[c] = arch[c]
      /\ arch'[d].text = 0 /\ arch'[d].stamp = arch[d].stamp
  BY <1>1 DEF Types, Row
<1>3. Types' /\ Calls' /\ Times'
  BY <1>1, <1>2 DEF Types, Calls, CallKeeps, Of, Times
<1>4. ASSUME ~collided' PROVE MarkKeeps'
  <2>1. MarkKeeps
    BY <1>1, <1>4 DEF MarkInv
  <2>2. \A c \in Listed' : c \in Listed /\ c \in Docs /\ (Good(c)' <=> Good(c)) /\ arch'[c] = arch[c]
    BY <1>1, <1>2 DEF Listed, Good
  <2>3. Apart' /\ WrittenStays' /\ HookCurrent' /\ HookSees' /\ HookCovers'
    BY <1>1, <2>1 DEF MarkKeeps, Apart, WrittenStays, HookCurrent, HookSees, HookCovers, InCall, Of
  <2>4. RecordTrue' /\ FillStale'
    BY <1>1, <2>1, <2>2 DEF MarkKeeps, RecordTrue, FillStale, Of
  <2>5. \A c \in Docs : Covered(c, mark)' => Good(c)'
    BY <1>1, <2>1, <2>2 DEF MarkKeeps, Covered
  <2> QED BY <2>1, <2>3, <2>4, <2>5 DEF MarkKeeps
<1> QED
  BY <1>3, <1>4 DEF MarkInv, Types

LEMMA MarkDiesStep ==
    ASSUME MarkInv, Dies
    PROVE  MarkInv'
<1>1. /\ Types /\ Times /\ Calls /\ UNCHANGED <<arch, now, vec, rec, mark, base, collided>>
      /\ hook' = NoRun /\ at' = [w \in Writers |-> Off]
  BY DEF MarkInv, Dies, recVars, markVars
<1>2. \A w \in Writers : at'[w] = Off
  BY <1>1
<1>3. /\ DOMAIN hook' = HookFields /\ hook'.start = 0 /\ hook'.since = 0 /\ hook'.todo = {} /\ hook'.ok \in BOOLEAN
      /\ hook'.pc = "idle"
  BY <1>1 DEF NoRun, HookFields
<1>4. Types'
  BY <1>1, <1>3, OffIsCall DEF Types
<1>5. Times'
  BY <1>1, <1>2, <1>3, OffIsCall DEF Times, Types
<1>6. Calls'
  <2>1. (\A w \in Writers : CallKeeps(at[w]))'
    BY <1>2, OffIsCall DEF CallKeeps, Of
  <2> QED BY <1>2, <1>3, <2>1, OffIsCall DEF Calls, Writers
<1>7. ASSUME ~collided' PROVE MarkKeeps'
  <2>1. MarkKeeps
    BY <1>1, <1>7 DEF MarkInv
  <2>2. Apart' /\ WrittenStays' /\ HookCurrent' /\ FillStale' /\ HookSees' /\ HookCovers'
    BY <1>2, <1>3, OffIsCall DEF Apart, WrittenStays, HookCurrent, FillStale, HookSees, HookCovers, InCall, Writers
  <2>3. RecordTrue' /\ \A d \in Docs : Covered(d, mark)' => Good(d)'
    BY <1>1, <2>1 DEF MarkKeeps, RecordTrue, Covered, Good, Listed
  <2> QED BY <2>2, <2>3 DEF MarkKeeps
<1> QED
  BY <1>4, <1>5, <1>6, <1>7 DEF MarkInv, Types

LEMMA MarkInvStep ==
    ASSUME FillInv, MarkInv, [Next]_vars
    PROVE  MarkInv'
<1>1. CASE Hook \/ ArchiveFails
  BY <1>1, HookStep, ReadWatermarkStep, ListTouchedStep, PassEndsStep
<1>2. CASE DebounceExpires \/ FillStarts \/ Save \/ UNCHANGED vars
  BY <1>2, StillStep DEF DebounceExpires, FillStarts, Save, vars, recVars, markVars
<1>3. CASE WatermarkExpires \/ Dies
  BY <1>3, WatermarkExpiresStep, MarkDiesStep
<1>4. CASE \E d \in Docs : Archived(d) \/ Dropped(d)
  BY <1>4, ArchivedStep, DroppedStep
<1>5. CASE \E w \in Writers : Embed(w)
  BY <1>5, FetchStep, ReadRecordStep, CheckStep, IngestStep, CheckOrphanStep, DeleteOrphanStep, AllExaminedStep,
     ReadLatestStep, RecordStep DEF Embed
<1> QED
  BY <1>1, <1>2, <1>3, <1>4, <1>5 DEF Next

LEMMA InitMarkInv == Init => MarkInv
<1> SUFFICES ASSUME Init PROVE MarkInv
  OBVIOUS
<1>1. /\ \A w \in Writers : at[w] = Off
      /\ DOMAIN hook = HookFields /\ hook.start = 0 /\ hook.since = 0 /\ hook.todo = {} /\ hook.ok \in BOOLEAN
      /\ hook.pc = "idle" /\ mark = 0 /\ base = 0 /\ now = 1 /\ collided = FALSE
      /\ at = [w \in Writers |-> Off]
  BY DEF Init, NoRun, HookFields
<1>2. /\ arch \in [Docs -> Row] /\ vec \in [Docs -> Nat] /\ rec \in [Docs -> Mark]
      /\ \A d \in Docs : arch[d].text <= 1 /\ arch[d].stamp <= 1 /\ vec[d] = 0 /\ rec[d].hash = 0
  BY DEF Init, Row, Mark, Blank
<1>3. Types
  <2>1. at \in [Writers -> Call]
    BY <1>1, OffIsCall
  <2>2. collided \in BOOLEAN /\ now \in Nat /\ mark \in Nat /\ base \in Nat
    BY <1>1
  <2> QED BY <1>1, <1>2, <2>1, <2>2 DEF Types
<1>4. Times
  BY <1>1, <1>2, OffIsCall DEF Times
<1>5. Calls
  BY <1>1, OffIsCall DEF Calls, Writers
<1>6. MarkKeeps
  <2>1. Apart /\ WrittenStays /\ HookCurrent /\ FillStale /\ HookSees /\ HookCovers
    BY <1>1, OffIsCall DEF Apart, WrittenStays, HookCurrent, FillStale, HookSees, HookCovers, InCall, Writers
  <2>2. RecordTrue
    BY <1>1, <1>2 DEF RecordTrue, Listed
  <2>3. \A d \in Docs : ~Covered(d, mark)
    BY <1>1, <1>2 DEF Covered, Row
  <2> QED BY <2>1, <2>2, <2>3 DEF MarkKeeps
<1> QED BY <1>3, <1>4, <1>5, <1>6 DEF MarkInv

\* Unless two writers held one bill at once, the watermark passes no listed document, changed since coverage
\* began, whose present text is not in the index, whatever calls fail, runs end early and processes die
\* (embed_archived_bills, embed_bill).
THEOREM ArchiveWatermarkSound == Spec => []WatermarkSound
<1>1. Init => FillInv /\ MarkInv
  BY InitFillInv, InitMarkInv
<1>2. FillInv /\ MarkInv /\ [Next]_vars => (FillInv /\ MarkInv)'
  BY FillInvStep, MarkInvStep
<1>3. FillInv /\ MarkInv => WatermarkSound
  <2> SUFFICES ASSUME MarkInv, ~collided, NEW d \in Listed, base <= arch[d].stamp, arch[d].stamp < mark
               PROVE  vec[d] = arch[d].text
    BY DEF WatermarkSound
  <2>1. d \in Docs /\ Covered(d, mark)
    BY DEF Covered, Listed
  <2> QED BY <2>1 DEF MarkInv, MarkKeeps, Good
<1> QED
  BY <1>1, <1>2, <1>3, PTL DEF Spec
=============================================================================
