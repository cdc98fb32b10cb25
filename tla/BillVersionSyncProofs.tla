------------------------ MODULE BillVersionSyncProofs ------------------------
(***************************************************************************)
(* BillVersionSync for any versions, texts, jobs and retries, and any      *)
(* number of failing calls and process deaths.                             *)
(*                                                                         *)
(* The latest version and the latest row are CHOOSEn as maximal elements   *)
(* of finite sets, which exist because strict inclusion is well-founded on *)
(* the sets of what lies above.  A row is numbered after the rows there    *)
(* are, so a row just created leads every row of its date.                 *)
(*                                                                         *)
(* The buttons are fresh because a check that changes the index goes on    *)
(* owing an announcement until it makes one, loses it or dies.  The index  *)
(* has one text because a lone check starts from the text of the row that  *)
(* leads and from its count, and the version it works on is either that    *)
(* one or not yet on record: upstream only adds versions, so a row created *)
(* later never stands behind one of its date.                              *)
(***************************************************************************)
EXTENDS BillVersionSync, FiniteSetTheorems, TLAPS

-----------------------------------------------------------------------------
(* Finite sets.                                                            *)

\* A finite set has a maximal element under a strict order: the sets of what
\* is above its elements are finite, and strict inclusion is well-founded.
LEMMA MaximalElement ==
    ASSUME NEW S, IsFiniteSet(S), S # {}, NEW R,
           \A a \in S : <<a, a>> \notin R,
           \A a, b, c \in S : <<a, b>> \in R /\ <<b, c>> \in R => <<a, c>> \in R
    PROVE  \E m \in S : \A w \in S : <<m, w>> \notin R
<1> DEFINE Above(a) == {w \in S : <<a, w>> \in R}
           T == {Above(a) : a \in S}
<1>1. IsWellFoundedOn(StrictSubsetOrdering(S), FiniteSubsetsOf(S))
  BY FS_StrictSubsetOrderingWellFounded
<1>2. \A a \in S : Above(a) \in FiniteSubsetsOf(S)
  BY FS_Subset DEF FiniteSubsetsOf
<1>3. T \subseteq FiniteSubsetsOf(S) /\ T # {}
  <2> HIDE DEF Above
  <2> QED BY <1>2
<1>4. PICK U \in T : \A V \in T : <<V, U>> \notin StrictSubsetOrdering(S)
  <2> HIDE DEF T
  <2> QED BY <1>1, <1>3, WFMin
<1>5. PICK m \in S : U = Above(m)
  OBVIOUS
<1>6. ASSUME NEW w \in S, <<m, w>> \in R PROVE FALSE
  <2>1. Above(w) \subseteq Above(m) /\ w \in Above(m) /\ w \notin Above(w)
    BY <1>6
  <2>2. Above(w) \in T
    OBVIOUS
  <2>3. Above(w) \in SUBSET S /\ Above(m) \in SUBSET S /\ Above(w) # Above(m)
    BY <2>1
  <2> HIDE DEF Above
  <2> DEFINE p == <<Above(w), Above(m)>>
  <2>4. p \in (SUBSET S) \X (SUBSET S) /\ p[1] = Above(w) /\ p[2] = Above(m)
    BY <2>3
  <2> HIDE DEF p
  <2>5. p \in StrictSubsetOrdering(S)
    BY <2>1, <2>3, <2>4 DEF StrictSubsetOrdering
  <2> QED BY <1>4, <1>5, <2>2, <2>5 DEF p
<1> QED BY <1>6

LEMMA GreatestNat ==
    ASSUME NEW S, IsFiniteSet(S), S # {}, S \subseteq Nat
    PROVE  Max(S) \in S /\ \A x \in S : Max(S) >= x
<1> DEFINE R == {p \in S \X S : p[1] < p[2]}
<1>1. \A a, b \in S : <<a, b>> \in R <=> a < b
  OBVIOUS
<1> HIDE DEF R
<1>2. /\ \A a \in S : <<a, a>> \notin R
      /\ \A a, b, c \in S : <<a, b>> \in R /\ <<b, c>> \in R => <<a, c>> \in R
  <2>1. \A a, b, c \in S : ~(a < a) /\ (a < b /\ b < c => a < c)
    OBVIOUS
  <2> QED BY <1>1, <2>1
<1>3. \E m \in S : \A w \in S : <<m, w>> \notin R
  BY <1>2, MaximalElement
<1>4. \E m \in S : \A w \in S : m >= w
  <2>1. \A a, b \in S : a < b \/ a >= b
    OBVIOUS
  <2> QED BY <1>1, <1>3, <2>1
<1> QED BY <1>4 DEF Max

LEMMA InitialSegment ==
    ASSUME NEW n \in Nat
    PROVE  IsFiniteSet(1..n) /\ Cardinality(1..n) = n
<1>1. IsFiniteSet(1..n) /\ Cardinality(1..n) = IF 1 > n THEN 0 ELSE n - 1 + 1
  <2>1. 1 \in Int /\ n \in Int
    OBVIOUS
  <2> QED BY <2>1, FS_Interval, Zenon
<1> QED BY <1>1

-----------------------------------------------------------------------------
(* The constants.                                                          *)

LEMMA Constants ==
    ASSUME VersionAssumption
    PROVE  /\ Len(Date) \in Nat \ {0} /\ Versions = 1..Len(Date)
           /\ IsFiniteSet(Versions) /\ Cardinality(Versions) = Len(Date)
           /\ \A v \in Versions : Date[v] \in Nat /\ Chunks[v] \in Nat \ {0} /\ Chunks[v] <= Most
           /\ Most \in Nat /\ Places \subseteq Nat
<1>1. /\ Len(Date) \in Nat \ {0} /\ Versions = 1..Len(Date)
      /\ \A v \in Versions : Date[v] \in Nat /\ Chunks[v] \in Nat \ {0}
      /\ DOMAIN Chunks = Versions
  BY DEF VersionAssumption, Versions
<1>2. IsFiniteSet(Versions) /\ Cardinality(Versions) = Len(Date)
  <2>1. IsFiniteSet(1..Len(Date)) /\ Cardinality(1..Len(Date)) = Len(Date)
    BY <1>1, InitialSegment
  <2> QED BY <1>1, <2>1
<1> DEFINE C == Range(Chunks)
<1>3. C = {Chunks[v] : v \in Versions}
  BY <1>1 DEF Range
<1>4. IsFiniteSet(C)
  <2>1. Chunks \in Surjection(Versions, C)
    BY <1>1 DEF Surjection, Range
  <2> QED BY <1>2, <2>1, FS_Surjection
<1>5. C # {} /\ C \subseteq Nat /\ \A v \in Versions : Chunks[v] \in C
  BY <1>1, <1>3
<1> HIDE DEF C
<1>6. Max(C) \in C /\ \A x \in C : Max(C) >= x
  BY <1>4, <1>5, GreatestNat
<1>7. Most = Max(C)
  BY DEF Most, C
<1>8. \A v \in Versions : Chunks[v] <= Most
  BY <1>1, <1>5, <1>6, <1>7
<1>9. Most \in Nat
  BY <1>5, <1>6, <1>7
<1>10. Places \subseteq Nat
  BY <1>9 DEF Places
<1> QED BY <1>1, <1>2, <1>8, <1>9, <1>10

\* _get_latest_version finds one: the first of the greatest date.
LEMMA LatestFirst ==
    ASSUME VersionAssumption, NEW d, d.n \in 1..Len(Date)
    PROVE  /\ Latest(d) \in 1..d.n /\ Latest(d) \in Versions
           /\ \A w \in 1..d.n : \/ Date[w] < Date[Latest(d)]
                                \/ Date[w] = Date[Latest(d)] /\ Latest(d) <= w
<1> DEFINE S == 1..d.n
           Below(a, b) == Date[a] < Date[b] \/ (Date[a] = Date[b] /\ b < a)
           R == {p \in S \X S : Below(p[1], p[2])}
<1>1. \A a, b \in S : <<a, b>> \in R <=> Below(a, b)
  OBVIOUS
<1>2. IsFiniteSet(S) /\ S # {} /\ S \subseteq Nat /\ S \subseteq Versions
  <2>1. IsFiniteSet(1..d.n)
    BY Constants, InitialSegment
  <2>2. Len(Date) \in Nat /\ Versions = 1..Len(Date)
    BY Constants
  <2> QED BY <2>1, <2>2
<1>3. \A a \in S : a \in Nat /\ Date[a] \in Nat
  BY <1>2, Constants
<1> HIDE DEF R, S
<1>4. /\ \A a \in S : ~Below(a, a)
      /\ \A a, b, c \in S : Below(a, b) /\ Below(b, c) => Below(a, c)
      /\ \A a, b \in S : Below(a, b) \/ Date[b] < Date[a] \/ (Date[b] = Date[a] /\ a <= b)
  <2>1. \A a \in S : ~Below(a, a)
    BY <1>3
  <2>2. ASSUME NEW a \in S, NEW b \in S, NEW c \in S, Below(a, b), Below(b, c) PROVE Below(a, c)
    <3> DEFINE da == Date[a]  db == Date[b]  dc == Date[c]
    <3>1. da \in Nat /\ db \in Nat /\ dc \in Nat /\ a \in Nat /\ b \in Nat /\ c \in Nat
      BY <1>3
    <3>2. (da < db \/ (da = db /\ b < a)) /\ (db < dc \/ (db = dc /\ c < b))
      BY <2>2
    <3>3. da < dc \/ (da = dc /\ c < a)
      <4> HIDE DEF da, db, dc
      <4> QED BY <3>1, <3>2
    <3> QED BY <3>3
  <2>3. \A a, b \in S : Below(a, b) \/ Date[b] < Date[a] \/ (Date[b] = Date[a] /\ a <= b)
    BY <1>3
  <2> HIDE DEF Below
  <2> QED BY <2>1, <2>2, <2>3
<1> HIDE DEF Below
<1>5. \E m \in S : \A w \in S : <<m, w>> \notin R
  BY <1>1, <1>2, <1>4, MaximalElement
<1>6. \E m \in S : \A w \in S : Date[w] < Date[m] \/ (Date[w] = Date[m] /\ m <= w)
  BY <1>1, <1>4, <1>5
<1> QED BY <1>2, <1>6 DEF Latest, S

-----------------------------------------------------------------------------
(* The ledger.                                                             *)

Rows == [url : 0..MaxUrl, count : 0..Most, born : 0..Len(Date)]

\* Rows are numbered in the order of their creation.
Births == \A v \in Recorded : ledger[v].born <= Cardinality(Recorded)

LEMMA RecordedFinite ==
    ASSUME VersionAssumption
    PROVE  /\ IsFiniteSet(Recorded) /\ Recorded \subseteq Versions
           /\ Cardinality(Recorded) \in Nat /\ Cardinality(Recorded) <= Len(Date)
<1>1. Recorded \in SUBSET Versions
  BY DEF Recorded
<1>2. IsFiniteSet(Recorded) /\ Cardinality(Recorded) <= Cardinality(Versions)
  BY <1>1, Constants, FS_Subset
<1> QED BY <1>1, <1>2, Constants, FS_CardinalityType

LEMMA LatestRowFacts ==
    ASSUME VersionAssumption, ledger \in [Versions -> Rows]
    PROVE  /\ Recorded = {} => LatestRow = None
           /\ Recorded # {} =>
                /\ LatestRow \in Recorded /\ LatestRow # None
                /\ \A w \in Recorded :
                      \/ Date[w] < Date[LatestRow]
                      \/ Date[w] = Date[LatestRow] /\ ledger[w].born <= ledger[LatestRow].born
<1>1. Recorded = {} => LatestRow = None
  BY DEF LatestRow
<1>2. ASSUME Recorded # {}
      PROVE  \E v \in Recorded : \A w \in Recorded :
                \/ Date[w] < Date[v]
                \/ Date[w] = Date[v] /\ ledger[w].born <= ledger[v].born
  <2> DEFINE S == Recorded
             Below(a, b) == \/ Date[a] < Date[b]
                            \/ Date[a] = Date[b] /\ ledger[a].born < ledger[b].born
             R == {p \in S \X S : Below(p[1], p[2])}
  <2>1. \A a, b \in S : <<a, b>> \in R <=> Below(a, b)
    OBVIOUS
  <2>2. IsFiniteSet(S) /\ S # {}
    BY <1>2, RecordedFinite
  <2>3. \A a \in S : Date[a] \in Nat /\ ledger[a].born \in Nat
    BY Constants, RecordedFinite DEF Rows
  <2> HIDE DEF R, S
  <2>4. /\ \A a \in S : ~Below(a, a)
        /\ \A a, b, c \in S : Below(a, b) /\ Below(b, c) => Below(a, c)
        /\ \A a, b \in S : Below(a, b) \/ Date[b] < Date[a]
                           \/ (Date[b] = Date[a] /\ ledger[b].born <= ledger[a].born)
    <3>1. \A a \in S : ~Below(a, a)
      BY <2>3
    <3>2. ASSUME NEW a \in S, NEW b \in S, NEW c \in S, Below(a, b), Below(b, c) PROVE Below(a, c)
      <4> DEFINE da == Date[a]  db == Date[b]  dc == Date[c]
                 ba == ledger[a].born  bb == ledger[b].born  bc == ledger[c].born
      <4>1. da \in Nat /\ db \in Nat /\ dc \in Nat /\ ba \in Nat /\ bb \in Nat /\ bc \in Nat
        BY <2>3
      <4>2. (da < db \/ (da = db /\ ba < bb)) /\ (db < dc \/ (db = dc /\ bb < bc))
        BY <3>2
      <4>3. da < dc \/ (da = dc /\ ba < bc)
        <5> HIDE DEF da, db, dc, ba, bb, bc
        <5> QED BY <4>1, <4>2
      <4> QED BY <4>3
    <3>3. ASSUME NEW a \in S, NEW b \in S
          PROVE  Below(a, b) \/ Date[b] < Date[a]
                 \/ (Date[b] = Date[a] /\ ledger[b].born <= ledger[a].born)
      <4>1. Date[a] \in Nat /\ Date[b] \in Nat /\ ledger[a].born \in Nat /\ ledger[b].born \in Nat
        BY <2>3
      <4> QED BY <4>1
    <3> HIDE DEF Below
    <3> QED BY <3>1, <3>2, <3>3
  <2> HIDE DEF Below
  <2>5. \E m \in S : \A w \in S : <<m, w>> \notin R
    BY <2>1, <2>2, <2>4, MaximalElement
  <2>6. \E m \in S : \A w \in S : Date[w] < Date[m]
                                  \/ (Date[w] = Date[m] /\ ledger[w].born <= ledger[m].born)
    BY <2>1, <2>4, <2>5
  <2> QED BY <2>6 DEF S
<1>3. 0 \notin Recorded
  BY Constants DEF Recorded
<1> QED BY <1>1, <1>2, <1>3 DEF LatestRow, None

Writes(v, u, c) == ledger' = [ledger EXCEPT ![v] = Written(v, u, c)]

\* write_bill_version: the row of v, updated or created last.
LEMMA WrittenRow ==
    ASSUME ledger \in [Versions -> Rows], Births,
           NEW v \in Versions, NEW u \in 0..MaxUrl, NEW c \in 0..Most,
           Writes(v, u, c)
    PROVE  /\ ledger' \in [Versions -> Rows] /\ Births'
           /\ Recorded' = Recorded \cup {v} /\ ledger'[v].count = c
           /\ \A w \in Versions \ {v} : ledger'[w] = ledger[w]
           /\ v \in Recorded => ledger'[v].born = ledger[v].born
           /\ v \notin Recorded => ledger'[v].born = Cardinality(Recorded) + 1
<1> USE VersionAssumption
<1>1. /\ ledger'[v] = Written(v, u, c)
      /\ \A w \in Versions \ {v} : ledger'[w] = ledger[w]
      /\ DOMAIN ledger' = Versions
  BY DEF Writes
<1>2. /\ Cardinality(Recorded) \in Nat /\ IsFiniteSet(Recorded)
      /\ Cardinality(Recorded) <= Len(Date) /\ Len(Date) \in Nat
  BY RecordedFinite, Constants
<1>3. /\ Written(v, u, c).url = u /\ Written(v, u, c).count = c
      /\ v \in Recorded => Written(v, u, c).born = ledger[v].born
      /\ v \notin Recorded => Written(v, u, c).born = Cardinality(Recorded) + 1
  BY DEF Written
<1>4. Recorded' = Recorded \cup {v}
  BY <1>1, <1>2, <1>3 DEF Recorded
<1>5. IsFiniteSet(Recorded') /\ Cardinality(Recorded') <= Len(Date)
      /\ Cardinality(Recorded') =
            IF v \in Recorded THEN Cardinality(Recorded) ELSE Cardinality(Recorded) + 1
  <2>1. Recorded' \in SUBSET Versions
    BY <1>4, RecordedFinite
  <2>2. Cardinality(Recorded') <= Cardinality(Versions)
    BY <2>1, Constants, FS_Subset
  <2> QED BY <1>2, <1>4, <2>2, Constants, FS_AddElement
<1>6. Births'
  <2>1. SUFFICES ASSUME NEW w \in Recorded' PROVE ledger'[w].born <= Cardinality(Recorded')
    BY DEF Births
  <2>2. CASE w = v /\ v \notin Recorded
    <3>1. ledger'[w].born = Cardinality(Recorded) + 1
      BY <1>1, <1>3, <2>2
    <3> QED BY <1>2, <1>5, <2>2, <3>1
  <2>3. CASE w \in Recorded
    <3>1. ledger'[w].born = ledger[w].born /\ ledger[w].born <= Cardinality(Recorded)
      BY <1>1, <1>3, <2>3, RecordedFinite DEF Births
    <3>2. ledger[w].born \in Nat
      BY <2>3, RecordedFinite, Constants DEF Rows
    <3> QED BY <1>2, <1>5, <3>1, <3>2
  <2> QED BY <1>4, <2>2, <2>3
<1>7. Written(v, u, c) \in Rows
  <2>1. Written(v, u, c).born \in 0..Len(Date)
    BY <1>2, <1>3, <1>5 DEF Rows
  <2> QED BY <1>3, <2>1 DEF Written, Rows
<1>8. ledger' \in [Versions -> Rows]
  BY <1>7 DEF Writes
<1> QED BY <1>1, <1>3, <1>4, <1>6, <1>8

WritesAll(others, url) ==
    ledger' = [v \in Versions |->
        IF v \notin others THEN ledger[v]
        ELSE IF v \in Recorded THEN Written(v, url[v], 0)
        ELSE [Written(v, url[v], 0) EXCEPT
                 !.born = @ + Cardinality({w \in others \ Recorded : w < v})]]

\* _backfill_missing_versions: the rows of others, the new ones in order.
LEMMA BackfilledRows ==
    ASSUME ledger \in [Versions -> Rows], Births,
           NEW others \in SUBSET Versions, NEW url \in [Versions -> 0..MaxUrl],
           WritesAll(others, url)
    PROVE  /\ ledger' \in [Versions -> Rows] /\ Births'
           /\ Recorded' = Recorded \cup others
<1> USE VersionAssumption
<1> DEFINE N == others \ Recorded
           Before(v) == {w \in N : w < v}
           n == Cardinality(Recorded)
<1>1. /\ n \in Nat /\ IsFiniteSet(Recorded) /\ n <= Len(Date) /\ Len(Date) \in Nat
      /\ Recorded \subseteq Versions
  BY RecordedFinite, Constants
<1>2. IsFiniteSet(N) /\ Cardinality(N) \in Nat
  <2>1. N \in SUBSET Versions
    OBVIOUS
  <2> QED BY <2>1, Constants, FS_Subset, FS_CardinalityType
<1>3. \A v \in N : Cardinality(Before(v)) \in Nat /\ Cardinality(Before(v)) + 1 <= Cardinality(N)
  <2> SUFFICES ASSUME NEW v \in N
               PROVE  Cardinality(Before(v)) \in Nat /\ Cardinality(Before(v)) + 1 <= Cardinality(N)
    OBVIOUS
  <2>1. IsFiniteSet(N \ {v}) /\ Cardinality(N \ {v}) = Cardinality(N) - 1
    <3> HIDE DEF N
    <3> QED BY <1>2, FS_RemoveElement
  <2>2. Before(v) \in SUBSET (N \ {v})
    <3>1. v \in Nat
      BY Constants
    <3> QED BY <3>1
  <2>3. Cardinality(Before(v)) <= Cardinality(N \ {v}) /\ IsFiniteSet(Before(v))
    <3> HIDE DEF N, Before
    <3> QED BY <2>1, <2>2, FS_Subset
  <2>4. Cardinality(Before(v)) \in Nat
    BY <2>3, FS_CardinalityType
  <2> HIDE DEF N, Before
  <2> QED BY <1>2, <2>1, <2>3, <2>4
<1>4. \A v \in Versions :
         /\ v \notin others => ledger'[v] = ledger[v]
         /\ v \in others =>
               ledger'[v] = [url |-> url[v], count |-> 0, born |-> ledger'[v].born]
         /\ v \in others /\ v \in Recorded => ledger'[v].born = ledger[v].born
         /\ v \in N => ledger'[v].born = n + 1 + Cardinality(Before(v))
  BY DEF Written, WritesAll
<1>5. Recorded' = Recorded \cup others
  <2>1. \A v \in Versions : ledger'[v].born # 0 <=> v \in Recorded \/ v \in others
    <3>1. \A v \in N : n + 1 + Cardinality(Before(v)) # 0
      <4> HIDE DEF n, N, Before
      <4> QED BY <1>1, <1>3
    <3>2. \A v \in Versions : v \in Recorded <=> ledger[v].born # 0
      BY DEF Recorded
    <3>3. SUFFICES ASSUME NEW v \in Versions
                   PROVE  ledger'[v].born # 0 <=> v \in Recorded \/ v \in others
      OBVIOUS
    <3>4. v \in N <=> v \in others /\ v \notin Recorded
      OBVIOUS
    <3>5. v \in N => ledger'[v].born = n + 1 + Cardinality(Before(v))
      <4> HIDE DEF n, N, Before
      <4> QED BY <1>4
    <3>6. /\ v \notin others => ledger'[v].born = ledger[v].born
          /\ v \in others /\ v \in Recorded => ledger'[v].born = ledger[v].born
      BY <1>4
    <3> HIDE DEF n, N, Before
    <3> QED BY <3>1, <3>2, <3>4, <3>5, <3>6
  <2> QED BY <2>1, <1>1 DEF Recorded
<1>6. Cardinality(Recorded') = n + Cardinality(N) /\ Cardinality(Recorded') <= Len(Date)
  <2>1. Recorded' = Recorded \cup N /\ Recorded \cap N = {}
    BY <1>5
  <2>2. Recorded' \in SUBSET Versions
    BY <1>1, <1>5
  <2>3. Cardinality(Recorded') <= Cardinality(Versions)
    BY <2>2, Constants, FS_Subset
  <2>4. Cardinality(Recorded \cup N) = n + Cardinality(N) - Cardinality(Recorded \cap N)
    <3> HIDE DEF N
    <3> QED BY <1>1, <1>2, FS_Union
  <2>5. Cardinality(Recorded \cap N) = 0
    BY <2>1, FS_EmptySet
  <2> HIDE DEF n, N
  <2> QED BY <1>1, <1>2, <2>1, <2>3, <2>4, <2>5, Constants
<1>7. \A v \in Versions : /\ ledger'[v] \in Rows
                          /\ v \in Recorded' => ledger'[v].born <= Cardinality(Recorded')
  <2> SUFFICES ASSUME NEW v \in Versions
               PROVE  /\ ledger'[v] \in Rows
                      /\ v \in Recorded' => ledger'[v].born <= Cardinality(Recorded')
    OBVIOUS
  <2>1. CASE v \in N
    <3>1. n + 1 + Cardinality(Before(v)) \in 0..Cardinality(Recorded')
      <4> HIDE DEF n, N, Before
      <4>1. Cardinality(Before(v)) \in Nat /\ Cardinality(Before(v)) + 1 <= Cardinality(N)
        BY <1>3, <2>1
      <4>2. Cardinality(Recorded') = n + Cardinality(N) /\ n \in Nat /\ Cardinality(N) \in Nat
        BY <1>1, <1>2, <1>6
      <4> QED BY <4>1, <4>2
    <3>2. n + 1 + Cardinality(Before(v)) \in 0..Len(Date)
      <4> HIDE DEF n, N, Before
      <4> QED BY <1>1, <1>2, <1>6, <3>1
    <3>3. url[v] \in 0..MaxUrl /\ 0 \in 0..Most
      BY Constants
    <3>4. v \in others /\ ledger'[v].born = n + 1 + Cardinality(Before(v))
      BY <1>4, <2>1
    <3>5. ledger'[v] = [url |-> url[v], count |-> 0, born |-> ledger'[v].born]
      BY <1>4, <3>4
    <3> HIDE DEF n, N, Before
    <3>6. ledger'[v] \in Rows
      <4>1. ledger'[v].born \in 0..Len(Date)
        BY <3>2, <3>4
      <4>2. [url |-> url[v], count |-> 0, born |-> ledger'[v].born] \in Rows
        BY <3>3, <4>1 DEF Rows
      <4> QED BY <3>5, <4>2
    <3> QED BY <3>1, <3>4, <3>6
  <2>2. CASE v \notin N
    <3>0. v \notin others \/ v \in Recorded
      BY <2>2
    <3>1. /\ ledger'[v].born = ledger[v].born
          /\ v \in Recorded' => v \in Recorded
      <4> HIDE DEF n, N, Before
      <4> QED BY <1>4, <1>5, <3>0
    <3>2. ledger'[v] \in Rows
      <4>1. url[v] \in 0..MaxUrl /\ 0 \in 0..Most /\ ledger[v] \in Rows
        BY Constants
      <4>2. CASE v \notin others
        BY <1>4, <4>1, <4>2
      <4>3. CASE v \in others
        <5>1. ledger'[v] = [url |-> url[v], count |-> 0, born |-> ledger[v].born]
          BY <1>4, <3>0, <4>3
        <5> QED BY <4>1, <5>1 DEF Rows
      <4> QED BY <4>2, <4>3
    <3>3. ledger[v].born \in Nat /\ n <= Cardinality(Recorded')
      <4> HIDE DEF n, N
      <4>1. ledger[v].born \in 0..Len(Date) /\ Len(Date) \in Nat
        BY Constants DEF Rows
      <4>2. n <= Cardinality(Recorded')
        BY <1>1, <1>2, <1>6
      <4> QED BY <4>1, <4>2
    <3>4. v \in Recorded => ledger[v].born <= n
      BY DEF Births
    <3>5. Cardinality(Recorded') \in Nat
      <4> HIDE DEF n, N
      <4> QED BY <1>1, <1>2, <1>6
    <3> HIDE DEF n, N
    <3> QED BY <1>1, <3>1, <3>2, <3>3, <3>4, <3>5
  <2> QED BY <2>1, <2>2
<1>8. DOMAIN ledger' = Versions /\ ledger' = [v \in Versions |-> ledger'[v]]
  BY DEF WritesAll
<1> QED BY <1>5, <1>7, <1>8, <1>1 DEF Births

-----------------------------------------------------------------------------
(* Types, and what a run knows.                                            *)

JobStates ==
    [pc : Steps, kind : Kinds, tries : 0..MaxAttempts, snap : CmsStates, data : UpStates,
     old : 0..Most, made : 0..Most]

\* The steps of a version check, from the ledger it reads to the announcement.
Reading == {"read", "backfill", "ingest", "surplus", "describe", "record", "publish"}
Checks(j) == job[j].pc # "idle" /\ job[j].kind = "versions"

\* What a run was told is no newer than upstream, and a version check has a text.
Informed(r) ==
    /\ r.data.n <= up.n
    /\ r.pc \in Reading => r.kind = "versions" /\ HasText(r.data)

BaseInv ==
    /\ TypeOK
    /\ Births /\ \A v \in Recorded : v <= up.n
    /\ \A j \in Jobs : Informed(job[j])
    /\ ~overlap => \A j, k \in Jobs : Checks(j) /\ Checks(k) => j = k

\* A run under way goes one step or comes to rest.
Moves(j) ==
    /\ job' \in [Jobs -> JobStates]
    /\ \A k \in Jobs \ {j} : job'[k] = job[k]
    /\ job[j].pc # "idle" /\ Informed(job'[j])
    /\ job'[j].pc # "idle" => job'[j].kind = job[j].kind

LEMMA JobTypes ==
    ASSUME BaseInv, VersionAssumption
    PROVE  /\ job \in [Jobs -> JobStates] /\ ledger \in [Versions -> Rows]
           /\ up \in UpStates /\ Idle \in JobStates /\ Idle.data.n = 0
           /\ 0 \in 0..Most /\ Most \in Nat
           /\ MaxAttempts \in Nat \ {0} /\ MaxFaults \in Nat /\ faults \in Nat
<1>1. 0 \in 0..Most /\ Most \in Nat /\ Len(Date) \in Nat
  BY Constants
<1>2. MaxUrl \in Nat /\ MaxActivity \in Nat /\ MaxAttempts \in Nat \ {0} /\ MaxFaults \in Nat
  BY DEF VersionAssumption
<1>3. NoUp \in UpStates /\ NoUp.n = 0
  BY <1>1, <1>2 DEF NoUp, UpStates
<1>4. NoCms \in CmsStates
  BY <1>1, <1>2 DEF NoCms, NoGov, CmsStates
<1>5. Idle \in JobStates /\ Idle.data.n = 0
  BY <1>1, <1>2, <1>3, <1>4 DEF Idle, JobStates, Steps, Kinds
<1>6. job \in [Jobs -> JobStates] /\ ledger \in [Versions -> Rows] /\ up \in UpStates
      /\ faults \in Nat
  BY <1>2 DEF BaseInv, TypeOK, JobStates, Rows
<1> QED BY <1>1, <1>2, <1>5, <1>6

\* The version a check works on.
LEMMA CheckedVersion ==
    ASSUME BaseInv, VersionAssumption, NEW j \in Jobs, job[j].pc \in Reading
    PROVE  /\ job[j].kind = "versions" /\ job[j].data.n \in 1..Len(Date)
           /\ Latest(job[j].data) \in 1..job[j].data.n /\ Latest(job[j].data) \in Versions
           /\ job[j].data.n <= up.n
           /\ job[j].data.url \in [Versions -> 0..MaxUrl]
           /\ Chunks[Latest(job[j].data)] \in 0..Most /\ Chunks[Latest(job[j].data)] > 0
<1>1. /\ job[j].kind = "versions" /\ HasText(job[j].data) /\ job[j].data.n <= up.n
      /\ job[j].data \in UpStates
  BY JobTypes DEF BaseInv, Informed, JobStates
<1>2. job[j].data.n \in 1..Len(Date)
  BY <1>1, Constants DEF HasText, UpStates
<1>3. Latest(job[j].data) \in 1..job[j].data.n /\ Latest(job[j].data) \in Versions
  BY <1>2, LatestFirst
<1>4. job[j].data.url \in [Versions -> 0..MaxUrl]
  BY <1>1 DEF UpStates
<1>5. Chunks[Latest(job[j].data)] \in 0..Most /\ Chunks[Latest(job[j].data)] > 0
  BY <1>3, Constants
<1> QED BY <1>1, <1>2, <1>3, <1>4, <1>5

\* A run whose data stays what it was.
LEMMA GoesOn ==
    ASSUME BaseInv, VersionAssumption, NEW j \in Jobs, job[j].pc # "idle", UNCHANGED up,
           NEW x \in Steps, NEW o \in 0..Most, NEW m \in 0..Most,
           job' = [job EXCEPT ![j].pc = x, ![j].old = o, ![j].made = m],
           x \in Reading => job[j].pc \in Reading
    PROVE  Moves(j)
<1>1. job \in [Jobs -> JobStates]
  BY JobTypes
<1>2. /\ job'[j] \in JobStates /\ DOMAIN job' = Jobs
      /\ \A k \in Jobs \ {j} : job'[k] = job[k]
  BY <1>1 DEF JobStates
<1>3. job' \in [Jobs -> JobStates]
  BY <1>1, <1>2
<1>4. job'[j].pc = x /\ job'[j].kind = job[j].kind /\ job'[j].data = job[j].data
  BY <1>1 DEF JobStates
<1>5. Informed(job'[j])
  BY <1>4 DEF BaseInv, Informed
<1> QED BY <1>2, <1>3, <1>4, <1>5 DEF Moves

LEMMA GoesTo ==
    ASSUME BaseInv, VersionAssumption, NEW j \in Jobs, job[j].pc # "idle", UNCHANGED up,
           NEW x \in Steps, Goto(j, x), x \in Reading => job[j].pc \in Reading
    PROVE  Moves(j)
<1>1. job[j] \in JobStates /\ job \in [Jobs -> JobStates]
  BY JobTypes
<1>2. job' = [job EXCEPT ![j].pc = x, ![j].old = job[j].old, ![j].made = job[j].made]
  BY <1>1 DEF Goto, JobStates
<1> QED BY <1>1, <1>2, GoesOn DEF JobStates

LEMMA ComesToRest ==
    ASSUME BaseInv, VersionAssumption, NEW j \in Jobs, job[j].pc # "idle", UNCHANGED up, Rests(j)
    PROVE  Moves(j)
<1>1. job \in [Jobs -> JobStates] /\ Idle \in JobStates /\ Idle.data.n = 0 /\ up.n \in Nat
  BY JobTypes, Constants DEF UpStates
<1>2. job'[j] = Idle /\ Idle.pc = "idle"
  BY <1>1 DEF Rests, Idle
<1>3. Informed(job'[j])
  BY <1>1, <1>2 DEF Informed, Reading
<1> QED BY <1>1, <1>2, <1>3 DEF Rests, Moves

LEMMA EndsCheck ==
    ASSUME BaseInv, VersionAssumption, NEW j \in Jobs, job[j].pc # "idle", UNCHANGED up,
           VersionCheckEnds(j)
    PROVE  Moves(j)
BY JobTypes, GoesOn DEF VersionCheckEnds, Steps, Reading

LEMMA FetchMoves ==
    ASSUME BaseInv, VersionAssumption, NEW j \in Jobs, Fetched(j) \/ FetchFails(j)
    PROVE  Moves(j)
<1>1. job \in [Jobs -> JobStates] /\ up \in UpStates /\ MaxAttempts \in Nat \ {0}
  BY JobTypes
<1>2. ASSUME Fetched(j) PROVE Moves(j)
  <2> DEFINE x == AfterFetch(job[j].kind)
  <2>1. x \in Steps /\ (x \in Reading => job[j].kind = "versions" /\ HasText(up))
    BY DEF AfterFetch, Steps, Reading
  <2> HIDE DEF x
  <2>2. job' = [job EXCEPT ![j].data = up, ![j].tries = 0, ![j].pc = x] /\ up' = up
    BY <1>2 DEF Fetched, x
  <2>3. /\ job'[j].data = up /\ job'[j].pc = x /\ job'[j].kind = job[j].kind
        /\ job'[j] \in JobStates
    <3>1. job'[j] = [job[j] EXCEPT !.data = up, !.tries = 0, !.pc = x]
      BY <1>1, <2>2
    <3>2. job[j] \in JobStates /\ 0 \in 0..MaxAttempts
      BY <1>1
    <3> QED BY <1>1, <2>1, <3>1, <3>2 DEF JobStates
  <2>4. job' \in [Jobs -> JobStates] /\ \A k \in Jobs \ {j} : job'[k] = job[k]
    BY <1>1, <2>2, <2>3
  <2>5. Informed(job'[j])
    <3>1. up.n \in Nat
      BY <1>1, Constants DEF UpStates
    <3> QED BY <2>1, <2>2, <2>3, <3>1 DEF Informed
  <2> QED BY <1>2, <2>3, <2>4, <2>5 DEF Moves, Fetched
<1>3. ASSUME FetchFails(j) PROVE Moves(j)
  <2>1. job[j].pc = "fetch" /\ up' = up
    BY <1>3 DEF FetchFails
  <2>2. CASE job[j].tries + 1 < MaxAttempts /\ job' = [job EXCEPT ![j].tries = @ + 1]
    <3>1. /\ job'[j].data = job[j].data /\ job'[j].pc = "fetch" /\ job'[j].kind = job[j].kind
          /\ DOMAIN job' = Jobs
          /\ \A k \in Jobs \ {j} : job'[k] = job[k]
      BY <1>1, <2>1, <2>2 DEF JobStates
    <3>2. job'[j] \in JobStates
      <4>1. job[j].tries + 1 \in 0..MaxAttempts /\ job[j] \in JobStates
        BY <1>1, <2>2 DEF JobStates
      <4>2. job'[j] = [job[j] EXCEPT !.tries = @ + 1]
        BY <1>1, <2>2
      <4> QED BY <4>1, <4>2 DEF JobStates
    <3>3. job' \in [Jobs -> JobStates]
      BY <1>1, <2>2, <3>2
    <3>4. Informed(job'[j])
      BY <2>1, <3>1 DEF BaseInv, Informed, Reading
    <3> QED BY <2>1, <3>1, <3>3, <3>4 DEF Moves
  <2>3. CASE Rests(j)
    BY <2>1, <2>3, ComesToRest
  <2> QED BY <1>3, <2>2, <2>3 DEF FetchFails
<1> QED BY <1>2, <1>3

LEMMA StepMoves ==
    ASSUME BaseInv, VersionAssumption, NEW j \in Jobs, Step(j)
    PROVE  Moves(j)
<1>1. CASE Fetched(j) \/ FetchFails(j)
  BY <1>1, FetchMoves
<1>2. CASE ReadLedger(j)
  <2>1. job[j].pc = "read" /\ up' = up
    BY <1>2 DEF ReadLedger
  <2>2. CASE VersionCheckEnds(j)
    BY <2>1, <2>2, EndsCheck
  <2>3. CASE ~VersionCheckEnds(j)
    <3> DEFINE o == IF LatestRow = None THEN 0 ELSE ledger[LatestRow].count
               x == IF LatestRow = None /\ job[j].data.n > 1 THEN "backfill" ELSE "ingest"
    <3>1. job' = [job EXCEPT ![j].old = o, ![j].pc = x]
      BY <1>2, <2>3 DEF ReadLedger
    <3>2. o \in 0..Most
      BY JobTypes, LatestRowFacts, RecordedFinite DEF Rows
    <3>3. x \in Steps /\ x \in Reading
      BY DEF Steps, Reading
    <3> HIDE DEF o, x
    <3>4. job' = [job EXCEPT ![j].pc = x, ![j].old = o, ![j].made = job[j].made]
      BY <3>1, JobTypes DEF JobStates
    <3>5. job[j].made \in 0..Most
      BY JobTypes DEF JobStates
    <3> QED BY <2>1, <3>2, <3>3, <3>4, <3>5, GoesOn DEF Reading
  <2> QED BY <2>2, <2>3
<1>3. CASE Backfill(j)
  BY <1>3, GoesTo DEF Backfill, Steps, Reading
<1>4. CASE Ingest(j)
  <2>1. job[j].pc = "ingest" /\ up' = up
    BY <1>4 DEF Ingest
  <2>2. CASE Goto(j, "record")
    BY <2>1, <2>2, GoesTo DEF Steps, Reading
  <2>3. CASE job' = [job EXCEPT ![j].made = Chunks[Latest(job[j].data)], ![j].pc = "surplus"]
    <3>1. job[j].old \in 0..Most /\ Chunks[Latest(job[j].data)] \in 0..Most
      BY <2>1, JobTypes, CheckedVersion DEF JobStates, Reading
    <3> DEFINE m == Chunks[Latest(job[j].data)]
    <3> HIDE DEF m
    <3>2. job' = [job EXCEPT ![j].pc = "surplus", ![j].old = job[j].old, ![j].made = m]
      BY <2>3, JobTypes DEF JobStates, m
    <3> QED BY <2>1, <3>1, <3>2, GoesOn DEF Steps, Reading, m
  <2> QED BY <1>4, <2>2, <2>3 DEF Ingest
<1>5. CASE DeleteSurplus(j)
  BY <1>5, GoesTo DEF DeleteSurplus, Steps, Reading
<1>6. CASE Describe(j)
  BY <1>6, GoesTo DEF Describe, Steps, Reading
<1>7. CASE Record(j)
  BY <1>7, GoesTo, EndsCheck DEF Record, Steps, Reading
<1>8. CASE Announce(j)
  BY <1>8, EndsCheck DEF Announce
<1>9. CASE UpdateStatus(j)
  BY <1>9, ComesToRest DEF UpdateStatus
<1>10. CASE SyncVotes(j)
  BY <1>10, ComesToRest DEF SyncVotes
<1> QED
  BY <1>1, <1>2, <1>3, <1>4, <1>5, <1>6, <1>7, <1>8, <1>9, <1>10 DEF Step

LEMMA LedgerStep ==
    ASSUME BaseInv, VersionAssumption, NEW j \in Jobs, Step(j)
    PROVE  ledger' \in [Versions -> Rows] /\ Births' /\ (\A v \in Recorded' : v <= up.n)
<1> DEFINE Goal == ledger' \in [Versions -> Rows] /\ Births' /\ (\A v \in Recorded' : v <= up.n)
<1>0. /\ ledger \in [Versions -> Rows] /\ Births /\ \A v \in Recorded : v <= up.n
      /\ up \in UpStates
  BY JobTypes DEF BaseInv
<1>1. CASE UNCHANGED ledger
  BY <1>0, <1>1 DEF Births, Recorded
<1>2. CASE Backfill(j)
  <2> DEFINE d == job[j].data
  <2>1. d.n <= up.n /\ d.n \in 1..Len(Date) /\ d.url \in [Versions -> 0..MaxUrl]
    BY <1>2, CheckedVersion DEF Backfill, Reading
  <2>2. PICK failed \in SUBSET (1..d.n \ {Latest(d)}) :
           LET others == 1..d.n \ ({Latest(d)} \cup failed)
               Before(v) == Cardinality({w \in others \ Recorded : w < v})
           IN ledger' = [v \in Versions |->
                  IF v \notin others THEN ledger[v]
                  ELSE LET new == Written(v, d.url[v], 0) IN
                       IF v \in Recorded THEN new ELSE [new EXCEPT !.born = @ + Before(v)]]
    BY <1>2 DEF Backfill
  <2> DEFINE others == 1..d.n \ ({Latest(d)} \cup failed)
  <2>3. others \in SUBSET Versions /\ \A v \in others : v <= d.n
    BY <2>1, Constants
  <2>4. ledger' \in [Versions -> Rows] /\ Births' /\ Recorded' = Recorded \cup others
    <3> DEFINE url == d.url
    <3>1. WritesAll(others, url)
      BY <2>2 DEF WritesAll
    <3>2. url \in [Versions -> 0..MaxUrl]
      BY <2>1
    <3> HIDE DEF others, url
    <3> QED BY <1>0, <2>3, <3>1, <3>2, BackfilledRows
  <2>5. up.n \in Nat /\ Len(Date) \in Nat
    BY <1>0, Constants DEF UpStates
  <2>6. \A v \in others : v <= up.n
    BY <2>1, <2>3, <2>5
  <2> HIDE DEF others
  <2> QED BY <1>0, <2>4, <2>6
<1>3. CASE Record(j)
  <2> DEFINE v == Latest(job[j].data)  u == job[j].data.url[v]  c == job[j].made
  <2>1. /\ job[j].data.n \in 1..Len(Date) /\ v \in 1..job[j].data.n /\ v \in Versions
        /\ job[j].data.n <= up.n /\ u \in 0..MaxUrl
    BY <1>3, CheckedVersion DEF Record, Reading
  <2>2. c \in 0..Most
    BY JobTypes DEF JobStates
  <2>3. up.n \in Nat /\ Len(Date) \in Nat
    BY <1>0, Constants DEF UpStates
  <2>4. v <= up.n
    BY <2>1, <2>3
  <2>5. CASE ledger' = [ledger EXCEPT ![v] = Written(v, u, c)]
    <3>0. Writes(v, u, c)
      BY <2>5 DEF Writes
    <3> HIDE DEF v, u, c
    <3>1. ledger' \in [Versions -> Rows] /\ Births' /\ Recorded' = Recorded \cup {v}
      BY <1>0, <2>1, <2>2, <3>0, WrittenRow
    <3> QED BY <1>0, <2>4, <3>1
  <2> QED BY <1>1, <1>3, <2>5 DEF Record
<1> QED
  BY <1>1, <1>2, <1>3
  DEF Step, Fetched, FetchFails, ReadLedger, Ingest, DeleteSurplus, Describe, Announce,
      UpdateStatus, SyncVotes

\* The variables that are neither upstream's, the ledger nor the runs'.
PlainTypes ==
    /\ flagged \in BOOLEAN
    /\ index \in [Places -> {0} \cup Versions]
    /\ votes \in 0..MaxActivity /\ cms \in CmsStates
    /\ buttons \in {NoButtons} \cup [Places -> {0} \cup Versions]
    /\ manual \in 0..MaxManual /\ faults \in 0..MaxFaults
    /\ overlap \in BOOLEAN /\ kept \in BOOLEAN /\ unheard \in BOOLEAN

LEMMA PatchTypes ==
    ASSUME BaseInv, VersionAssumption, NEW j \in Jobs
    PROVE  Patched(j) \in CmsStates /\ VotesDocument(job[j].data) \in 0..MaxActivity
<1>1. /\ job[j].data \in UpStates /\ cms \in CmsStates /\ votes \in 0..MaxActivity
      /\ Len(Date) \in Nat /\ MaxUrl \in Nat
  BY JobTypes, Constants DEF JobStates, BaseInv, TypeOK, VersionAssumption
<1> DEFINE d == job[j].data
           gov == IF HasText(d) THEN <<Latest(d), d.url[Latest(d)]>> ELSE NoGov
<1>2. gov \in (0..Len(Date)) \X (0..MaxUrl)
  <2>1. CASE HasText(d)
    <3>1. d.n \in 1..Len(Date)
      BY <1>1, <2>1 DEF HasText, UpStates
    <3>2. Latest(d) \in Versions /\ Latest(d) \in 1..d.n
      BY <3>1, LatestFirst
    <3>3. d.url[Latest(d)] \in 0..MaxUrl /\ Latest(d) \in 0..Len(Date)
      BY <1>1, <3>1, <3>2 DEF UpStates
    <3> QED BY <2>1, <3>3
  <2>2. CASE ~HasText(d)
    BY <1>1, <2>2 DEF NoGov
  <2> QED BY <2>1, <2>2
<1>3. Patched(j).activity \in 0..MaxActivity
  BY <1>1 DEF Patched, CmsStates, UpStates
<1>4. Patched(j).gov \in {gov, cms.gov}
  BY DEF Patched
<1>5. Patched(j) = [activity |-> Patched(j).activity, gov |-> Patched(j).gov]
  BY DEF Patched
<1>6. VotesDocument(job[j].data) \in 0..MaxActivity
  BY <1>1 DEF VotesDocument, UpStates
<1> HIDE DEF gov
<1>7. Patched(j).gov \in (0..Len(Date)) \X (0..MaxUrl)
  BY <1>1, <1>2, <1>4 DEF CmsStates
<1> QED BY <1>3, <1>5, <1>6, <1>7 DEF CmsStates

\* A check replaces chunks of the index, and nothing else, by its version's.
LEMMA PlainStep ==
    ASSUME BaseInv, VersionAssumption, NEW j \in Jobs, Step(j)
    PROVE  PlainTypes' /\ up' = up /\ overlap' = overlap
<1>1. PlainTypes /\ MaxFaults \in Nat /\ faults \in Nat
  BY JobTypes DEF BaseInv, TypeOK, PlainTypes
<1>2. Fault => faults' \in 0..MaxFaults
  BY <1>1 DEF Fault
<1>3. CASE Fetched(j) \/ FetchFails(j) \/ ReadLedger(j) \/ Describe(j) \/ Record(j)
  <2>1. faults' \in 0..MaxFaults
    BY <1>1, <1>2, <1>3
    DEF Fetched, FetchFails, ReadLedger, Describe, Record, HistoryFails, ChangelogFails, PlainTypes
  <2> QED BY <1>1, <1>3, <2>1
      DEF Fetched, FetchFails, ReadLedger, Describe, Record, PlainTypes, history
<1>4. CASE Backfill(j)
  <2> DEFINE rest == 1..job[j].data.n \ {Latest(job[j].data)}
  <2>1. PICK failed \in SUBSET rest : /\ faults + Cardinality(failed) <= MaxFaults
                                     /\ faults' = faults + Cardinality(failed)
    BY <1>4 DEF Backfill
  <2>2. IsFiniteSet(failed)
    <3>1. job[j].data.n \in Nat
      BY <1>4, CheckedVersion DEF Backfill, Reading
    <3>2. IsFiniteSet(1..job[j].data.n) /\ failed \in SUBSET (1..job[j].data.n)
      BY <3>1, InitialSegment
    <3> QED BY <3>2, FS_Subset
  <2>3. faults' \in 0..MaxFaults
    BY <1>1, <2>1, <2>2, FS_CardinalityType
  <2> QED BY <1>1, <1>4, <2>3 DEF Backfill, PlainTypes, history
<1>5. CASE Ingest(j)
  <2>1. Latest(job[j].data) \in Versions
    BY <1>5, CheckedVersion DEF Ingest, Reading
  <2>2. faults' \in 0..MaxFaults
    BY <1>1, <1>2, <1>5 DEF Ingest, PlainTypes
  <2>3. index' \in [Places -> {0} \cup Versions]
    <3>1. index \in [Places -> {0} \cup Versions]
      BY <1>1 DEF PlainTypes
    <3>2. index' = index \/ \E k :
             index' = [i \in Places |-> IF i < k THEN Latest(job[j].data) ELSE index[i]]
      BY <1>5 DEF Ingest
    <3> QED BY <2>1, <3>1, <3>2
  <2> QED BY <1>1, <1>5, <2>2, <2>3 DEF Ingest, PlainTypes, history
<1>6. CASE DeleteSurplus(j)
  <2>1. index' \in [Places -> {0} \cup Versions] /\ faults' \in 0..MaxFaults
    BY <1>1, <1>2, <1>6 DEF DeleteSurplus, PlainTypes
  <2>2. kept' \in BOOLEAN
    BY <1>1, <1>6 DEF DeleteSurplus, PlainTypes
  <2> QED BY <1>1, <1>6, <2>1, <2>2 DEF DeleteSurplus, PlainTypes
<1>7. CASE Announce(j)
  <2>1. buttons' \in {NoButtons} \cup [Places -> {0} \cup Versions] /\ faults' \in 0..MaxFaults
        /\ unheard' \in BOOLEAN
    BY <1>1, <1>2, <1>7 DEF Announce, PlainTypes
  <2> QED BY <1>1, <1>7, <2>1 DEF Announce, PlainTypes
<1>8. CASE UpdateStatus(j)
  <2>1. cms' \in CmsStates /\ faults' \in 0..MaxFaults
    BY <1>1, <1>2, <1>8, PatchTypes DEF UpdateStatus, Patch, PlainTypes
  <2> QED BY <1>1, <1>8, <2>1 DEF UpdateStatus, PlainTypes, history
<1>9. CASE SyncVotes(j)
  <2>1. votes' \in 0..MaxActivity /\ faults' \in 0..MaxFaults
    BY <1>1, <1>2, <1>9, PatchTypes DEF SyncVotes, PlainTypes
  <2> QED BY <1>1, <1>9, <2>1 DEF SyncVotes, PlainTypes, history
<1> QED BY <1>3, <1>4, <1>5, <1>6, <1>7, <1>8, <1>9 DEF Step

LEMMA BaseRunStep ==
    ASSUME BaseInv, VersionAssumption, NEW j \in Jobs, Step(j)
    PROVE  BaseInv'
<1>1. Moves(j) /\ PlainTypes' /\ up' = up /\ overlap' = overlap
  BY StepMoves, PlainStep
<1>2. ledger' \in [Versions -> Rows] /\ Births' /\ (\A v \in Recorded' : v <= up.n)
  BY LedgerStep
<1>3. up' \in UpStates
  BY <1>1, JobTypes
<1>4. TypeOK'
  BY <1>1, <1>2, <1>3 DEF TypeOK, PlainTypes, Moves, JobStates, Rows
<1>5. \A k \in Jobs : Informed(job'[k])
  BY <1>1 DEF BaseInv, Moves, Informed
<1>6. \A k \in Jobs : Informed(job[k])'
  BY <1>1, <1>5 DEF Informed
<1>7. \A k \in Jobs : Checks(k)' => Checks(k)
  BY <1>1 DEF Checks, Moves
<1> QED BY <1>1, <1>2, <1>4, <1>6, <1>7 DEF BaseInv

\* A run is started: only a version check can meet another.
LEMMA BeginStep ==
    ASSUME BaseInv, VersionAssumption, NEW j \in Jobs, NEW k \in Kinds, Begin(j, k),
           overlap' \in BOOLEAN, flagged' = flagged,
           overlap' \/ (overlap' = overlap /\ k # "versions")
              \/ (overlap' = overlap /\ \A o \in Jobs \ {j} : ~Checks(o))
    PROVE  BaseInv'
<1>1. PlainTypes /\ MaxManual \in Nat /\ job \in [Jobs -> JobStates] /\ Idle \in JobStates
  BY JobTypes DEF BaseInv, TypeOK, PlainTypes, VersionAssumption
<1>2. manual' \in 0..MaxManual
  BY <1>1 DEF Begin, CallerStarts, PlainTypes
<1>3. PlainTypes'
  BY <1>1, <1>2 DEF Begin, PlainTypes
<1> DEFINE r == [Idle EXCEPT !.pc = "fetch", !.kind = k, !.snap = cms]
<1>4. r \in JobStates /\ r.pc = "fetch" /\ r.kind = k /\ r.data.n = 0
  BY <1>1, JobTypes DEF PlainTypes, JobStates, Steps
<1>5. job' = [job EXCEPT ![j] = r] /\ up' = up /\ ledger' = ledger
  BY DEF Begin
<1> HIDE DEF r
<1>6. job' \in [Jobs -> JobStates] /\ job'[j] = r /\ \A o \in Jobs \ {j} : job'[o] = job[o]
  BY <1>1, <1>4, <1>5
<1>7. TypeOK'
  BY <1>3, <1>5, <1>6, JobTypes DEF TypeOK, PlainTypes, JobStates, Rows
<1>8. \A o \in Jobs : Informed(job'[o])
  <2>1. up.n \in Nat
    BY JobTypes, Constants DEF UpStates
  <2>2. Informed(r)
    BY <1>4, <2>1 DEF Informed, Reading
  <2>3. \A o \in Jobs : Informed(job[o])
    BY DEF BaseInv
  <2> QED BY <1>6, <2>2, <2>3
<1>9. \A o \in Jobs : Informed(job[o])'
  BY <1>5, <1>8 DEF Informed
<1>10. Births' /\ (\A v \in Recorded : v <= up.n)'
  BY <1>5 DEF Births, Recorded, BaseInv
<1>11. (~overlap => \A a, b \in Jobs : Checks(a) /\ Checks(b) => a = b)'
  <2>1. \A o \in Jobs \ {j} : Checks(o)' <=> Checks(o)
    BY <1>6 DEF Checks
  <2>2. Checks(j)' => k = "versions"
    BY <1>4, <1>6 DEF Checks
  <2> QED BY <2>1, <2>2 DEF BaseInv
<1> QED BY <1>7, <1>9, <1>10, <1>11 DEF BaseInv

\* Upstream only adds versions.
LEMMA UpstreamStep ==
    ASSUME BaseInv, VersionAssumption, up' \in UpStates, up'.n >= up.n,
           UNCHANGED <<flagged, ledger, index, votes, cms, job, buttons, manual, faults, history>>
    PROVE  BaseInv'
<1>1. TypeOK'
  BY DEF BaseInv, TypeOK, history
<1>2. /\ \A v \in Recorded : v \in Nat
      /\ \A j \in Jobs : job[j].data.n \in Nat
      /\ up.n \in Nat /\ up'.n \in Nat
  <2>1. Versions \subseteq Nat /\ 0..Len(Date) \subseteq Nat
    BY Constants
  <2>2. \A j \in Jobs : job[j].data \in UpStates
    BY JobTypes DEF JobStates
  <2>3. \A u \in UpStates : u.n \in Nat
    BY <2>1 DEF UpStates
  <2> QED BY <2>1, <2>2, <2>3, RecordedFinite, JobTypes
<1>3. Births' /\ (\A v \in Recorded : v <= up.n)'
  <2>1. ledger' = ledger /\ Recorded' = Recorded
    BY DEF Recorded
  <2>2. Births'
    BY <2>1 DEF BaseInv, Births
  <2>3. \A v \in Recorded : v <= up'.n
    BY <1>2 DEF BaseInv
  <2> QED BY <2>1, <2>2, <2>3
<1>4. \A j \in Jobs : Informed(job[j])'
  BY <1>2 DEF BaseInv, Informed
<1> QED BY <1>1, <1>3, <1>4 DEF BaseInv, Checks, history

LEMMA BaseStep ==
    ASSUME BaseInv, VersionAssumption, [Next]_vars
    PROVE  BaseInv'
<1>0. up \in UpStates /\ Len(Date) \in Nat /\ Versions = 1..Len(Date) /\ MaxUrl \in Nat \ {0}
      /\ MaxActivity \in Nat
  BY JobTypes, Constants DEF VersionAssumption
<1>1. CASE Publish
  <2> DEFINE a == IF up.n + 1 \in Unlinked THEN 0 ELSE 1
  <2>1. up' = [up EXCEPT !.n = @ + 1, !.url[up.n + 1] = a] /\ up.n < Len(Date) /\ a \in 0..MaxUrl
    BY <1>0, <1>1 DEF Publish
  <2> HIDE DEF a
  <2>2. up' \in UpStates /\ up'.n >= up.n
    <3>1. up' = [n |-> up.n + 1, url |-> [up.url EXCEPT ![up.n + 1] = a],
                 activity |-> up.activity]
      BY <1>0, <2>1 DEF UpStates
    <3>2. up.n + 1 \in 0..Len(Date) /\ up.url \in [Versions -> 0..MaxUrl]
          /\ up.activity \in 0..MaxActivity /\ up.n \in Nat
      BY <1>0, <2>1 DEF UpStates
    <3>3. [up.url EXCEPT ![up.n + 1] = a] \in [Versions -> 0..MaxUrl]
      BY <2>1, <3>2
    <3>4. up' \in UpStates
      BY <3>1, <3>2, <3>3 DEF UpStates
    <3> QED BY <3>1, <3>2, <3>4
  <2> QED BY <1>1, <2>2, UpstreamStep DEF Publish
<1>2. CASE MoveText
  <2>1. PICK v \in Versions : up.url[v] < MaxUrl /\ up' = [up EXCEPT !.url[v] = @ + 1]
    BY <1>2 DEF MoveText, VersionAssumption
  <2>2. up' \in UpStates /\ up'.n >= up.n
    <3>1. up' = [n |-> up.n, url |-> [up.url EXCEPT ![v] = @ + 1], activity |-> up.activity]
      BY <1>0, <2>1 DEF UpStates
    <3>2. up.n \in 0..Len(Date) /\ up.url \in [Versions -> 0..MaxUrl]
          /\ up.activity \in 0..MaxActivity
      BY <1>0 DEF UpStates
    <3>3. up.url[v] + 1 \in 0..MaxUrl
      <4>1. up.url[v] \in 0..MaxUrl /\ up.url[v] < MaxUrl /\ MaxUrl \in Nat
        BY <1>0, <2>1, <3>2
      <4> QED BY <4>1
    <3>4. [up.url EXCEPT ![v] = @ + 1] \in [Versions -> 0..MaxUrl]
      BY <3>2, <3>3
    <3>5. up' \in UpStates
      BY <3>1, <3>2, <3>4 DEF UpStates
    <3> QED BY <1>0, <3>1, <3>2, <3>5
  <2> QED BY <1>2, <2>2, UpstreamStep DEF MoveText
<1>3. CASE Act
  <2>1. up' \in UpStates /\ up'.n >= up.n
    <3>1. up' = [n |-> up.n, url |-> up.url, activity |-> up.activity + 1]
          /\ up.activity < MaxActivity
      BY <1>0, <1>3 DEF Act, UpStates
    <3>2. up.n \in 0..Len(Date) /\ up.url \in [Versions -> 0..MaxUrl]
          /\ up.activity + 1 \in 0..MaxActivity
      BY <1>0, <3>1 DEF UpStates
    <3>3. up' \in UpStates
      BY <3>1, <3>2 DEF UpStates
    <3> QED BY <1>0, <3>1, <3>2, <3>3
  <2> QED BY <1>3, <2>1, UpstreamStep DEF Act
<1>4. CASE Flag \/ Tap \/ UNCHANGED vars
  <2>1. TypeOK'
    BY <1>4 DEF Flag, Tap, vars, history, BaseInv, TypeOK
  <2>2. UNCHANGED <<ledger, up, job, overlap>>
    BY <1>4 DEF Flag, Tap, vars, history
  <2> QED BY <2>1, <2>2 DEF BaseInv, Births, Recorded, Informed, Checks
<1>5. CASE Die
  <2>1. job' \in [Jobs -> JobStates] /\ \A j \in Jobs : job'[j] = Idle
    BY <1>5, JobTypes DEF Die
  <2>2. TypeOK'
    <3>1. faults' \in 0..MaxFaults
      BY <1>5, JobTypes DEF Die, Fault
    <3>2. unheard' \in BOOLEAN
      BY <1>5 DEF Die, BaseInv, TypeOK
    <3> QED BY <1>5, <2>1, <3>1, <3>2 DEF Die, BaseInv, TypeOK, JobStates
  <2>3. up.n \in Nat
    BY <1>0 DEF UpStates
  <2>4. \A j \in Jobs : Informed(job[j])' /\ ~Checks(j)'
    <3>1. Idle.pc = "idle" /\ Idle.data.n = 0
      BY DEF Idle, NoUp
    <3> QED BY <1>5, <2>1, <2>3, <3>1 DEF Die, Informed, Reading, Checks
  <2> QED BY <1>5, <2>2, <2>4 DEF Die, BaseInv, Births, Recorded
<1>6. ASSUME NEW j \in Jobs, Step(j) PROVE BaseInv'
  BY <1>6, BaseRunStep
<1>7. ASSUME NEW j \in Jobs, StartVersions(j) PROVE BaseInv'
  <2>1. Begin(j, "versions") /\ flagged' = flagged
    BY <1>7 DEF StartVersions, Begin
  <2>2. overlap' = (overlap \/ \E o \in Jobs \ {j} : Checks(o)) /\ overlap \in BOOLEAN
    BY <1>7 DEF StartVersions, Checks, BaseInv, TypeOK
  <2> QED BY <2>1, <2>2, BeginStep DEF Kinds
<1>8. ASSUME NEW j \in Jobs, NEW k \in {"statuses", "votes"}, Begin(j, k), UNCHANGED overlap
      PROVE  BaseInv'
  <2>1. flagged' = flagged /\ overlap' \in BOOLEAN
    BY <1>8 DEF Begin, BaseInv, TypeOK
  <2> QED BY <1>8, <2>1, BeginStep DEF Kinds
<1> QED BY <1>1, <1>2, <1>3, <1>4, <1>5, <1>6, <1>7, <1>8 DEF Next, StartStatuses, StartVotes

LEMMA BaseInit == ASSUME VersionAssumption, Init PROVE BaseInv
<1>1. /\ Len(Date) \in Nat /\ Most \in Nat /\ MaxUrl \in Nat /\ MaxActivity \in Nat
      /\ MaxManual \in Nat /\ MaxFaults \in Nat /\ MaxAttempts \in Nat
  BY Constants DEF VersionAssumption
<1>2. /\ NoUp \in UpStates /\ NoUp.n = 0 /\ NoCms \in CmsStates /\ NoRow \in Rows
      /\ Idle \in JobStates /\ Idle.pc = "idle" /\ Idle.data.n = 0
  BY <1>1 DEF NoUp, NoCms, NoGov, NoRow, Idle, UpStates, CmsStates, Rows, JobStates, Steps, Kinds
<1>3. TypeOK
  <2>1. up \in UpStates /\ cms \in CmsStates /\ ledger \in [Versions -> Rows]
        /\ job \in [Jobs -> JobStates] /\ index \in [Places -> {0} \cup Versions]
    BY <1>2 DEF Init
  <2>2. flagged \in BOOLEAN /\ overlap \in BOOLEAN /\ kept \in BOOLEAN /\ unheard \in BOOLEAN
        /\ buttons \in {NoButtons}
    BY DEF Init
  <2>3. votes \in 0..MaxActivity /\ manual \in 0..MaxManual /\ faults \in 0..MaxFaults
    BY <1>1 DEF Init
  <2> QED BY <2>1, <2>2, <2>3 DEF TypeOK, JobStates, Rows
<1>4. Recorded = {}
  BY DEF Init, Recorded, NoRow
<1>5. \A j \in Jobs : Informed(job[j]) /\ ~Checks(j)
  BY <1>2 DEF Init, Informed, Reading, Checks
<1> QED BY <1>3, <1>4, <1>5 DEF BaseInv, Births

LEMMA BaseInvariance == Spec => []BaseInv
<1>1. Init => BaseInv
  BY VersionAssumption, BaseInit
<1>2. BaseInv /\ [Next]_vars => BaseInv'
  BY VersionAssumption, BaseStep
<1> QED BY <1>1, <1>2, PTL DEF Spec

\* The variables of the bill jobs keep their types, for any versions, texts,
\* jobs and retries: a row's number stays within the number of versions, since
\* rows are numbered as they are created (write_bill_version).
THEOREM VersionTypes == Spec => []TypeOK
<1>1. BaseInv => TypeOK
  BY DEF BaseInv
<1> QED BY <1>1, BaseInvariance, PTL

-----------------------------------------------------------------------------
(* The buttons.                                                            *)

\* A check that has replaced text and has yet to announce it.
Owes(j) == job[j].pc \in {"surplus", "describe", "record", "publish"} /\ job[j].made > 0

\* A cached answer is from the present text, or somebody will announce that it
\* is not, or an announcement was lost.
ButtonsInv ==
    /\ unheard \/ buttons \in {NoButtons, index} \/ \E j \in Jobs : Owes(j)
    /\ \A j \in Jobs : job[j].pc \in {"surplus", "describe", "publish"} => Owes(j)

\* A check that owes an announcement goes on owing it until it announces; it
\* owes one before the next step when it has changed the index.
LEMMA OwesStep ==
    ASSUME BaseInv, VersionAssumption, ButtonsInv, NEW j \in Jobs, Step(j), ~Announce(j)
    PROVE  /\ index' # index => Owes(j)'
           /\ Owes(j) => Owes(j)'
           /\ job'[j].pc \in {"surplus", "describe", "publish"} => Owes(j)'
           /\ UNCHANGED <<buttons, unheard>>
<1>0. job \in [Jobs -> JobStates]
  BY JobTypes
<1>1. CASE \/ Fetched(j) \/ FetchFails(j) \/ ReadLedger(j) \/ Backfill(j)
           \/ UpdateStatus(j) \/ SyncVotes(j)
  <2>1. job[j].pc \notin {"surplus", "describe", "record", "publish"} /\ index' = index
        /\ UNCHANGED <<buttons, unheard>>
    BY <1>1 DEF Fetched, FetchFails, ReadLedger, Backfill, UpdateStatus, SyncVotes, history
  <2>2. job'[j].pc \notin {"surplus", "describe", "record", "publish"}
    <3>1. CASE Rests(j) \/ VersionCheckEnds(j)
      BY <1>0, <3>1 DEF Rests, VersionCheckEnds, Idle, JobStates
    <3>2. CASE Fetched(j)
      <4> DEFINE x == AfterFetch(job[j].kind)
      <4>1. x \in {"votes", "read", "status"}
        BY DEF AfterFetch
      <4> HIDE DEF x
      <4>2. job'[j].pc = x
        BY <1>0, <3>2 DEF Fetched, JobStates, x
      <4> QED BY <4>1, <4>2
    <3>3. CASE FetchFails(j) /\ ~Rests(j)
      BY <1>0, <3>3 DEF FetchFails, JobStates
    <3>4. CASE ReadLedger(j) /\ ~VersionCheckEnds(j)
      <4>1. job'[j].pc \in {"backfill", "ingest"}
        BY <1>0, <3>4 DEF ReadLedger, JobStates
      <4> QED BY <4>1
    <3>5. CASE Backfill(j)
      BY <1>0, <3>5 DEF Backfill, Goto, JobStates
    <3> QED BY <1>1, <3>1, <3>2, <3>3, <3>4, <3>5 DEF UpdateStatus, SyncVotes
  <2> QED BY <2>1, <2>2 DEF Owes
<1>2. CASE Ingest(j)
  <2>1. job[j].pc = "ingest" /\ UNCHANGED <<buttons, unheard>>
    BY <1>2 DEF Ingest, history
  <2>2. Chunks[Latest(job[j].data)] > 0
    BY <2>1, CheckedVersion DEF Reading
  <2>3. CASE job' = [job EXCEPT ![j].made = Chunks[Latest(job[j].data)], ![j].pc = "surplus"]
    BY <1>0, <2>1, <2>2, <2>3 DEF Owes, JobStates
  <2>4. CASE Goto(j, "record") /\ index' = index
    BY <1>0, <2>1, <2>4 DEF Goto, Owes, JobStates
  <2> QED BY <1>2, <2>1, <2>3, <2>4 DEF Ingest
<1>3. CASE DeleteSurplus(j) \/ Describe(j)
  <2>1. job[j].pc \in {"surplus", "describe"} /\ UNCHANGED <<buttons, unheard>>
        /\ (Goto(j, "describe") \/ Goto(j, "record"))
    BY <1>3 DEF DeleteSurplus, Describe, history
  <2>2. Owes(j)
    BY <2>1 DEF ButtonsInv
  <2>3. job'[j].pc \in {"describe", "record"} /\ job'[j].made = job[j].made
    BY <1>0, <2>1 DEF Goto, JobStates
  <2> QED BY <2>1, <2>2, <2>3 DEF Owes
<1>4. CASE Record(j)
  <2>1. job[j].pc = "record" /\ index' = index /\ UNCHANGED <<buttons, unheard>>
    BY <1>4 DEF Record, history
  <2>2. CASE job[j].made > 0
    <3>1. job'[j].pc = "publish" /\ job'[j].made = job[j].made
      BY <1>0, <1>4, <2>2 DEF Record, Goto, JobStates
    <3> QED BY <2>1, <2>2, <3>1 DEF Owes
  <2>3. CASE ~(job[j].made > 0)
    <3>1. job'[j].pc = "status"
      BY <1>0, <1>4, <2>3 DEF Record, VersionCheckEnds, JobStates
    <3> QED BY <2>1, <2>3, <3>1 DEF Owes
  <2> QED BY <2>2, <2>3
<1> QED BY <1>1, <1>2, <1>3, <1>4 DEF Step

LEMMA ButtonsStep ==
    ASSUME BaseInv, VersionAssumption, ButtonsInv, [Next]_vars
    PROVE  ButtonsInv'
<1>0. job \in [Jobs -> JobStates]
  BY JobTypes
<1>1. ASSUME NEW j \in Jobs, Step(j), ~Announce(j) PROVE ButtonsInv'
  <2>1. /\ index' # index => Owes(j)'
        /\ Owes(j) => Owes(j)'
        /\ job'[j].pc \in {"surplus", "describe", "publish"} => Owes(j)'
        /\ UNCHANGED <<buttons, unheard>>
    BY <1>1, OwesStep
  <2>2. \A k \in Jobs \ {j} : job'[k] = job[k]
    BY <1>1, StepMoves DEF Moves
  <2>3. \A k \in Jobs \ {j} : Owes(k) => Owes(k)'
    BY <2>2 DEF Owes
  <2>4. \A k \in Jobs : job'[k].pc \in {"surplus", "describe", "publish"} => Owes(k)'
    BY <2>1, <2>2, <2>3 DEF ButtonsInv
  <2> QED BY <2>1, <2>3, <2>4 DEF ButtonsInv
<1>2. ASSUME NEW j \in Jobs, Announce(j) PROVE ButtonsInv'
  <2>1. \A k \in Jobs \ {j} : job'[k] = job[k]
    BY <1>0, <1>2 DEF Announce, VersionCheckEnds
  <2>2. job'[j].pc = "status"
    BY <1>0, <1>2 DEF Announce, VersionCheckEnds, JobStates
  <2>3. buttons' = NoButtons \/ unheard'
    BY <1>2 DEF Announce
  <2>4. \A k \in Jobs : job'[k].pc \in {"surplus", "describe", "publish"} => Owes(k)'
    BY <2>1, <2>2 DEF ButtonsInv, Owes
  <2> QED BY <2>3, <2>4 DEF ButtonsInv
<1>3. CASE Die
  <2>1. \A k \in Jobs : job'[k].pc = "idle"
    BY <1>3 DEF Die, Idle
  <2>2. (\E k \in Jobs : Owes(k)) => unheard'
    BY <1>3 DEF Die, Owes
  <2> QED BY <1>3, <2>1, <2>2 DEF Die, ButtonsInv, Owes
<1>4. ASSUME NEW j \in Jobs, NEW k \in Kinds, Begin(j, k) PROVE ButtonsInv'
  <2>1. \A o \in Jobs \ {j} : job'[o] = job[o]
    BY <1>0, <1>4 DEF Begin
  <2>2. job'[j].pc = "fetch" /\ job[j].pc = "idle"
    BY <1>0, <1>4 DEF Begin, Idle
  <2>3. UNCHANGED <<buttons, unheard, index>>
    BY <1>4 DEF Begin
  <2>4. \A o \in Jobs : (Owes(o) => Owes(o)')
                        /\ (job'[o].pc \in {"surplus", "describe", "publish"} => Owes(o)')
    BY <2>1, <2>2 DEF ButtonsInv, Owes
  <2> QED BY <2>3, <2>4 DEF ButtonsInv
<1>5. CASE Publish \/ MoveText \/ Act \/ Flag \/ Tap \/ UNCHANGED vars
  <2>1. UNCHANGED <<job, index, unheard>> /\ (buttons' = buttons \/ buttons' = index)
    BY <1>5 DEF Publish, MoveText, Act, Flag, Tap, vars, history
  <2> QED BY <2>1 DEF ButtonsInv, Owes
<1> QED
  BY <1>1, <1>2, <1>3, <1>4, <1>5 DEF Next, StartVersions, StartStatuses, StartVotes, Kinds

\* VoteBot never keeps an answer made from text that has been replaced
\* (check_and_reingest_version publishes last): once no check is under way a
\* cached answer is from the present index, for any versions and jobs and any
\* number of failing calls and overlapping checks, unless an announcement was
\* lost.
THEOREM VersionButtonsFresh == Spec => []ButtonsFresh
<1>1. Init => ButtonsInv
  BY DEF Init, ButtonsInv, Idle
<1>2. BaseInv /\ ButtonsInv /\ [Next]_vars => ButtonsInv'
  BY VersionAssumption, ButtonsStep
<1>3. ButtonsInv => ButtonsFresh
  BY DEF ButtonsInv, ButtonsFresh, AtRest, InVersionCheck, Owes
<1> QED BY <1>1, <1>2, <1>3, BaseInvariance, PTL DEF Spec

-----------------------------------------------------------------------------
(* The text.                                                               *)

\* v is the row the ledger answers with, and stays it: of an equal date there
\* are only versions later in upstream's list, with rows created before.
Leads(v) ==
    /\ v \in Recorded
    /\ \A w \in Recorded :
          \/ w = v
          \/ Date[w] < Date[v]
          \/ Date[w] = Date[v] /\ v < w /\ ledger[w].born < ledger[v].born

Text(v) == [i \in Places |-> IF i < Chunks[v] THEN v ELSE 0]
Blank == [i \in Places |-> 0]

\* What OneText asks, and as much of the ledger as the next check needs.
Rested ==
    \/ Recorded = {} /\ index = Blank
    \/ \E v \in Recorded : Leads(v) /\ index = Text(v) /\ ledger[v].count = Chunks[v]

\* The version a check works on is not on record, or is the one that leads.
Due(v) == v \in Recorded => Leads(v)

\* The index and the ledger while a run of state r works on them.
Backfills(r) == Recorded = {} /\ index = Blank /\ r.old = 0
Ingests(r) ==
    \/ r.old = 0 /\ index = Blank
    \/ \E x \in Recorded : index = Text(x) /\ r.old = Chunks[x]
Trims(r) ==
    /\ r.made = Chunks[Latest(r.data)]
    /\ \A i \in Places : /\ i < r.made => index[i] = Latest(r.data)
                         /\ i >= r.made /\ i >= r.old => index[i] = 0
Records(r) == r.made = Chunks[Latest(r.data)] /\ index = Text(Latest(r.data))

Phase(r) ==
    /\ r.pc = "backfill" => Backfills(r)
    /\ r.pc \in {"ingest", "surplus", "describe", "record"} => Due(Latest(r.data))
    /\ r.pc = "ingest" => Ingests(r)
    /\ r.pc = "surplus" => Trims(r)
    /\ r.pc \in {"describe", "record"} => Records(r)

Changing == {"backfill", "ingest", "surplus", "describe", "record"}
Calm == faults = 0 /\ ~overlap /\ ~kept

\* The versions on record were all in the list a check has fetched.
Abreast(r) == r.pc \in Reading => \A v \in Recorded : v <= r.data.n

TextInv ==
    Calm =>
      /\ \A j \in Jobs : Phase(job[j]) /\ Abreast(job[j])
      /\ (\A j \in Jobs : job[j].pc \notin Changing) => Rested

-----------------------------------------------------------------------------
(* The row that leads.                                                     *)

LEMMA LeaderIsLatest ==
    ASSUME VersionAssumption, ledger \in [Versions -> Rows], NEW v, Leads(v)
    PROVE  LatestRow = v
<1>1. \A w \in Recorded : w \in Nat /\ Date[w] \in Nat /\ ledger[w].born \in Nat
  BY RecordedFinite, Constants DEF Rows
<1>2. v \in Recorded /\ LatestRow \in Recorded
      /\ (\/ Date[v] < Date[LatestRow]
          \/ Date[v] = Date[LatestRow] /\ ledger[v].born <= ledger[LatestRow].born)
  BY LatestRowFacts DEF Leads
<1>3. \/ LatestRow = v
      \/ Date[LatestRow] < Date[v]
      \/ Date[LatestRow] = Date[v] /\ ledger[LatestRow].born < ledger[v].born
  BY <1>2 DEF Leads
<1> HIDE DEF LatestRow
<1> QED BY <1>1, <1>2, <1>3

\* Of a list that holds every version on record, the latest is not on record
\* or leads: no later list puts another version before the one recorded last.
LEMMA LatestIsDue ==
    ASSUME VersionAssumption, NEW d, d.n \in 1..Len(Date), \A v \in Recorded : v <= d.n,
           NEW x, Leads(x)
    PROVE  Due(Latest(d))
<1> DEFINE v == Latest(d)
<1>1. SUFFICES ASSUME v \in Recorded, x # v PROVE FALSE
  BY DEF Due
<1>2. x \in Recorded /\ x \in 1..d.n /\ v \in 1..d.n
  <2>1. \A w \in Recorded : w \in 1..d.n
    BY RecordedFinite, Constants
  <2> QED BY <1>1, <2>1 DEF Leads
<1>3. Date[x] < Date[v] \/ (Date[x] = Date[v] /\ v <= x)
  BY <1>2, LatestFirst
<1>4. Date[v] < Date[x] \/ (Date[v] = Date[x] /\ x < v)
  <2> HIDE DEF v
  <2> QED BY <1>1 DEF Leads
<1>5. Date[x] \in Nat /\ Date[v] \in Nat /\ x \in Nat /\ v \in Nat
  <2>1. Recorded \subseteq Versions /\ Versions \subseteq Nat
        /\ \A w \in Versions : Date[w] \in Nat
    BY RecordedFinite, Constants
  <2> HIDE DEF v
  <2> QED BY <1>1, <1>2, <2>1
<1> HIDE DEF v
<1> QED BY <1>3, <1>4, <1>5

\* The row written by a check leads afterwards.
LEMMA WrittenLeads ==
    ASSUME VersionAssumption, ledger \in [Versions -> Rows], Births,
           NEW d, d.n \in 1..Len(Date), \A w \in Recorded : w <= d.n,
           NEW v \in Versions, v = Latest(d), Due(v),
           NEW u \in 0..MaxUrl, NEW c \in 0..Most,
           Writes(v, u, c)
    PROVE  Leads(v)' /\ ledger'[v].count = c /\ Recorded' = Recorded \cup {v}
<1>1. v \in 1..d.n /\ v \in Versions
  BY LatestFirst
<1>2. /\ Recorded' = Recorded \cup {v} /\ ledger'[v].count = c
      /\ \A w \in Versions \ {v} : ledger'[w] = ledger[w]
      /\ v \in Recorded => ledger'[v].born = ledger[v].born
      /\ v \notin Recorded => ledger'[v].born = Cardinality(Recorded) + 1
  <2>1. /\ ledger' \in [Versions -> Rows] /\ Births'
        /\ Recorded' = Recorded \cup {v} /\ ledger'[v].count = c
        /\ \A w \in Versions \ {v} : ledger'[w] = ledger[w]
        /\ v \in Recorded => ledger'[v].born = ledger[v].born
        /\ v \notin Recorded => ledger'[v].born = Cardinality(Recorded) + 1
    BY WrittenRow
  <2> QED BY <2>1
<1>3. ASSUME NEW w \in Recorded, w # v
      PROVE  Date[w] < Date[v] \/ (Date[w] = Date[v] /\ v < w /\ ledger'[w].born < ledger'[v].born)
  <2>1. w \in Versions /\ w \in 1..d.n
    <3>1. w \in Versions /\ w \in Nat /\ w >= 1
      <4>1. Recorded \subseteq Versions /\ Versions = 1..Len(Date) /\ Len(Date) \in Nat
        BY RecordedFinite, Constants
      <4> QED BY <4>1
    <3>2. d.n \in Nat /\ w <= d.n
      BY Constants
    <3> QED BY <3>1, <3>2
  <2>2. ledger'[w].born = ledger[w].born /\ ledger[w].born \in Nat
    <3>1. ledger'[w] = ledger[w]
      BY <1>2, <1>3, <2>1
    <3>2. ledger[w].born \in 0..Len(Date) /\ Len(Date) \in Nat
      BY <2>1, Constants DEF Rows
    <3> QED BY <3>1, <3>2
  <2>3. CASE v \in Recorded
    <3>1. Date[w] < Date[v] \/ (Date[w] = Date[v] /\ v < w /\ ledger[w].born < ledger[v].born)
      BY <1>3, <2>3 DEF Due, Leads
    <3> QED BY <1>2, <2>2, <2>3, <3>1
  <2>4. CASE v \notin Recorded
    <3>1. Date[w] < Date[v] \/ (Date[w] = Date[v] /\ v <= w)
      BY <2>1, LatestFirst
    <3>2. ledger[w].born <= Cardinality(Recorded) /\ Cardinality(Recorded) \in Nat
      BY RecordedFinite DEF Births
    <3>3. v \in Nat /\ w \in Nat
      BY <1>1, <2>1
    <3>4. ledger'[v].born = Cardinality(Recorded) + 1
      BY <1>2, <2>4
    <3>5. ledger'[w].born < ledger'[v].born
      BY <2>2, <3>2, <3>4
    <3>6. v <= w => v < w
      BY <1>3, <3>3
    <3> QED BY <3>1, <3>5, <3>6
  <2> QED BY <2>3, <2>4
<1>4. Leads(v)'
  <2>1. v \in Recorded'
    BY <1>2
  <2>2. \A w \in Recorded' : \/ w = v
                             \/ Date[w] < Date[v]
                             \/ Date[w] = Date[v] /\ v < w /\ ledger'[w].born < ledger'[v].born
    BY <1>2, <1>3
  <2> QED BY <2>1, <2>2 DEF Leads
<1> QED BY <1>2, <1>4

-----------------------------------------------------------------------------
(* A check on the index, as long as nothing fails.                         *)

LEMMA TextTypes ==
    ASSUME BaseInv, VersionAssumption
    PROVE  index \in [Places -> {0} \cup Versions] /\ Places \subseteq Nat
           /\ \A i \in Places : i >= 0
BY Constants DEF BaseInv, TypeOK

\* What the ledger tells a check that has it to itself.
LEMMA ReadText ==
    ASSUME BaseInv, VersionAssumption, Rested,
           NEW d, d.n \in 1..Len(Date), \A w \in Recorded : w <= d.n
    PROVE  /\ Due(Latest(d))
           /\ LatestRow = None => Recorded = {} /\ index = Blank
           /\ LatestRow # None => /\ LatestRow \in Recorded /\ index = Text(LatestRow)
                                  /\ ledger[LatestRow].count = Chunks[LatestRow]
<1>1. ledger \in [Versions -> Rows]
  BY JobTypes
<1>2. CASE Recorded = {} /\ index = Blank
  BY <1>1, <1>2, LatestRowFacts DEF Due
<1>3. CASE \E v \in Recorded : Leads(v) /\ index = Text(v) /\ ledger[v].count = Chunks[v]
  <2>1. PICK v \in Recorded : Leads(v) /\ index = Text(v) /\ ledger[v].count = Chunks[v]
    BY <1>3
  <2>2. LatestRow = v
    BY <1>1, <2>1, LeaderIsLatest
  <2>3. Due(Latest(d))
    BY <2>1, LatestIsDue
  <2>4. LatestRow # None
    BY <1>1, <2>1, LatestRowFacts
  <2> HIDE DEF LatestRow
  <2> QED BY <2>1, <2>2, <2>3, <2>4
<1> QED BY <1>2, <1>3 DEF Rested

\* _ingest_bill_text over what was there.
LEMMA IngestText ==
    ASSUME BaseInv, VersionAssumption, NEW r \in JobStates, Ingests(r), NEW v \in Versions,
           index' = [i \in Places |-> IF i < Chunks[v] THEN v ELSE index[i]]
    PROVE  \A i \in Places : /\ i < Chunks[v] => index'[i] = v
                             /\ i >= Chunks[v] /\ i >= r.old => index'[i] = 0
<1>1. Places \subseteq Nat /\ Chunks[v] \in Nat /\ \A x \in Recorded : Chunks[x] \in Nat
  BY Constants, RecordedFinite
<1>2. \A i \in Places : i >= r.old => index[i] = 0
  <2>1. CASE r.old = 0 /\ index = Blank
    BY <2>1 DEF Blank
  <2>2. CASE \E x \in Recorded : index = Text(x) /\ r.old = Chunks[x]
    <3>1. PICK x \in Recorded : index = Text(x) /\ r.old = Chunks[x]
      BY <2>2
    <3> QED BY <1>1, <3>1 DEF Text
  <2> QED BY <2>1, <2>2 DEF Ingests
<1>3. \A i \in Places : i < Chunks[v] \/ i >= Chunks[v]
  BY <1>1
<1>4. \A i \in Places : i >= Chunks[v] => ~(i < Chunks[v])
  BY <1>1
<1> QED BY <1>2, <1>3, <1>4

\* delete_surplus_chunks takes away what a longer predecessor left.
LEMMA TrimText ==
    ASSUME BaseInv, VersionAssumption, NEW r \in JobStates, Trims(r),
           ~Implausible(r.old, r.made),
           index' = [i \in Places |-> IF i \in Surplus(r.old, r.made) THEN 0 ELSE index[i]]
    PROVE  index' = Text(Latest(r.data))
<1> DEFINE v == Latest(r.data)
<1>1. /\ r.made = Chunks[v]
      /\ \A i \in Places : /\ i < r.made => index[i] = v
                           /\ i >= r.made /\ i >= r.old => index[i] = 0
  BY DEF Trims
<1>2. Places \subseteq Nat /\ r.old \in Nat /\ r.made \in Nat
  BY Constants DEF JobStates
<1>3. \A i \in Places : i \in Surplus(r.old, r.made) <=> r.made <= i /\ i < r.old
  BY <1>2 DEF Surplus
<1> HIDE DEF v
<1>4. ASSUME NEW i \in Places PROVE index'[i] = IF i < Chunks[v] THEN v ELSE 0
  BY <1>1, <1>2, <1>3, <1>4
<1> QED BY <1>4 DEF Text, v

-----------------------------------------------------------------------------
(* The steps.                                                              *)

LEMMA NoFault ==
    ASSUME BaseInv, VersionAssumption, faults' = 0 PROVE ~Fault
BY JobTypes DEF Fault

\* Two checks are never on one bill as long as the runs keep apart.
LEMMA Alone ==
    ASSUME BaseInv, ~overlap, NEW j \in Jobs, job[j].pc \in Reading
    PROVE  \A k \in Jobs \ {j} : job[k].pc \notin Reading
BY DEF BaseInv, Informed, Checks, Reading

\* What a run leaves the next one, and the ledger it has to itself.
Sound(j) == /\ Phase(job[j]) /\ Abreast(job[j])
            /\ job[j].pc \notin Changing => Rested

\* A run that leaves the index and the ledger as they were.
LEMMA SameText ==
    ASSUME UNCHANGED <<index, ledger>>
    PROVE  /\ Recorded' = Recorded /\ Rested' = Rested
           /\ \A v \in Versions : Due(v) => Due(v)'
<1>1. Recorded' = Recorded
  BY DEF Recorded
<1>2. \A v : Leads(v) <=> Leads(v)'
  BY <1>1 DEF Leads
<1>3. Rested' = Rested
  BY <1>1, <1>2 DEF Rested
<1>4. \A v \in Versions : Due(v) => Due(v)'
  BY <1>1, <1>2 DEF Due
<1> QED BY <1>1, <1>3, <1>4

LEMMA ReadStep ==
    ASSUME BaseInv, VersionAssumption, NEW j \in Jobs, ReadLedger(j), Sound(j), faults' = 0
    PROVE  Sound(j)'
<1>1. PICK r \in JobStates : r = job[j]
  BY JobTypes
<1>2. PICK r2 \in JobStates : r2 = job'[j]
  BY StepMoves DEF Step, Moves
<1>3. r.pc = "read" /\ UNCHANGED <<index, ledger>> /\ Rested /\ ~Fault
  BY <1>1, NoFault DEF ReadLedger, Sound, Changing
<1>4. r.data.n \in 1..Len(Date) /\ \A w \in Recorded : w <= r.data.n
  BY <1>1, <1>3, CheckedVersion DEF Reading, Sound, Abreast
<1>5. /\ Due(Latest(r.data))
      /\ LatestRow = None => Recorded = {} /\ index = Blank
      /\ LatestRow # None => /\ LatestRow \in Recorded /\ index = Text(LatestRow)
                             /\ ledger[LatestRow].count = Chunks[LatestRow]
  BY <1>3, <1>4, ReadText
<1>6. Recorded' = Recorded /\ Rested' /\ Due(Latest(r.data))'
  <2>1. Latest(r.data) \in Versions
    BY <1>4, LatestFirst
  <2> QED BY <1>3, <1>5, <2>1, SameText
<1>7. CASE r2.pc = "status"
  BY <1>2, <1>6, <1>7 DEF Sound, Phase, Abreast, Reading
<1>8. CASE /\ r2.pc = IF LatestRow = None /\ r.data.n > 1 THEN "backfill" ELSE "ingest"
           /\ r2.old = IF LatestRow = None THEN 0 ELSE ledger[LatestRow].count
           /\ r2.data = r.data
  <2>1. r2.pc = "backfill" => Backfills(r2)
    BY <1>5, <1>8 DEF Backfills
  <2>2. Ingests(r2)
    <3> HIDE DEF LatestRow
    <3> QED BY <1>5, <1>8 DEF Ingests
  <2>3. (r2.pc = "backfill" => Backfills(r2)') /\ Ingests(r2)'
    BY <1>3, <1>6, <2>1, <2>2 DEF Backfills, Ingests
  <2>4. r2.pc \in {"backfill", "ingest"}
    BY <1>8
  <2>5. Phase(r2)'
    BY <1>6, <1>8, <2>3, <2>4 DEF Phase
  <2>6. Abreast(r2)'
    BY <1>4, <1>6, <1>8 DEF Abreast
  <2> QED BY <1>2, <2>4, <2>5, <2>6 DEF Sound, Changing
<1>9. \/ r2.pc = "status"
      \/ /\ r2.pc = IF LatestRow = None /\ r.data.n > 1 THEN "backfill" ELSE "ingest"
         /\ r2.old = IF LatestRow = None THEN 0 ELSE ledger[LatestRow].count
         /\ r2.data = r.data
  <2>1. job \in [Jobs -> JobStates]
    BY JobTypes
  <2>2. CASE VersionCheckEnds(j)
    BY <1>2, <2>1, <2>2 DEF VersionCheckEnds, JobStates
  <2>3. CASE ~VersionCheckEnds(j)
    <3> DEFINE o == IF LatestRow = None THEN 0 ELSE ledger[LatestRow].count
               x == IF LatestRow = None /\ job[j].data.n > 1 THEN "backfill" ELSE "ingest"
    <3>1. job' = [job EXCEPT ![j].old = o, ![j].pc = x]
      BY <2>3 DEF ReadLedger
    <3> HIDE DEF o, x
    <3>2. job'[j].old = o /\ job'[j].pc = x /\ job'[j].data = job[j].data
      BY <2>1, <3>1 DEF JobStates
    <3> QED BY <1>1, <1>2, <3>2 DEF o, x
  <2> QED BY <2>2, <2>3
<1> QED BY <1>7, <1>8, <1>9

LEMMA BackfillStep ==
    ASSUME BaseInv, VersionAssumption, NEW j \in Jobs, Backfill(j), Sound(j)
    PROVE  Sound(j)'
<1>1. PICK r \in JobStates : r = job[j]
  BY JobTypes
<1>2. PICK r2 \in JobStates : r2 = job'[j]
  BY StepMoves DEF Step, Moves
<1>3. r.pc = "backfill" /\ Backfills(r) /\ index' = index
  BY <1>1 DEF Backfill, Sound, Phase
<1>4. /\ r.data.n \in 1..Len(Date) /\ r.data.url \in [Versions -> 0..MaxUrl]
      /\ Latest(r.data) \in 1..r.data.n
  BY <1>1, <1>3, CheckedVersion DEF Reading
<1> DEFINE d == job[j].data
<1>5. PICK failed \in SUBSET (1..d.n \ {Latest(d)}) :
         LET others == 1..d.n \ ({Latest(d)} \cup failed)
             Before(v) == Cardinality({w \in others \ Recorded : w < v})
         IN ledger' = [v \in Versions |->
                IF v \notin others THEN ledger[v]
                ELSE LET new == Written(v, d.url[v], 0) IN
                     IF v \in Recorded THEN new ELSE [new EXCEPT !.born = @ + Before(v)]]
  BY DEF Backfill
<1> DEFINE others == 1..d.n \ ({Latest(d)} \cup failed)
<1>6. others \in SUBSET Versions /\ Latest(r.data) \notin others /\ \A w \in others : w <= r.data.n
  BY <1>1, <1>4, Constants
<1>7. Recorded' = others
  <2> DEFINE url == d.url
  <2>1. WritesAll(others, url)
    BY <1>5 DEF WritesAll
  <2>2. url \in [Versions -> 0..MaxUrl] /\ ledger \in [Versions -> Rows] /\ Births
    BY <1>1, <1>4, JobTypes DEF BaseInv
  <2> HIDE DEF others, url
  <2>3. ledger' \in [Versions -> Rows] /\ Births' /\ Recorded' = Recorded \cup others
    BY <1>6, <2>1, <2>2, BackfilledRows
  <2> QED BY <1>3, <2>3 DEF Backfills
<1>8. r2.pc = "ingest" /\ r2.old = r.old /\ r2.data = r.data
  BY <1>1, <1>2, JobTypes DEF Backfill, Goto, JobStates
<1>9. Ingests(r2)'
  BY <1>3, <1>8 DEF Backfills, Ingests, Blank
<1> HIDE DEF others
<1>10. Due(Latest(r2.data))'
  BY <1>6, <1>7, <1>8 DEF Due
<1>11. Abreast(r2)'
  BY <1>6, <1>7, <1>8 DEF Abreast
<1> QED BY <1>2, <1>8, <1>9, <1>10, <1>11 DEF Sound, Phase, Changing

LEMMA IngestStep ==
    ASSUME BaseInv, VersionAssumption, NEW j \in Jobs, Ingest(j), Sound(j), faults' = 0
    PROVE  Sound(j)'
<1>1. PICK r \in JobStates : r = job[j]
  BY JobTypes
<1>2. PICK r2 \in JobStates : r2 = job'[j]
  BY StepMoves DEF Step, Moves
<1>3. r.pc = "ingest" /\ Ingests(r) /\ Due(Latest(r.data)) /\ ledger' = ledger /\ Abreast(r)
  BY <1>1 DEF Ingest, Sound, Phase
<1>4. PICK v \in Versions : v = Latest(r.data)
  BY <1>1, <1>3, CheckedVersion DEF Reading
<1>5. /\ index' = [i \in Places |-> IF i < Chunks[v] THEN v ELSE index[i]]
      /\ job' = [job EXCEPT ![j].made = Chunks[v], ![j].pc = "surplus"]
  BY <1>1, <1>4, NoFault DEF Ingest
<1>6. r2.pc = "surplus" /\ r2.old = r.old /\ r2.made = Chunks[v] /\ r2.data = r.data
  BY <1>1, <1>2, <1>5, JobTypes DEF JobStates
<1>7. \A i \in Places : /\ i < Chunks[v] => index'[i] = v
                        /\ i >= Chunks[v] /\ i >= r.old => index'[i] = 0
  BY <1>3, <1>5, IngestText
<1>8. Trims(r2)'
  BY <1>4, <1>6, <1>7 DEF Trims
<1>9. Recorded' = Recorded
  BY <1>3 DEF Recorded
<1>10. Due(Latest(r2.data))' /\ Abreast(r2)'
  <2>1. Due(v)'
    BY <1>3, <1>4, <1>9 DEF Due, Leads
  <2> QED BY <1>3, <1>4, <1>6, <1>9, <2>1 DEF Abreast, Reading
<1> QED BY <1>2, <1>6, <1>8, <1>10 DEF Sound, Phase, Changing

LEMMA TrimStep ==
    ASSUME BaseInv, VersionAssumption, NEW j \in Jobs, DeleteSurplus(j), Sound(j),
           faults' = 0, ~kept'
    PROVE  Sound(j)'
<1>1. PICK r \in JobStates : r = job[j]
  BY JobTypes
<1>2. PICK r2 \in JobStates : r2 = job'[j]
  BY StepMoves DEF Step, Moves
<1>3. r.pc = "surplus" /\ Trims(r) /\ Due(Latest(r.data)) /\ ledger' = ledger /\ Abreast(r)
  BY <1>1 DEF DeleteSurplus, Sound, Phase
<1>4. PICK v \in Versions : v = Latest(r.data)
  BY <1>1, <1>3, CheckedVersion DEF Reading
<1>5. /\ index' = [i \in Places |-> IF i \in Surplus(r.old, r.made) THEN 0 ELSE index[i]]
      /\ ~Implausible(r.old, r.made) /\ Goto(j, "describe")
  BY <1>1, NoFault DEF DeleteSurplus
<1>6. r2.pc = "describe" /\ r2.made = r.made /\ r2.data = r.data
  BY <1>1, <1>2, <1>5, JobTypes DEF Goto, JobStates
<1>7. index' = Text(v)
  BY <1>3, <1>4, <1>5, TrimText
<1>8. Records(r2)'
  BY <1>3, <1>4, <1>6, <1>7 DEF Trims, Records, Text
<1>9. Recorded' = Recorded
  BY <1>3 DEF Recorded
<1>10. Due(Latest(r2.data))' /\ Abreast(r2)'
  <2>1. Due(v)'
    BY <1>3, <1>4, <1>9 DEF Due, Leads
  <2> QED BY <1>3, <1>4, <1>6, <1>9, <2>1 DEF Abreast, Reading
<1> QED BY <1>2, <1>6, <1>8, <1>10 DEF Sound, Phase, Changing

LEMMA DescribeStep ==
    ASSUME BaseInv, VersionAssumption, NEW j \in Jobs, Describe(j), Sound(j)
    PROVE  Sound(j)'
<1>1. PICK r \in JobStates : r = job[j]
  BY JobTypes
<1>2. PICK r2 \in JobStates : r2 = job'[j]
  BY StepMoves DEF Step, Moves
<1>3. /\ r.pc = "describe" /\ Records(r) /\ Due(Latest(r.data)) /\ Abreast(r)
      /\ UNCHANGED <<index, ledger>>
  BY <1>1 DEF Describe, Sound, Phase
<1>4. PICK v \in Versions : v = Latest(r.data)
  BY <1>1, <1>3, CheckedVersion DEF Reading
<1>5. r2.pc = "record" /\ r2.made = r.made /\ r2.data = r.data
  BY <1>1, <1>2, JobTypes DEF Describe, Goto, JobStates
<1>6. Records(r2)'
  BY <1>3, <1>5 DEF Records
<1>7. Recorded' = Recorded
  BY <1>3 DEF Recorded
<1>8. Due(Latest(r2.data))' /\ Abreast(r2)'
  <2>1. Due(v)'
    BY <1>3, <1>4, <1>7 DEF Due, Leads
  <2> QED BY <1>3, <1>4, <1>5, <1>7, <2>1 DEF Abreast, Reading
<1> QED BY <1>2, <1>5, <1>6, <1>8 DEF Sound, Phase, Changing

LEMMA RecordStep ==
    ASSUME BaseInv, VersionAssumption, NEW j \in Jobs, Record(j), Sound(j), faults' = 0
    PROVE  Sound(j)'
<1>1. PICK r \in JobStates : r = job[j]
  BY JobTypes
<1>2. PICK r2 \in JobStates : r2 = job'[j]
  BY StepMoves DEF Step, Moves
<1>3. r.pc = "record" /\ Records(r) /\ Due(Latest(r.data)) /\ Abreast(r) /\ index' = index
  BY <1>1 DEF Record, Sound, Phase
<1>4. PICK v \in Versions : v = Latest(r.data)
  BY <1>1, <1>3, CheckedVersion DEF Reading
<1>5. /\ r.data.n \in 1..Len(Date) /\ v \in 1..r.data.n /\ r.data.url[v] \in 0..MaxUrl
      /\ Chunks[v] > 0 /\ r.made = Chunks[v] /\ r.made \in 0..Most
      /\ \A w \in Recorded : w <= r.data.n
  BY <1>1, <1>3, <1>4, CheckedVersion DEF Reading, Records, Abreast, JobStates
<1>6. PICK u \in 0..MaxUrl : u = r.data.url[v]
  BY <1>5
<1>7. Writes(v, u, r.made) /\ Goto(j, "publish")
  BY <1>1, <1>4, <1>5, <1>6, NoFault DEF Record, Writes
<1>8. Leads(v)' /\ ledger'[v].count = r.made /\ Recorded' = Recorded \cup {v}
  <2>1. ledger \in [Versions -> Rows] /\ Births
    BY JobTypes DEF BaseInv
  <2> QED BY <1>3, <1>4, <1>5, <1>7, <2>1, WrittenLeads
<1>9. r2.pc = "publish" /\ r2.data = r.data
  BY <1>1, <1>2, <1>7, JobTypes DEF Goto, JobStates
<1>10. Rested'
  <2>1. index' = Text(v)
    BY <1>3, <1>4 DEF Records
  <2> QED BY <1>5, <1>8, <2>1 DEF Rested, Text
<1>11. Abreast(r2)'
  <2>1. v <= r.data.n
    BY <1>5
  <2> QED BY <1>5, <1>8, <1>9, <2>1 DEF Abreast
<1> QED BY <1>2, <1>9, <1>10, <1>11 DEF Sound, Phase

LEMMA AnnounceStep ==
    ASSUME BaseInv, VersionAssumption, NEW j \in Jobs, Announce(j), Sound(j)
    PROVE  Sound(j)'
<1>1. /\ job[j].pc = "publish" /\ Rested /\ UNCHANGED <<index, ledger>>
      /\ VersionCheckEnds(j)
  BY DEF Announce, Sound, Changing
<1>2. job'[j].pc = "status"
  BY <1>1, JobTypes DEF VersionCheckEnds, JobStates
<1>3. Rested'
  BY <1>1, SameText
<1> QED BY <1>2, <1>3 DEF Sound, Phase, Abreast, Reading

\* A step of a run: the check that works on the index, or a run that leaves
\* the index and the ledger alone.
LEMMA TextRunStep ==
    ASSUME BaseInv, VersionAssumption, TextInv, NEW j \in Jobs, Step(j)
    PROVE  TextInv'
<1>1. SUFFICES ASSUME Calm'
               PROVE  /\ \A k \in Jobs : Phase(job[k])' /\ Abreast(job[k])'
                      /\ (\A k \in Jobs : job'[k].pc \notin Changing) => Rested'
  BY DEF TextInv
<1>2. faults' = 0 /\ ~overlap /\ ~kept' /\ faults = 0 /\ ~kept
  <2>1. faults' = 0 /\ ~overlap /\ ~kept' /\ ~Fault
    BY <1>1, PlainStep, NoFault DEF Calm
  <2>2. CASE Backfill(j)
    <3>1. PICK failed \in SUBSET (1..job[j].data.n \ {Latest(job[j].data)}) :
             faults' = faults + Cardinality(failed)
      BY <2>2 DEF Backfill
    <3>2. job[j].data.n \in Nat
      BY <2>2, CheckedVersion DEF Backfill, Reading
    <3>3. IsFiniteSet(1..job[j].data.n) /\ failed \in SUBSET (1..job[j].data.n)
      BY <3>2, InitialSegment
    <3>4. Cardinality(failed) \in Nat
      BY <3>3, FS_Subset, FS_CardinalityType
    <3>5. faults = 0
      BY <2>1, <3>1, <3>4, JobTypes
    <3> QED BY <2>1, <2>2, <3>5 DEF Backfill, history
  <2>3. CASE DeleteSurplus(j)
    BY <2>1, <2>3 DEF DeleteSurplus
  <2>4. CASE Fetched(j) \/ FetchFails(j) \/ ReadLedger(j)
    BY <2>1, <2>4 DEF Fetched, FetchFails, ReadLedger, history
  <2>5. CASE Ingest(j) \/ Describe(j)
    BY <2>1, <2>5 DEF Ingest, Describe, HistoryFails, ChangelogFails, history
  <2>6. CASE Record(j) \/ Announce(j)
    BY <2>1, <2>6 DEF Record, Announce, history
  <2>7. CASE UpdateStatus(j) \/ SyncVotes(j)
    BY <2>1, <2>7 DEF UpdateStatus, Patch, SyncVotes, history
  <2> QED BY <2>2, <2>3, <2>4, <2>5, <2>6, <2>7 DEF Step
<1>3. /\ \A k \in Jobs : Phase(job[k]) /\ Abreast(job[k])
      /\ (\A k \in Jobs : job[k].pc \notin Changing) => Rested
  BY <1>2 DEF TextInv, Calm
<1>4. \A k \in Jobs \ {j} : job'[k] = job[k]
  BY StepMoves DEF Moves
<1>5. CASE job[j].pc \in Reading
  <2>1. \A k \in Jobs \ {j} : job[k].pc \notin Reading
    BY <1>2, <1>5, Alone
  <2>2. Sound(j)
    BY <1>3, <2>1 DEF Sound, Changing, Reading
  <2>3. Sound(j)'
    BY <1>2, <1>5, <2>2, ReadStep, BackfillStep, IngestStep, TrimStep, DescribeStep, RecordStep,
       AnnounceStep DEF Step, Fetched, FetchFails, UpdateStatus, SyncVotes, Reading
  <2>4. \A k \in Jobs \ {j} : Phase(job[k])' /\ Abreast(job[k])'
    BY <1>4, <2>1 DEF Phase, Abreast, Reading
  <2> QED BY <2>3, <2>4 DEF Sound
<1>6. CASE job[j].pc \notin Reading
  <2>1. Fetched(j) \/ FetchFails(j) \/ UpdateStatus(j) \/ SyncVotes(j)
    BY <1>6
    DEF Step, ReadLedger, Backfill, Ingest, DeleteSurplus, Describe, Record, Announce, Reading
  <2>2. UNCHANGED <<index, ledger>>
    BY <2>1 DEF Fetched, FetchFails, UpdateStatus, SyncVotes
  <2>3. Recorded' = Recorded /\ Rested' = Rested
    BY <2>2, SameText
  <2>4. job'[j].pc \notin Changing /\ (job'[j].pc \in Reading => job'[j].data = up)
    <3>1. job \in [Jobs -> JobStates] /\ DOMAIN job = Jobs
      BY JobTypes
    <3>2. CASE Fetched(j)
      <4> DEFINE x == AfterFetch(job[j].kind)
      <4>1. x \in {"votes", "read", "status"}
        BY DEF AfterFetch
      <4> HIDE DEF x
      <4>2. job'[j].pc = x /\ job'[j].data = up
        BY <3>1, <3>2 DEF Fetched, JobStates, x
      <4> QED BY <4>1, <4>2 DEF Changing
    <3>3. CASE FetchFails(j) /\ ~Rests(j)
      <4>1. job' = [job EXCEPT ![j].tries = @ + 1] /\ job[j].pc = "fetch"
        BY <3>3 DEF FetchFails
      <4>2. job'[j].pc = "fetch"
        BY <3>1, <4>1 DEF JobStates
      <4> QED BY <4>2 DEF Changing, Reading
    <3>4. CASE Rests(j)
      <4>1. job'[j].pc = "idle"
        BY <3>1, <3>4 DEF Rests, Idle
      <4> QED BY <4>1 DEF Changing, Reading
    <3> QED BY <2>1, <3>2, <3>3, <3>4 DEF UpdateStatus, SyncVotes
  <2>6. Phase(job[j])' /\ Abreast(job[j])'
    BY <2>3, <2>4 DEF BaseInv, Phase, Abreast, Changing
  <2>7. ASSUME NEW k \in Jobs \ {j} PROVE Phase(job[k])' /\ Abreast(job[k])'
    <3>1. PICK r \in JobStates : r = job[k]
      BY JobTypes
    <3>2. Phase(r) /\ Abreast(r)
      BY <1>3, <3>1
    <3>3. Phase(r)' /\ Abreast(r)'
      BY <2>2, <2>3, <3>2 DEF Phase, Abreast, Backfills, Ingests, Trims, Records, Due, Leads
    <3> QED BY <1>4, <3>1, <3>3
  <2>8. job[j].pc \notin Changing
    BY <1>6 DEF Changing, Reading
  <2> QED BY <1>3, <1>4, <2>3, <2>6, <2>7, <2>8
<1> QED BY <1>5, <1>6


LEMMA TextStep ==
    ASSUME BaseInv, VersionAssumption, TextInv, [Next]_vars
    PROVE  TextInv'
<1>1. ASSUME NEW j \in Jobs, Step(j) PROVE TextInv'
  BY <1>1, TextRunStep
<1>2. ASSUME UNCHANGED <<index, ledger, faults, kept, overlap>>,
             \A k \in Jobs : job'[k] = job[k] \/ job'[k].pc \notin Reading,
             \A k \in Jobs : job'[k] # job[k] => job[k].pc \notin Reading
      PROVE  TextInv'
  <2>1. Recorded' = Recorded /\ Rested' = Rested /\ (Calm' => Calm)
    BY <1>2, SameText DEF Calm
  <2>2. ASSUME NEW k \in Jobs, Phase(job[k]), Abreast(job[k])
        PROVE  Phase(job[k])' /\ Abreast(job[k])'
    <3>1. CASE job'[k].pc \notin Reading
      BY <3>1 DEF Phase, Abreast, Reading
    <3>2. CASE job'[k] = job[k]
      <4>1. PICK r \in JobStates : r = job[k]
        BY JobTypes
      <4>2. Phase(r)' /\ Abreast(r)'
        BY <1>2, <2>1, <2>2, <4>1
        DEF Phase, Abreast, Backfills, Ingests, Trims, Records, Due, Leads
      <4> QED BY <3>2, <4>1, <4>2
    <3> QED BY <1>2, <3>1, <3>2
  <2>3. (\A k \in Jobs : job'[k].pc \notin Changing) => \A k \in Jobs : job[k].pc \notin Changing
    BY <1>2 DEF Changing, Reading
  <2> QED BY <2>1, <2>2, <2>3 DEF TextInv
<1>3. ASSUME NEW j \in Jobs, NEW k \in Kinds, Begin(j, k), overlap' = overlap
      PROVE  TextInv'
  <2>1. /\ UNCHANGED <<index, ledger, faults, kept>> /\ job[j].pc = "idle" /\ job'[j].pc = "fetch"
        /\ \A o \in Jobs \ {j} : job'[o] = job[o]
    BY <1>3, JobTypes DEF Begin, Idle
  <2> QED BY <1>2, <1>3, <2>1 DEF Reading
<1>4. ASSUME NEW j \in Jobs, StartVersions(j) PROVE TextInv'
  <2>1. overlap' = overlap \/ overlap'
    BY <1>4 DEF StartVersions, BaseInv, TypeOK
  <2>2. CASE overlap'
    BY <2>2 DEF TextInv, Calm
  <2> QED BY <1>3, <1>4, <2>1, <2>2 DEF StartVersions, Kinds
<1>5. CASE Publish \/ MoveText \/ Act \/ Flag \/ Tap \/ UNCHANGED vars
  <2>1. UNCHANGED <<index, ledger, faults, kept, overlap, job>>
    BY <1>5 DEF Publish, MoveText, Act, Flag, Tap, vars, history
  <2> QED BY <1>2, <2>1
<1>6. CASE Die
  BY <1>6, NoFault DEF Die, TextInv, Calm
<1> QED BY <1>1, <1>3, <1>4, <1>5, <1>6 DEF Next, StartStatuses, StartVotes, Kinds

\* With no failure, no overlapping check and no surplus left on purpose, the
\* index holds between checks exactly the chunks of the version the ledger
\* calls the latest (_delete_surplus_chunks works from the count the ledger
\* gives, and write_bill_version comes last): whatever versions upstream
\* publishes, in whatever order of dates, and however long their texts are.
THEOREM VersionOneText == Spec => []OneText
<1>1. Init => TextInv
  <2> SUFFICES ASSUME Init PROVE TextInv
    OBVIOUS
  <2>1. Recorded = {} /\ index = Blank
    BY DEF Init, Recorded, NoRow, Blank
  <2>2. \A j \in Jobs : job[j].pc = "idle"
    BY DEF Init, Idle
  <2> QED BY <2>1, <2>2 DEF TextInv, Rested, Phase, Abreast, Reading
<1>2. BaseInv /\ TextInv /\ [Next]_vars => TextInv'
  BY VersionAssumption, TextStep
<1>3. BaseInv /\ TextInv => OneText
  <2> SUFFICES ASSUME BaseInv, TextInv, AtRest, faults = 0, ~overlap, ~kept, LatestRow # None
               PROVE  index = [i \in Places |-> IF i < Chunks[LatestRow] THEN LatestRow ELSE 0]
    BY DEF OneText
  <2>1. \A j \in Jobs : job[j].pc \notin Changing
    <3>1. \A j \in Jobs : job[j].pc \in {"idle", "fetch", "read", "status", "votes"}
      BY DEF AtRest, InVersionCheck
    <3> QED BY <3>1 DEF Changing
  <2>2. Rested
    BY <2>1 DEF TextInv, Calm
  <2>3. ledger \in [Versions -> Rows]
    BY VersionAssumption, JobTypes
  <2>4. PICK v \in Recorded : Leads(v) /\ index = Text(v)
    BY <2>2, <2>3, VersionAssumption, LatestRowFacts DEF Rested
  <2>5. LatestRow = v
    BY <2>3, <2>4, VersionAssumption, LeaderIsLatest
  <2> HIDE DEF LatestRow
  <2> QED BY <2>4, <2>5 DEF Text
<1> QED BY <1>1, <1>2, <1>3, BaseInvariance, PTL DEF Spec
=============================================================================
