---------------------------- MODULE ServingProofs ----------------------------
(***************************************************************************)
(* Proofs about Serving, for any number of calls, lineages and versions:   *)
(* what a retrieval answers is current, a walk over pages misses and       *)
(* repeats nothing, revisions explain the versions they come with, and     *)
(* what makes a row unreadable.                                            *)
(***************************************************************************)
EXTENDS Serving, FiniteSetTheorems, SequenceTheorems, TLAPS

---------------------------------------------------------------------------
(* Least and greatest elements, and pages *)

LEMMA Least ==
  ASSUME NEW S \in SUBSET Nat, S # {}
  PROVE  Min(S) \in S /\ \A n \in S : Min(S) <= n
<1>1. IsWellFoundedOn(OpToRel(<, Nat), Nat)
  BY NatLessThanWellFounded
<1>2. \E m \in S : \A n \in S : ~(<<n, m>> \in OpToRel(<, Nat))
  BY <1>1, WFMin
<1>3. \A m, n \in Nat : n < m => <<n, m>> \in OpToRel(<, Nat)
  BY DEF OpToRel
<1>4. \A m, n \in S : n < m => <<n, m>> \in OpToRel(<, Nat)
  BY <1>3
<1>5. PICK m \in S : \A n \in S : ~(n < m)
  BY <1>2, <1>4
<1>6. \A n \in S : m <= n
  BY <1>5
<1>7. QED
  BY <1>6 DEF Min

\* The greatest element is the one with the most below it
LEMMA Greatest ==
  ASSUME NEW S \in SUBSET Nat, S # {}, IsFiniteSet(S)
  PROVE  Max(S) \in S /\ \A n \in S : n <= Max(S)
<1> DEFINE below(m) == {o \in S : o < m}
           gap(m) == Cardinality(S) - Cardinality(below(m))
           gaps == {gap(m) : m \in S}
<1>1. \A m \in S : IsFiniteSet(below(m)) /\ gap(m) \in Nat
  <2>1. ASSUME NEW m \in S PROVE IsFiniteSet(below(m)) /\ gap(m) \in Nat
    <3>1. below(m) \in SUBSET S
      OBVIOUS
    <3>2. IsFiniteSet(below(m)) /\ Cardinality(below(m)) <= Cardinality(S)
      BY <3>1, FS_Subset
    <3>3. Cardinality(below(m)) \in Nat /\ Cardinality(S) \in Nat
      BY <3>2, FS_CardinalityType
    <3>4. QED
      BY <3>2, <3>3
  <2>2. QED
    BY <2>1
<1>2. gaps \in SUBSET Nat /\ gaps # {}
  BY <1>1
<1> HIDE DEF gaps
<1>3. Min(gaps) \in gaps /\ \A g \in gaps : Min(gaps) <= g
  BY <1>2, Least
<1>4. PICK m \in S : gap(m) = Min(gaps)
  BY <1>3 DEF gaps
<1>5. ASSUME NEW n \in S, m < n PROVE FALSE
  <2>1. below(m) \cup {m} \in SUBSET below(n) /\ m \notin below(m)
    <3>1. \A o \in S : o < m => o < n
      BY <1>5
    <3>2. m \in Nat
      OBVIOUS
    <3>3. ~(m < m)
      BY <3>2
    <3>4. QED
      BY <1>5, <3>1, <3>3
  <2>2. Cardinality(below(m) \cup {m}) = Cardinality(below(m)) + 1
    BY <1>1, <2>1, FS_AddElement
  <2>3. Cardinality(below(m) \cup {m}) <= Cardinality(below(n))
    BY <1>1, <2>1, FS_Subset
  <2>4. /\ Cardinality(below(m)) \in Nat /\ Cardinality(below(n)) \in Nat
        /\ Cardinality(S) \in Nat
    BY <1>1, FS_CardinalityType
  <2>5. gap(n) < gap(m)
    BY <2>2, <2>3, <2>4
  <2>6. gap(m) <= gap(n)
    BY <1>3, <1>4 DEF gaps
  <2>7. QED
    BY <1>1, <2>5, <2>6
<1>6. \A n \in S : n <= m
  BY <1>5
<1>7. QED
  BY <1>6 DEF Max

\* What SetToSeq makes of a finite set is its elements
LEMMA SeqOfSet ==
  ASSUME NEW S, IsFiniteSet(S)
  PROVE  SetToSeq(S) \in [1 .. Cardinality(S) -> S]
<1>1. ExistsBijection(1 .. Cardinality(S), S)
  BY FS_CardinalityType
<1>2. \E f \in [1 .. Cardinality(S) -> S] : IsInjective(f)
  BY <1>1 DEF ExistsBijection, Bijection, Injection
<1>3. QED
  BY <1>2 DEF SetToSeq

\* The first page has whatever comes before one of its records, all of them
\* when they are no more than PageSize, and one at least if there is any
LEMMA PageFacts ==
  ASSUME ServingAssumption, NEW listing, IsFiniteSet(listing),
         Ids(listing) \in SUBSET Nat
  PROVE  LET page == FirstPage(listing)
         IN  /\ page \subseteq listing
             /\ \A r \in page, o \in listing : o[1] < r[1] => o \in page
             /\ Cardinality(listing) <= PageSize => page = listing
             /\ listing # {} => page # {}
             /\ IsFiniteSet(Ids(page)) /\ Ids(page) \in SUBSET Nat
<1> DEFINE preceding(r) == {o \in listing : o[1] < r[1]}
           page == FirstPage(listing)
<1>1. \A r \in listing : r[1] \in Nat
  BY DEF Ids
<1>2. PageSize \in Nat \ {0}
  BY DEF ServingAssumption
<1>3. \A r : IsFiniteSet(preceding(r)) /\ Cardinality(preceding(r)) \in Nat
  <2>1. \A r : preceding(r) \in SUBSET listing
    OBVIOUS
  <2>2. QED
    BY <2>1, FS_Subset, FS_CardinalityType
<1>4. page = {r \in listing : Cardinality(preceding(r)) < PageSize}
  BY DEF FirstPage
<1> HIDE DEF page, preceding
<1>5. ASSUME NEW r \in page, NEW o \in listing, o[1] < r[1] PROVE o \in page
  <2>1. preceding(o) \in SUBSET preceding(r)
    <3>1. \A q \in listing : q[1] < o[1] => q[1] < r[1]
      BY <1>1, <1>4, <1>5
    <3>2. QED
      BY <3>1 DEF preceding
  <2>2. Cardinality(preceding(o)) <= Cardinality(preceding(r))
    BY <1>3, <2>1, FS_Subset
  <2>3. Cardinality(preceding(r)) < PageSize
    BY <1>4
  <2>4. Cardinality(preceding(o)) < PageSize
    BY <1>2, <1>3, <2>2, <2>3
  <2>5. QED
    BY <1>4, <2>4
<1>6. ASSUME Cardinality(listing) <= PageSize, NEW r \in listing PROVE r \in page
  <2>1. preceding(r) \in SUBSET (listing \ {r})
    BY <1>1 DEF preceding
  <2>2. /\ IsFiniteSet(listing \ {r})
        /\ Cardinality(listing \ {r}) = Cardinality(listing) - 1
    BY FS_RemoveElement
  <2>3. Cardinality(preceding(r)) <= Cardinality(listing \ {r})
    BY <2>1, <2>2, FS_Subset
  <2>4. Cardinality(listing) \in Nat
    BY FS_CardinalityType
  <2>5. Cardinality(preceding(r)) < PageSize
    BY <1>2, <1>3, <1>6, <2>2, <2>3, <2>4
  <2>6. QED
    BY <1>4, <2>5
<1>7. ASSUME listing # {} PROVE page # {}
  <2>1. Ids(listing) # {}
    BY <1>7 DEF Ids
  <2>2. Min(Ids(listing)) \in Ids(listing) /\ \A m \in Ids(listing) : Min(Ids(listing)) <= m
    BY <2>1, Least
  <2>3. PICK r \in listing : r[1] = Min(Ids(listing))
    BY <2>2 DEF Ids
  <2>4. \A o \in listing : r[1] <= o[1]
    BY <2>2, <2>3 DEF Ids
  <2>5. preceding(r) = {}
    BY <1>1, <2>4 DEF preceding
  <2>6. Cardinality(preceding(r)) = 0
    BY <2>5, FS_EmptySet
  <2>7. QED
    BY <1>2, <1>4, <2>6
<1>8. page \subseteq listing /\ Ids(page) \in SUBSET Nat
  BY <1>1, <1>4 DEF Ids
<1>9. IsFiniteSet(Ids(page))
  <2>1. IsFiniteSet(page)
    BY <1>8, FS_Subset
  <2> DEFINE f == [r \in page |-> r[1]]
  <2>2. f \in Surjection(page, Ids(page))
    BY DEF Surjection, Ids
  <2>3. QED
    BY <2>1, <2>2, FS_Surjection
<1>10. QED
  BY <1>5, <1>6, <1>7, <1>8, <1>9 DEF page

---------------------------------------------------------------------------
(* The inductive invariant *)

Kind == {"retrieve", "walk", "lineage", "create", "correct", "delete"}
Change == {"create", "correct", "delete"}
Job ==
  {Nothing} \cup [kind : Kind, memory : Memory \cup {0}, version : Version \cup {0}, wide : BOOLEAN]
Label ==
  {"idle", "open", "opening", "ready", "plain", "ranked", "paging", "target", "write", "commit",
   "returned", "failed"}
Entry == Memory \X (SUBSET Version) \X (SUBSET Nat)

TypeOK ==
  /\ now \in Time
  /\ rows \in [Memory -> Seq(Row)]
  /\ \A m \in Memory : Len(rows[m]) <= MaxVersion
  /\ step \in [Call -> Label]
  /\ job \in [Call -> Job]
  /\ stamp \in [Call -> {NoTime} \cup Time]
  /\ before \in [Call -> [Memory -> Nat]]
  /\ todo \in [Call -> SUBSET (Memory \X Version)]
  /\ cursor \in [Call -> {Nowhere} \cup Memory]
  /\ answer \in [Call -> Seq(Entry)]

\* Only the last version of a lineage is open, and none begins in the future
RowsShaped ==
  \A m \in Memory : \A v \in DOMAIN rows[m] :
    /\ rows[m][v].from <= now
    /\ rows[m][v].status = "active" => rows[m][v].until = NoTime
    /\ v < Len(rows[m]) => rows[m][v].until # NoTime

\* SQLite's RESERVED lock
Writing == {"opening", "write", "commit"}
OneWriter ==
  \A c, o \in Call : step[c] \in Writing /\ step[o] \in Writing => c = o

StepsOf(kind) ==
  CASE kind = "none" -> {"idle", "returned", "failed"}
    [] kind = "retrieve" ->
         {"open", "opening", "ready", "plain", "ranked", "write", "commit", "returned"}
    [] kind \in {"walk", "lineage"} -> {"open", "opening", "ready", "paging", "returned"}
    [] kind = "create" -> {"open", "opening", "ready", "write", "commit"}
    [] OTHER -> {"open", "opening", "ready", "target", "write", "commit"}

\* A change is of a version that was there when it was asked for, and once it
\* commits no constraint can refuse it
Asked(c) ==
  /\ step[c] \in StepsOf(job[c].kind)
  /\ stamp[c] <= now
  /\ job[c].kind \in Change => stamp[c] # NoTime
  /\ job[c].kind \in {"correct", "delete"} =>
       /\ job[c].memory \in Memory
       /\ job[c].version \in DOMAIN rows[job[c].memory]
       /\ rows[job[c].memory][job[c].version].from <= stamp[c]
  /\ job[c].kind = "lineage" => job[c].memory \in Memory
  /\ step[c] = "commit" => ~RefusedBySchema(c)

\* What was in force when a call began was there before its clock reading
Began(c) ==
  \A m \in Memory :
    /\ before[c][m] <= InForce(m)
    /\ before[c][m] \in Version =>
         /\ before[c][m] \in DOMAIN rows[m]
         /\ job[c].kind = "retrieve" /\ stamp[c] # NoTime =>
              rows[m][before[c][m]].from <= stamp[c]

\* What a retrieval considers, from its read to its answer
Read == {"plain", "ranked", "write", "commit", "returned"}
Considered(c) ==
  job[c].kind = "retrieve" =>
    /\ step[c] # "returned" => answer[c] = <<>>
    /\ step[c] \in Read =>
         /\ \A r \in todo[c] : before[c][r[1]] <= r[2]
         /\ \A m \in Memory :
              before[c][m] \in Version /\ Active(m) => m \in Ids(todo[c]) \/ Overtaken(c, m)
    /\ \A i \in DOMAIN answer[c] : \A v \in answer[c][i][2] :
         before[c][answer[c][i][1]] <= v

\* What a walk has answered, has read and has still to read
Answered(c, m) == \E i \in DOMAIN answer[c] : answer[c][i][1] = m
Wanted(c, m) == before[c][m] # Unborn /\ (job[c].wide \/ (before[c][m] # Erased /\ Active(m)))
Walked(c) ==
  job[c].kind = "walk" =>
    /\ \A i, j \in DOMAIN answer[c] : i < j => answer[c][i][1] < answer[c][j][1]
    /\ step[c] # "paging" => todo[c] = {}
    /\ \A i \in DOMAIN answer[c] : \A r \in todo[c] : answer[c][i][1] < r[1]
    /\ cursor[c] # Nowhere =>
         /\ \A i \in DOMAIN answer[c] : answer[c][i][1] <= cursor[c]
         /\ \A r \in todo[c] : r[1] <= cursor[c]
    /\ cursor[c] = Nowhere /\ step[c] \in {"open", "opening", "ready"} => answer[c] = <<>>
    /\ step[c] = "returned" => cursor[c] = Nowhere
    /\ \A m \in Memory : Wanted(c, m) =>
         \/ Answered(c, m) \/ m \in Ids(todo[c])
         \/ cursor[c] # Nowhere /\ m > cursor[c]
         \/ cursor[c] = Nowhere /\ step[c] \in {"open", "opening", "ready"}

\* Versions that were read are there
Listed(c) ==
  job[c].kind \in {"walk", "lineage"} =>
    /\ \A r \in todo[c] : r[2] \in DOMAIN rows[r[1]]
    /\ \A i \in DOMAIN answer[c] : answer[c][i][2] \subseteq answer[c][i][3]

\* An idle call knows nothing
Blank(c) ==
  step[c] = "idle" => /\ stamp[c] = NoTime /\ todo[c] = {} /\ cursor[c] = Nowhere
                      /\ answer[c] = <<>>

CallInv(c) ==
  Asked(c) /\ Began(c) /\ Considered(c) /\ Walked(c) /\ Listed(c) /\ Blank(c)

IInv == TypeOK /\ RowsShaped /\ OneWriter /\ \A c \in Call : CallInv(c)

---------------------------------------------------------------------------
(* What is in force *)

LEMMA Numbers ==
  /\ Memory \subseteq Nat \ {0} /\ IsFiniteSet(Memory) /\ Memory \subseteq Nat
  /\ MaxVersion \in Nat \ {0} /\ MaxClock \in Nat \ {0} /\ PageSize \in Nat \ {0}
  /\ Nowhere = 0 /\ Nowhere \notin Memory
  /\ Version \subseteq Nat /\ Time \subseteq Nat /\ NoTime = 0 /\ NoTime \notin Time
  /\ Unborn = 0 /\ Erased = MaxVersion + 1 /\ Erased \notin Version /\ Unborn \notin Version
BY ServingAssumption DEF ServingAssumption, Version, Time, NoTime, Unborn, Erased

LEMMA RowsTyped ==
  ASSUME TypeOK, NEW m \in Memory
  PROVE  /\ rows[m] \in Seq(Row) /\ Len(rows[m]) \in Nat /\ DOMAIN rows[m] = 1 .. Len(rows[m])
         /\ \A v \in DOMAIN rows[m] : rows[m][v] \in Row
         /\ DOMAIN rows[m] \subseteq Version
         /\ Exists(m) <=> Len(rows[m]) # 0
<1>1. rows[m] \in Seq(Row) /\ Len(rows[m]) <= MaxVersion
  BY DEF TypeOK
<1>2. /\ Len(rows[m]) \in Nat /\ DOMAIN rows[m] = 1 .. Len(rows[m])
      /\ \A v \in DOMAIN rows[m] : rows[m][v] \in Row
  BY <1>1, LenProperties
<1>3. rows[m] # <<>> <=> Len(rows[m]) # 0
  BY <1>1, EmptySeq
<1>4. QED
  BY <1>1, <1>2, <1>3, Numbers DEF Version, Exists

LEMMA InForceIs ==
  ASSUME TypeOK, NEW m \in Memory
  PROVE  /\ InForce(m) \in Nat
         /\ Active(m) => InForce(m) = Len(rows[m]) /\ InForce(m) \in DOMAIN rows[m]
         /\ ~Exists(m) => InForce(m) = Unborn
         /\ Exists(m) /\ ~Active(m) => InForce(m) = Erased
         /\ InForce(m) # Unborn => Exists(m)
         /\ InForce(m) \in Version => Active(m)
<1>1. /\ Active(m) => InForce(m) = Len(rows[m])
      /\ ~Exists(m) => InForce(m) = Unborn
      /\ Exists(m) /\ ~Active(m) => InForce(m) = Erased
  BY DEF InForce, Active
<1>2. Active(m) => Exists(m) /\ Len(rows[m]) # 0
  BY RowsTyped DEF Active
<1>3. QED
  BY <1>1, <1>2, RowsTyped, Numbers

\* Versions stay, with what they began at; a lineage is at most superseded or
\* deleted
Grown ==
  \A m \in Memory :
    /\ \A v \in DOMAIN rows[m] :
         v \in DOMAIN rows'[m] /\ rows'[m][v].from = rows[m][v].from
    /\ InForce(m) <= InForce(m)'
    /\ Exists(m) => Exists(m)'
    /\ Exists(m) /\ Active(m)' => Active(m)

LEMMA SameRows == ASSUME TypeOK, UNCHANGED rows PROVE Grown
BY InForceIs DEF Grown, InForce, Exists, Active, Latest

\* One lineage changes, and that is how
LEMMA OneLineage ==
  ASSUME TypeOK, RowsShaped, UNCHANGED now, NEW m \in Memory, NEW new \in Seq(Row),
         rows' = [rows EXCEPT ![m] = new], Len(rows[m]) <= Len(new), Len(new) <= MaxVersion,
         Len(new) # 0,
         \A v \in DOMAIN rows[m] : new[v].from = rows[m][v].from,
         \A v \in DOMAIN new :
           /\ new[v].from <= now
           /\ new[v].status = "active" => new[v].until = NoTime
           /\ v < Len(new) => new[v].until # NoTime,
         \/ new[Len(new)].status # "active"
         \/ Len(rows[m]) = 0
         \/ Active(m)
  PROVE  /\ rows' \in [Memory -> Seq(Row)] /\ \A n \in Memory : Len(rows'[n]) <= MaxVersion
         /\ RowsShaped' /\ Grown
<1>1. /\ rows'[m] = new /\ \A n \in Memory \ {m} : rows'[n] = rows[n]
      /\ rows' \in [Memory -> Seq(Row)]
  BY DEF TypeOK
<1>2. \A n \in Memory : Len(rows'[n]) <= MaxVersion
  BY <1>1 DEF TypeOK
<1>3. RowsShaped'
  BY <1>1 DEF RowsShaped
<1>4. Len(new) \in Nat /\ DOMAIN new = 1 .. Len(new) /\ new # <<>>
  BY LenProperties, EmptySeq
<1>5. ASSUME NEW n \in Memory
      PROVE  /\ \A v \in DOMAIN rows[n] :
                  v \in DOMAIN rows'[n] /\ rows'[n][v].from = rows[n][v].from
             /\ InForce(n) <= InForce(n)'
             /\ Exists(n) => Exists(n)'
             /\ Exists(n) /\ Active(n)' => Active(n)
  <2>1. CASE n # m
    <3>1. rows'[n] = rows[n]
      BY <1>1, <2>1
    <3>2. InForce(n)' = InForce(n) /\ Exists(n)' = Exists(n) /\ Active(n)' = Active(n)
      BY <3>1 DEF InForce, Exists, Active, Latest
    <3>3. QED
      BY <3>1, <3>2, InForceIs
  <2>2. CASE n = m
    <3>1. \A v \in DOMAIN rows[m] : v \in DOMAIN new
      BY <1>4, RowsTyped
    <3>2. Exists(m)'
      BY <1>1, <1>4 DEF Exists
    <3>3. Active(m)' <=> new[Len(new)].status = "active"
      BY <1>1, <3>2 DEF Active, Latest
    <3>4. Exists(m) /\ Active(m)' => Active(m)
      BY <3>3, RowsTyped
    <3>5. InForce(m)' = IF Active(m)' THEN Len(new) ELSE Erased
      BY <1>1, <3>2 DEF InForce
    <3>6. InForce(m) <= Len(new) \/ ~Active(m)'
      BY <1>4, <3>4, InForceIs, RowsTyped, Numbers
    <3>7. InForce(m) <= Erased /\ Len(new) <= Erased
      BY <1>4, InForceIs, RowsTyped, Numbers DEF Version
    <3>8. InForce(m) <= InForce(m)'
      BY <3>5, <3>6, <3>7
    <3>9. QED
      BY <1>1, <2>2, <3>1, <3>2, <3>4, <3>8
  <2>3. QED
    BY <2>1, <2>2
<1>6. QED
  BY <1>1, <1>2, <1>3, <1>5 DEF Grown

LEMMA SeqIs ==
  ASSUME NEW S, NEW n \in Nat, NEW f \in [1 .. n -> S]
  PROVE  f \in Seq(S) /\ Len(f) = n
BY SeqDef, LenProperties

LEMMA AppendIs ==
  ASSUME NEW S, NEW s \in Seq(S), NEW e \in S
  PROVE  /\ Append(s, e) \in Seq(S) /\ Len(Append(s, e)) = Len(s) + 1
         /\ DOMAIN Append(s, e) = 1 .. Len(s) + 1
         /\ \A i \in 1 .. Len(s) : Append(s, e)[i] = s[i]
         /\ Append(s, e)[Len(s) + 1] = e
<1>1. Len(s) \in Nat
  BY LenProperties
<1>2. /\ Append(s, e) \in Seq(S) /\ Len(Append(s, e)) = Len(s) + 1
      /\ \A i \in 1 .. Len(s) : Append(s, e)[i] = s[i]
      /\ Append(s, e)[Len(s) + 1] = e
  BY <1>1
<1>3. QED
  BY <1>2, LenProperties

LEMMA StampedRow ==
  ASSUME TypeOK, NEW c \in Call, stamp[c] # NoTime
  PROVE  /\ stamp[c] \in Time /\ NewRow(c) \in Row
         /\ NewRow(c).from = stamp[c] /\ NewRow(c).until = NoTime
         /\ \A row \in Row :
              /\ [row EXCEPT !.status = "superseded", !.until = stamp[c]] \in Row
              /\ Erase(row, stamp[c]) \in Row
<1>1. stamp[c] \in Time
  BY DEF TypeOK
<1>2. NewRow(c) \in Row /\ NewRow(c).from = stamp[c] /\ NewRow(c).until = NoTime
  BY <1>1 DEF NewRow, Row
<1>3. ASSUME NEW row \in Row
      PROVE  /\ [row EXCEPT !.status = "superseded", !.until = stamp[c]] \in Row
             /\ Erase(row, stamp[c]) \in Row
  <2>1. [row EXCEPT !.status = "superseded", !.until = stamp[c]] \in Row
    BY <1>1 DEF Row
  <2>2. \A until \in {NoTime} \cup Time :
          [row EXCEPT !.status = "deleted", !.until = until] \in Row
    BY DEF Row
  <2>3. (IF row.until = NoTime THEN stamp[c] ELSE row.until) \in {NoTime} \cup Time
    BY <1>1 DEF Row
  <2>4. QED
    BY <2>1, <2>2, <2>3 DEF Erase
<1>4. QED
  BY <1>1, <1>2, <1>3

\* What a committed change makes of its lineage (store.py 150-247)
CreatedRows(c) == <<NewRow(c)>>
CorrectedRows(c) ==
  LET m == job[c].memory  v == job[c].version
  IN  Append([rows[m] EXCEPT ![v].status = "superseded", ![v].until = stamp[c]], NewRow(c))
DeletedRows(c) ==
  LET m == job[c].memory IN [v \in DOMAIN rows[m] |-> Erase(rows[m][v], stamp[c])]

LEMMA Corrected ==
  ASSUME TypeOK, NEW c \in Call, Asked(c), step[c] = "commit", job[c].kind = "correct"
  PROVE  LET m == job[c].memory
             new == CorrectedRows(c)
         IN  /\ m \in Memory /\ new \in Seq(Row) /\ Active(m) /\ Len(rows[m]) \in DOMAIN rows[m]
             /\ job[c].version = Len(rows[m])
             /\ rows[m][Len(rows[m])].from <= stamp[c]
             /\ Len(new) = Len(rows[m]) + 1 /\ Len(new) <= MaxVersion
             /\ \A v \in 1 .. Len(rows[m]) - 1 : new[v] = rows[m][v]
             /\ new[Len(rows[m])].from = rows[m][Len(rows[m])].from
             /\ new[Len(rows[m])].status = "superseded" /\ new[Len(rows[m])].until = stamp[c]
             /\ new[Len(new)] = NewRow(c)
<1> DEFINE m == job[c].memory
           v == job[c].version
           sealed == [rows[m][v] EXCEPT !.status = "superseded", !.until = stamp[c]]
           old == [rows[m] EXCEPT ![v] = sealed]
<1>1. /\ m \in Memory /\ v \in DOMAIN rows[m] /\ rows[m][v].from <= stamp[c]
      /\ stamp[c] # NoTime /\ ~RefusedBySchema(c)
  BY DEF Asked, Change
<1>2. InForce(m) = v /\ v # MaxVersion
  BY <1>1 DEF RefusedBySchema
<1>3. Active(m) /\ v = Len(rows[m])
  BY <1>1, <1>2, RowsTyped, InForceIs
<1>4. /\ rows[m] \in Seq(Row) /\ Len(rows[m]) \in Nat /\ v \in 1 .. Len(rows[m])
      /\ rows[m][v] \in Row
  BY <1>1, RowsTyped
<1>5. /\ sealed \in Row /\ sealed.from = rows[m][v].from
      /\ sealed.status = "superseded" /\ sealed.until = stamp[c]
  <2>1. sealed \in Row
    BY <1>1, <1>4, StampedRow
  <2>2. QED
    BY <1>4, <2>1 DEF Row
<1> HIDE DEF sealed
<1>6. /\ old \in Seq(Row) /\ Len(old) = Len(rows[m])
      /\ old[v] = sealed /\ \A w \in 1 .. Len(rows[m]) - 1 : old[w] = rows[m][w]
  BY <1>3, <1>4, <1>5, ExceptSeq
<1> HIDE DEF old
<1>7. NewRow(c) \in Row
  BY <1>1, StampedRow
<1>8. CorrectedRows(c) = Append(old, NewRow(c))
  BY DEF CorrectedRows, old, sealed
<1>9. /\ CorrectedRows(c) \in Seq(Row) /\ Len(CorrectedRows(c)) = Len(rows[m]) + 1
      /\ \A w \in 1 .. Len(rows[m]) : CorrectedRows(c)[w] = old[w]
      /\ CorrectedRows(c)[Len(rows[m]) + 1] = NewRow(c)
  BY <1>6, <1>7, <1>8, AppendIs
<1>10. Len(rows[m]) + 1 <= MaxVersion
  <2>1. Len(rows[m]) <= MaxVersion /\ Len(rows[m]) # MaxVersion
    BY <1>1, <1>2, <1>3 DEF TypeOK
  <2>2. QED
    BY <1>4, <2>1, Numbers
<1>11. QED
  BY <1>1, <1>3, <1>4, <1>5, <1>6, <1>9, <1>10

LEMMA Deleted ==
  ASSUME TypeOK, NEW c \in Call, Asked(c), job[c].kind = "delete"
  PROVE  LET m == job[c].memory
             new == DeletedRows(c)
         IN  /\ m \in Memory /\ new \in Seq(Row) /\ Len(new) = Len(rows[m]) /\ Len(new) # 0
             /\ DOMAIN new = DOMAIN rows[m]
             /\ \A v \in DOMAIN rows[m] :
                  /\ new[v].status = "deleted" /\ new[v].from = rows[m][v].from
                  /\ new[v].until = IF rows[m][v].until = NoTime THEN stamp[c]
                                    ELSE rows[m][v].until
<1> DEFINE m == job[c].memory
           erased(v) == Erase(rows[m][v], stamp[c])
<1>1. m \in Memory /\ job[c].version \in DOMAIN rows[m] /\ stamp[c] # NoTime
  BY DEF Asked, Change
<1>2. /\ Len(rows[m]) \in Nat /\ DOMAIN rows[m] = 1 .. Len(rows[m])
      /\ \A v \in DOMAIN rows[m] : rows[m][v] \in Row
  BY <1>1, RowsTyped
<1>3. Len(rows[m]) # 0
  BY <1>1, <1>2
<1>4. ASSUME NEW v \in DOMAIN rows[m]
      PROVE  /\ erased(v) \in Row /\ erased(v).status = "deleted"
             /\ erased(v).from = rows[m][v].from
             /\ erased(v).until = IF rows[m][v].until = NoTime THEN stamp[c]
                                  ELSE rows[m][v].until
  <2>1. erased(v) \in Row
    BY <1>1, <1>2, StampedRow
  <2>2. QED
    BY <1>2, <2>1 DEF Row, Erase
<1>5. DeletedRows(c) = [v \in 1 .. Len(rows[m]) |-> erased(v)]
  BY <1>2 DEF DeletedRows
<1> HIDE DEF erased
<1>6. DeletedRows(c) \in [1 .. Len(rows[m]) -> Row]
  BY <1>2, <1>4, <1>5
<1>7. DeletedRows(c) \in Seq(Row) /\ Len(DeletedRows(c)) = Len(rows[m])
  BY <1>2, <1>6, SeqIs
<1>8. QED
  BY <1>1, <1>2, <1>3, <1>4, <1>5, <1>7

\* A commit leaves well-shaped rows, and takes nothing that was there away
LEMMA Committed ==
  ASSUME TypeOK, RowsShaped, NEW c \in Call, Asked(c), ChangeCommit(c)
  PROVE  /\ rows' \in [Memory -> Seq(Row)] /\ \A n \in Memory : Len(rows'[n]) <= MaxVersion
         /\ RowsShaped' /\ Grown
<1>1. now' = now /\ now \in Nat /\ step[c] = "commit"
  BY Numbers DEF ChangeCommit, Move, TypeOK
<1>2. ASSUME NEW m \in Memory, CreateCommit(c, m)
      PROVE  /\ rows' \in [Memory -> Seq(Row)] /\ \A n \in Memory : Len(rows'[n]) <= MaxVersion
             /\ RowsShaped' /\ Grown
  <2>1. job[c].kind = "create" /\ ~Exists(m) /\ rows' = [rows EXCEPT ![m] = CreatedRows(c)]
    BY <1>2 DEF CreateCommit, CreatedRows
  <2>2. stamp[c] # NoTime /\ stamp[c] <= now
    BY <2>1 DEF Asked, Change
  <2>3. NewRow(c) \in Row /\ NewRow(c).from = stamp[c] /\ NewRow(c).until = NoTime
    BY <2>2, StampedRow
  <2>4. /\ CreatedRows(c) \in Seq(Row) /\ Len(CreatedRows(c)) = 1
        /\ DOMAIN CreatedRows(c) = {1} /\ CreatedRows(c)[1] = NewRow(c)
    BY <2>3 DEF CreatedRows
  <2>5. Len(rows[m]) = 0 /\ \A v \in DOMAIN rows[m] : CreatedRows(c)[v].from = rows[m][v].from
    BY <2>1, RowsTyped
  <2>6. /\ Len(rows[m]) <= Len(CreatedRows(c)) /\ Len(CreatedRows(c)) <= MaxVersion
        /\ Len(CreatedRows(c)) # 0
    BY <2>4, <2>5, Numbers
  <2>7. \A v \in DOMAIN CreatedRows(c) :
          /\ CreatedRows(c)[v].from <= now
          /\ CreatedRows(c)[v].status = "active" => CreatedRows(c)[v].until = NoTime
          /\ v < Len(CreatedRows(c)) => CreatedRows(c)[v].until # NoTime
    BY <2>2, <2>3, <2>4
  <2> HIDE DEF CreatedRows
  <2>8. QED
    BY <1>1, <2>1, <2>4, <2>5, <2>6, <2>7, OneLineage, Zenon
<1>3. CASE CorrectCommit(c)
  <2> DEFINE m == job[c].memory
             n == Len(rows[m])
             new == CorrectedRows(c)
  <2>1. job[c].kind = "correct" /\ rows' = [rows EXCEPT ![m] = new]
    BY <1>3 DEF CorrectCommit, CorrectedRows
  <2>2. /\ m \in Memory /\ new \in Seq(Row) /\ Active(m) /\ n \in DOMAIN rows[m]
        /\ Len(new) = n + 1 /\ Len(new) <= MaxVersion
        /\ \A v \in 1 .. n - 1 : new[v] = rows[m][v]
        /\ new[n].from = rows[m][n].from
        /\ new[n].status = "superseded" /\ new[n].until = stamp[c]
        /\ new[n + 1] = NewRow(c)
    BY <1>1, <2>1, Corrected
  <2>3. stamp[c] # NoTime /\ stamp[c] <= now
    BY <2>1 DEF Asked, Change
  <2>4. NewRow(c).from = stamp[c] /\ NewRow(c).until = NoTime
    BY <2>3, StampedRow
  <2>5. n \in Nat /\ DOMAIN rows[m] = 1 .. n /\ DOMAIN new = 1 .. n + 1
    BY <2>2, RowsTyped, LenProperties
  <2> HIDE DEF new
  <2>6. ASSUME NEW v \in DOMAIN rows[m] PROVE new[v].from = rows[m][v].from
    <3>1. v \in 1 .. n - 1 \/ v = n
      BY <2>5
    <3>2. CASE v \in 1 .. n - 1
      BY <2>2, <3>2
    <3>3. CASE v = n
      BY <2>2, <3>3
    <3>4. QED
      BY <3>1, <3>2, <3>3
  <2>7. ASSUME NEW v \in DOMAIN new
        PROVE  /\ new[v].from <= now
               /\ new[v].status = "active" => new[v].until = NoTime
               /\ v < Len(new) => new[v].until # NoTime
    <3>1. CASE v \in 1 .. n - 1
      <4>1. v \in DOMAIN rows[m] /\ v < Len(rows[m]) /\ new[v] = rows[m][v]
        BY <2>2, <2>5, <3>1
      <4>2. QED
        BY <2>2, <4>1 DEF RowsShaped
    <3>2. CASE v = n
      <4>1. rows[m][n].from <= now
        BY <2>2 DEF RowsShaped
      <4>2. QED
        BY <2>2, <2>3, <3>2, <4>1
    <3>3. CASE v = n + 1
      BY <2>2, <2>3, <2>4, <2>5, <3>3
    <3>4. QED
      BY <2>5, <3>1, <3>2, <3>3
  <2>8. n <= Len(new) /\ Len(new) # 0
    BY <2>2, <2>5
  <2> HIDE DEF m, n
  <2>9. QED
    BY <1>1, <2>1, <2>2, <2>6, <2>7, <2>8, OneLineage DEF n
<1>4. CASE DeleteCommit(c)
  <2> DEFINE m == job[c].memory
             new == DeletedRows(c)
  <2>1. job[c].kind = "delete" /\ rows' = [rows EXCEPT ![m] = new]
    BY <1>4 DEF DeleteCommit, DeletedRows
  <2>2. /\ m \in Memory /\ new \in Seq(Row) /\ Len(new) = Len(rows[m]) /\ Len(new) # 0
        /\ DOMAIN new = DOMAIN rows[m]
        /\ \A v \in DOMAIN rows[m] :
             /\ new[v].status = "deleted" /\ new[v].from = rows[m][v].from
             /\ new[v].until = IF rows[m][v].until = NoTime THEN stamp[c] ELSE rows[m][v].until
    BY <2>1, Deleted
  <2>3. stamp[c] # NoTime
    BY <2>1 DEF Asked, Change
  <2>4. Len(rows[m]) \in Nat /\ DOMAIN rows[m] = 1 .. Len(rows[m]) /\ Len(rows[m]) <= MaxVersion
    BY <2>2, RowsTyped DEF TypeOK
  <2> HIDE DEF new
  <2>5. \A v \in DOMAIN new : new[v].from <= now /\ new[v].until # NoTime /\ new[v].status # "active"
    BY <2>2, <2>3 DEF RowsShaped
  <2>6. \A v \in DOMAIN new :
          /\ new[v].from <= now
          /\ new[v].status = "active" => new[v].until = NoTime
          /\ v < Len(new) => new[v].until # NoTime
    BY <2>5
  <2>7. new[Len(new)].status # "active"
    BY <2>2, <2>4, <2>5
  <2>8. /\ Len(rows[m]) <= Len(new) /\ Len(new) <= MaxVersion
        /\ \A v \in DOMAIN rows[m] : new[v].from = rows[m][v].from
    BY <2>2, <2>4
  <2> HIDE DEF m
  <2>9. QED
    BY <1>1, <2>1, <2>2, <2>6, <2>7, <2>8, OneLineage, Zenon
<1>5. QED
  BY <1>2, <1>3, <1>4 DEF ChangeCommit

---------------------------------------------------------------------------
(* What a call knows stays true while others move *)

Mine(c) == <<step[c], job[c], stamp[c], before[c], todo[c], cursor[c], answer[c]>>

Step(c) == Continue(c) \/ Fail(c) \/ \E request \in Request : Begin(c, request)

LEMMA OneCall ==
  ASSUME TypeOK, NEW c \in Call, Step(c)
  PROVE  /\ now' = now /\ (rows' = rows \/ ChangeCommit(c))
         /\ \A o \in Call \ {c} : UNCHANGED Mine(o)
<1> DEFINE Elsewhere == /\ now' = now
                        /\ \A o \in Call \ {c} : UNCHANGED Mine(o)
<1> USE DEF TypeOK, Goto, Move, Mine
<1>1. ASSUME NEW request \in Request, Begin(c, request) PROVE Elsewhere /\ rows' = rows
  BY <1>1 DEF Begin
<1>2. CASE OpenReserve(c) \/ OpenRelease(c) \/ Reserve(c) \/ Pend(c)
  <2>1. Elsewhere /\ rows' = rows
    BY <1>2 DEF OpenReserve, OpenRelease, Reserve, Pend
  <2>2. QED
    BY <2>1
<1>3. ASSUME Raise(c) PROVE Elsewhere /\ rows' = rows
  BY <1>3 DEF Raise, Forget
<1>4. CASE StampAt(c) \/ TraceCommit(c) \/ Rank(c)
  <2>1. Elsewhere /\ rows' = rows
    BY <1>4 DEF StampAt, TraceCommit, Rank
  <2>2. QED
    BY <2>1
<1>5. CASE TraceWrite(c)
  BY <1>3, <1>5 DEF TraceWrite
<1>6. CASE ReadPage(c) \/ ReadLineage(c) \/ PageEnd(c)
  <2>1. Elsewhere /\ rows' = rows
    BY <1>6 DEF ReadPage, ReadLineage, PageEnd
  <2>2. QED
    BY <2>1
<1>7. CASE ReadRevisions(c)
  <2>1. Elsewhere /\ rows' = rows
    BY <1>7 DEF ReadRevisions
  <2>2. QED
    BY <2>1
<1>8. ASSUME NEW v \in Version, ReadTarget(c, v) PROVE Elsewhere /\ rows' = rows
  BY <1>8 DEF ReadTarget
<1>9. CASE ChangeCommit(c)
  <2>1. Elsewhere
    BY <1>9 DEF ChangeCommit, Forget
  <2>2. QED
    BY <1>9, <2>1
<1>10. CASE Refused(c) \/ Fail(c)
  BY <1>3, <1>10 DEF Refused, Fail
<1> HIDE DEF Elsewhere
<1>11. (Elsewhere /\ rows' = rows) \/ (Elsewhere /\ ChangeCommit(c))
  <2>1. CASE Continue(c)
    BY <1>2, <1>3, <1>4, <1>5, <1>6, <1>7, <1>8, <1>9, <1>10, <2>1 DEF Continue, Elsewhere
  <2>2. QED
    BY <1>1, <1>10, <2>1 DEF Step, Elsewhere
<1>12. QED
  BY <1>11 DEF Elsewhere

LEMMA InForceNext == ASSUME TypeOK', NEW m \in Memory PROVE InForce(m)' \in Nat
<1>1. rows'[m] \in Seq(Row)
  BY DEF TypeOK
<1>2. Len(rows'[m]) \in Nat /\ Unborn \in Nat /\ Erased \in Nat
  BY <1>1, LenProperties, Numbers
<1>3. InForce(m)' = Len(rows'[m]) \/ InForce(m)' = Unborn \/ InForce(m)' = Erased
  BY DEF InForce
<1>4. QED
  BY <1>2, <1>3

LEMMA Stable ==
  ASSUME TypeOK, TypeOK', NEW c \in Call, CallInv(c), UNCHANGED Mine(c),
         Grown, now <= now', step[c] = "commit" => rows' = rows
  PROVE  CallInv(c)'
<1>1. /\ step'[c] = step[c] /\ job'[c] = job[c] /\ stamp'[c] = stamp[c]
      /\ before'[c] = before[c] /\ todo'[c] = todo[c] /\ cursor'[c] = cursor[c]
      /\ answer'[c] = answer[c]
  BY DEF Mine
<1>2. \A m \in Memory : /\ InForce(m) \in Nat /\ InForce(m)' \in Nat
                        /\ before[c][m] \in Nat
                        /\ InForce(m) # Unborn => Exists(m)
  BY InForceIs, InForceNext DEF TypeOK
<1>3. Asked(c)'
  <2>1. step[c] = "commit" => ~RefusedBySchema(c)'
    <3>1. ASSUME rows' = rows PROVE RefusedBySchema(c)' <=> RefusedBySchema(c)
      BY <1>1, <3>1 DEF RefusedBySchema, InForce, Active, Latest, Exists
    <3>2. QED
      BY <3>1 DEF CallInv, Asked
  <2>2. stamp[c] <= now'
    BY Numbers DEF CallInv, Asked, TypeOK
  <2>3. QED
    BY <1>1, <2>1, <2>2 DEF CallInv, Asked, Grown
<1>4. Began(c)'
  BY <1>1, <1>2 DEF CallInv, Began, Grown
<1>5. Considered(c)'
  <2>1. ASSUME NEW m \in Memory, before[c][m] \in Version, Active(m)' PROVE Active(m)
    <3>1. InForce(m) # Unborn
      BY <1>2, <2>1, Numbers DEF CallInv, Began, Version, Unborn
    <3>2. QED
      BY <1>2, <2>1, <3>1 DEF Grown
  <2>2. \A m \in Memory : Overtaken(c, m) => Overtaken(c, m)'
    BY <1>1 DEF Overtaken, Grown
  <2>3. Ids(todo'[c]) = Ids(todo[c])
    BY <1>1
  <2>4. QED
    BY <1>1, <2>1, <2>2, <2>3 DEF CallInv, Considered
<1>6. Walked(c)'
  <2>1. \A m \in Memory : before[c][m] # Unborn => Exists(m)
    BY <1>2, Numbers DEF CallInv, Began
  <2>2. \A m \in Memory : Wanted(c, m)' => Wanted(c, m)
    BY <1>1, <2>1 DEF Wanted, Grown
  <2>3. \A m \in Memory : Answered(c, m)' = Answered(c, m)
    BY <1>1 DEF Answered
  <2>4. QED
    BY <1>1, <2>2, <2>3 DEF CallInv, Walked
<1>7. Listed(c)'
  BY <1>1 DEF CallInv, Listed, Grown, TypeOK
<1>8. Blank(c)'
  BY <1>1 DEF CallInv, Blank
<1>9. QED
  BY <1>3, <1>4, <1>5, <1>6, <1>7, <1>8 DEF CallInv

---------------------------------------------------------------------------
(* What is read *)

LEMMA Reads ==
  ASSUME NEW S \in SUBSET (Memory \X Version)
  PROVE  IsFiniteSet(S) /\ Ids(S) \in SUBSET Memory /\ Ids(S) \in SUBSET Nat
<1>1. IsFiniteSet(Version)
  BY Numbers, FS_Interval DEF Version
<1>2. IsFiniteSet(Memory \X Version)
  BY <1>1, Numbers, FS_Product
<1>3. IsFiniteSet(S)
  BY <1>2, FS_Subset
<1>4. Ids(S) \in SUBSET Memory
  BY DEF Ids
<1>5. QED
  BY <1>3, <1>4, Numbers

LEMMA Served ==
  ASSUME NEW S \in SUBSET (Memory \X Version)
  PROVE  LET new == SetToSeq({<<s[1], {s[2]}, {}>> : s \in S})
         IN  /\ new \in Seq(Entry)
             /\ \A i \in DOMAIN new : \E s \in S : new[i] = <<s[1], {s[2]}, {}>>
<1> DEFINE image(s) == <<s[1], {s[2]}, {}>>
           T == {image(s) : s \in S}
<1>1. IsFiniteSet(S)
  BY Reads
<1>2. \A s \in S : image(s) \in Entry
  BY DEF Entry
<1>3. T \subseteq Entry
  BY <1>2
<1>4. IsFiniteSet(T)
  <2> DEFINE f == [s \in S |-> image(s)]
  <2> HIDE DEF image
  <2>1. f \in Surjection(S, T)
    BY DEF Surjection
  <2>2. QED
    BY <1>1, <2>1, FS_Surjection
<1> HIDE DEF T
<1>5. Cardinality(T) \in Nat /\ SetToSeq(T) \in [1 .. Cardinality(T) -> T]
  BY <1>4, SeqOfSet, FS_CardinalityType
<1>6. SetToSeq(T) \in [1 .. Cardinality(T) -> Entry]
  BY <1>3, <1>5
<1>7. SetToSeq(T) \in Seq(Entry)
  BY <1>5, <1>6, SeqIs
<1>8. \A i \in DOMAIN SetToSeq(T) : SetToSeq(T)[i] \in T
  BY <1>5
<1>9. QED
  BY <1>7, <1>8 DEF T

\* What retrieval reads: the versions in force whose window is open
LEMMA Ranking ==
  ASSUME TypeOK, NEW at
  PROVE  LET considered == {m \in Memory : Exists(m) /\ ActiveAt(Latest(m), at)}
         IN  /\ \A m \in considered : InForce(m) \in Version
             /\ {<<m, InForce(m)>> : m \in considered} \in SUBSET (Memory \X Version)
<1>1. \A m \in Memory : Exists(m) /\ ActiveAt(Latest(m), at) => InForce(m) \in Version
  BY InForceIs, RowsTyped DEF ActiveAt, Active
<1>2. QED
  BY <1>1

LEMMA ListingIs ==
  ASSUME TypeOK, NEW c \in Call
  PROVE  /\ Listing(c) \in SUBSET (Memory \X Version) /\ IsFiniteSet(Listing(c))
         /\ Ids(Listing(c)) \in SUBSET Nat
         /\ \A r \in Listing(c) : r[2] = Len(rows[r[1]])
<1>1. \A m \in Memory : Exists(m) => Len(rows[m]) \in Version
  BY RowsTyped
<1>2. Listing(c) \in SUBSET (Memory \X Version)
  BY <1>1 DEF Listing
<1>3. QED
  BY <1>2, Reads DEF Listing

\* The next cursor is the last lineage of a page that leaves something out
LEMMA PageRead ==
  ASSUME TypeOK, NEW c \in Call
  PROVE  LET page == FirstPage(Listing(c))
             next == IF Cardinality(Listing(c)) > PageSize THEN Max(Ids(page)) ELSE Nowhere
         IN  /\ page \in SUBSET (Memory \X Version) /\ page \subseteq Listing(c)
             /\ next \in {Nowhere} \cup Memory
             /\ next = Nowhere => page = Listing(c)
             /\ next # Nowhere =>
                  /\ next \in Ids(page)
                  /\ \A r \in page : r[1] <= next
                  /\ \A r \in Listing(c) : r[1] < next => r \in page
<1> DEFINE listing == Listing(c)
           page == FirstPage(listing)
<1>1. /\ listing \in SUBSET (Memory \X Version) /\ IsFiniteSet(listing)
      /\ Ids(listing) \in SUBSET Nat
  BY ListingIs
<1> HIDE DEF listing
<1>2. /\ page \subseteq listing
      /\ \A r \in page, o \in listing : o[1] < r[1] => o \in page
      /\ Cardinality(listing) <= PageSize => page = listing
      /\ listing # {} => page # {}
      /\ IsFiniteSet(Ids(page)) /\ Ids(page) \in SUBSET Nat
  BY <1>1, ServingAssumption, PageFacts
<1> HIDE DEF page
<1>3. page \in SUBSET (Memory \X Version) /\ Ids(page) \in SUBSET Memory
  BY <1>1, <1>2, Reads
<1>4. Cardinality(listing) \in Nat /\ PageSize \in Nat \ {0} /\ Nowhere \notin Memory
  BY <1>1, FS_CardinalityType, Numbers
<1>5. CASE Cardinality(listing) > PageSize
  <2>1. listing # {}
    BY <1>4, <1>5, FS_EmptySet
  <2>2. Ids(page) # {}
    BY <1>2, <2>1 DEF Ids
  <2>3. Max(Ids(page)) \in Ids(page) /\ \A n \in Ids(page) : n <= Max(Ids(page))
    BY <1>2, <2>2, Greatest
  <2>4. \A r \in page : r[1] <= Max(Ids(page))
    BY <2>3 DEF Ids
  <2>5. \A r \in listing : r[1] < Max(Ids(page)) => r \in page
    BY <1>2, <2>3 DEF Ids
  <2>6. QED
    BY <1>2, <1>3, <1>4, <1>5, <2>3, <2>4, <2>5 DEF listing, page
<1>6. CASE ~(Cardinality(listing) > PageSize)
  BY <1>2, <1>3, <1>4, <1>6 DEF listing, page
<1>7. QED
  BY <1>5, <1>6

LEMMA LineageIs ==
  ASSUME TypeOK, NEW c \in Call, job[c].memory \in Memory
  PROVE  /\ Lineage(c) \in SUBSET (Memory \X Version)
         /\ \A r \in Lineage(c) : r[1] = job[c].memory /\ r[2] \in DOMAIN rows[r[1]]
BY RowsTyped DEF Lineage

\* Revisions are asked for by the least lineage there is left
LEMMA NextRead ==
  ASSUME TypeOK, NEW c \in Call, todo[c] # {}
  PROVE  LET m == Min(Ids(todo[c]))
             versions == {v \in Version : <<m, v>> \in todo[c]}
         IN  /\ m \in Memory /\ m \in Ids(todo[c]) /\ \A r \in todo[c] : m <= r[1]
             /\ <<m, versions, RevisionsOf(c, m)>> \in Entry
<1> DEFINE m == Min(Ids(todo[c]))
<1>1. todo[c] \in SUBSET (Memory \X Version)
  BY DEF TypeOK
<1>2. Ids(todo[c]) \in SUBSET Memory /\ Ids(todo[c]) \in SUBSET Nat /\ Ids(todo[c]) # {}
  BY <1>1, Reads DEF Ids
<1>3. m \in Ids(todo[c]) /\ \A n \in Ids(todo[c]) : m <= n
  BY <1>2, Least
<1> HIDE DEF m
<1>4. m \in Memory /\ \A r \in todo[c] : m <= r[1]
  BY <1>2, <1>3 DEF Ids
<1>5. RevisionsOf(c, m) \in SUBSET Nat
  BY <1>4, RowsTyped DEF RevisionsOf
<1>6. QED
  BY <1>3, <1>4, <1>5 DEF Entry, m

---------------------------------------------------------------------------
(* Every step keeps the types, the shape of the rows and the writer's lock *)

LEMMA RequestIs == ASSUME TypeOK, NEW request \in Request
  PROVE  /\ request \in Job /\ request.kind \in Kind
         /\ request.kind \in {"correct", "delete"} =>
              /\ request.memory \in Memory /\ request.version \in DOMAIN rows[request.memory]
         /\ request.kind = "lineage" => request.memory \in Memory
<1> DEFINE plain == {[kind |-> k, memory |-> 0, version |-> 0, wide |-> w] :
                       k \in {"retrieve", "create"}, w \in {FALSE}}
           walks == [kind : {"walk"}, memory : {0}, version : {0}, wide : BOOLEAN]
           lineages == [kind : {"lineage"}, memory : Memory, version : {0}, wide : BOOLEAN]
           changes(m) == [kind : {"correct", "delete"}, memory : {m}, version : DOMAIN rows[m],
                          wide : {FALSE}]
           Good == /\ request \in Job /\ request.kind \in Kind
                   /\ request.kind \in {"correct", "delete"} =>
                        /\ request.memory \in Memory
                        /\ request.version \in DOMAIN rows[request.memory]
                   /\ request.kind = "lineage" => request.memory \in Memory
<1>1. ASSUME request \in plain PROVE Good
  <2>1. PICK k \in {"retrieve", "create"}, w \in {FALSE} :
          request = [kind |-> k, memory |-> 0, version |-> 0, wide |-> w]
    BY <1>1
  <2>2. w \in BOOLEAN
    OBVIOUS
  <2>3. QED
    BY <2>1, <2>2 DEF Job, Kind
<1>2. ASSUME request \in walks PROVE Good
  BY <1>2 DEF Job, Kind
<1>3. ASSUME request \in lineages PROVE Good
  BY <1>3 DEF Job, Kind
<1>4. ASSUME NEW m \in Memory, request \in changes(m) PROVE Good
  <2>1. DOMAIN rows[m] \subseteq Version
    BY RowsTyped
  <2>2. request \in [kind : {"correct", "delete"}, memory : Memory, version : Version, wide : BOOLEAN]
    BY <1>4, <2>1
  <2>3. QED
    BY <1>4, <2>2 DEF Job, Kind
<1>5. Request = plain \cup walks \cup lineages \cup UNION {changes(m) : m \in Memory}
  BY DEF Request
<1> HIDE DEF plain, walks, lineages, changes, Good
<1>6. \/ request \in plain \/ request \in walks \/ request \in lineages
      \/ \E m \in Memory : request \in changes(m)
  BY <1>5
<1>7. Good
  BY <1>1, <1>2, <1>3, <1>4, <1>6
<1>8. QED
  BY <1>7 DEF Good

LEMMA RaiseTyped == ASSUME TypeOK, NEW c \in Call, Forget(c), Goto(c, "failed") \/ Goto(c, "returned")
  PROVE  /\ step' \in [Call -> Label] /\ job' \in [Call -> Job]
         /\ stamp' \in [Call -> {NoTime} \cup Time] /\ before' \in [Call -> [Memory -> Nat]]
         /\ todo' \in [Call -> SUBSET (Memory \X Version)]
         /\ cursor' \in [Call -> {Nowhere} \cup Memory] /\ answer' \in [Call -> Seq(Entry)]
<1>1. Nothing \in Job /\ [m \in Memory |-> Unborn] \in [Memory -> Nat] /\ <<>> \in Seq(Entry)
  BY Numbers DEF Job
<1> HIDE DEF Nothing
<1>2. QED
  BY <1>1 DEF TypeOK, Forget, Goto, Label

LEMMA Typed == ASSUME IInv, [Next]_vars PROVE TypeOK'
<1> USE DEF IInv
<1>1. CASE UNCHANGED vars
  BY <1>1 DEF vars, TypeOK
<1>2. CASE Tick
  BY <1>2, Numbers DEF Tick, TypeOK, Time
<1>3. ASSUME NEW c \in Call, Step(c) PROVE TypeOK'
  <2>1. ASSUME NEW request \in Request, Begin(c, request) PROVE TypeOK'
    <3>1. [m \in Memory |-> InForce(m)] \in [Memory -> Nat]
      BY InForceIs
    <3>2. request \in Job
      BY RequestIs
    <3>3. QED
      BY <2>1, <3>1, <3>2 DEF TypeOK, Begin, Move, Goto, Label
  <2>2. CASE OpenReserve(c) \/ OpenRelease(c) \/ Reserve(c) \/ Pend(c) \/ StampAt(c)
    BY <2>2 DEF OpenReserve, OpenRelease, Reserve, Pend, StampAt, TypeOK, Move, Goto, Label
  <2>3. ASSUME Raise(c) PROVE TypeOK'
    BY <2>3, RaiseTyped DEF Raise, TypeOK
  <2>4. CASE Rank(c)
    <3> DEFINE read == {<<m, InForce(m)>> : m \in {n \in Memory :
                           Exists(n) /\ ActiveAt(Latest(n), stamp[c])}}
    <3>1. read \in SUBSET (Memory \X Version)
      BY Ranking
    <3>2. /\ todo' = [todo EXCEPT ![c] = read]
          /\ Goto(c, "plain") \/ Goto(c, "ranked")
          /\ UNCHANGED <<now, rows, job, stamp, before, cursor, answer>>
      BY <2>4 DEF Rank
    <3> HIDE DEF read
    <3>3. QED
      BY <3>1, <3>2 DEF TypeOK, Goto, Label
  <2>5. CASE TraceWrite(c)
    <3>1. CASE /\ Goto(c, "write")
               /\ UNCHANGED <<now, rows, job, stamp, before, todo, cursor, answer>>
      BY <3>1 DEF TypeOK, Goto, Label
    <3>2. QED
      BY <2>3, <2>5, <3>1 DEF TraceWrite
  <2>6. CASE TraceCommit(c)
    <3>1. PICK served \in SUBSET todo[c] :
            answer' = [answer EXCEPT ![c] = SetToSeq({<<s[1], {s[2]}, {}>> : s \in served})]
      BY <2>6 DEF TraceCommit
    <3>2. SetToSeq({<<s[1], {s[2]}, {}>> : s \in served}) \in Seq(Entry)
      <4>1. served \in SUBSET (Memory \X Version)
        BY DEF TypeOK
      <4>2. QED
        BY <4>1, Served
    <3>3. QED
      BY <2>6, <3>1, <3>2 DEF TraceCommit, Move, Goto, Label, TypeOK
  <2>7. CASE ReadPage(c)
    <3> DEFINE page == FirstPage(Listing(c))
               next == IF Cardinality(Listing(c)) > PageSize THEN Max(Ids(page)) ELSE Nowhere
    <3>1. page \in SUBSET (Memory \X Version) /\ next \in {Nowhere} \cup Memory
      BY PageRead
    <3>2. /\ todo' = [todo EXCEPT ![c] = page] /\ cursor' = [cursor EXCEPT ![c] = next]
          /\ Goto(c, "paging") /\ UNCHANGED <<now, rows, job, stamp, before, answer>>
      BY <2>7 DEF ReadPage, Move
    <3> HIDE DEF page, next
    <3>3. QED
      BY <3>1, <3>2 DEF TypeOK, Goto, Label
  <2>8. CASE ReadLineage(c)
    <3>1. job[c].memory \in Memory
      BY <2>8 DEF ReadLineage, CallInv, Asked
    <3>2. Lineage(c) \in SUBSET (Memory \X Version)
      BY <3>1, LineageIs
    <3>3. QED
      BY <2>8, <3>2 DEF ReadLineage, TypeOK, Move, Goto, Label
  <2>9. CASE ReadRevisions(c)
    <3> DEFINE m == Min(Ids(todo[c]))
               entry == <<m, {v \in Version : <<m, v>> \in todo[c]}, RevisionsOf(c, m)>>
    <3>1. entry \in Entry
      BY <2>9, NextRead DEF ReadRevisions
    <3>2. /\ answer' = [answer EXCEPT ![c] = Append(answer[c], entry)]
          /\ todo' = [todo EXCEPT ![c] = {r \in todo[c] : r[1] # m}]
          /\ UNCHANGED <<now, rows, step, job, stamp, before, cursor>>
      BY <2>9 DEF ReadRevisions
    <3> HIDE DEF m, entry
    <3>3. Append(answer[c], entry) \in Seq(Entry)
      BY <3>1, AppendIs DEF TypeOK
    <3>4. {r \in todo[c] : r[1] # m} \in SUBSET (Memory \X Version)
      BY DEF TypeOK
    <3>5. QED
      BY <3>2, <3>3, <3>4 DEF TypeOK
  <2>10. CASE PageEnd(c)
    BY <2>10 DEF PageEnd, TypeOK, Goto, Label
  <2>11. ASSUME NEW v \in Version, ReadTarget(c, v) PROVE TypeOK'
    <3>1. job[c].version = v /\ job' = [job EXCEPT ![c].version = v]
      BY <2>11 DEF ReadTarget, TargetUnchanged
    <3>2. job[c] \in [kind : Kind, memory : Memory \cup {0}, version : Version \cup {0}, wide : BOOLEAN]
      BY <2>11 DEF ReadTarget, Nothing, TypeOK, Job
    <3>3. job' = job
      BY <3>1, <3>2 DEF TypeOK
    <3>4. QED
      BY <2>11, <3>3 DEF ReadTarget, TypeOK, Move, Goto, Label
  <2>12. CASE ChangeCommit(c)
    <3>1. rows' \in [Memory -> Seq(Row)] /\ \A n \in Memory : Len(rows'[n]) <= MaxVersion
      BY <2>12, Committed DEF CallInv
    <3>2. Forget(c) /\ Goto(c, "returned") /\ now' = now
      BY <2>12 DEF ChangeCommit, Move
    <3>3. QED
      BY <3>1, <3>2, RaiseTyped DEF TypeOK
  <2>13. CASE Refused(c) \/ Fail(c)
    BY <2>3, <2>13 DEF Refused, Fail
  <2>14. QED
    BY <1>3, <2>1, <2>2, <2>4, <2>5, <2>6, <2>7, <2>8, <2>9, <2>10, <2>11, <2>12, <2>13
    DEF Step, Continue
<1>4. QED
  BY <1>1, <1>2, <1>3 DEF Next, Step

LEMMA Shaped == ASSUME IInv, TypeOK', [Next]_vars PROVE RowsShaped' /\ now <= now'
<1> USE DEF IInv
<1>1. now <= now'
  <2>1. now \in Nat
    BY Numbers DEF TypeOK
  <2>2. now' = now \/ now' = now + 1
    <3>1. \A c \in Call : Step(c) => now' = now
      BY OneCall
    <3>2. QED
      BY <3>1 DEF vars, Next, Step, Tick
  <2>3. QED
    BY <2>1, <2>2
<1>2. rows' = rows \/ \E c \in Call : ChangeCommit(c)
  BY OneCall DEF vars, Next, Step, Tick
<1>3. ASSUME NEW c \in Call, ChangeCommit(c) PROVE RowsShaped'
  BY <1>3, Committed DEF CallInv
<1>4. ASSUME rows' = rows PROVE RowsShaped'
  <2>1. \A m \in Memory : \A v \in DOMAIN rows[m] : rows[m][v].from \in Nat
    BY RowsTyped, Numbers DEF Row
  <2>2. now \in Nat /\ now' \in Nat
    BY Numbers DEF TypeOK
  <2>3. QED
    BY <1>1, <1>4, <2>1, <2>2 DEF RowsShaped
<1>5. QED
  BY <1>1, <1>2, <1>3, <1>4

\* Nobody becomes a writer beside another
LEMMA Locked == ASSUME IInv, [Next]_vars PROVE OneWriter'
<1> USE DEF IInv
<1>1. ASSUME NEW c \in Call, Step(c) PROVE OneWriter'
  <2>1. \A o \in Call \ {c} : step'[o] = step[o]
    BY <1>1, OneCall DEF Mine
  <2>2. step'[c] \in Writing => step[c] \in Writing \/ ~Reserved(c)
    <3> USE DEF Writing, Move, Goto, TypeOK
    <3>1. CASE OpenReserve(c) \/ OpenRelease(c) \/ Reserve(c) \/ Pend(c) \/ StampAt(c)
      BY <3>1 DEF OpenReserve, OpenRelease, Reserve, Pend, StampAt
    <3>2. CASE \E request \in Request : Begin(c, request)
      BY <3>2 DEF Begin
    <3>3. ASSUME Raise(c) PROVE step'[c] \notin Writing
      BY <3>3 DEF Raise
    <3>4. CASE Rank(c)
      BY <3>4 DEF Rank
    <3>5. CASE TraceWrite(c)
      BY <3>3, <3>5 DEF TraceWrite
    <3>6. CASE TraceCommit(c) \/ ReadLineage(c) \/ PageEnd(c) \/ ChangeCommit(c)
      BY <3>6 DEF TraceCommit, ReadLineage, PageEnd, ChangeCommit
    <3>7. CASE ReadPage(c)
      BY <3>7 DEF ReadPage
    <3>8. CASE ReadRevisions(c)
      BY <3>8 DEF ReadRevisions
    <3>9. CASE \E v \in Version : ReadTarget(c, v)
      BY <3>9 DEF ReadTarget
    <3>10. CASE Refused(c) \/ Fail(c)
      BY <3>3, <3>10 DEF Refused, Fail
    <3>11. QED
      BY <1>1, <3>1, <3>2, <3>4, <3>5, <3>6, <3>7, <3>8, <3>9, <3>10 DEF Step, Continue
  <2>3. ~Reserved(c) => \A o \in Call \ {c} : step[o] \notin Writing
    BY DEF Reserved, Writing
  <2>4. QED
    BY <2>1, <2>2, <2>3 DEF OneWriter
<1>2. QED
  BY <1>1 DEF Next, Step, Tick, vars, OneWriter

---------------------------------------------------------------------------
(* Every step of a call keeps what the call knows true *)

LEMMA SameView == ASSUME UNCHANGED rows, NEW m \in Memory
  PROVE  /\ InForce(m)' = InForce(m) /\ Exists(m)' = Exists(m) /\ Active(m)' = Active(m)
BY DEF InForce, Exists, Active, Latest

LEMMA Ended ==
  ASSUME TypeOK, TypeOK', NEW c \in Call, Forget(c), Goto(c, "failed") \/ Goto(c, "returned")
  PROVE  CallInv(c)'
<1>1. /\ job'[c] = Nothing /\ stamp'[c] = NoTime /\ before'[c] = [m \in Memory |-> Unborn]
      /\ todo'[c] = {} /\ cursor'[c] = Nowhere /\ answer'[c] = <<>>
      /\ step'[c] \in {"failed", "returned"}
  BY DEF TypeOK, Forget, Goto
<1>2. job'[c].kind = "none"
  BY <1>1 DEF Nothing
<1>3. Asked(c)'
  BY <1>1, <1>2, Numbers DEF Asked, StepsOf, Change, TypeOK
<1>4. Began(c)'
  BY <1>1, InForceNext, Numbers DEF Began
<1>5. Considered(c)' /\ Walked(c)' /\ Listed(c)' /\ Blank(c)'
  BY <1>1, <1>2 DEF Considered, Walked, Listed, Blank
<1>6. QED
  BY <1>3, <1>4, <1>5 DEF CallInv

\* Steps that only go on: opening, waiting for a lock, the end of a page
LEMMA Passed ==
  ASSUME TypeOK, TypeOK', NEW c \in Call, CallInv(c), NEW label \in Label \ {"idle"},
         Goto(c, label), UNCHANGED <<now, rows, job, stamp, before, todo, cursor, answer>>,
         label \in StepsOf(job[c].kind), label = "commit" => ~RefusedBySchema(c),
         job[c].kind = "retrieve" =>
           label # "returned" /\ step[c] # "returned" /\ (label \in Read => step[c] \in Read),
         job[c].kind = "walk" =>
           /\ todo[c] = {} /\ label # "paging"
           /\ \/ step[c] \in {"open", "opening"} /\ label \in {"opening", "ready"}
              \/ step[c] = "paging" /\ label = IF cursor[c] = Nowhere THEN "returned" ELSE "open"
  PROVE  CallInv(c)'
<1>1. /\ job'[c] = job[c] /\ stamp'[c] = stamp[c] /\ before'[c] = before[c] /\ todo'[c] = todo[c]
      /\ cursor'[c] = cursor[c] /\ answer'[c] = answer[c] /\ step'[c] = label
  BY DEF TypeOK, Goto
<1>2. \A m \in Memory : InForce(m)' = InForce(m) /\ Active(m)' = Active(m)
  BY SameView
<1>3. Asked(c)'
  <2>1. RefusedBySchema(c)' = RefusedBySchema(c)
    BY <1>1 DEF RefusedBySchema, InForce, Active, Latest, Exists
  <2>2. QED
    BY <1>1, <2>1 DEF CallInv, Asked
<1>4. Began(c)'
  BY <1>1, <1>2 DEF CallInv, Began
<1>5. Considered(c)'
  <2>1. /\ \A m \in Memory : Active(m)' = Active(m) /\ Overtaken(c, m)' = Overtaken(c, m)
        /\ Ids(todo'[c]) = Ids(todo[c])
    BY <1>1, SameView DEF Overtaken
  <2>2. QED
    BY <1>1, <2>1 DEF CallInv, Considered
<1>6. Walked(c)'
  <2>1. \A m \in Memory : /\ Wanted(c, m)' = Wanted(c, m) /\ Answered(c, m)' = Answered(c, m)
                          /\ m \notin Ids({})
    BY <1>1, <1>2 DEF Wanted, Answered, Ids
  <2>2. ASSUME job[c].kind = "walk", step[c] \in {"open", "opening"}, label \in {"opening", "ready"}
        PROVE  Walked(c)'
    BY <1>1, <2>1, <2>2 DEF CallInv, Walked
  <2>3. ASSUME job[c].kind = "walk", step[c] = "paging",
               label = IF cursor[c] = Nowhere THEN "returned" ELSE "open"
        PROVE  Walked(c)'
    BY <1>1, <2>1, <2>3 DEF CallInv, Walked
  <2>4. ASSUME job[c].kind # "walk" PROVE Walked(c)'
    BY <1>1, <2>4 DEF Walked
  <2>5. QED
    BY <2>2, <2>3, <2>4
<1>7. Listed(c)' /\ Blank(c)'
  BY <1>1 DEF CallInv, Listed, Blank
<1>8. QED
  BY <1>3, <1>4, <1>5, <1>6, <1>7 DEF CallInv

LEMMA KindIs == ASSUME TypeOK, NEW c \in Call
  PROVE job[c].kind \in {"none", "retrieve", "walk", "lineage", "create", "correct", "delete"}
BY DEF TypeOK, Job, Kind, Nothing

LEMMA OwnPass ==
  ASSUME IInv, TypeOK', NEW c \in Call,
         \/ OpenReserve(c) \/ OpenRelease(c) \/ PageEnd(c) \/ Reserve(c) \/ Pend(c)
         \/ TraceWrite(c) /\ Goto(c, "write")
  PROVE  CallInv(c)'
<1> USE DEF IInv, Move
<1>1. CallInv(c) /\ step[c] \in StepsOf(job[c].kind)
  BY DEF CallInv, Asked
<1>2. job[c].kind = "walk" /\ step[c] # "paging" => todo[c] = {}
  BY <1>1 DEF CallInv, Walked
<1>3. CASE OpenReserve(c)
  <2>1. /\ Goto(c, "opening") /\ step[c] = "open"
        /\ UNCHANGED <<now, rows, job, stamp, before, todo, cursor, answer>>
    BY <1>3 DEF OpenReserve
  <2>2. "opening" \in StepsOf(job[c].kind)
    BY <1>1, <2>1, KindIs DEF StepsOf
  <2>3. QED
    BY <1>1, <1>2, <2>1, <2>2, Passed DEF Label, Read
<1>4. CASE OpenRelease(c)
  <2>1. /\ Goto(c, "ready") /\ step[c] = "opening"
        /\ UNCHANGED <<now, rows, job, stamp, before, todo, cursor, answer>>
    BY <1>4 DEF OpenRelease
  <2>2. "ready" \in StepsOf(job[c].kind)
    BY <1>1, <2>1, KindIs DEF StepsOf
  <2>3. QED
    BY <1>1, <1>2, <2>1, <2>2, Passed DEF Label, Read
<1>5. CASE PageEnd(c)
  <2> DEFINE label == IF cursor[c] = Nowhere THEN "returned" ELSE "open"
  <2>1. /\ Goto(c, label) /\ step[c] = "paging" /\ todo[c] = {}
        /\ UNCHANGED <<now, rows, job, stamp, before, todo, cursor, answer>>
    BY <1>5 DEF PageEnd
  <2>2. job[c].kind \in {"walk", "lineage"} /\ label \in StepsOf(job[c].kind)
    BY <1>1, <2>1, KindIs DEF StepsOf
  <2>3. label \in Label \ {"idle"} /\ label # "commit" /\ label # "paging"
    BY DEF Label
  <2>4. label = IF cursor[c] = Nowhere THEN "returned" ELSE "open"
    OBVIOUS
  <2> HIDE DEF label
  <2>5. job[c].kind # "retrieve"
    BY <2>2
  <2>6. QED
    BY <1>1, <2>1, <2>2, <2>3, <2>4, <2>5, Passed
<1>6. CASE Reserve(c)
  <2>1. /\ Goto(c, "write")
        /\ step[c] = "target" \/ (step[c] = "ready" /\ job[c].kind = "create")
        /\ UNCHANGED <<now, rows, job, stamp, before, todo, cursor, answer>>
    BY <1>6 DEF Reserve
  <2>2. job[c].kind \in Change /\ "write" \in StepsOf(job[c].kind)
    BY <1>1, <2>1, KindIs DEF StepsOf, Change
  <2>3. QED
    BY <1>1, <2>1, <2>2, Passed DEF Label, Change
<1>7. CASE Pend(c)
  <2>1. /\ Goto(c, "commit") /\ step[c] = "write" /\ ~RefusedBySchema(c)
        /\ UNCHANGED <<now, rows, job, stamp, before, todo, cursor, answer>>
    BY <1>7 DEF Pend
  <2>2. job[c].kind # "walk" /\ "commit" \in StepsOf(job[c].kind)
    BY <1>1, <2>1, KindIs DEF StepsOf
  <2>3. QED
    BY <1>1, <2>1, <2>2, Passed DEF Label, Read
<1>8. CASE TraceWrite(c) /\ Goto(c, "write")
  <2>1. step[c] \in {"plain", "ranked"} /\ Goto(c, "write")
    BY <1>8 DEF TraceWrite
  <2>2. UNCHANGED <<now, rows, job, stamp, before, todo, cursor, answer>>
    BY <1>8 DEF TraceWrite, Raise, Goto, TypeOK
  <2>3. job[c].kind = "retrieve" /\ "write" \in StepsOf(job[c].kind)
    BY <1>1, <2>1, KindIs DEF StepsOf
  <2>4. QED
    BY <1>1, <2>1, <2>2, <2>3, Passed DEF Label, Read
<1>9. QED
  BY <1>3, <1>4, <1>5, <1>6, <1>7, <1>8

LEMMA OwnTarget ==
  ASSUME IInv, TypeOK', NEW c \in Call, NEW v \in Version, ReadTarget(c, v)
  PROVE  CallInv(c)'
<1> USE DEF IInv
<1>1. job[c].version = v /\ job' = [job EXCEPT ![c].version = v]
  BY DEF ReadTarget, TargetUnchanged
<1>2. job[c] \in [kind : Kind, memory : Memory \cup {0}, version : Version \cup {0}, wide : BOOLEAN]
  BY DEF ReadTarget, Nothing, TypeOK, Job
<1>3. job' = job
  BY <1>1, <1>2 DEF TypeOK
<1>4. /\ Goto(c, "target") /\ UNCHANGED <<now, rows, job, stamp, before, todo, cursor, answer>>
      /\ job[c].kind \in {"correct", "delete"}
  BY <1>3 DEF ReadTarget, Move
<1>5. "target" \in StepsOf(job[c].kind)
  BY <1>4 DEF StepsOf
<1>6. CallInv(c)
  OBVIOUS
<1>7. QED
  BY <1>4, <1>5, <1>6, Passed DEF Label

LEMMA OwnBegin ==
  ASSUME IInv, TypeOK', NEW c \in Call, NEW request \in Request, Begin(c, request)
  PROVE  CallInv(c)'
<1> USE DEF IInv
<1>1. /\ step[c] = "idle" /\ step'[c] = "open" /\ job'[c] = request
      /\ stamp'[c] = IF request.kind \in Change THEN now ELSE NoTime
      /\ before'[c] = [m \in Memory |-> InForce(m)]
      /\ todo'[c] = todo[c] /\ cursor'[c] = cursor[c] /\ answer'[c] = answer[c]
      /\ now' = now /\ rows' = rows
  BY DEF Begin, Move, Goto, TypeOK, Change
<1>2. todo[c] = {} /\ cursor[c] = Nowhere /\ answer[c] = <<>>
  BY <1>1 DEF CallInv, Blank
<1>3. /\ request.kind \in Kind
      /\ request.kind \in {"correct", "delete"} =>
           /\ request.memory \in Memory /\ request.version \in DOMAIN rows[request.memory]
      /\ request.kind = "lineage" => request.memory \in Memory
  BY RequestIs
<1>4. now \in Nat /\ now # NoTime /\ NoTime = 0
  BY Numbers DEF TypeOK
<1>5. Asked(c)'
  <2>1. "open" \in StepsOf(request.kind)
    BY <1>3 DEF StepsOf, Kind
  <2>2. stamp'[c] <= now' /\ (request.kind \in Change => stamp'[c] = now)
    BY <1>1, <1>4
  <2>3. request.kind \in {"correct", "delete"} => rows[request.memory][request.version].from <= now
    BY <1>3 DEF RowsShaped
  <2>4. QED
    BY <1>1, <1>3, <1>4, <2>1, <2>2, <2>3 DEF Asked, Change
<1>6. Began(c)'
  <2>1. request.kind = "retrieve" => stamp'[c] = NoTime
    BY <1>1 DEF Change
  <2>2. \A m \in Memory : /\ InForce(m)' = InForce(m) /\ InForce(m) \in Nat
                          /\ InForce(m) \in Version => InForce(m) \in DOMAIN rows[m]
    BY <1>1, SameView, InForceIs
  <2>3. QED
    BY <1>1, <2>1, <2>2 DEF Began
<1>7. Considered(c)' /\ Listed(c)' /\ Blank(c)'
  BY <1>1, <1>2 DEF Considered, Listed, Blank, Read
<1>8. Walked(c)'
  BY <1>1, <1>2 DEF Walked
<1>9. QED
  BY <1>5, <1>6, <1>7, <1>8 DEF CallInv

\* retrieve: the clock reading, the ranking and the answer
LEMMA OwnStamp ==
  ASSUME IInv, TypeOK', NEW c \in Call, StampAt(c)
  PROVE  CallInv(c)'
<1> USE DEF IInv
<1>1. /\ step[c] = "ready" /\ step'[c] = "ready" /\ job'[c] = job[c] /\ stamp'[c] = now
      /\ before'[c] = before[c] /\ todo'[c] = todo[c] /\ cursor'[c] = cursor[c]
      /\ answer'[c] = answer[c] /\ now' = now /\ rows' = rows /\ job[c].kind = "retrieve"
  BY DEF StampAt, TypeOK
<1>2. now \in Nat
  BY Numbers DEF TypeOK
<1>3. CallInv(c)
  OBVIOUS
<1>4. Asked(c)'
  BY <1>1, <1>2, <1>3 DEF CallInv, Asked, Change
<1>5. Began(c)'
  <2>1. \A m \in Memory : before[c][m] \in DOMAIN rows[m] => rows[m][before[c][m]].from <= now
    BY DEF RowsShaped
  <2>2. \A m \in Memory : InForce(m)' = InForce(m)
    BY <1>1, SameView
  <2>3. QED
    BY <1>1, <1>3, <2>1, <2>2 DEF CallInv, Began
<1>6. Considered(c)' /\ Walked(c)' /\ Listed(c)' /\ Blank(c)'
  BY <1>1, <1>3 DEF CallInv, Considered, Walked, Listed, Blank, Read
<1>7. QED
  BY <1>4, <1>5, <1>6 DEF CallInv

LEMMA OwnRank ==
  ASSUME IInv, TypeOK', NEW c \in Call, Rank(c)
  PROVE  CallInv(c)'
<1> USE DEF IInv
<1> DEFINE considered == {m \in Memory : Exists(m) /\ ActiveAt(Latest(m), stamp[c])}
           read == {<<m, InForce(m)>> : m \in considered}
<1>1. /\ step[c] = "ready" /\ step'[c] \in {"plain", "ranked"} /\ job'[c] = job[c]
      /\ stamp'[c] = stamp[c] /\ before'[c] = before[c] /\ todo'[c] = read
      /\ cursor'[c] = cursor[c] /\ answer'[c] = answer[c] /\ now' = now /\ rows' = rows
      /\ job[c].kind = "retrieve" /\ stamp[c] # NoTime
  BY DEF Rank, Goto, TypeOK
<1>2. CallInv(c)
  OBVIOUS
<1>3. \A m \in Memory : InForce(m)' = InForce(m)
  BY <1>1, SameView
<1>4. Asked(c)'
  BY <1>1, <1>2 DEF CallInv, Asked, StepsOf, Change
<1>5. Began(c)'
  BY <1>1, <1>2, <1>3 DEF CallInv, Began
<1>6. Considered(c)'
  <2>1. answer[c] = <<>>
    BY <1>1, <1>2 DEF CallInv, Considered
  <2>2. \A r \in read : before[c][r[1]] <= r[2]
    BY <1>2 DEF CallInv, Began
  <2>3. ASSUME NEW m \in Memory, before[c][m] \in Version, Active(m)
        PROVE  m \in Ids(read) \/ Overtaken(c, m)
    <3>1. /\ Len(rows[m]) \in DOMAIN rows[m] /\ before[c][m] <= Len(rows[m])
          /\ Exists(m) /\ Len(rows[m]) \in Nat /\ before[c][m] \in Nat
          /\ rows[m][before[c][m]].from <= stamp[c]
      BY <1>1, <1>2, <2>3, InForceIs, RowsTyped DEF CallInv, Began, TypeOK, Active
    <3>2. Latest(m).status = "active" /\ Latest(m).until = NoTime
      BY <2>3, <3>1 DEF Active, Latest, RowsShaped
    <3>3. CASE Latest(m).from <= stamp[c]
      <4>1. m \in considered
        BY <3>1, <3>2, <3>3 DEF ActiveAt
      <4>2. <<m, InForce(m)>> \in read
        BY <4>1
      <4> HIDE DEF read
      <4>3. m \in Ids(read)
        <5>1. PICK r \in read : r = <<m, InForce(m)>>
          BY <4>2
        <5>2. r[1] = m
          BY <5>1
        <5>3. QED
          BY <5>2 DEF Ids
      <4>4. QED
        BY <4>3
    <3>4. CASE ~(Latest(m).from <= stamp[c])
      <4>1. before[c][m] # Len(rows[m])
        BY <3>1, <3>4 DEF Latest
      <4>2. Latest(m).from \in Nat /\ stamp[c] \in Nat
        <5>1. Latest(m) \in Row
          BY <3>1, RowsTyped DEF Latest
        <5>2. Latest(m).from \in Time /\ stamp[c] \in Time
          BY <1>1, <5>1 DEF Row, TypeOK
        <5>3. QED
          BY <5>2, Numbers
      <4>3. before[c][m] < Len(rows[m]) /\ stamp[c] < rows[m][Len(rows[m])].from
        BY <3>1, <3>4, <4>1, <4>2 DEF Latest
      <4>4. QED
        BY <3>1, <4>3 DEF Overtaken
    <3>5. QED
      BY <3>3, <3>4
  <2>4. \A m \in Memory : Active(m)' = Active(m) /\ Overtaken(c, m)' = Overtaken(c, m)
    BY <1>1, SameView DEF Overtaken
  <2> HIDE DEF read
  <2>5. QED
    BY <1>1, <2>1, <2>2, <2>3, <2>4 DEF Considered
<1> HIDE DEF read
<1>7. Walked(c)' /\ Listed(c)' /\ Blank(c)'
  BY <1>1 DEF Walked, Listed, Blank
<1>8. QED
  BY <1>4, <1>5, <1>6, <1>7 DEF CallInv

LEMMA OwnAnswer ==
  ASSUME IInv, TypeOK', NEW c \in Call, TraceCommit(c)
  PROVE  CallInv(c)'
<1> USE DEF IInv
<1>1. PICK served \in SUBSET todo[c] :
        answer' = [answer EXCEPT ![c] = SetToSeq({<<s[1], {s[2]}, {}>> : s \in served})]
  BY DEF TraceCommit
<1> DEFINE new == SetToSeq({<<s[1], {s[2]}, {}>> : s \in served})
<1>2. \A i \in DOMAIN new : \E s \in served : new[i] = <<s[1], {s[2]}, {}>>
  <2>1. served \in SUBSET (Memory \X Version)
    BY DEF TypeOK
  <2>2. QED
    BY <2>1, Served
<1>3. /\ step[c] = "commit" /\ step'[c] = "returned" /\ job'[c] = job[c]
      /\ stamp'[c] = stamp[c] /\ before'[c] = before[c] /\ todo'[c] = todo[c]
      /\ cursor'[c] = cursor[c] /\ answer'[c] = new /\ now' = now /\ rows' = rows
      /\ job[c].kind = "retrieve"
  BY <1>1 DEF TraceCommit, Move, Goto, TypeOK
<1> HIDE DEF new
<1>4. CallInv(c)
  OBVIOUS
<1>5. \A m \in Memory : InForce(m)' = InForce(m)
  BY <1>3, SameView
<1>6. Asked(c)'
  BY <1>3, <1>4 DEF CallInv, Asked, StepsOf, Change
<1>7. Began(c)'
  BY <1>3, <1>4, <1>5 DEF CallInv, Began
<1>8. Considered(c)'
  <2>1. /\ \A r \in todo[c] : before[c][r[1]] <= r[2]
        /\ \A m \in Memory :
             before[c][m] \in Version /\ Active(m) => m \in Ids(todo[c]) \/ Overtaken(c, m)
    BY <1>3, <1>4 DEF CallInv, Considered, Read
  <2>2. ASSUME NEW i \in DOMAIN new PROVE \A v \in new[i][2] : before[c][new[i][1]] <= v
    <3>1. PICK s \in served : new[i] = <<s[1], {s[2]}, {}>>
      BY <1>2
    <3>2. new[i][1] = s[1] /\ new[i][2] = {s[2]}
      BY <3>1
    <3>3. QED
      BY <2>1, <3>2
  <2>3. \A m \in Memory : Active(m)' = Active(m) /\ Overtaken(c, m)' = Overtaken(c, m)
    BY <1>3, SameView DEF Overtaken
  <2>4. QED
    BY <1>3, <2>1, <2>2, <2>3 DEF Considered
<1>9. Walked(c)' /\ Listed(c)' /\ Blank(c)'
  BY <1>3 DEF Walked, Listed, Blank
<1>10. QED
  BY <1>6, <1>7, <1>8, <1>9 DEF CallInv

\* inspect: a page, one lineage, and the revisions of a lineage
LEMMA OwnPage ==
  ASSUME IInv, TypeOK', NEW c \in Call, ReadPage(c)
  PROVE  CallInv(c)'
<1> USE DEF IInv
<1> DEFINE page == FirstPage(Listing(c))
           next == IF Cardinality(Listing(c)) > PageSize THEN Max(Ids(page)) ELSE Nowhere
<1>1. /\ step[c] = "ready" /\ step'[c] = "paging" /\ job'[c] = job[c]
      /\ stamp'[c] = stamp[c] /\ before'[c] = before[c] /\ todo'[c] = page
      /\ cursor'[c] = next /\ answer'[c] = answer[c] /\ now' = now /\ rows' = rows
      /\ job[c].kind = "walk"
  BY DEF ReadPage, Move, Goto, TypeOK
<1>2. /\ page \in SUBSET (Memory \X Version) /\ page \subseteq Listing(c)
      /\ next \in {Nowhere} \cup Memory
      /\ next = Nowhere => page = Listing(c)
      /\ next # Nowhere => /\ next \in Ids(page)
                           /\ \A r \in page : r[1] <= next
                           /\ \A r \in Listing(c) : r[1] < next => r \in page
  BY PageRead
<1> HIDE DEF page, next
<1>3. CallInv(c)
  OBVIOUS
<1>4. \A m \in Memory : InForce(m)' = InForce(m) /\ Active(m)' = Active(m)
  BY <1>1, SameView
<1>5. Asked(c)'
  BY <1>1, <1>3 DEF CallInv, Asked, StepsOf, Change
<1>6. Began(c)'
  BY <1>1, <1>3, <1>4 DEF CallInv, Began
<1>7. Considered(c)' /\ Blank(c)'
  BY <1>1 DEF Considered, Blank
<1>8. Listed(c)'
  <2>1. \A r \in page : r[1] \in Memory /\ r[2] \in DOMAIN rows[r[1]]
    <3>1. \A r \in Listing(c) : r[1] \in Memory /\ r[2] = Len(rows[r[1]]) /\ Exists(r[1])
      BY DEF Listing
    <3>2. \A m \in Memory : Exists(m) => Len(rows[m]) \in DOMAIN rows[m]
      BY RowsTyped
    <3>3. QED
      BY <1>2, <3>1, <3>2
  <2>2. QED
    BY <1>1, <1>3, <2>1 DEF CallInv, Listed
<1>9. Walked(c)'
  <2>1. /\ todo[c] = {}
        /\ \A i, j \in DOMAIN answer[c] : i < j => answer[c][i][1] < answer[c][j][1]
        /\ cursor[c] # Nowhere => \A i \in DOMAIN answer[c] : answer[c][i][1] <= cursor[c]
        /\ cursor[c] = Nowhere => answer[c] = <<>>
    BY <1>1, <1>3 DEF CallInv, Walked
  <2>2. \A r \in page : r[1] \in Memory /\ AfterCursor(c, r[1])
    BY <1>2 DEF Listing
  <2>3. \A i \in DOMAIN answer[c] : answer[c][i][1] \in Nat
    <3>1. answer[c] \in Seq(Entry)
      BY DEF TypeOK
    <3>2. \A i \in DOMAIN answer[c] : answer[c][i] \in Entry
      BY <3>1
    <3>3. QED
      BY <3>2, Numbers DEF Entry
  <2>4. \A i \in DOMAIN answer[c] : \A r \in page : answer[c][i][1] < r[1]
    <3>1. \A r \in page : r[1] \in Nat
      BY <2>2, Numbers
    <3>2. cursor[c] # Nowhere => cursor[c] \in Nat
      BY Numbers DEF TypeOK
    <3>3. QED
      BY <2>1, <2>2, <2>3, <3>1, <3>2 DEF AfterCursor
  <2>5. next # Nowhere => \A i \in DOMAIN answer[c] : answer[c][i][1] <= next
    <3>1. next # Nowhere => next \in Nat /\ \E r \in page : r[1] = next
      BY <1>2, Numbers DEF Ids
    <3>2. QED
      BY <2>3, <2>4, <3>1
  <2>6. ASSUME NEW m \in Memory, Wanted(c, m), ~Answered(c, m)
        PROVE  m \in Ids(page) \/ (next # Nowhere /\ m > next)
    <3>1. AfterCursor(c, m)
      BY <1>1, <1>3, <2>1, <2>6 DEF CallInv, Walked, Ids, AfterCursor
    <3>2. Exists(m) /\ (job[c].wide \/ Active(m))
      BY <1>3, <2>6, InForceIs, Numbers DEF CallInv, Began, Wanted, TypeOK
    <3>3. <<m, Len(rows[m])>> \in Listing(c)
      BY <3>1, <3>2 DEF Listing
    <3>4. m \in Nat /\ (next # Nowhere => next \in Nat)
      BY <1>2, Numbers
    <3>5. <<m, Len(rows[m])>> \in page => m \in Ids(page)
      BY DEF Ids
    <3>6. next # Nowhere /\ m < next => <<m, Len(rows[m])>> \in page
      BY <1>2, <3>3
    <3>7. QED
      BY <1>2, <3>3, <3>4, <3>5, <3>6
  <2>7. \A m \in Memory : Wanted(c, m)' = Wanted(c, m) /\ Answered(c, m)' = Answered(c, m)
    BY <1>1, <1>4 DEF Wanted, Answered
  <2>8. QED
    BY <1>1, <1>2, <2>1, <2>4, <2>5, <2>6, <2>7 DEF Walked
<1>10. QED
  BY <1>5, <1>6, <1>7, <1>8, <1>9 DEF CallInv

LEMMA OwnLineage ==
  ASSUME IInv, TypeOK', NEW c \in Call, ReadLineage(c)
  PROVE  CallInv(c)'
<1> USE DEF IInv
<1>1. /\ step[c] = "ready" /\ step'[c] = "paging" /\ job'[c] = job[c]
      /\ stamp'[c] = stamp[c] /\ before'[c] = before[c] /\ todo'[c] = Lineage(c)
      /\ cursor'[c] = cursor[c] /\ answer'[c] = answer[c] /\ now' = now /\ rows' = rows
      /\ job[c].kind = "lineage"
  BY DEF ReadLineage, Move, Goto, TypeOK
<1>2. CallInv(c)
  OBVIOUS
<1>3. \A m \in Memory : InForce(m)' = InForce(m)
  BY <1>1, SameView
<1>4. Asked(c)'
  BY <1>1, <1>2 DEF CallInv, Asked, StepsOf, Change
<1>5. Began(c)'
  BY <1>1, <1>2, <1>3 DEF CallInv, Began
<1>6. Listed(c)'
  <2>1. \A r \in Lineage(c) : r[2] \in DOMAIN rows[r[1]]
    BY <1>1, <1>2, LineageIs DEF CallInv, Asked
  <2>2. QED
    BY <1>1, <1>2, <2>1 DEF CallInv, Listed
<1>7. Considered(c)' /\ Walked(c)' /\ Blank(c)'
  BY <1>1 DEF Considered, Walked, Blank
<1>8. QED
  BY <1>4, <1>5, <1>6, <1>7 DEF CallInv

LEMMA OwnRevisions ==
  ASSUME IInv, TypeOK', NEW c \in Call, ReadRevisions(c)
  PROVE  CallInv(c)'
<1> USE DEF IInv
<1> DEFINE m == Min(Ids(todo[c]))
           versions == {v \in Version : <<m, v>> \in todo[c]}
           entry == <<m, versions, RevisionsOf(c, m)>>
           rest == {r \in todo[c] : r[1] # m}
<1>1. /\ step[c] = "paging" /\ step'[c] = "paging" /\ job'[c] = job[c] /\ stamp'[c] = stamp[c]
      /\ before'[c] = before[c] /\ todo'[c] = rest /\ cursor'[c] = cursor[c]
      /\ answer'[c] = Append(answer[c], entry) /\ now' = now /\ rows' = rows
  BY DEF ReadRevisions, TypeOK
<1>2. /\ m \in Memory /\ m \in Ids(todo[c]) /\ entry \in Entry
      /\ \A r \in todo[c] : m <= r[1]
  BY NextRead DEF ReadRevisions
<1>3. entry[1] = m /\ entry[2] = versions /\ entry[3] = RevisionsOf(c, m)
  OBVIOUS
<1>4. \A r \in rest : r \in todo[c] /\ r[1] # m
  OBVIOUS
<1>5. \A r \in todo[c] : r \in rest \/ r[1] = m
  OBVIOUS
<1>6. CallInv(c)
  OBVIOUS
<1>7. versions \subseteq RevisionsOf(c, m) \/ job[c].kind \notin {"walk", "lineage"}
  <2>1. ASSUME job[c].kind \in {"walk", "lineage"}, NEW v \in versions PROVE v \in RevisionsOf(c, m)
    <3>1. <<m, v>> \in todo[c]
      OBVIOUS
    <3>2. v \in DOMAIN rows[m]
      BY <1>6, <2>1, <3>1 DEF CallInv, Listed
    <3>3. QED
      BY <1>2, <3>2, RowsTyped DEF RevisionsOf
  <2>2. QED
    BY <2>1
<1> HIDE DEF m, versions, entry, rest
<1>8. answer[c] \in Seq(Entry)
  BY DEF TypeOK
<1> DEFINE old == answer[c]
           new == Append(old, entry)
           n == Len(old)
<1>9. /\ n \in Nat /\ DOMAIN old = 1 .. n /\ DOMAIN new = 1 .. n + 1
      /\ \A i \in 1 .. n : new[i] = old[i]
      /\ new[n + 1] = entry
  BY <1>2, <1>8, AppendIs, LenProperties
<1>10. \A k \in Memory : InForce(k)' = InForce(k) /\ Active(k)' = Active(k)
  BY <1>1, SameView
<1>11. job[c].kind \in {"walk", "lineage"}
  BY <1>1, <1>6, KindIs DEF CallInv, Asked, StepsOf
<1> HIDE DEF new
<1>12. answer'[c] = new
  BY <1>1 DEF new
<1>13. Asked(c)'
  BY <1>1, <1>6, <1>11 DEF CallInv, Asked, Change
<1>14. Began(c)'
  BY <1>1, <1>6, <1>10 DEF CallInv, Began
<1>15. Considered(c)' /\ Blank(c)'
  BY <1>1, <1>11 DEF Considered, Blank
<1>16. Listed(c)'
  <2>1. \A i \in DOMAIN new : new[i][2] \subseteq new[i][3]
    <3>1. \A i \in 1 .. n : new[i][2] \subseteq new[i][3]
      BY <1>6, <1>9, <1>11 DEF CallInv, Listed
    <3>2. new[n + 1][2] \subseteq new[n + 1][3]
      BY <1>3, <1>7, <1>9, <1>11
    <3>3. \A i \in 1 .. n + 1 : i \in 1 .. n \/ i = n + 1
      BY <1>9
    <3>4. QED
      BY <1>9, <3>1, <3>2, <3>3
  <2>2. \A r \in rest : r[2] \in DOMAIN rows[r[1]]
    BY <1>4, <1>6, <1>11 DEF CallInv, Listed
  <2>3. QED
    BY <1>1, <1>12, <2>1, <2>2 DEF Listed
<1>17. ASSUME job[c].kind = "walk" PROVE Walked(c)'
  <2>1. /\ \A i, j \in DOMAIN old : i < j => old[i][1] < old[j][1]
        /\ \A i \in DOMAIN old : \A r \in todo[c] : old[i][1] < r[1]
        /\ cursor[c] # Nowhere => /\ \A i \in DOMAIN old : old[i][1] <= cursor[c]
                                  /\ \A r \in todo[c] : r[1] <= cursor[c]
        /\ \A k \in Memory : Wanted(c, k) =>
             \/ Answered(c, k) \/ k \in Ids(todo[c]) \/ (cursor[c] # Nowhere /\ k > cursor[c])
    <3>1. Walked(c)
      BY <1>6 DEF CallInv
    <3>2. ~(step[c] \in {"open", "opening", "ready"})
      BY <1>1
    <3>3. /\ \A i, j \in DOMAIN old : i < j => old[i][1] < old[j][1]
          /\ \A i \in DOMAIN old : \A r \in todo[c] : old[i][1] < r[1]
      BY <1>17, <3>1 DEF Walked
    <3>4. cursor[c] # Nowhere => /\ \A i \in DOMAIN old : old[i][1] <= cursor[c]
                                 /\ \A r \in todo[c] : r[1] <= cursor[c]
      BY <1>17, <3>1 DEF Walked
    <3>5. \A k \in Memory : Wanted(c, k) =>
            \/ Answered(c, k) \/ k \in Ids(todo[c]) \/ (cursor[c] # Nowhere /\ k > cursor[c])
      BY <1>17, <3>1, <3>2 DEF Walked
    <3>6. QED
      BY <3>3, <3>4, <3>5
  <2>2. PICK s \in todo[c] : s[1] = m
    BY <1>2 DEF Ids
  <2>3. \A i \in DOMAIN old : old[i][1] < m
    BY <2>1, <2>2
  <2>4. \A i \in 1 .. n + 1 : i \in 1 .. n \/ i = n + 1
    BY <1>9
  <2>5. \A i, j \in DOMAIN new : i < j => new[i][1] < new[j][1]
    <3>1. \A i, j \in 1 .. n + 1 : i < j => i \in 1 .. n
      BY <1>9
    <3>2. QED
      BY <1>3, <1>9, <2>1, <2>3, <2>4, <3>1
  <2>6. \A r \in rest : m < r[1]
    <3>1. \A r \in todo[c] : r[1] \in Nat
      <4>1. todo[c] \in SUBSET (Memory \X Version)
        BY DEF TypeOK
      <4>2. QED
        BY <4>1, Numbers
    <3>2. QED
      BY <1>2, <1>4, <3>1, Numbers
  <2>7. \A i \in DOMAIN new : \A r \in rest : new[i][1] < r[1]
    BY <1>3, <1>4, <1>9, <2>1, <2>4, <2>6
  <2>8. cursor[c] # Nowhere => /\ \A i \in DOMAIN new : new[i][1] <= cursor[c]
                               /\ \A r \in rest : r[1] <= cursor[c]
    BY <1>3, <1>4, <1>9, <2>1, <2>2, <2>4
  <2>9. \A k \in Memory : Answered(c, k) => Answered(c, k)'
    BY <1>9, <1>12 DEF Answered
  <2>10. \E i \in DOMAIN new : new[i][1] = m
    <3>1. n + 1 \in DOMAIN new /\ new[n + 1][1] = m
      BY <1>3, <1>9
    <3>2. QED
      BY <3>1
  <2>11. \A k \in Memory : k \in Ids(todo[c]) => k = m \/ k \in Ids(rest)
    BY <1>5 DEF Ids
  <2>12. \A k \in Memory : Wanted(c, k)' = Wanted(c, k)
    BY <1>1, <1>10 DEF Wanted
  <2>13. ASSUME NEW k \in Memory, Wanted(c, k)'
         PROVE  Answered(c, k)' \/ k \in Ids(rest) \/ (cursor[c] # Nowhere /\ k > cursor[c])
    <3>1. k = m => Answered(c, k)'
      BY <1>12, <2>10 DEF Answered
    <3>2. QED
      BY <2>1, <2>9, <2>11, <2>12, <2>13, <3>1
  <2>14. QED
    BY <1>1, <1>12, <2>5, <2>7, <2>8, <2>13 DEF Walked
<1>18. Walked(c)'
  BY <1>1, <1>17 DEF Walked
<1>19. QED
  BY <1>13, <1>14, <1>15, <1>16, <1>18 DEF CallInv

---------------------------------------------------------------------------
(* The invariant holds in every state, and the properties follow from it *)

LEMMA Own ==
  ASSUME IInv, TypeOK', NEW c \in Call, Step(c)
  PROVE  CallInv(c)'
<1> USE DEF IInv
<1>1. ASSUME Raise(c) PROVE CallInv(c)'
  BY <1>1, Ended DEF Raise
<1>2. CASE ChangeCommit(c)
  BY <1>2, Ended DEF ChangeCommit, Move
<1>3. CASE TraceWrite(c)
  BY <1>1, <1>3, OwnPass DEF TraceWrite
<1>4. CASE Refused(c) \/ Fail(c)
  BY <1>1, <1>4 DEF Refused, Fail
<1>5. CASE \/ OpenReserve(c) \/ OpenRelease(c) \/ PageEnd(c) \/ Reserve(c) \/ Pend(c)
  BY <1>5, OwnPass
<1>6. CASE \/ StampAt(c) \/ Rank(c) \/ TraceCommit(c) \/ ReadPage(c) \/ ReadLineage(c)
           \/ ReadRevisions(c)
  BY <1>6, OwnStamp, OwnRank, OwnAnswer, OwnPage, OwnLineage, OwnRevisions
<1>7. CASE \/ \E v \in Version : ReadTarget(c, v)
           \/ \E request \in Request : Begin(c, request)
  BY <1>7, OwnTarget, OwnBegin
<1>8. QED
  BY <1>2, <1>3, <1>4, <1>5, <1>6, <1>7 DEF Step, Continue

LEMMA Grows == ASSUME IInv, [Next]_vars PROVE Grown
<1>1. rows' = rows \/ \E c \in Call : ChangeCommit(c)
  BY OneCall DEF vars, Next, Step, Tick, IInv
<1>2. QED
  BY <1>1, SameRows, Committed DEF IInv, CallInv

LEMMA Calls == ASSUME IInv, [Next]_vars, TypeOK', NEW o \in Call PROVE CallInv(o)'
<1> USE DEF IInv
<1>1. Grown /\ now <= now' /\ CallInv(o)
  BY Grows, Shaped
<1>2. CASE UNCHANGED vars \/ Tick
  BY <1>1, <1>2, Stable DEF vars, Tick, Mine
<1>3. ASSUME NEW c \in Call, Step(c) PROVE CallInv(o)'
  <2>1. CASE o = c
    BY <1>3, <2>1, Own
  <2>2. CASE o # c
    <3>1. UNCHANGED Mine(o) /\ (rows' = rows \/ ChangeCommit(c))
      BY <1>3, <2>2, OneCall
    <3>2. step[o] = "commit" => rows' = rows
      BY <2>2, <3>1 DEF OneWriter, Writing, ChangeCommit, Move
    <3>3. QED
      BY <1>1, <3>1, <3>2, Stable
  <2>3. QED
    BY <2>1, <2>2
<1>4. QED
  BY <1>2, <1>3 DEF Next, Step

LEMMA Initially == Init => IInv
<1> SUFFICES ASSUME Init PROVE IInv
  OBVIOUS
<1> DEFINE first == [status |-> "active", from |-> 1, until |-> NoTime]
<1>1. first \in Row /\ 1 \in Time
  BY Numbers DEF Row, Time
<1>2. Nothing \in Job
  BY DEF Job
<1>3. /\ <<first>> \in Seq(Row) /\ Len(<<first>>) = 1 /\ <<>> \in Seq(Row) /\ Len(<<>>) = 0
      /\ <<>> \in Seq(Entry)
  BY <1>1
<1>4. \A m \in Memory : rows[m] = <<first>> \/ rows[m] = <<>>
  BY DEF Init
<1>5. TypeOK
  <2>1. rows \in [Memory -> Seq(Row)] /\ \A m \in Memory : Len(rows[m]) <= MaxVersion
    <3>1. \A m \in Memory : rows[m] \in Seq(Row) /\ Len(rows[m]) <= MaxVersion
      <4>1. 1 <= MaxVersion /\ 0 <= MaxVersion
        BY Numbers
      <4> HIDE DEF first
      <4>2. QED
        BY <1>3, <1>4, <4>1
    <3>2. DOMAIN rows = Memory /\ rows = [m \in Memory |-> rows[m]]
      BY DEF Init
    <3>3. QED
      BY <3>1, <3>2
  <2> HIDE DEF Nothing
  <2>2. QED
    BY <1>1, <1>2, <1>3, <2>1, Numbers DEF Init, TypeOK, Label
<1>6. RowsShaped
  BY <1>3, <1>4 DEF RowsShaped, Init
<1>7. OneWriter
  BY DEF OneWriter, Writing, Init
<1>8. ASSUME NEW c \in Call PROVE CallInv(c)
  <2>1. /\ job[c].kind = "none" /\ step[c] = "idle" /\ stamp[c] = NoTime
        /\ \A m \in Memory : before[c][m] = Unborn
        /\ todo[c] = {} /\ cursor[c] = Nowhere /\ answer[c] = <<>> /\ now = 1
    BY DEF Init, Nothing
  <2>2. Asked(c)
    BY <2>1, Numbers DEF Asked, StepsOf, Change
  <2>3. Began(c)
    <3>1. \A m \in Memory : InForce(m) \in Nat
      BY <1>5, InForceIs
    <3>2. \A m \in Memory : before[c][m] = 0 /\ before[c][m] \notin Version
      BY <2>1, Numbers
    <3>3. QED
      BY <3>1, <3>2 DEF Began
  <2>4. Considered(c) /\ Walked(c) /\ Listed(c) /\ Blank(c)
    BY <2>1 DEF Considered, Walked, Listed, Blank
  <2>5. QED
    BY <2>2, <2>3, <2>4 DEF CallInv
<1>9. QED
  BY <1>5, <1>6, <1>7, <1>8 DEF IInv

LEMMA Inductive == IInv /\ [Next]_vars => IInv'
<1> SUFFICES ASSUME IInv, [Next]_vars PROVE IInv'
  OBVIOUS
<1>1. TypeOK'
  BY Typed
<1>2. RowsShaped' /\ OneWriter'
  BY <1>1, Shaped, Locked
<1>3. \A c \in Call : CallInv(c)'
  BY <1>1, Calls
<1>4. QED
  BY <1>1, <1>2, <1>3 DEF IInv

\* The types, the rows' shape, one writer at a time, and what every call knows,
\* in every reachable state (store.py 150-247, mcp_server.py 225-258)
THEOREM Invariance == Spec => []IInv
BY Initially, Inductive, PTL DEF Spec

\* A retrieval answers versions that were in force during the call, and had
\* every lineage before it that kept its version (retrieval.py 41-61)
THEOREM AnswersCurrent == Spec => []AnswersAreCurrent
<1>1. IInv => AnswersAreCurrent
  BY DEF IInv, CallInv, Considered, AnswersAreCurrent, Read
<1>2. QED
  BY <1>1, Invariance, PTL

\* A walk over pages misses no lineage that was there throughout, and names
\* each once (mcp_server.py 379-388)
THEOREM WalksComplete == Spec => []WalkComplete
<1>1. ASSUME IInv, NEW c \in Call, job[c].kind = "walk"
      PROVE  /\ \A i, j \in DOMAIN answer[c] : i < j => answer[c][i][1] < answer[c][j][1]
             /\ step[c] = "returned" =>
                  \A m \in Memory :
                    before[c][m] # Unborn /\ (job[c].wide \/ (before[c][m] # Erased /\ Active(m)))
                      => \E i \in DOMAIN answer[c] : answer[c][i][1] = m
  <2>1. Walked(c)
    BY <1>1 DEF IInv, CallInv
  <2>2. step[c] = "returned" => \A m \in Memory : Wanted(c, m) => Answered(c, m)
    BY <1>1, <2>1 DEF Walked, Ids
  <2>3. QED
    BY <1>1, <2>1, <2>2 DEF Walked, Wanted, Answered
<1>2. IInv => WalkComplete
  BY <1>1 DEF WalkComplete
<1>3. QED
  BY <1>2, Invariance, PTL

\* The revisions that come with records account for every version listed,
\* although they are read later (mcp_server.py 235-249)
THEOREM PagesAreExplained == Spec => []PagesExplained
<1>1. IInv => PagesExplained
  BY DEF IInv, CallInv, Listed, PagesExplained
<1>2. QED
  BY <1>1, Invariance, PTL

\* What a committed change does to rows that could all be read
LEMMA Spoils ==
  ASSUME IInv, NEW c \in Call, ChangeCommit(c), NEW m \in Memory,
         \A v \in DOMAIN rows[m] : Readable(rows[m][v])
  PROVE  \/ \A v \in DOMAIN rows'[m] : Readable(rows'[m][v])
         \/ /\ step[c] = "commit" /\ step'[c] = "returned"
            /\ job[c].kind = "delete" /\ job[c].memory = m
            /\ job[c].version < Len(rows[m])
<1> USE DEF IInv
<1>1. step[c] = "commit" /\ step'[c] = "returned" /\ Asked(c)
  BY DEF ChangeCommit, Move, Goto, TypeOK, CallInv
<1>2. /\ Len(rows[m]) \in Nat /\ DOMAIN rows[m] = 1 .. Len(rows[m])
      /\ \A v \in DOMAIN rows[m] : rows[m][v] \in Row
  BY RowsTyped
<1>3. ASSUME NEW k \in Memory, CreateCommit(c, k)
      PROVE  \A v \in DOMAIN rows'[m] : Readable(rows'[m][v])
  <2>1. job[c].kind = "create" /\ rows' = [rows EXCEPT ![k] = <<NewRow(c)>>]
    BY <1>3 DEF CreateCommit
  <2>2. NewRow(c).until = NoTime
    BY DEF NewRow
  <2>3. rows'[m] = rows[m] \/ rows'[m] = <<NewRow(c)>>
    BY <2>1 DEF TypeOK
  <2>4. QED
    BY <2>2, <2>3 DEF Readable
<1>4. ASSUME CorrectCommit(c)
      PROVE  \A v \in DOMAIN rows'[m] : Readable(rows'[m][v])
  <2> DEFINE k == job[c].memory
             n == Len(rows[k])
             new == CorrectedRows(c)
  <2>1. job[c].kind = "correct" /\ rows' = [rows EXCEPT ![k] = new]
    BY <1>4 DEF CorrectCommit, CorrectedRows
  <2>2. /\ k \in Memory /\ new \in Seq(Row) /\ n \in DOMAIN rows[k]
        /\ rows[k][n].from <= stamp[c]
        /\ Len(new) = n + 1
        /\ \A v \in 1 .. n - 1 : new[v] = rows[k][v]
        /\ new[n].from = rows[k][n].from /\ new[n].until = stamp[c]
        /\ new[n + 1] = NewRow(c)
    BY <1>1, <2>1, Corrected
  <2>3. /\ n \in Nat /\ DOMAIN rows[k] = 1 .. n /\ DOMAIN new = 1 .. n + 1
    BY <2>2, RowsTyped, LenProperties
  <2>4. NewRow(c).until = NoTime
    BY DEF NewRow
  <2>5. rows'[m] = IF m = k THEN new ELSE rows[m]
    BY <2>1 DEF TypeOK
  <2> HIDE DEF new
  <2>6. ASSUME m = k, NEW v \in DOMAIN new PROVE Readable(new[v])
    <3>1. CASE v \in 1 .. n - 1
      <4>1. v \in DOMAIN rows[m] /\ new[v] = rows[m][v]
        BY <2>2, <2>3, <2>6, <3>1
      <4>2. QED
        BY <4>1
    <3>2. CASE v = n
      BY <2>2, <3>2 DEF Readable
    <3>3. CASE v = n + 1
      BY <2>2, <2>4, <3>3 DEF Readable
    <3>4. QED
      BY <2>3, <3>1, <3>2, <3>3
  <2>7. QED
    BY <2>5, <2>6
<1>5. ASSUME DeleteCommit(c), ~(job[c].memory = m /\ job[c].version < Len(rows[m]))
      PROVE  \A v \in DOMAIN rows'[m] : Readable(rows'[m][v])
  <2> DEFINE k == job[c].memory
             new == DeletedRows(c)
  <2>1. job[c].kind = "delete" /\ rows' = [rows EXCEPT ![k] = new]
    BY <1>5 DEF DeleteCommit, DeletedRows
  <2>2. /\ DOMAIN new = DOMAIN rows[k]
        /\ \A v \in DOMAIN rows[k] :
             /\ new[v].from = rows[k][v].from
             /\ new[v].until = IF rows[k][v].until = NoTime THEN stamp[c] ELSE rows[k][v].until
    BY <1>1, <2>1, Deleted
  <2>3. rows'[m] = IF m = k THEN new ELSE rows[m]
    BY <2>1 DEF TypeOK
  <2> HIDE DEF new
  <2>4. ASSUME m = k, NEW v \in DOMAIN rows[m] PROVE Readable(new[v])
    <3>1. CASE rows[m][v].until = NoTime
      <4>1. v = Len(rows[m])
        BY <1>2, <3>1 DEF RowsShaped
      <4>2. job[c].version \in DOMAIN rows[m] /\ rows[m][job[c].version].from <= stamp[c]
        BY <1>1, <2>1, <2>4 DEF Asked
      <4>3. job[c].version = Len(rows[m])
        BY <1>2, <1>5, <2>4, <4>2
      <4>4. QED
        BY <2>2, <2>4, <3>1, <4>1, <4>2, <4>3 DEF Readable
    <3>2. CASE rows[m][v].until # NoTime
      BY <2>2, <2>4, <3>2 DEF Readable
    <3>3. QED
      BY <3>1, <3>2
  <2>5. QED
    BY <2>2, <2>3, <2>4
<1>6. DeleteCommit(c) => job[c].kind = "delete"
  BY DEF DeleteCommit
<1>7. QED
  BY <1>1, <1>3, <1>4, <1>5, <1>6 DEF ChangeCommit

\* Only a deletion that was checked against an older version leaves a row that
\* no reader can validate (store.py 225-247, mcp_server.py 287-350)
THEOREM SpoiledByStaleDelete == Spec => SpoiledOnlyByStaleDelete
<1> DEFINE Kept == \A m \in Memory :
             (\A v \in DOMAIN rows[m] : Readable(rows[m][v])) =>
               \/ \A v \in DOMAIN rows'[m] : Readable(rows'[m][v])
               \/ \E c \in Call :
                    /\ step[c] = "commit" /\ step'[c] = "returned"
                    /\ job[c].kind = "delete" /\ job[c].memory = m
                    /\ job[c].version < Len(rows[m])
<1>1. IInv /\ [Next]_vars => [Kept]_vars
  <2> SUFFICES ASSUME IInv, [Next]_vars, NEW m \in Memory,
                      \A v \in DOMAIN rows[m] : Readable(rows[m][v])
               PROVE  \/ \A v \in DOMAIN rows'[m] : Readable(rows'[m][v])
                      \/ \E c \in Call :
                           /\ step[c] = "commit" /\ step'[c] = "returned"
                           /\ job[c].kind = "delete" /\ job[c].memory = m
                           /\ job[c].version < Len(rows[m])
    OBVIOUS
  <2>1. rows' = rows \/ \E c \in Call : ChangeCommit(c)
    BY OneCall DEF vars, Next, Step, Tick, IInv
  <2>2. QED
    BY <2>1, Spoils
<1>2. QED
  BY <1>1, Invariance, PTL DEF Spec, SpoiledOnlyByStaleDelete
=============================================================================
