---------------------------- MODULE ReplayProofs ----------------------------
(***************************************************************************)
(* Proofs about Replay, for any scenarios, plans, matches, budgets and     *)
(* limits.                                                                 *)
(*                                                                         *)
(* The library's induction theorems cannot be used here; what they are     *)
(* wanted for is shown with a least counterexample (Least).                *)
(***************************************************************************)
EXTENDS Replay, FiniteSetTheorems, WellFoundedInduction, TLAPS

---------------------------------------------------------------------------
(* Numbers and finite sets. *)

\* Numbers have a least: what an induction would be used for below.
LEMMA Least ==
  ASSUME NEW T \in SUBSET Nat, T # {}
  PROVE  \E x \in T : \A y \in T : x <= y
<1> DEFINE R == OpToRel(<, Nat)
<1>1. IsWellFoundedOn(R, Nat)
  BY NatLessThanWellFounded
<1>2. \A x, y \in Nat : x < y => <<x, y>> \in R
  BY DEF OpToRel
<1> HIDE DEF R
<1>3. PICK x \in T : \A y \in T : ~(<<y, x>> \in R)
  BY <1>1, WFMin
<1>4. \A y \in T : x \in Nat /\ y \in Nat /\ ~(y < x)
  BY <1>2, <1>3
<1>5. QED
  BY <1>4

\* A proper part of a finite set is smaller.
LEMMA Smaller ==
  ASSUME NEW S, IsFiniteSet(S), NEW T, T \subseteq S, T # S
  PROVE  Cardinality(T) < Cardinality(S)
<1>1. Cardinality(T) <= Cardinality(S) /\ Cardinality(T) # Cardinality(S)
  BY FS_Subset
<1>2. Cardinality(T) \in Nat /\ Cardinality(S) \in Nat
  BY FS_Subset, FS_CardinalityType
<1>3. QED
  BY <1>1, <1>2

\* A finite set on which numbers are given has a member with the highest.
LEMMA Highest ==
  ASSUME NEW F, IsFiniteSet(F), F # {}, NEW f \in [F -> Int]
  PROVE  \E x \in F : \A y \in F : f[y] <= f[x]
<1> DEFINE Above(x) == {y \in F : f[x] < f[y]}
<1>1. \A x \in F : IsFiniteSet(Above(x)) /\ Cardinality(Above(x)) \in Nat
  BY FS_Subset, FS_CardinalityType
<1> DEFINE T == {Cardinality(Above(x)) : x \in F}
<1>2. PICK n \in T : \A m \in T : n <= m
  <2>1. T \in SUBSET Nat /\ T # {}
    BY <1>1
  <2>2. QED
    BY <2>1, Least
<1>3. PICK x \in F : n = Cardinality(Above(x))
  OBVIOUS
<1>4. SUFFICES ASSUME NEW y \in F, f[x] < f[y] PROVE FALSE
  BY Z3
<1>5. Above(y) \subseteq Above(x) /\ y \in Above(x) \ Above(y)
  BY <1>4
<1>6. Cardinality(Above(y)) \in T
  OBVIOUS
<1> HIDE DEF Above
<1>7. Cardinality(Above(y)) < Cardinality(Above(x))
  BY <1>1, <1>5, Smaller
<1>8. QED
  BY <1>1, <1>2, <1>3, <1>6, <1>7

\* Counting what comes before gives the members of a finite set, in a strict
\* total order, the places 1 to its size, each to one.
LEMMA Places ==
  ASSUME NEW S, IsFiniteSet(S), NEW R,
         \A x \in S : <<x, x>> \notin R,
         \A x, y, z \in S : <<x, y>> \in R /\ <<y, z>> \in R => <<x, z>> \in R,
         \A x, y \in S : x # y => <<x, y>> \in R \/ <<y, x>> \in R,
         NEW P \in [S -> Int],
         \A x \in S : P[x] = 1 + Cardinality(SetLessThan(x, R, S))
  PROVE  /\ \A x, y \in S : P[x] = P[y] => x = y
         /\ {P[x] : x \in S} = 1 .. Cardinality(S)
         /\ P \in Bijection(S, 1 .. Cardinality(S))
<1> DEFINE Below(x) == SetLessThan(x, R, S)
<1>1. \A x \in S : /\ IsFiniteSet(Below(x)) /\ Cardinality(Below(x)) \in Nat
                   /\ Below(x) \subseteq S /\ Below(x) # S
                   /\ P[x] = 1 + Cardinality(Below(x))
  BY FS_Subset, FS_CardinalityType DEF SetLessThan
<1>2. Cardinality(S) \in Nat
  BY FS_CardinalityType
<1>3. \A x, y \in S : <<x, y>> \in R => P[x] < P[y]
  <2> SUFFICES ASSUME NEW x \in S, NEW y \in S, <<x, y>> \in R
               PROVE  P[x] < P[y]
    OBVIOUS
  <2>1. Below(x) \subseteq Below(y) /\ x \in Below(y) \ Below(x)
    BY DEF SetLessThan
  <2> HIDE DEF Below
  <2>2. Cardinality(Below(x)) < Cardinality(Below(y))
    BY <2>1, <1>1, Smaller
  <2>3. QED
    BY <1>1, <2>2
<1>4. \A x, y \in S : P[x] = P[y] => x = y
  <2> SUFFICES ASSUME NEW x \in S, NEW y \in S, P[x] = P[y], x # y
               PROVE  FALSE
    OBVIOUS
  <2>1. P[x] < P[y] \/ P[y] < P[x]
    BY <1>3
  <2>2. P[x] \in Int /\ P[y] \in Int
    OBVIOUS
  <2>3. QED
    BY <2>1, <2>2
<1>5. \A x \in S : P[x] \in 1 .. Cardinality(S)
  <2> SUFFICES ASSUME NEW x \in S PROVE P[x] \in 1 .. Cardinality(S)
    OBVIOUS
  <2> HIDE DEF Below
  <2>1. Cardinality(Below(x)) < Cardinality(S)
    BY <1>1, Smaller
  <2>2. QED
    BY <1>1, <1>2, <2>1
<1>6. P \in Injection(S, 1 .. Cardinality(S))
  BY <1>4, <1>5 DEF Injection, IsInjective
<1>7. IsFiniteSet(1 .. Cardinality(S)) /\ Cardinality(1 .. Cardinality(S)) = Cardinality(S)
  BY <1>2, FS_Interval
<1>8. P \in Surjection(S, 1 .. Cardinality(S))
  BY <1>6, <1>7, FS_Injection
<1>9. {P[x] : x \in S} = 1 .. Cardinality(S)
  BY <1>5, <1>8 DEF Surjection
<1>10. QED
  BY <1>4, <1>6, <1>8, <1>9 DEF Bijection

---------------------------------------------------------------------------
(* The order of the candidates and their places. *)

LEMMA SpecificityInt ==
  ASSUME NEW scope
  PROVE  Specificity(scope) \in Int
<1>1. IsFiniteSet({"project", "task"})
  <2>1. IsFiniteSet({"project"} \cup {"task"})
    BY FS_Singleton, FS_AddElement
  <2>2. {"project"} \cup {"task"} = {"project", "task"}
    OBVIOUS
  <2>3. QED
    BY <2>1, <2>2
<1>2. Cardinality({part \in {"project", "task"} : scope[part] # None}) \in Nat
  BY <1>1, FS_Subset, FS_CardinalityType
<1>3. QED
  BY <1>2 DEF Specificity

LEMMA OrderKeyType ==
  ASSUME NEW rankable, NEW match, Scored(match), NEW r \in Candidates(rankable, match),
         r.id \in Int, r.from \in Int
  PROVE  /\ OrderKey(r, match) \in [1 .. 6 -> Int]
         /\ OrderKey(r, match)[6] = r.id
<1>1. Specificity(r.scope) \in Int
  BY SpecificityInt
<1>2. Score(r, match) \in Int
  BY DEF Score, Scored, Candidates
<1>3. (IF r.id \in DOMAIN match.semantic THEN -match.semantic[r.id] ELSE 0) \in Int
  BY DEF Scored
<1>4. QED
  BY <1>1, <1>2, <1>3 DEF OrderKey

LEMMA KeysOrdered ==
  /\ \A k \in [1 .. 6 -> Int] : ~KeyBefore(k, k)
  /\ \A k, l \in [1 .. 6 -> Int] : k # l => KeyBefore(k, l) \/ KeyBefore(l, k)
  /\ \A k, l, m \in [1 .. 6 -> Int] : KeyBefore(k, l) /\ KeyBefore(l, m) => KeyBefore(k, m)
<1>1. \A k \in [1 .. 6 -> Int] : ~KeyBefore(k, k)
  BY DEF KeyBefore
<1>2. ASSUME NEW k \in [1 .. 6 -> Int], NEW l \in [1 .. 6 -> Int], k # l
      PROVE  KeyBefore(k, l) \/ KeyBefore(l, k)
  <2> DEFINE T == {i \in 1 .. 6 : k[i] # l[i]}
  <2>1. T \in SUBSET Nat /\ T # {}
    BY <1>2
  <2>2. PICK i \in T : \A j \in T : i <= j
    BY <2>1, Least
  <2>3. \A j \in 1 .. i - 1 : k[j] = l[j]
    <3>1. \A j \in 1 .. i - 1 : j \in 1 .. 6 /\ ~(i <= j)
      OBVIOUS
    <3>2. QED
      BY <2>2, <3>1
  <2>4. k[i] < l[i] \/ l[i] < k[i]
    OBVIOUS
  <2>5. QED
    BY <2>3, <2>4 DEF KeyBefore
<1>3. ASSUME NEW k \in [1 .. 6 -> Int], NEW l \in [1 .. 6 -> Int], NEW m \in [1 .. 6 -> Int],
             KeyBefore(k, l), KeyBefore(l, m)
      PROVE  KeyBefore(k, m)
  <2>1. PICK i \in 1 .. 6 : k[i] < l[i] /\ \A n \in 1 .. i - 1 : k[n] = l[n]
    BY <1>3 DEF KeyBefore
  <2>2. PICK j \in 1 .. 6 : l[j] < m[j] /\ \A n \in 1 .. j - 1 : l[n] = m[n]
    BY <1>3 DEF KeyBefore
  <2> DEFINE h == IF i < j THEN i ELSE j
  <2>3. h \in 1 .. 6 /\ \A n \in 1 .. h - 1 : n \in 1 .. i - 1 /\ n \in 1 .. j - 1
    OBVIOUS
  <2>4. \A n \in 1 .. h - 1 : k[n] = m[n]
    BY <2>1, <2>2, <2>3
  <2>5. k[h] < m[h]
    <3>1. CASE i < j
      BY <3>1, <2>1, <2>2
    <3>2. CASE j < i
      BY <3>2, <2>1, <2>2
    <3>3. CASE i = j
      BY <3>3, <2>1, <2>2
    <3>4. QED
      BY <3>1, <3>2, <3>3
  <2>6. QED
    BY <2>3, <2>4, <2>5 DEF KeyBefore
<1>4. QED
  BY <1>1, <1>2, <1>3

\* The candidates of a retrieval, with identifiers of their own, take the places
\* 1 to their number, each its own.
LEMMA CandidatesPlaced ==
  ASSUME NEW rankable, IsFiniteSet(rankable), NEW match, Scored(match),
         \A r \in rankable : r.id \in Int /\ r.from \in Int,
         \A r, o \in rankable : r.id = o.id => r = o,
         NEW S, S = Candidates(rankable, match)
  PROVE  /\ IsFiniteSet(S)
         /\ \A r \in S : Place(S, r, match) \in 1 .. Cardinality(S)
         /\ [r \in S |-> Place(S, r, match)] \in Bijection(S, 1 .. Cardinality(S))
<1> DEFINE key(r) == OrderKey(r, match)
           R == {ss \in S \X S : KeyBefore(key(ss[1]), key(ss[2]))}
           P == [r \in S |-> Place(S, r, match)]
<1>1. IsFiniteSet(S)
  BY FS_Subset DEF Candidates
<1>2. \A r \in S : key(r) \in [1 .. 6 -> Int] /\ key(r)[6] = r.id
  BY OrderKeyType DEF Candidates
<1>3. \A r, o \in S : r # o => key(r) # key(o)
  BY <1>2 DEF Candidates
<1> HIDE DEF key
<1>4. /\ \A x \in S : <<x, x>> \notin R
      /\ \A x, y \in S : x # y => <<x, y>> \in R \/ <<y, x>> \in R
  BY <1>2, <1>3, KeysOrdered
<1>5. \A x, y, z \in S : <<x, y>> \in R /\ <<y, z>> \in R => <<x, z>> \in R
  BY <1>2, KeysOrdered
<1>6. \A r \in S : SetLessThan(r, R, S) = {o \in S : KeyBefore(key(o), key(r))}
  BY DEF SetLessThan
<1>7. \A r \in S : P[r] = 1 + Cardinality(SetLessThan(r, R, S))
  BY <1>6 DEF Place, key
<1>8. P \in [S -> Int]
  <2>1. \A r \in S : Cardinality(SetLessThan(r, R, S)) \in Nat
    BY <1>1, FS_Subset, FS_CardinalityType DEF SetLessThan
  <2>2. P = [r \in S |-> P[r]]
    OBVIOUS
  <2> HIDE DEF P, R
  <2>3. \A r \in S : P[r] \in Int
    BY <1>7, <2>1
  <2>4. QED
    BY <2>2, <2>3
<1> HIDE DEF P, R
<1>9. P \in Bijection(S, 1 .. Cardinality(S))
  BY <1>1, <1>4, <1>5, <1>7, <1>8, Places
<1>10. \A r \in S : P[r] \in 1 .. Cardinality(S)
  BY <1>9 DEF Bijection, Injection
<1>11. QED
  BY <1>1, <1>9, <1>10 DEF P

\* the members of S placed within the limit
FirstOf(S, P, limit) == {r \in S : P[r] <= limit}

PlacesOf(T, P) == {P[r] : r \in T}

LEMMA FirstPlaces ==
  ASSUME NEW S, IsFiniteSet(S), NEW P \in Bijection(S, 1 .. Cardinality(S)), NEW limit \in Nat
  PROVE  /\ IsFiniteSet(FirstOf(S, P, limit))
         /\ PlacesOf(FirstOf(S, P, limit), P) = 1 .. Cardinality(FirstOf(S, P, limit))
<1> DEFINE T == {r \in S : P[r] <= limit}
           m == IF limit < Cardinality(S) THEN limit ELSE Cardinality(S)
           Q == [r \in T |-> P[r]]
<1>1. Cardinality(S) \in Nat /\ IsFiniteSet(T) /\ T \subseteq S
  BY FS_CardinalityType, FS_Subset
<1>2. /\ \A r \in S : P[r] \in 1 .. Cardinality(S)
      /\ \A r, o \in S : P[r] = P[o] => r = o
      /\ \A n \in 1 .. Cardinality(S) : \E r \in S : P[r] = n
  BY DEF Bijection, Injection, Surjection, IsInjective
<1>3. m \in Nat /\ m <= limit /\ m <= Cardinality(S)
  BY <1>1
<1>4. \A r \in T : P[r] \in 1 .. m
  BY <1>1, <1>2
<1>5. \A n \in 1 .. m : \E r \in T : P[r] = n
  BY <1>1, <1>2, <1>3
<1> HIDE DEF m
<1>6. Q \in Bijection(T, 1 .. m)
  <2>1. Q \in Injection(T, 1 .. m)
    BY <1>1, <1>2, <1>4 DEF Injection, IsInjective
  <2>2. Q \in Surjection(T, 1 .. m)
    BY <1>4, <1>5 DEF Surjection
  <2>3. QED
    BY <2>1, <2>2 DEF Bijection
<1>7. Cardinality(T) = m
  <2>1. ExistsBijection(T, 1 .. m)
    BY <1>6 DEF ExistsBijection
  <2>2. Cardinality(1 .. m) = Cardinality(T)
    BY <2>1, <1>1, FS_Bijection
  <2>3. Cardinality(1 .. m) = m
    BY <1>3, FS_Interval
  <2>4. QED
    BY <2>2, <2>3
<1>8. {P[r] : r \in T} = 1 .. m
  BY <1>4, <1>5
<1>9. QED
  BY <1>1, <1>7, <1>8 DEF FirstOf, PlacesOf

---------------------------------------------------------------------------
(* What the retriever decides. *)

\* Each record gets one decision; the selected ones are those of the candidates
\* whose place is within the limit.
LEMMA DecisionKinds ==
  ASSUME NEW records, NEW r \in records, NEW scope, NEW at, NEW match, NEW limit \in Nat,
         NEW C, C = Candidates(Rankable(Eligible(records, scope, at)), match),
         Place(C, r, match) \in Int,
         NEW D, D = DecisionOn(r, records, scope, at, match, limit)
  PROVE  /\ D.decision = "selected" <=> r \in C /\ Place(C, r, match) <= limit
         /\ D.position = IF D.decision = "selected" THEN Place(C, r, match) ELSE 0
         /\ D.eligible = (D.decision \notin {"scope_filtered", "state_filtered"})
<1> DEFINE eligible == Eligible(records, scope, at)
           rankable == Rankable(eligible)
           place == Place(C, r, match)
<1>1. /\ r \in eligible <=> ScopeReason(r.scope, scope) = None /\ ActiveAt(r, at)
      /\ r \in rankable => r \in eligible /\ Narrowest(eligible, r) /\ ~Conflicting(eligible, r)
      /\ r \in C => r \in rankable
  BY DEF Eligible, Rankable, Candidates
<1> HIDE DEF eligible, rankable
<1>2. \/ D = Decision(FALSE, "scope_filtered", ScopeReason(r.scope, scope), 0) /\ r \notin C
      \/ D = Decision(FALSE, "state_filtered", StateReason(r), 0) /\ r \notin C
      \/ D = Decision(TRUE, "specificity_filtered", "narrower-rule-match", 0) /\ r \notin C
      \/ D = Decision(TRUE, "conflict_filtered", "equal-scope-conflict", 0) /\ r \notin C
      \/ D = Decision(TRUE, "conflict_filtered", "duplicate-rule-collapsed", 0) /\ r \notin C
      \/ D = Decision(TRUE, "lexical_filtered", "no-hybrid-match", 0) /\ r \notin C
      \/ /\ D = Decision(TRUE, "selected", MatchReason(r, match), place)
         /\ r \in C /\ place <= limit
      \/ /\ D = Decision(TRUE, "budget_filtered", "result-limit", 0)
         /\ r \in C /\ ~(place <= limit)
  <2>1. CASE ScopeReason(r.scope, scope) # None
    BY <1>1, <2>1 DEF DecisionOn, eligible, rankable
  <2>2. CASE ScopeReason(r.scope, scope) = None /\ ~ActiveAt(r, at)
    BY <1>1, <2>2 DEF DecisionOn, eligible, rankable
  <2>3. CASE r \in eligible /\ r \notin rankable
    BY <1>1, <2>3 DEF DecisionOn, eligible, rankable
  <2>4. CASE r \in rankable /\ r \notin C
    BY <1>1, <2>4 DEF DecisionOn, eligible, rankable
  <2>5. CASE r \in C
    <3>1. D = IF place <= limit THEN Decision(TRUE, "selected", MatchReason(r, match), place)
                                ELSE Decision(TRUE, "budget_filtered", "result-limit", 0)
      BY <1>1, <2>5 DEF DecisionOn, eligible, rankable
    <3>2. QED
      BY <2>5, <3>1
  <2>6. QED
    BY <1>1, <2>1, <2>2, <2>3, <2>4, <2>5
<1>3. \A e \in BOOLEAN : \A kind, reason, n : D = Decision(e, kind, reason, n) =>
        D.eligible = e /\ D.decision = kind /\ D.position = n
  BY DEF Decision
<1>4. \/ /\ D.eligible = FALSE /\ D.decision \in {"scope_filtered", "state_filtered"}
         /\ D.position = 0 /\ r \notin C
      \/ /\ D.eligible = TRUE /\ D.position = 0 /\ r \notin C
         /\ D.decision \in {"specificity_filtered", "conflict_filtered", "lexical_filtered"}
      \/ /\ D.eligible = TRUE /\ D.decision = "selected" /\ D.position = place
         /\ r \in C /\ place <= limit
      \/ /\ D.eligible = TRUE /\ D.decision = "budget_filtered" /\ D.position = 0
         /\ r \in C /\ ~(place <= limit)
  BY <1>2, <1>3
<1>5. QED
  BY <1>4

LEMMA LatestUnique ==
  ASSUME NEW s, Parsed(s), RecordsOK(s)
  PROVE  /\ Latest(s.records) \subseteq s.records
         /\ IsFiniteSet(Latest(s.records))
         /\ \A r \in Latest(s.records) : r.id \in Int /\ r.from \in Int
         /\ \A r, o \in Latest(s.records) : r.id = o.id => r = o
<1>1. Latest(s.records) \subseteq s.records
  BY DEF Latest
<1>2. IsFiniteSet(Latest(s.records))
  BY <1>1, FS_Subset DEF Parsed
<1>3. \A r \in s.records : r.id \in Int /\ r.from \in Int /\ r.version \in Int
  BY DEF Parsed
<1>4. ASSUME NEW r \in Latest(s.records), NEW o \in Latest(s.records), r.id = o.id
      PROVE  r = o
  <2>1. r.version <= o.version /\ o.version <= r.version /\ r \in s.records /\ o \in s.records
    BY <1>4 DEF Latest
  <2>2. r.version = o.version
    BY <2>1, <1>3
  <2>3. QED
    BY <1>4, <2>1, <2>2 DEF RecordsOK
<1>5. QED
  BY <1>1, <1>2, <1>3, <1>4

\* The records a retrieval ranks
Ranking(s, q, match) ==
  Candidates(Rankable(Eligible(Latest(s.records), q.scope, q.at)), match)

\* Its decisions keep the contract of a scenario's decisions: one for each record,
\* consistent in its fields, the selected ones at the places 1 to their number;
\* and they are of records that were ranked.
LEMMA RetrievedSound ==
  ASSUME ReplayAssumption, NEW s, Parsed(s), RecordsOK(s), NEW q, NEW match, Scored(match),
         NEW D, D = Retrieved(s, q, match),
         NEW E, E = {d \in D : d.decision = "selected"}
  PROVE  /\ IsFiniteSet(D)
         /\ \A d \in D : d.query = q.id /\ d.memory \in MemoryIds(s) /\ DecisionOK(d)
         /\ \A c, d \in D : c.memory = d.memory => c = d
         /\ {d.position : d \in E} = 1 .. Cardinality(E)
         /\ \A d \in E : \E r \in Ranking(s, q, match) : r.id = d.memory
<1> DEFINE now == Latest(s.records)
           eligible == Eligible(now, q.scope, q.at)
           C == Ranking(s, q, match)
           decided == Decide(now, q.scope, q.at, match, Limit)
           on(r) == DecisionOn(r, now, q.scope, q.at, match, Limit)
           P == [r \in C |-> Place(C, r, match)]
<1>1. Limit \in Nat
  BY DEF ReplayAssumption
<1>2. /\ now \subseteq s.records /\ IsFiniteSet(now)
      /\ \A r \in now : r.id \in Int /\ r.from \in Int
      /\ \A r, o \in now : r.id = o.id => r = o
  BY LatestUnique
<1>3. C \subseteq now
  BY DEF Ranking, Candidates, Rankable, Eligible
<1>4. /\ IsFiniteSet(C)
      /\ \A r \in C : Place(C, r, match) \in 1 .. Cardinality(C)
      /\ P \in Bijection(C, 1 .. Cardinality(C))
  <2> DEFINE rankable == Rankable(eligible)
  <2>1. rankable \subseteq now
    BY DEF Rankable, Eligible
  <2>2. IsFiniteSet(rankable)
    BY <1>2, <2>1, FS_Subset
  <2> HIDE DEF rankable, now
  <2>3. /\ \A r \in rankable : r.id \in Int /\ r.from \in Int
        /\ \A r, o \in rankable : r.id = o.id => r = o
    BY <1>2, <2>1
  <2>4. C = Candidates(rankable, match)
    BY DEF Ranking, rankable, now
  <2> HIDE DEF C
  <2>5. QED
    BY <2>2, <2>3, <2>4, CandidatesPlaced
<1>5. \A r \in now : /\ decided[r.id] = on(r)
                     /\ r.id \in DOMAIN decided
  <2>1. \A r \in now : (CHOOSE o \in now : o.id = r.id) = r
    BY <1>2
  <2> HIDE DEF now
  <2>2. QED
    BY <2>1 DEF Decide
<1>6. DOMAIN decided = {r.id : r \in now}
  BY DEF Decide
<1>7. ASSUME NEW r \in now
      PROVE  /\ on(r).decision = "selected" <=> r \in C /\ Place(C, r, match) <= Limit
             /\ on(r).position = IF on(r).decision = "selected" THEN Place(C, r, match) ELSE 0
             /\ on(r).eligible = (on(r).decision \notin {"scope_filtered", "state_filtered"})
             /\ on(r).decision = "selected" => on(r).position \in Nat \ {0}
  <2>1. Cardinality({o \in C : KeyBefore(OrderKey(o, match), OrderKey(r, match))}) \in Nat
    BY <1>4, FS_Subset, FS_CardinalityType
  <2>2. Place(C, r, match) \in Int /\ Place(C, r, match) > 0
    BY <2>1 DEF Place
  <2>3. C = Candidates(Rankable(Eligible(now, q.scope, q.at)), match)
    BY DEF Ranking
  <2> HIDE DEF C, now
  <2>4. QED
    BY <1>1, <2>2, <2>3, DecisionKinds
<1> DEFINE row(r) == [query |-> q.id, memory |-> r.id, eligible |-> on(r).eligible,
                      decision |-> on(r).decision, position |-> on(r).position,
                      scored |-> on(r).decision \in {"selected", "budget_filtered"}]
<1>8. D = {row(r) : r \in now}
  BY <1>5, <1>6 DEF Retrieved
<1> HIDE DEF now, on, C, P
<1>9. ASSUME NEW r \in now
      PROVE  row(r).query = q.id /\ row(r).memory \in MemoryIds(s) /\ DecisionOK(row(r))
  <2>1. row(r).query = q.id /\ row(r).memory \in MemoryIds(s)
    BY <1>2 DEF MemoryIds
  <2>2. /\ row(r).decision = on(r).decision
        /\ row(r).position = on(r).position
        /\ row(r).eligible <=> on(r).decision \notin {"scope_filtered", "state_filtered"}
        /\ row(r).scored <=> on(r).decision \in {"selected", "budget_filtered"}
    BY <1>7
  <2>3. DecisionOK(row(r))
    <3> HIDE DEF row
    <3>1. CASE on(r).decision = "selected"
      BY <1>7, <2>2, <3>1 DEF DecisionOK
    <3>2. CASE on(r).decision # "selected"
      <4>1. row(r).position = 0
        BY <1>7, <2>2, <3>2
      <4>2. QED
        BY <2>2, <3>2, <4>1 DEF DecisionOK
    <3>3. QED
      BY <3>1, <3>2
  <2>4. QED
    BY <2>1, <2>3
<1>10. \A c, d \in D : c.memory = d.memory => c = d
  BY <1>2, <1>8
<1> DEFINE T == {r \in C : P[r] <= Limit}
<1>11. \A r \in C : P[r] = Place(C, r, match)
  BY DEF P
<1>12. E = {row(r) : r \in T}
  BY <1>3, <1>7, <1>8, <1>11
<1>13. IsFiniteSet(T) /\ {P[r] : r \in T} = 1 .. Cardinality(T)
  <2>1. T = FirstOf(C, P, Limit) /\ {P[r] : r \in T} = PlacesOf(T, P)
    BY DEF FirstOf, PlacesOf
  <2> HIDE DEF T
  <2>2. IsFiniteSet(T) /\ PlacesOf(T, P) = 1 .. Cardinality(T)
    BY <1>1, <1>4, <2>1, FirstPlaces
  <2>3. QED
    BY <2>1, <2>2
<1>14. Cardinality(E) = Cardinality(T)
  <2> DEFINE M == [r \in T |-> row(r)]
  <2>1. M \in Bijection(T, E)
    BY <1>2, <1>3, <1>12 DEF Bijection, Injection, Surjection, IsInjective
  <2>2. QED
    BY <2>1, <1>13, FS_Bijection DEF ExistsBijection
<1>15. {d.position : d \in E} = {P[r] : r \in T}
  <2>1. \A r \in T : row(r).position = P[r]
    BY <1>3, <1>7, <1>11
  <2> HIDE DEF row, T
  <2>2. QED
    BY <1>12, <2>1
<1>16. \A d \in E : \E r \in C : r.id = d.memory
  BY <1>12
<1>17. IsFiniteSet(D)
  <2> DEFINE M == [r \in now |-> row(r)]
  <2>1. M \in Surjection(now, D)
    BY <1>8 DEF Surjection
  <2>2. QED
    BY <1>2, <2>1, FS_Surjection DEF now
<1>18. QED
  BY <1>8, <1>9, <1>10, <1>13, <1>14, <1>15, <1>16, <1>17 DEF C

---------------------------------------------------------------------------
(* What is ranked is in force, and alone in its rule. *)

LEMMA AtMostOne ==
  ASSUME NEW T, IsFiniteSet(T), ~(Cardinality(T) > 1), NEW a \in T, NEW b \in T
  PROVE  a = b
<1> SUFFICES ASSUME a # b PROVE FALSE
  OBVIOUS
<1>1. IsFiniteSet({a}) /\ Cardinality({a}) = 1
  BY FS_Singleton
<1>2. Cardinality({a}) < Cardinality(T)
  BY Smaller
<1>3. Cardinality(T) \in Nat
  BY FS_CardinalityType
<1>4. QED
  BY <1>1, <1>2, <1>3

\* What is ranked is eligible, alone in its rule, and no eligible record of the
\* rule is narrower or says otherwise as narrowly.
LEMMA RankedInForce ==
  ASSUME NEW s, Parsed(s), RecordsOK(s), NEW q, NEW match,
         NEW r \in Ranking(s, q, match),
         NEW usable, usable = Eligible(Latest(s.records), q.scope, q.at)
  PROVE  /\ r \in usable
         /\ \A o \in Ranking(s, q, match) : o.rule = r.rule => o = r
         /\ \A o \in usable : o.rule = r.rule =>
              \/ Specificity(o.scope) < Specificity(r.scope)
              \/ Specificity(o.scope) = Specificity(r.scope) /\ o.statement = r.statement
<1>1. /\ IsFiniteSet(usable)
      /\ \A o \in usable : o.id \in Int
      /\ \A o, p \in usable : o.id = p.id => o = p
  BY LatestUnique, FS_Subset DEF Eligible
<1>2. ASSUME NEW o \in Ranking(s, q, match)
      PROVE  /\ o \in usable
             /\ \A p \in usable : p.rule = o.rule => Specificity(p.scope) <= Specificity(o.scope)
             /\ ~Conflicting(usable, o)
             /\ \A p \in Specific(usable, o) : o.id <= p.id
  BY DEF Ranking, Candidates, Rankable, Narrowest, SameRule
<1>3. \A o : Specificity(o.scope) \in Int
  BY SpecificityInt
<1>4. \A o \in usable : o.rule = r.rule /\ ~(Specificity(o.scope) < Specificity(r.scope)) =>
        /\ Specificity(o.scope) = Specificity(r.scope)
        /\ o \in Specific(usable, r)
  <2> SUFFICES ASSUME NEW o \in usable, o.rule = r.rule,
                      ~(Specificity(o.scope) < Specificity(r.scope))
               PROVE  /\ Specificity(o.scope) = Specificity(r.scope)
                      /\ o \in Specific(usable, r)
    OBVIOUS
  <2>1. Specificity(o.scope) = Specificity(r.scope)
    BY <1>2, <1>3
  <2>2. QED
    BY <1>2, <2>1 DEF Specific, SameRule, Narrowest
<1>5. r \in Specific(usable, r)
  BY <1>2 DEF Specific, SameRule, Narrowest
<1>6. \A o \in Specific(usable, r) : o.statement = r.statement
  <2> DEFINE S == Specific(usable, r)
             T == {o.statement : o \in S}
             f == [o \in S |-> o.statement]
  <2>1. IsFiniteSet(S)
    BY <1>1, FS_Subset DEF Specific, SameRule
  <2>2. f \in Surjection(S, T)
    BY DEF Surjection
  <2>3. IsFiniteSet(T)
    BY <2>1, <2>2, FS_Surjection
  <2>4. ~(Cardinality(T) > 1)
    BY <1>2 DEF Conflicting
  <2>5. \A o \in S : o.statement \in T
    OBVIOUS
  <2> HIDE DEF T
  <2>6. QED
    BY <1>5, <2>3, <2>4, <2>5, AtMostOne
<1>7. ASSUME NEW o \in Ranking(s, q, match), o.rule = r.rule
      PROVE  o = r
  <2>1. Specificity(o.scope) = Specificity(r.scope)
    BY <1>2, <1>3, <1>7
  <2>2. o \in Specific(usable, r) /\ r \in Specific(usable, o)
    BY <1>2, <1>7, <2>1 DEF Specific, SameRule, Narrowest
  <2>3. r.id <= o.id /\ o.id <= r.id
    BY <1>2, <2>2
  <2>4. QED
    BY <1>1, <1>2, <2>3
<1>8. QED
  BY <1>2, <1>4, <1>6, <1>7

---------------------------------------------------------------------------
(* The tokens of blocks. *)

\* blocks of a size in tokens, one after another
Blocks(blocks) ==
  /\ Len(blocks) \in Nat
  /\ \A n \in 1 .. Len(blocks) : blocks[n].size \in Nat

LEMMA SizesStep ==
  ASSUME NEW blocks, Blocks(blocks)
  PROVE  /\ Sizes(blocks)[0] = 0
         /\ \A n \in 1 .. Len(blocks) :
              Sizes(blocks)[n] = Sizes(blocks)[n - 1] + blocks[n].size
         /\ \A n \in 0 .. Len(blocks) : Sizes(blocks)[n] \in Nat
<1> DEFINE L == Len(blocks)
           sum(f, n) == IF n = 0 THEN 0 ELSE f[n - 1] + blocks[n].size
           Missing == {N \in 0 .. L : ~\E f : f = [n \in 0 .. N |-> sum(f, n)]}
<1>1. L \in Nat
  BY DEF Blocks
<1>2. Missing = {}
  <2>1. SUFFICES ASSUME Missing # {} PROVE FALSE
    OBVIOUS
  <2>2. PICK N \in Missing : \A M \in Missing : N <= M
    <3>1. Missing \in SUBSET Nat
      OBVIOUS
    <3>2. QED
      BY <2>1, <3>1, Least
  <2>3. N # 0
    <3>1. [n \in 0 .. 0 |-> 0] = [n \in 0 .. 0 |-> sum([m \in 0 .. 0 |-> 0], n)]
      OBVIOUS
    <3>2. 0 \notin Missing
      BY <3>1
    <3>3. QED
      BY <3>2
  <2>4. N - 1 \in 0 .. L /\ N - 1 \notin Missing
    BY <1>1, <2>2, <2>3
  <2>5. PICK g : g = [n \in 0 .. N - 1 |-> sum(g, n)]
    BY <2>4
  <2> DEFINE f == [n \in 0 .. N |-> IF n = N THEN g[N - 1] + blocks[N].size ELSE g[n]]
  <2>6. \A n \in 0 .. N : f[n] = sum(f, n)
    <3> SUFFICES ASSUME NEW n \in 0 .. N PROVE f[n] = sum(f, n)
      OBVIOUS
    <3>1. CASE n = N
      <4>1. f[n - 1] = g[N - 1] /\ f[n] = g[N - 1] + blocks[N].size
        BY <1>1, <2>3, <3>1
      <4>2. QED
        BY <2>3, <3>1, <4>1
    <3>2. CASE n # N
      <4>1. n \in 0 .. N - 1 /\ f[n] = g[n] /\ (n # 0 => f[n - 1] = g[n - 1])
        BY <1>1, <3>2
      <4>2. g[n] = sum(g, n)
        BY <2>5, <4>1
      <4>3. QED
        BY <4>1, <4>2
    <3>3. QED
      BY <3>1, <3>2
  <2>7. f = [n \in 0 .. N |-> sum(f, n)]
    BY <2>6
  <2>8. QED
    BY <2>2, <2>7
<1>3. Sizes(blocks) = [n \in 0 .. L |-> sum(Sizes(blocks), n)]
  <2>1. \E f : f = [n \in 0 .. L |-> sum(f, n)]
    BY <1>1, <1>2
  <2>2. Sizes(blocks) = CHOOSE f : f = [n \in 0 .. L |-> sum(f, n)]
    BY DEF Sizes
  <2>3. QED
    BY <2>1, <2>2
<1>4. /\ Sizes(blocks)[0] = 0
      /\ \A n \in 1 .. L : Sizes(blocks)[n] = Sizes(blocks)[n - 1] + blocks[n].size
  BY <1>1, <1>3
<1>5. \A n \in 0 .. L : Sizes(blocks)[n] \in Nat
  <2> DEFINE T == {n \in 0 .. L : Sizes(blocks)[n] \notin Nat}
  <2>1. SUFFICES ASSUME T # {} PROVE FALSE
    OBVIOUS
  <2>2. PICK n \in T : \A m \in T : n <= m
    <3>1. T \in SUBSET Nat
      OBVIOUS
    <3>2. QED
      BY <2>1, <3>1, Least
  <2>3. n # 0
    BY <1>4
  <2>4. n \in 1 .. L /\ n - 1 \in 0 .. L /\ n - 1 \notin T
    BY <1>1, <2>2, <2>3
  <2>5. QED
    BY <1>4, <2>4 DEF Blocks
<1>6. QED
  BY <1>4, <1>5

LEMMA HistorySequence ==
  ASSUME NEW S, NEW timeline \in Seq(S), NEW q
  PROVE  History(timeline, q) \in Seq(S)
<1> DEFINE L == Len(timeline)
           next(f, n) == IF n = 0 THEN <<>>
                         ELSE IF timeline[n].kind = "message" /\ timeline[n].sequence <= q.after
                         THEN Append(f[n - 1], timeline[n])
                         ELSE f[n - 1]
           Missing == {N \in 0 .. L : ~\E f : f = [n \in 0 .. N |-> next(f, n)]}
           H == Messages(timeline, q)
<1>1. L \in Nat
  OBVIOUS
<1> HIDE DEF L, next
<1>2. Missing = {}
  <2>1. SUFFICES ASSUME Missing # {} PROVE FALSE
    OBVIOUS
  <2>2. PICK N \in Missing : \A M \in Missing : N <= M
    <3>1. Missing \in SUBSET Nat
      OBVIOUS
    <3>2. QED
      BY <2>1, <3>1, Least
  <2>3. N # 0
    <3>1. [n \in 0 .. 0 |-> <<>>] = [n \in 0 .. 0 |-> next([m \in 0 .. 0 |-> <<>>], n)]
      BY DEF next
    <3>2. 0 \notin Missing
      BY <3>1
    <3>3. QED
      BY <3>2
  <2>4. N - 1 \in 0 .. L /\ N - 1 \notin Missing
    BY <1>1, <2>2, <2>3
  <2>5. PICK g : g = [n \in 0 .. N - 1 |-> next(g, n)]
    BY <2>4
  <2> DEFINE f == [n \in 0 .. N |-> IF n = N THEN next(g, N) ELSE g[n]]
  <2>6. \A n \in 0 .. N : f[n] = next(f, n)
    <3> SUFFICES ASSUME NEW n \in 0 .. N PROVE f[n] = next(f, n)
      OBVIOUS
    <3>1. CASE n = N
      <4>1. f[n - 1] = g[N - 1] /\ f[n] = next(g, N)
        BY <1>1, <2>3, <3>1
      <4>2. QED
        BY <2>3, <3>1, <4>1 DEF next
    <3>2. CASE n # N
      <4>1. n \in 0 .. N - 1 /\ f[n] = g[n] /\ (n # 0 => f[n - 1] = g[n - 1])
        BY <1>1, <3>2
      <4>2. g[n] = next(g, n)
        BY <2>5, <4>1
      <4>3. QED
        BY <4>1, <4>2 DEF next
    <3>3. QED
      BY <3>1, <3>2
  <2>7. f = [n \in 0 .. N |-> next(f, n)]
    BY <2>6
  <2>8. QED
    BY <2>2, <2>7
<1>3. H = [n \in 0 .. L |-> next(H, n)]
  <2>1. \E f : f = [n \in 0 .. L |-> next(f, n)]
    BY <1>1, <1>2
  <2>2. H = CHOOSE f : f = [n \in 0 .. L |-> next(f, n)]
    BY DEF Messages, next, L
  <2>3. QED
    BY <2>1, <2>2
<1>4. \A n \in 0 .. L : H[n] = next(H, n)
  BY <1>3
<1> HIDE DEF H
<1>5. \A n \in 0 .. L : H[n] \in Seq(S)
  <2> DEFINE T == {n \in 0 .. L : H[n] \notin Seq(S)}
  <2>1. SUFFICES ASSUME T # {} PROVE FALSE
    OBVIOUS
  <2>2. PICK n \in T : \A m \in T : n <= m
    <3>1. T \in SUBSET Nat
      OBVIOUS
    <3>2. QED
      BY <2>1, <3>1, Least
  <2>3. n # 0
    <3>1. H[0] = <<>>
      BY <1>1, <1>4 DEF next
    <3>2. H[0] \in Seq(S)
      BY <3>1
    <3>3. QED
      BY <2>2, <3>2
  <2>4. n \in 1 .. L /\ n - 1 \in 0 .. L /\ n - 1 \notin T
    BY <1>1, <2>2, <2>3
  <2>5. H[n - 1] \in Seq(S) /\ timeline[n] \in S
    BY <2>4 DEF L
  <2>6. H[n] \in Seq(S)
    <3>1. H[n] = H[n - 1] \/ H[n] = Append(H[n - 1], timeline[n])
      BY <1>4, <2>3 DEF next
    <3>2. Append(H[n - 1], timeline[n]) \in Seq(S)
      BY <2>5
    <3>3. QED
      BY <2>5, <3>1, <3>2
  <2>7. QED
    BY <2>2, <2>6
<1>6. QED
  BY <1>1, <1>5 DEF History, H, L

\* Taking the first block away takes its size away.
LEMMA TailSize ==
  ASSUME NEW S, NEW m \in Seq(S), Blocks(m), NEW n \in 1 .. Len(m)
  PROVE  LET from == SubSeq(m, n, Len(m))
             rest == SubSeq(m, n + 1, Len(m))
         IN  Sizes(from)[Len(from)] = m[n].size + Sizes(rest)[Len(rest)]
<1> DEFINE L == Len(m)
           from == SubSeq(m, n, L)
           rest == SubSeq(m, n + 1, L)
           T == {k \in 0 .. L - n : Sizes(from)[k + 1] # m[n].size + Sizes(rest)[k]}
<1>1. /\ Len(from) = L - n + 1
      /\ \A i \in 1 .. L - n + 1 : from[i] = m[n + i - 1]
      /\ Len(rest) = L - n
      /\ \A i \in 1 .. L - n : rest[i] = m[n + i]
  OBVIOUS
<1>2. Blocks(from) /\ Blocks(rest)
  BY <1>1 DEF Blocks
<1> HIDE DEF from, rest
<1>3. Sizes(from)[1] = m[n].size + Sizes(rest)[0]
  <2>1. /\ 1 \in 1 .. Len(from)
        /\ Sizes(from)[1] = Sizes(from)[0] + from[1].size
    <3>1. 1 \in 1 .. Len(from)
      BY <1>1
    <3>2. Sizes(from)[1] = Sizes(from)[1 - 1] + from[1].size
      BY <1>2, <3>1, SizesStep
    <3>3. QED
      BY <3>1, <3>2
  <2>2. from[1] = m[n] /\ m[n].size \in Nat
    BY <1>1 DEF Blocks
  <2>3. Sizes(from)[0] = 0 /\ Sizes(rest)[0] = 0
    BY <1>2, SizesStep
  <2>4. QED
    BY <2>1, <2>2, <2>3
<1>4. T = {}
  <2>1. SUFFICES ASSUME T # {} PROVE FALSE
    OBVIOUS
  <2>2. PICK k \in T : \A j \in T : k <= j
    <3>1. T \in SUBSET Nat
      OBVIOUS
    <3>2. QED
      BY <2>1, <3>1, Least
  <2>3. k \in 1 .. L - n /\ k - 1 \in 0 .. L - n /\ k - 1 \notin T
    BY <1>3, <2>2
  <2>4. Sizes(from)[k] = m[n].size + Sizes(rest)[k - 1]
    BY <2>3
  <2>5. Sizes(from)[k + 1] = Sizes(from)[k] + from[k + 1].size
    <3>1. k + 1 \in 1 .. Len(from) /\ k + 1 - 1 = k
      BY <1>1, <2>3
    <3>2. QED
      BY <1>2, <3>1, SizesStep
  <2>6. Sizes(rest)[k] = Sizes(rest)[k - 1] + rest[k].size
    BY <1>1, <1>2, <2>3, SizesStep
  <2>7. from[k + 1] = rest[k]
    <3>1. from[k + 1] = m[n + (k + 1) - 1] /\ rest[k] = m[n + k]
      <4>1. k + 1 \in 1 .. L - n + 1 /\ k \in 1 .. L - n
        BY <2>3
      <4>2. QED
        BY <1>1, <4>1
    <3>2. n + (k + 1) - 1 = n + k
      BY <2>3
    <3>3. QED
      BY <3>1, <3>2
  <2>8. m[n].size \in Nat /\ Sizes(rest)[k - 1] \in Nat /\ rest[k].size \in Nat
    BY <1>1, <1>2, <2>3, SizesStep DEF Blocks
  <2>9. QED
    BY <2>2, <2>4, <2>5, <2>6, <2>7, <2>8
<1>5. L - n \in 0 .. L - n /\ Len(rest) = L - n /\ Len(from) = L - n + 1
  BY <1>1
<1>6. Sizes(from)[L - n + 1] = m[n].size + Sizes(rest)[L - n]
  BY <1>4, <1>5
<1>7. QED
  BY <1>5, <1>6 DEF from, rest

LEMMA TokensNat ==
  ASSUME ReplayAssumption, NEW S, NEW blocks \in Seq(S), \A b \in S : b.size \in Nat
  PROVE  Blocks(blocks) /\ Tokens(blocks) \in Nat
<1>1. Len(blocks) \in Nat /\ \A n \in 1 .. Len(blocks) : blocks[n] \in S
  OBVIOUS
<1>2. Blocks(blocks)
  BY <1>1 DEF Blocks
<1>3. Sizes(blocks)[Len(blocks)] \in Nat
  BY <1>1, <1>2, SizesStep
<1>4. QED
  BY <1>2, <1>3 DEF Tokens, ReplayAssumption

LEMMA FewBlocks ==
  ASSUME ReplayAssumption
  PROVE  /\ Tokens(<<>>) = 0
         /\ \A b : b.size \in Nat => Tokens(<<b>>) = Header + b.size
<1> SUFFICES ASSUME NEW b, b.size \in Nat PROVE Tokens(<<b>>) = Header + b.size
  BY DEF Tokens
<1>1. Len(<<b>>) = 1 /\ <<b>>[1] = b /\ <<b>> # <<>>
  OBVIOUS
<1>2. Blocks(<<b>>)
  BY <1>1 DEF Blocks
<1>3. Sizes(<<b>>)[1] = b.size
  <2>1. 1 \in 1 .. Len(<<b>>) /\ 1 - 1 = 0
    BY <1>1
  <2>2. Sizes(<<b>>)[0] = 0 /\ Sizes(<<b>>)[1] = Sizes(<<b>>)[1 - 1] + <<b>>[1].size
    BY <1>2, <2>1, SizesStep
  <2>3. QED
    BY <1>1, <2>1, <2>2
<1>4. QED
  BY <1>1, <1>3 DEF Tokens

\* Recent history is the longest suffix that fits: with one message more it
\* would not.
LEMMA NewestFits ==
  ASSUME ReplayAssumption, NEW S, NEW messages \in Seq(S), Blocks(messages),
         NEW budget \in Nat, NEW kept, kept = Newest(messages, budget),
         NEW n, n = Len(messages) - Len(kept)
  PROVE  /\ kept \in Seq(S)
         /\ n \in 0 .. Len(messages)
         /\ Tokens(kept) <= budget
         /\ \A i \in 1 .. Len(kept) : kept[i] = messages[n + i]
         /\ n > 0 => Tokens(kept) + messages[n].size
                       + (IF kept = <<>> THEN Header ELSE 0) > budget
<1> DEFINE L == Len(messages)
           From(i) == SubSeq(messages, i, L)
           Fits == {i \in 1 .. L + 1 : Tokens(From(i)) <= budget}
           cut == Min(Fits)
<1>1. L \in Nat
  OBVIOUS
<1>2. \A i \in 1 .. L + 1 : /\ From(i) \in Seq(S)
                            /\ Len(From(i)) = L - i + 1
                            /\ \A j \in 1 .. L - i + 1 : From(i)[j] = messages[i + j - 1]
  OBVIOUS
<1>3. From(L + 1) = <<>>
  <2>1. From(L + 1) \in Seq(S) /\ Len(From(L + 1)) = 0
    BY <1>1, <1>2
  <2> HIDE DEF From
  <2>2. QED
    BY <2>1
<1>4. \A i \in 1 .. L : Blocks(From(i)) /\ From(i) # <<>>
  <2> SUFFICES ASSUME NEW i \in 1 .. L PROVE Blocks(From(i)) /\ From(i) # <<>>
    OBVIOUS
  <2>1. /\ Len(From(i)) = L - i + 1 /\ From(i) \in Seq(S)
        /\ \A j \in 1 .. L - i + 1 : From(i)[j] = messages[i + j - 1]
    BY <1>1, <1>2
  <2>2. \A j \in 1 .. L - i + 1 : messages[i + j - 1].size \in Nat
    <3>1. \A j \in 1 .. L - i + 1 : i + j - 1 \in 1 .. L
      BY <1>1
    <3>2. QED
      BY <3>1 DEF Blocks
  <2> HIDE DEF From
  <2>3. \A j \in 1 .. Len(From(i)) : From(i)[j].size \in Nat
    BY <2>1, <2>2
  <2>4. Len(From(i)) \in Nat /\ Len(From(i)) # 0
    BY <1>1, <2>1
  <2>5. QED
    BY <2>3, <2>4 DEF Blocks
<1> HIDE DEF From
<1>5. L + 1 \in Fits
  <2>1. Tokens(From(L + 1)) = 0
    BY <1>3, FewBlocks
  <2>2. QED
    BY <1>1, <2>1
<1>6. cut \in Fits /\ \A i \in Fits : cut <= i
  <2>1. Fits \in SUBSET Nat /\ Fits # {}
    BY <1>5
  <2> HIDE DEF Fits
  <2>2. \E x \in Fits : \A y \in Fits : x <= y
    BY <2>1, Least
  <2>3. QED
    BY <2>2 DEF Min
<1>7. kept = From(cut)
  BY DEF Newest, From
<1> HIDE DEF cut
<1>8. cut \in 1 .. L + 1 /\ Tokens(kept) <= budget
  BY <1>6, <1>7
<1>9. n = cut - 1 /\ Len(kept) = L - n /\ kept \in Seq(S)
  BY <1>1, <1>2, <1>7, <1>8
<1>10. \A i \in 1 .. Len(kept) : kept[i] = messages[n + i]
  <2> SUFFICES ASSUME NEW i \in 1 .. Len(kept) PROVE kept[i] = messages[n + i]
    OBVIOUS
  <2>1. i \in 1 .. L - cut + 1 /\ cut + i - 1 = n + i
    BY <1>1, <1>8, <1>9
  <2>2. kept[i] = messages[cut + i - 1]
    BY <1>2, <1>7, <1>8, <2>1
  <2>3. QED
    BY <2>1, <2>2
<1>11. ASSUME n > 0
       PROVE  Tokens(kept) + messages[n].size
                + (IF kept = <<>> THEN Header ELSE 0) > budget
  <2>1. n \in 1 .. L /\ n + 1 = cut
    BY <1>1, <1>8, <1>9, <1>11
  <2>2. n \notin Fits
    BY <1>6, <2>1
  <2>3. ~(Tokens(From(n)) <= budget)
    BY <1>1, <2>1, <2>2
  <2>4. Sizes(From(n))[Len(From(n))] = messages[n].size + Sizes(kept)[Len(kept)]
    BY <1>7, <2>1, TailSize DEF From
  <2>5. Tokens(From(n)) = Header + (messages[n].size + Sizes(kept)[Len(kept)])
    BY <1>4, <2>1, <2>4 DEF Tokens
  <2>6. messages[n].size \in Nat /\ Header \in Nat
    BY <2>1 DEF Blocks, ReplayAssumption
  <2>7. CASE kept = <<>>
    <3>1. Blocks(kept) /\ Len(kept) = 0
      BY <2>7 DEF Blocks
    <3>2. Sizes(kept)[Len(kept)] = 0
      BY <3>1, SizesStep
    <3>3. Tokens(kept) = 0
      BY <2>7, FewBlocks
    <3>4. QED
      BY <2>3, <2>5, <2>6, <2>7, <3>2, <3>3
  <2>8. CASE kept # <<>>
    <3>1. cut \in 1 .. L
      BY <1>1, <1>3, <1>7, <1>8, <2>8
    <3>2. Blocks(kept) /\ Len(kept) \in 0 .. Len(kept)
      BY <1>4, <1>7, <3>1 DEF Blocks
    <3>3. Sizes(kept)[Len(kept)] \in Nat
      BY <3>2, SizesStep
    <3>4. Tokens(kept) = Header + Sizes(kept)[Len(kept)]
      BY <2>8 DEF Tokens
    <3>5. QED
      BY <2>3, <2>5, <2>6, <2>8, <3>3, <3>4
  <2>9. QED
    BY <2>7, <2>8
<1>12. QED
  BY <1>1, <1>8, <1>9, <1>10, <1>11

LEMMA ContextFields ==
  ASSUME NEW blocks, NEW ids
  PROVE  /\ Context(blocks, ids) # Failed
         /\ Context(blocks, ids).status = "assembled"
         /\ Context(blocks, ids).tokens = Tokens(blocks)
         /\ Context(blocks, ids).ids = ids
<1>1. Context(blocks, ids).status # Failed.status
  BY DEF Context, Failed
<1>2. QED
  BY <1>1 DEF Context

\* Structured memory is a prefix of the chosen records that fits.
LEMMA StructuredFits ==
  ASSUME ReplayAssumption, NEW S, NEW records \in Seq(S), Blocks(records),
         NEW budget \in Nat, NEW C, C = Structured(records, budget)
  PROVE  /\ C # Failed /\ C.status = "assembled"
         /\ C.tokens \in Nat /\ C.tokens <= budget
         /\ \A id \in ToSet(C.ids) : \E i \in 1 .. Len(records) : id = records[i].id
<1> DEFINE UpTo(n) == SubSeq(records, 1, n)
           Fits == {n \in 0 .. Len(records) : Tokens(UpTo(n)) <= budget}
           k == Max(Fits)
<1>1. \A n \in 0 .. Len(records) : /\ UpTo(n) \in Seq(S)
                                   /\ DOMAIN UpTo(n) = 1 .. n
                                   /\ \A i \in 1 .. n : UpTo(n)[i] = records[i]
  OBVIOUS
<1>2. UpTo(0) = <<>>
  OBVIOUS
<1> HIDE DEF UpTo
<1>3. 0 \in Fits
  <2>1. Tokens(UpTo(0)) = 0
    BY <1>2, FewBlocks
  <2>2. QED
    BY <2>1
<1>4. k \in Fits
  <2>1. IsFiniteSet(Fits)
    <3>1. IsFiniteSet(0 .. Len(records))
      BY FS_Interval
    <3>2. QED
      BY <3>1, FS_Subset
  <2> DEFINE f == [n \in Fits |-> n]
  <2>2. f \in [Fits -> Int] /\ Fits # {}
    BY <1>3
  <2>3. \E x \in Fits : \A y \in Fits : f[y] <= f[x]
    <3> HIDE DEF Fits, f
    <3>1. QED
      BY <2>1, <2>2, Highest
  <2>4. \E x \in Fits : \A y \in Fits : x >= y
    BY <2>3
  <2> HIDE DEF Fits
  <2>5. QED
    BY <2>4 DEF Max
<1>5. C = Context(UpTo(k), [i \in DOMAIN UpTo(k) |-> UpTo(k)[i].id])
  BY DEF Structured, UpTo
<1> HIDE DEF k
<1>6. /\ C # Failed /\ C.status = "assembled" /\ C.tokens = Tokens(UpTo(k))
      /\ C.ids = [i \in 1 .. k |-> UpTo(k)[i].id]
  <2> DEFINE ids == [i \in DOMAIN UpTo(k) |-> UpTo(k)[i].id]
  <2>1. ids = [i \in 1 .. k |-> UpTo(k)[i].id]
    BY <1>1, <1>4
  <2>2. C = Context(UpTo(k), ids)
    BY <1>5
  <2> HIDE DEF ids
  <2>3. C # Failed /\ C.status = "assembled" /\ C.tokens = Tokens(UpTo(k)) /\ C.ids = ids
    BY <2>2, ContextFields
  <2>4. QED
    BY <2>1, <2>3
<1>7. \A i \in 1 .. k : i \in 1 .. Len(records) /\ UpTo(k)[i] = records[i]
  BY <1>1, <1>4
<1>8. ToSet(C.ids) = {UpTo(k)[i].id : i \in 1 .. k}
  BY <1>6 DEF ToSet
<1>9. Tokens(UpTo(k)) \in Nat
  <2>1. k \in Nat /\ Len(UpTo(k)) = k
    BY <1>1, <1>4
  <2>2. Blocks(UpTo(k))
    BY <1>7, <2>1 DEF Blocks
  <2>3. Sizes(UpTo(k))[k] \in Nat
    BY <2>1, <2>2, SizesStep
  <2>4. QED
    BY <2>1, <2>3 DEF Tokens, ReplayAssumption
<1>10. QED
  BY <1>4, <1>6, <1>7, <1>8, <1>9

---------------------------------------------------------------------------
(* The contexts. *)

LEMMA LatestExists ==
  ASSUME NEW s, Parsed(s), NEW id \in MemoryIds(s)
  PROVE  \E r \in Latest(s.records) : r.id = id
<1> DEFINE F == {r \in s.records : r.id = id}
           f == [r \in F |-> r.version]
<1>1. IsFiniteSet(F) /\ F # {}
  BY FS_Subset DEF Parsed, MemoryIds
<1>2. \A r \in F : r.version \in Int
  BY DEF Parsed
<1>3. f \in [F -> Int]
  BY <1>2
<1>4. PICK r \in F : \A o \in F : f[o] <= f[r]
  <2> HIDE DEF F, f
  <2>1. QED
    BY <1>1, <1>3, Highest
<1>5. \A o \in s.records : o.id = r.id => o.version <= r.version
  BY <1>4
<1>6. QED
  BY <1>4, <1>5 DEF Latest

\* With selections at the places 1 to their number, structured memory either
\* meets one that is not active or out of scope, or shows selected memories
\* within the budget.
LEMMA StructuredMemoryGives ==
  ASSUME ReplayAssumption, NEW s, Parsed(s), RecordsOK(s), NEW q, NEW budget \in Nat,
         {d.position : d \in Selected(s, q)} = 1 .. Cardinality(Selected(s, q)),
         \A d \in Selected(s, q) : d.memory \in MemoryIds(s),
         NEW C, C = StructuredMemory(s, q, budget)
  PROVE  \/ /\ C = Failed
            /\ \E d \in Selected(s, q), m \in Latest(s.records) :
                 /\ d.memory = m.id
                 /\ m.status # "active" \/ ScopeReason(m.scope, q.scope) # None
         \/ /\ C # Failed /\ C.status = "assembled"
            /\ C.tokens \in Nat /\ C.tokens <= budget
            /\ \A id \in ToSet(C.ids) : \E d \in Selected(s, q) : d.memory = id
<1> DEFINE N == Cardinality(Selected(s, q))
           at(n) == CHOOSE d \in Selected(s, q) : d.position = n
           record(n) == CHOOSE r \in Latest(s.records) : r.id = at(n).memory
           chosen == [n \in 1 .. N |-> record(n)]
<1>1. N \in Nat
  <2>1. IsFiniteSet(Selected(s, q))
    BY FS_Subset DEF Parsed, Selected
  <2>2. QED
    BY <2>1, FS_CardinalityType
<1>2. \A n \in 1 .. N : at(n) \in Selected(s, q)
  <2> SUFFICES ASSUME NEW n \in 1 .. N PROVE at(n) \in Selected(s, q)
    OBVIOUS
  <2>1. \E d \in Selected(s, q) : d.position = n
    OBVIOUS
  <2>2. QED
    BY <2>1
<1> HIDE DEF N, at
<1>3. \A n \in 1 .. N : record(n) \in Latest(s.records) /\ record(n).id = at(n).memory
  <2> SUFFICES ASSUME NEW n \in 1 .. N
               PROVE  record(n) \in Latest(s.records) /\ record(n).id = at(n).memory
    OBVIOUS
  <2>1. \E r \in Latest(s.records) : r.id = at(n).memory
    BY <1>2, LatestExists
  <2>2. QED
    BY <2>1
<1> HIDE DEF record
<1>4. chosen \in Seq(Latest(s.records)) /\ Len(chosen) = N /\ ToSet(chosen) = {record(n) : n \in 1 .. N}
  BY <1>1, <1>3 DEF ToSet
<1>5. C = IF \E r \in ToSet(chosen) : r.status # "active" \/ ScopeReason(r.scope, q.scope) # None
          THEN Failed
          ELSE Structured(chosen, budget)
  BY DEF StructuredMemory, record, at, N
<1> HIDE DEF chosen
<1>6. CASE \E r \in ToSet(chosen) : r.status # "active" \/ ScopeReason(r.scope, q.scope) # None
  <2>1. PICK n \in 1 .. N : record(n).status # "active"
                              \/ ScopeReason(record(n).scope, q.scope) # None
    BY <1>4, <1>6
  <2>2. QED
    BY <1>2, <1>3, <1>5, <1>6, <2>1
<1>7. CASE ~\E r \in ToSet(chosen) : r.status # "active" \/ ScopeReason(r.scope, q.scope) # None
  <2>1. C = Structured(chosen, budget)
    BY <1>5, <1>7
  <2>5. \A r \in Latest(s.records) : r.size \in Nat
    BY DEF Latest, Parsed
  <2>2. /\ C # Failed /\ C.status = "assembled" /\ C.tokens \in Nat /\ C.tokens <= budget
        /\ \A id \in ToSet(C.ids) : \E i \in 1 .. Len(chosen) : id = chosen[i].id
    <3>1. Blocks(chosen)
      BY <1>4, <2>5, TokensNat
    <3>2. QED
      BY <1>4, <2>1, <3>1, StructuredFits
  <2>3. \A i \in 1 .. N : chosen[i].id = at(i).memory
    BY <1>3 DEF chosen
  <2>4. QED
    BY <1>2, <1>4, <2>2, <2>3
<1>8. QED
  BY <1>6, <1>7

LEMMA RedecidedFields ==
  ASSUME ReplayAssumption, NEW s, Parsed(s), RecordsOK(s), NEW q, NEW match, Scored(match),
         NEW t, t = Redecided(s, q, match)
  PROVE  /\ Parsed(t) /\ RecordsOK(t)
         /\ t.timeline = s.timeline /\ t.summaries = s.summaries /\ t.evidence = s.evidence
         /\ t.records = s.records /\ t.revisions = s.revisions /\ t.queries = s.queries
         /\ t.decisions = {d \in s.decisions : d.query # q.id} \cup Retrieved(s, q, match)
<1>1. IsFiniteSet(Retrieved(s, q, match))
  BY RetrievedSound
<1> DEFINE old == {d \in s.decisions : d.query # q.id}
           new == Retrieved(s, q, match)
<1>2. IsFiniteSet(old \cup new)
  BY <1>1, FS_Union, FS_Subset DEF Parsed
<1>3. t = [s EXCEPT !.decisions = old \cup new]
  BY DEF Redecided
<1> HIDE DEF old, new
<1>4. /\ DOMAIN t = DOMAIN s
      /\ t.timeline = s.timeline /\ t.summaries = s.summaries /\ t.evidence = s.evidence
      /\ t.records = s.records /\ t.revisions = s.revisions /\ t.queries = s.queries
      /\ t.decisions = old \cup new
  BY <1>3 DEF Parsed
<1>5. Parsed(t)
  BY <1>2, <1>4 DEF Parsed
<1>6. RecordsOK(t)
  BY <1>4 DEF RecordsOK, MemoryIds
<1>7. QED
  BY <1>4, <1>5, <1>6 DEF old, new

LEMMA RedecidedSelections ==
  ASSUME ReplayAssumption, NEW s, Parsed(s), RecordsOK(s), NEW q, NEW match, Scored(match),
         NEW t, t = Redecided(s, q, match)
  PROVE  /\ Selected(t, q) = {d \in Retrieved(s, q, match) : d.decision = "selected"}
         /\ {d.position : d \in Selected(t, q)} = 1 .. Cardinality(Selected(t, q))
         /\ \A d \in Selected(t, q) : /\ d.memory \in MemoryIds(t)
                                      /\ \E r \in Ranking(s, q, match) : r.id = d.memory
<1> DEFINE D == Retrieved(s, q, match)
           E == {d \in D : d.decision = "selected"}
<1>1. /\ \A d \in D : d.query = q.id /\ d.memory \in MemoryIds(s)
      /\ {d.position : d \in E} = 1 .. Cardinality(E)
      /\ \A d \in E : \E r \in Ranking(s, q, match) : r.id = d.memory
  <2> HIDE DEF D
  <2>1. D = Retrieved(s, q, match)
    BY DEF D
  <2>2. E = {d \in D : d.decision = "selected"}
    OBVIOUS
  <2> HIDE DEF E
  <2>3. QED
    BY <2>1, <2>2, RetrievedSound
<1>2. t.decisions = {d \in s.decisions : d.query # q.id} \cup D /\ MemoryIds(t) = MemoryIds(s)
  BY RedecidedFields DEF MemoryIds
<1> HIDE DEF D
<1>3. Selected(t, q) = E
  BY <1>1, <1>2 DEF Selected
<1>4. QED
  BY <1>1, <1>2, <1>3 DEF D

\* A scenario with one query decided again keeps its contract, unless a memory
\* was selected that the query forbids.
LEMMA RedecidedValid ==
  ASSUME ReplayAssumption, NEW s, Parsed(s), ValidScenario(s), NEW q \in ToSet(s.queries),
         NEW match, Scored(match), NEW t, t = Redecided(s, q, match)
  PROVE  ValidScenario(t) <=>
           \A d \in Retrieved(s, q, match) :
             ~(d.decision = "selected" /\ d.memory \in q.forbidden)
<1> DEFINE D == Retrieved(s, q, match)
<1>1. RecordsOK(s) /\ QueriesOK(s) /\ DecisionsOK(s)
  BY DEF ValidScenario
<1>2. /\ RecordsOK(t)
      /\ t.timeline = s.timeline /\ t.summaries = s.summaries /\ t.evidence = s.evidence
      /\ t.records = s.records /\ t.revisions = s.revisions /\ t.queries = s.queries
      /\ t.decisions = {d \in s.decisions : d.query # q.id} \cup D
  BY <1>1, RedecidedFields
<1>3. TimelineOK(t.timeline) /\ EvidenceOK(t) /\ QueriesOK(t)
  BY <1>2 DEF ValidScenario, EvidenceOK, EvidenceKnown, QueriesOK, LastSequence, MemoryIds
<1>4. \A p \in ToSet(s.queries) : p.id = q.id => p = q
  BY <1>1 DEF QueriesOK, ToSet
<1>5. /\ Selected(t, q) = {d \in D : d.decision = "selected"}
      /\ {d.position : d \in Selected(t, q)} = 1 .. Cardinality(Selected(t, q))
  BY <1>1, RedecidedSelections
<1>6. /\ \A d \in D : d.query = q.id /\ d.memory \in MemoryIds(s) /\ DecisionOK(d)
      /\ \A c, d \in D : c.memory = d.memory => c = d
  BY <1>1, RetrievedSound
<1> HIDE DEF D
<1>7. /\ \A d \in t.decisions : /\ DecisionOK(d)
                                /\ d.memory \in MemoryIds(t)
                                /\ \E p \in ToSet(t.queries) : p.id = d.query
      /\ \A c, d \in t.decisions : c.query = d.query /\ c.memory = d.memory => c = d
  BY <1>1, <1>2, <1>6 DEF DecisionsOK, MemoryIds
<1>8. \A p \in ToSet(s.queries) : p # q => Selected(t, p) = Selected(s, p)
  BY <1>2, <1>4, <1>6 DEF Selected
<1>9. \A p \in ToSet(t.queries) :
        {d.position : d \in Selected(t, p)} = 1 .. Cardinality(Selected(t, p))
  BY <1>1, <1>2, <1>5, <1>8 DEF DecisionsOK
<1>10. (\A p \in ToSet(t.queries) : \A d \in Selected(t, p) : d.memory \notin p.forbidden)
         <=> \A d \in D : ~(d.decision = "selected" /\ d.memory \in q.forbidden)
  BY <1>1, <1>2, <1>5, <1>8 DEF DecisionsOK
<1>11. DecisionsOK(t) <=> \A d \in D : ~(d.decision = "selected" /\ d.memory \in q.forbidden)
  <2>1. DecisionsOK(t) <=>
          \A p \in ToSet(t.queries) : \A d \in Selected(t, p) : d.memory \notin p.forbidden
    BY <1>7, <1>9 DEF DecisionsOK
  <2>2. QED
    BY <1>10, <2>1
<1>12. QED
  BY <1>2, <1>3, <1>11 DEF ValidScenario, D

\* Live retrieval selects only what structured memory can show.
LEMMA LiveShows ==
  ASSUME ReplayAssumption, NEW s, Parsed(s), RecordsOK(s), NEW q, NEW match, Scored(match),
         NEW budget \in Nat, NEW C, C = StructuredMemory(Redecided(s, q, match), q, budget)
  PROVE  /\ C # Failed /\ C.status = "assembled" /\ C.tokens \in Nat /\ C.tokens <= budget
         /\ \A id \in ToSet(C.ids) : \E r \in Ranking(s, q, match) : r.id = id
<1> DEFINE t == Redecided(s, q, match)
<1>1. Parsed(t) /\ RecordsOK(t) /\ t.records = s.records
  BY RedecidedFields
<1>2. /\ {d.position : d \in Selected(t, q)} = 1 .. Cardinality(Selected(t, q))
      /\ \A d \in Selected(t, q) : /\ d.memory \in MemoryIds(t)
                                   /\ \E r \in Ranking(s, q, match) : r.id = d.memory
  BY RedecidedSelections
<1>3. ASSUME NEW d \in Selected(t, q), NEW m \in Latest(s.records), d.memory = m.id
      PROVE  m.status = "active" /\ ScopeReason(m.scope, q.scope) = None
  <2>1. PICK r \in Ranking(s, q, match) : r.id = d.memory
    BY <1>2
  <2>2. r \in Eligible(Latest(s.records), q.scope, q.at)
    BY DEF Ranking, Candidates, Rankable
  <2>3. r \in Latest(s.records) /\ ActiveAt(r, q.at) /\ ScopeReason(r.scope, q.scope) = None
    BY <2>2 DEF Eligible
  <2>4. m = r
    BY <1>3, <2>1, <2>3, LatestUnique
  <2>5. QED
    BY <2>3, <2>4 DEF ActiveAt
<1> HIDE DEF t
<1>4. C = StructuredMemory(t, q, budget)
  BY DEF t
<1>5. \/ /\ C = Failed
         /\ \E d \in Selected(t, q), m \in Latest(t.records) :
              /\ d.memory = m.id
              /\ m.status # "active" \/ ScopeReason(m.scope, q.scope) # None
      \/ /\ C # Failed /\ C.status = "assembled"
         /\ C.tokens \in Nat /\ C.tokens <= budget
         /\ \A id \in ToSet(C.ids) : \E d \in Selected(t, q) : d.memory = id
  BY <1>1, <1>2, <1>4, StructuredMemoryGives
<1>6. QED
  BY <1>1, <1>2, <1>3, <1>5

---------------------------------------------------------------------------
(* The two ways to replay a query live. *)

LEMMA SameContexts ==
  ASSUME NEW s, NEW q, NEW match, NEW budget, NEW t, t = Redecided(s, q, match),
         t.timeline = s.timeline, t.summaries = s.summaries, Loads(s), NEW c \in Conditions
  PROVE  Replayed(t, q, c, match, budget, TRUE) = Replayed(s, q, c, match, budget, FALSE)
<1>1. CASE c = "B0"
  BY <1>1 DEF Replayed
<1>2. CASE c = "B1"
  BY <1>2 DEF Replayed
<1>3. CASE c = "B2"
  BY <1>3 DEF Replayed
<1>4. CASE c = "B3"
  BY <1>4 DEF Replayed
<1>5. QED
  BY <1>1, <1>2, <1>3, <1>4 DEF Conditions

\* what the runner's contexts for a query make the other entry point return
Expected(s, q, match, budget) ==
  LET alone == [c \in Conditions |-> Replayed(s, q, c, match, budget, FALSE)]
      forbidden == {d \in Retrieved(s, q, match) :
                      d.decision = "selected" /\ d.memory \in q.forbidden}
  IN  IF forbidden # {} \/ \E c \in Conditions : alone[c] = Failed
      THEN Failed ELSE alone

\* Validating the document with the retriever's decisions refuses just the
\* forbidden memories, and its replay gives the runner's contexts.
LEMMA LiveAgrees ==
  ASSUME ReplayAssumption, NEW s, Parsed(s), ValidScenario(s), NEW q \in ToSet(s.queries),
         NEW match, Scored(match), NEW budget
  PROVE  LiveContexts(s, q, match, budget) = Expected(s, q, match, budget)
<1> DEFINE alone == [c \in Conditions |-> Replayed(s, q, c, match, budget, FALSE)]
           forbidden == {d \in Retrieved(s, q, match) :
                           d.decision = "selected" /\ d.memory \in q.forbidden}
           t == Redecided(s, q, match)
           all == [c \in Conditions |-> Replayed(t, q, c, match, budget, TRUE)]
<1>1. t.timeline = s.timeline /\ t.summaries = s.summaries
  BY RedecidedFields DEF ValidScenario
<1>2. ValidScenario(t) <=> forbidden = {}
  BY RedecidedValid
<1>6. Expected(s, q, match, budget) =
        IF forbidden # {} \/ \E c \in Conditions : alone[c] = Failed THEN Failed ELSE alone
  BY DEF Expected
<1> HIDE DEF forbidden
<1>3. CASE ~Loads(s)
  <2>1. LiveContexts(s, q, match, budget) = Failed
    BY <1>3 DEF LiveContexts
  <2>2. alone["B3"] = Failed /\ "B3" \in Conditions
    BY <1>3 DEF Replayed, Conditions
  <2>3. QED
    BY <1>6, <2>1, <2>2
<1>4. CASE Loads(s)
  <2>1. \A c \in Conditions :
          Replayed(t, q, c, match, budget, TRUE) = Replayed(s, q, c, match, budget, FALSE)
    BY <1>1, <1>4, SameContexts
  <2>2. all = alone
    BY <2>1
  <2>3. AllReplayed(t, q, match, budget) =
          IF \E c \in Conditions : all[c] = Failed THEN Failed ELSE all
    BY DEF AllReplayed
  <2> HIDE DEF t, all, alone
  <2>4. LiveContexts(s, q, match, budget) =
          IF ValidScenario(t) THEN AllReplayed(t, q, match, budget) ELSE Failed
    BY <1>4 DEF LiveContexts, t
  <2>5. QED
    BY <1>2, <1>6, <2>2, <2>3, <2>4
<1>5. QED
  BY <1>3, <1>4

---------------------------------------------------------------------------
(* What each condition assembles for a query of a valid scenario. *)

LEMMA WithinBudget ==
  ASSUME NEW C, NEW budget \in Nat, NEW W, W = Within(C, budget),
         C.status = "assembled", C.tokens \in Int
  PROVE  /\ C.tokens > budget => W = Failed
         /\ C.tokens <= budget => W = C
<1>1. C.tokens <= budget => ~(C.tokens > budget)
  OBVIOUS
<1>2. QED
  BY <1>1 DEF Within

LEMMA FailedWithin ==
  ASSUME NEW budget
  PROVE  Within(Failed, budget) = Failed
BY DEF Within

LEMMA NoMemory ==
  ASSUME ReplayAssumption, NEW s, NEW q, NEW match, NEW budget \in Nat, NEW frozen,
         NEW C, C = Replayed(s, q, "B0", match, budget, frozen)
  PROVE  C # Failed /\ C.tokens <= budget
<1>1. C = Context(<<>>, <<>>)
  BY DEF Replayed
<1>2. QED
  BY <1>1, ContextFields, FewBlocks

\* a context is the end of a history, and with one message more over the budget
EndOf(history, C, budget) ==
  LET n == Len(history) - Len(C.ids)
  IN  /\ \A i \in DOMAIN C.ids : C.ids[i] = history[n + i].event
      /\ n > 0 => C.tokens + history[n].size
                    + (IF C.ids = <<>> THEN Header ELSE 0) > budget

LEMMA RecentHistoryFits ==
  ASSUME ReplayAssumption, NEW s, Parsed(s), NEW q, NEW match, NEW budget \in Nat, NEW frozen,
         NEW C, C = Replayed(s, q, "B1", match, budget, frozen)
  PROVE  /\ C # Failed /\ C.tokens <= budget
         /\ EndOf(History(s.timeline, q), C, budget)
<1> DEFINE history == History(s.timeline, q)
           n == Len(history) - Len(C.ids)
           Event == [event : Int, sequence : Int, kind : STRING, size : Nat]
           kept == Newest(history, budget)
           ids == [i \in DOMAIN kept |-> kept[i].event]
           k == Len(history) - Len(kept)
<1>1. history \in Seq(Event)
  BY HistorySequence DEF Parsed
<1>10. \A e \in Event : e.size \in Nat /\ e.event \in Int
  OBVIOUS
<1> HIDE DEF Event
<1>2. Blocks(history)
  BY <1>1, <1>10, TokensNat
<1>3. /\ kept \in Seq(Event)
      /\ k \in 0 .. Len(history)
      /\ Tokens(kept) <= budget
      /\ \A i \in 1 .. Len(kept) : kept[i] = history[k + i]
      /\ k > 0 => Tokens(kept) + history[k].size
                    + (IF kept = <<>> THEN Header ELSE 0) > budget
  <2> DEFINE K == kept
  <2>1. K = Newest(history, budget) /\ k = Len(history) - Len(K)
    OBVIOUS
  <2> HIDE DEF kept, k, K
  <2>2. K = kept
    BY DEF K
  <2>3. kept = Newest(history, budget) /\ k = Len(history) - Len(kept)
    BY <2>1, <2>2
  <2>4. QED
    BY <1>1, <1>2, <2>3, NewestFits
<1>4. C = Within(Context(kept, ids), budget)
  <2>1. C = Within(RecentHistory(s.timeline, q, budget), budget)
    BY DEF Replayed
  <2>2. QED
    BY <2>1 DEF RecentHistory
<1> HIDE DEF kept
<1>5. ids \in Seq(Int) /\ Len(ids) = Len(kept) /\ DOMAIN ids = 1 .. Len(kept)
      /\ \A i \in 1 .. Len(kept) : ids[i] = kept[i].event
  <2>1. \A i \in 1 .. Len(kept) : kept[i].event \in Int
    <3>1. \A i \in 1 .. Len(kept) : kept[i] \in Event
      BY <1>3
    <3>2. QED
      BY <1>10, <3>1
  <2>2. DOMAIN kept = 1 .. Len(kept) /\ Len(kept) \in Nat
    BY <1>3
  <2>3. QED
    BY <2>1, <2>2
<1> HIDE DEF ids
<1>6. C = Context(kept, ids)
  <2> DEFINE R == Context(kept, ids)
  <2>1. Tokens(kept) \in Int
    BY <1>3, <1>10, TokensNat
  <2>2. R.status = "assembled" /\ R.tokens = Tokens(kept)
    BY ContextFields
  <2> HIDE DEF R
  <2>3. QED
    BY <1>3, <1>4, <2>1, <2>2, WithinBudget DEF R
<1>7. C # Failed /\ C.tokens = Tokens(kept) /\ C.ids = ids
  BY <1>6, ContextFields
<1> HIDE DEF history
<1>8. n = k /\ (C.ids = <<>> <=> kept = <<>>)
  <2>1. kept = <<>> <=> Len(kept) = 0
    BY <1>3
  <2>2. ids = <<>> <=> Len(ids) = 0
    BY <1>5
  <2>3. QED
    BY <1>5, <1>7, <2>1, <2>2
<1> HIDE DEF k, n
<1>9. \A i \in DOMAIN C.ids : C.ids[i] = history[n + i].event
  <2>1. \A i \in 1 .. Len(kept) : ids[i] = kept[i].event /\ kept[i] = history[k + i]
    BY <1>3, <1>5
  <2>2. \A i \in 1 .. Len(kept) : ids[i] = history[k + i].event
    BY <2>1
  <2>3. DOMAIN C.ids = 1 .. Len(kept) /\ C.ids = ids /\ n = k
    BY <1>5, <1>7, <1>8
  <2>4. QED
    BY <2>2, <2>3
<1>11. C # Failed /\ C.tokens <= budget
  BY <1>3, <1>7
<1>12. n > 0 => C.tokens + history[n].size
                  + (IF C.ids = <<>> THEN Header ELSE 0) > budget
  <2>1. CASE kept = <<>>
    BY <1>3, <1>7, <1>8, <2>1
  <2>2. CASE kept # <<>>
    BY <1>3, <1>7, <1>8, <2>2
  <2>3. QED
    BY <2>1, <2>2
<1>13. EndOf(history, C, budget)
  BY <1>9, <1>12 DEF EndOf, n
<1>14. QED
  BY <1>11, <1>13 DEF history

LEMMA SummaryFails ==
  ASSUME ReplayAssumption, NEW s, Parsed(s), NEW q, NEW match, NEW budget \in Nat, NEW frozen,
         NEW C, C = Replayed(s, q, "B2", match, budget, frozen),
         NEW due, due = {x \in ToSet(s.summaries) : x.through <= q.after}
  PROVE  /\ C # Failed => C.tokens <= budget
         /\ C = Failed => \E x \in due : /\ \A o \in due : o.through <= x.through
                                         /\ Header + x.size > budget
<1> DEFINE S == s.summaries
           dueAt == {i \in DOMAIN S : S[i].through <= q.after}
           newest == {i \in dueAt : \A j \in dueAt : S[j].through <= S[i].through}
           shown == S[Min(newest)]
           R == RollingSummary(S, q)
           L == Len(S)
<1>1. C = Within(R, budget)
  BY DEF Replayed
<1>2. /\ L \in Nat /\ DOMAIN S = 1 .. L
      /\ \A i \in 1 .. L : S[i].through \in Int /\ S[i].size \in Nat
  <2> DEFINE Summary == [id : Int, through : Int, size : Nat]
  <2>1. S \in Seq(Summary)
    BY DEF Parsed
  <2>2. \A x \in Summary : x.through \in Int /\ x.size \in Nat
    OBVIOUS
  <2> HIDE DEF Summary, S
  <2>3. L \in Nat /\ DOMAIN S = 1 .. L /\ \A i \in 1 .. L : S[i] \in Summary
    BY <2>1
  <2>4. QED
    BY <2>2, <2>3
<1>3. due = {S[i] : i \in dueAt}
  BY DEF ToSet
<1>4. R = IF dueAt = {} THEN Context(<<>>, <<>>) ELSE Context(<<shown>>, <<shown.id>>)
  BY DEF RollingSummary
<1> HIDE DEF S, L, R
<1>5. CASE dueAt = {}
  <2>1. R.status = "assembled" /\ R.tokens = 0 /\ R # Failed
    BY <1>4, <1>5, ContextFields, FewBlocks
  <2>2. C = R
    BY <1>1, <2>1, WithinBudget
  <2>3. QED
    BY <2>1, <2>2
<1>6. CASE dueAt # {}
  <2>1. newest # {}
    <3> DEFINE f == [i \in dueAt |-> S[i].through]
    <3>1. f \in [dueAt -> Int]
      BY <1>2
    <3>2. IsFiniteSet(dueAt)
      <4>1. IsFiniteSet(1 .. L)
        BY <1>2, FS_Interval
      <4>2. dueAt \subseteq 1 .. L
        BY <1>2
      <4> HIDE DEF dueAt
      <4>3. QED
        BY <4>1, <4>2, FS_Subset
    <3>3. \E i \in dueAt : \A j \in dueAt : f[j] <= f[i]
      <4> HIDE DEF f, dueAt
      <4>1. QED
        BY <1>6, <3>1, <3>2, Highest
    <3>4. QED
      BY <3>3
  <2>2. Min(newest) \in newest
    <3>1. newest \in SUBSET Nat
      BY <1>2
    <3> HIDE DEF newest
    <3>2. \E i \in newest : \A j \in newest : i <= j
      BY <2>1, <3>1, Least
    <3>3. QED
      BY <3>2 DEF Min
  <2>3. /\ shown \in due /\ \A o \in due : o.through <= shown.through
        /\ shown.size \in Nat
    BY <1>2, <1>3, <2>2
  <2>4. R = Context(<<shown>>, <<shown.id>>)
    BY <1>4, <1>6
  <2> HIDE DEF shown
  <2>5. /\ R # Failed /\ R.status = "assembled" /\ R.tokens = Header + shown.size
        /\ Header + shown.size \in Int
    BY <2>3, <2>4, ContextFields, FewBlocks DEF ReplayAssumption
  <2>6. CASE Header + shown.size > budget
    BY <1>1, <2>3, <2>5, <2>6, WithinBudget
  <2>7. CASE Header + shown.size <= budget
    <3>1. C = R
      BY <1>1, <2>5, <2>7, WithinBudget
    <3>2. QED
      BY <2>5, <2>7, <3>1
  <2>8. QED
    BY <2>5, <2>6, <2>7
<1>7. QED
  BY <1>5, <1>6

\* Recorded selections fail to assemble only where one of them is no longer
\* active or is out of scope.
LEMMA RecordedMemory ==
  ASSUME ReplayAssumption, NEW s, Parsed(s), ValidScenario(s), NEW q \in ToSet(s.queries),
         NEW budget \in Nat, NEW C, C = Within(StructuredMemory(s, q, budget), budget)
  PROVE  \/ /\ C = Failed
            /\ \E d \in Selected(s, q), m \in Latest(s.records) :
                 /\ d.memory = m.id
                 /\ m.status # "active" \/ ScopeReason(m.scope, q.scope) # None
         \/ C # Failed /\ C.tokens <= budget
<1> DEFINE M == StructuredMemory(s, q, budget)
<1>1. RecordsOK(s) /\ DecisionsOK(s)
  BY DEF ValidScenario
<1>2. /\ {d.position : d \in Selected(s, q)} = 1 .. Cardinality(Selected(s, q))
      /\ \A d \in Selected(s, q) : d.memory \in MemoryIds(s)
  BY <1>1 DEF DecisionsOK, Selected
<1>3. C = Within(M, budget)
  OBVIOUS
<1>4. \/ /\ M = Failed
         /\ \E d \in Selected(s, q), m \in Latest(s.records) :
              /\ d.memory = m.id
              /\ m.status # "active" \/ ScopeReason(m.scope, q.scope) # None
      \/ /\ M # Failed /\ M.status = "assembled"
         /\ M.tokens \in Nat /\ M.tokens <= budget
  BY <1>1, <1>2, StructuredMemoryGives
<1> HIDE DEF M
<1>5. CASE M = Failed
  BY <1>3, <1>4, <1>5, FailedWithin
<1>6. CASE M # Failed
  <2>1. M.status = "assembled" /\ M.tokens \in Int /\ M.tokens <= budget
    BY <1>4, <1>6
  <2>2. C = M
    BY <1>3, <2>1, WithinBudget
  <2>3. QED
    BY <1>6, <2>1, <2>2
<1>7. QED
  BY <1>5, <1>6

\* Live retrieval fails to assemble only where the scenario cannot be loaded,
\* for a lineage with two active versions; and it shows only what was ranked.
LEMMA LiveMemory ==
  ASSUME ReplayAssumption, NEW s, Parsed(s), ValidScenario(s), NEW q,
         NEW match, Scored(match), NEW budget \in Nat, NEW C,
         C = IF Loads(s)
             THEN Within(StructuredMemory(Redecided(s, q, match), q, budget), budget)
             ELSE Failed
  PROVE  \/ /\ C = Failed
            /\ \E a, b \in s.records :
                 a # b /\ a.id = b.id /\ a.status = "active" /\ b.status = "active"
         \/ /\ C # Failed /\ C.tokens <= budget
            /\ \A id \in ToSet(C.ids) : \E r \in Ranking(s, q, match) : r.id = id
<1> DEFINE M == StructuredMemory(Redecided(s, q, match), q, budget)
<1>1. RecordsOK(s) /\ EvidenceOK(s)
  BY DEF ValidScenario
<1>2. C = IF Loads(s) THEN Within(M, budget) ELSE Failed
  OBVIOUS
<1>3. CASE Loads(s)
  <2>1. /\ M # Failed /\ M.status = "assembled" /\ M.tokens \in Nat /\ M.tokens <= budget
        /\ \A id \in ToSet(M.ids) : \E r \in Ranking(s, q, match) : r.id = id
    BY <1>1, LiveShows
  <2> HIDE DEF M
  <2>2. C = Within(M, budget)
    BY <1>2, <1>3
  <2>4. C = M
    BY <2>1, <2>2, WithinBudget
  <2>3. QED
    BY <2>1, <2>4
<1>4. CASE ~Loads(s)
  <2>1. \A r \in s.records : r.evidence \subseteq DOMAIN s.evidence
    BY <1>1 DEF EvidenceOK, EvidenceKnown
  <2>2. \A r, o \in s.records : r.evidence \cap o.evidence # {} => r.id = o.id
    BY <1>1 DEF EvidenceOK
  <2>3. QED
    BY <1>2, <1>4, <2>1, <2>2 DEF Loads
<1>5. QED
  BY <1>3, <1>4

\* A context of a valid scenario is within the budget, and fails to assemble
\* only for the reasons of its condition.
LEMMA Assembles ==
  ASSUME ReplayAssumption, NEW s, Parsed(s), ValidScenario(s), NEW q \in ToSet(s.queries),
         NEW match, Scored(match), NEW budget \in Nat, NEW frozen, NEW c \in Conditions,
         NEW C, C = Replayed(s, q, c, match, budget, frozen),
         NEW due, due = {x \in ToSet(s.summaries) : x.through <= q.after}
  PROVE  /\ C # Failed => C.tokens <= budget
         /\ C = Failed =>
              \/ /\ c = "B2"
                 /\ \E x \in due : /\ \A o \in due : o.through <= x.through
                                   /\ Header + x.size > budget
              \/ /\ c = "B3" /\ ~frozen
                 /\ \E a, b \in s.records :
                      a # b /\ a.id = b.id /\ a.status = "active" /\ b.status = "active"
              \/ /\ c = "B3" /\ frozen
                 /\ \E d \in Selected(s, q), m \in Latest(s.records) :
                      /\ d.memory = m.id
                      /\ m.status # "active" \/ ScopeReason(m.scope, q.scope) # None
<1>1. CASE c = "B0"
  BY <1>1, NoMemory
<1>2. CASE c = "B1"
  <2>1. C = Replayed(s, q, "B1", match, budget, frozen)
    BY <1>2
  <2>2. C # Failed /\ C.tokens <= budget
    BY <2>1, RecentHistoryFits
  <2>3. QED
    BY <2>2
<1>3. CASE c = "B2"
  <2>1. C = Replayed(s, q, "B2", match, budget, frozen)
    BY <1>3
  <2>2. QED
    BY <1>3, <2>1, SummaryFails
<1>4. CASE c = "B3" /\ frozen
  <2>1. C = Within(StructuredMemory(s, q, budget), budget)
    BY <1>4 DEF Replayed
  <2>2. QED
    <3>1. \/ /\ C = Failed
             /\ \E d \in Selected(s, q), m \in Latest(s.records) :
                  /\ d.memory = m.id
                  /\ m.status # "active" \/ ScopeReason(m.scope, q.scope) # None
          \/ C # Failed /\ C.tokens <= budget
      BY <2>1, RecordedMemory
    <3>2. QED
      BY <1>4, <3>1
<1>5. CASE c = "B3" /\ ~frozen
  <2>1. C = IF Loads(s)
            THEN Within(StructuredMemory(Redecided(s, q, match), q, budget), budget)
            ELSE Failed
    BY <1>5 DEF Replayed
  <2>2. \/ /\ C = Failed
           /\ \E a, b \in s.records :
                a # b /\ a.id = b.id /\ a.status = "active" /\ b.status = "active"
        \/ C # Failed /\ C.tokens <= budget
    BY <2>1, LiveMemory
  <2>3. QED
    BY <1>5, <2>2
<1>6. QED
  BY <1>1, <1>2, <1>3, <1>4, <1>5 DEF Conditions

---------------------------------------------------------------------------
(* The number of a result and its query, repeat and place. *)

QueryAt(i, R) == 1 + ((i - 1) \div (4 * R))

RepeatAt(i, R) == 1 + (((i - 1) \div 4) % R)

PlaceAt(i) == 1 + ((i - 1) % 4)

Number(R, a, repeat, p) == (4 * R) * (a - 1) + 4 * (repeat - 1) + p

Numbered(i, Q, R) ==
  /\ QueryAt(i, R) \in 1 .. Q /\ RepeatAt(i, R) \in 1 .. R /\ PlaceAt(i) \in 1 .. 4
  /\ i = Number(R, QueryAt(i, R), RepeatAt(i, R), PlaceAt(i))

LEMMA Scaled ==
  ASSUME NEW d \in Nat \ {0}, NEW k \in Int, NEW l \in Int, d * k < d * (l + 1)
  PROVE  k <= l
<1> SUFFICES ASSUME l + 1 <= k PROVE FALSE
  OBVIOUS
<1>1. d * (l + 1) <= d * k
  BY Z3
<1>2. d * k \in Int /\ d * (l + 1) \in Int
  OBVIOUS
<1>3. QED
  BY <1>1, <1>2

LEMMA Divided ==
  ASSUME NEW n \in Int, NEW d \in Nat \ {0}
  PROVE  /\ n \div d \in Int /\ n % d \in 0 .. d - 1
         /\ n = d * (n \div d) + (n % d)
  BY Z3

LEMMA DivUnique ==
  ASSUME NEW n \in Int, NEW d \in Nat \ {0}, NEW k \in Int, NEW r \in 0 .. d - 1,
         n = d * k + r
  PROVE  n \div d = k /\ n % d = r
<1>1. /\ n \div d \in Int /\ n % d \in 0 .. d - 1
      /\ n = d * (n \div d) + (n % d)
  BY Divided
<1> DEFINE K == n \div d
           r2 == n % d
<1> HIDE DEF K, r2
<1>2. K \in Int /\ r2 \in 0 .. d - 1 /\ n = d * K + r2
  BY <1>1 DEF K, r2
<1>3. K <= k
  <2>1. d * K < d * (k + 1)
    <3>1. d * (k + 1) = d * k + d
      BY Z3
    <3> DEFINE x == d * k
               y == d * K
               z == d * (k + 1)
    <3>2. x \in Int /\ y \in Int /\ z \in Int /\ n = x + r /\ n = y + r2 /\ z = x + d
      BY <1>2, <3>1
    <3> HIDE DEF x, y, z
    <3>3. y < z
      BY <1>2, <3>2
    <3>4. QED
      BY <3>3 DEF y, z
  <2>2. QED
    BY <1>2, <2>1, Scaled
<1>4. k <= K
  <2>1. d * k < d * (K + 1)
    <3>1. d * (K + 1) = d * K + d
      BY <1>2, Z3
    <3> DEFINE x == d * k
               y == d * K
               z == d * (K + 1)
    <3>2. x \in Int /\ y \in Int /\ z \in Int /\ n = x + r /\ n = y + r2 /\ z = y + d
      BY <1>2, <3>1
    <3> HIDE DEF x, y, z
    <3>3. x < z
      BY <1>2, <3>2
    <3>4. QED
      BY <3>3 DEF x, z
  <2>2. QED
    BY <1>2, <2>1, Scaled
<1>5. K = k
  BY <1>2, <1>3, <1>4
<1>6. r2 = r
  <2> DEFINE x == d * k
  <2>1. x \in Int /\ n = x + r /\ n = x + r2
    BY <1>2, <1>5
  <2> HIDE DEF x
  <2>2. QED
    BY <1>2, <2>1
<1>7. QED
  BY <1>5, <1>6 DEF K, r2

\* The results are numbered by query, then by repeat, then by place in its order.
LEMMA NumberOf ==
  ASSUME NEW Q \in Nat, NEW R \in Nat \ {0},
         NEW a \in 1 .. Q, NEW repeat \in 1 .. R, NEW p \in 1 .. 4,
         NEW i, i = Number(R, a, repeat, p)
  PROVE  /\ i \in 1 .. Q * R * 4
         /\ QueryAt(i, R) = a /\ RepeatAt(i, R) = repeat /\ PlaceAt(i) = p
<1> DEFINE d == 4 * R
           w == a - 1
           z == repeat - 1
           v == p - 1
           u == R * w + z
<1>1. /\ d \in Nat \ {0} /\ w \in Nat /\ z \in 0 .. R - 1 /\ v \in 0 .. 3
      /\ 4 * z + v \in 0 .. d - 1 /\ u \in Int
  BY Z3
<1>2. i - 1 = d * w + (4 * z + v) /\ i - 1 \in Int /\ i \in Int
  <2>1. i = (4 * R) * (a - 1) + 4 * (repeat - 1) + p
    BY DEF Number
  <2>2. QED
    BY <2>1, Z3
<1>3. i - 1 = 4 * u + v
  <2>1. d * w = 4 * (R * w)
    BY Z3
  <2> DEFINE x == R * w
  <2>2. x \in Int
    BY Z3
  <2> HIDE DEF x
  <2>3. i - 1 = 4 * x + (4 * z + v) /\ u = x + z
    BY <1>2, <2>1 DEF x
  <2> HIDE DEF u, z, v
  <2>4. QED
    BY <1>1, <2>2, <2>3
<1>4. u = R * w + z
  OBVIOUS
<1>5. i \in 1 .. Q * R * 4
  <2>1. i >= 1
    <3>1. d * w >= 0 /\ d * w \in Int
      BY Z3
    <3> HIDE DEF d, w
    <3>2. QED
      BY <1>1, <1>2, <3>1
  <2>2. i <= d * a
    <3>1. d * a = d * w + d /\ d * w \in Int
      BY Z3
    <3> HIDE DEF w, z, v
    <3>2. QED
      BY <1>1, <1>2, <3>1
  <2>3. d * a <= d * Q /\ d * a \in Int /\ d * Q \in Int /\ d * Q = Q * R * 4
    BY Z3
  <2> HIDE DEF d
  <2>4. QED
    BY <1>2, <2>1, <2>2, <2>3
<1> HIDE DEF d, w, z, v, u
<1>6. (i - 1) \div d = w
  BY <1>1, <1>2, DivUnique
<1>7. (i - 1) \div 4 = u /\ (i - 1) % 4 = v
  BY <1>1, <1>2, <1>3, DivUnique
<1>8. u % R = z
  BY <1>1, <1>4, DivUnique
<1>9. QED
  BY <1>5, <1>6, <1>7, <1>8 DEF d, w, z, v, QueryAt, RepeatAt, PlaceAt

LEMMA NumberIs ==
  ASSUME NEW Q \in Nat, NEW R \in Nat \ {0}, NEW N, N = Q * R * 4, NEW i \in 1 .. N
  PROVE  Numbered(i, Q, R)
<1> DEFINE a == QueryAt(i, R)
           repeat == RepeatAt(i, R)
           p == PlaceAt(i)
           n == i - 1
           u == n \div 4
           v == n % 4
           w == u \div R
           z == u % R
           d == 4 * R
<1>0. n \in Nat /\ d \in Nat \ {0}
  BY Z3
<1> HIDE DEF n
<1>1. u \in Int /\ v \in 0 .. 3 /\ n = 4 * u + v
  BY <1>0
<1> HIDE DEF u, v
<1>2. w \in Int /\ z \in 0 .. R - 1 /\ u = R * w + z
  BY <1>1, Divided
<1> HIDE DEF w, z
<1>3. n = d * w + (4 * z + v) /\ 4 * z + v \in 0 .. d - 1
  <2>1. d * w = 4 * (R * w)
    BY <1>2, Z3
  <2> DEFINE x == R * w
  <2>2. x \in Int /\ u = x + z
    BY <1>2, Z3
  <2>3. d * w = 4 * x
    BY <2>1
  <2>4. 4 * z + v \in 0 .. d - 1
    BY <1>1, <1>2
  <2> HIDE DEF x, d
  <2>5. n = d * w + (4 * z + v)
    BY <1>1, <1>2, <2>2, <2>3
  <2>6. QED
    BY <2>4, <2>5
<1>4. n \div d = w
  <2> HIDE DEF d
  <2> DEFINE r == 4 * z + v
  <2>1. r \in 0 .. d - 1 /\ n = d * w + r
    BY <1>3
  <2> HIDE DEF r
  <2>2. QED
    BY <1>0, <1>2, <2>1, DivUnique
<1>5. 0 <= w
  <2>2. d * 0 < d * (w + 1)
    <3>1. d * (w + 1) = d * w + d /\ d * w \in Int /\ d * 0 = 0
      BY <1>2, Z3
    <3> DEFINE x == d * w
    <3>2. x \in Int /\ d * (w + 1) = x + d /\ n = x + (4 * z + v)
      BY <1>3, <3>1
    <3> HIDE DEF x, d
    <3>3. QED
      BY <1>0, <1>1, <1>2, <1>3, <3>1, <3>2
  <2> HIDE DEF d
  <2>3. QED
    BY <1>0, <1>2, <2>2, Scaled
<1>6. w <= Q - 1
  <2>1. d * Q = Q * R * 4 /\ d * Q \in Int /\ d * w \in Int
    BY <1>2, Z3
  <2>2. n < d * Q
    BY <2>1 DEF n
  <2> DEFINE x == d * w
             y == d * Q
  <2>3. x \in Int /\ y \in Int /\ n = x + (4 * z + v) /\ n < y
    BY <1>3, <2>1, <2>2
  <2> HIDE DEF x, y, d
  <2>4. x < y
    BY <1>0, <1>1, <1>2, <2>3
  <2>5. d * w < d * ((Q - 1) + 1)
    BY <2>4 DEF x, y
  <2>6. QED
    BY <1>0, <1>2, <2>5, Scaled
<1>7. a = 1 + w /\ repeat = 1 + z /\ p = 1 + v
  BY <1>4 DEF n, d, z, u, v, QueryAt, RepeatAt, PlaceAt
<1> HIDE DEF a, repeat, p
<1>8. i = d * (a - 1) + 4 * (repeat - 1) + p
  <2>1. a - 1 = w /\ repeat - 1 = z
    BY <1>2, <1>7
  <2>2. d * w \in Int
    BY <1>2, Z3
  <2> DEFINE x == d * w
  <2>3. x \in Int /\ n = x + (4 * z + v)
    BY <1>3, <2>2
  <2>4. d * (a - 1) = x
    BY <2>1
  <2> HIDE DEF x, d
  <2>5. i = x + 4 * (repeat - 1) + p
    BY <1>1, <1>2, <1>7, <2>1, <2>3 DEF n
  <2>6. QED
    BY <2>4, <2>5
<1>9. QED
  BY <1>1, <1>2, <1>5, <1>6, <1>7, <1>8 DEF a, repeat, p, Number, Numbered
---------------------------------------------------------------------------
(* What is true of every reachable state. *)

Entry(n, stage, timed) == Result(Cell(n), ContextOf(Cell(n)), stage, timed)

Stages == ModelStages \cup {"context_assembly"}

Entries == {Entry(n, stage, timed) : n \in 1 .. Planned, stage \in Stages, timed \in BOOLEAN}

ReplayInv ==
  /\ input \in Inputs
  /\ step \in {"start", "running", "done", "refused", "lost"}
  /\ step \in {"running", "done", "lost"} => Accepted
  /\ step \in {"start", "refused"} => results = <<>>
  /\ results \in Seq(Entries)
  /\ \A i \in 1 .. Len(results) :
       \E stage \in Stages, timed \in BOOLEAN : results[i] = Entry(i, stage, timed)
  /\ Len(results) <= Planned
  /\ step = "done" => Len(results) = Planned
  /\ step = "lost" => clockBack

LEMMA PlannedNat ==
  ASSUME ReplayAssumption, input \in Inputs
  PROVE  /\ Parsed(doc) /\ Planlike(plan) /\ Scored(text)
         /\ Len(doc.queries) \in Nat /\ DOMAIN doc.queries = 1 .. Len(doc.queries)
         /\ plan.repeats \in Nat \ {0} /\ plan.budget \in Nat
         /\ Planned \in Nat /\ Planned = Len(doc.queries) * plan.repeats * 4
<1>1. Parsed(doc) /\ Planlike(plan) /\ Scored(text)
  BY DEF ReplayAssumption, doc, plan, text
<1>2. Len(doc.queries) \in Nat /\ DOMAIN doc.queries = 1 .. Len(doc.queries)
  <2> DEFINE Query == [id : STRING, after : Int, at : Int, scope : Scopes,
                       forbidden : SUBSET Int]
  <2>1. doc.queries \in Seq(Query)
    BY <1>1 DEF Parsed
  <2> HIDE DEF Query
  <2>2. QED
    BY <2>1
<1>3. plan.repeats \in Nat \ {0} /\ plan.budget \in Nat
  BY <1>1 DEF Planlike
<1>4. Planned \in Nat
  <2> DEFINE Q == Len(doc.queries)
             R == plan.repeats
  <2>1. Planned = Q * R * 4 /\ Q \in Nat /\ R \in Nat
    BY <1>2, <1>3 DEF Planned
  <2> HIDE DEF Q, R
  <2>2. QED
    BY <2>1, Z3
<1>5. QED
  BY <1>1, <1>2, <1>3, <1>4 DEF Planned

LEMMA InitHolds ==
  ASSUME ReplayAssumption, Init
  PROVE  ReplayInv
<1>1. Planned \in Nat
  BY PlannedNat DEF Init
<1>2. results = <<>> /\ Len(results) = 0 /\ results \in Seq(Entries)
  BY DEF Init
<1>3. QED
  BY <1>1, <1>2 DEF Init, ReplayInv

LEMMA SameInput ==
  ASSUME input' = input
  PROVE  /\ doc' = doc /\ plan' = plan /\ text' = text /\ Planned' = Planned
         /\ Accepted' = Accepted /\ Entries' = Entries
         /\ \A n, s, t : Entry(n, s, t)' = Entry(n, s, t)
BY DEF doc, plan, text, Planned, Accepted, Entries, Entry, Cell, ContextOf

LEMMA EntryPlanned ==
  ASSUME NEW n \in 1 .. Planned, NEW stage \in Stages, NEW timed \in BOOLEAN,
         NEW r, r = Entry(n, stage, timed)
  PROVE  r \in Entries
BY DEF Entries

\* A result the program makes keeps the contract of a result.
LEMMA Appended ==
  ASSUME ReplayAssumption, ReplayInv, Due, UNCHANGED input,
         NEW r, r \in Entries,
         NEW stage \in Stages, NEW timed \in BOOLEAN, r = Entry(Len(results) + 1, stage, timed),
         ResultOK(r), Append1(r)
  PROVE  ReplayInv'
<1>1. results' = Append(results, r) /\ step' = step /\ UNCHANGED <<input, clockBack>>
  BY DEF Append1
<1>2. /\ doc' = doc /\ plan' = plan /\ text' = text /\ Planned' = Planned
      /\ Accepted' = Accepted /\ Entries' = Entries
      /\ \A n, s, t : Entry(n, s, t)' = Entry(n, s, t)
  BY <1>1, SameInput
<1>3. results \in Seq(Entries) /\ Len(results) \in Nat /\ Len(results) < Planned
  BY DEF ReplayInv, Due
<1>4. Planned \in Nat
  BY PlannedNat DEF ReplayInv
<1>5. /\ results' \in Seq(Entries) /\ Len(results') = Len(results) + 1
      /\ \A i \in 1 .. Len(results) : results'[i] = results[i]
      /\ results'[Len(results) + 1] = r
  BY <1>1, <1>3
<1>6. Len(results') <= Planned'
  BY <1>2, <1>3, <1>4, <1>5
<1>7. \A i \in 1 .. Len(results') :
        \E s \in Stages, t \in BOOLEAN : results'[i] = Entry(i, s, t)
  <2> SUFFICES ASSUME NEW i \in 1 .. Len(results')
               PROVE  \E s \in Stages, t \in BOOLEAN : results'[i] = Entry(i, s, t)
    OBVIOUS
  <2>1. CASE i = Len(results) + 1
    BY <1>5, <2>1
  <2>2. CASE i # Len(results) + 1
    <3>1. i \in 1 .. Len(results)
      BY <1>3, <1>5, <2>2
    <3>2. QED
      BY <1>5, <3>1 DEF ReplayInv
  <2>3. QED
    BY <2>1, <2>2
<1>8. step = "running"
  BY DEF Due
<1>9. QED
  BY <1>1, <1>2, <1>5, <1>6, <1>7, <1>8 DEF ReplayInv

LEMMA NextHolds ==
  ASSUME ReplayAssumption, ReplayInv, [Next]_vars
  PROVE  ReplayInv'
<1>1. /\ Planned \in Nat
      /\ Due => Len(results) + 1 \in 1 .. Planned
  <2>1. Planned \in Nat
    BY PlannedNat DEF ReplayInv
  <2>2. Len(results) \in Nat
    BY DEF ReplayInv
  <2>3. QED
    BY <2>1, <2>2 DEF Due
<1> DEFINE cell == Cell(Len(results) + 1)
<1>3. ASSUME input' = input
      PROVE  /\ doc' = doc /\ plan' = plan /\ text' = text /\ Planned' = Planned
             /\ Accepted' = Accepted /\ Entries' = Entries
             /\ \A n, s, t : Entry(n, s, t)' = Entry(n, s, t)
  BY <1>3, SameInput
<1>4. CASE Refuse
  BY <1>3, <1>4 DEF Refuse, ReplayInv
<1>5. CASE Begin
  BY <1>3, <1>5 DEF Begin, ReplayInv
<1>6. CASE AssemblyFails
  <2> DEFINE r == Result(cell, Failed, "context_assembly", FALSE)
  <2>1. Due /\ ContextOf(cell) = Failed /\ Append1(r)
    BY <1>6 DEF AssemblyFails
  <2>2. r = Entry(Len(results) + 1, "context_assembly", FALSE)
    BY <2>1 DEF Entry
  <2>3. ResultOK(r)
    <3>1. r.context = Failed /\ r.stage = "context_assembly"
      BY DEF Result
    <3> HIDE DEF r
    <3>2. QED
      BY <3>1 DEF ResultOK
  <2>4. r \in Entries /\ "context_assembly" \in Stages
    <3> HIDE DEF r
    <3>1. "context_assembly" \in Stages
      BY DEF Stages
    <3>2. QED
      BY <1>1, <2>1, <2>2, <3>1, EntryPlanned
  <2> HIDE DEF r
  <2>5. UNCHANGED input
    BY <2>1 DEF Append1
  <2>6. QED
    BY <2>1, <2>2, <2>3, <2>4, <2>5, Appended
<1>7. ASSUME NEW stage \in ModelStages, CallModel(stage)
      PROVE  ReplayInv'
  <2> DEFINE r == Result(cell, ContextOf(cell), stage, TRUE)
  <2>1. Due /\ ContextOf(cell) # Failed /\ Append1(r)
    BY <1>7 DEF CallModel
  <2>2. r = Entry(Len(results) + 1, stage, TRUE)
    BY DEF Entry
  <2>3. ResultOK(r)
    <3>1. stage # "context_assembly"
      BY DEF ModelStages, None
    <3>2. r.context # Failed /\ r.stage = stage /\ r.timed
      BY <2>1 DEF Result
    <3> HIDE DEF r
    <3>3. QED
      BY <3>1, <3>2 DEF ResultOK
  <2>4. r \in Entries /\ stage \in Stages
    <3> HIDE DEF r
    <3>1. stage \in Stages
      BY DEF Stages
    <3>2. QED
      BY <1>1, <2>1, <2>2, <3>1, EntryPlanned
  <2> HIDE DEF r
  <2>5. UNCHANGED input
    BY <2>1 DEF Append1
  <2>6. QED
    BY <2>1, <2>2, <2>3, <2>4, <2>5, Appended
<1>8. CASE Finish
  <2>1. UNCHANGED <<input, results>> /\ step = "running" /\ Len(results) = Planned
    BY <1>8 DEF Finish
  <2>2. \/ step' = "done"
        \/ step' = "lost" /\ clockBack'
    BY <1>8 DEF Finish
  <2>3. QED
    BY <1>3, <2>1, <2>2 DEF ReplayInv
<1>9. CASE UNCHANGED vars
  BY <1>3, <1>9 DEF vars, ReplayInv
<1>10. QED
  BY <1>4, <1>5, <1>6, <1>7, <1>8, <1>9 DEF Next

\* What a run holds: only the results of the cells planned so far, in order, each
\* with the context of its cell; a run ends without an artifact only when the
\* clock went back (run_scenario).
THEOREM ReplayInvariant == Spec => []ReplayInv
<1>1. Init => ReplayInv
  BY InitHolds, ReplayAssumption
<1>2. ReplayInv /\ [Next]_vars => ReplayInv'
  BY NextHolds, ReplayAssumption
<1>3. QED
  BY <1>1, <1>2, PTL DEF Spec

---------------------------------------------------------------------------
(* The properties of the runs. *)

LEMMA CellFields ==
  ASSUME ReplayAssumption, input \in Inputs, Accepted, NEW n \in 1 .. Planned,
         NEW a, a = QueryAt(n, plan.repeats), NEW repeat, repeat = RepeatAt(n, plan.repeats),
         NEW p, p = PlaceAt(n)
  PROVE  /\ a \in 1 .. Len(doc.queries) /\ repeat \in 1 .. plan.repeats /\ p \in 1 .. 4
         /\ n = (4 * plan.repeats) * (a - 1) + 4 * (repeat - 1) + p
         /\ Cell(n).query = doc.queries[a] /\ Cell(n).query \in ToSet(doc.queries)
         /\ Cell(n).repeat = repeat /\ Cell(n).seed = plan.seed + repeat - 1
         /\ Cell(n).condition = plan.order[repeat][p] /\ Cell(n).condition \in Conditions
<1>1. /\ Planlike(plan) /\ Len(doc.queries) \in Nat /\ plan.repeats \in Nat \ {0}
      /\ DOMAIN doc.queries = 1 .. Len(doc.queries)
      /\ Planned = Len(doc.queries) * plan.repeats * 4
  BY PlannedNat
<1>2. /\ a \in 1 .. Len(doc.queries) /\ repeat \in 1 .. plan.repeats /\ p \in 1 .. 4
      /\ n = (4 * plan.repeats) * (a - 1) + 4 * (repeat - 1) + p
  <2> DEFINE Q == Len(doc.queries)
             R == plan.repeats
  <2>1. /\ Q \in Nat /\ R \in Nat \ {0} /\ Planned = Q * R * 4
    BY <1>1
  <2> HIDE DEF Q, R
  <2>2. Numbered(n, Q, R)
    BY <2>1, NumberIs
  <2>3. QED
    BY <2>2 DEF Q, R, Number, Numbered
<1>3. /\ Cell(n).query = doc.queries[a]
      /\ Cell(n).repeat = repeat /\ Cell(n).seed = plan.seed + repeat - 1
      /\ Cell(n).condition = plan.order[repeat][p]
  BY DEF Cell, QueryAt, RepeatAt, PlaceAt
<1>4. doc.queries[a] \in ToSet(doc.queries)
  BY <1>1, <1>2 DEF ToSet
<1>5. plan.order[repeat][p] \in Conditions
  <2> DEFINE order == plan.order[repeat]
  <2>1. order \in Seq(STRING)
    BY <1>1, <1>2 DEF Planlike
  <2>2. Len(order) = 4 /\ ToSet(order) = Conditions
    BY <1>2 DEF Accepted, ValidPlan
  <2> HIDE DEF order
  <2>3. DOMAIN order = 1 .. 4
    BY <2>1, <2>2
  <2>4. order[p] \in ToSet(order)
    BY <1>2, <2>3 DEF ToSet
  <2>5. QED
    BY <2>2, <2>4 DEF order
<1>6. QED
  BY <1>2, <1>3, <1>4, <1>5

\* A result is of a query of the scenario, and its context is what that query
\* replays to under its condition.
LEMMA ResultFacts ==
  ASSUME ReplayAssumption, ReplayInv, NEW r \in ToSet(results), NEW q, q = QueryOf(r)
  PROVE  /\ ValidScenario(doc) /\ q \in ToSet(doc.queries) /\ r.condition \in Conditions
         /\ r.context = Replayed(doc, q, r.condition, text, plan.budget, plan.frozen)
<1>1. results \in Seq(Entries) /\ results # <<>>
  BY DEF ReplayInv, ToSet
<1>2. input \in Inputs /\ Accepted
  BY <1>1 DEF ReplayInv
<1>3. PICK i \in 1 .. Len(results) : r = results[i]
  BY <1>1 DEF ToSet
<1>4. PICK stage \in Stages, timed \in BOOLEAN : r = Entry(i, stage, timed)
  BY <1>3 DEF ReplayInv
<1>5. i \in 1 .. Planned
  <2>1. Planned \in Nat
    BY <1>2, PlannedNat
  <2>2. Len(results) <= Planned /\ Len(results) \in Nat
    BY <1>1 DEF ReplayInv
  <2>3. QED
    BY <2>1, <2>2
<1>6. Cell(i).query \in ToSet(doc.queries) /\ Cell(i).condition \in Conditions
  BY <1>2, <1>5, CellFields
<1>7. r.query = Cell(i).query.id /\ r.condition = Cell(i).condition /\ r.context = ContextOf(Cell(i))
  BY <1>4 DEF Entry, Result
<1>8. ValidScenario(doc)
  BY <1>2 DEF Accepted
<1>9. q = Cell(i).query
  <2>1. \A o, p \in ToSet(doc.queries) : o.id = p.id => o = p
    BY <1>8 DEF ValidScenario, QueriesOK, ToSet
  <2>2. q = CHOOSE o \in ToSet(doc.queries) : o.id = Cell(i).query.id
    BY <1>7 DEF QueryOf
  <2>3. QED
    BY <1>6, <2>1, <2>2
<1>10. QED
  BY <1>6, <1>7, <1>8, <1>9 DEF ContextOf

LEMMA FitsAlways ==
  ASSUME ReplayAssumption, ReplayInv
  PROVE  ContextsFit
<1>1. Parsed(doc) /\ Scored(text) /\ plan.budget \in Nat
  BY PlannedNat DEF ReplayInv
<1>2. ASSUME NEW r \in ToSet(results), r.context # Failed
      PROVE  r.context.tokens <= plan.budget
  <2> DEFINE q == QueryOf(r)
             C == r.context
  <2>1. /\ ValidScenario(doc) /\ q \in ToSet(doc.queries) /\ r.condition \in Conditions
        /\ C = Replayed(doc, q, r.condition, text, plan.budget, plan.frozen)
    BY ResultFacts
  <2>2. C # Failed
    BY <1>2
  <2> DEFINE due == {x \in ToSet(doc.summaries) : x.through <= q.after}
  <2>3. due = {x \in ToSet(doc.summaries) : x.through <= q.after}
    OBVIOUS
  <2> HIDE DEF q, C, due
  <2>4. C.tokens <= plan.budget
    BY <1>1, <2>1, <2>2, <2>3, Assembles
  <2>5. QED
    BY <2>4 DEF C
<1>3. ASSUME NEW r \in Assembled("B1")
      PROVE  EndOf(History(doc.timeline, QueryOf(r)), r.context, plan.budget)
  <2>1. r \in ToSet(results) /\ r.condition = "B1"
    BY DEF Assembled
  <2>2. r.context = Replayed(doc, QueryOf(r), "B1", text, plan.budget, plan.frozen)
    BY <2>1, ResultFacts
  <2>3. QED
    BY <1>1, <2>2, RecentHistoryFits
<1>4. QED
  BY <1>2, <1>3 DEF ContextsFit, EndOf

LEMMA InForceAlways ==
  ASSUME ReplayAssumption, ReplayInv
  PROVE  MemoriesInForce
<1>1. Parsed(doc) /\ Scored(text) /\ plan.budget \in Nat
  BY PlannedNat DEF ReplayInv
<1> SUFFICES ASSUME ~plan.frozen, NEW result \in Assembled("B3")
             PROVE  LET q == QueryOf(result)
                        now == Latest(doc.records)
                        shown == {r \in now : r.id \in ToSet(result.context.ids)}
                        usable == {r \in now : /\ ScopeReason(r.scope, q.scope) = None
                                               /\ ActiveAt(r, q.at)}
                    IN  \A r \in shown :
                          /\ r \in usable
                          /\ \A o \in shown : o.rule = r.rule => o = r
                          /\ \A o \in usable : o.rule = r.rule =>
                               \/ Specificity(o.scope) < Specificity(r.scope)
                               \/ Specificity(o.scope) = Specificity(r.scope)
                                  /\ o.statement = r.statement
  BY DEF MemoriesInForce
<1> DEFINE q == QueryOf(result)
           now == Latest(doc.records)
           shown == {r \in now : r.id \in ToSet(result.context.ids)}
           usable == {r \in now : /\ ScopeReason(r.scope, q.scope) = None
                                  /\ ActiveAt(r, q.at)}
<1> SUFFICES ASSUME NEW r \in shown
             PROVE  /\ r \in usable
                    /\ \A o \in shown : o.rule = r.rule => o = r
                    /\ \A o \in usable : o.rule = r.rule =>
                         \/ Specificity(o.scope) < Specificity(r.scope)
                         \/ Specificity(o.scope) = Specificity(r.scope)
                            /\ o.statement = r.statement
  OBVIOUS
<1>2. result \in ToSet(results) /\ result.condition = "B3" /\ result.context # Failed
  BY DEF Assembled
<1>3. ValidScenario(doc) /\ RecordsOK(doc)
  BY <1>2, ResultFacts DEF ValidScenario
<1>4. result.context = Replayed(doc, q, "B3", text, plan.budget, plan.frozen)
  BY <1>2, ResultFacts
<1>5. \A id \in ToSet(result.context.ids) : \E o \in Ranking(doc, q, text) : o.id = id
  <2> DEFINE C == result.context
  <2>1. C = IF Loads(doc)
            THEN Within(StructuredMemory(Redecided(doc, q, text), q, plan.budget), plan.budget)
            ELSE Failed
    BY <1>4 DEF Replayed
  <2>2. C # Failed
    BY <1>2
  <2> HIDE DEF C
  <2>3. \A id \in ToSet(C.ids) : \E o \in Ranking(doc, q, text) : o.id = id
    BY <1>1, <1>3, <2>1, <2>2, LiveMemory
  <2>4. QED
    BY <2>3 DEF C
<1>6. usable = Eligible(Latest(doc.records), q.scope, q.at)
  BY DEF Eligible
<1>7. \A o \in Ranking(doc, q, text) : o \in now
  BY DEF Ranking, Candidates, Rankable, Eligible
<1>8. shown \subseteq Ranking(doc, q, text)
  <2> SUFFICES ASSUME NEW o \in shown PROVE o \in Ranking(doc, q, text)
    OBVIOUS
  <2>1. PICK p \in Ranking(doc, q, text) : p.id = o.id
    BY <1>5
  <2>2. p = o
    BY <1>1, <1>3, <1>7, <2>1, LatestUnique
  <2>3. QED
    BY <2>1, <2>2
<1>9. QED
  BY <1>1, <1>3, <1>6, <1>8, RankedInForce

LEMMA FailuresExplained ==
  ASSUME ReplayAssumption, ReplayInv
  PROVE  AssemblyFailuresExplained
<1>1. Parsed(doc) /\ Scored(text) /\ plan.budget \in Nat
  BY PlannedNat DEF ReplayInv
<1> SUFFICES ASSUME NEW r \in ToSet(results), r.context = Failed,
                    NEW q, q = QueryOf(r),
                    NEW due, due = {s \in ToSet(doc.summaries) : s.through <= q.after}
             PROVE  \/ /\ r.condition = "B2"
                       /\ \E s \in due : /\ \A o \in due : o.through <= s.through
                                         /\ Header + s.size > plan.budget
                    \/ /\ r.condition = "B3" /\ ~plan.frozen
                       /\ \E a, b \in doc.records :
                            /\ a # b /\ a.id = b.id
                            /\ a.status = "active" /\ b.status = "active"
                    \/ /\ r.condition = "B3" /\ plan.frozen
                       /\ \E d \in Selected(doc, q), m \in Latest(doc.records) :
                            /\ d.memory = m.id
                            /\ m.status # "active" \/ ScopeReason(m.scope, q.scope) # None
  BY DEF AssemblyFailuresExplained
<1>2. /\ ValidScenario(doc) /\ q \in ToSet(doc.queries) /\ r.condition \in Conditions
      /\ Failed = Replayed(doc, q, r.condition, text, plan.budget, plan.frozen)
  BY ResultFacts
<1>3. QED
  BY <1>1, <1>2, Assembles

LEMMA EntryPointsAlways ==
  ASSUME ReplayAssumption, ReplayInv
  PROVE  EntryPointsAgree
<1>1. Parsed(doc) /\ Scored(text)
  BY PlannedNat DEF ReplayInv
<1>2. step = "running" => ValidScenario(doc)
  BY DEF ReplayInv, Accepted
<1> SUFFICES ASSUME step = "running", NEW q \in ToSet(doc.queries)
             PROVE  LiveContexts(doc, q, text, plan.budget) = Expected(doc, q, text, plan.budget)
  BY Zenon DEF EntryPointsAgree, Expected
<1>3. QED
  BY <1>1, <1>2, LiveAgrees

LEMMA CarriedOutAlways ==
  ASSUME ReplayAssumption, ReplayInv
  PROVE  PlanCarriedOut
<1>1. step = "lost" => clockBack
  BY DEF ReplayInv
<1> SUFFICES ASSUME step = "done",
                    NEW q \in ToSet(doc.queries), NEW repeat \in 1 .. plan.repeats
             PROVE  LET own == {i \in DOMAIN results :
                                  results[i].query = q.id /\ results[i].repeat = repeat}
                        place(i) == Cardinality({j \in own : j <= i})
                    IN  /\ Cardinality(own) = 4
                        /\ \A i \in own :
                             /\ results[i].condition = plan.order[repeat][place(i)]
                             /\ results[i].seed = plan.seed + repeat - 1
  BY <1>1 DEF PlanCarriedOut
<1> DEFINE own == {i \in DOMAIN results :
                     results[i].query = q.id /\ results[i].repeat = repeat}
           place(i) == Cardinality({j \in own : j <= i})
           Q == Len(doc.queries)
           R == plan.repeats
<1>2. input \in Inputs /\ Accepted /\ results \in Seq(Entries) /\ Len(results) = Planned
  BY DEF ReplayInv
<1>3. /\ Q \in Nat /\ R \in Nat \ {0} /\ Planned \in Nat /\ Planned = Q * R * 4
      /\ DOMAIN doc.queries = 1 .. Q /\ DOMAIN results = 1 .. Planned
  BY <1>2, PlannedNat
<1>4. PICK a \in 1 .. Q : doc.queries[a] = q
  BY <1>3 DEF ToSet
<1>5. \A b \in 1 .. Q : doc.queries[b].id = q.id => b = a
  BY <1>2, <1>3, <1>4 DEF Accepted, ValidScenario, QueriesOK
<1> DEFINE base == (4 * R) * (a - 1) + 4 * (repeat - 1)
<1>6. base \in Int
  BY <1>3, Z3
<1>7. ASSUME NEW i \in 1 .. Planned
      PROVE  /\ results[i].query = doc.queries[QueryAt(i, R)].id
             /\ results[i].repeat = RepeatAt(i, R)
             /\ results[i].seed = plan.seed + RepeatAt(i, R) - 1
             /\ results[i].condition = plan.order[RepeatAt(i, R)][PlaceAt(i)]
             /\ Numbered(i, Q, R)
  <2>1. \E stage \in Stages, timed \in BOOLEAN : results[i] = Entry(i, stage, timed)
    BY <1>2 DEF ReplayInv
  <2>2. /\ results[i].query = Cell(i).query.id /\ results[i].repeat = Cell(i).repeat
        /\ results[i].seed = Cell(i).seed /\ results[i].condition = Cell(i).condition
    BY <2>1 DEF Entry, Result
  <2>3. /\ Cell(i).query = doc.queries[QueryAt(i, R)] /\ Cell(i).repeat = RepeatAt(i, R)
        /\ Cell(i).seed = plan.seed + RepeatAt(i, R) - 1
        /\ Cell(i).condition = plan.order[RepeatAt(i, R)][PlaceAt(i)]
    BY DEF Cell, QueryAt, RepeatAt, PlaceAt
  <2>4. Numbered(i, Q, R)
    <3> HIDE DEF Q, R
    <3>1. QED
      BY <1>3, NumberIs
  <2>5. QED
    BY <2>2, <2>3, <2>4
<1> HIDE DEF Q, R
<1>8. repeat \in 1 .. R /\ base = (4 * R) * (a - 1) + 4 * (repeat - 1)
  BY DEF R
<1>9. ASSUME NEW i \in own
      PROVE  /\ i \in 1 .. Planned /\ QueryAt(i, R) = a /\ RepeatAt(i, R) = repeat
             /\ PlaceAt(i) \in 1 .. 4 /\ i = base + PlaceAt(i)
  <2>1. i \in 1 .. Planned /\ QueryAt(i, R) \in 1 .. Q /\ PlaceAt(i) \in 1 .. 4
    BY <1>3, <1>7 DEF Numbered
  <2>2. QueryAt(i, R) = a /\ RepeatAt(i, R) = repeat
    BY <1>5, <1>7, <2>1
  <2>3. i = (4 * R) * (a - 1) + 4 * (repeat - 1) + PlaceAt(i)
    BY <1>7, <2>1, <2>2 DEF Number, Numbered
  <2>4. QED
    BY <1>8, <2>1, <2>2, <2>3
<1> HIDE DEF base
<1>10. ASSUME NEW p \in 1 .. 4, NEW i, i = base + p
       PROVE  i \in own
  <2>1. i = Number(R, a, repeat, p)
    BY <1>8, <1>10 DEF Number
  <2>2. i \in 1 .. Q * R * 4 /\ QueryAt(i, R) = a /\ RepeatAt(i, R) = repeat
    BY <1>3, <1>8, <2>1, NumberOf
  <2>3. i \in 1 .. Planned
    BY <1>3, <2>2
  <2>4. results[i].query = q.id /\ results[i].repeat = repeat
    BY <1>4, <1>7, <2>2, <2>3
  <2>5. QED
    BY <1>3, <2>3, <2>4
<1>11. own = base + 1 .. base + 4
  <2> HIDE DEF own
  <2>1. \A i \in own : i \in base + 1 .. base + 4
    BY <1>6, <1>9
  <2>2. \A i \in base + 1 .. base + 4 : i \in own
    <3> SUFFICES ASSUME NEW i \in base + 1 .. base + 4 PROVE i \in own
      OBVIOUS
    <3>1. i - base \in 1 .. 4 /\ i = base + (i - base)
      BY <1>6
    <3>2. QED
      BY <1>10, <3>1
  <2>3. QED
    BY <2>1, <2>2
<1> HIDE DEF own
<1>12. Cardinality(own) = 4
  <2> DEFINE first == base + 1
             last == base + 4
  <2>1. first \in Int /\ last \in Int /\ own = first .. last /\ last - first + 1 = 4
        /\ ~(first > last)
    BY <1>6, <1>11
  <2> HIDE DEF first, last
  <2>2. QED
    BY <2>1, FS_Interval
<1>13. ASSUME NEW i \in own
       PROVE  place(i) = PlaceAt(i)
  <2> DEFINE first == base + 1
             upTo == {j \in own : j <= i}
  <2>1. PlaceAt(i) \in 1 .. 4 /\ i = base + PlaceAt(i)
    BY <1>9
  <2>2. upTo = first .. i
    BY <1>6, <1>11, <2>1
  <2>3. first \in Int /\ i \in Int /\ i - first + 1 = PlaceAt(i) /\ ~(first > i)
    BY <1>6, <2>1
  <2> HIDE DEF first, upTo
  <2>4. Cardinality(upTo) = PlaceAt(i)
    BY <2>2, <2>3, FS_Interval
  <2>5. QED
    BY <2>4 DEF upTo
<1>14. ASSUME NEW i \in own
       PROVE  /\ results[i].condition = plan.order[repeat][place(i)]
              /\ results[i].seed = plan.seed + repeat - 1
  BY <1>7, <1>9, <1>13, <1>14
<1>15. QED
  BY <1>12, <1>14 DEF own

\* Every context of a run is within the budget, and recent history is the newest
\* messages before the query, as many as fit (replay.py _recent_history_context).
THEOREM ContextsFitTheBudget == Spec => []ContextsFit
<1>1. ReplayInv => ContextsFit
  BY FitsAlways, ReplayAssumption
<1>2. QED
  BY <1>1, ReplayInvariant, PTL

\* What live B3 shows is in force, in scope and alone in its rule, and nothing
\* eligible is narrower or says otherwise (retrieval.py LexicalRetriever.retrieve).
THEOREM ShownMemoriesInForce == Spec => []MemoriesInForce
<1>1. ReplayInv => MemoriesInForce
  BY InForceAlways, ReplayAssumption
<1>2. QED
  BY <1>1, ReplayInvariant, PTL

\* A context of an accepted scenario fails to assemble only in the three ways the
\* contract leaves open (replay.py _replay_condition, models.py Scenario).
THEOREM OnlyKnownFailures == Spec => []AssemblyFailuresExplained
<1>1. ReplayInv => AssemblyFailuresExplained
  BY FailuresExplained, ReplayAssumption
<1>2. QED
  BY <1>1, ReplayInvariant, PTL

\* The two entry points to a live replay assemble the same contexts
\* (replay.py replay_query_contexts_live and replay_query_context).
THEOREM EntryPointsAgreeAlways == Spec => []EntryPointsAgree
<1>1. ReplayInv => EntryPointsAgree
  BY EntryPointsAlways, ReplayAssumption
<1>2. QED
  BY <1>1, ReplayInvariant, PTL

\* A run that is done holds the four results of each query and repeat, in the
\* order of the repeat and with its seed (runner.py run_scenario).
THEOREM PlanCarriedOutInFull == Spec => []PlanCarriedOut
<1>1. ReplayInv => PlanCarriedOut
  BY CarriedOutAlways, ReplayAssumption
<1>2. QED
  BY <1>1, ReplayInvariant, PTL
=============================================================================
