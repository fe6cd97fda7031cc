---------------------------- MODULE ReconcileProofs ----------------------------
(***************************************************************************)
(* Proofs about Reconcile, for any portal, any number of groups and groups *)
(* of any size: what cancelEqual leaves over, which changes follow from    *)
(* it, and that replaying the changes gives the baseline.                  *)
(***************************************************************************)
EXTENDS Reconcile, SelectionProofs

-----------------------------------------------------------------------------
(* Counting the records of a group. *)

\* Where a state occurs in a group.
Places(group, state) == {i \in DOMAIN group : group[i] = state}

LEMMA PlacesFinite ==
  ASSUME NEW S, NEW s \in Seq(S), NEW x
  PROVE  /\ IsFiniteSet(Places(s, x))
         /\ Times(s, x) = Cardinality(Places(s, x))
         /\ Times(s, x) \in Nat
         /\ Times(s, x) = 0 <=> \A i \in DOMAIN s : s[i] # x
<1>1. IsFiniteSet(1 .. Len(s)) /\ DOMAIN s = 1 .. Len(s)
  BY FS_Interval
<1>2. Places(s, x) \in SUBSET (1 .. Len(s))
  BY <1>1 DEF Places
<1>3. IsFiniteSet(Places(s, x))
  BY <1>1, <1>2, FS_Subset
<1>4. Times(s, x) = Cardinality(Places(s, x))
  BY DEF Times, Places
<1>5. Times(s, x) \in Nat
  BY <1>3, <1>4, FS_CardinalityType
<1>6. Times(s, x) = 0 <=> Places(s, x) = {}
  BY <1>3, <1>4, FS_EmptySet
<1> QED
  BY <1>3, <1>4, <1>5, <1>6 DEF Places

\* A finite set that is no larger than another is mapped one to one into it.
LEMMA OneToOne ==
  ASSUME NEW A, NEW B, IsFiniteSet(A), IsFiniteSet(B), Cardinality(A) <= Cardinality(B)
  PROVE  \E f \in [A -> B] : \A i, j \in A : f[i] = f[j] => i = j
<1> DEFINE n == Cardinality(A)
           m == Cardinality(B)
<1>1. n \in Nat /\ m \in Nat
  BY FS_CardinalityType
<1>2. PICK p \in [1 .. n -> A] : \A a \in A : \E k \in 1 .. n : p[k] = a
  <2>1. Bijection(1 .. n, A) # {}
    BY FS_CardinalityType DEF ExistsBijection
  <2> QED
    BY <2>1 DEF Bijection, Surjection
<1>3. PICK q \in [1 .. m -> B] : \A k, l \in 1 .. m : q[k] = q[l] => k = l
  <2>1. Bijection(1 .. m, B) # {}
    BY FS_CardinalityType DEF ExistsBijection
  <2> QED
    BY <2>1 DEF Bijection, Injection, IsInjective
<1> DEFINE At(a) == CHOOSE k \in 1 .. n : p[k] = a
           f == [a \in A |-> q[At(a)]]
<1>4. \A a \in A : At(a) \in 1 .. n /\ p[At(a)] = a
  BY <1>2
<1> HIDE DEF At, n, m
<1>5. \A a \in A : At(a) \in 1 .. m
  BY <1>1, <1>4 DEF n, m
<1>6. f \in [A -> B]
  BY <1>3, <1>5
<1>7. ASSUME NEW i \in A, NEW j \in A, f[i] = f[j] PROVE i = j
  <2>1. At(i) = At(j)
    BY <1>3, <1>5, <1>7
  <2> QED
    BY <1>4, <2>1
<1> QED
  BY <1>6, <1>7

\* Every state occurs in one group as often as in another, or more.
Covered(s, t) == \A x : Times(s, x) <= Times(t, x)

\* Then the records of s have partners in t, each one of its own.
LEMMA Partners ==
  ASSUME NEW S, NEW s \in Seq(S), NEW t \in Seq(S), Covered(s, t)
  PROVE  \E f \in Injection(1 .. Len(s), 1 .. Len(t)) :
           \A i \in 1 .. Len(s) : t[f[i]] = s[i]
<1>1. DOMAIN s = 1 .. Len(s) /\ DOMAIN t = 1 .. Len(t)
  OBVIOUS
<1> DEFINE To(x) == CHOOSE f \in [Places(s, x) -> Places(t, x)] :
                      \A i, j \in Places(s, x) : f[i] = f[j] => i = j
           f == [i \in 1 .. Len(s) |-> To(s[i])[i]]
<1>2. ASSUME NEW x
      PROVE  /\ To(x) \in [Places(s, x) -> Places(t, x)]
             /\ \A i, j \in Places(s, x) : To(x)[i] = To(x)[j] => i = j
  <2>1. Cardinality(Places(s, x)) <= Cardinality(Places(t, x))
    BY PlacesFinite DEF Covered
  <2>2. \E g \in [Places(s, x) -> Places(t, x)] :
          \A i, j \in Places(s, x) : g[i] = g[j] => i = j
    BY <2>1, PlacesFinite, OneToOne
  <2> QED
    BY <2>2
<1> HIDE DEF To
<1>3. \A i \in 1 .. Len(s) : f[i] \in 1 .. Len(t) /\ t[f[i]] = s[i]
  <2> TAKE i \in 1 .. Len(s)
  <2>1. i \in Places(s, s[i])
    BY <1>1 DEF Places
  <2>2. To(s[i])[i] \in Places(t, s[i])
    BY <1>2, <2>1
  <2> QED
    BY <1>1, <2>2 DEF Places
<1>4. \A i, j \in 1 .. Len(s) : f[i] = f[j] => i = j
  <2> SUFFICES ASSUME NEW i \in 1 .. Len(s), NEW j \in 1 .. Len(s), f[i] = f[j]
               PROVE  i = j
    OBVIOUS
  <2>1. s[i] = s[j]
    BY <1>3
  <2>2. i \in Places(s, s[i]) /\ j \in Places(s, s[i])
    BY <1>1, <2>1 DEF Places
  <2>3. To(s[i])[i] = To(s[i])[j]
    BY <2>1
  <2> QED
    BY <1>2, <2>2, <2>3
<1>5. f \in [1 .. Len(s) -> 1 .. Len(t)]
  BY <1>3
<1> HIDE DEF f
<1>6. f \in Injection(1 .. Len(s), 1 .. Len(t))
  BY <1>4, <1>5 DEF Injection, IsInjective
<1> QED
  BY <1>3, <1>6

LEMMA CoveredLength ==
  ASSUME NEW S, NEW s \in Seq(S), NEW t \in Seq(S), Covered(s, t)
  PROVE  Len(s) <= Len(t)
<1>1. /\ Len(s) \in Nat /\ Len(t) \in Nat /\ IsFiniteSet(1 .. Len(t))
      /\ Cardinality(1 .. Len(s)) = Len(s) /\ Cardinality(1 .. Len(t)) = Len(t)
  <2>1. \A n \in Nat : IsFiniteSet(1 .. n) /\ Cardinality(1 .. n) = n
    BY FS_Interval
  <2>2. Len(s) \in Nat /\ Len(t) \in Nat
    OBVIOUS
  <2> QED
    BY <2>1, <2>2
<1>2. PICK f \in Injection(1 .. Len(s), 1 .. Len(t)) : TRUE
  BY Partners
<1>3. Cardinality(1 .. Len(s)) <= Cardinality(1 .. Len(t))
  BY <1>1, <1>2, FS_Injection
<1> QED
  BY <1>1, <1>3

\* If no state occurs more often in s than in t, and both have as many records,
\* they have the same.
LEMMA CoveredSameLength ==
  ASSUME NEW S, NEW s \in Seq(S), NEW t \in Seq(S), Covered(s, t), Len(s) = Len(t)
  PROVE  Covered(t, s)
<1>1. /\ Len(s) \in Nat /\ DOMAIN s = 1 .. Len(s) /\ DOMAIN t = 1 .. Len(s)
      /\ IsFiniteSet(1 .. Len(s))
  BY FS_Interval
<1>2. PICK f \in Injection(1 .. Len(s), 1 .. Len(s)) :
        \A i \in 1 .. Len(s) : t[f[i]] = s[i]
  BY Partners
<1>3. \A i \in 1 .. Len(s) : f[i] \in 1 .. Len(s) /\ t[f[i]] = s[i]
  BY <1>2 DEF Injection
<1>4. f \in Surjection(1 .. Len(s), 1 .. Len(s))
  BY <1>1, <1>2, FS_Injection
<1>5. ASSUME NEW x PROVE Times(t, x) <= Times(s, x)
  <2> DEFINE g == [i \in Places(s, x) |-> f[i]]
  <2>1. g \in [Places(s, x) -> Places(t, x)]
    BY <1>1, <1>3 DEF Places
  <2>2. \A j \in Places(t, x) : \E i \in Places(s, x) : g[i] = j
    <3> TAKE j \in Places(t, x)
    <3>1. j \in 1 .. Len(s) /\ t[j] = x
      BY <1>1 DEF Places
    <3>2. PICK i \in 1 .. Len(s) : f[i] = j
      BY <1>4, <3>1 DEF Surjection
    <3>3. i \in Places(s, x)
      BY <1>1, <1>3, <3>1, <3>2 DEF Places
    <3> QED
      BY <3>2, <3>3
  <2> HIDE DEF g
  <2>3. g \in Surjection(Places(s, x), Places(t, x))
    BY <2>1, <2>2 DEF Surjection
  <2>4. Cardinality(Places(t, x)) <= Cardinality(Places(s, x))
    BY <2>3, PlacesFinite, FS_Surjection
  <2> QED
    BY <2>4, PlacesFinite
<1> QED
  BY <1>5 DEF Covered

-----------------------------------------------------------------------------
(* What cancelEqual leaves over. *)

\* Nothing of s is left over exactly if t has every state as often as s.
LEMMA NothingUnmatched ==
  ASSUME NEW S, NEW s \in Seq(S), NEW t \in Seq(S)
  PROVE  Unmatched(s, t) = <<>> <=> Covered(s, t)
<1> DEFINE upTo(i) == SubSeq(s, 1, i)
           chosen == {i \in DOMAIN s : Times(upTo(i), s[i]) > Times(t, s[i])}
<1>1. Len(s) \in Nat /\ DOMAIN s = 1 .. Len(s)
  OBVIOUS
<1>2. \A i \in 1 .. Len(s) :
        /\ upTo(i) \in Seq(S)
        /\ \A x : Places(upTo(i), x) = {j \in Places(s, x) : j <= i}
  <2> TAKE i \in 1 .. Len(s)
  <2>1. /\ upTo(i) \in Seq(S) /\ DOMAIN upTo(i) = 1 .. i
        /\ \A j \in 1 .. i : upTo(i)[j] = s[j]
    BY <1>1
  <2> QED
    BY <1>1, <2>1 DEF Places
<1>3. \A x : Times(s, x) \in Nat /\ Times(t, x) \in Nat
  BY PlacesFinite
<1>4. \A i \in 1 .. Len(s) : \A x : Times(upTo(i), x) \in Nat
  BY <1>2, PlacesFinite
<1> HIDE DEF upTo
<1>5. Unmatched(s, t) = <<>> <=> chosen = {}
  <2>1. Unmatched(s, t) = Selected(s, chosen)
    BY DEF Unmatched, upTo
  <2> HIDE DEF chosen
  <2>2. PICK at : Selects(at, Selected(s, chosen), s, chosen, Len(s))
    BY SelectedFacts
  <2>3. chosen \subseteq 1 .. Len(s)
    BY <1>1 DEF chosen
  <2>4. Selected(s, chosen) \in Seq(S)
    BY SelectedFacts
  <2>5. DOMAIN Selected(s, chosen) = {} => chosen = {}
    BY <2>2, <2>3 DEF Selects
  <2>6. chosen = {} => DOMAIN Selected(s, chosen) = {}
    BY <2>2 DEF Selects
  <2>7. Selected(s, chosen) = <<>> <=> DOMAIN Selected(s, chosen) = {}
    BY <2>4
  <2> QED
    BY <2>1, <2>5, <2>6, <2>7
<1>6. ASSUME chosen = {}, NEW x
      PROVE  Times(s, x) <= Times(t, x)
  <2>1. CASE Places(s, x) = {}
    <3>1. Times(s, x) = 0
      BY <2>1, PlacesFinite DEF Places
    <3> QED
      BY <1>3, <3>1
  <2>2. CASE Places(s, x) # {}
    <3>1. PICK i \in Places(s, x) : \A j \in Places(s, x) : j <= i
      <4>1. Places(s, x) \in SUBSET Nat /\ \A j \in Places(s, x) : j <= Len(s)
        BY <1>1 DEF Places
      <4> QED
        BY <1>1, <2>2, <4>1, GreatestElement
    <3>2. i \in 1 .. Len(s) /\ s[i] = x
      BY <1>1, <3>1 DEF Places
    <3>3. Places(upTo(i), x) = Places(s, x)
      BY <1>2, <3>1, <3>2
    <3>4. Times(upTo(i), x) = Times(s, x)
      BY <1>2, <3>2, <3>3, PlacesFinite
    <3>5. ~(Times(upTo(i), x) > Times(t, x))
      BY <1>1, <1>6, <3>2
    <3> QED
      BY <1>3, <3>4, <3>5
  <2> QED
    BY <2>1, <2>2
<1>7. ASSUME Covered(s, t), NEW i \in 1 .. Len(s)
      PROVE  ~(Times(upTo(i), s[i]) > Times(t, s[i]))
  <2>1. Times(upTo(i), s[i]) <= Times(s, s[i])
    <3>1. Places(upTo(i), s[i]) \in SUBSET Places(s, s[i])
      BY <1>2
    <3> QED
      BY <1>2, <3>1, PlacesFinite, FS_Subset
  <2>2. Times(s, s[i]) <= Times(t, s[i])
    BY <1>7 DEF Covered
  <2> QED
    BY <1>3, <1>4, <2>1, <2>2
<1>8. chosen = {} => Covered(s, t)
  BY <1>6 DEF Covered
<1>9. Covered(s, t) => chosen = {}
  BY <1>1, <1>7
<1> QED
  BY <1>5, <1>8, <1>9

\* Whether a group shows the records of another: only the states that occur
\* in one of them matter.
LEMMA SameMeansCovered ==
  ASSUME NEW s \in Seq(States), NEW t \in Seq(States)
  PROVE  SameRecords(s, t) <=> (Covered(s, t) /\ Covered(t, s))
<1>1. \A x : Times(s, x) \in Nat /\ Times(t, x) \in Nat
  BY PlacesFinite
<1>2. ASSUME NEW x, x \notin States PROVE Times(s, x) = 0 /\ Times(t, x) = 0
  <2>1. (\A i \in DOMAIN s : s[i] # x) /\ (\A i \in DOMAIN t : t[i] # x)
    BY <1>2
  <2> QED
    BY <2>1, PlacesFinite
<1>3. ASSUME SameRecords(s, t), NEW x PROVE Times(s, x) = Times(t, x)
  BY <1>2, <1>3 DEF SameRecords
<1>4. SameRecords(s, t) => (Covered(s, t) /\ Covered(t, s))
  BY <1>1, <1>3 DEF Covered
<1>5. Covered(s, t) /\ Covered(t, s) => SameRecords(s, t)
  BY <1>1 DEF Covered, SameRecords
<1> QED
  BY <1>4, <1>5

\* cancelEqual leaves nothing over on either side exactly if both groups show
\* the same records.
LEMMA EqualMeansSame ==
  ASSUME NEW s \in Seq(States), NEW t \in Seq(States)
  PROVE  Equal(s, t) <=> SameRecords(s, t)
BY NothingUnmatched, SameMeansCovered DEF Equal

\* Of two groups with as many records, cancelEqual leaves none or some of each.
LEMMA BothOrNeither ==
  ASSUME NEW s \in Seq(States), NEW t \in Seq(States), Len(s) = Len(t)
  PROVE  Unmatched(s, t) = <<>> <=> SameRecords(s, t)
BY NothingUnmatched, SameMeansCovered, CoveredSameLength

\* Compared with no records, everything is left over.
LEMMA AllUnmatched ==
  ASSUME NEW s \in Seq(States)
  PROVE  Unmatched(s, <<>>) = s /\ Unmatched(<<>>, s) = <<>>
<1> DEFINE chosen == {i \in DOMAIN s : Times(SubSeq(s, 1, i), s[i]) > Times(<<>>, s[i])}
<1>1. Len(s) \in Nat /\ DOMAIN s = 1 .. Len(s)
  OBVIOUS
<1>2. <<>> \in Seq(States)
  OBVIOUS
<1>3. \A x : Times(<<>>, x) = 0
  <2> TAKE x
  <2>1. DOMAIN <<>> = {}
    OBVIOUS
  <2> QED
    BY <1>2, <2>1, PlacesFinite
<1>4. \A i \in 1 .. Len(s) : Times(SubSeq(s, 1, i), s[i]) > 0
  <2> TAKE i \in 1 .. Len(s)
  <2>1. /\ SubSeq(s, 1, i) \in Seq(States) /\ i \in DOMAIN SubSeq(s, 1, i)
        /\ SubSeq(s, 1, i)[i] = s[i]
    BY <1>1
  <2>2. Times(SubSeq(s, 1, i), s[i]) \in Nat /\ Times(SubSeq(s, 1, i), s[i]) # 0
    BY <2>1, PlacesFinite
  <2> QED
    BY <2>2
<1>5. 1 .. Len(s) \subseteq chosen
  BY <1>1, <1>3, <1>4
<1> HIDE DEF chosen
<1>6. Unmatched(s, <<>>) = s
  <2>1. Unmatched(s, <<>>) = Selected(s, chosen)
    BY DEF Unmatched, chosen
  <2> QED
    BY <1>5, <2>1, SelectedAll
<1>7. Covered(<<>>, s)
  BY <1>3, PlacesFinite DEF Covered
<1>8. Unmatched(<<>>, s) = <<>>
  BY <1>2, <1>7, NothingUnmatched
<1> QED
  BY <1>6, <1>8

\* The only record of a group is left over, or it is not.
LEMMA SingleUnmatched ==
  ASSUME NEW s \in Seq(States), Len(s) = 1, NEW t \in Seq(States)
  PROVE  Unmatched(s, t) \in {<<>>, s}
<1> DEFINE chosen == {i \in DOMAIN s : Times(SubSeq(s, 1, i), s[i]) > Times(t, s[i])}
<1>1. Unmatched(s, t) = Selected(s, chosen)
  BY DEF Unmatched
<1>2. chosen \subseteq {1}
  OBVIOUS
<1> HIDE DEF chosen
<1>3. CASE 1 \in chosen
  <2>1. 1 .. Len(s) \subseteq chosen
    BY <1>3
  <2> QED
    BY <1>1, <2>1, SelectedAll
<1>4. CASE 1 \notin chosen
  <2>1. chosen = {}
    BY <1>2, <1>4
  <2>2. PICK at : Selects(at, Selected(s, chosen), s, chosen, Len(s))
    BY SelectedFacts
  <2>3. DOMAIN Selected(s, chosen) = {} /\ Selected(s, chosen) \in Seq(States)
    BY <2>1, <2>2, SelectedFacts DEF Selects
  <2> QED
    BY <1>1, <2>3
<1> QED
  BY <1>3, <1>4

LEMMA AtMostOne ==
  ASSUME NEW n \in Nat, n <= 1
  PROVE  n = 0 \/ n = 1
OBVIOUS

\* Two groups of one record show the same exactly if they are equal.
LEMMA SingleSame ==
  ASSUME NEW s \in Seq(States), NEW t \in Seq(States), Len(s) <= 1, Len(t) <= 1
  PROVE  SameRecords(s, t) <=> s = t
<1>1. s = t => SameRecords(s, t)
  BY DEF SameRecords
<1>2. ASSUME SameRecords(s, t) PROVE s = t
  <2>1. Covered(s, t) /\ Covered(t, s)
    BY <1>2, SameMeansCovered
  <2>2. ASSUME NEW u \in Seq(States), NEW v \in Seq(States), Covered(u, v),
               NEW i \in DOMAIN u
        PROVE  \E j \in DOMAIN v : v[j] = u[i]
    <3>1. Times(u, u[i]) \in Nat /\ Times(v, u[i]) \in Nat /\ Times(u, u[i]) # 0
      BY PlacesFinite
    <3>2. Times(u, u[i]) <= Times(v, u[i])
      BY <2>2 DEF Covered
    <3>3. Times(v, u[i]) # 0
      BY <3>1, <3>2
    <3> QED
      BY <3>3, PlacesFinite
  <2>3. \A i \in DOMAIN s : \E j \in DOMAIN t : t[j] = s[i]
    BY <2>1, <2>2
  <2>4. \A i \in DOMAIN t : \E j \in DOMAIN s : s[j] = t[i]
    BY <2>1, <2>2
  <2>5. Len(s) \in {0, 1} /\ Len(t) \in {0, 1}
    <3>1. Len(s) \in Nat /\ Len(t) \in Nat /\ Len(s) <= 1 /\ Len(t) <= 1
      OBVIOUS
    <3>2. (Len(s) = 0 \/ Len(s) = 1) /\ (Len(t) = 0 \/ Len(t) = 1)
      BY <3>1, AtMostOne
    <3> QED
      BY <3>2
  <2>6. DOMAIN s = 1 .. Len(s) /\ DOMAIN t = 1 .. Len(t)
    OBVIOUS
  <2>7. Len(s) = Len(t)
    <3>1. Len(s) = 1 => Len(t) # 0
      BY <2>3, <2>6
    <3>2. Len(t) = 1 => Len(s) # 0
      BY <2>4, <2>6
    <3> QED
      BY <2>5, <3>1, <3>2
  <2>8. \A i \in 1 .. Len(s) : s[i] = t[i]
    <3> TAKE i \in 1 .. Len(s)
    <3>1. Len(s) = 1 /\ Len(t) = 1 /\ i = 1
      BY <2>5, <2>7
    <3>2. PICK k \in DOMAIN t : t[k] = s[1]
      BY <2>3, <2>6, <3>1
    <3> QED
      BY <2>6, <3>1, <3>2
  <2> QED
    BY <2>7, <2>8, <2>6
<1> QED
  BY <1>1, <1>2

\* Whatever shows the same records as a single one is that one.
LEMMA SameAsSingle ==
  ASSUME NEW s \in Seq(States), NEW t \in Seq(States), SameRecords(s, t), Len(t) = 1
  PROVE  s = t
<1>1. Covered(s, t)
  BY SameMeansCovered
<1>2. Len(s) <= Len(t)
  BY <1>1, CoveredLength
<1>3. Len(s) <= 1 /\ Len(t) <= 1
  BY <1>2
<1> QED
  BY <1>3, SingleSame

-----------------------------------------------------------------------------
(* Which changes one group gives. *)

\* The records of a group are a sequence of states; a sourced anchor and a
\* subject have one at most.
LEMMA ContentsAreSequences ==
  ASSUME NEW g \in Groups, NEW s \in Contents(g)
  PROVE  /\ s \in Seq(States)
         /\ s \in BoundedSeq(States, MaxGroup)
         /\ g \notin Fallback => Len(s) <= 1
<1> DEFINE n == IF g \in Fallback THEN MaxGroup ELSE 1
<1>1. PICK m \in 0 .. n : s \in [1 .. m -> States]
  BY DEF Contents, BoundedSeq, SeqOf
<1>2. n \in Nat /\ n <= MaxGroup
  BY GroupAssumption
<1>3. s \in Seq(States) /\ Len(s) = m
  BY <1>1, <1>2
<1>4. m \in 0 .. MaxGroup
  BY <1>1, <1>2, GroupAssumption
<1>5. s \in BoundedSeq(States, MaxGroup)
  BY <1>1, <1>4 DEF BoundedSeq, SeqOf
<1> QED
  BY <1>1, <1>3, <1>5

LEMMA EmptyOrNot ==
  ASSUME NEW s \in Seq(States)
  PROVE  /\ Len(s) \in Nat
         /\ s = <<>> <=> Len(s) = 0
         /\ Len(s) = 1 => s = <<s[1]>> /\ s[1] \in States
         /\ Len(s) <= 1 => s = <<>> \/ Len(s) = 1
<1>1. Len(s) \in Nat
  OBVIOUS
<1>2. s = <<>> <=> Len(s) = 0
  OBVIOUS
<1>3. ASSUME Len(s) = 1 PROVE s = <<s[1]>> /\ s[1] \in States
  <2>1. DOMAIN s = 1 .. 1 /\ s[1] \in States
    BY <1>3
  <2> QED
    BY <1>3, <2>1
<1>4. Len(s) <= 1 => s = <<>> \/ Len(s) = 1
  BY <1>1, <1>2, AtMostOne
<1> QED
  BY <1>1, <1>2, <1>3, <1>4

\* Only a group without records shows the same as no records.
LEMMA NoRecords ==
  ASSUME NEW s \in Seq(States)
  PROVE  /\ SameRecords(<<>>, s) <=> s = <<>>
         /\ SameRecords(s, <<>>) <=> s = <<>>
<1>1. <<>> \in Seq(States)
  OBVIOUS
<1>2. Equal(<<>>, s) <=> s = <<>>
  BY AllUnmatched DEF Equal
<1>3. Equal(s, <<>>) <=> s = <<>>
  BY AllUnmatched DEF Equal
<1> QED
  BY <1>1, <1>2, <1>3, EqualMeansSame

\* A sourced record is added once, corrected when it is another, and back when
\* an earlier baseline held it: it is never ambiguous.
LEMMA SourcedChanges ==
  ASSUME NEW a \in Sourced, NEW old \in Contents(a), NEW now \in Contents(a)
  PROVE  ChangesAt(a, old, now) =
           IF now = <<>> \/ now = old THEN {}
           ELSE IF old # <<>> THEN {Change("updated", a, 1, old, now)}
           ELSE IF seen[a] # None THEN {Change("reappeared", a, 1, <<seen[a]>>, now)}
           ELSE {Change("added", a, 1, <<>>, now)}
<1>1. /\ old \in Seq(States) /\ now \in Seq(States) /\ a \notin Fallback
      /\ Len(old) <= 1 /\ Len(now) <= 1
  BY ContentsAreSequences, AnchorsAssumption DEF Groups, Anchors
<1>2. /\ old = <<>> \/ Len(old) = 1
      /\ now = <<>> \/ Len(now) = 1
  BY <1>1, EmptyOrNot
<1>3. ~ Unpairable(a, old, now)
  BY <1>1 DEF Unpairable
<1>4. Equal(old, now) <=> old = now
  BY <1>1, EqualMeansSame, SingleSame
<1> HIDE DEF ChangesAt, Equal
<1>5. CASE now = old
  <2>1. ~ Reappears(a, old, now)
    BY <1>5 DEF Reappears
  <2> QED
    BY <1>4, <1>5, <2>1 DEF ChangesAt
<1>6. CASE now # old /\ now = <<>>
  <2>1. Unmatched(old, now) = old /\ Unmatched(now, old) = <<>> /\ old # <<>>
    BY <1>1, <1>6, AllUnmatched
  <2>2. ~ Reappears(a, old, now)
    BY <1>6 DEF Reappears
  <2>3. ~ Corrected(a, old, now)
    <3>1. Len(Unmatched(now, old)) = 0
      BY <2>1
    <3> QED
      BY <3>1 DEF Corrected
  <2> QED
    BY <1>3, <1>4, <1>6, <2>1, <2>2, <2>3 DEF ChangesAt
<1>7. CASE now # old /\ now # <<>> /\ old # <<>>
  <2>1. ~ Reappears(a, old, now)
    BY <1>7 DEF Reappears
  <2>2. Len(old) = Len(now) /\ Len(old) = 1
    BY <1>2, <1>7
  <2>3. Unmatched(old, now) # <<>> /\ Unmatched(now, old) # <<>>
    BY <1>1, <1>7, <2>2, SingleSame, BothOrNeither
  <2>4. Unmatched(old, now) = old /\ Unmatched(now, old) = now
    BY <1>1, <2>2, <2>3, SingleUnmatched
  <2>5. Corrected(a, old, now)
    BY <2>2, <2>4 DEF Corrected
  <2> QED
    BY <1>3, <1>4, <1>7, <2>1, <2>4, <2>5 DEF ChangesAt
<1>8. CASE now # <<>> /\ old = <<>> /\ seen[a] # None
  <2>1. Reappears(a, old, now)
    BY <1>8 DEF Reappears
  <2> QED
    BY <1>8, <2>1 DEF ChangesAt
<1>9. CASE now # <<>> /\ old = <<>> /\ seen[a] = None
  <2>1. Unmatched(old, now) = <<>> /\ Unmatched(now, old) = now
    BY <1>1, <1>9, AllUnmatched
  <2>2. ~ Reappears(a, old, now)
    BY <1>9 DEF Reappears
  <2>3. ~ Corrected(a, old, now)
    <3>1. Len(Unmatched(old, now)) = 0
      BY <2>1
    <3> QED
      BY <3>1 DEF Corrected
  <2>4. now = <<now[1]>> /\ DOMAIN now = {1}
    BY <1>1, <1>2, <1>9, EmptyOrNot
  <2>5. ChangesAt(a, old, now)
          = {Change("added", a, i, <<>>, <<now[i]>>) : i \in DOMAIN now}
    BY <1>3, <1>4, <1>9, <2>1, <2>2, <2>3 DEF ChangesAt
  <2>6. {Change("added", a, i, <<>>, <<now[i]>>) : i \in {1}}
          = {Change("added", a, 1, <<>>, <<now[1]>>)}
    OBVIOUS
  <2> QED
    BY <1>9, <2>4, <2>5, <2>6
<1> QED
  BY <1>5, <1>6, <1>7, <1>8, <1>9

\* Of a fallback group the records are added that come to none, and a single
\* one is corrected; every other difference, and every one in a group that is
\* unresolved, is ambiguous.
LEMMA FallbackChanges ==
  ASSUME NEW a \in Fallback, NEW old \in Contents(a), NEW now \in Contents(a)
  PROVE  LET Ambiguous(before, after) == {Change("ambiguous", a, 0, before, after)} IN
         ChangesAt(a, old, now) =
           IF now = <<>> \/ SameRecords(old, now) THEN {}
           ELSE IF a \in unresolved THEN Ambiguous(old, now)
           ELSE IF old = <<>>
           THEN {Change("added", a, i, <<>>, <<now[i]>>) : i \in DOMAIN now}
           ELSE IF Len(old) # Len(now) THEN Ambiguous(old, now)
           ELSE IF Len(old) = 1 THEN {Change("updated", a, 1, old, now)}
           ELSE Ambiguous(Unmatched(old, now), Unmatched(now, old))
<1>1. /\ old \in Seq(States) /\ now \in Seq(States) /\ a \notin Sourced
  BY ContentsAreSequences, AnchorsAssumption DEF Groups, Anchors
<1>2. ~ Reappears(a, old, now)
  BY <1>1 DEF Reappears
<1>3. Equal(old, now) <=> SameRecords(old, now)
  BY <1>1, EqualMeansSame
<1> HIDE DEF ChangesAt, Equal, SameRecords
<1>4. CASE SameRecords(old, now)
  BY <1>2, <1>3, <1>4 DEF ChangesAt
<1>5. CASE ~SameRecords(old, now) /\ now = <<>>
  <2>1. Unmatched(old, now) = old /\ Unmatched(now, old) = <<>> /\ old # <<>>
    BY <1>1, <1>5, AllUnmatched, NoRecords
  <2>2. ~ Corrected(a, old, now)
    <3>1. Len(Unmatched(now, old)) = 0
      BY <2>1
    <3> QED
      BY <3>1 DEF Corrected
  <2>3. ~ Unpairable(a, old, now)
    BY <1>5 DEF Unpairable
  <2> QED
    BY <1>2, <1>3, <1>5, <2>1, <2>2, <2>3 DEF ChangesAt
<1>6. CASE /\ ~SameRecords(old, now) /\ now # <<>>
           /\ a \in unresolved \/ (old # <<>> /\ Len(old) # Len(now))
  <2>1. Unpairable(a, old, now)
    BY <1>6 DEF Unpairable
  <2>2. ChangesAt(a, old, now) = {Change("ambiguous", a, 0, old, now)}
    BY <1>2, <1>3, <1>6, <2>1 DEF ChangesAt
  <2> QED
    BY <1>6, <2>2
<1>7. CASE ~SameRecords(old, now) /\ now # <<>> /\ a \notin unresolved /\ old = <<>>
  <2>1. Unmatched(old, now) = <<>> /\ Unmatched(now, old) = now
    BY <1>1, <1>7, AllUnmatched
  <2>2. ~ Corrected(a, old, now)
    <3>1. Len(Unmatched(old, now)) = 0
      BY <2>1
    <3> QED
      BY <3>1 DEF Corrected
  <2>3. ~ Unpairable(a, old, now)
    BY <1>7 DEF Unpairable
  <2> QED
    BY <1>2, <1>3, <1>7, <2>1, <2>2, <2>3 DEF ChangesAt
<1>8. CASE /\ ~SameRecords(old, now) /\ now # <<>> /\ a \notin unresolved
           /\ old # <<>> /\ Len(old) = Len(now)
  <2>1. ~SameRecords(now, old)
    BY <1>8 DEF SameRecords
  <2>2. Unmatched(old, now) # <<>> /\ Unmatched(now, old) # <<>>
    BY <1>1, <1>8, <2>1, BothOrNeither
  <2>3. ~ Unpairable(a, old, now)
    BY <1>8 DEF Unpairable
  <2>4. Len(old) = 1 => Unmatched(old, now) = old /\ Unmatched(now, old) = now
    BY <1>1, <1>8, <2>2, SingleUnmatched
  <2>5. Corrected(a, old, now) <=> Len(old) = 1
    BY <1>1, <1>8, <2>4 DEF Corrected
  <2> QED
    BY <1>2, <1>3, <1>8, <2>2, <2>3, <2>4, <2>5 DEF ChangesAt
<1> QED
  BY <1>4, <1>5, <1>6, <1>7, <1>8

-----------------------------------------------------------------------------
(* The changes of one check, by group, and what replaying them gives. *)

LEMMA ChangeFields ==
  ASSUME NEW k, NEW g, NEW o, NEW b, NEW a
  PROVE  LET c == Change(k, g, o, b, a) IN
         c.kind = k /\ c.group = g /\ c.occurrence = o /\ c.before = b /\ c.after = a
BY DEF Change

LEMMA ChangesNameTheirGroup ==
  ASSUME NEW a, NEW old, NEW now, NEW c \in ChangesAt(a, old, now)
  PROVE  c.group = a
<1> DEFINE x == Unmatched(old, now)
           y == Unmatched(now, old)
           ByItem == {Change("added", a, i, <<>>, <<y[i]>>) : i \in DOMAIN y}
<1>1. \/ c = Change("reappeared", a, 1, <<seen[a]>>, now)
      \/ c = Change("ambiguous", a, 0, old, now)
      \/ c = Change("updated", a, 1, x, y)
      \/ c \in ByItem
      \/ c = Change("ambiguous", a, 0, x, y)
  <2> HIDE DEF x, y
  <2> QED
    BY DEF ChangesAt, x, y
<1>2. CASE c \in ByItem
  <2>1. PICK i \in DOMAIN y : c = Change("added", a, i, <<>>, <<y[i]>>)
    BY <1>2
  <2> QED
    BY <2>1, ChangeFields
<1> HIDE DEF x, y, ByItem
<1> QED
  BY <1>1, <1>2, ChangeFields

\* The changes that a consumer replays of one group.
LEMMA AnchorGroup ==
  ASSUME NEW a \in Anchors, NEW old, NEW now
  PROVE  {c \in ReconcileWithState(old, now) : c.group = a} = ChangesAt(a, old[a], now[a])
<1>1. a \notin Subjects
  BY AnchorsAssumption DEF Anchors
<1>2. \A c \in OverviewChanges(old, now) : c.group \in Subjects
  BY ChangeFields DEF OverviewChanges
<1>3. \A b \in Anchors : \A c \in ChangesAt(b, old[b], now[b]) : c.group = b
  BY ChangesNameTheirGroup
<1> QED
  BY <1>1, <1>2, <1>3 DEF ReconcileWithState

LEMMA SubjectGroup ==
  ASSUME NEW s \in Subjects, NEW old, NEW now
  PROVE  {c \in ReconcileWithState(old, now) : c.group = s} =
           IF old[s] # <<>> /\ now[s] # <<>> /\ old[s] # now[s]
           THEN {Change("grades_changed", s, 1, old[s], now[s])} ELSE {}
<1>1. s \notin Anchors
  BY AnchorsAssumption DEF Anchors
<1>2. \A b \in Anchors : \A c \in ChangesAt(b, old[b], now[b]) : c.group = b
  BY ChangesNameTheirGroup
<1>3. {c \in ReconcileWithState(old, now) : c.group = s}
        = {c \in OverviewChanges(old, now) : c.group = s}
  BY <1>1, <1>2 DEF ReconcileWithState
<1>4. \A t : Change("grades_changed", t, 1, old[t], now[t]).group = t
  BY ChangeFields
<1> HIDE DEF Change
<1> QED
  BY <1>3, <1>4 DEF OverviewChanges

LEMMA ReplayNone ==
  ASSUME NEW g
  PROVE  Replayed(g, {}) = told[g]
BY DEF Replayed

\* One change of a kind that names a record replaces what was there before.
LEMMA ReplayOne ==
  ASSUME NEW g, NEW k \in {"updated", "reappeared", "grades_changed"},
         NEW o, NEW before, NEW after,
         \/ told[g] = before
         \/ k = "grades_changed" /\ told[g] = <<>>
  PROVE  Replayed(g, {Change(k, g, o, before, after)}) = after
<1> DEFINE one == Change(k, g, o, before, after)
           changes == {one}
<1>1. one.kind = k /\ one.before = before /\ one.after = after
  BY ChangeFields
<1> HIDE DEF one
<1>2. changes # {} /\ {c.kind : c \in changes} = {k} /\ (CHOOSE c \in changes : TRUE) = one
  BY <1>1
<1>3. {k} # {"ambiguous"} /\ {k} # {"added"}
  OBVIOUS
<1>4. {k} \in {{"updated"}, {"reappeared"}} \/ (k = "grades_changed" /\ {k} = {"grades_changed"})
  OBVIOUS
<1> HIDE DEF changes
<1>5. Replayed(g, changes) = one.after
  BY <1>1, <1>2, <1>3, <1>4 DEF Replayed
<1> QED
  BY <1>1, <1>5 DEF changes, one

\* An ambiguous one is not followed by certainty.
LEMMA ReplayAmbiguous ==
  ASSUME NEW g, NEW o, NEW before, NEW after, told[g] # Misled
  PROVE  Replayed(g, {Change("ambiguous", g, o, before, after)}) = Unclear
<1> DEFINE one == Change("ambiguous", g, o, before, after)
           changes == {one}
<1>1. one.kind = "ambiguous"
  BY ChangeFields
<1> HIDE DEF one
<1>2. changes # {} /\ {c.kind : c \in changes} = {"ambiguous"}
  BY <1>1
<1> HIDE DEF changes
<1>3. Replayed(g, changes) = Unclear
  BY <1>2 DEF Replayed
<1> QED
  BY <1>3 DEF changes, one

\* Records that are added where none were are all there.
LEMMA ReplayAdded ==
  ASSUME NEW g, told[g] = <<>>, NEW now \in Seq(States), now # <<>>
  PROVE  Replayed(g, {Change("added", g, i, <<>>, <<now[i]>>) : i \in DOMAIN now}) = now
<1> DEFINE n == Len(now)
           Item(i) == Change("added", g, i, <<>>, <<now[i]>>)
           changes == {Item(i) : i \in 1 .. n}
           f == [i \in 1 .. n |-> Item(i)]
<1>1. n \in Nat /\ n # 0 /\ DOMAIN now = 1 .. n
  BY EmptyOrNot
<1>2. \A i \in 1 .. n : /\ Item(i).kind = "added" /\ Item(i).occurrence = i
                        /\ Item(i).after = <<now[i]>>
  BY ChangeFields
<1> HIDE DEF Item, n
<1>3. /\ IsFiniteSet(1 .. n) /\ Cardinality(1 .. n) = n
  BY <1>1, FS_Interval
<1>4. Cardinality(changes) = n
  <2>1. f \in [1 .. n -> changes]
    OBVIOUS
  <2>2. \A i, j \in 1 .. n : f[i] = f[j] => i = j
    BY <1>2
  <2>3. \A c \in changes : \E i \in 1 .. n : f[i] = c
    OBVIOUS
  <2> HIDE DEF f, changes
  <2>4. f \in Bijection(1 .. n, changes)
    BY <2>1, <2>2, <2>3 DEF Bijection, Injection, Surjection, IsInjective
  <2> QED
    BY <1>3, <2>4, FS_Bijection DEF ExistsBijection
<1>5. changes # {} /\ {c.kind : c \in changes} = {"added"}
  <2>1. 1 \in 1 .. n
    BY <1>1
  <2> QED
    BY <1>2, <2>1
<1>6. \A i \in 1 .. n : (CHOOSE c \in changes : c.occurrence = i).after[1] = now[i]
  <2> TAKE i \in 1 .. n
  <2>1. Item(i) \in changes /\ \A c \in changes : c.occurrence = i => c = Item(i)
    BY <1>2
  <2> HIDE DEF changes
  <2>2. (CHOOSE c \in changes : c.occurrence = i) = Item(i)
    BY <1>2, <2>1
  <2>3. Item(i).after = <<now[i]>>
    BY <1>2
  <2>4. (CHOOSE c \in changes : c.occurrence = i).after = <<now[i]>>
    BY <2>2, <2>3, Zenon
  <2>5. <<now[i]>>[1] = now[i]
    OBVIOUS
  <2> QED
    BY <2>4, <2>5, Zenon
<1> HIDE DEF changes
<1>7. Replayed(g, changes)
        = [i \in 1 .. n |-> (CHOOSE c \in changes : c.occurrence = i).after[1]]
  <2>1. {"added"} # {"ambiguous"}
    OBVIOUS
  <2> QED
    BY <1>4, <1>5, <2>1 DEF Replayed
<1>8. Replayed(g, changes) = [i \in 1 .. n |-> now[i]]
  BY <1>6, <1>7
<1>9. [i \in 1 .. n |-> now[i]] = now
  BY <1>1
<1> QED
  BY <1>1, <1>8, <1>9 DEF changes, Item

-----------------------------------------------------------------------------
(* The inductive invariant. *)

\* What a consumer knows of a sourced record is the state that was seen last,
\* and the baseline shows no other.
SourcedKnown ==
  \A a \in Sourced :
    /\ told[a] = IF seen[a] = None THEN <<>> ELSE <<seen[a]>>
    /\ base[a] # <<>> => base[a] = told[a]

\* Of a fallback group it knows the records, unless the group is unresolved:
\* then it knows that, or no record is there, and two pages in a row did not
\* show which record is which.
FallbackKnown ==
  \A a \in Fallback :
    IF a \in unresolved
    THEN a \in broken /\ (told[a] = Unclear \/ (base[a] = <<>> /\ told[a] # Misled))
    ELSE told[a] \in BoundedSeq(States, MaxGroup) /\ SameRecords(told[a], base[a])

\* Of a subject that no overview left out it knows the grades, if any.
SubjectsKnown ==
  \A s \in Subjects :
    told[s] # Unclear /\ (s \in broken \/ told[s] \in {<<>>, base[s]})

Inv ==
  /\ TypeOK
  /\ base = None => \A a \in Anchors : seen[a] = None
  /\ base # None => SourcedKnown /\ FallbackKnown /\ SubjectsKnown

LEMMA SnapshotContents ==
  ASSUME NEW s \in Snapshots, NEW g \in Groups
  PROVE  s[g] \in Contents(g)
BY DEF Snapshots

LEMMA KnownAreSequences ==
  ASSUME NEW s \in BoundedSeq(States, MaxGroup)
  PROVE  s \in Seq(States) /\ s # Unclear /\ s # Misled
<1>1. s \notin {Unclear, Misled}
  BY NoneAssumption
<1>2. PICK m \in 0 .. MaxGroup : s \in [1 .. m -> States]
  BY DEF BoundedSeq, SeqOf
<1>3. m \in Nat
  BY GroupAssumption
<1> QED
  BY <1>1, <1>2, <1>3

\* What a check does with one group.
LEMMA CheckGroup ==
  ASSUME Check, NEW g \in Groups
  PROVE  /\ base' = portal
         /\ seen' = Observed(portal)
         /\ told'[g] = Replayed(g, {c \in ReconcileWithState(base, portal) : c.group = g})
         /\ NotTraceable(g, base[g], portal[g]) => g \in broken'
         /\ g \in broken => g \in broken'
<1> USE DEF Check
<1> HIDE DEF ReconcileWithState, Replayed, NotTraceable, Observed
<1> QED
  OBVIOUS

\* Which groups are unresolved after a check.
LEMMA CheckUnresolved ==
  ASSUME Check, base \in Snapshots, portal \in Snapshots, unresolved \subseteq Fallback
  PROVE  /\ unresolved' \subseteq Fallback
         /\ \A a \in Fallback :
              a \in unresolved' <=>
                \/ a \in unresolved
                \/ \E c \in ChangesAt(a, base[a], portal[a]) : c.kind = "ambiguous"
                \/ Vanished(a, base[a], portal[a])
<1> DEFINE changes == ReconcileWithState(base, portal)
<1>1. unresolved' = (unresolved
        \cup {c.group : c \in {d \in changes : d.kind = "ambiguous"}})
        \cup {a \in Fallback : Vanished(a, base[a], portal[a])}
  BY DEF Check, Unresolved
<1>2. ASSUME NEW c \in changes, c.kind = "ambiguous"
      PROVE  c.group \in Fallback /\ c \in ChangesAt(c.group, base[c.group], portal[c.group])
  <2>1. c \notin OverviewChanges(base, portal)
    BY <1>2, ChangeFields DEF OverviewChanges
  <2>2. PICK a \in Anchors : c \in ChangesAt(a, base[a], portal[a])
    BY <1>2, <2>1 DEF ReconcileWithState
  <2>3. c.group = a
    BY <2>2, ChangesNameTheirGroup
  <2>4. a \notin Sourced
    <3> SUFFICES ASSUME a \in Sourced PROVE FALSE
      OBVIOUS
    <3> DEFINE old == base[a]
               now == portal[a]
    <3>1. old \in Contents(a) /\ now \in Contents(a)
      BY <2>2, SnapshotContents DEF Groups
    <3>2. c \in {Change("updated", a, 1, old, now), Change("added", a, 1, <<>>, now),
                 Change("reappeared", a, 1, <<seen[a]>>, now)}
      <4> HIDE DEF old, now
      <4>1. c \in ChangesAt(a, old, now)
        BY <2>2 DEF old, now
      <4> QED
        BY <3>1, <4>1, SourcedChanges
    <3> HIDE DEF old, now
    <3>3. c.kind \in {"updated", "added", "reappeared"}
      BY <3>2, ChangeFields
    <3> QED
      BY <1>2, <3>3
  <2> QED
    BY <2>2, <2>3, <2>4 DEF Anchors
<1>3. ASSUME NEW a \in Fallback, NEW c \in ChangesAt(a, base[a], portal[a]), c.kind = "ambiguous"
      PROVE  c \in changes /\ c.group = a
  <2>1. c.group = a
    BY <1>3, ChangesNameTheirGroup
  <2> QED
    BY <2>1 DEF ReconcileWithState, Anchors
<1> HIDE DEF changes
<1> QED
  BY <1>1, <1>2, <1>3

-----------------------------------------------------------------------------
(* A check preserves what is known of each group. *)

LEMMA SourcedStep ==
  ASSUME Inv, base # None, Check, NEW a \in Sourced
  PROVE  /\ told'[a] = IF seen'[a] = None THEN <<>> ELSE <<seen'[a]>>
         /\ base'[a] # <<>> => base'[a] = told'[a]
         /\ told'[a] \in {told[a], portal[a]}
<1> DEFINE old == base[a]
           now == portal[a]
           changes == {c \in ReconcileWithState(base, portal) : c.group = a}
<1>1. /\ a \in Groups /\ a \in Anchors /\ a \notin Fallback
      /\ old \in Contents(a) /\ now \in Contents(a)
  BY AnchorsAssumption, SnapshotContents DEF Inv, TypeOK, Groups, Anchors
<1>2. /\ told[a] = IF seen[a] = None THEN <<>> ELSE <<seen[a]>>
      /\ old # <<>> => old = told[a]
  BY DEF Inv, SourcedKnown
<1>3. base'[a] = now /\ told'[a] = Replayed(a, changes)
  BY <1>1, CheckGroup
<1>4. seen'[a] = IF now # <<>> THEN now[1] ELSE seen[a]
  <2>1. seen' = Observed(portal)
    BY <1>1, CheckGroup
  <2> QED
    BY <1>1, <2>1 DEF Observed
<1>5. changes = ChangesAt(a, old, now)
  BY <1>1, AnchorGroup
<1>6. now = <<>> \/ (now = <<now[1]>> /\ now[1] # None)
  BY <1>1, ContentsAreSequences, EmptyOrNot, NoneAssumption
<1> HIDE DEF old, now, changes
<1>7. changes = IF now = <<>> \/ now = old THEN {}
                ELSE IF old # <<>> THEN {Change("updated", a, 1, old, now)}
                ELSE IF seen[a] # None THEN {Change("reappeared", a, 1, <<seen[a]>>, now)}
                ELSE {Change("added", a, 1, <<>>, now)}
  BY <1>1, <1>5, SourcedChanges
<1>8. CASE now = <<>>
  <2>1. told'[a] = told[a]
    BY <1>3, <1>7, <1>8, ReplayNone
  <2> QED
    BY <1>2, <1>3, <1>4, <1>8, <2>1 DEF now
<1>9. CASE now # <<>> /\ now = old
  <2>1. told'[a] = told[a]
    BY <1>3, <1>7, <1>9, ReplayNone
  <2> QED
    BY <1>2, <1>3, <1>4, <1>6, <1>9, <2>1 DEF now
<1>10. CASE now # <<>> /\ now # old
  <2>1. told'[a] = now
    <3>1. CASE old # <<>>
      <4>1. changes = {Change("updated", a, 1, old, now)} /\ told[a] = old
        BY <1>2, <1>7, <1>10, <3>1
      <4>2. Replayed(a, {Change("updated", a, 1, old, now)}) = now
        BY <4>1, ReplayOne
      <4> QED
        BY <1>3, <4>1, <4>2
    <3>2. CASE old = <<>> /\ seen[a] # None
      <4>1. changes = {Change("reappeared", a, 1, <<seen[a]>>, now)} /\ told[a] = <<seen[a]>>
        BY <1>2, <1>7, <1>10, <3>2
      <4>2. Replayed(a, {Change("reappeared", a, 1, <<seen[a]>>, now)}) = now
        BY <4>1, ReplayOne
      <4> QED
        BY <1>3, <4>1, <4>2
    <3>3. CASE old = <<>> /\ seen[a] = None
      <4>1. changes = {Change("added", a, 1, <<>>, now)} /\ told[a] = <<>>
        BY <1>2, <1>7, <1>10, <3>3
      <4>2. now \in Seq(States)
        BY <1>1, ContentsAreSequences
      <4>3. DOMAIN now = {1}
        BY <1>6, <1>10
      <4>4. {Change("added", a, i, <<>>, <<now[i]>>) : i \in DOMAIN now}
              = {Change("added", a, 1, <<>>, now)}
        BY <1>6, <1>10, <4>3
      <4>5. Replayed(a, {Change("added", a, i, <<>>, <<now[i]>>) : i \in DOMAIN now}) = now
        BY <1>10, <4>1, <4>2, ReplayAdded
      <4> QED
        BY <1>3, <4>1, <4>4, <4>5
    <3> QED
      BY <3>1, <3>2, <3>3
  <2> QED
    BY <1>3, <1>4, <1>6, <1>10, <2>1 DEF now
<1> QED
  BY <1>8, <1>9, <1>10

LEMMA SubjectStep ==
  ASSUME Inv, base # None, Check, NEW s \in Subjects
  PROVE  /\ told'[s] # Unclear
         /\ s \in broken' \/ told'[s] \in {<<>>, base'[s]}
         /\ told'[s] \in {told[s], portal[s], Misled}
<1> DEFINE old == base[s]
           now == portal[s]
           changes == {c \in ReconcileWithState(base, portal) : c.group = s}
           one == Change("grades_changed", s, 1, old, now)
<1>1. s \in Groups /\ now \in Contents(s)
  BY SnapshotContents DEF Inv, TypeOK, Groups
<1>2. told[s] # Unclear /\ (s \in broken \/ told[s] \in {<<>>, old})
  BY DEF Inv, SubjectsKnown
<1>3. /\ base'[s] = now /\ told'[s] = Replayed(s, changes)
      /\ NotTraceable(s, old, now) => s \in broken'
      /\ s \in broken => s \in broken'
  BY <1>1, CheckGroup
<1>4. changes = IF old # <<>> /\ now # <<>> /\ old # now THEN {one} ELSE {}
  BY SubjectGroup
<1>5. now # Unclear /\ now # Misled
  BY <1>1, ContentsAreSequences, KnownAreSequences
<1>6. old # <<>> /\ now = <<>> => s \in broken'
  BY <1>3 DEF NotTraceable
<1> HIDE DEF old, now, changes
<1>7. CASE changes = {}
  <2>1. told'[s] = told[s]
    BY <1>3, <1>7, ReplayNone
  <2>2. old = <<>> \/ now = <<>> \/ old = now
    BY <1>4, <1>7
  <2> QED
    BY <1>2, <1>3, <1>6, <2>1, <2>2
<1>8. CASE changes # {} /\ told[s] \in {<<>>, old}
  <2>1. changes = {one}
    BY <1>4, <1>8
  <2>2. Replayed(s, {one}) = now
    BY <1>8, ReplayOne
  <2> QED
    BY <1>3, <1>5, <2>1, <2>2 DEF now
<1>9. CASE changes # {} /\ told[s] \notin {<<>>, old}
  <2>1. changes = {one} /\ s \in broken'
    BY <1>2, <1>3, <1>4, <1>9
  <2>2. one.kind = "grades_changed" /\ one.before = old
    BY ChangeFields
  <2> HIDE DEF one
  <2>3. /\ {c.kind : c \in {one}} = {"grades_changed"}
        /\ (CHOOSE c \in {one} : TRUE) = one
    BY <2>2
  <2>4. Replayed(s, {one}) = Misled
    BY <1>9, <2>2, <2>3 DEF Replayed
  <2>5. Misled # Unclear
    BY NoneAssumption
  <2> QED
    BY <1>3, <2>1, <2>4, <2>5
<1> QED
  BY <1>7, <1>8, <1>9

LEMMA FallbackStep ==
  ASSUME Inv, base # None, Check, NEW a \in Fallback
  PROVE  /\ IF a \in unresolved'
            THEN /\ a \in broken'
                 /\ told'[a] = Unclear \/ (base'[a] = <<>> /\ told'[a] # Misled)
            ELSE told'[a] \in BoundedSeq(States, MaxGroup) /\ SameRecords(told'[a], base'[a])
         /\ told'[a] \in {told[a], portal[a], Unclear}
<1> DEFINE old == base[a]
           now == portal[a]
           changes == ChangesAt(a, old, now)
<1>1. /\ a \in Groups /\ a \in Anchors
      /\ base \in Snapshots /\ portal \in Snapshots /\ unresolved \subseteq Fallback
      /\ old \in Contents(a) /\ now \in Contents(a)
  BY SnapshotContents DEF Inv, TypeOK, Groups, Anchors
<1>2. IF a \in unresolved
      THEN a \in broken /\ (told[a] = Unclear \/ (old = <<>> /\ told[a] # Misled))
      ELSE told[a] \in BoundedSeq(States, MaxGroup) /\ SameRecords(told[a], old)
  BY DEF Inv, FallbackKnown
<1>3. /\ base'[a] = now /\ told'[a] = Replayed(a, changes)
      /\ NotTraceable(a, old, now) => a \in broken'
      /\ a \in broken => a \in broken'
  BY <1>1, CheckGroup, AnchorGroup
<1>4. a \in unresolved' <=>
        \/ a \in unresolved
        \/ \E c \in changes : c.kind = "ambiguous"
        \/ Vanished(a, old, now)
  BY <1>1, CheckUnresolved
<1>5. /\ old \in Seq(States) /\ now \in Seq(States)
      /\ now \in BoundedSeq(States, MaxGroup)
  BY <1>1, ContentsAreSequences
<1>6. a \notin unresolved => /\ told[a] \in BoundedSeq(States, MaxGroup)
                             /\ told[a] \in Seq(States)
                             /\ SameRecords(told[a], old)
                             /\ told[a] # Misled
  BY <1>2, KnownAreSequences
<1>7. told[a] # Misled
  <2>1. Unclear # Misled
    BY NoneAssumption
  <2> QED
    BY <1>2, <1>6, <2>1
<1>8. /\ Len(old) \in Nat /\ Len(now) \in Nat
      /\ old = <<>> <=> Len(old) = 0
      /\ now = <<>> <=> Len(now) = 0
  BY <1>5, EmptyOrNot
<1>9. changes = IF now = <<>> \/ SameRecords(old, now) THEN {}
           ELSE IF a \in unresolved THEN {Change("ambiguous", a, 0, old, now)}
           ELSE IF old = <<>>
           THEN {Change("added", a, i, <<>>, <<now[i]>>) : i \in DOMAIN now}
           ELSE IF Len(old) # Len(now) THEN {Change("ambiguous", a, 0, old, now)}
           ELSE IF Len(old) = 1 THEN {Change("updated", a, 1, old, now)}
           ELSE {Change("ambiguous", a, 0, Unmatched(old, now), Unmatched(now, old))}
  BY <1>1, FallbackChanges
<1> HIDE DEF old, now, changes
<1>10. ASSUME NEW before, NEW after, changes = {Change("ambiguous", a, 0, before, after)}
       PROVE  told'[a] = Unclear /\ a \in unresolved'
  <2>1. told'[a] = Unclear
    BY <1>3, <1>7, <1>10, ReplayAmbiguous
  <2>2. \E c \in changes : c.kind = "ambiguous"
    BY <1>10, ChangeFields
  <2> QED
    BY <1>4, <2>1, <2>2
<1>11. CASE now = <<>> \/ SameRecords(old, now)
  <2>1. told'[a] = told[a]
    BY <1>3, <1>9, <1>11, ReplayNone
  <2>2. ~ \E c \in changes : c.kind = "ambiguous"
    BY <1>9, <1>11
  <2>3. CASE a \in unresolved
    <3>1. old = <<>> => now = <<>>
      BY <1>5, <1>11, NoRecords
    <3> QED
      BY <1>2, <1>3, <1>4, <2>1, <2>3, <3>1
  <2>4. CASE a \notin unresolved /\ Vanished(a, old, now)
    <3>1. Unmatched(old, now) # <<>> /\ Unmatched(now, old) = <<>>
      BY <2>4 DEF Vanished
    <3>2. ~SameRecords(old, now)
      BY <1>5, <3>1, EqualMeansSame DEF Equal
    <3>3. now = <<>> /\ old # <<>>
      BY <1>5, <1>11, <3>1, <3>2, AllUnmatched
    <3>4. a \in broken'
      BY <1>3, <1>8, <3>3 DEF NotTraceable
    <3> QED
      BY <1>3, <1>4, <1>6, <2>1, <2>4, <3>3, <3>4
  <2>5. CASE a \notin unresolved /\ ~Vanished(a, old, now)
    <3>1. SameRecords(old, now)
      <4> SUFFICES ASSUME ~SameRecords(old, now) PROVE FALSE
        OBVIOUS
      <4>1. now = <<>> /\ old # <<>>
        BY <1>5, <1>11, NoRecords
      <4>2. Unmatched(old, now) = old /\ Unmatched(now, old) = <<>>
        BY <1>5, <4>1, AllUnmatched
      <4> QED
        BY <2>5, <4>1, <4>2 DEF Vanished
    <3>2. SameRecords(told[a], now)
      BY <1>6, <2>5, <3>1 DEF SameRecords
    <3> QED
      BY <1>3, <1>4, <1>6, <2>1, <2>2, <2>5, <3>2
  <2> QED
    BY <2>3, <2>4, <2>5
<1>12. CASE now # <<>> /\ ~SameRecords(old, now) /\ a \in unresolved
  <2>1. changes = {Change("ambiguous", a, 0, old, now)}
    BY <1>9, <1>12
  <2>2. a \in broken'
    BY <1>2, <1>3, <1>12
  <2> QED
    BY <1>10, <2>1, <2>2
<1>13. CASE now # <<>> /\ ~SameRecords(old, now) /\ a \notin unresolved /\ old = <<>>
  <2>1. told[a] = <<>>
    BY <1>6, <1>13, NoRecords
  <2>2. changes = {Change("added", a, i, <<>>, <<now[i]>>) : i \in DOMAIN now}
    BY <1>9, <1>13
  <2>3. told'[a] = now
    BY <1>3, <1>5, <1>13, <2>1, <2>2, ReplayAdded
  <2>4. \A c \in changes : c.kind # "ambiguous"
    <3> SUFFICES ASSUME NEW c \in changes PROVE c.kind # "ambiguous"
      OBVIOUS
    <3>1. PICK i \in DOMAIN now : c = Change("added", a, i, <<>>, <<now[i]>>)
      BY <2>2
    <3>2. c.kind = "added"
      BY <3>1, ChangeFields
    <3> QED
      BY <3>2
  <2>5. ~ Vanished(a, old, now)
    BY <1>5, <1>13, AllUnmatched DEF Vanished
  <2>6. SameRecords(now, now)
    BY DEF SameRecords
  <2> QED
    BY <1>3, <1>4, <1>5, <1>13, <2>3, <2>4, <2>5, <2>6 DEF now
<1>14. CASE /\ now # <<>> /\ ~SameRecords(old, now) /\ a \notin unresolved
            /\ old # <<>> /\ Len(old) # Len(now)
  <2>1. changes = {Change("ambiguous", a, 0, old, now)}
    BY <1>9, <1>14
  <2>2. a \in broken'
    BY <1>3, <1>14 DEF NotTraceable
  <2> QED
    BY <1>10, <2>1, <2>2
<1>15. CASE /\ now # <<>> /\ ~SameRecords(old, now) /\ a \notin unresolved
            /\ Len(old) = Len(now) /\ Len(old) = 1
  <2>1. changes = {Change("updated", a, 1, old, now)}
    <3>1. old # <<>>
      BY <1>8, <1>15
    <3> QED
      BY <1>9, <1>15, <3>1
  <2>2. told[a] = old
    <3>1. told[a] \in Seq(States) /\ SameRecords(told[a], old)
      BY <1>6, <1>15
    <3>2. old \in Seq(States) /\ Len(old) = 1
      BY <1>5, <1>15
    <3> HIDE DEF SameRecords
    <3> QED
      BY <3>1, <3>2, SameAsSingle
  <2>3. told'[a] = now
    <3>1. Replayed(a, {Change("updated", a, 1, old, now)}) = now
      BY <2>2, ReplayOne
    <3> QED
      BY <1>3, <2>1, <3>1
  <2>4. \A c \in changes : c.kind # "ambiguous"
    <3>1. Change("updated", a, 1, old, now).kind = "updated"
      BY ChangeFields
    <3> QED
      BY <2>1, <3>1
  <2>5. ~ Vanished(a, old, now)
    <3>1. ~SameRecords(now, old)
      BY <1>15 DEF SameRecords
    <3>2. Unmatched(now, old) # <<>>
      BY <1>5, <1>15, <3>1, BothOrNeither
    <3> QED
      BY <3>2 DEF Vanished
  <2>6. SameRecords(now, now)
    BY DEF SameRecords
  <2> QED
    BY <1>3, <1>4, <1>5, <1>15, <2>3, <2>4, <2>5, <2>6 DEF now
<1>16. CASE /\ now # <<>> /\ ~SameRecords(old, now) /\ a \notin unresolved
            /\ Len(old) = Len(now) /\ Len(old) # 1
  <2>1. old # <<>> /\ Len(old) > 1
    BY <1>8, <1>16
  <2>2. changes = {Change("ambiguous", a, 0, Unmatched(old, now), Unmatched(now, old))}
    BY <1>9, <1>16, <2>1
  <2>3. a \in broken'
    BY <1>3, <1>16, <2>1 DEF NotTraceable
  <2> QED
    BY <1>10, <2>2, <2>3
<1>17. old = <<>> \/ old # <<>>
  OBVIOUS
<1> QED
  BY <1>8, <1>11, <1>12, <1>13, <1>14, <1>15, <1>16, <1>17

-----------------------------------------------------------------------------
(* The theorems. *)

LEMMA InitInv ==
  Init => Inv
<1> SUFFICES ASSUME Init PROVE Inv
  OBVIOUS
<1>1. <<>> \in BoundedSeq(States, MaxGroup)
  <2>1. <<>> \in [1 .. 0 -> States] /\ 0 \in 0 .. MaxGroup
    BY GroupAssumption
  <2> QED
    BY <2>1 DEF BoundedSeq, SeqOf
<1>2. portal \in Snapshots /\ base = None /\ unresolved = {} /\ broken = {}
  BY DEF Init
<1>3. /\ seen \in [Anchors -> States \cup {None}]
      /\ \A a \in Anchors : seen[a] = None
  BY DEF Init
<1>4. told \in [Groups -> BoundedSeq(States, MaxGroup) \cup {Unclear, Misled}]
  BY <1>1 DEF Init
<1>5. TypeOK
  BY <1>2, <1>3, <1>4 DEF TypeOK, Anchors
<1> QED
  BY <1>2, <1>3, <1>5 DEF Inv

\* Which records are seen after a check.
LEMMA ObservedType ==
  ASSUME TypeOK
  PROVE  /\ Observed(portal) \in [Anchors -> States \cup {None}]
         /\ \A a \in Fallback : Observed(portal)[a] = None
<1>1. ASSUME NEW a \in Anchors, portal[a] # <<>>
      PROVE  portal[a][1] \in States
  <2>1. portal[a] \in Seq(States)
    BY SnapshotContents, ContentsAreSequences DEF TypeOK, Groups
  <2>2. 1 \in DOMAIN portal[a]
    BY <1>1, <2>1, EmptyOrNot
  <2> QED
    BY <2>1, <2>2
<1>2. \A a \in Fallback : a \in Anchors /\ a \notin Sourced
  BY AnchorsAssumption DEF Anchors
<1> QED
  BY <1>1, <1>2 DEF Observed, TypeOK

LEMMA FirstCheckInv ==
  ASSUME Inv, FirstCheck
  PROVE  Inv'
<1>1. /\ portal \in Snapshots /\ portal' = portal /\ base' = portal /\ told' = portal
      /\ unresolved' = {} /\ broken' = broken /\ seen' = Observed(portal)
      /\ broken \subseteq Groups /\ \A a \in Anchors : seen[a] = None
  BY DEF Inv, TypeOK, FirstCheck
<1>2. \A g \in Groups : /\ portal[g] \in Seq(States)
                        /\ portal[g] \in BoundedSeq(States, MaxGroup)
                        /\ portal[g] # Unclear
                        /\ g \notin Fallback => Len(portal[g]) <= 1
  BY <1>1, SnapshotContents, ContentsAreSequences, KnownAreSequences
<1>3. TypeOK'
  <2>1. portal \in [Groups -> BoundedSeq(States, MaxGroup) \cup {Unclear, Misled}]
    BY <1>1 DEF Snapshots
  <2>2. /\ seen' \in [Anchors -> States \cup {None}]
        /\ \A a \in Fallback : seen'[a] = None
    BY <1>1, ObservedType DEF Inv
  <2> QED
    BY <1>1, <2>1, <2>2 DEF TypeOK
<1>4. base' # None
  BY <1>1, NoneAssumption
<1>5. SourcedKnown'
  <2> SUFFICES ASSUME NEW a \in Sourced
               PROVE  /\ told'[a] = IF seen'[a] = None THEN <<>> ELSE <<seen'[a]>>
                      /\ base'[a] # <<>> => base'[a] = told'[a]
    BY DEF SourcedKnown
  <2>1. a \in Anchors /\ a \in Groups /\ a \notin Fallback
    BY AnchorsAssumption DEF Anchors, Groups
  <2>2. seen'[a] = IF portal[a] # <<>> THEN portal[a][1] ELSE None
    BY <1>1, <2>1 DEF Observed
  <2>3. portal[a] = <<>> \/ (portal[a] = <<portal[a][1]>> /\ portal[a][1] \in States)
    BY <1>2, <2>1, EmptyOrNot
  <2> QED
    BY <1>1, <2>2, <2>3, NoneAssumption
<1>6. FallbackKnown'
  <2> SUFFICES ASSUME NEW a \in Fallback
               PROVE  told'[a] \in BoundedSeq(States, MaxGroup) /\ SameRecords(told'[a], base'[a])
    BY <1>1 DEF FallbackKnown, SameRecords, Times
  <2> QED
    BY <1>1, <1>2 DEF SameRecords, Groups, Anchors
<1>7. SubjectsKnown'
  BY <1>1, <1>2 DEF SubjectsKnown, Groups
<1> QED
  BY <1>3, <1>4, <1>5, <1>6, <1>7 DEF Inv

LEMMA CheckInv ==
  ASSUME Inv, Check
  PROVE  Inv'
<1>1. base # None /\ base \in Snapshots /\ portal \in Snapshots /\ unresolved \subseteq Fallback
  BY DEF Inv, TypeOK, Check
<1>2. /\ portal' = portal /\ base' = portal /\ seen' = Observed(portal)
      /\ DOMAIN told' = Groups
      /\ broken' \subseteq Groups
  <2> HIDE DEF Replayed, ReconcileWithState
  <2> QED
    BY DEF Inv, TypeOK, Check
<1>3. \A g \in Groups : /\ told[g] \in BoundedSeq(States, MaxGroup) \cup {Unclear, Misled}
                        /\ portal[g] \in BoundedSeq(States, MaxGroup)
  BY <1>1, SnapshotContents, ContentsAreSequences DEF Inv, TypeOK
<1>4. ASSUME NEW g \in Groups
      PROVE  told'[g] \in BoundedSeq(States, MaxGroup) \cup {Unclear, Misled}
  <2>1. told'[g] \in {told[g], portal[g], Unclear, Misled}
    BY <1>1, SourcedStep, FallbackStep, SubjectStep DEF Groups, Anchors
  <2> QED
    BY <1>3, <2>1
<1>5. told' \in [Groups -> BoundedSeq(States, MaxGroup) \cup {Unclear, Misled}]
  <2>1. told' = [g \in Groups |-> told'[g]]
    <3> HIDE DEF Replayed, ReconcileWithState
    <3> QED
      BY DEF Check
  <2> QED
    BY <1>4, <2>1
<1>6. TypeOK'
  <2>1. unresolved' \subseteq Fallback
    BY <1>1, CheckUnresolved
  <2>2. /\ seen' \in [Anchors -> States \cup {None}]
        /\ \A a \in Fallback : seen'[a] = None
    BY <1>2, ObservedType DEF Inv
  <2> QED
    BY <1>1, <1>2, <1>5, <2>1, <2>2 DEF TypeOK
<1>7. base' # None
  BY <1>1, <1>2, NoneAssumption
<1>8. SourcedKnown'
  BY <1>1, SourcedStep DEF SourcedKnown
<1>9. FallbackKnown'
  BY <1>1, FallbackStep DEF FallbackKnown, SameRecords, Times
<1>10. SubjectsKnown'
  BY <1>1, SubjectStep DEF SubjectsKnown
<1> QED
  BY <1>6, <1>7, <1>8, <1>9, <1>10 DEF Inv

LEMMA PortalInv ==
  ASSUME Inv, NEW g \in Groups, PortalChanges(g)
  PROVE  Inv'
<1>1. /\ portal' \in Snapshots
      /\ UNCHANGED <<base, unresolved, seen, told, broken>>
  <2>1. PICK contents \in Contents(g) : portal' = [portal EXCEPT ![g] = contents]
    BY DEF PortalChanges
  <2>2. portal \in [Groups -> BoundedSeq(States, MaxGroup)] /\
        \A h \in Groups : portal[h] \in Contents(h)
    BY DEF Inv, TypeOK, Snapshots
  <2>3. contents \in BoundedSeq(States, MaxGroup)
    BY ContentsAreSequences
  <2>4. portal' \in Snapshots
    BY <2>1, <2>2, <2>3 DEF Snapshots
  <2> QED
    BY <2>4 DEF PortalChanges
<1> QED
  BY <1>1 DEF Inv, TypeOK, SourcedKnown, FallbackKnown, SubjectsKnown, SameRecords, Times

LEMMA NextInv ==
  Inv /\ [Next]_vars => Inv'
<1> SUFFICES ASSUME Inv, [Next]_vars PROVE Inv'
  OBVIOUS
<1>1. CASE FirstCheck
  BY <1>1, FirstCheckInv
<1>2. CASE Check
  BY <1>2, CheckInv
<1>3. CASE \E g \in Groups : PortalChanges(g)
  BY <1>3, PortalInv
<1>4. CASE UNCHANGED vars
  BY <1>4 DEF vars, Inv, TypeOK, SourcedKnown, FallbackKnown, SubjectsKnown, SameRecords, Times
<1> QED
  BY <1>1, <1>2, <1>3, <1>4 DEF Next

LEMMA Invariance ==
  Spec => []Inv
BY InitInv, NextInv, PTL DEF Spec

\* Every variable keeps its type: only sourced records are seen, and only
\* fallback groups unresolved, whatever the pages show.
THEOREM TypeCorrect ==
  Spec => []TypeOK
BY Invariance, PTL DEF Inv

\* A consumer that replays the changes has the baseline of every group, or knows
\* that it is ambiguous where no reader of the pages could tell its records
\* apart: reconcileGroups never says something that it said otherwise before.
THEOREM ReplayCorrect ==
  Spec => []ReplayGivesBaseline
<1>1. Inv => ReplayGivesBaseline
  <2> SUFFICES ASSUME Inv, base # None, NEW g \in Groups
               PROVE  /\ told[g] = Unclear => g \in broken
                      /\ told[g] = Misled => g \in Subjects \cap broken
                      /\ \/ base[g] = <<>>
                         \/ told[g] = Unclear
                         \/ g \in Subjects /\ (g \in broken \/ told[g] = <<>>)
                         \/ SameRecords(told[g], base[g])
    BY DEF ReplayGivesBaseline
  <2>1. /\ base[g] \in BoundedSeq(States, MaxGroup)
        /\ SameRecords(base[g], base[g])
    BY SnapshotContents, ContentsAreSequences DEF Inv, TypeOK, SameRecords
  <2>2. base[g] # Unclear /\ base[g] # Misled /\ Unclear # Misled
    BY <2>1, KnownAreSequences, NoneAssumption
  <2>3. <<>> # Unclear /\ <<>> # Misled
    <3>1. <<>> \in [1 .. 0 -> States] /\ 0 \in 0 .. MaxGroup
      BY GroupAssumption
    <3>2. <<>> \in BoundedSeq(States, MaxGroup)
      BY <3>1 DEF BoundedSeq, SeqOf
    <3> QED
      BY <3>2, KnownAreSequences
  <2>4. CASE g \in Sourced
    <3>1. /\ told[g] = IF seen[g] = None THEN <<>> ELSE <<seen[g]>>
          /\ base[g] # <<>> => base[g] = told[g]
      BY <2>4 DEF Inv, SourcedKnown
    <3>2. told[g] # Unclear /\ told[g] # Misled
      <4>1. seen[g] \in States \cup {None}
        BY <2>4 DEF Inv, TypeOK, Anchors
      <4>2. ASSUME NEW s \in States PROVE <<s>> \in BoundedSeq(States, MaxGroup)
        <5>1. <<s>> \in [1 .. 1 -> States] /\ 1 \in 0 .. MaxGroup
          BY GroupAssumption
        <5> QED
          BY <5>1 DEF BoundedSeq, SeqOf
      <4> QED
        BY <2>3, <3>1, <4>1, <4>2, KnownAreSequences
    <3> QED
      BY <2>1, <3>1, <3>2
  <2>5. CASE g \in Fallback
    <3>1. IF g \in unresolved
          THEN g \in broken /\ (told[g] = Unclear \/ (base[g] = <<>> /\ told[g] # Misled))
          ELSE told[g] \in BoundedSeq(States, MaxGroup) /\ SameRecords(told[g], base[g])
      BY <2>5 DEF Inv, FallbackKnown
    <3> QED
      BY <2>2, <3>1, KnownAreSequences
  <2>6. CASE g \in Subjects
    <3>1. told[g] # Unclear /\ (g \in broken \/ told[g] \in {<<>>, base[g]})
      BY <2>6 DEF Inv, SubjectsKnown
    <3> QED
      BY <2>1, <2>2, <2>3, <2>6, <3>1
  <2> QED
    BY <2>4, <2>5, <2>6 DEF Groups, Anchors
<1> QED
  BY <1>1, Invariance, PTL

\* Every check reports the groups that show records and others than before,
\* and no other group: nothing is lost between two checks, and nothing is
\* reported twice or for nothing.
THEOREM DifferencesCorrect ==
  Spec => DifferencesReported
<1> DEFINE Reported ==
      base # None /\ base' # base =>
        \A g \in Groups :
          (\E c \in found' : c.group = g)
            <=> /\ base'[g] # <<>>
                /\ g \in Subjects => base[g] # <<>>
                /\ ~SameRecords(base[g], base'[g])
<1>1. Inv /\ [Next]_vars => Reported
  <2> SUFFICES ASSUME Inv, [Next]_vars, base # None, base' # base, NEW g \in Groups
               PROVE  (\E c \in found' : c.group = g)
                        <=> /\ base'[g] # <<>>
                            /\ g \in Subjects => base[g] # <<>>
                            /\ ~SameRecords(base[g], base'[g])
    OBVIOUS
  <2> DEFINE old == base[g]
             now == portal[g]
             changes == {c \in ReconcileWithState(base, portal) : c.group = g}
  <2>1. Check
    BY DEF Next, FirstCheck, PortalChanges, vars
  <2>2. base' = portal /\ found' = ReconcileWithState(base, portal)
    <3> HIDE DEF ReconcileWithState, Replayed
    <3> QED
      BY <2>1 DEF Check
  <2>3. (\E c \in found' : c.group = g) <=> changes # {}
    BY <2>2
  <2>4. old \in Contents(g) /\ now \in Contents(g)
    BY SnapshotContents DEF Inv, TypeOK
  <2>5. /\ old \in Seq(States) /\ now \in Seq(States)
        /\ g \notin Fallback => Len(old) <= 1 /\ Len(now) <= 1
    BY <2>4, ContentsAreSequences
  <2>6. g \notin Fallback => (SameRecords(old, now) <=> old = now)
    BY <2>5, SingleSame
  <2>7. g \in Anchors => changes = ChangesAt(g, old, now)
    BY AnchorGroup
  <2>8. g \in Subjects => (changes # {} <=> (old # <<>> /\ now # <<>> /\ old # now))
    <3> SUFFICES ASSUME g \in Subjects
                 PROVE  changes # {} <=> (old # <<>> /\ now # <<>> /\ old # now)
      OBVIOUS
    <3>1. changes = IF old # <<>> /\ now # <<>> /\ old # now
                    THEN {Change("grades_changed", g, 1, old, now)} ELSE {}
      BY SubjectGroup
    <3> HIDE DEF Change, old, now, changes
    <3> QED
      BY <3>1
  <2> HIDE DEF old, now, changes
  <2>9. CASE g \in Sourced
    <3>1. changes # {} <=> (now # <<>> /\ now # old)
      <4>1. changes = IF now = <<>> \/ now = old THEN {}
                      ELSE IF old # <<>> THEN {Change("updated", g, 1, old, now)}
                      ELSE IF seen[g] # None
                      THEN {Change("reappeared", g, 1, <<seen[g]>>, now)}
                      ELSE {Change("added", g, 1, <<>>, now)}
        BY <2>4, <2>7, <2>9, SourcedChanges DEF Anchors
      <4> HIDE DEF Change
      <4> QED
        BY <4>1
    <3>2. g \notin Fallback /\ g \notin Subjects
      BY <2>9, AnchorsAssumption
    <3> QED
      BY <2>2, <2>3, <2>6, <3>1, <3>2 DEF old, now
  <2>10. CASE g \in Fallback
    <3>1. now # <<>> => DOMAIN now # {}
      <4>1. Len(now) \in Nat /\ DOMAIN now = 1 .. Len(now) /\ (now = <<>> <=> Len(now) = 0)
        BY <2>5, EmptyOrNot
      <4>2. Len(now) # 0 => 1 \in 1 .. Len(now)
        BY <4>1
      <4> QED
        BY <4>1, <4>2
    <3>2. changes # {} <=> (now # <<>> /\ ~SameRecords(old, now))
      <4> DEFINE Item(i) == Change("added", g, i, <<>>, <<now[i]>>)
      <4>1. changes =
              IF now = <<>> \/ SameRecords(old, now) THEN {}
              ELSE IF g \in unresolved THEN {Change("ambiguous", g, 0, old, now)}
              ELSE IF old = <<>> THEN {Item(i) : i \in DOMAIN now}
              ELSE IF Len(old) # Len(now) THEN {Change("ambiguous", g, 0, old, now)}
              ELSE IF Len(old) = 1 THEN {Change("updated", g, 1, old, now)}
              ELSE {Change("ambiguous", g, 0, Unmatched(old, now), Unmatched(now, old))}
        BY <2>4, <2>7, <2>10, FallbackChanges DEF Anchors
      <4> HIDE DEF Change, Item, SameRecords
      <4>2. now # <<>> => {Item(i) : i \in DOMAIN now} # {}
        BY <3>1
      <4> QED
        BY <4>1, <4>2
    <3>3. g \notin Subjects
      BY <2>10, AnchorsAssumption
    <3> QED
      BY <2>2, <2>3, <3>2, <3>3 DEF old, now
  <2>11. CASE g \in Subjects
    <3>1. g \notin Fallback
      BY <2>11, AnchorsAssumption
    <3> QED
      BY <2>2, <2>3, <2>6, <2>8, <2>11, <3>1 DEF old, now
  <2> QED
    BY <2>9, <2>10, <2>11 DEF Groups, Anchors
<1>2. Inv /\ [Next]_vars => [Reported]_vars
  BY <1>1
<1> QED
  BY <1>2, Invariance, PTL DEF Spec, DifferencesReported
================================================================================
