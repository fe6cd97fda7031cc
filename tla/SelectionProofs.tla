---------------------------- MODULE SelectionProofs ----------------------------
(***************************************************************************)
(* What Selected gives, and the extremes of sets of numbers: lemmas of the *)
(* proofs about the components.  A recursive function cannot be reasoned   *)
(* about by the induction theorems of the library; its equations and its   *)
(* values are established by taking the least argument at which a claim    *)
(* would fail.                                                             *)
(***************************************************************************)
EXTENDS Selection, FiniteSetTheorems, TLAPS

-----------------------------------------------------------------------------
\* A set of natural numbers that is not empty has a least element.
LEMMA LeastElement ==
  ASSUME NEW T \in SUBSET Nat, T # {}
  PROVE  \E n \in T : \A m \in T : n <= m
<1> DEFINE R == OpToRel(<, Nat)
<1>1. IsWellFoundedOn(R, Nat)
  BY NatLessThanWellFounded
<1> HIDE DEF R
<1>2. PICK n \in T : \A m \in T : <<m, n>> \notin R
  BY <1>1, WFMin, Zenon
<1>3. ASSUME NEW m \in T
      PROVE  n <= m
  <2>1. <<m, n>> \notin R /\ m \in Nat /\ n \in Nat
    BY <1>2
  <2>2. ~(m < n)
    BY <2>1 DEF R, OpToRel
  <2> QED
    BY <2>1, <2>2
<1> QED
  BY <1>3

\* One that is bounded has a greatest.
LEMMA GreatestElement ==
  ASSUME NEW T \in SUBSET Nat, T # {}, NEW bound \in Nat, \A n \in T : n <= bound
  PROVE  \E n \in T : \A m \in T : m <= n
<1> DEFINE U == {n \in Nat : \A m \in T : m <= n}
<1>1. bound \in U
  OBVIOUS
<1>2. PICK n \in U : \A m \in U : n <= m
  <2> HIDE DEF U
  <2> U \in SUBSET Nat
    BY DEF U
  <2> QED
    BY <1>1, LeastElement
<1>3. n \in T
  <2> SUFFICES ASSUME n \notin T PROVE FALSE
    OBVIOUS
  <2>1. n > 0
    <3>1. PICK t \in T : t <= n
      BY <1>2
    <3> QED
      BY <3>1, <1>2
  <2>2. n - 1 \in U
    BY <2>1, <1>2
  <2> QED
    BY <2>2, <1>2
<1> QED
  BY <1>2, <1>3

-----------------------------------------------------------------------------
(* Selected. *)

\* The recursive function in Selected exists, and has its equations.
LEMMA SelectedUnfolds ==
  ASSUME NEW s, Len(s) \in Nat, NEW chosen
  PROVE  \E upTo :
           /\ upTo = [i \in 0 .. Len(s) |->
                        IF i = 0 THEN <<>>
                        ELSE IF i \in chosen THEN Append(upTo[i - 1], s[i]) ELSE upTo[i - 1]]
           /\ Selected(s, chosen) = upTo[Len(s)]
<1> DEFINE Step(f, i) ==
             IF i = 0 THEN <<>>
             ELSE IF i \in chosen THEN Append(f[i - 1], s[i]) ELSE f[i - 1]
           Has(k) == \E f : f = [i \in 0 .. k |-> Step(f, i)]
           Fails == {k \in Nat : ~ Has(k)}
<1>1. Fails = {}
  <2> SUFFICES ASSUME Fails # {} PROVE FALSE
    OBVIOUS
  <2> HIDE DEF Has
  <2>1. PICK k \in Fails : \A m \in Fails : k <= m
    BY LeastElement
  <2>2. CASE k = 0
    <3> DEFINE f == [i \in 0 .. 0 |-> <<>>]
    <3>1. f = [i \in 0 .. 0 |-> Step(f, i)]
      OBVIOUS
    <3>2. Has(0)
      BY <3>1 DEF Has
    <3> QED
      BY <2>1, <2>2, <3>2
  <2>3. CASE k # 0
    <3>1. k - 1 \in Nat /\ k - 1 \notin Fails
      BY <2>1, <2>3
    <3>2. PICK f : f = [i \in 0 .. k - 1 |-> Step(f, i)]
      <4>1. Has(k - 1)
        BY <3>1
      <4> QED
        BY <4>1 DEF Has
    <3> DEFINE g == [i \in 0 .. k |-> IF i = k THEN Step(f, k) ELSE f[i]]
    <3>3. ASSUME NEW i \in 0 .. k PROVE g[i] = Step(g, i)
      <4>1. i # 0 => g[i - 1] = f[i - 1]
        BY <3>1
      <4>2. Step(g, i) = Step(f, i)
        BY <4>1
      <4>3. i # k => f[i] = Step(f, i)
        <5> HIDE DEF Step
        <5> QED
          BY <3>1, <3>2
      <4> QED
        BY <4>2, <4>3
    <3>4. g = [i \in 0 .. k |-> Step(g, i)]
      <4> HIDE DEF Step
      <4> QED
        BY <3>3
    <3>5. Has(k)
      BY <3>4 DEF Has
    <3> QED
      BY <2>1, <3>5
  <2> QED
    BY <2>2, <2>3
<1>2. \E f : f = [i \in 0 .. Len(s) |-> Step(f, i)]
  <2> HIDE DEF Step
  <2> QED
    BY <1>1
<1> QED
  BY <1>2 DEF Selected

\* The sequence result selects the chosen ones of the first n positions of s,
\* and at tells from which position each of its items comes.
Selects(at, result, s, chosen, n) ==
  /\ \A k \in DOMAIN result :
       /\ at[k] \in 1 .. n /\ at[k] \in chosen
       /\ result[k] = s[at[k]]
  /\ \A k, l \in DOMAIN result : k < l => at[k] < at[l]
  /\ \A i \in 1 .. n : i \in chosen => \E k \in DOMAIN result : at[k] = i

\* Selected keeps the chosen items, each once, and their order.
LEMMA SelectedFacts ==
  ASSUME NEW S, NEW s \in Seq(S), NEW chosen
  PROVE  /\ Selected(s, chosen) \in Seq(S)
         /\ \E at : Selects(at, Selected(s, chosen), s, chosen, Len(s))
<1>1. Len(s) \in Nat /\ DOMAIN s = 1 .. Len(s)
  OBVIOUS
<1>2. PICK upTo :
        /\ upTo = [i \in 0 .. Len(s) |->
                     IF i = 0 THEN <<>>
                     ELSE IF i \in chosen THEN Append(upTo[i - 1], s[i]) ELSE upTo[i - 1]]
        /\ Selected(s, chosen) = upTo[Len(s)]
  BY <1>1, SelectedUnfolds
<1> DEFINE Good(n) == upTo[n] \in Seq(S) /\ \E at : Selects(at, upTo[n], s, chosen, n)
           Fails == {n \in 0 .. Len(s) : ~Good(n)}
<1> HIDE DEF Good
<1>3. upTo[0] = <<>>
  BY <1>1, <1>2
<1>4. \A n \in 1 .. Len(s) :
        upTo[n] = IF n \in chosen THEN Append(upTo[n - 1], s[n]) ELSE upTo[n - 1]
  <2> TAKE n \in 1 .. Len(s)
  <2>1. n \in 0 .. Len(s) /\ n # 0
    BY <1>1
  <2> QED
    BY <1>2, <2>1, Zenon
<1>5. Fails = {}
  <2> SUFFICES ASSUME Fails # {} PROVE FALSE
    OBVIOUS
  <2>1. PICK n \in Fails : \A m \in Fails : n <= m
    <3>1. Fails \in SUBSET Nat
      BY <1>1
    <3> HIDE DEF Fails
    <3> QED
      BY <3>1, LeastElement
  <2>2. CASE n = 0
    <3>1. Good(0)
      BY <1>3 DEF Selects, Good
    <3> QED
      BY <2>1, <2>2, <3>1
  <2>3. CASE n # 0
    <3>1. n \in 1 .. Len(s) /\ n - 1 \in 0 .. Len(s) /\ Good(n - 1)
      BY <1>1, <2>1, <2>3
    <3>2. PICK at : Selects(at, upTo[n - 1], s, chosen, n - 1)
      BY <3>1 DEF Good
    <3> DEFINE r == upTo[n - 1]
    <3>3. r \in Seq(S) /\ Len(r) \in Nat /\ DOMAIN r = 1 .. Len(r)
      BY <3>1 DEF Good
    <3>4. CASE n \in chosen
      <4> DEFINE q == upTo[n]
                 to == [k \in 1 .. Len(r) + 1 |-> IF k = Len(r) + 1 THEN n ELSE at[k]]
      <4>1. q = Append(r, s[n]) /\ s[n] \in S
        <5>1. s[n] \in S
          BY <1>1, <3>1
        <5> QED
          BY <1>4, <3>1, <3>4, <5>1
      <4>2. /\ q \in Seq(S) /\ DOMAIN q = 1 .. Len(r) + 1
            /\ \A k \in 1 .. Len(r) : q[k] = r[k]
            /\ q[Len(r) + 1] = s[n]
        BY <3>3, <4>1
      <4>3. to[Len(r) + 1] = n /\ \A k \in 1 .. Len(r) : to[k] = at[k]
        BY <3>3
      <4> HIDE DEF q, r, to
      <4>4. \A k \in 1 .. Len(r) : at[k] \in 1 .. n - 1
        BY <3>2, <3>3 DEF Selects, r
      <4>5. ASSUME NEW k \in DOMAIN q
            PROVE  to[k] \in 1 .. n /\ to[k] \in chosen /\ q[k] = s[to[k]]
        <5>1. CASE k = Len(r) + 1
          BY <3>1, <3>4, <4>2, <4>3, <5>1
        <5>2. CASE k # Len(r) + 1
          <6>1. k \in 1 .. Len(r)
            BY <3>3, <4>2, <5>2
          <6>2. at[k] \in 1 .. n - 1 /\ at[k] \in chosen /\ r[k] = s[at[k]]
            BY <3>2, <3>3, <6>1 DEF Selects, r
          <6> QED
            BY <3>1, <4>2, <4>3, <6>1, <6>2
        <5> QED
          BY <5>1, <5>2
      <4>6. ASSUME NEW k \in DOMAIN q, NEW l \in DOMAIN q, k < l
            PROVE  to[k] < to[l]
        <5>1. k \in 1 .. Len(r)
          BY <3>3, <4>2, <4>6
        <5>2. CASE l = Len(r) + 1
          BY <3>1, <4>3, <4>4, <5>1, <5>2
        <5>3. CASE l # Len(r) + 1
          <6>1. l \in 1 .. Len(r)
            BY <3>3, <4>2, <5>3
          <6> QED
            BY <3>2, <3>3, <4>3, <4>6, <5>1, <6>1 DEF Selects, r
        <5> QED
          BY <5>2, <5>3
      <4>7. ASSUME NEW i \in 1 .. n, i \in chosen
            PROVE  \E k \in DOMAIN q : to[k] = i
        <5>1. CASE i = n
          BY <3>3, <4>2, <4>3, <5>1
        <5>2. CASE i # n
          <6>1. i \in 1 .. n - 1
            BY <3>1, <5>2
          <6>2. PICK k \in DOMAIN r : at[k] = i
            BY <3>2, <4>7, <6>1 DEF Selects, r
          <6>3. k \in 1 .. Len(r)
            BY <3>3
          <6> QED
            BY <3>3, <4>2, <4>3, <6>2, <6>3
        <5> QED
          BY <5>1, <5>2
      <4>8. Selects(to, q, s, chosen, n)
        BY <4>5, <4>6, <4>7 DEF Selects
      <4>9. Good(n)
        BY <4>2, <4>8 DEF q, Good
      <4> QED
        BY <2>1, <4>9
    <3>5. CASE n \notin chosen
      <4>1. upTo[n] = r
        BY <1>4, <3>1, <3>5
      <4> HIDE DEF r
      <4>2. Selects(at, r, s, chosen, n - 1)
        BY <3>2 DEF r
      <4>3. \A k \in DOMAIN r : at[k] \in 1 .. n /\ at[k] \in chosen /\ r[k] = s[at[k]]
        BY <3>1, <4>2 DEF Selects
      <4>4. \A i \in 1 .. n : i \in chosen => i \in 1 .. n - 1
        BY <3>1, <3>5
      <4>5. Selects(at, r, s, chosen, n)
        BY <4>2, <4>3, <4>4 DEF Selects
      <4>6. Good(n)
        BY <3>3, <4>1, <4>5 DEF Good, r
      <4> QED
        BY <2>1, <4>6
    <3> QED
      BY <3>4, <3>5
  <2> QED
    BY <2>2, <2>3
<1>6. Good(Len(s))
  BY <1>1, <1>5
<1> QED
  BY <1>2, <1>6 DEF Good

\* All items selected are the sequence itself.
LEMMA SelectedAll ==
  ASSUME NEW S, NEW s \in Seq(S), NEW chosen, 1 .. Len(s) \subseteq chosen
  PROVE  Selected(s, chosen) = s
<1>1. Len(s) \in Nat /\ DOMAIN s = 1 .. Len(s)
  OBVIOUS
<1>2. PICK upTo :
        /\ upTo = [i \in 0 .. Len(s) |->
                     IF i = 0 THEN <<>>
                     ELSE IF i \in chosen THEN Append(upTo[i - 1], s[i]) ELSE upTo[i - 1]]
        /\ Selected(s, chosen) = upTo[Len(s)]
  BY <1>1, SelectedUnfolds
<1>3. upTo[0] = <<>>
  BY <1>1, <1>2
<1>4. \A n \in 1 .. Len(s) : upTo[n] = Append(upTo[n - 1], s[n])
  <2> TAKE n \in 1 .. Len(s)
  <2>1. n \in 0 .. Len(s) /\ n # 0 /\ n \in chosen
    BY <1>1
  <2> QED
    BY <1>2, <2>1, Zenon
<1> DEFINE Fails == {n \in 0 .. Len(s) : upTo[n] # SubSeq(s, 1, n)}
<1>5. Fails = {}
  <2> SUFFICES ASSUME Fails # {} PROVE FALSE
    OBVIOUS
  <2>1. PICK n \in Fails : \A m \in Fails : n <= m
    <3>1. Fails \in SUBSET Nat
      BY <1>1
    <3> HIDE DEF Fails
    <3> QED
      BY <3>1, LeastElement
  <2>2. n # 0
    <3>1. SubSeq(s, 1, 0) = <<>>
      OBVIOUS
    <3> QED
      BY <1>3, <2>1, <3>1
  <2>3. n \in 1 .. Len(s) /\ n - 1 \in 0 .. Len(s) /\ upTo[n - 1] = SubSeq(s, 1, n - 1)
    BY <1>1, <2>1, <2>2
  <2>4. Append(SubSeq(s, 1, n - 1), s[n]) = SubSeq(s, 1, n)
    BY <1>1, <2>3
  <2> QED
    BY <1>4, <2>1, <2>3, <2>4
<1>6. upTo[Len(s)] = SubSeq(s, 1, Len(s))
  BY <1>1, <1>5
<1>7. SubSeq(s, 1, Len(s)) = s
  OBVIOUS
<1> QED
  BY <1>2, <1>6, <1>7

=============================================================================
