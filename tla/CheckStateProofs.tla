--------------------------- MODULE CheckStateProofs ---------------------------
(***************************************************************************)
(* Proofs about CheckState, for any enrolments, records, consumers, limits *)
(* and bounds.                                                             *)
(*                                                                         *)
(* The properties fall into two groups with one inductive invariant:       *)
(* numbers (sequences, tokens and check ids are fresh, and a cursor's      *)
(* batch continues it) and versions (the events of a record, replayed,     *)
(* give its baseline).  What a commit appends is computed by the recursive *)
(* function in Applied; its value is established by taking the least index *)
(* at which a claim would fail (LeastElement).                             *)
(***************************************************************************)
EXTENDS CheckState, SelectionProofs

-----------------------------------------------------------------------------
(* The inductive invariant. *)

\* Every number in use was made visible by an earlier generation, so that the
\* next generation's is fresh.
FreshInv ==
  /\ \A i \in DOMAIN doc.events : doc.events[i].id[1] <= doc.generation
  /\ doc.success # None => doc.success.id <= doc.generation
  /\ \A c \in Registered(doc) :
       /\ \A t \in doc.consumers[c].tokens : t <= doc.generation
       /\ doc.consumers[c].pending # None =>
            doc.consumers[c].pending.token <= doc.generation
  /\ \A c \in Consumers : \A b \in received[c] : b.token <= doc.generation

\* Nothing is written while a check runs but by that check.
CheckInv ==
  Reading =>
    /\ check.id = doc.generation + 1
    /\ check.prior = doc.baselines

\* What a consumer was given is acknowledged or pending, and a token that was
\* given belongs to the batch that was given with it.
DeliveryInv ==
  /\ \A c \in Consumers : \A b \in received[c] :
       /\ c \in Registered(doc)
       /\ b = doc.consumers[c].pending
            \/ b.through <= doc.consumers[c].acknowledgedThrough
  /\ \A c, x \in Registered(doc) :
       doc.consumers[c].pending # None =>
         /\ doc.consumers[x].pending # None
              /\ doc.consumers[x].pending.token = doc.consumers[c].pending.token
              => x = c
         /\ \A b \in received[x] :
              b.token = doc.consumers[c].pending.token =>
                x = c /\ b = doc.consumers[c].pending

\* Versions go forward: from the events of a record to its baseline, what a
\* running check has read, and what the portal shows.
VersionInv ==
  /\ \A e \in Enrolments, r \in Records :
       /\ doc.baselines[e] # None => doc.baselines[e].snapshot[r] <= portal[e][r]
       /\ Reading /\ e \in DOMAIN check.observed =>
            /\ check.observed[e][r] <= portal[e][r]
            /\ doc.baselines[e] # None =>
                 doc.baselines[e].snapshot[r] <= check.observed[e][r]
  /\ \A i \in DOMAIN doc.events :
       LET change == doc.events[i].change
       IN  /\ doc.baselines[change.enrolment] # None
           /\ change.version <= doc.baselines[change.enrolment].snapshot[change.record]

\* An enrolment without a baseline has none in the history either.
EnrolledInv ==
  \A e \in Enrolments : enrolled[e] # None => doc.baselines[e] # None

NumberInv == TypeOK /\ WellFormed /\ FreshInv /\ CheckInv /\ DeliveryInv /\ StableBatches
Inv ==
  /\ NumberInv
  /\ OneVerdict
  /\ VersionInv /\ EnrolledInv /\ NoTransitionTwice /\ HistoryReplaysBaselines

-----------------------------------------------------------------------------
(* The recursive function of a commit. *)

\* The recursive function in Applied exists, and has its equations.
LEMMA AppliedUnfolds ==
  ASSUME NEW d, NEW id, NEW items, Len(items) \in Nat
  PROVE  \E after :
           /\ after = [i \in 0 .. Len(items) |->
                         IF i = 0 THEN d ELSE Appended(after[i - 1], <<id, i>>, items[i])]
           /\ Applied(d, id, items) = after[Len(items)]
<1> DEFINE Step(f, i) == IF i = 0 THEN d ELSE Appended(f[i - 1], <<id, i>>, items[i])
           Fails == {k \in Nat : ~ \E f : f = [i \in 0 .. k |-> Step(f, i)]}
<1>1. Fails = {}
  <2> SUFFICES ASSUME Fails # {} PROVE FALSE
    OBVIOUS
  <2>1. PICK k \in Fails : \A m \in Fails : k <= m
    BY LeastElement
  <2>2. CASE k = 0
    <3> DEFINE f == [i \in 0 .. 0 |-> d]
    <3>1. f = [i \in 0 .. 0 |-> Step(f, i)]
      OBVIOUS
    <3> QED
      BY <2>1, <2>2, <3>1
  <2>3. CASE k # 0
    <3>1. k - 1 \in Nat /\ k - 1 \notin Fails
      BY <2>1, <2>3
    <3>2. PICK f : f = [i \in 0 .. k - 1 |-> Step(f, i)]
      BY <3>1
    <3> DEFINE g == [i \in 0 .. k |-> IF i = k THEN Step(f, k) ELSE f[i]]
    <3>3. ASSUME NEW i \in 0 .. k PROVE g[i] = Step(g, i)
      <4>1. i # 0 => g[i - 1] = f[i - 1]
        BY <3>1
      <4>2. Step(g, i) = Step(f, i)
        BY <4>1
      <4>3. i # k => f[i] = Step(f, i)
        BY <3>1, <3>2
      <4> QED
        BY <4>2, <4>3
    <3>4. g = [i \in 0 .. k |-> Step(g, i)]
      <4> HIDE DEF Step
      <4> QED
        BY <3>3
    <3> QED
      BY <2>1, <3>4
  <2> QED
    BY <2>2, <2>3
<1>2. \E f : f = [i \in 0 .. Len(items) |-> Step(f, i)]
  BY <1>1
<1> QED
  BY <1>2 DEF Applied

-----------------------------------------------------------------------------
(* What a commit appends. *)

\* The revision of every event counts the events of its record so far.
Counted(events) ==
  \A j \in DOMAIN events :
    events[j].revision =
      Cardinality({i \in 1 .. j - 1 : SameRecord(events[i].change, events[j].change)}) + 1

\* The document after has the first k items of the check id behind the events
\* of the document before.
Extends(after, before, id, items, k) ==
  /\ after \in Documents
  /\ after.nextSequence = before.nextSequence + k
  /\ after.generation = before.generation
  /\ after.baselines = before.baselines
  /\ after.consumers = before.consumers
  /\ Len(after.events) = Len(before.events) + k
  /\ \A i \in 1 .. Len(before.events) : after.events[i] = before.events[i]
  /\ \A i \in 1 .. k :
       LET event == after.events[Len(before.events) + i]
       IN  /\ event.id = <<id, i>>
           /\ event.sequence = before.nextSequence + i - 1
           /\ event.change = items[i]
  /\ Counted(after.events)

\* A set of positions in a sequence is finite.
LEMMA PositionsFinite ==
  ASSUME NEW n \in Nat, NEW T \in SUBSET (1 .. n)
  PROVE  IsFiniteSet(T) /\ Cardinality(T) \in Nat
<1>1. IsFiniteSet(1 .. n)
  BY FS_Interval
<1>2. IsFiniteSet(T)
  BY <1>1, FS_Subset
<1> QED
  BY <1>2, FS_CardinalityType

\* Revision counts the events of a record, although it looks at the last only.
LEMMA RevisionCounts ==
  ASSUME NEW events \in Seq(RetainedEvents), Counted(events), NEW change \in Changes
  PROVE  /\ Revision(events, change) \in Nat
         /\ Revision(events, change) =
              Cardinality({i \in 1 .. Len(events) : SameRecord(events[i].change, change)}) + 1
<1> DEFINE earlier == {i \in 1 .. Len(events) : SameRecord(events[i].change, change)}
<1>1. Len(events) \in Nat /\ DOMAIN events = 1 .. Len(events)
  OBVIOUS
<1>2. IsFiniteSet(earlier) /\ Cardinality(earlier) \in Nat
  BY <1>1, PositionsFinite
<1>3. Revision(events, change) =
        IF earlier = {} THEN 1
        ELSE events[CHOOSE i \in earlier : \A j \in earlier : j <= i].revision + 1
  BY <1>1 DEF Revision
<1>4. CASE earlier = {}
  <2>1. Cardinality(earlier) = 0
    BY <1>4, FS_EmptySet
  <2> QED
    BY <1>3, <1>4, <2>1
<1>5. CASE earlier # {}
  <2>1. PICK last \in earlier : /\ \A j \in earlier : j <= last
                                /\ last = CHOOSE i \in earlier : \A j \in earlier : j <= i
    <3>1. earlier \in SUBSET Nat /\ \A i \in earlier : i <= Len(events)
      BY <1>1
    <3> HIDE DEF earlier
    <3>2. \E i \in earlier : \A j \in earlier : j <= i
      BY <3>1, <1>1, <1>5, GreatestElement
    <3> QED
      BY <3>2
  <2>2. last \in 1 .. Len(events) /\ SameRecord(events[last].change, change)
    BY <2>1
  <2> DEFINE before == {i \in 1 .. last - 1 : SameRecord(events[i].change, events[last].change)}
  <2>3. earlier = before \cup {last} /\ last \notin before
    <3>1. last \notin before /\ last \in earlier
      <4>1. last \notin 1 .. last - 1
        BY <2>2
      <4> HIDE DEF earlier
      <4> QED
        BY <2>1, <4>1
    <3>2. ASSUME NEW i \in earlier, i # last
          PROVE  i \in before
      <4>1. i \in 1 .. last - 1
        BY <1>1, <2>1, <2>2, <3>2
      <4> QED
        BY <4>1, <2>2, <3>2 DEF SameRecord
    <3>3. ASSUME NEW i \in before
          PROVE  i \in earlier
      <4>1. i \in 1 .. Len(events)
        BY <1>1, <2>2
      <4> QED
        BY <4>1, <2>2, <3>3 DEF SameRecord
    <3> HIDE DEF earlier, before
    <3> QED
      BY <3>1, <3>2, <3>3
  <2>4. IsFiniteSet(before) /\ Cardinality(before) \in Nat
    <3>1. last - 1 \in Nat /\ before \in SUBSET (1 .. last - 1)
      BY <1>1, <2>2
    <3> HIDE DEF before
    <3> QED
      BY <3>1, PositionsFinite
  <2>5. Cardinality(earlier) = Cardinality(before) + 1
    <3> HIDE DEF earlier, before
    <3> QED
      BY <2>3, <2>4, FS_AddElement
  <2>6. events[last].revision = Cardinality(before) + 1
    BY <1>1, <2>2 DEF Counted
  <2>7. Revision(events, change) = events[last].revision + 1
    <3> HIDE DEF earlier
    <3> QED
      BY <1>3, <1>5, <2>1
  <2> HIDE DEF before
  <2> QED
    BY <2>4, <2>5, <2>6, <2>7
<1> QED
  BY <1>4, <1>5

\* One item that is not retained yet goes behind the events.
LEMMA AppendsOne ==
  ASSUME NEW d \in Documents, Counted(d.events), NEW id \in Nat \X Nat,
         NEW change \in Changes, ~Retained(d, id)
  PROVE  LET x     == Appended(d, id, change)
             event == [id       |-> id,
                       sequence |-> d.nextSequence,
                       revision |-> Revision(d.events, change),
                       change   |-> change]
         IN  /\ x = [d EXCEPT !.events = Append(d.events, event),
                              !.nextSequence = d.nextSequence + 1]
             /\ event \in RetainedEvents
             /\ x \in Documents
             /\ Counted(x.events)
<1> DEFINE x     == Appended(d, id, change)
           event == [id       |-> id,
                     sequence |-> d.nextSequence,
                     revision |-> Revision(d.events, change),
                     change   |-> change]
           events == Append(d.events, event)
<1>1. d.events \in Seq(RetainedEvents) /\ d.nextSequence \in Nat
  BY DEF Documents
<1>2. /\ Revision(d.events, change) \in Nat
      /\ Revision(d.events, change) =
           Cardinality({i \in 1 .. Len(d.events) : SameRecord(d.events[i].change, change)}) + 1
  BY <1>1, RevisionCounts
<1>3. event \in RetainedEvents
  BY <1>1, <1>2 DEF RetainedEvents
<1>4. x = [d EXCEPT !.events = events, !.nextSequence = d.nextSequence + 1]
  BY DEF Appended, Documents
<1>5. /\ events \in Seq(RetainedEvents)
      /\ Len(events) = Len(d.events) + 1
      /\ Len(d.events) \in Nat
      /\ \A i \in 1 .. Len(d.events) : events[i] = d.events[i]
      /\ events[Len(d.events) + 1] = event
      /\ DOMAIN events = 1 .. Len(events)
      /\ DOMAIN d.events = 1 .. Len(d.events)
  <2> HIDE DEF event
  <2> QED
    BY <1>1, <1>3
<1>6. x \in Documents /\ x.events = events
  <2>1. events \in Seq(RetainedEvents) /\ d.nextSequence + 1 \in Nat
    BY <1>1, <1>5
  <2> DEFINE n == d.nextSequence + 1
  <2> HIDE DEF x, events, n
  <2>2. n \in Nat
    BY <2>1 DEF n
  <2>3. x = [d EXCEPT !.events = events, !.nextSequence = n]
    BY <1>4 DEF n
  <2> QED
    BY <2>1, <2>2, <2>3 DEF Documents
<1>7. ASSUME NEW j \in DOMAIN events
      PROVE  events[j].revision =
               Cardinality({i \in 1 .. j - 1 : SameRecord(events[i].change, events[j].change)}) + 1
  <2>1. CASE j = Len(d.events) + 1
    <3>1. events[j].change = change /\ events[j].revision = Revision(d.events, change)
      BY <1>5, <2>1
    <3>2. {i \in 1 .. j - 1 : SameRecord(events[i].change, events[j].change)}
            = {i \in 1 .. Len(d.events) : SameRecord(d.events[i].change, change)}
      <4> HIDE DEF events
      <4> QED
        BY <1>5, <2>1, <3>1
    <3> HIDE DEF events
    <3> QED
      BY <1>2, <3>1, <3>2
  <2>2. CASE j # Len(d.events) + 1
    <3> HIDE DEF events
    <3>1. j \in DOMAIN d.events /\ events[j] = d.events[j]
      BY <1>5, <2>2
    <3>2. {i \in 1 .. j - 1 : SameRecord(events[i].change, events[j].change)}
            = {i \in 1 .. j - 1 : SameRecord(d.events[i].change, d.events[j].change)}
      BY <1>5, <3>1, SMTT(60)
    <3> QED
      BY <3>1, <3>2 DEF Counted
  <2> QED
    BY <2>1, <2>2
<1> HIDE DEF x, event, events
<1>8. Counted(x.events)
  BY <1>6, <1>7 DEF Counted
<1> QED
  BY <1>3, <1>4, <1>6, <1>8 DEF x, event, events

\* Each item extends the document by one.
LEMMA ExtendsByOne ==
  ASSUME NEW d \in Documents, NEW id \in Nat, NEW items \in Seq(Changes),
         \A i \in DOMAIN d.events : d.events[i].id[1] # id,
         NEW k \in 1 .. Len(items), NEW x, Extends(x, d, id, items, k - 1)
  PROVE  Extends(Appended(x, <<id, k>>, items[k]), d, id, items, k)
<1> DEFINE n == Len(d.events)
           y == Appended(x, <<id, k>>, items[k])
<1>1. /\ d.events \in Seq(RetainedEvents) /\ x.events \in Seq(RetainedEvents)
      /\ d.nextSequence \in Nat /\ n \in Nat /\ k \in Nat /\ k - 1 \in Nat
      /\ items[k] \in Changes
      /\ x.nextSequence = d.nextSequence + (k - 1)
  <2>1. d.events \in Seq(RetainedEvents) /\ d.nextSequence \in Nat
    BY DEF Documents
  <2>2. x.events \in Seq(RetainedEvents)
    BY DEF Extends, Documents
  <2>3. x.nextSequence = d.nextSequence + (k - 1)
    BY DEF Extends
  <2> HIDE DEF y
  <2> QED
    BY <2>1, <2>2, <2>3
<1>2. Len(x.events) = n + (k - 1) /\ Counted(x.events) /\ x \in Documents
  BY DEF Extends
<1>3. ASSUME NEW i \in DOMAIN x.events
      PROVE  x.events[i].id # <<id, k>>
  <2>1. i \in 1 .. n + (k - 1)
    <3>1. DOMAIN x.events = 1 .. Len(x.events)
      BY <1>1
    <3> HIDE DEF n
    <3> QED
      BY <1>2, <3>1
  <2>2. CASE i <= n
    <3>1. x.events[i] = d.events[i] /\ d.events[i] \in RetainedEvents /\ i \in DOMAIN d.events
      BY <1>1, <2>1, <2>2 DEF Extends
    <3> QED
      BY <3>1 DEF RetainedEvents
  <2>3. CASE i > n
    <3> DEFINE h == i - n
    <3>1. h \in 1 .. k - 1 /\ i = n + h
      <4> HIDE DEF n
      <4>1. n \in Nat /\ k \in Nat /\ i \in 1 .. n + (k - 1) /\ i > n
        BY <1>1, <2>1, <2>3
      <4> QED
        BY <4>1
    <3> HIDE DEF h
    <3>2. x.events[i].id = <<id, h>>
      BY <3>1 DEF Extends
    <3> QED
      BY <1>1, <3>1, <3>2
  <2> QED
    BY <1>1, <2>1, <2>2, <2>3, SMTT(60)
<1>4. ~Retained(x, <<id, k>>)
  BY <1>3 DEF Retained
<1> DEFINE event == [id       |-> <<id, k>>,
                     sequence |-> x.nextSequence,
                     revision |-> Revision(x.events, items[k]),
                     change   |-> items[k]]
<1>5. /\ y = [x EXCEPT !.events = Append(x.events, event),
                       !.nextSequence = x.nextSequence + 1]
      /\ event \in RetainedEvents
      /\ y \in Documents
      /\ Counted(y.events)
  <2>1. <<id, k>> \in Nat \X Nat
    BY <1>1
  <2> QED
    BY <1>1, <1>2, <1>4, <2>1, AppendsOne
<1> DEFINE events == Append(x.events, event)
<1>6. y.events = events
  <2> HIDE DEF event, events
  <2> QED
    BY <1>2, <1>5 DEF Documents, events
<1>7. /\ Len(events) = n + k
      /\ \A i \in 1 .. n + (k - 1) : events[i] = x.events[i]
      /\ events[n + k] = event
  <2>1. x.events \in Seq(RetainedEvents) /\ Len(x.events) \in Nat
    BY <1>1
  <2> HIDE DEF event
  <2>2. /\ Len(events) = Len(x.events) + 1
        /\ \A i \in 1 .. Len(x.events) : events[i] = x.events[i]
        /\ events[Len(x.events) + 1] = event
    BY <1>5, <2>1
  <2>3. Len(x.events) = n + (k - 1) /\ n + (k - 1) + 1 = n + k
    <3> HIDE DEF n
    <3> QED
      BY <1>1, <1>2
  <2> HIDE DEF events, n
  <2> QED
    BY <2>2, <2>3
<1>8. /\ y.nextSequence = d.nextSequence + k
      /\ y.generation = d.generation
      /\ y.baselines = d.baselines
      /\ y.consumers = d.consumers
  <2>1. /\ x.nextSequence + 1 = d.nextSequence + k
        /\ x.generation = d.generation
        /\ x.baselines = d.baselines
        /\ x.consumers = d.consumers
    BY <1>1 DEF Extends
  <2> HIDE DEF event, y
  <2> QED
    BY <1>2, <1>5, <2>1 DEF Documents
<1>9. ASSUME NEW i \in 1 .. k
      PROVE  /\ y.events[n + i].id = <<id, i>>
             /\ y.events[n + i].sequence = d.nextSequence + i - 1
             /\ y.events[n + i].change = items[i]
  <2> HIDE DEF y, events
  <2>1. CASE i = k
    BY <1>1, <1>6, <1>7, <2>1, SMTT(60)
  <2>2. CASE i # k
    <3>1. i \in 1 .. k - 1 /\ n + i \in 1 .. n + (k - 1)
      BY <1>1, <2>2, SMTT(60)
    <3> QED
      BY <1>6, <1>7, <3>1 DEF Extends
  <2> QED
    BY <2>1, <2>2
<1>10. \A i \in 1 .. n : y.events[i] = d.events[i]
  <2>1. \A i \in 1 .. n : i \in 1 .. n + (k - 1)
    BY <1>1
  <2> HIDE DEF y, events
  <2> QED
    BY <1>6, <1>7, <2>1 DEF Extends
<1> HIDE DEF y, events
<1> QED
  BY <1>5, <1>6, <1>7, <1>8, <1>9, <1>10 DEF Extends, y

\* What a successful check appends, for any number of items.
LEMMA AppliedExtends ==
  ASSUME NEW d \in Documents, Counted(d.events), NEW id \in Nat, NEW items \in Seq(Changes),
         \A i \in DOMAIN d.events : d.events[i].id[1] # id
  PROVE  Extends(Applied(d, id, items), d, id, items, Len(items))
<1>1. Len(items) \in Nat
  OBVIOUS
<1>2. PICK after :
        /\ after = [i \in 0 .. Len(items) |->
                      IF i = 0 THEN d ELSE Appended(after[i - 1], <<id, i>>, items[i])]
        /\ Applied(d, id, items) = after[Len(items)]
  BY <1>1, AppliedUnfolds
<1>3. after[0] = d
  BY <1>1, <1>2
<1>4. ASSUME NEW k \in 1 .. Len(items)
      PROVE  after[k] = Appended(after[k - 1], <<id, k>>, items[k])
  <2>1. k \in 0 .. Len(items) /\ k # 0
    BY <1>1
  <2> QED
    BY <1>2, <2>1
<1>5. Extends(d, d, id, items, 0)
  <2>1. d.events \in Seq(RetainedEvents) /\ d.nextSequence \in Nat
    BY DEF Documents
  <2> QED
    BY <2>1 DEF Extends
<1> DEFINE Fails == {k \in 0 .. Len(items) : ~Extends(after[k], d, id, items, k)}
<1>6. Fails = {}
  <2> SUFFICES ASSUME Fails # {} PROVE FALSE
    OBVIOUS
  <2>1. PICK k \in Fails : \A m \in Fails : k <= m
    <3>1. Fails \in SUBSET Nat
      BY <1>1
    <3> HIDE DEF Fails
    <3> QED
      BY <3>1, LeastElement
  <2>2. k \in 1 .. Len(items)
    BY <1>1, <1>3, <1>5, <2>1
  <2>3. k - 1 \in 0 .. Len(items) /\ k - 1 \notin Fails
    BY <1>1, <2>1, <2>2
  <2>4. Extends(after[k - 1], d, id, items, k - 1)
    BY <2>3
  <2>5. Extends(after[k], d, id, items, k)
    BY <1>4, <2>2, <2>4, ExtendsByOne
  <2> QED
    BY <2>1, <2>5
<1> QED
  BY <1>1, <1>2, <1>6, SMTT(60)

\* An ordering of a finite set has every element of it, once.
LEMMA Enumerates ==
  ASSUME NEW S, IsFiniteSet(S), NEW items \in SetToSeqs(S)
  PROVE  /\ items \in Seq(S)
         /\ \A i, j \in 1 .. Len(items) : items[i] = items[j] => i = j
         /\ \A x \in S : \E i \in 1 .. Len(items) : items[i] = x
<1> DEFINE n == Cardinality(S)
<1>1. n \in Nat
  BY FS_CardinalityType
<1> HIDE DEF n
<1>2. /\ items \in [1 .. n -> S]
      /\ \A i, j \in 1 .. n : i # j => items[i] # items[j]
  BY DEF SetToSeqs, n
<1>3. items \in Injection(1 .. n, S)
  BY <1>2 DEF Injection, IsInjective
<1>4. Cardinality(1 .. n) = n
  BY <1>1, FS_Interval
<1>5. items \in Surjection(1 .. n, S)
  BY <1>3, <1>4, FS_Injection DEF n
<1>6. items \in Seq(S) /\ Len(items) = n
  BY <1>1, <1>2
<1> QED
  BY <1>2, <1>5, <1>6 DEF Surjection

\* The changes a check found: at most one for each record.
LEMMA FoundProperties ==
  ASSUME TypeOK, Reading, Remaining = {}
  PROVE  /\ Found \subseteq Changes
         /\ IsFiniteSet(Found)
         /\ \A x \in Found :
              /\ x.enrolment \in DOMAIN check.observed
              /\ check.prior[x.enrolment] # None
              /\ x.version = check.observed[x.enrolment][x.record]
              /\ x.version # check.prior[x.enrolment].snapshot[x.record]
         /\ \A e \in DOMAIN check.observed, r \in Records :
              /\ check.prior[e] # None
              /\ check.observed[e][r] # check.prior[e].snapshot[r]
              => \E x \in Found : x.enrolment = e /\ x.record = r
<1>1. /\ check \in Checks
      /\ check.requested = DOMAIN check.observed
      /\ DOMAIN check.observed \subseteq Enrolments
      /\ \A e \in DOMAIN check.observed : check.observed[e] \in Snapshots
  <2>1. check \in Checks /\ DOMAIN check.observed \subseteq check.requested
    BY DEF TypeOK, Reading
  <2>2. PICK read \in SUBSET Enrolments : check.observed \in [read -> Snapshots]
    BY <2>1 DEF Checks
  <2> QED
    BY <2>1, <2>2 DEF Remaining, Checks
<1>2. \A x : x \in Found <=>
        \E e \in DOMAIN check.observed, r \in Records :
          /\ check.prior[e] # None
          /\ check.observed[e][r] # check.prior[e].snapshot[r]
          /\ x = [enrolment |-> e, record |-> r, version |-> check.observed[e][r]]
  BY <1>1 DEF Found, ChangesOf
<1>3. ASSUME NEW x \in Found
      PROVE  /\ x \in Changes
             /\ x.enrolment \in DOMAIN check.observed
             /\ check.prior[x.enrolment] # None
             /\ x.version = check.observed[x.enrolment][x.record]
             /\ x.version # check.prior[x.enrolment].snapshot[x.record]
             /\ x = [enrolment |-> x.enrolment, record |-> x.record, version |-> x.version]
  <2>1. PICK e \in DOMAIN check.observed, r \in Records :
          /\ check.prior[e] # None
          /\ check.observed[e][r] # check.prior[e].snapshot[r]
          /\ x = [enrolment |-> e, record |-> r, version |-> check.observed[e][r]]
    BY <1>2
  <2>2. check.observed[e][r] \in Versions
    BY <1>1 DEF Snapshots
  <2> QED
    BY <1>1, <2>1, <2>2 DEF Changes
<1>4. IsFiniteSet(Found)
  <2> DEFINE key == [x \in Found |-> <<x.enrolment, x.record>>]
             Keys == Enrolments \X Records
  <2>1. key \in [Found -> Keys]
    BY <1>3 DEF Changes
  <2>2. ASSUME NEW x \in Found, NEW y \in Found, key[x] = key[y]
        PROVE  x = y
    <3>1. x.enrolment = y.enrolment /\ x.record = y.record
      BY <2>2
    <3>2. x.version = y.version
      BY <1>3, <3>1
    <3> QED
      BY <1>3, <3>1, <3>2
  <2>3. IsFiniteSet(Keys)
    BY FiniteAssumption, FS_Product
  <2> HIDE DEF key, Keys
  <2>4. key \in Injection(Found, Keys)
    BY <2>1, <2>2 DEF Injection, IsInjective
  <2> QED
    BY <2>3, <2>4, FS_Injection
<1>5. \A e \in DOMAIN check.observed, r \in Records :
        /\ check.prior[e] # None
        /\ check.observed[e][r] # check.prior[e].snapshot[r]
        => \E x \in Found : x.enrolment = e /\ x.record = r
  <2> SUFFICES ASSUME NEW e \in DOMAIN check.observed, NEW r \in Records,
                      check.prior[e] # None,
                      check.observed[e][r] # check.prior[e].snapshot[r]
               PROVE  \E x \in Found : x.enrolment = e /\ x.record = r
    OBVIOUS
  <2> DEFINE x == [enrolment |-> e, record |-> r, version |-> check.observed[e][r]]
  <2>1. x \in Found
    BY <1>2
  <2>2. x.enrolment = e /\ x.record = r
    OBVIOUS
  <2> HIDE DEF x
  <2> QED
    BY <2>1, <2>2
<1> QED
  BY <1>3, <1>4, <1>5

-----------------------------------------------------------------------------
(* The next events of a consumer. *)

\* The sequence numbers of eventsAfter are those right after the cursor.
LEMMA NextEvents ==
  ASSUME TypeOK, WellFormed, NEW cursor \in Nat, NEW limit \in Nat \ {0},
         EventsAfter(cursor, limit) # {}
  PROVE  LET batch == NewBatch(EventsAfter(cursor, limit))
         IN  /\ batch.token = doc.generation + 1
             /\ batch.from = cursor + 1
             /\ batch.through \in cursor + 1 .. Len(doc.events)
<1> DEFINE N == EventsAfter(cursor, limit)
           n == Len(doc.events)
<1>1. n \in Nat /\ DOMAIN doc.events = 1 .. n
  BY DEF TypeOK, Documents
<1>2. \A i \in 1 .. n : doc.events[i].sequence = i
  BY <1>1 DEF WellFormed
<1> HIDE DEF n
<1>3. ASSUME NEW j \in 1 .. n, j > cursor
      PROVE  Cardinality({k \in 1 .. j - 1 : doc.events[k].sequence > cursor}) = j - 1 - cursor
  <2>1. {k \in 1 .. j - 1 : doc.events[k].sequence > cursor} = cursor + 1 .. j - 1
    BY <1>1, <1>2, <1>3
  <2>2. Cardinality(cursor + 1 .. j - 1) = j - 1 - cursor
    <3> DEFINE a == cursor + 1
               b == j - 1
    <3>1. a \in Int /\ b \in Int /\ b - a + 1 = j - 1 - cursor /\ (a > b => j - 1 - cursor = 0)
      BY <1>1, <1>3
    <3> HIDE DEF a, b
    <3>2. Cardinality(a .. b) = IF a > b THEN 0 ELSE b - a + 1
      BY <3>1, FS_Interval
    <3>3. Cardinality(a .. b) = j - 1 - cursor
      BY <3>1, <3>2
    <3> QED
      BY <3>3 DEF a, b
  <2> QED
    BY <2>1, <2>2
<1>4. N = {j \in 1 .. n : j > cursor /\ j - 1 - cursor < limit}
  <2> DEFINE Passes(j) == Cardinality({k \in 1 .. j - 1 : doc.events[k].sequence > cursor}) < limit
  <2>1. N = {doc.events[i].sequence : i \in
               {j \in 1 .. n : doc.events[j].sequence > cursor /\ Passes(j)}}
    BY <1>1 DEF EventsAfter
  <2>2. \A j \in 1 .. n : j > cursor => (Passes(j) <=> j - 1 - cursor < limit)
    BY <1>3
  <2> HIDE DEF N, Passes
  <2> QED
    BY <1>2, <2>1, <2>2
<1> HIDE DEF N
<1>5. cursor + 1 \in N /\ N \subseteq cursor + 1 .. n
  <2>1. PICK j \in N : TRUE
    BY DEF N
  <2>2. cursor + 1 \in 1 .. n /\ cursor + 1 > cursor /\ cursor + 1 - 1 - cursor < limit
    BY <1>1, <1>4, <2>1
  <2> QED
    BY <1>1, <1>4, <2>2
<1>6. cursor + 1 = CHOOSE i \in N : \A m \in N : i <= m
  <2>1. \A i \in N : (\A m \in N : i <= m) <=> i = cursor + 1
    BY <1>1, <1>5
  <2> QED
    BY <1>5, <2>1
<1>7. (CHOOSE i \in N : \A m \in N : i >= m) \in N
  <2>1. N \in SUBSET Nat /\ \A i \in N : i <= n
    BY <1>1, <1>5
  <2>2. \E i \in N : \A m \in N : m <= i
    BY <1>1, <1>5, <2>1, GreatestElement
  <2>3. \E i \in N : \A m \in N : i >= m
    BY <2>1, <2>2
  <2> QED
    BY <2>3
<1> QED
  BY <1>5, <1>6, <1>7 DEF NewBatch, N, n

-----------------------------------------------------------------------------
(* What each write does to the document. *)

\* A consumer command replaces one cursor.
CursorMoves(c, to) ==
  /\ doc' \in Documents
  /\ doc'.generation = doc.generation + 1
  /\ doc'.consumers = [doc.consumers EXCEPT ![c] = to]
  /\ UNCHANGED <<doc.nextSequence, doc.baselines, doc.events, doc.latest, doc.success>>

LEMMA CursorWritten ==
  ASSUME doc \in Documents, NEW c \in Consumers, NEW to \in Cursors,
         Written([doc EXCEPT !.consumers[c] = to])
  PROVE  CursorMoves(c, to)
<1>1. doc' = [doc EXCEPT !.consumers[c] = to, !.generation = doc.generation + 1]
  BY DEF Written, Documents
<1> DEFINE n == doc.generation + 1
           consumers == [doc.consumers EXCEPT ![c] = to]
<1>2. n \in Nat /\ consumers \in [Consumers -> Cursors \cup {None}]
  BY DEF Documents
<1>3. doc' = [doc EXCEPT !.consumers = consumers, !.generation = n]
  BY <1>1 DEF Documents
<1> HIDE DEF n, consumers
<1>4. /\ doc' \in Documents
      /\ doc'.generation = n
      /\ doc'.consumers = consumers
      /\ UNCHANGED <<doc.nextSequence, doc.baselines, doc.events, doc.latest, doc.success>>
  BY <1>2, <1>3 DEF Documents
<1> QED
  BY <1>4 DEF CursorMoves, n, consumers

\* A registration is at either end of the history.
LEMMA RegisterMoves ==
  ASSUME TypeOK, WellFormed, NEW c \in Consumers, NEW start \in {"earliest", "latest"},
         Register(c, start)
  PROVE  \E from \in {0, Len(doc.events)} :
           CursorMoves(c, [acknowledgedThrough |-> from, pending |-> None, tokens |-> {}])
<1>1. doc \in Documents /\ Len(doc.events) \in Nat /\ DOMAIN doc.events = 1 .. Len(doc.events)
  BY DEF TypeOK, Documents
<1>2. StartCursor(start) \in {0, Len(doc.events)}
  <2>1. doc.nextSequence - 1 = Len(doc.events)
    BY <1>1 DEF WellFormed
  <2>2. doc.events # <<>> => 1 \in DOMAIN doc.events /\ doc.events[1].sequence = 1
    BY <1>1 DEF WellFormed, TypeOK, Documents
  <2> QED
    BY <2>1, <2>2 DEF StartCursor
<1> DEFINE from == StartCursor(start)
           to == [acknowledgedThrough |-> from, pending |-> None, tokens |-> {}]
<1>3. to \in Cursors
  <2> from \in Nat
    BY <1>1, <1>2
  <2> HIDE DEF from
  <2> QED
    BY DEF Cursors
<1>4. Written([doc EXCEPT !.consumers[c] = to])
  BY DEF Register
<1>5. CursorMoves(c, to)
  BY <1>1, <1>3, <1>4, CursorWritten
<1> QED
  BY <1>2, <1>5

\* A new batch continues its cursor.
LEMMA ReadMoves ==
  ASSUME TypeOK, WellFormed, NEW c \in Consumers, NEW limit \in Limits,
         ReadNewBatch(c, limit)
  PROVE  \E batch \in Batches :
           /\ batch.token = doc.generation + 1
           /\ batch.from = doc.consumers[c].acknowledgedThrough + 1
           /\ batch.through \in batch.from .. Len(doc.events)
           /\ CursorMoves(c, [doc.consumers[c] EXCEPT !.pending = batch])
           /\ Give(c, batch) \/ UNCHANGED received
<1>1. /\ doc \in Documents /\ Len(doc.events) \in Nat /\ doc.generation \in Nat
      /\ doc.consumers[c] \in Cursors
  BY DEF TypeOK, Documents, ReadNewBatch, Registered
<1> DEFINE cursor  == doc.consumers[c].acknowledgedThrough
           numbers == EventsAfter(cursor, limit)
           batch   == NewBatch(numbers)
<1>2. cursor \in Nat /\ limit \in Nat \ {0}
  BY <1>1, LimitsAssumption DEF Cursors
<1>3. numbers # {}
  BY DEF ReadNewBatch
<1>4. /\ batch.token = doc.generation + 1
      /\ batch.from = cursor + 1
      /\ batch.through \in cursor + 1 .. Len(doc.events)
  <2> HIDE DEF cursor
  <2> QED
    BY <1>2, <1>3, NextEvents
<1>5. batch \in Batches
  <2>1. batch = [token |-> batch.token, from |-> batch.from, through |-> batch.through]
    BY DEF NewBatch
  <2> HIDE DEF batch, cursor
  <2>2. batch.token \in Nat /\ batch.from \in Nat /\ batch.through \in Nat
    BY <1>1, <1>2, <1>4
  <2> QED
    BY <2>1, <2>2 DEF Batches
<1> DEFINE to == [doc.consumers[c] EXCEPT !.pending = batch]
<1>6. to \in Cursors
  <2> HIDE DEF batch
  <2> QED
    BY <1>1, <1>5 DEF Cursors
<1>7. Written([doc EXCEPT !.consumers[c].pending = batch])
  BY DEF ReadNewBatch
<1>8. CursorMoves(c, to)
  <2> HIDE DEF batch
  <2>1. Written([doc EXCEPT !.consumers[c] = to])
    BY <1>7
  <2> HIDE DEF to
  <2> QED
    BY <1>1, <1>6, <2>1, CursorWritten
<1>9. Give(c, batch) \/ UNCHANGED received
  BY DEF ReadNewBatch
<1> HIDE DEF batch
<1> QED
  BY <1>4, <1>5, <1>8, <1>9

\* An acknowledgement moves the cursor over the pending batch.
LEMMA AcknowledgeMoves ==
  ASSUME TypeOK, NEW c \in Consumers, NEW token, Acknowledge(c, token)
  PROVE  /\ doc.consumers[c] \in Cursors
         /\ doc.consumers[c].pending \in Batches
         /\ doc.consumers[c].pending.token = token
         /\ CursorMoves(c, [acknowledgedThrough |-> doc.consumers[c].pending.through,
                            pending             |-> None,
                            tokens              |-> doc.consumers[c].tokens \cup {token}])
<1>1. doc \in Documents /\ doc.consumers[c] \in Cursors
  BY DEF TypeOK, Documents, Acknowledge, Registered
<1>2. doc.consumers[c].pending \in Batches /\ doc.consumers[c].pending.token = token
  BY <1>1 DEF Cursors, Acknowledge
<1> DEFINE to == [acknowledgedThrough |-> doc.consumers[c].pending.through,
                  pending             |-> None,
                  tokens              |-> doc.consumers[c].tokens \cup {token}]
<1>3. to \in Cursors
  BY <1>1, <1>2 DEF Cursors, Batches
<1>4. Written([doc EXCEPT !.consumers[c] = to])
  BY DEF Acknowledge
<1> HIDE DEF to
<1>5. CursorMoves(c, to)
  BY <1>1, <1>3, <1>4, CursorWritten
<1> QED
  BY <1>1, <1>2, <1>5 DEF to

\* A failed or incomplete check replaces the last attempt, and nothing else.
LEMMA AttemptWritten ==
  ASSUME TypeOK, Reading, NEW outcome \in Outcomes,
         Committed([doc EXCEPT !.latest = Attempt(outcome)])
  PROVE  /\ doc' \in Documents
         /\ doc'.generation = doc.generation + 1
         /\ doc'.latest = Attempt(outcome)
         /\ UNCHANGED <<doc.nextSequence, doc.baselines, doc.events, doc.consumers, doc.success>>
<1>1. doc \in Documents
  BY DEF TypeOK
<1>2. Attempt(outcome) \in Attempts
  BY DEF Attempt, Attempts, TypeOK, Reading, Checks
<1> DEFINE n == doc.generation + 1
           a == Attempt(outcome)
<1>3. n \in Nat
  BY <1>1 DEF Documents
<1>4. doc' = [doc EXCEPT !.latest = a, !.generation = n]
  BY <1>1 DEF Committed, Written, Documents
<1> HIDE DEF n, a
<1>5. /\ doc' \in Documents
      /\ doc'.generation = n
      /\ doc'.latest = a
      /\ UNCHANGED <<doc.nextSequence, doc.baselines, doc.events, doc.consumers, doc.success>>
  BY <1>1, <1>2, <1>3, <1>4 DEF Documents, a
<1> QED
  BY <1>5 DEF n, a

\* The document of a successful check: new baselines, and events for exactly
\* the changes found, once each.
LEMMA SuccessWritten ==
  ASSUME Inv, CommitSuccess
  PROVE  \E items \in Seq(Found) :
           /\ \A i, j \in 1 .. Len(items) : items[i] = items[j] => i = j
           /\ \A x \in Found : \E i \in 1 .. Len(items) : items[i] = x
           /\ doc' \in Documents
           /\ doc'.generation = doc.generation + 1
           /\ doc'.nextSequence = doc.nextSequence + Len(items)
           /\ doc'.consumers = doc.consumers
           /\ doc'.baselines =
                [e \in Enrolments |->
                   IF e \in DOMAIN check.observed
                   THEN [id |-> check.id, snapshot |-> check.observed[e]]
                   ELSE doc.baselines[e]]
           /\ doc'.latest = doc'.success /\ doc'.success # None
           /\ doc'.success.id = check.id
           /\ Len(doc'.events) = Len(doc.events) + Len(items)
           /\ \A i \in 1 .. Len(doc.events) : doc'.events[i] = doc.events[i]
           /\ \A i \in 1 .. Len(items) :
                LET event == doc'.events[Len(doc.events) + i]
                IN  /\ event.id = <<check.id, i>>
                    /\ event.sequence = doc.nextSequence + i - 1
                    /\ event.change = items[i]
           /\ Counted(doc'.events)
<1>1. TypeOK /\ WellFormed /\ FreshInv /\ CheckInv /\ NoTransitionTwice
  BY DEF Inv, NumberInv
<1>2. Reading /\ Remaining = {}
  BY DEF CommitSuccess
<1>3. PICK items \in SetToSeqs(Found) : Committed(SuccessDocument(items))
  BY DEF CommitSuccess
<1>4. /\ items \in Seq(Found)
      /\ \A i, j \in 1 .. Len(items) : items[i] = items[j] => i = j
      /\ \A x \in Found : \E i \in 1 .. Len(items) : items[i] = x
      /\ items \in Seq(Changes)
  <2>1. Found \subseteq Changes /\ IsFiniteSet(Found)
    BY <1>1, <1>2, FoundProperties
  <2>2. /\ items \in Seq(Found)
        /\ \A i, j \in 1 .. Len(items) : items[i] = items[j] => i = j
        /\ \A x \in Found : \E i \in 1 .. Len(items) : items[i] = x
    BY <2>1, Enumerates
  <2> QED
    BY <2>1, <2>2
<1>5. doc \in Documents /\ check \in Checks /\ check.id \in Nat
  BY <1>1, <1>2 DEF TypeOK, Reading, Checks
<1> DEFINE d == Rebased(doc, check.id, check.observed)
           rebased == [e \in Enrolments |->
                         IF e \in DOMAIN check.observed
                         THEN [id |-> check.id, snapshot |-> check.observed[e]]
                         ELSE doc.baselines[e]]
<1>6. rebased \in [Enrolments -> Baselines \cup {None}]
  <2>1. PICK read \in SUBSET Enrolments : check.observed \in [read -> Snapshots]
    BY <1>5 DEF Checks
  <2> SUFFICES ASSUME NEW e \in Enrolments
               PROVE  rebased[e] \in Baselines \cup {None}
    OBVIOUS
  <2>2. CASE e \in DOMAIN check.observed
    <3>1. check.observed[e] \in Snapshots
      BY <2>1, <2>2
    <3> QED
      BY <1>5, <2>2, <3>1 DEF Baselines
  <2>3. CASE e \notin DOMAIN check.observed
    BY <1>5, <2>3 DEF Documents
  <2> QED
    BY <2>2, <2>3
<1>7. /\ d \in Documents
      /\ d.baselines = rebased
      /\ d.events = doc.events
      /\ d.consumers = doc.consumers
      /\ d.generation = doc.generation
      /\ d.nextSequence = doc.nextSequence
  <2>1. d = [doc EXCEPT !.baselines = rebased]
    BY DEF Rebased
  <2> HIDE DEF d, rebased
  <2> QED
    BY <1>5, <1>6, <2>1 DEF Documents
<1>8. Counted(d.events)
  BY <1>1, <1>7 DEF NoTransitionTwice, Counted
<1>9. \A i \in DOMAIN d.events : d.events[i].id[1] # check.id
  <2> HIDE DEF d
  <2>1. check.id = doc.generation + 1
    BY <1>1, <1>2 DEF CheckInv
  <2> SUFFICES ASSUME NEW i \in DOMAIN doc.events
               PROVE  doc.events[i].id[1] # check.id
    BY <1>7
  <2>2. doc.events[i].id[1] \in Nat /\ doc.generation \in Nat
    <3>1. doc.events \in Seq(RetainedEvents) /\ doc.generation \in Nat
      BY <1>5 DEF Documents
    <3>2. doc.events[i] \in RetainedEvents
      BY <3>1
    <3> QED
      BY <3>1, <3>2 DEF RetainedEvents
  <2>3. doc.events[i].id[1] <= doc.generation
    BY <1>1 DEF FreshInv
  <2> QED
    BY <2>1, <2>2, <2>3
<1> HIDE DEF d, rebased
<1> DEFINE x == Applied(d, check.id, items)
           a == Attempt(SuccessOutcome)
           n == doc.generation + 1
<1>10. Extends(x, d, check.id, items, Len(items))
  BY <1>4, <1>5, <1>7, <1>8, <1>9, AppliedExtends
<1>11. x \in Documents
  BY <1>10 DEF Extends
<1>12. a \in Attempts /\ a.id = check.id
  BY <1>5 DEF Attempt, Attempts, SuccessOutcome, Outcomes, Successful, Checks
<1>13. n \in Nat
  BY <1>5 DEF Documents
<1>14. doc' = [x EXCEPT !.latest = a, !.success = a, !.generation = n]
  <2>1. SuccessDocument(items) = [x EXCEPT !.latest = a, !.success = a]
    BY DEF SuccessDocument, d
  <2>2. doc' = [SuccessDocument(items) EXCEPT !.generation = n]
    BY <1>3 DEF Committed, Written
  <2> HIDE DEF x, a, n
  <2> QED
    BY <1>11, <2>1, <2>2 DEF Documents
<1> HIDE DEF x, a, n
<1>15. /\ doc' \in Documents
       /\ doc'.generation = n
       /\ doc'.latest = a /\ doc'.success = a
       /\ doc'.nextSequence = x.nextSequence
       /\ doc'.baselines = x.baselines
       /\ doc'.consumers = x.consumers
       /\ doc'.events = x.events
  BY <1>11, <1>12, <1>13, <1>14 DEF Documents
<1>16. a # None
  BY <1>12, NoneAssumption
<1>17. /\ x.nextSequence = doc.nextSequence + Len(items)
       /\ x.baselines = rebased
       /\ x.consumers = doc.consumers
       /\ Len(x.events) = Len(doc.events) + Len(items)
       /\ \A i \in 1 .. Len(doc.events) : x.events[i] = doc.events[i]
       /\ \A i \in 1 .. Len(items) :
            LET event == x.events[Len(doc.events) + i]
            IN  /\ event.id = <<check.id, i>>
                /\ event.sequence = doc.nextSequence + i - 1
                /\ event.change = items[i]
       /\ Counted(x.events)
  BY <1>7, <1>10 DEF Extends
<1>18. doc'.baselines = [e \in Enrolments |->
                           IF e \in DOMAIN check.observed
                           THEN [id |-> check.id, snapshot |-> check.observed[e]]
                           ELSE doc.baselines[e]]
  BY <1>15, <1>17 DEF rebased
<1> QED
  <2> items \in Seq(Found)
    BY <1>4
  <2> WITNESS items \in Seq(Found)
  <2>1. doc'.generation = doc.generation + 1
    BY <1>15 DEF n
  <2>2. /\ Len(doc'.events) = Len(doc.events) + Len(items)
        /\ \A i \in 1 .. Len(doc.events) : doc'.events[i] = doc.events[i]
        /\ \A i \in 1 .. Len(items) :
             LET event == doc'.events[Len(doc.events) + i]
             IN  /\ event.id = <<check.id, i>>
                 /\ event.sequence = doc.nextSequence + i - 1
                 /\ event.change = items[i]
        /\ Counted(doc'.events)
    BY <1>15, <1>17
  <2>3. doc'.latest = doc'.success /\ doc'.success # None /\ doc'.success.id = check.id
    BY <1>12, <1>15, <1>16
  <2> QED
    BY <1>4, <1>15, <1>17, <1>18, <2>1, <2>2, <2>3

-----------------------------------------------------------------------------
(* Every step keeps the invariant, one conjunct at a time. *)

\* What changes neither the document nor what was received.
Quiet ==
  \/ \E requested \in SUBSET Enrolments : BeginCheck(requested)
  \/ \E e \in Enrolments : ReadEnrolment(e)
  \/ ReportUncertain
  \/ AbandonCheck
  \/ \E e \in Enrolments, r \in Records : PortalChanges(e, r)
  \/ UNCHANGED vars

\* A check that is not a success.
CommitAttempt == CommitFailure \/ CommitIncomplete

LEMMA Cases ==
  ASSUME [Next]_vars
  PROVE  \/ Quiet
         \/ CommitAttempt
         \/ CommitSuccess
         \/ \E c \in Consumers, start \in {"earliest", "latest"} : Register(c, start)
         \/ \E c \in Consumers, limit \in Limits : ReadNewBatch(c, limit)
         \/ \E c \in Consumers : ReadPendingBatch(c)
         \/ \E c \in Consumers, token \in KnownTokens : Acknowledge(c, token)
BY DEF Next, CheckStep, ConsumerStep, Quiet, CommitAttempt

LEMMA QuietFrame == Quiet => doc' = doc /\ received' = received /\ enrolled' = enrolled
BY DEF Quiet, BeginCheck, ReadEnrolment, ReportUncertain, AbandonCheck, EndCheck,
       PortalChanges, vars

LEMMA AttemptFrame ==
  ASSUME TypeOK, CommitAttempt
  PROVE  /\ Reading /\ check' = None
         /\ doc' \in Documents
         /\ doc'.generation = doc.generation + 1
         /\ doc'.latest # None /\ doc'.latest.id = check.id
         /\ UNCHANGED <<doc.nextSequence, doc.baselines, doc.events, doc.consumers, doc.success>>
         /\ UNCHANGED <<portal, received, enrolled>>
<1>1. PICK outcome \in {"failed", "incomplete"} :
        Committed([doc EXCEPT !.latest = Attempt(outcome)])
  BY DEF CommitAttempt, CommitFailure, CommitIncomplete
<1>2. Reading /\ check' = None /\ UNCHANGED <<portal, received, enrolled>>
  BY DEF CommitAttempt, CommitFailure, CommitIncomplete, EndCheck
<1>3. outcome \in Outcomes
  BY DEF Outcomes
<1>4. /\ doc' \in Documents
      /\ doc'.generation = doc.generation + 1
      /\ doc'.latest = Attempt(outcome)
      /\ UNCHANGED <<doc.nextSequence, doc.baselines, doc.events, doc.consumers, doc.success>>
  BY <1>1, <1>2, <1>3, AttemptWritten
<1>5. Attempt(outcome) \in Attempts /\ Attempt(outcome).id = check.id
  BY <1>2, <1>3 DEF Attempt, Attempts, TypeOK, Reading, Checks
<1> QED
  BY <1>2, <1>4, <1>5, NoneAssumption

\* The commands that change consumers change nothing else.
LEMMA ConsumerFrame ==
  ASSUME NEW c \in Consumers,
         \/ \E start \in {"earliest", "latest"} : Register(c, start)
         \/ \E limit \in Limits : ReadNewBatch(c, limit)
         \/ ReadPendingBatch(c)
         \/ \E token \in KnownTokens : Acknowledge(c, token)
  PROVE  check = None /\ UNCHANGED <<portal, check, enrolled>>
BY DEF Register, ReadNewBatch, ReadPendingBatch, Acknowledge, Loadable

\* The types of the portal and of a check.
LEMMA CheckTypeStep ==
  ASSUME Inv, [Next]_vars
  PROVE  /\ portal' \in [Enrolments -> Snapshots]
         /\ check' \in Checks \cup {None}
         /\ check' # None => DOMAIN check'.observed \subseteq check'.requested
<1>1. /\ TypeOK
      /\ doc \in Documents
      /\ portal \in [Enrolments -> Snapshots]
      /\ check # None => check \in Checks /\ DOMAIN check.observed \subseteq check.requested
  BY DEF Inv, NumberInv, TypeOK
<1>2. ASSUME NEW requested \in SUBSET Enrolments, BeginCheck(requested)
      PROVE  check' \in Checks /\ DOMAIN check'.observed \subseteq check'.requested
  <2> DEFINE c == [id        |-> doc.generation + 1,
                   phase     |-> "reading",
                   requested |-> requested,
                   prior     |-> doc.baselines,
                   observed  |-> <<>>,
                   complete  |-> TRUE]
  <2>1. /\ doc.generation + 1 \in Nat
        /\ doc.baselines \in [Enrolments -> Baselines \cup {None}]
    BY <1>1 DEF Documents
  <2>2. <<>> \in UNION {[read -> Snapshots] : read \in SUBSET Enrolments}
    <3>1. <<>> \in [{} -> Snapshots] /\ {} \in SUBSET Enrolments
      OBVIOUS
    <3> QED
      BY <3>1
  <2>3. c \in Checks
    BY <2>1, <2>2 DEF Checks
  <2>4. check' = c
    BY <1>2 DEF BeginCheck
  <2>5. DOMAIN c.observed = {}
    OBVIOUS
  <2> QED
    BY <2>3, <2>4, <2>5
<1>3. ASSUME NEW e \in Enrolments, ReadEnrolment(e)
      PROVE  check' \in Checks /\ DOMAIN check'.observed \subseteq check'.requested
  <2>1. check \in Checks /\ DOMAIN check.observed \subseteq check.requested
    BY <1>1, <1>3 DEF ReadEnrolment, Reading
  <2>2. e \in check.requested
    BY <1>3 DEF ReadEnrolment, Remaining
  <2> DEFINE observed == [x \in DOMAIN check.observed \cup {e} |->
                            IF x = e THEN portal[e] ELSE check.observed[x]]
             read == DOMAIN check.observed \cup {e}
  <2>3. PICK was \in SUBSET Enrolments : check.observed \in [was -> Snapshots]
    BY <2>1 DEF Checks
  <2>4. observed \in [read -> Snapshots] /\ read \in SUBSET Enrolments
    BY <1>1, <2>3
  <2>5. PICK complete \in BOOLEAN :
          check' = [check EXCEPT !.observed = observed, !.complete = @ /\ complete]
    BY <1>3 DEF ReadEnrolment
  <2>6. DOMAIN observed = read /\ read \subseteq check.requested
    BY <2>1, <2>2
  <2>7. observed \in UNION {[was1 -> Snapshots] : was1 \in SUBSET Enrolments}
    <3> HIDE DEF observed, read
    <3> QED
      BY <2>4
  <2> DEFINE done == check.complete /\ complete
  <2>8. done \in BOOLEAN
    BY <2>1 DEF Checks
  <2>9. check' = [check EXCEPT !.observed = observed, !.complete = done]
    BY <2>5
  <2> HIDE DEF observed, read, done
  <2> QED
    BY <2>1, <2>6, <2>7, <2>8, <2>9 DEF Checks
<1>4. ASSUME NEW e \in Enrolments, NEW r \in Records, PortalChanges(e, r)
      PROVE  portal' \in [Enrolments -> Snapshots]
  <2>1. portal[e] \in [Records -> Versions] /\ portal[e][r] \in Versions
    BY <1>1 DEF Snapshots
  <2>2. portal[e][r] + 1 \in Versions
    BY <1>4, <2>1, LimitsAssumption DEF PortalChanges, Versions
  <2>3. [portal[e] EXCEPT ![r] = portal[e][r] + 1] \in Snapshots
    BY <2>1, <2>2 DEF Snapshots
  <2>4. portal' = [portal EXCEPT ![e] = [portal[e] EXCEPT ![r] = portal[e][r] + 1]]
    BY <1>4 DEF PortalChanges
  <2> QED
    BY <1>1, <2>3, <2>4
<1>5. CASE Quiet
  <2>1. CASE \E requested \in SUBSET Enrolments : BeginCheck(requested)
    BY <1>1, <1>2, <2>1 DEF BeginCheck
  <2>2. CASE \E e \in Enrolments : ReadEnrolment(e)
    BY <1>1, <1>3, <2>2 DEF ReadEnrolment
  <2>3. CASE ReportUncertain \/ AbandonCheck
    BY <1>1, <2>3 DEF ReportUncertain, AbandonCheck, EndCheck
  <2>4. CASE \E e \in Enrolments, r \in Records : PortalChanges(e, r)
    BY <1>1, <1>4, <2>4 DEF PortalChanges
  <2>5. CASE UNCHANGED vars
    BY <1>1, <2>5 DEF vars
  <2> QED
    BY <1>5, <2>1, <2>2, <2>3, <2>4, <2>5 DEF Quiet
<1>6. CASE CommitAttempt
  BY <1>1, <1>6, AttemptFrame
<1>7. CASE CommitSuccess
  <2>1. check # None /\ check \in Checks /\ DOMAIN check.observed \subseteq check.requested
    BY <1>1, <1>7 DEF CommitSuccess, Reading
  <2>2. portal' = portal /\ check' \in {None, [check EXCEPT !.phase = "uncertain"]}
    BY <1>7 DEF CommitSuccess
  <2>3. [check EXCEPT !.phase = "uncertain"] \in Checks
    BY <2>1 DEF Checks
  <2>4. /\ [check EXCEPT !.phase = "uncertain"].observed = check.observed
        /\ [check EXCEPT !.phase = "uncertain"].requested = check.requested
    BY <2>1 DEF Checks
  <2> QED
    BY <1>1, <2>1, <2>2, <2>3, <2>4
<1>8. CASE portal' = portal /\ check' = check
  BY <1>1, <1>8
<1> QED
  BY <1>5, <1>6, <1>7, <1>8, Cases, ConsumerFrame

\* What a consumer is given is a batch.
LEMMA GiveType ==
  ASSUME received \in [Consumers -> SUBSET Batches], NEW c \in Consumers,
         NEW batch \in Batches, Give(c, batch)
  PROVE  /\ received' \in [Consumers -> SUBSET Batches]
         /\ received'[c] = received[c] \cup {batch}
         /\ \A x \in Consumers : x # c => received'[x] = received[x]
BY DEF Give

\* What each consumer command does, for a consumer c: a registration, ...
Joins(c) ==
  /\ doc.consumers[c] = None
  /\ \E from \in {0, Len(doc.events)} :
       CursorMoves(c, [acknowledgedThrough |-> from, pending |-> None, tokens |-> {}])
  /\ UNCHANGED received

\* ... a batch that is cut, ...
Cuts(c) ==
  /\ doc.consumers[c] \in Cursors
  /\ doc.consumers[c].pending = None
  /\ \E batch \in Batches :
       /\ batch.token = doc.generation + 1
       /\ batch.from = doc.consumers[c].acknowledgedThrough + 1
       /\ batch.through \in batch.from .. Len(doc.events)
       /\ CursorMoves(c, [doc.consumers[c] EXCEPT !.pending = batch])
       /\ Give(c, batch) \/ UNCHANGED received

\* ... a batch that is given again, ...
Repeats(c) ==
  /\ doc.consumers[c] \in Cursors
  /\ doc.consumers[c].pending \in Batches
  /\ Give(c, doc.consumers[c].pending)
  /\ UNCHANGED doc

\* ... and an acknowledgement of what somebody was given.
Confirms(c) ==
  /\ doc.consumers[c] \in Cursors
  /\ doc.consumers[c].pending \in Batches
  /\ doc.consumers[c].pending.token \in KnownTokens
  /\ CursorMoves(c, [acknowledgedThrough |-> doc.consumers[c].pending.through,
                     pending             |-> None,
                     tokens              |-> doc.consumers[c].tokens \cup
                                               {doc.consumers[c].pending.token}])
  /\ UNCHANGED received

LEMMA StepCases ==
  ASSUME TypeOK, WellFormed, [Next]_vars
  PROVE  \/ Quiet
         \/ CommitAttempt
         \/ CommitSuccess
         \/ /\ check = None /\ UNCHANGED <<portal, check, enrolled>>
            /\ \E c \in Consumers : Joins(c) \/ Cuts(c) \/ Repeats(c) \/ Confirms(c)
<1>1. ASSUME NEW c \in Consumers, NEW start \in {"earliest", "latest"}, Register(c, start)
      PROVE  Joins(c)
  BY <1>1, RegisterMoves DEF Register, Joins
<1>2. ASSUME NEW c \in Consumers, NEW limit \in Limits, ReadNewBatch(c, limit)
      PROVE  Cuts(c)
  <2>1. doc.consumers[c] \in Cursors /\ doc.consumers[c].pending = None
    BY <1>2 DEF ReadNewBatch, Registered, TypeOK, Documents
  <2> QED
    BY <1>2, <2>1, ReadMoves DEF Cuts
<1>3. ASSUME NEW c \in Consumers, ReadPendingBatch(c)
      PROVE  Repeats(c)
  BY <1>3 DEF ReadPendingBatch, Repeats, Registered, TypeOK, Documents, Cursors
<1>4. ASSUME NEW c \in Consumers, NEW token \in KnownTokens, Acknowledge(c, token)
      PROVE  Confirms(c)
  <2>1. UNCHANGED received
    BY <1>4 DEF Acknowledge
  <2> QED
    BY <1>4, <2>1, AcknowledgeMoves DEF Confirms
<1> QED
  BY <1>1, <1>2, <1>3, <1>4, Cases, ConsumerFrame

LEMMA TypeStep ==
  ASSUME Inv, [Next]_vars
  PROVE  TypeOK'
<1>1. TypeOK /\ WellFormed
  BY DEF Inv, NumberInv
<1>2. /\ portal' \in [Enrolments -> Snapshots]
      /\ check' \in Checks \cup {None}
      /\ check' # None => DOMAIN check'.observed \subseteq check'.requested
  BY CheckTypeStep
<1>3. doc' \in Documents /\ received' \in [Consumers -> SUBSET Batches]
  <2>1. CASE Quiet
    BY <1>1, <2>1, QuietFrame DEF TypeOK
  <2>2. CASE CommitAttempt
    BY <1>1, <2>2, AttemptFrame DEF TypeOK
  <2>3. CASE CommitSuccess
    BY <1>1, <2>3, SuccessWritten DEF TypeOK, CommitSuccess
  <2>4. ASSUME NEW c \in Consumers, Joins(c) \/ Cuts(c) \/ Repeats(c) \/ Confirms(c)
        PROVE  doc' \in Documents /\ received' \in [Consumers -> SUBSET Batches]
    <3>1. doc \in Documents /\ received \in [Consumers -> SUBSET Batches]
      BY <1>1 DEF TypeOK
    <3>2. doc' \in Documents
      BY <2>4, <3>1 DEF Joins, Cuts, Repeats, Confirms, CursorMoves
    <3>3. received' = received \/ \E batch \in Batches : Give(c, batch)
      BY <2>4 DEF Joins, Cuts, Repeats, Confirms
    <3> QED
      BY <3>1, <3>2, <3>3, GiveType
  <2> QED
    BY <1>1, <2>1, <2>2, <2>3, <2>4, StepCases
<1>4. enrolled' \in [Enrolments -> Snapshots \cup {None}]
  <2>1. CASE CommitSuccess
    <3>1. check \in Checks /\ check.requested = DOMAIN check.observed
      BY <1>1, <2>1 DEF CommitSuccess, Reading, Remaining, TypeOK
    <3>2. PICK read \in SUBSET Enrolments : check.observed \in [read -> Snapshots]
      BY <3>1 DEF Checks
    <3> QED
      BY <1>1, <2>1, <3>1, <3>2 DEF CommitSuccess, TypeOK
  <2>2. CASE enrolled' = enrolled
    BY <1>1, <2>2 DEF TypeOK
  <2> QED
    BY <1>1, <2>1, <2>2, StepCases, QuietFrame, AttemptFrame
<1> QED
  BY <1>2, <1>3, <1>4 DEF TypeOK

\* Sequence numbers are positions and event ids are unique: a check's id is
\* one no event has.
LEMMA EventsStep ==
  ASSUME Inv, [Next]_vars
  PROVE  /\ \A i \in DOMAIN doc'.events : doc'.events[i].sequence = i
         /\ \A i, j \in DOMAIN doc'.events : doc'.events[i].id = doc'.events[j].id => i = j
         /\ doc'.nextSequence = Len(doc'.events) + 1
         /\ \A i \in DOMAIN doc'.events : doc'.events[i].id[1] <= doc'.generation
         /\ doc'.nextSequence >= doc.nextSequence
         /\ doc'.generation >= doc.generation
<1>1. /\ TypeOK /\ WellFormed
      /\ doc \in Documents /\ doc.events \in Seq(RetainedEvents)
      /\ doc.nextSequence \in Nat /\ doc.generation \in Nat
  BY DEF Inv, NumberInv, TypeOK, Documents
<1>2. /\ \A i \in DOMAIN doc.events : doc.events[i].sequence = i
      /\ \A i, j \in DOMAIN doc.events : doc.events[i].id = doc.events[j].id => i = j
      /\ doc.nextSequence = Len(doc.events) + 1
      /\ \A i \in DOMAIN doc.events : doc.events[i].id[1] <= doc.generation
  BY DEF Inv, NumberInv, WellFormed, FreshInv
<1>3. ASSUME NEW i \in DOMAIN doc.events
      PROVE  doc.events[i].id[1] \in Nat
  <2>1. doc.events[i] \in RetainedEvents
    BY <1>1
  <2> QED
    BY <2>1 DEF RetainedEvents
<1>4. CASE /\ doc'.events = doc.events /\ doc'.nextSequence = doc.nextSequence
           /\ doc'.generation \in {doc.generation, doc.generation + 1}
  BY <1>1, <1>2, <1>3, <1>4
<1>5. CASE CommitSuccess
  <2> DEFINE n == Len(doc.events)
  <2>1. PICK items \in Seq(Found) :
          /\ doc' \in Documents
          /\ doc'.generation = doc.generation + 1
          /\ doc'.nextSequence = doc.nextSequence + Len(items)
          /\ Len(doc'.events) = n + Len(items)
          /\ \A i \in 1 .. n : doc'.events[i] = doc.events[i]
          /\ \A i \in 1 .. Len(items) :
               LET event == doc'.events[n + i]
               IN  /\ event.id = <<check.id, i>>
                   /\ event.sequence = doc.nextSequence + i - 1
    BY <1>5, SuccessWritten
  <2>2. check.id = doc.generation + 1
    BY <1>5 DEF CommitSuccess, Inv, NumberInv, CheckInv
  <2>3. /\ n \in Nat /\ Len(items) \in Nat
        /\ DOMAIN doc.events = 1 .. n
        /\ DOMAIN doc'.events = 1 .. n + Len(items)
    <3>1. doc'.events \in Seq(RetainedEvents)
      BY <2>1 DEF Documents
    <3>2. DOMAIN doc'.events = 1 .. Len(doc'.events)
      BY <3>1
    <3>3. n \in Nat /\ Len(items) \in Nat /\ DOMAIN doc.events = 1 .. n
      BY <1>1
    <3> HIDE DEF n
    <3> QED
      BY <2>1, <3>2, <3>3
  <2> HIDE DEF n
  <2>4. ASSUME NEW i \in DOMAIN doc'.events
        PROVE  \/ i \in 1 .. n /\ doc'.events[i] = doc.events[i]
               \/ \E h \in 1 .. Len(items) :
                    /\ i = n + h
                    /\ doc'.events[i].id = <<check.id, h>>
                    /\ doc'.events[i].sequence = doc.nextSequence + h - 1
    <3>1. CASE i <= n
      BY <2>1, <2>3, <3>1
    <3>2. CASE i > n
      <4>1. i - n \in 1 .. Len(items) /\ i = n + (i - n)
        BY <2>3, <3>2
      <4> DEFINE h == i - n
      <4>2. h \in 1 .. Len(items) /\ i = n + h
        BY <4>1
      <4> HIDE DEF h
      <4> QED
        BY <2>1, <4>2
    <3> QED
      BY <2>3, <3>1, <3>2
  <2>5. ASSUME NEW i \in DOMAIN doc'.events
        PROVE  /\ doc'.events[i].sequence = i
               /\ doc'.events[i].id[1] <= doc'.generation
               /\ i \in 1 .. n => doc'.events[i].id[1] <= doc.generation
               /\ i \in 1 .. n => doc'.events[i].id[1] \in Nat
    <3>1. CASE i \in 1 .. n
      <4>1. doc'.events[i] = doc.events[i] /\ i \in DOMAIN doc.events
        BY <2>1, <2>3, <3>1
      <4> QED
        BY <1>1, <1>2, <1>3, <2>1, <4>1
    <3>2. CASE i \notin 1 .. n
      <4>1. PICK h \in 1 .. Len(items) :
              /\ i = n + h
              /\ doc'.events[i].id = <<check.id, h>>
              /\ doc'.events[i].sequence = doc.nextSequence + h - 1
        BY <2>4, <3>2
      <4>2. doc.nextSequence = n + 1
        BY <1>2 DEF n
      <4> QED
        BY <1>1, <2>1, <2>2, <2>3, <3>2, <4>1, <4>2
    <3> QED
      BY <3>1, <3>2
  <2>6. ASSUME NEW i \in DOMAIN doc'.events, NEW j \in DOMAIN doc'.events,
               doc'.events[i].id = doc'.events[j].id
        PROVE  i = j
    <3>1. CASE i \in 1 .. n /\ j \in 1 .. n
      <4>1. /\ i \in DOMAIN doc.events /\ doc'.events[i] = doc.events[i]
            /\ j \in DOMAIN doc.events /\ doc'.events[j] = doc.events[j]
        BY <2>1, <2>3, <3>1
      <4>2. doc.events[i].id = doc.events[j].id
        BY <2>6, <4>1
      <4> QED
        BY <1>2, <4>1, <4>2
    <3>2. CASE i \in 1 .. n /\ j \notin 1 .. n
      <4>1. doc'.events[j].id[1] = doc.generation + 1
        BY <2>2, <2>4, <3>2
      <4>2. doc'.events[i].id[1] <= doc.generation /\ doc'.events[i].id[1] \in Nat
        BY <2>5, <3>2
      <4> QED
        BY <1>1, <2>6, <4>1, <4>2
    <3>3. CASE i \notin 1 .. n /\ j \in 1 .. n
      <4>1. doc'.events[i].id[1] = doc.generation + 1
        BY <2>2, <2>4, <3>3
      <4>2. doc'.events[j].id[1] <= doc.generation /\ doc'.events[j].id[1] \in Nat
        BY <2>5, <3>3
      <4> QED
        BY <1>1, <2>6, <4>1, <4>2
    <3>4. CASE i \notin 1 .. n /\ j \notin 1 .. n
      <4>1. PICK h \in 1 .. Len(items) : i = n + h /\ doc'.events[i].id = <<check.id, h>>
        BY <2>4, <3>4
      <4>2. PICK g \in 1 .. Len(items) : j = n + g /\ doc'.events[j].id = <<check.id, g>>
        BY <2>4, <3>4
      <4> QED
        BY <2>6, <4>1, <4>2
    <3> QED
      BY <3>1, <3>2, <3>3, <3>4
  <2>7. doc'.nextSequence = Len(doc'.events) + 1
    <3>1. doc.nextSequence = n + 1
      BY <1>2 DEF n
    <3> QED
      BY <2>1, <2>3, <3>1
  <2> QED
    BY <1>1, <2>1, <2>3, <2>5, <2>6, <2>7
<1>6. CASE Quiet
  BY <1>4, <1>6, QuietFrame
<1>7. CASE CommitAttempt
  BY <1>1, <1>4, <1>7, AttemptFrame
<1>8. CASE \E c \in Consumers : Joins(c) \/ Cuts(c) \/ Repeats(c) \/ Confirms(c)
  BY <1>4, <1>8 DEF Joins, Cuts, Repeats, Confirms, CursorMoves
<1> QED
  BY <1>1, <1>5, <1>6, <1>7, <1>8, StepCases

\* A cursor, its pending batch and its tokens, in a document d.
CursorOK(d, c) ==
  LET cursor == d.consumers[c]
      batch  == cursor.pending
  IN  cursor # None =>
        /\ cursor.acknowledgedThrough < d.nextSequence
        /\ \A t \in cursor.tokens : t <= d.generation
        /\ batch # None =>
             /\ batch.token <= d.generation
             /\ batch.token \notin cursor.tokens
             /\ batch.from = cursor.acknowledgedThrough + 1
             /\ batch.from <= batch.through
             /\ batch.through < d.nextSequence

\* A document with more events and generations keeps its cursors in order.
LEMMA CursorKept ==
  ASSUME doc \in Documents, doc' \in Documents, NEW c \in Consumers, CursorOK(doc, c),
         doc'.consumers[c] = doc.consumers[c],
         doc'.nextSequence >= doc.nextSequence,
         doc'.generation >= doc.generation
  PROVE  CursorOK(doc', c)
<1>1. /\ doc.nextSequence \in Nat /\ doc'.nextSequence \in Nat
      /\ doc.generation \in Nat /\ doc'.generation \in Nat
      /\ doc.consumers[c] \in Cursors \cup {None}
  BY DEF Documents
<1>2. CASE doc.consumers[c] = None
  BY <1>2 DEF CursorOK
<1>3. CASE doc.consumers[c] \in Cursors
  <2> DEFINE cursor == doc.consumers[c]
  <2>1. /\ cursor.acknowledgedThrough \in Nat /\ cursor.tokens \in SUBSET Nat
        /\ cursor.pending # None =>
             /\ cursor.pending.token \in Nat
             /\ cursor.pending.from \in Nat
             /\ cursor.pending.through \in Nat
    BY <1>3 DEF Cursors, Batches
  <2> QED
    BY <1>1, <2>1 DEF CursorOK
<1> QED
  BY <1>1, <1>2, <1>3

LEMMA CursorsStep ==
  ASSUME Inv, [Next]_vars
  PROVE  \A c \in Consumers : CursorOK(doc', c)
<1>1. /\ TypeOK /\ WellFormed /\ doc \in Documents
      /\ doc.nextSequence \in Nat /\ doc.generation \in Nat
      /\ doc.nextSequence = Len(doc.events) + 1
      /\ \A c \in Consumers : CursorOK(doc, c)
  BY DEF Inv, NumberInv, TypeOK, Documents, WellFormed, FreshInv, CursorOK, Registered
<1>2. /\ doc' \in Documents
      /\ doc'.nextSequence >= doc.nextSequence
      /\ doc'.generation >= doc.generation
  BY TypeStep, EventsStep DEF TypeOK
<1> SUFFICES ASSUME NEW x \in Consumers
             PROVE  CursorOK(doc', x)
  OBVIOUS
<1>3. CASE doc'.consumers[x] = doc.consumers[x]
  BY <1>1, <1>2, <1>3, CursorKept
<1>4. CASE Quiet \/ CommitAttempt \/ CommitSuccess
  <2>1. doc'.consumers = doc.consumers
    BY <1>1, <1>4, QuietFrame, AttemptFrame, SuccessWritten
  <2> QED
    BY <1>3, <2>1
<1>5. ASSUME NEW c \in Consumers, Joins(c) \/ Cuts(c) \/ Repeats(c) \/ Confirms(c), x # c
      PROVE  doc'.consumers[x] = doc.consumers[x]
  BY <1>1, <1>5 DEF Joins, Cuts, Repeats, Confirms, CursorMoves, Documents
<1>6. CASE Joins(x)
  <2>1. PICK from \in {0, Len(doc.events)} :
          CursorMoves(x, [acknowledgedThrough |-> from, pending |-> None, tokens |-> {}])
    BY <1>6 DEF Joins
  <2>2. /\ doc'.consumers[x] = [acknowledgedThrough |-> from, pending |-> None, tokens |-> {}]
        /\ doc'.nextSequence = doc.nextSequence
    BY <1>1, <2>1 DEF CursorMoves, Documents
  <2>3. from < doc.nextSequence
    BY <1>1
  <2> QED
    BY <2>2, <2>3 DEF CursorOK
<1>7. CASE Cuts(x)
  <2>1. PICK batch \in Batches :
          /\ batch.token = doc.generation + 1
          /\ batch.from = doc.consumers[x].acknowledgedThrough + 1
          /\ batch.through \in batch.from .. Len(doc.events)
          /\ CursorMoves(x, [doc.consumers[x] EXCEPT !.pending = batch])
    BY <1>7 DEF Cuts
  <2> DEFINE cursor == doc.consumers[x]
  <2>2. /\ doc'.consumers[x] = [cursor EXCEPT !.pending = batch]
        /\ doc'.nextSequence = doc.nextSequence
        /\ doc'.generation = doc.generation + 1
    BY <1>1, <2>1 DEF CursorMoves, Documents
  <2>3. cursor \in Cursors /\ cursor # None
    BY <1>7, NoneAssumption DEF Cuts
  <2> HIDE DEF cursor
  <2>4. /\ doc'.consumers[x].acknowledgedThrough = cursor.acknowledgedThrough
        /\ doc'.consumers[x].pending = batch
        /\ doc'.consumers[x].tokens = cursor.tokens
    BY <2>2, <2>3 DEF Cursors
  <2>5. /\ cursor.acknowledgedThrough < doc.nextSequence
        /\ \A t \in cursor.tokens : t \in Nat /\ t <= doc.generation
    BY <1>1, <2>3 DEF CursorOK, cursor, Cursors
  <2>6. /\ batch.from \in Nat /\ batch.through \in Nat
        /\ batch.from <= batch.through /\ batch.through < doc.nextSequence
    BY <1>1, <2>1 DEF Batches
  <2>7. batch.token \notin cursor.tokens /\ \A t \in cursor.tokens : t <= doc'.generation
    BY <1>1, <2>1, <2>2, <2>5
  <2>8. batch.from = cursor.acknowledgedThrough + 1
    BY <2>1 DEF cursor
  <2>9. batch.token <= doc'.generation
    BY <1>1, <2>1, <2>2
  <2> QED
    BY <2>2, <2>4, <2>5, <2>6, <2>7, <2>8, <2>9 DEF CursorOK
<1>8. CASE Confirms(x)
  <2> DEFINE cursor == doc.consumers[x]
             token == cursor.pending.token
  <2>1. /\ doc'.consumers[x] = [acknowledgedThrough |-> cursor.pending.through,
                                pending             |-> None,
                                tokens              |-> cursor.tokens \cup {token}]
        /\ doc'.nextSequence = doc.nextSequence
        /\ doc'.generation = doc.generation + 1
    BY <1>1, <1>8 DEF Confirms, CursorMoves, Documents
  <2>2. cursor \in Cursors /\ cursor.pending \in Batches /\ cursor # None /\ cursor.pending # None
    BY <1>8, NoneAssumption DEF Confirms
  <2>3. /\ cursor.pending.through < doc.nextSequence
        /\ token \in Nat /\ token <= doc.generation
        /\ \A t \in cursor.tokens : t \in Nat /\ t <= doc.generation
    BY <1>1, <2>2 DEF CursorOK, Cursors, Batches
  <2> HIDE DEF cursor, token
  <2>4. \A t \in cursor.tokens \cup {token} : t <= doc'.generation
    BY <1>1, <2>1, <2>3
  <2> QED
    BY <2>1, <2>3, <2>4 DEF CursorOK
<1>9. CASE Repeats(x)
  BY <1>3, <1>9 DEF Repeats
<1> QED
  BY <1>1, <1>3, <1>4, <1>5, <1>6, <1>7, <1>8, <1>9, StepCases

LEMMA WellFormedStep ==
  ASSUME Inv, [Next]_vars
  PROVE  WellFormed'
BY EventsStep, CursorsStep DEF WellFormed, CursorOK, Registered

\* What a running check relies on: only it writes.
LEMMA CheckStepInv ==
  ASSUME Inv, [Next]_vars
  PROVE  CheckInv'
<1>1. TypeOK /\ WellFormed /\ CheckInv
  BY DEF Inv, NumberInv
<1>2. ASSUME NEW requested \in SUBSET Enrolments, BeginCheck(requested)
      PROVE  CheckInv'
  BY <1>2 DEF BeginCheck, CheckInv
<1>3. ASSUME NEW e \in Enrolments, ReadEnrolment(e)
      PROVE  CheckInv'
  <2>1. check \in Checks /\ Reading /\ doc' = doc
    BY <1>1, <1>3 DEF ReadEnrolment, Reading, TypeOK
  <2>2. check'.id = check.id /\ check'.prior = check.prior
    BY <1>3, <2>1 DEF ReadEnrolment, Checks
  <2> QED
    BY <1>1, <2>1, <2>2 DEF CheckInv
<1>4. CASE Quiet
  <2>1. CASE ReportUncertain \/ AbandonCheck
    BY <2>1 DEF ReportUncertain, AbandonCheck, EndCheck, CheckInv, Reading
  <2>2. CASE \E e \in Enrolments, r \in Records : PortalChanges(e, r)
    BY <1>1, <2>2 DEF PortalChanges, CheckInv, Reading
  <2>3. CASE UNCHANGED vars
    BY <1>1, <2>3 DEF vars, CheckInv, Reading
  <2> QED
    BY <1>2, <1>3, <1>4, <2>1, <2>2, <2>3 DEF Quiet
<1>5. CASE CommitAttempt
  BY <1>1, <1>5, AttemptFrame DEF CheckInv, Reading
<1>6. CASE CommitSuccess
  <2>1. check \in Checks
    BY <1>1, <1>6 DEF CommitSuccess, Reading, TypeOK
  <2>2. check' # None => check'.phase = "uncertain"
    BY <1>6, <2>1 DEF CommitSuccess, Checks
  <2> QED
    BY <2>2 DEF CheckInv, Reading
<1>7. CASE check = None /\ check' = check
  BY <1>7 DEF CheckInv, Reading
<1> QED
  BY <1>1, <1>4, <1>5, <1>6, <1>7, StepCases

\* The verdict of a success is not replaced by another one of the same check.
LEMMA VerdictStep ==
  ASSUME Inv, [Next]_vars
  PROVE  /\ OneVerdict'
         /\ doc'.success # None => doc'.success.id <= doc'.generation
<1>1. /\ TypeOK /\ WellFormed /\ CheckInv /\ OneVerdict
      /\ doc.success # None => doc.success.id <= doc.generation
      /\ doc.generation \in Nat
      /\ doc.success # None => doc.success.id \in Nat
  BY DEF Inv, NumberInv, FreshInv, TypeOK, Documents, Attempts
<1>2. CASE Quiet
  BY <1>1, <1>2, QuietFrame DEF OneVerdict
<1>3. CASE CommitAttempt
  <2>1. /\ Reading /\ doc'.latest.id = check.id /\ doc'.success = doc.success
        /\ doc'.generation = doc.generation + 1
    BY <1>1, <1>3, AttemptFrame
  <2>2. check.id = doc.generation + 1
    BY <1>1, <2>1 DEF CheckInv
  <2> QED
    BY <1>1, <2>1, <2>2 DEF OneVerdict
<1>4. CASE CommitSuccess
  <2>1. /\ doc'.latest = doc'.success /\ doc'.success.id = check.id
        /\ doc'.generation = doc.generation + 1
    BY <1>4, SuccessWritten
  <2>2. check.id = doc.generation + 1
    BY <1>1, <1>4 DEF CheckInv, CommitSuccess
  <2> QED
    BY <1>1, <2>1, <2>2 DEF OneVerdict
<1>5. CASE /\ doc'.latest = doc.latest /\ doc'.success = doc.success
           /\ doc'.generation \in {doc.generation, doc.generation + 1}
  BY <1>1, <1>5 DEF OneVerdict
<1>6. CASE \E c \in Consumers : Joins(c) \/ Cuts(c) \/ Repeats(c) \/ Confirms(c)
  BY <1>5, <1>6 DEF Joins, Cuts, Repeats, Confirms, CursorMoves
<1> QED
  BY <1>1, <1>2, <1>3, <1>4, <1>6, StepCases

\* What consumers have is the same after a step that is not one of theirs.
LEMMA ConsumersKept ==
  ASSUME Inv, [Next]_vars, Quiet \/ CommitAttempt \/ CommitSuccess
  PROVE  doc'.consumers = doc.consumers /\ received' = received
<1>1. TypeOK
  BY DEF Inv, NumberInv
<1> QED
  BY <1>1, QuietFrame, AttemptFrame, SuccessWritten DEF CommitSuccess

\* What a consumer was given, in terms of its cursor.
Held(given, cursor) ==
  \A b \in given :
    /\ cursor # None
    /\ b = cursor.pending \/ b.through <= cursor.acknowledgedThrough

\* Two batches a consumer was given share no event.
Disjoint(given) ==
  \A a, b \in given : a = b \/ a.through < b.from \/ b.through < a.from

\* A batch that continues the cursor is behind everything given before it.
LEMMA GivenAfter ==
  ASSUME NEW given \in SUBSET Batches, NEW cursor \in Cursors, Held(given, cursor),
         Disjoint(given), NEW batch \in Batches,
         batch.from = cursor.acknowledgedThrough + 1,
         cursor.pending \in {None, batch}
  PROVE  Disjoint(given \cup {batch})
<1>1. ASSUME NEW b \in given
      PROVE  b = batch \/ b.through < batch.from
  <2>1. b \in Batches /\ b # None /\ cursor.acknowledgedThrough \in Nat
    BY NoneAssumption DEF Cursors
  <2>2. b = batch \/ b.through <= cursor.acknowledgedThrough
    BY <2>1 DEF Held
  <2> QED
    BY <2>1, <2>2 DEF Batches
<1> QED
  BY <1>1 DEF Disjoint

\* A consumer's batches stay disjoint, and are acknowledged or pending.
LEMMA GivenStep ==
  ASSUME Inv, [Next]_vars, NEW x \in Consumers
  PROVE  Held(received'[x], doc'.consumers[x]) /\ Disjoint(received'[x])
<1>1. /\ TypeOK /\ WellFormed /\ doc \in Documents
      /\ received \in [Consumers -> SUBSET Batches]
      /\ Held(received[x], doc.consumers[x]) /\ Disjoint(received[x])
      /\ CursorOK(doc, x)
  BY DEF Inv, NumberInv, TypeOK, DeliveryInv, StableBatches, Held, Disjoint, Registered,
         WellFormed, FreshInv, CursorOK
<1>2. CASE received'[x] = received[x] /\ doc'.consumers[x] = doc.consumers[x]
  BY <1>1, <1>2
<1>3. ASSUME NEW c \in Consumers, Joins(c) \/ Cuts(c) \/ Repeats(c) \/ Confirms(c), x # c
      PROVE  received'[x] = received[x] /\ doc'.consumers[x] = doc.consumers[x]
  BY <1>1, <1>3 DEF Joins, Cuts, Repeats, Confirms, CursorMoves, Documents, Give
<1>4. CASE Joins(x)
  <2>1. received[x] = {}
    BY <1>1, <1>4 DEF Joins, Held
  <2>2. received'[x] = {}
    BY <1>4, <2>1 DEF Joins
  <2> QED
    BY <2>2 DEF Held, Disjoint
<1>5. CASE Cuts(x)
  <2>1. PICK batch \in Batches :
          /\ batch.from = doc.consumers[x].acknowledgedThrough + 1
          /\ CursorMoves(x, [doc.consumers[x] EXCEPT !.pending = batch])
          /\ Give(x, batch) \/ UNCHANGED received
    BY <1>5 DEF Cuts
  <2> DEFINE cursor == doc.consumers[x]
             after  == [cursor EXCEPT !.pending = batch]
  <2>2. cursor \in Cursors /\ cursor.pending = None /\ doc'.consumers[x] = after
    BY <1>1, <1>5, <2>1 DEF Cuts, CursorMoves, Documents
  <2>3. /\ after # None /\ after.pending = batch
        /\ after.acknowledgedThrough = cursor.acknowledgedThrough
    <3>1. after \in Cursors
      BY <2>2 DEF Cursors
    <3> QED
      BY <2>2, <3>1, NoneAssumption DEF Cursors
  <2>4. received'[x] \in {received[x], received[x] \cup {batch}}
    BY <1>1, <2>1, GiveType
  <2>5. \A b \in received[x] : b # None
    BY <1>1, NoneAssumption
  <2>6. Held(received[x] \cup {batch}, after)
    BY <1>1, <2>2, <2>3, <2>5 DEF Held
  <2>7. Disjoint(received[x] \cup {batch})
    <3>1. received[x] \in SUBSET Batches
      BY <1>1
    <3>2. batch.from = cursor.acknowledgedThrough + 1 /\ Held(received[x], cursor)
      BY <1>1, <2>1
    <3> HIDE DEF cursor
    <3> QED
      BY <1>1, <2>2, <3>1, <3>2, GivenAfter
  <2> HIDE DEF after
  <2> QED
    BY <1>1, <2>2, <2>4, <2>6, <2>7 DEF Held
<1>6. CASE Repeats(x)
  <2> DEFINE cursor == doc.consumers[x]
             batch  == cursor.pending
  <2>1. cursor \in Cursors /\ batch \in Batches /\ doc' = doc /\ Give(x, batch)
    BY <1>6 DEF Repeats
  <2>2. cursor # None /\ batch # None /\ received'[x] = received[x] \cup {batch}
    BY <1>1, <2>1, GiveType, NoneAssumption
  <2>3. batch.from = cursor.acknowledgedThrough + 1
    BY <1>1, <2>2 DEF CursorOK
  <2>4. Disjoint(received[x] \cup {batch})
    <3>1. received[x] \in SUBSET Batches /\ Held(received[x], cursor)
      BY <1>1
    <3>2. batch.from = cursor.acknowledgedThrough + 1 /\ cursor.pending \in {None, batch}
      BY <2>3
    <3> HIDE DEF cursor, batch
    <3> QED
      BY <1>1, <2>1, <3>1, <3>2, GivenAfter
  <2> QED
    BY <1>1, <2>1, <2>2, <2>4 DEF Held
<1>7. CASE Confirms(x)
  <2> DEFINE cursor == doc.consumers[x]
  <2>1. /\ doc'.consumers[x] = [acknowledgedThrough |-> cursor.pending.through,
                                pending             |-> None,
                                tokens              |-> cursor.tokens \cup {cursor.pending.token}]
        /\ received' = received
    BY <1>1, <1>7 DEF Confirms, CursorMoves, Documents
  <2>2. cursor \in Cursors /\ cursor.pending \in Batches /\ cursor # None /\ cursor.pending # None
    BY <1>7, NoneAssumption DEF Confirms
  <2>3. doc'.consumers[x] \in Cursors /\ doc'.consumers[x] # None
    BY <2>1, <2>2, NoneAssumption DEF Cursors, Batches
  <2>4. cursor.acknowledgedThrough <= cursor.pending.through
    BY <1>1, <2>2 DEF CursorOK, Cursors, Batches
  <2>5. ASSUME NEW b \in received[x]
        PROVE  b.through <= cursor.pending.through
    <3>1. b \in Batches
      BY <1>1
    <3>2. b = cursor.pending \/ b.through <= cursor.acknowledgedThrough
      BY <1>1 DEF Held
    <3> QED
      BY <2>2, <2>4, <3>1, <3>2 DEF Batches, Cursors
  <2>6. doc'.consumers[x].acknowledgedThrough = cursor.pending.through
    BY <2>1
  <2> HIDE DEF cursor
  <2> QED
    BY <1>1, <2>1, <2>3, <2>5, <2>6 DEF Held
<1> QED
  BY <1>1, <1>2, <1>3, <1>4, <1>5, <1>6, <1>7, StepCases, ConsumersKept

\* The token of a pending batch: no other consumer's is the same, and whoever
\* was given that token was given that batch.
TokenOf(c) ==
  LET batch == doc.consumers[c].pending
  IN  doc.consumers[c] # None /\ batch # None =>
        \A x \in Consumers :
          /\ /\ doc.consumers[x] # None
             /\ doc.consumers[x].pending # None
             /\ doc.consumers[x].pending.token = batch.token
             => x = c
          /\ \A b \in received[x] : b.token = batch.token => x = c /\ b = batch

LEMMA TokenStep ==
  ASSUME Inv, [Next]_vars
  PROVE  /\ \A c \in Consumers : TokenOf(c)'
         /\ \A c \in Consumers : \A b \in received'[c] : b.token <= doc'.generation
<1>1. /\ TypeOK /\ WellFormed /\ doc \in Documents /\ doc.generation \in Nat
      /\ received \in [Consumers -> SUBSET Batches]
      /\ \A c \in Consumers : \A b \in received[c] : b.token <= doc.generation
      /\ \A c \in Consumers : CursorOK(doc, c)
      /\ \A c \in Consumers : Held(received[c], doc.consumers[c])
  BY DEF Inv, NumberInv, TypeOK, Documents, WellFormed, FreshInv, Registered, CursorOK,
         DeliveryInv, Held
<1>2. \A c \in Consumers : TokenOf(c)
  <2>1. \A x \in Consumers : doc.consumers[x] = None => received[x] = {}
    BY <1>1 DEF Held
  <2> QED
    BY <2>1 DEF Inv, NumberInv, DeliveryInv, TokenOf, Registered
<1>3. ASSUME NEW c \in Consumers, NEW b \in received[c]
      PROVE  b \in Batches /\ b.token \in Nat
  BY <1>1 DEF Batches
<1>4. ASSUME NEW c \in Consumers, doc.consumers[c] # None, doc.consumers[c].pending # None
      PROVE  doc.consumers[c].pending.token \in Nat
               /\ doc.consumers[c].pending.token <= doc.generation
  <2>1. doc.consumers[c].pending \in Batches
    BY <1>1, <1>4 DEF Documents, Cursors
  <2> QED
    BY <1>1, <1>4, <2>1 DEF Batches, CursorOK
<1>5. CASE /\ doc'.consumers = doc.consumers /\ received' = received
           /\ doc'.generation >= doc.generation
  <2>1. doc'.generation \in Nat
    BY TypeStep DEF TypeOK, Documents
  <2>2. \A c \in Consumers : TokenOf(c)'
    BY <1>2, <1>5 DEF TokenOf
  <2> QED
    BY <1>1, <1>3, <1>5, <2>1, <2>2
<1>6. CASE Quiet \/ CommitAttempt \/ CommitSuccess
  BY <1>5, <1>6, ConsumersKept, EventsStep
<1>7. ASSUME NEW y \in Consumers, Joins(y)
      PROVE  /\ \A c \in Consumers : TokenOf(c)'
             /\ \A c \in Consumers : \A b \in received'[c] : b.token <= doc'.generation
  <2>1. /\ received' = received /\ doc'.generation = doc.generation + 1
        /\ doc'.consumers[y].pending = None
        /\ \A c \in Consumers : c # y => doc'.consumers[c] = doc.consumers[c]
    BY <1>1, <1>7 DEF Joins, CursorMoves, Documents
  <2>2. \A c \in Consumers : TokenOf(c)'
    BY <1>2, <2>1 DEF TokenOf
  <2> QED
    BY <1>1, <1>3, <2>1, <2>2
<1>8. ASSUME NEW y \in Consumers, Cuts(y)
      PROVE  /\ \A c \in Consumers : TokenOf(c)'
             /\ \A c \in Consumers : \A b \in received'[c] : b.token <= doc'.generation
  <2>1. PICK batch \in Batches :
          /\ batch.token = doc.generation + 1
          /\ CursorMoves(y, [doc.consumers[y] EXCEPT !.pending = batch])
          /\ Give(y, batch) \/ UNCHANGED received
    BY <1>8 DEF Cuts
  <2>2. /\ doc'.generation = doc.generation + 1
        /\ doc'.consumers[y].pending = batch
        /\ \A c \in Consumers : c # y => doc'.consumers[c] = doc.consumers[c]
    BY <1>1, <1>8, <2>1 DEF Cuts, CursorMoves, Documents, Cursors
  <2>3. ASSUME NEW c \in Consumers, NEW b \in received'[c]
        PROVE  b \in received[c] \/ (c = y /\ b = batch)
    BY <1>1, <2>1 DEF Give
  <2>4. ASSUME NEW c \in Consumers, NEW b \in received'[c]
        PROVE  b.token <= doc'.generation
    BY <1>1, <1>3, <2>1, <2>2, <2>3
  <2>5. ASSUME NEW c \in Consumers, doc'.consumers[c] # None, doc'.consumers[c].pending # None,
               NEW x \in Consumers, doc'.consumers[x] # None, doc'.consumers[x].pending # None,
               doc'.consumers[x].pending.token = doc'.consumers[c].pending.token
        PROVE  x = c
    <3>1. CASE c = y \/ x = y
      BY <1>1, <1>4, <2>1, <2>2, <2>5, <3>1
    <3>2. CASE c # y /\ x # y
      BY <1>2, <2>2, <2>5, <3>2 DEF TokenOf
    <3> QED
      BY <3>1, <3>2
  <2>6. ASSUME NEW c \in Consumers, doc'.consumers[c] # None, doc'.consumers[c].pending # None,
               NEW x \in Consumers, NEW b \in received'[x],
               b.token = doc'.consumers[c].pending.token
        PROVE  x = c /\ b = doc'.consumers[c].pending
    <3>1. CASE c = y
      <4>1. b.token = doc.generation + 1
        BY <2>1, <2>2, <2>6, <3>1
      <4>2. b \notin received[x]
        BY <1>1, <1>3, <4>1
      <4> QED
        BY <2>2, <2>3, <3>1, <4>2
    <3>2. CASE c # y
      <4>1. b.token <= doc.generation /\ b.token \in Nat
        BY <1>4, <2>2, <2>6, <3>2
      <4>2. b \in received[x]
        BY <1>1, <2>1, <2>3, <4>1
      <4> QED
        BY <1>2, <2>2, <2>6, <3>2, <4>2 DEF TokenOf
    <3> QED
      BY <3>1, <3>2
  <2> QED
    BY <2>4, <2>5, <2>6 DEF TokenOf
<1>9. ASSUME NEW y \in Consumers, Repeats(y)
      PROVE  /\ \A c \in Consumers : TokenOf(c)'
             /\ \A c \in Consumers : \A b \in received'[c] : b.token <= doc'.generation
  <2> DEFINE batch == doc.consumers[y].pending
  <2>1. /\ doc' = doc /\ doc.consumers[y] # None /\ batch # None /\ batch \in Batches
    BY <1>9, NoneAssumption DEF Repeats
  <2>2. ASSUME NEW c \in Consumers, NEW b \in received'[c]
        PROVE  b \in received[c] \/ (c = y /\ b = batch)
    BY <1>1, <1>9 DEF Repeats, Give
  <2>3. ASSUME NEW c \in Consumers, NEW b \in received'[c]
        PROVE  b.token <= doc'.generation
    BY <1>1, <1>4, <2>1, <2>2
  <2>4. ASSUME NEW c \in Consumers, doc.consumers[c] # None, doc.consumers[c].pending # None,
               NEW x \in Consumers, NEW b \in received'[x],
               b.token = doc.consumers[c].pending.token
        PROVE  x = c /\ b = doc.consumers[c].pending
    <3>1. CASE b \in received[x]
      BY <1>2, <2>4, <3>1 DEF TokenOf
    <3>2. CASE x = y /\ b = batch
      BY <1>2, <2>1, <2>4, <3>2 DEF TokenOf
    <3> QED
      BY <2>2, <3>1, <3>2
  <2> HIDE DEF batch
  <2> QED
    BY <1>2, <2>1, <2>3, <2>4 DEF TokenOf
<1>10. ASSUME NEW y \in Consumers, Confirms(y)
       PROVE  /\ \A c \in Consumers : TokenOf(c)'
              /\ \A c \in Consumers : \A b \in received'[c] : b.token <= doc'.generation
  <2>1. /\ received' = received /\ doc'.generation = doc.generation + 1
        /\ doc'.consumers[y].pending = None
        /\ \A c \in Consumers : c # y => doc'.consumers[c] = doc.consumers[c]
    BY <1>1, <1>10 DEF Confirms, CursorMoves, Documents
  <2>2. \A c \in Consumers : TokenOf(c)'
    BY <1>2, <2>1 DEF TokenOf
  <2> QED
    BY <1>1, <1>3, <2>1, <2>2
<1> QED
  BY <1>1, <1>6, <1>7, <1>8, <1>9, <1>10, StepCases

LEMMA DeliveryStep ==
  ASSUME Inv, [Next]_vars
  PROVE  DeliveryInv' /\ StableBatches'
<1>1. \A x \in Consumers : Held(received'[x], doc'.consumers[x]) /\ Disjoint(received'[x])
  BY GivenStep
<1>2. \A c \in Consumers : TokenOf(c)'
  BY TokenStep
<1> QED
  BY <1>1, <1>2 DEF DeliveryInv, StableBatches, Held, Disjoint, TokenOf, Registered

LEMMA FreshStep ==
  ASSUME Inv, [Next]_vars
  PROVE  FreshInv'
BY EventsStep, VerdictStep, CursorsStep, TokenStep DEF FreshInv, CursorOK, Registered

-----------------------------------------------------------------------------
(* Versions go forward, and the history explains the baselines. *)

\* Snapshots, baselines, and what a check has read hold numbers.
LEMMA VersionTypes ==
  ASSUME TypeOK, NEW e \in Enrolments, NEW r \in Records
  PROVE  /\ portal[e][r] \in Nat
         /\ doc.baselines[e] # None => doc.baselines[e].snapshot[r] \in Nat
         /\ check # None =>
              /\ DOMAIN check.observed \subseteq Enrolments
              /\ \A x \in DOMAIN check.observed : check.observed[x] \in Snapshots
              /\ e \in DOMAIN check.observed => check.observed[e][r] \in Nat
<1>1. /\ Versions \subseteq Nat /\ portal \in [Enrolments -> Snapshots]
      /\ doc \in Documents /\ check \in Checks \cup {None}
  BY LimitsAssumption DEF Versions, TypeOK
<1>2. \A s \in Snapshots : s[r] \in Nat
  BY <1>1 DEF Snapshots
<1>3. doc.baselines[e] # None => doc.baselines[e].snapshot \in Snapshots
  BY <1>1 DEF Documents, Baselines
<1>4. ASSUME check # None
      PROVE  /\ DOMAIN check.observed \subseteq Enrolments
             /\ \A x \in DOMAIN check.observed : check.observed[x] \in Snapshots
  <2>1. PICK read \in SUBSET Enrolments : check.observed \in [read -> Snapshots]
    BY <1>1, <1>4 DEF Checks
  <2> QED
    BY <2>1
<1> QED
  BY <1>1, <1>2, <1>3, <1>4

\* The portal does not take a version back.
LEMMA PortalGrows ==
  ASSUME Inv, [Next]_vars, NEW e \in Enrolments, NEW r \in Records
  PROVE  portal[e][r] <= portal'[e][r] /\ portal[e][r] \in Nat /\ portal'[e][r] \in Nat
<1>1. TypeOK /\ WellFormed /\ portal \in [Enrolments -> [Records -> Versions]]
  BY DEF Inv, NumberInv, TypeOK, Snapshots
<1>2. portal[e][r] \in Nat
  BY <1>1, VersionTypes
<1>3. portal'[e][r] \in Nat
  <2>1. portal' \in [Enrolments -> [Records -> Versions]]
    BY TypeStep DEF TypeOK, Snapshots
  <2> QED
    BY <2>1, LimitsAssumption DEF Versions
<1> SUFFICES portal[e][r] <= portal'[e][r]
  BY <1>2, <1>3
<1>4. CASE portal' = portal
  BY <1>2, <1>4
<1>5. ASSUME NEW x \in Enrolments, NEW y \in Records, PortalChanges(x, y)
      PROVE  portal[e][r] <= portal'[e][r]
  <2>1. portal' = [portal EXCEPT ![x] = [portal[x] EXCEPT ![y] = portal[x][y] + 1]]
    BY <1>5 DEF PortalChanges
  <2>2. portal'[e][r] \in {portal[e][r], portal[e][r] + 1}
    BY <1>1, <2>1
  <2> QED
    BY <1>2, <2>2
<1>6. CASE Quiet
  BY <1>4, <1>5, <1>6 DEF Quiet, BeginCheck, ReadEnrolment, ReportUncertain, AbandonCheck,
                          EndCheck, vars
<1> QED
  BY <1>1, <1>4, <1>6, StepCases, AttemptFrame DEF CommitSuccess

\* What a successful check commits, for one enrolment: its new baseline.
LEMMA NewBaseline ==
  ASSUME Inv, CommitSuccess, NEW e \in Enrolments
  PROVE  /\ e \in DOMAIN check.observed =>
              doc'.baselines[e] # None /\ doc'.baselines[e].snapshot = check.observed[e]
         /\ e \notin DOMAIN check.observed => doc'.baselines[e] = doc.baselines[e]
         /\ doc.baselines[e] # None => doc'.baselines[e] # None
<1>1. TypeOK /\ check \in Checks
  BY DEF Inv, NumberInv, TypeOK, CommitSuccess, Reading
<1>2. doc'.baselines =
        [x \in Enrolments |->
           IF x \in DOMAIN check.observed
           THEN [id |-> check.id, snapshot |-> check.observed[x]]
           ELSE doc.baselines[x]]
  BY SuccessWritten
<1>3. ASSUME e \in DOMAIN check.observed
      PROVE  [id |-> check.id, snapshot |-> check.observed[e]] # None
  <2>1. PICK read \in SUBSET Enrolments : check.observed \in [read -> Snapshots]
    BY <1>1 DEF Checks
  <2>2. [id |-> check.id, snapshot |-> check.observed[e]] \in Baselines
    BY <1>1, <1>3, <2>1 DEF Baselines, Checks
  <2> QED
    BY <2>2, NoneAssumption
<1> QED
  BY <1>2, <1>3

\* The events a successful check adds: each is a change of a record, from the
\* baseline the check began with to the one it commits.
LEMMA NewEvents ==
  ASSUME Inv, CommitSuccess, NEW j \in DOMAIN doc'.events
  PROVE  LET n == Len(doc.events)
             change == doc'.events[j].change
         IN  /\ n \in Nat
             /\ DOMAIN doc.events = 1 .. n
             /\ j \in 1 .. n => doc'.events[j] = doc.events[j]
             /\ j \notin 1 .. n =>
                  /\ j > n
                  /\ change \in Found
                  /\ change.enrolment \in DOMAIN check.observed
                  /\ doc.baselines[change.enrolment] # None
                  /\ change.version = check.observed[change.enrolment][change.record]
                  /\ change.version # doc.baselines[change.enrolment].snapshot[change.record]
<1> DEFINE n == Len(doc.events)
<1>1. TypeOK /\ CheckInv /\ doc.events \in Seq(RetainedEvents)
  BY DEF Inv, NumberInv, TypeOK, Documents
<1>2. Reading /\ Remaining = {} /\ check.prior = doc.baselines
  BY <1>1 DEF CommitSuccess, CheckInv
<1>3. PICK items \in Seq(Found) :
        /\ doc' \in Documents
        /\ Len(doc'.events) = n + Len(items)
        /\ \A i \in 1 .. n : doc'.events[i] = doc.events[i]
        /\ \A i \in 1 .. Len(items) : doc'.events[n + i].change = items[i]
  BY SuccessWritten
<1>4. n \in Nat /\ DOMAIN doc.events = 1 .. n /\ Len(items) \in Nat
  BY <1>1
<1>5. j \in 1 .. n + Len(items)
  <2>1. DOMAIN doc'.events = 1 .. Len(doc'.events)
    BY <1>3 DEF Documents
  <2> HIDE DEF n
  <2> QED
    BY <1>3, <2>1
<1> HIDE DEF n
<1>6. ASSUME j \notin 1 .. n
      PROVE  j > n /\ doc'.events[j].change \in Found
  <2> DEFINE h == j - n
  <2>1. h \in 1 .. Len(items) /\ j = n + h /\ j > n
    BY <1>4, <1>5, <1>6
  <2> HIDE DEF h
  <2>2. doc'.events[j].change = items[h] /\ items[h] \in Found
    BY <1>3, <2>1
  <2> QED
    BY <2>1, <2>2
<1>7. \A x \in Found :
        /\ x.enrolment \in DOMAIN check.observed
        /\ doc.baselines[x.enrolment] # None
        /\ x.version = check.observed[x.enrolment][x.record]
        /\ x.version # doc.baselines[x.enrolment].snapshot[x.record]
  BY <1>1, <1>2, FoundProperties
<1> QED
  BY <1>3, <1>4, <1>6, <1>7 DEF n

\* The change an event records is of an enrolment's record.
LEMMA EventTypes ==
  ASSUME NEW d \in Documents, NEW i \in DOMAIN d.events
  PROVE  /\ d.events[i].change.enrolment \in Enrolments
         /\ d.events[i].change.record \in Records
         /\ d.events[i].change.version \in Nat
<1>1. d.events[i] \in RetainedEvents
  BY DEF Documents
<1> QED
  BY <1>1, LimitsAssumption DEF RetainedEvents, Changes, Versions

LEMMA VersionStep ==
  ASSUME Inv, [Next]_vars
  PROVE  VersionInv'
<1>1. TypeOK /\ WellFormed /\ VersionInv /\ doc \in Documents
  BY DEF Inv, NumberInv, TypeOK
<1>2. TypeOK'
  BY TypeStep
\* What is read is not behind the baseline.
<1>3. ASSUME CommitSuccess, NEW e \in DOMAIN check.observed, NEW r \in Records
      PROVE  /\ e \in Enrolments
             /\ check.observed[e][r] \in Nat
             /\ check.observed[e][r] <= portal[e][r]
             /\ doc.baselines[e] # None =>
                  /\ doc.baselines[e].snapshot[r] \in Nat
                  /\ doc.baselines[e].snapshot[r] <= check.observed[e][r]
  <2>1. check # None /\ Reading
    BY <1>3 DEF CommitSuccess, Reading
  <2>2. e \in Enrolments
    BY <1>1, <1>3, <2>1 DEF TypeOK, Checks
  <2> QED
    BY <1>1, <1>3, <2>1, <2>2, VersionTypes DEF VersionInv
<1>4. ASSUME NEW e \in Enrolments, NEW r \in Records, doc'.baselines[e] # None
      PROVE  doc'.baselines[e].snapshot[r] <= portal'[e][r]
  <2>1. portal[e][r] <= portal'[e][r] /\ portal[e][r] \in Nat /\ portal'[e][r] \in Nat
    BY PortalGrows
  <2>2. CASE doc'.baselines[e] = doc.baselines[e]
    <3>1. doc.baselines[e].snapshot[r] \in Nat /\ doc.baselines[e].snapshot[r] <= portal[e][r]
      BY <1>1, <1>4, <2>2, VersionTypes DEF VersionInv
    <3> QED
      BY <2>1, <2>2, <3>1
  <2>3. CASE CommitSuccess /\ e \in DOMAIN check.observed
    <3>1. doc'.baselines[e].snapshot[r] = check.observed[e][r]
      BY <2>3, NewBaseline
    <3> QED
      BY <1>3, <2>1, <2>3, <3>1
  <2>4. CASE CommitSuccess /\ e \notin DOMAIN check.observed
    BY <2>2, <2>4, NewBaseline
  <2>5. CASE \E c \in Consumers : Joins(c) \/ Cuts(c) \/ Repeats(c) \/ Confirms(c)
    BY <2>2, <2>5 DEF Joins, Cuts, Repeats, Confirms, CursorMoves
  <2> QED
    BY <1>1, <2>2, <2>3, <2>4, <2>5, StepCases, QuietFrame, AttemptFrame
<1>5. ASSUME NEW e \in Enrolments, NEW r \in Records, Reading', e \in DOMAIN check'.observed
      PROVE  /\ check'.observed[e][r] <= portal'[e][r]
             /\ doc'.baselines[e] # None =>
                  doc'.baselines[e].snapshot[r] <= check'.observed[e][r]
  <2>1. portal[e][r] <= portal'[e][r] /\ portal[e][r] \in Nat /\ portal'[e][r] \in Nat
    BY PortalGrows
  <2>2. CASE doc' = doc /\ Reading /\ e \in DOMAIN check.observed
             /\ check'.observed[e] = check.observed[e]
    <3>1. /\ check.observed[e][r] \in Nat /\ check.observed[e][r] <= portal[e][r]
          /\ doc.baselines[e] # None =>
               doc.baselines[e].snapshot[r] <= check.observed[e][r]
      BY <1>1, <2>2, VersionTypes DEF VersionInv, Reading
    <3> QED
      BY <2>1, <2>2, <3>1
  <2>3. ASSUME NEW x \in Enrolments, ReadEnrolment(x)
        PROVE  /\ check'.observed[e][r] <= portal'[e][r]
               /\ doc'.baselines[e] # None =>
                    doc'.baselines[e].snapshot[r] <= check'.observed[e][r]
    <3>1. /\ check \in Checks /\ Reading /\ doc' = doc /\ portal' = portal
      BY <1>1, <2>3 DEF ReadEnrolment, Reading, TypeOK
    <3>2. check'.observed = [y \in DOMAIN check.observed \cup {x} |->
                               IF y = x THEN portal[x] ELSE check.observed[y]]
      BY <2>3, <3>1 DEF ReadEnrolment, Checks
    <3>3. CASE e = x
      <4>1. check'.observed[e] = portal[e]
        BY <3>2, <3>3
      <4> QED
        BY <1>1, <2>1, <3>1, <4>1 DEF VersionInv
    <3>4. CASE e # x
      <4>1. e \in DOMAIN check.observed /\ check'.observed[e] = check.observed[e]
        BY <1>5, <3>2, <3>4
      <4> QED
        BY <2>2, <3>1, <4>1
    <3> QED
      BY <3>3, <3>4
  <2>4. ~(\E requested \in SUBSET Enrolments : BeginCheck(requested))
    BY <1>5 DEF BeginCheck
  <2>5. CASE Quiet
    <3>1. CASE check' = check
      BY <1>5, <2>2, <2>5, <3>1, QuietFrame DEF Reading
    <3>2. CASE check' = None
      BY <1>5, <3>2 DEF Reading
    <3> QED
      BY <2>3, <2>4, <2>5, <3>1, <3>2
         DEF Quiet, ReportUncertain, AbandonCheck, EndCheck, PortalChanges, vars
  <2>6. ~CommitAttempt
    BY <1>1, <1>5, AttemptFrame DEF Reading
  <2>7. ~CommitSuccess
    BY <1>1, <1>5 DEF CommitSuccess, Reading, TypeOK, Checks
  <2>8. ~(check = None /\ check' = check)
    BY <1>5 DEF Reading
  <2> QED
    BY <1>1, <2>5, <2>6, <2>7, <2>8, StepCases
<1>6. ASSUME NEW j \in DOMAIN doc'.events
      PROVE  LET change == doc'.events[j].change
             IN  /\ doc'.baselines[change.enrolment] # None
                 /\ change.version <= doc'.baselines[change.enrolment].snapshot[change.record]
  <2>1. CASE doc'.events = doc.events /\ doc'.baselines = doc.baselines
    BY <1>1, <2>1 DEF VersionInv
  <2>2. CASE CommitSuccess
    <3> DEFINE change == doc'.events[j].change
               e == change.enrolment
               r == change.record
    <3>1. e \in Enrolments /\ r \in Records /\ change.version \in Nat
      BY <1>2, EventTypes DEF TypeOK
    <3>2. CASE j \in 1 .. Len(doc.events)
      <4>1. /\ doc.baselines[e] # None
            /\ change.version <= doc.baselines[e].snapshot[r]
        BY <1>1, <2>2, <3>2, NewEvents DEF VersionInv
      <4>2. doc.baselines[e].snapshot[r] \in Nat
        BY <1>1, <3>1, <4>1, VersionTypes
      <4> HIDE DEF change, e, r
      <4>3. CASE e \in DOMAIN check.observed
        <5>1. /\ doc'.baselines[e] # None
              /\ doc'.baselines[e].snapshot = check.observed[e]
          BY <2>2, <3>1, <4>3, NewBaseline
        <5>2. /\ check.observed[e][r] \in Nat
              /\ doc.baselines[e].snapshot[r] <= check.observed[e][r]
          BY <1>3, <2>2, <3>1, <4>1, <4>3
        <5>3. change.version <= check.observed[e][r]
          BY <3>1, <4>1, <4>2, <5>2
        <5> QED
          BY <5>1, <5>3 DEF e, r, change
      <4>4. CASE e \notin DOMAIN check.observed
        <5>1. doc'.baselines[e] = doc.baselines[e]
          BY <2>2, <3>1, <4>4, NewBaseline
        <5> QED
          BY <4>1, <5>1 DEF e, r, change
      <4> QED
        BY <4>3, <4>4
    <3>3. CASE j \notin 1 .. Len(doc.events)
      <4>1. e \in DOMAIN check.observed /\ change.version = check.observed[e][r]
        BY <2>2, <3>3, NewEvents
      <4> HIDE DEF change, e, r
      <4>2. /\ doc'.baselines[e] # None
            /\ doc'.baselines[e].snapshot = check.observed[e]
        BY <2>2, <3>1, <4>1, NewBaseline
      <4>3. change.version <= check.observed[e][r]
        BY <3>1, <4>1
      <4> QED
        BY <4>2, <4>3 DEF e, r, change
    <3> QED
      BY <3>2, <3>3
  <2>3. CASE \E c \in Consumers : Joins(c) \/ Cuts(c) \/ Repeats(c) \/ Confirms(c)
    BY <2>1, <2>3 DEF Joins, Cuts, Repeats, Confirms, CursorMoves
  <2> QED
    BY <1>1, <2>1, <2>2, <2>3, StepCases, QuietFrame, AttemptFrame
<1> QED
  BY <1>4, <1>5, <1>6 DEF VersionInv

\* A successful check adds no change twice, and every one it found.
LEMMA NewEventsDistinct ==
  ASSUME Inv, CommitSuccess
  PROVE  /\ \A i, j \in DOMAIN doc'.events :
              /\ i > Len(doc.events) /\ j > Len(doc.events)
              /\ doc'.events[i].change.enrolment = doc'.events[j].change.enrolment
              /\ doc'.events[i].change.record = doc'.events[j].change.record
              => i = j
         /\ \A e \in DOMAIN check.observed, r \in Records :
              /\ doc.baselines[e] # None
              /\ check.observed[e][r] # doc.baselines[e].snapshot[r]
              => \E j \in DOMAIN doc'.events :
                   /\ j > Len(doc.events)
                   /\ doc'.events[j].change.enrolment = e
                   /\ doc'.events[j].change.record = r
<1> DEFINE n == Len(doc.events)
<1>1. TypeOK /\ CheckInv /\ doc.events \in Seq(RetainedEvents)
  BY DEF Inv, NumberInv, TypeOK, Documents
<1>2. Reading /\ Remaining = {} /\ check.prior = doc.baselines
  BY <1>1 DEF CommitSuccess, CheckInv
<1>3. PICK items \in Seq(Found) :
        /\ \A i, j \in 1 .. Len(items) : items[i] = items[j] => i = j
        /\ \A x \in Found : \E i \in 1 .. Len(items) : items[i] = x
        /\ doc' \in Documents
        /\ Len(doc'.events) = n + Len(items)
        /\ \A i \in 1 .. Len(items) : doc'.events[n + i].change = items[i]
  BY SuccessWritten
<1>4. n \in Nat /\ Len(items) \in Nat
  BY <1>1
<1>5. DOMAIN doc'.events = 1 .. n + Len(items)
  <2>1. DOMAIN doc'.events = 1 .. Len(doc'.events)
    BY <1>3 DEF Documents
  <2> HIDE DEF n
  <2> QED
    BY <1>3, <2>1
<1> HIDE DEF n
<1>6. /\ Found \subseteq Changes
      /\ \A x \in Found : x.version = check.observed[x.enrolment][x.record]
      /\ \A e \in DOMAIN check.observed, r \in Records :
           /\ doc.baselines[e] # None
           /\ check.observed[e][r] # doc.baselines[e].snapshot[r]
           => \E x \in Found : x.enrolment = e /\ x.record = r
  BY <1>1, <1>2, FoundProperties
<1>7. ASSUME NEW j \in DOMAIN doc'.events, j > n
      PROVE  \E h \in 1 .. Len(items) : j = n + h /\ doc'.events[j].change = items[h]
  <2> DEFINE h == j - n
  <2>1. h \in 1 .. Len(items) /\ j = n + h
    BY <1>4, <1>5, <1>7
  <2> HIDE DEF h
  <2> QED
    BY <1>3, <2>1
<1>8. ASSUME NEW i \in DOMAIN doc'.events, NEW j \in DOMAIN doc'.events, i > n, j > n,
             doc'.events[i].change.enrolment = doc'.events[j].change.enrolment,
             doc'.events[i].change.record = doc'.events[j].change.record
      PROVE  i = j
  <2>1. PICK g \in 1 .. Len(items) : i = n + g /\ doc'.events[i].change = items[g]
    BY <1>7, <1>8
  <2>2. PICK h \in 1 .. Len(items) : j = n + h /\ doc'.events[j].change = items[h]
    BY <1>7, <1>8
  <2>3. items[g] \in Found /\ items[h] \in Found
    OBVIOUS
  <2>4. items[g] = items[h]
    <3>1. items[g] \in Changes /\ items[h] \in Changes
      BY <1>6, <2>3
    <3>2. items[g].version = items[h].version
      BY <1>6, <1>8, <2>1, <2>2, <2>3
    <3> QED
      BY <1>8, <2>1, <2>2, <3>1, <3>2 DEF Changes
  <2> QED
    BY <1>3, <2>1, <2>2, <2>4
<1>9. ASSUME NEW e \in DOMAIN check.observed, NEW r \in Records,
             doc.baselines[e] # None,
             check.observed[e][r] # doc.baselines[e].snapshot[r]
      PROVE  \E j \in DOMAIN doc'.events :
               /\ j > n
               /\ doc'.events[j].change.enrolment = e
               /\ doc'.events[j].change.record = r
  <2>1. PICK x \in Found : x.enrolment = e /\ x.record = r
    BY <1>6, <1>9
  <2>2. PICK h \in 1 .. Len(items) : items[h] = x
    BY <1>3
  <2>3. n + h \in DOMAIN doc'.events /\ n + h > n /\ doc'.events[n + h].change = x
    <3>1. n + h \in 1 .. n + Len(items) /\ n + h > n
      BY <1>4
    <3>2. doc'.events[n + h].change = items[h]
      BY <1>3
    <3> QED
      BY <1>5, <2>2, <3>1, <3>2
  <2> QED
    BY <2>1, <2>3
<1> QED
  BY <1>8, <1>9 DEF n

LEMMA TransitionStep ==
  ASSUME Inv, [Next]_vars
  PROVE  NoTransitionTwice'
<1>1. TypeOK /\ WellFormed /\ VersionInv /\ NoTransitionTwice /\ doc \in Documents /\ doc' \in Documents
  BY TypeStep DEF Inv, NumberInv, TypeOK
<1>2. CASE doc'.events = doc.events
  BY <1>1, <1>2 DEF NoTransitionTwice
<1>3. CASE CommitSuccess
  <2> DEFINE n == Len(doc.events)
  <2>1. Counted(doc'.events)
    BY <1>3, SuccessWritten
  <2>2. n \in Nat /\ DOMAIN doc.events = 1 .. n /\ DOMAIN doc'.events = 1 .. Len(doc'.events)
    BY <1>1 DEF Documents
  <2> SUFFICES ASSUME NEW j \in DOMAIN doc'.events, NEW i \in 1 .. j - 1,
                      SameRecord(doc'.events[i].change, doc'.events[j].change)
               PROVE  doc'.events[i].change.version < doc'.events[j].change.version
    BY <2>1 DEF NoTransitionTwice, Counted
  <2>3. i \in DOMAIN doc'.events /\ i < j /\ i \in Nat /\ j \in Nat
    BY <1>1, <2>2 DEF Documents
  <2> DEFINE a == doc'.events[i].change
             b == doc'.events[j].change
  <2>4. /\ a.enrolment = b.enrolment /\ a.record = b.record
        /\ b.enrolment \in Enrolments /\ b.record \in Records
        /\ a.version \in Nat /\ b.version \in Nat
    BY <1>1, <2>3, EventTypes DEF SameRecord
  <2>5. CASE j \in 1 .. n
    <3>1. i \in 1 .. n /\ doc'.events[i] = doc.events[i] /\ doc'.events[j] = doc.events[j]
      <4>1. i \in 1 .. n
        BY <2>2, <2>3, <2>5
      <4> QED
        BY <1>3, <2>3, <2>5, <4>1, NewEvents
    <3> QED
      BY <1>1, <2>2, <2>5, <3>1 DEF NoTransitionTwice
  <2>6. CASE j \notin 1 .. n /\ i \in 1 .. n
    <3>1. /\ b.enrolment \in DOMAIN check.observed
          /\ doc.baselines[b.enrolment] # None
          /\ b.version = check.observed[b.enrolment][b.record]
          /\ b.version # doc.baselines[b.enrolment].snapshot[b.record]
      BY <1>3, <2>6, NewEvents
    <3>2. a.version <= doc.baselines[a.enrolment].snapshot[a.record]
      BY <1>1, <1>3, <2>2, <2>3, <2>6, NewEvents DEF VersionInv
    <3> HIDE DEF a, b
    <3>3. /\ doc.baselines[b.enrolment].snapshot[b.record] \in Nat
          /\ doc.baselines[b.enrolment].snapshot[b.record]
               <= check.observed[b.enrolment][b.record]
      BY <1>1, <1>3, <2>4, <3>1, VersionTypes DEF CommitSuccess, VersionInv
    <3>4. a.version < b.version
      BY <2>4, <3>1, <3>2, <3>3
    <3> QED
      BY <3>4 DEF a, b
  <2>7. CASE j \notin 1 .. n /\ i \notin 1 .. n
    <3>1. i > n /\ j > n
      BY <2>2, <2>3, <2>7
    <3>2. i = j
      BY <1>3, <2>3, <2>4, <3>1, NewEventsDistinct
    <3> QED
      BY <2>3, <3>2
  <2> QED
    BY <2>5, <2>6, <2>7, <2>3
<1>4. CASE \E c \in Consumers : Joins(c) \/ Cuts(c) \/ Repeats(c) \/ Confirms(c)
  BY <1>2, <1>4 DEF Joins, Cuts, Repeats, Confirms, CursorMoves
<1> QED
  BY <1>1, <1>2, <1>3, <1>4, StepCases, QuietFrame, AttemptFrame

\* The version of a record after the events of a history, from a first one.
Replayed(events, first, e, r) ==
  LET of == {i \in DOMAIN events :
               /\ events[i].change.enrolment = e
               /\ events[i].change.record = r}
  IN  IF of = {} THEN first
      ELSE events[CHOOSE i \in of : \A j \in of : j <= i].change.version

\* Events of other records do not count.
LEMMA ReplaySame ==
  ASSUME NEW before, NEW after, NEW first, NEW e, NEW r, NEW n \in Nat,
         DOMAIN before = 1 .. n, DOMAIN before \subseteq DOMAIN after,
         \A i \in DOMAIN before : after[i] = before[i],
         \A i \in DOMAIN after :
           after[i].change.enrolment = e /\ after[i].change.record = r
             => i \in DOMAIN before
  PROVE  Replayed(after, first, e, r) = Replayed(before, first, e, r)
<1> DEFINE Of(events) == {i \in DOMAIN events :
                            /\ events[i].change.enrolment = e
                            /\ events[i].change.record = r}
           last == CHOOSE i \in Of(before) : \A j \in Of(before) : j <= i
<1>1. Of(after) = Of(before)
  OBVIOUS
<1>2. CASE Of(before) = {}
  BY <1>1, <1>2 DEF Replayed
<1>3. CASE Of(before) # {}
  <2>1. last \in Of(before)
    <3>1. Of(before) \in SUBSET Nat /\ \A i \in Of(before) : i <= n
      OBVIOUS
    <3> HIDE DEF Of
    <3>2. \E i \in Of(before) : \A j \in Of(before) : j <= i
      BY <1>3, <3>1, GreatestElement
    <3> QED
      BY <3>2
  <2>2. after[last] = before[last]
    <3>1. last \in DOMAIN before
      BY <2>1
    <3> HIDE DEF last
    <3> QED
      BY <3>1
  <2>3. /\ Replayed(after, first, e, r) = after[last].change.version
        /\ Replayed(before, first, e, r) = before[last].change.version
    BY <1>1, <1>3 DEF Replayed
  <2> QED
    BY <2>2, <2>3
<1> QED
  BY <1>2, <1>3

\* The last event of a record gives its version.
LEMMA ReplayLast ==
  ASSUME NEW events, NEW first, NEW e, NEW r, NEW n \in Nat, DOMAIN events = 1 .. n,
         NEW j \in 1 .. n,
         events[j].change.enrolment = e, events[j].change.record = r,
         \A i \in 1 .. n :
           i > j /\ events[i].change.enrolment = e => events[i].change.record # r
  PROVE  Replayed(events, first, e, r) = events[j].change.version
<1> DEFINE of == {i \in DOMAIN events :
                    /\ events[i].change.enrolment = e
                    /\ events[i].change.record = r}
<1>1. j \in of /\ \A i \in of : i \in Nat /\ j \in Nat /\ i <= j
  OBVIOUS
<1>2. j = CHOOSE i \in of : \A h \in of : h <= i
  <2> HIDE DEF of
  <2>1. \A i \in of : (\A h \in of : h <= i) <=> i = j
    BY <1>1
  <2> QED
    BY <1>1, <2>1
<1> QED
  BY <1>1, <1>2 DEF Replayed

LEMMA ReplayStep ==
  ASSUME Inv, [Next]_vars
  PROVE  HistoryReplaysBaselines' /\ EnrolledInv'
<1>1. /\ TypeOK /\ WellFormed /\ VersionInv /\ EnrolledInv
      /\ doc \in Documents /\ doc' \in Documents
      /\ \A e \in Enrolments : doc.baselines[e] # None =>
           /\ enrolled[e] # None
           /\ \A r \in Records :
                doc.baselines[e].snapshot[r] = Replayed(doc.events, enrolled[e][r], e, r)
  BY TypeStep DEF Inv, NumberInv, TypeOK, HistoryReplaysBaselines, Replayed
<1> SUFFICES \A e \in Enrolments :
               /\ enrolled'[e] # None => doc'.baselines[e] # None
               /\ doc'.baselines[e] # None =>
                    /\ enrolled'[e] # None
                    /\ \A r \in Records :
                         doc'.baselines[e].snapshot[r]
                           = Replayed(doc'.events, enrolled'[e][r], e, r)
  BY DEF HistoryReplaysBaselines, Replayed, EnrolledInv
<1>2. CASE doc'.events = doc.events /\ doc'.baselines = doc.baselines /\ enrolled' = enrolled
  BY <1>1, <1>2 DEF EnrolledInv
<1>3. CASE CommitSuccess
  <2> DEFINE n == Len(doc.events)
             m == Len(doc'.events)
  <2>1. /\ n \in Nat /\ DOMAIN doc.events = 1 .. n
        /\ m \in Nat /\ DOMAIN doc'.events = 1 .. m
        /\ m >= n
    <3>1. doc.events \in Seq(RetainedEvents) /\ doc'.events \in Seq(RetainedEvents)
      BY <1>1 DEF Documents
    <3>2. PICK items \in Seq(Found) : Len(doc'.events) = Len(doc.events) + Len(items)
      BY <1>3, SuccessWritten
    <3>3. Len(items) \in Nat
      OBVIOUS
    <3> QED
      BY <3>1, <3>2, <3>3
  <2>2. \A i \in 1 .. n : doc'.events[i] = doc.events[i]
    BY <1>3, SuccessWritten
  <2> HIDE DEF n, m
  <2>3. ASSUME NEW j \in 1 .. m, j > n
        PROVE  LET change == doc'.events[j].change
               IN  /\ change.enrolment \in DOMAIN check.observed
                   /\ doc.baselines[change.enrolment] # None
                   /\ change.version = check.observed[change.enrolment][change.record]
                   /\ change.version # doc.baselines[change.enrolment].snapshot[change.record]
    <3>1. j \in DOMAIN doc'.events /\ j \notin 1 .. n
      BY <2>1, <2>3
    <3> QED
      BY <1>3, <3>1, NewEvents DEF n
  <2>4. /\ check \in Checks /\ check.requested = DOMAIN check.observed
        /\ \A x \in DOMAIN check.observed : check.observed[x] \in Snapshots
    <3>1. check \in Checks /\ check # None
      BY <1>1, <1>3 DEF CommitSuccess, Reading, TypeOK
    <3>2. check.requested = DOMAIN check.observed
      BY <1>1, <1>3, <3>1 DEF CommitSuccess, Remaining, TypeOK
    <3>3. PICK read \in SUBSET Enrolments : check.observed \in [read -> Snapshots]
      BY <3>1 DEF Checks
    <3> QED
      BY <3>1, <3>2, <3>3
  <2> SUFFICES ASSUME NEW e \in Enrolments
               PROVE  /\ enrolled'[e] # None => doc'.baselines[e] # None
                      /\ doc'.baselines[e] # None =>
                           /\ enrolled'[e] # None
                           /\ \A r \in Records :
                                doc'.baselines[e].snapshot[r]
                                  = Replayed(doc'.events, enrolled'[e][r], e, r)
    OBVIOUS
  <2>5. enrolled'[e] = IF e \in DOMAIN check.observed /\ enrolled[e] = None
                       THEN check.observed[e] ELSE enrolled[e]
    BY <1>3, <2>4 DEF CommitSuccess
  <2>6. ASSUME NEW r \in Records, NEW first,
               \A j \in 1 .. m : j > n /\ doc'.events[j].change.enrolment = e
                                   => doc'.events[j].change.record # r
        PROVE  Replayed(doc'.events, first, e, r) = Replayed(doc.events, first, e, r)
    <3>1. \A i \in DOMAIN doc'.events :
            doc'.events[i].change.enrolment = e /\ doc'.events[i].change.record = r
              => i \in DOMAIN doc.events
      BY <2>1, <2>6
    <3>2. DOMAIN doc.events \subseteq DOMAIN doc'.events
      BY <2>1
    <3> QED
      BY <2>1, <2>2, <3>1, <3>2, ReplaySame
  <2>7. CASE e \notin DOMAIN check.observed
    <3>1. enrolled'[e] = enrolled[e] /\ doc'.baselines[e] = doc.baselines[e]
      BY <1>3, <2>5, <2>7, NewBaseline
    <3>2. ASSUME NEW r \in Records, NEW first
          PROVE  Replayed(doc'.events, first, e, r) = Replayed(doc.events, first, e, r)
      BY <2>3, <2>6, <2>7
    <3> QED
      BY <1>1, <3>1, <3>2 DEF EnrolledInv
  <2>8. CASE e \in DOMAIN check.observed /\ doc.baselines[e] = None
    <3>1. enrolled[e] = None
      BY <1>1, <2>8 DEF EnrolledInv
    <3>2. enrolled'[e] = check.observed[e] /\ enrolled'[e] # None
      BY <2>4, <2>5, <2>8, <3>1, NoneAssumption
    <3>3. doc'.baselines[e] # None /\ doc'.baselines[e].snapshot = check.observed[e]
      BY <1>3, <2>8, NewBaseline
    <3>4. ASSUME NEW i \in DOMAIN doc'.events
          PROVE  doc'.events[i].change.enrolment # e
      <4>1. CASE i \in 1 .. n
        BY <1>1, <2>1, <2>2, <2>8, <4>1 DEF VersionInv
      <4>2. CASE i \notin 1 .. n
        <5>1. i \in 1 .. m /\ i > n
          BY <2>1, <4>2
        <5>2. doc.baselines[doc'.events[i].change.enrolment] # None
          BY <2>3, <5>1
        <5> QED
          BY <2>8, <5>2
      <4> QED
        BY <4>1, <4>2
    <3>5. \A r \in Records : Replayed(doc'.events, enrolled'[e][r], e, r) = enrolled'[e][r]
      BY <3>4 DEF Replayed
    <3> QED
      BY <3>2, <3>3, <3>5
  <2>9. CASE e \in DOMAIN check.observed /\ doc.baselines[e] # None
    <3>1. enrolled[e] # None /\ enrolled'[e] = enrolled[e]
      BY <1>1, <2>5, <2>9
    <3>2. doc'.baselines[e] # None /\ doc'.baselines[e].snapshot = check.observed[e]
      BY <1>3, <2>9, NewBaseline
    <3>3. ASSUME NEW r \in Records
          PROVE  check.observed[e][r] = Replayed(doc'.events, enrolled'[e][r], e, r)
      <4>1. CASE check.observed[e][r] = doc.baselines[e].snapshot[r]
        <5>1. \A j \in 1 .. m : j > n /\ doc'.events[j].change.enrolment = e
                                  => doc'.events[j].change.record # r
          BY <2>3, <4>1
        <5>2. Replayed(doc'.events, enrolled[e][r], e, r) = Replayed(doc.events, enrolled[e][r], e, r)
          BY <2>6, <5>1
        <5> QED
          BY <1>1, <2>9, <3>1, <4>1, <5>2
      <4>2. CASE check.observed[e][r] # doc.baselines[e].snapshot[r]
        <5>1. PICK j \in DOMAIN doc'.events :
                /\ j > n
                /\ doc'.events[j].change.enrolment = e
                /\ doc'.events[j].change.record = r
          BY <1>3, <2>9, <4>2, NewEventsDistinct DEF n
        <5>2. ASSUME NEW i \in 1 .. m, i > j, doc'.events[i].change.enrolment = e
              PROVE  doc'.events[i].change.record # r
          <6>1. i > n /\ i # j /\ i \in DOMAIN doc'.events
            BY <2>1, <5>1, <5>2
          <6> QED
            BY <1>3, <5>1, <5>2, <6>1, NewEventsDistinct DEF n
        <5>3. Replayed(doc'.events, enrolled'[e][r], e, r) = doc'.events[j].change.version
          BY <2>1, <5>1, <5>2, ReplayLast
        <5>4. doc'.events[j].change.version = check.observed[e][r]
          BY <2>1, <2>3, <5>1
        <5> QED
          BY <5>3, <5>4
      <4> QED
        BY <4>1, <4>2
    <3> QED
      BY <3>1, <3>2, <3>3
  <2> QED
    BY <2>7, <2>8, <2>9
<1> QED
  <2>1. CASE Quiet \/ CommitAttempt
    BY <1>1, <1>2, <2>1, QuietFrame, AttemptFrame
  <2>2. CASE /\ check = None /\ UNCHANGED <<portal, check, enrolled>>
             /\ \E c \in Consumers : Joins(c) \/ Cuts(c) \/ Repeats(c) \/ Confirms(c)
    BY <1>2, <2>2 DEF Joins, Cuts, Repeats, Confirms, CursorMoves
  <2> QED
    BY <1>1, <1>3, <2>1, <2>2, StepCases

-----------------------------------------------------------------------------
(* The theorems. *)

LEMMA Initial ==
  ASSUME Init
  PROVE  Inv
<1>1. 0 \in Versions
  BY LimitsAssumption DEF Versions
<1>2. EmptyDocument \in Documents
  BY DEF EmptyDocument, Documents
<1>3. TypeOK
  BY <1>1, <1>2 DEF Init, TypeOK, Snapshots
<1>4. /\ doc.events = <<>> /\ doc.nextSequence = 1 /\ doc.success = None
      /\ \A c \in Consumers : doc.consumers[c] = None /\ received[c] = {}
      /\ \A e \in Enrolments : doc.baselines[e] = None /\ enrolled[e] = None
      /\ check = None
  BY DEF Init, EmptyDocument
<1>5. DOMAIN doc.events = {} /\ Len(doc.events) = 0
  BY <1>4
<1>6. WellFormed
  BY <1>4, <1>5 DEF WellFormed, Registered
<1>7. FreshInv /\ CheckInv /\ DeliveryInv /\ StableBatches
  BY <1>4, <1>5 DEF FreshInv, CheckInv, Reading, DeliveryInv, StableBatches, Registered
<1>8. OneVerdict /\ VersionInv /\ EnrolledInv
  BY <1>4, <1>5 DEF OneVerdict, VersionInv, EnrolledInv, Reading
<1>9. NoTransitionTwice /\ HistoryReplaysBaselines
  BY <1>4, <1>5 DEF NoTransitionTwice, HistoryReplaysBaselines
<1> QED
  BY <1>3, <1>6, <1>7, <1>8, <1>9 DEF Inv, NumberInv

LEMMA Inductive ==
  ASSUME Inv, [Next]_vars
  PROVE  Inv'
<1>1. NumberInv'
  BY TypeStep, WellFormedStep, FreshStep, CheckStepInv, DeliveryStep DEF NumberInv
<1>2. OneVerdict' /\ VersionInv' /\ NoTransitionTwice'
  BY VerdictStep, VersionStep, TransitionStep
<1> QED
  BY <1>1, <1>2, ReplayStep DEF Inv

THEOREM InvHolds == Spec => []Inv
<1>1. Init => Inv
  BY Initial
<1>2. Inv /\ [Next]_vars => Inv'
  BY Inductive
<1> QED
  BY <1>1, <1>2, PTL DEF Spec

\* Every variable keeps its type: in particular sequences, tokens and cursors
\* stay natural numbers (store.go:71-125).
THEOREM TypeCorrect == Spec => []TypeOK
<1>1. Inv => TypeOK
  BY DEF Inv, NumberInv
<1> QED
  BY <1>1, InvHolds, PTL

\* Apart from its limits, validate accepts every document the commands build,
\* for any number of consumers, enrolments and commands (store.go:157-234).
THEOREM AlwaysWellFormed == Spec => []WellFormed
<1>1. Inv => WellFormed
  BY DEF Inv, NumberInv
<1> QED
  BY <1>1, InvHolds, PTL

\* Two batches a consumer was given are the same or share no event, whatever
\* it repeated, whatever limits it asked for and whichever outputs were lost
\* (store.go:367-403).
THEOREM StableDelivery == Spec => []StableBatches
<1>1. Inv => StableBatches
  BY DEF Inv, NumberInv
<1> QED
  BY <1>1, InvHolds, PTL

\* A check whose commit became visible is never recorded as failed afterwards
\* (store.go:41-43, contract.go:158-161).
THEOREM SingleVerdict == Spec => []OneVerdict
<1>1. Inv => OneVerdict
  BY DEF Inv
<1> QED
  BY <1>1, InvHolds, PTL

\* No transition of a record is recorded twice, and revisions count the events
\* of a record (store.go:480-542, contract.go:156-165).
THEOREM NoDoubleTransition == Spec => []NoTransitionTwice
<1>1. Inv => NoTransitionTwice
  BY DEF Inv
<1> QED
  BY <1>1, InvHolds, PTL

\* The retained events, replayed over the first baseline of an enrolment, give
\* its current one: no change is lost and none is invented, whichever commits
\* failed, were killed or were uncertain (contract.go:271-332, store.go:480-542).
THEOREM HistoryReplays == Spec => []HistoryReplaysBaselines
<1>1. Inv => HistoryReplaysBaselines
  BY DEF Inv
<1> QED
  BY <1>1, InvHolds, PTL

\* Documents with the same fields are the same.
LEMMA SameDocument ==
  ASSUME NEW a \in Documents, NEW b \in Documents,
         a.generation = b.generation, a.nextSequence = b.nextSequence,
         a.baselines = b.baselines, a.events = b.events, a.consumers = b.consumers,
         a.latest = b.latest, a.success = b.success
  PROVE  a = b
<1>1. a = [generation |-> a.generation, nextSequence |-> a.nextSequence,
           baselines |-> a.baselines, events |-> a.events, consumers |-> a.consumers,
           latest |-> a.latest, success |-> a.success]
  BY DEF Documents
<1>2. b = [generation |-> b.generation, nextSequence |-> b.nextSequence,
           baselines |-> b.baselines, events |-> b.events, consumers |-> b.consumers,
           latest |-> b.latest, success |-> b.success]
  BY DEF Documents
<1> QED
  BY <1>1, <1>2

\* A step that moves the cursor of a consumer changes nothing else in the
\* document: consumers are independent of each other, and no check moves a
\* cursor (docs/automation.md:35, store.go:346-440).
THEOREM IndependentCursors == Spec => CursorsIndependent
<1> DEFINE Only(c) == doc' = [doc EXCEPT !.consumers[c] = doc'.consumers[c], !.generation = @ + 1]
           Independent == \A c \in Consumers : doc'.consumers[c] # doc.consumers[c] => Only(c)
<1>1. ASSUME doc \in Documents, NEW c \in Consumers, NEW to, CursorMoves(c, to)
      PROVE  Only(c)
  <2> DEFINE consumers == doc'.consumers
             n == doc'.generation
  <2>1. /\ doc' \in Documents /\ n = doc.generation + 1
        /\ UNCHANGED <<doc.nextSequence, doc.baselines, doc.events, doc.latest, doc.success>>
        /\ consumers = [doc.consumers EXCEPT ![c] = to]
        /\ doc.consumers \in [Consumers -> Cursors \cup {None}]
    BY <1>1 DEF CursorMoves, Documents
  <2>2. consumers = [doc.consumers EXCEPT ![c] = consumers[c]]
    BY <2>1
  <2>3. consumers \in [Consumers -> Cursors \cup {None}] /\ n \in Nat
    BY <2>1 DEF Documents
  <2> DEFINE d == [doc EXCEPT !.consumers = consumers, !.generation = n]
  <2>4. [doc EXCEPT !.consumers[c] = consumers[c], !.generation = @ + 1] = d
    BY <1>1, <2>1, <2>2 DEF Documents
  <2>5. doc' = d
    <3>1. doc'.consumers = consumers /\ doc'.generation = n
      OBVIOUS
    <3> HIDE DEF consumers, n
    <3>2. /\ d \in Documents
          /\ d.consumers = consumers /\ d.generation = n
          /\ d.nextSequence = doc.nextSequence /\ d.baselines = doc.baselines
          /\ d.events = doc.events /\ d.latest = doc.latest /\ d.success = doc.success
      BY <1>1, <2>3 DEF Documents
    <3> HIDE DEF d
    <3> QED
      BY <2>1, <3>1, <3>2, SameDocument
  <2> QED
    BY <2>4, <2>5
<1>2. Inv /\ [Next]_vars => Independent
  <2> SUFFICES ASSUME Inv, [Next]_vars, NEW c \in Consumers,
                      doc'.consumers[c] # doc.consumers[c]
               PROVE  Only(c)
    OBVIOUS
  <2>1. TypeOK /\ WellFormed /\ doc \in Documents
    BY DEF Inv, NumberInv, TypeOK
  <2>2. PICK x \in Consumers : Joins(x) \/ Cuts(x) \/ Repeats(x) \/ Confirms(x)
    BY <2>1, ConsumersKept, StepCases
  <2>3. PICK to : CursorMoves(x, to)
    BY <2>2 DEF Joins, Cuts, Repeats, Confirms
  <2>4. x = c
    BY <2>1, <2>3 DEF CursorMoves, Documents
  <2> QED
    BY <1>1, <2>1, <2>3, <2>4
<1> QED
  BY <1>2, InvHolds, PTL DEF CursorsIndependent, Spec

-----------------------------------------------------------------------------
(* The document and its consumers implement the event feed. *)

\* The cursors of the feed: what each consumer has acknowledged.
Acknowledged ==
  [c \in Consumers |->
     IF doc.consumers[c] = None THEN None ELSE doc.consumers[c].acknowledgedThrough]

AllDelivered == [c \in Consumers |-> Delivered(c)]

\* A consumer that is given a batch receives its events.
LEMMA GiveDelivers ==
  ASSUME received \in [Consumers -> SUBSET Batches], NEW c \in Consumers,
         NEW batch \in Batches, Give(c, batch)
  PROVE  AllDelivered' = [AllDelivered EXCEPT ![c] = @ \cup (batch.from .. batch.through)]
<1>1. /\ received'[c] = received[c] \cup {batch}
      /\ \A x \in Consumers : x # c => received'[x] = received[x]
  BY GiveType
<1>2. Delivered(c)' = Delivered(c) \cup (batch.from .. batch.through)
  BY <1>1 DEF Delivered
<1>3. \A x \in Consumers : x # c => Delivered(x)' = Delivered(x)
  BY <1>1 DEF Delivered
<1> QED
  BY <1>2, <1>3 DEF AllDelivered

\* A cursor that is replaced moves in the feed, and no other cursor does.
LEMMA AcknowledgedMoves ==
  ASSUME doc \in Documents, NEW c \in Consumers, NEW to \in Cursors, CursorMoves(c, to)
  PROVE  /\ Acknowledged' = [Acknowledged EXCEPT ![c] = to.acknowledgedThrough]
         /\ doc'.events = doc.events
<1>1. doc'.consumers = [doc.consumers EXCEPT ![c] = to] /\ doc'.events = doc.events
  BY DEF CursorMoves
<1>2. to # None /\ doc.consumers \in [Consumers -> Cursors \cup {None}]
  BY NoneAssumption DEF Documents
<1>3. \A x \in Consumers : doc'.consumers[x] = IF x = c THEN to ELSE doc.consumers[x]
  BY <1>1, <1>2
<1> QED
  BY <1>1, <1>2, <1>3 DEF Acknowledged

\* A registration joins the feed.
LEMMA JoinsFeed ==
  ASSUME Inv, NEW c \in Consumers, Joins(c)
  PROVE  Feed!Join(c)
<1>1. doc \in Documents /\ Len(doc.events) \in Nat
  BY DEF Inv, NumberInv, TypeOK, Documents
<1>2. PICK from \in {0, Len(doc.events)} :
        CursorMoves(c, [acknowledgedThrough |-> from, pending |-> None, tokens |-> {}])
  BY DEF Joins
<1>3. [acknowledgedThrough |-> from, pending |-> None, tokens |-> {}] \in Cursors
  BY <1>1 DEF Cursors
<1>4. Acknowledged' = [Acknowledged EXCEPT ![c] = from] /\ doc'.events = doc.events
  BY <1>1, <1>2, <1>3, AcknowledgedMoves
<1>5. Acknowledged[c] = None /\ received' = received
  BY DEF Joins, Acknowledged
<1>6. AllDelivered' = AllDelivered
  BY <1>5 DEF AllDelivered, Delivered
<1> QED
  BY <1>4, <1>5, <1>6 DEF Feed!Join, Acknowledged, AllDelivered

\* A pending batch starts right after its cursor, and ends within the log.
LEMMA PendingContinues ==
  ASSUME Inv, NEW c \in Consumers, doc.consumers[c] \in Cursors,
         doc.consumers[c].pending \in Batches
  PROVE  LET batch == doc.consumers[c].pending
         IN  /\ Acknowledged[c] = doc.consumers[c].acknowledgedThrough
             /\ Acknowledged[c] \in Nat
             /\ batch.from = Acknowledged[c] + 1
             /\ batch.through \in Acknowledged[c] + 1 .. Len(doc.events)
<1> DEFINE batch == doc.consumers[c].pending
<1>1. doc.consumers[c] # None /\ batch # None
  BY NoneAssumption
<1>2. doc \in Documents /\ Len(doc.events) \in Nat /\ doc.nextSequence = Len(doc.events) + 1
  BY DEF Inv, NumberInv, TypeOK, WellFormed, Documents
<1>3. /\ batch.from = doc.consumers[c].acknowledgedThrough + 1
      /\ batch.from <= batch.through
      /\ batch.through < doc.nextSequence
  BY <1>1 DEF Inv, NumberInv, WellFormed, Registered
<1>4. Acknowledged[c] = doc.consumers[c].acknowledgedThrough /\ Acknowledged[c] \in Nat
  BY <1>1 DEF Acknowledged, Cursors
<1> QED
  BY <1>2, <1>3, <1>4 DEF Batches

\* A batch that is given delivers what follows the cursor.
LEMMA GivesFeed ==
  ASSUME Inv, NEW c \in Consumers, NEW batch \in Batches, Give(c, batch),
         doc.consumers[c] \in Cursors,
         batch.from = doc.consumers[c].acknowledgedThrough + 1,
         batch.through \in batch.from .. Len(doc.events),
         doc'.events = doc.events, Acknowledged' = Acknowledged
  PROVE  Feed!Deliver(c)
<1>1. received \in [Consumers -> SUBSET Batches]
  BY DEF Inv, NumberInv, TypeOK
<1>2. Acknowledged[c] = doc.consumers[c].acknowledgedThrough /\ Acknowledged[c] # None
  BY NoneAssumption DEF Acknowledged, Cursors
<1>3. AllDelivered' = [AllDelivered EXCEPT ![c] = @ \cup (Acknowledged[c] + 1 .. batch.through)]
  BY <1>1, <1>2, GiveDelivers
<1>4. batch.through \in Acknowledged[c] + 1 .. Len(doc.events)
  BY <1>2
<1> QED
  BY <1>2, <1>3, <1>4 DEF Feed!Deliver, Acknowledged, AllDelivered

\* A batch that is cut delivers, or its output is lost and the feed stutters.
LEMMA CutsFeed ==
  ASSUME Inv, NEW c \in Consumers, Cuts(c)
  PROVE  \/ Feed!Deliver(c)
         \/ doc'.events = doc.events /\ Acknowledged' = Acknowledged /\ received' = received
<1>1. doc \in Documents /\ doc.consumers[c] \in Cursors
  BY DEF Inv, NumberInv, TypeOK, Cuts
<1>2. PICK batch \in Batches :
        /\ batch.from = doc.consumers[c].acknowledgedThrough + 1
        /\ batch.through \in batch.from .. Len(doc.events)
        /\ CursorMoves(c, [doc.consumers[c] EXCEPT !.pending = batch])
        /\ Give(c, batch) \/ UNCHANGED received
  BY DEF Cuts
<1> DEFINE to == [doc.consumers[c] EXCEPT !.pending = batch]
<1>3. to \in Cursors /\ to.acknowledgedThrough = doc.consumers[c].acknowledgedThrough
  BY <1>1 DEF Cursors
<1>4. CursorMoves(c, to)
  BY <1>2
<1> HIDE DEF to
<1>5. Acknowledged' = [Acknowledged EXCEPT ![c] = to.acknowledgedThrough]
      /\ doc'.events = doc.events
  BY <1>1, <1>3, <1>4, AcknowledgedMoves
<1>6. Acknowledged' = Acknowledged
  BY <1>1, <1>3, <1>5, NoneAssumption DEF Acknowledged
<1> QED
  BY <1>1, <1>2, <1>5, <1>6, GivesFeed

LEMMA RepeatsFeed ==
  ASSUME Inv, NEW c \in Consumers, Repeats(c)
  PROVE  Feed!Deliver(c)
<1>1. /\ doc.consumers[c] \in Cursors
      /\ doc.consumers[c].pending \in Batches
      /\ Give(c, doc.consumers[c].pending)
      /\ doc' = doc
  BY DEF Repeats
<1>2. doc'.events = doc.events /\ Acknowledged' = Acknowledged
  BY <1>1 DEF Acknowledged
<1>3. doc.consumers[c].acknowledgedThrough \in Nat /\ Len(doc.events) \in Nat
  BY <1>1 DEF Cursors, Inv, NumberInv, TypeOK, Documents
<1> DEFINE batch == doc.consumers[c].pending
<1>4. /\ batch.from = doc.consumers[c].acknowledgedThrough + 1
      /\ batch.through \in batch.from .. Len(doc.events)
  BY <1>1, PendingContinues
<1> QED
  BY <1>1, <1>2, <1>4, GivesFeed

\* An acknowledgement advances over events that were delivered: whoever
\* presents the token, the consumer itself was given its batch.
LEMMA ConfirmsFeed ==
  ASSUME Inv, NEW c \in Consumers, Confirms(c)
  PROVE  Feed!Advance(c)
<1> DEFINE batch == doc.consumers[c].pending
           to == [acknowledgedThrough |-> batch.through,
                  pending             |-> None,
                  tokens              |-> doc.consumers[c].tokens \cup {batch.token}]
<1>1. /\ doc \in Documents
      /\ doc.consumers[c] \in Cursors /\ batch \in Batches
      /\ batch.token \in KnownTokens
      /\ CursorMoves(c, to)
      /\ received' = received
  BY DEF Inv, NumberInv, TypeOK, Confirms
<1>2. batch \in received[c]
  <2>1. PICK x \in Consumers : \E b \in received[x] : b.token = batch.token
    BY <1>1 DEF KnownTokens
  <2>2. PICK b \in received[x] : b.token = batch.token
    BY <2>1
  <2>3. c \in Registered(doc) /\ x \in Registered(doc) /\ batch # None
    BY <1>1, <2>1, <2>2, NoneAssumption DEF Inv, NumberInv, DeliveryInv, Registered
  <2>4. x = c /\ b = batch
    BY <2>2, <2>3 DEF Inv, NumberInv, DeliveryInv
  <2> QED
    BY <2>2, <2>4
<1>3. /\ Acknowledged[c] \in Nat
      /\ batch.from = Acknowledged[c] + 1
      /\ batch.through \in Acknowledged[c] + 1 .. Len(doc.events)
  BY <1>1, PendingContinues
<1>4. Acknowledged[c] + 1 .. batch.through \subseteq AllDelivered[c]
  BY <1>2, <1>3 DEF AllDelivered, Delivered
<1>5. to \in Cursors
  BY <1>1 DEF Cursors, Batches
<1>6. Acknowledged' = [Acknowledged EXCEPT ![c] = batch.through] /\ doc'.events = doc.events
  BY <1>1, <1>5, AcknowledgedMoves
<1>7. AllDelivered' = AllDelivered
  BY <1>1 DEF AllDelivered, Delivered
<1>8. Acknowledged[c] # None
  BY <1>3, NoneAssumption
<1> HIDE DEF batch
<1> QED
  BY <1>3, <1>4, <1>6, <1>7, <1>8 DEF Feed!Advance, Acknowledged, AllDelivered

LEMMA FeedStep ==
  ASSUME Inv, [Next]_vars
  PROVE  [Feed!FeedNext]_(Feed!feedVars)
<1>1. TypeOK /\ WellFormed /\ doc \in Documents
  BY DEF Inv, NumberInv, TypeOK
<1>2. CASE Quiet \/ CommitAttempt
  <2>1. doc'.events = doc.events /\ doc'.consumers = doc.consumers /\ received' = received
    BY <1>1, <1>2, QuietFrame, AttemptFrame
  <2> QED
    BY <2>1 DEF Feed!feedVars, Delivered
<1>3. CASE CommitSuccess
  <2>1. doc'.consumers = doc.consumers /\ received' = received
    BY <1>3, ConsumersKept
  <2>2. /\ Len(doc'.events) >= Len(doc.events)
        /\ \A i \in 1 .. Len(doc.events) : doc'.events[i] = doc.events[i]
    <3>1. PICK items \in Seq(Found) :
            /\ Len(doc'.events) = Len(doc.events) + Len(items)
            /\ \A i \in 1 .. Len(doc.events) : doc'.events[i] = doc.events[i]
      BY <1>3, SuccessWritten
    <3>2. Len(items) \in Nat /\ Len(doc.events) \in Nat
      BY <1>1 DEF Documents
    <3> QED
      BY <3>1, <3>2
  <2>3. Feed!Retain
    BY <2>1, <2>2 DEF Feed!Retain, Delivered
  <2> QED
    BY <2>3 DEF Feed!FeedNext
<1>4. ASSUME NEW c \in Consumers, Joins(c) \/ Cuts(c) \/ Repeats(c) \/ Confirms(c)
      PROVE  [Feed!FeedNext]_(Feed!feedVars)
  <2>1. CASE Feed!Join(c) \/ Feed!Deliver(c) \/ Feed!Advance(c)
    BY <2>1 DEF Feed!FeedNext
  <2>2. CASE doc'.events = doc.events /\ Acknowledged' = Acknowledged /\ received' = received
    BY <2>2 DEF Feed!feedVars, Acknowledged, Delivered
  <2> QED
    BY <1>4, <2>1, <2>2, JoinsFeed, CutsFeed, RepeatsFeed, ConfirmsFeed
<1> QED
  BY <1>1, <1>2, <1>3, <1>4, StepCases

\* The commands implement the event feed (module EventFeed): retained events
\* are never dropped or rewritten, and a cursor passes an event only after its
\* consumer was given it, though outputs are lost, tokens are mixed up and
\* batches are repeated (docs/automation.md:43, store.go:367-440).
THEOREM FeedImplemented == Spec => ImplementsFeed
<1>1. Init => Feed!FeedInit
  BY DEF Init, EmptyDocument, Feed!FeedInit, Delivered
<1>2. Inv /\ [Next]_vars => [Feed!FeedNext]_(Feed!feedVars)
  BY FeedStep
<1> QED
  BY <1>1, <1>2, InvHolds, PTL DEF Spec, ImplementsFeed, Feed!FeedSpec
=============================================================================
