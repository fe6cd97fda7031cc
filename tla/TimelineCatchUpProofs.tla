------------------------- MODULE TimelineCatchUpProofs -------------------------
(***************************************************************************)
(* Proofs about TimelineCatchUp, for any page size, page limit and number  *)
(* of items, corrections and removals.                                     *)
(*                                                                         *)
(* Three of the properties are about what one read may have seen while the *)
(* portal moved its entries; MissedInv, SlideInv and HistoryInv say what   *)
(* the pages read so far imply for the timeline as it is now.              *)
(* HeadInv, at the end, is about what consumers know of the newest page.   *)
(***************************************************************************)
EXTENDS TimelineCatchUp, SelectionProofs, SequenceTheorems

-----------------------------------------------------------------------------
(* The inductive invariant. *)

\* The timeline is in the order of publication, and complete unless something
\* was removed.
PortalInv ==
  /\ \A i, j \in DOMAIN timeline : i < j => timeline[j].id < timeline[i].id
  /\ \A i \in DOMAIN timeline : timeline[i].id <= published
  /\ removed = {} =>
       /\ Len(timeline) = published
       /\ \A i \in DOMAIN timeline : timeline[i].id = published + 1 - i

\* What the committed files say of each other.
KnownInv ==
  /\ Known =>
       /\ covered # None
       /\ covered.since <= covered.until /\ covered.until <= published
       /\ Boundary \subseteq IdsOf(baseline.items)
       /\ IdsOf(baseline.items) \subseteq seen
       /\ IdsOf(first) \subseteq seen
  /\ ~Known => seen = {} /\ events = <<>>

\* What is announced as added is seen, so that it is not announced again.
AddedInv ==
  /\ \A i \in DOMAIN events :
       events[i].kind = "activity_added" =>
         /\ events[i].activity.id \in seen
         /\ events[i].activity.id \notin IdsOf(first)
  /\ \A i, j \in DOMAIN events :
       /\ events[i].kind = "activity_added" /\ events[j].kind = "activity_added"
       /\ events[i].activity.id = events[j].activity.id
       => i = j

\* The read in progress holds each item once, and its first page.
ReaderInv ==
  reader # None =>
    /\ reader.published <= published
    /\ Known => covered.until <= reader.published
    /\ \A i, j \in DOMAIN reader.items : reader.items[i].id = reader.items[j].id => i = j
    /\ reader.phase = "paging" => Len(reader.pages) = reader.page - 1
    /\ reader.phase = "revalidating" => reader.pages # <<>>
    /\ reader.pages = <<>> => reader.newIds = {} /\ reader.items = <<>>
    /\ reader.pages # <<>> =>
         /\ IdsOf(reader.pages[1]) \subseteq IdsOf(reader.items)
         /\ \A id \in IdsOf(reader.pages[1]) : id <= reader.published

Begun == reader # None /\ reader.pages # <<>>

\* The pages of a timeline with n entries.
PagesOf(n) == IF n = 0 THEN 1 ELSE (n + PageSize - 1) \div PageSize

\* Without removals the pages read so far leave no gap: they reach from what
\* had been published when the read began down to the next page, and no item
\* published since is on them.
MissedInv ==
  removed = {} =>
    /\ NothingMissed
    /\ Known => \A id \in seen : id <= covered.until
    /\ Begun =>
         /\ reader.lastPage = PagesOf(reader.published)
         /\ reader.phase = "paging" => reader.page <= reader.lastPage
         /\ \A id \in IdsOf(reader.items) : id <= reader.published
    /\ \A i \in DOMAIN timeline :
         /\ reader # None
         /\ timeline[i].shown
         /\ timeline[i].id <= reader.published
         /\ IF Paging THEN published - (reader.page - 1) * PageSize < timeline[i].id
                      ELSE Known /\ covered.until < timeline[i].id
         => timeline[i].id \in reader.newIds \cap IdsOf(reader.items)

\* If every entry is shown as well, the boundary is the newest page, and a read
\* does not go further back than the page that holds it.
SlideInv ==
  removed = {} /\ AllShown =>
    /\ \A i \in DOMAIN events : events[i].kind # "activity_reappeared"
    /\ Known => \A id \in Ids :
         covered.until - PageSize < id /\ id <= covered.until => id \in Boundary
    /\ Begun => \A id \in Ids :
         reader.published - PageSize < id /\ id <= reader.published =>
           id \in IdsOf(reader.pages[1])
    /\ Known /\ Paging =>
         /\ covered.until <= published - (reader.page - 1) * PageSize
         /\ \A id \in IdsOf(reader.items) : covered.until < id
    /\ Known /\ Revalidating =>
         \A id \in IdsOf(reader.items) : covered.until - PageSize < id

\* An item older than the first baseline that no check has read.
Historic(id) == id <= covered.since /\ id \notin seen

\* The first n entries were published after the read began.
Newer(n) ==
  \A i \in DOMAIN timeline : (i <= n) <=> (reader.published < timeline[i].id)

\* Where every entry is shown, unread history lies behind the boundary.  A read
\* takes it for new only if it lost the boundary between two pages.  Of what is
\* behind the boundary and of what had been published, entries only go away;
\* so the timeline must be pushed on by more than a page before the boundary is
\* met again, and what pushed it changes the newest page or, removed again,
\* the number of pages.
HistoryInv ==
  AllShown /\ Known =>
    /\ NoHistoryAnnounced
    /\ \A i \in DOMAIN timeline :
         Historic(timeline[i].id) =>
           Boundary # {} /\ \A id \in Boundary : timeline[i].id < id
    /\ reader # None /\ (\E id \in reader.newIds : Historic(id)) =>
         /\ Boundary # {}
         /\ \E n \in 0 .. Len(timeline) :
              /\ Newer(n)
              /\ Paging => \A i \in DOMAIN timeline :
                   timeline[i].id \in Boundary => i - 1 - n < (reader.page - 2) * PageSize
              /\ Revalidating => Len(timeline) - n < (reader.lastPage - 1) * PageSize

Inv ==
  /\ TypeOK
  /\ PortalInv /\ KnownInv /\ AddedInv /\ ReaderInv
  /\ MissedInv /\ SlideInv /\ HistoryInv

-----------------------------------------------------------------------------
(* Pages. *)

\* n entries fill their pages but for less than one page.
LEMMA PagesFacts ==
  ASSUME NEW n \in Nat
  PROVE  /\ PagesOf(n) \in Nat \ {0}
         /\ n <= PagesOf(n) * PageSize
         /\ PagesOf(n) > 1 => (PagesOf(n) - 1) * PageSize < n
<1>1. PageSize \in Nat /\ PageSize > 0
  BY TimelineAssumption
<1>2. CASE n = 0
  BY <1>1, <1>2 DEF PagesOf
<1>3. CASE n # 0
  <2> DEFINE m == n + PageSize - 1
             q == m \div PageSize
  <2>1. m \in Nat /\ m >= PageSize
    BY <1>1, <1>3
  <2> HIDE DEF m
  <2>2. q \in Int /\ q * PageSize <= m /\ m < q * PageSize + PageSize
    BY <1>1, <2>1
  <2> HIDE DEF q
  <2>3. q >= 1
    <3> SUFFICES ASSUME q <= 0 PROVE FALSE
      BY <2>2
    <3>1. q * PageSize <= 0
      BY <1>1, <2>2
    <3> QED
      BY <1>1, <2>1, <2>2, <3>1
  <2>4. PagesOf(n) = q
    BY <1>3 DEF PagesOf, q, m
  <2>5. (q - 1) * PageSize = q * PageSize - PageSize
    BY <1>1, <2>2
  <2> QED
    BY <1>1, <2>2, <2>3, <2>4, <2>5 DEF m
<1> QED
  BY <1>2, <1>3

LEMMA LastPageFacts ==
  ASSUME timeline \in Seq(Entries)
  PROVE  Len(timeline) \in Nat /\ LastPage = PagesOf(Len(timeline))
<1>1. Len(timeline) \in Nat /\ (timeline = <<>> <=> Len(timeline) = 0)
  BY EmptySeq
<1> QED
  BY <1>1 DEF LastPage, PagesOf

\* at tells from which entry of the timeline each item of page k comes.
Cuts(at, k) ==
  /\ \A j \in DOMAIN Page(k) :
       /\ at[j] \in DOMAIN timeline
       /\ (k - 1) * PageSize < at[j] /\ at[j] <= k * PageSize
       /\ timeline[at[j]].shown
       /\ Page(k)[j] = Activity(timeline[at[j]])
  /\ \A j, l \in DOMAIN Page(k) : j < l => at[j] < at[l]
  /\ \A i \in DOMAIN timeline :
       /\ timeline[i].shown
       /\ (k - 1) * PageSize < i /\ i <= k * PageSize
       => \E j \in DOMAIN Page(k) : at[j] = i

\* A page has the shown entries in its range, in their order.
LEMMA PageFacts ==
  ASSUME timeline \in Seq(Entries), NEW k \in Nat \ {0}
  PROVE  /\ Page(k) \in Seq(Activities)
         /\ \E at : Cuts(at, k)
<1> DEFINE from == (k - 1) * PageSize
           last == IF k * PageSize < Len(timeline) THEN k * PageSize ELSE Len(timeline)
           slice == SubSeq(timeline, from + 1, last)
           wanted == {i \in DOMAIN slice : slice[i].shown}
           shown == Selected(slice, wanted)
<1>1. Len(timeline) \in Nat /\ DOMAIN timeline = 1 .. Len(timeline)
      /\ \A i \in 1 .. Len(timeline) : timeline[i] \in Entries
  OBVIOUS
<1>2. from \in Nat /\ k * PageSize = from + PageSize /\ PageSize \in Nat \ {0}
  <2>1. PageSize \in Nat \ {0}
    BY TimelineAssumption
  <2>2. 0 \in Int /\ k - 1 \in Int /\ 0 <= k - 1
    OBVIOUS
  <2>3. 0 * PageSize <= (k - 1) * PageSize /\ (k - 1) * PageSize \in Int
    BY <2>1, <2>2
  <2> QED
    BY <2>1, <2>3
<1>3. /\ last \in Nat /\ last <= Len(timeline) /\ last <= from + PageSize
      /\ \A i \in Nat : i <= Len(timeline) /\ i <= from + PageSize => i <= last
  BY <1>1, <1>2
<1>4. Page(k) = [i \in DOMAIN shown |-> Activity(shown[i])]
  BY DEF Page
<1> HIDE DEF from, last
<1>5. /\ slice \in Seq(Entries)
      /\ Len(slice) = IF from + 1 <= last THEN last - from ELSE 0
      /\ \A i \in 1 .. last - from : slice[i] = timeline[from + i]
  <2>1. \A i \in from + 1 .. last : timeline[i] \in Entries
    BY <1>1, <1>2, <1>3
  <2>2. from + 1 \in Int /\ last \in Int
    BY <1>2, <1>3
  <2>3. /\ slice \in Seq(Entries)
        /\ Len(slice) = IF from + 1 <= last THEN last - (from + 1) + 1 ELSE 0
        /\ \A i \in 1 .. last - (from + 1) + 1 : slice[i] = timeline[from + 1 + i - 1]
    BY <2>1, <2>2, SubSeqProperties
  <2>4. last - (from + 1) + 1 = last - from
    BY <1>2, <1>3
  <2>5. \A i \in 1 .. last - from : from + 1 + i - 1 = from + i
    BY <1>2, <1>3
  <2> QED
    BY <2>3, <2>4, <2>5
<1>6. DOMAIN slice = 1 .. Len(slice) /\ Len(slice) \in Nat
      /\ \A i \in DOMAIN slice : i \in 1 .. last - from /\ slice[i] = timeline[from + i]
                                 /\ from + i \in DOMAIN timeline
  BY <1>1, <1>2, <1>3, <1>5
<1> HIDE DEF slice, wanted
<1>7. shown \in Seq(Entries) /\ \E a : Selects(a, shown, slice, wanted, Len(slice))
  BY <1>5, SelectedFacts
<1>8. PICK a : Selects(a, shown, slice, wanted, Len(slice))
  BY <1>7
<1> HIDE DEF shown
<1>9. Page(k) \in Seq(Activities) /\ DOMAIN Page(k) = DOMAIN shown
  <2>1. Len(shown) \in Nat /\ DOMAIN shown = 1 .. Len(shown)
    BY <1>7
  <2>2. \A i \in 1 .. Len(shown) : Activity(shown[i]) \in Activities
    <3>1. \A entry \in Entries : Activity(entry) \in Activities
      BY DEF Entries, Activities, Activity
    <3>2. \A i \in 1 .. Len(shown) : shown[i] \in Entries
      BY <1>7
    <3> QED
      BY <3>1, <3>2
  <2> QED
    BY <1>4, <2>1, <2>2
<1> DEFINE at == [j \in DOMAIN shown |-> from + a[j]]
<1>10. \A j \in DOMAIN shown : a[j] \in DOMAIN slice /\ a[j] \in wanted /\ shown[j] = slice[a[j]]
  BY <1>6, <1>8 DEF Selects
<1>11. ASSUME NEW j \in DOMAIN Page(k)
       PROVE  /\ at[j] \in DOMAIN timeline
              /\ from < at[j] /\ at[j] <= k * PageSize
              /\ timeline[at[j]].shown
              /\ Page(k)[j] = Activity(timeline[at[j]])
  <2>1. j \in DOMAIN shown /\ at[j] = from + a[j]
    BY <1>9
  <2>2. a[j] \in 1 .. last - from /\ slice[a[j]] = timeline[at[j]] /\ at[j] \in DOMAIN timeline
    BY <1>6, <1>10, <2>1
  <2>3. slice[a[j]].shown
    BY <1>10, <2>1 DEF wanted
  <2>4. from < at[j] /\ at[j] <= k * PageSize
    BY <1>2, <1>3, <2>1, <2>2
  <2> QED
    BY <1>4, <1>10, <2>1, <2>2, <2>3, <2>4
<1>12. ASSUME NEW j \in DOMAIN Page(k), NEW l \in DOMAIN Page(k), j < l
       PROVE  at[j] < at[l]
  <2>1. a[j] < a[l] /\ a[j] \in Int /\ a[l] \in Int
    BY <1>6, <1>8, <1>9, <1>10, <1>12 DEF Selects
  <2> QED
    BY <1>2, <1>9, <2>1
<1>13. ASSUME NEW i \in DOMAIN timeline, timeline[i].shown, from < i, i <= k * PageSize
       PROVE  \E j \in DOMAIN Page(k) : at[j] = i
  <2>1. i \in 1 .. last /\ i - from \in 1 .. last - from
    BY <1>1, <1>2, <1>3, <1>13
  <2>2. i - from \in 1 .. Len(slice) /\ slice[i - from] = timeline[i]
    <3>1. from + (i - from) = i /\ from + 1 <= last
      BY <1>1, <1>2, <1>3, <2>1
    <3> QED
      BY <1>5, <2>1, <3>1
  <2>3. i - from \in wanted
    BY <1>6, <1>13, <2>2 DEF wanted
  <2>4. PICK j \in DOMAIN shown : a[j] = i - from
    BY <1>8, <2>2, <2>3 DEF Selects
  <2>5. at[j] = i
    BY <1>1, <1>2, <2>4
  <2> QED
    BY <1>9, <2>5
<1> HIDE DEF at
<1>14. Cuts(at, k)
  BY <1>11, <1>12, <1>13 DEF Cuts, from
<1> QED
  BY <1>9, <1>14

-----------------------------------------------------------------------------
(* The portal's steps. *)

LEMMA EntryTypes ==
  ASSUME TypeOK
  PROVE  /\ MaxPublished \in Nat /\ published \in Nat /\ PageSize \in Nat \ {0}
         /\ Len(timeline) \in Nat /\ DOMAIN timeline = 1 .. Len(timeline)
         /\ \A i \in DOMAIN timeline :
              /\ timeline[i] \in Entries
              /\ timeline[i].id \in Ids /\ timeline[i].id \in Nat /\ timeline[i].id >= 1
              /\ timeline[i].shown \in BOOLEAN
<1>1. MaxPublished \in Nat /\ published \in Nat /\ PageSize \in Nat \ {0}
  BY TimelineAssumption DEF TypeOK
<1>2. timeline \in Seq(Entries)
  BY DEF TypeOK
<1>3. /\ Len(timeline) \in Nat /\ DOMAIN timeline = 1 .. Len(timeline)
      /\ \A i \in DOMAIN timeline : timeline[i] \in Entries
  BY <1>2
<1>4. \A entry \in Entries : /\ entry.id \in Ids /\ entry.id \in Nat /\ entry.id >= 1
                             /\ entry.shown \in BOOLEAN
  BY <1>1 DEF Entries, Ids
<1> QED
  BY <1>1, <1>3, <1>4

\* A new entry is first, and the others move on by one place.
LEMMA PublishFacts ==
  ASSUME TypeOK, NEW shown \in Shown, Publish(shown)
  PROVE  /\ TypeOK'
         /\ Len(timeline') = Len(timeline) + 1
         /\ timeline'[1].id = published + 1 /\ timeline'[1].shown = shown
         /\ \A i \in DOMAIN timeline' \ {1} :
              i - 1 \in DOMAIN timeline /\ timeline'[i] = timeline[i - 1]
         /\ \A i \in DOMAIN timeline :
              i + 1 \in DOMAIN timeline' /\ timeline'[i + 1] = timeline[i]
<1> DEFINE new == [id |-> published + 1, version |-> 0, shown |-> shown]
<1>1. timeline' = <<new>> \o timeline /\ published' = published + 1 /\ published < MaxPublished
  BY DEF Publish
<1>2. new \in Entries /\ new.id = published + 1 /\ new.shown = shown
  <2>1. shown \in BOOLEAN /\ 0 \in Versions
    BY TimelineAssumption DEF Versions
  <2>2. published + 1 \in Ids
    BY <1>1, EntryTypes DEF TypeOK, Ids
  <2> QED
    BY <2>1, <2>2 DEF Entries
<1> HIDE DEF new
<1>3. /\ timeline' \in Seq(Entries)
      /\ Len(timeline') = Len(timeline) + 1
      /\ timeline'[1] = new
      /\ \A i \in 1 .. Len(timeline) : timeline'[i + 1] = timeline[i]
  <2>1. timeline \in Seq(Entries) /\ <<new>> \in Seq(Entries) /\ Len(<<new>>) = 1 /\ <<new>>[1] = new
    BY <1>2 DEF TypeOK
  <2> QED
    BY <1>1, <2>1
<1>4. Len(timeline) \in Nat /\ DOMAIN timeline = 1 .. Len(timeline)
      /\ DOMAIN timeline' = 1 .. Len(timeline) + 1
  <2>1. Len(timeline) \in Nat /\ DOMAIN timeline = 1 .. Len(timeline)
    BY EntryTypes
  <2> QED
    BY <1>3, <2>1
<1>5. TypeOK'
  <2>1. published' \in 0 .. MaxPublished
    BY <1>1, EntryTypes DEF TypeOK
  <2> QED
    BY <1>3, <2>1 DEF TypeOK, Publish, historyVars
<1>6. \A i \in DOMAIN timeline' \ {1} :
        i - 1 \in DOMAIN timeline /\ timeline'[i] = timeline[i - 1]
  <2> TAKE i \in DOMAIN timeline' \ {1}
  <2>1. i - 1 \in 1 .. Len(timeline) /\ (i - 1) + 1 = i
    BY <1>4
  <2>2. timeline'[(i - 1) + 1] = timeline[i - 1]
    BY <1>3, <2>1
  <2> QED
    BY <1>4, <2>1, <2>2
<1>7. \A i \in DOMAIN timeline :
        i + 1 \in DOMAIN timeline' /\ timeline'[i + 1] = timeline[i]
  BY <1>3, <1>4
<1> QED
  BY <1>2, <1>3, <1>5, <1>6, <1>7

\* A correction changes neither an entry's place nor whether it is shown.
LEMMA CorrectFacts ==
  ASSUME TypeOK, NEW d \in DOMAIN timeline, Correct(d)
  PROVE  /\ TypeOK'
         /\ Len(timeline') = Len(timeline) /\ DOMAIN timeline' = DOMAIN timeline
         /\ \A i \in DOMAIN timeline : timeline'[i].id = timeline[i].id
                                       /\ timeline'[i].shown = timeline[i].shown
<1> DEFINE new == [timeline[d] EXCEPT !.version = @ + 1]
<1>1. timeline' = [timeline EXCEPT ![d] = new] /\ timeline[d].version < MaxCorrections
  BY DEF Correct
<1>2. timeline[d] \in Entries
  BY EntryTypes
<1>3. new \in Entries /\ new.id = timeline[d].id /\ new.shown = timeline[d].shown
  BY <1>1, <1>2, TimelineAssumption DEF Entries, Versions
<1> HIDE DEF new
<1>4. timeline \in Seq(Entries)
  BY DEF TypeOK
<1>5. /\ timeline' \in Seq(Entries)
      /\ Len(timeline') = Len(timeline) /\ DOMAIN timeline' = DOMAIN timeline
      /\ \A i \in DOMAIN timeline : timeline'[i] = IF i = d THEN new ELSE timeline[i]
  BY <1>1, <1>3, <1>4
<1>6. TypeOK'
  BY <1>5 DEF TypeOK, Correct, historyVars
<1> QED
  BY <1>3, <1>5, <1>6

\* What was behind a removed entry moves up by one place.
LEMMA DeleteFacts ==
  ASSUME TypeOK, NEW d \in DOMAIN timeline, Delete(d)
  PROVE  /\ TypeOK'
         /\ Len(timeline') = Len(timeline) - 1
         /\ \A i \in DOMAIN timeline' :
              \/ i < d /\ i \in DOMAIN timeline /\ timeline'[i] = timeline[i]
              \/ i >= d /\ i + 1 \in DOMAIN timeline /\ timeline'[i] = timeline[i + 1]
         /\ \A i \in DOMAIN timeline :
              i = d \/ \E j \in DOMAIN timeline' : timeline'[j] = timeline[i]
<1>1. timeline' = SubSeq(timeline, 1, d - 1) \o SubSeq(timeline, d + 1, Len(timeline))
      /\ removed' = removed \cup {timeline[d]}
  BY DEF Delete, RemoveAt
<1>2. Len(timeline) \in Nat /\ DOMAIN timeline = 1 .. Len(timeline) /\ d \in 1 .. Len(timeline)
      /\ \A i \in 1 .. Len(timeline) : timeline[i] \in Entries
  BY EntryTypes
<1> DEFINE front == SubSeq(timeline, 1, d - 1)
           back == SubSeq(timeline, d + 1, Len(timeline))
<1>3. /\ front \in Seq(Entries) /\ Len(front) = d - 1
      /\ \A i \in 1 .. d - 1 : front[i] = timeline[i]
  <2>1. \A i \in 1 .. d - 1 : timeline[i] \in Entries
    BY <1>2
  <2>2. 1 \in Int /\ d - 1 \in Int
    BY <1>2
  <2>3. /\ front \in Seq(Entries)
        /\ Len(front) = IF 1 <= d - 1 THEN (d - 1) - 1 + 1 ELSE 0
        /\ \A i \in 1 .. (d - 1) - 1 + 1 : front[i] = timeline[1 + i - 1]
    BY <2>1, <2>2, SubSeqProperties
  <2> HIDE DEF front
  <2>4. (d - 1) - 1 + 1 = d - 1 /\ \A i \in 1 .. d - 1 : 1 + i - 1 = i
    BY <1>2
  <2> QED
    BY <1>2, <2>3, <2>4
<1>4. /\ back \in Seq(Entries) /\ Len(back) = Len(timeline) - d
      /\ \A i \in 1 .. Len(timeline) - d : back[i] = timeline[d + i]
  <2>1. \A i \in d + 1 .. Len(timeline) : timeline[i] \in Entries
    BY <1>2
  <2>2. d + 1 \in Int /\ Len(timeline) \in Int
    BY <1>2
  <2>3. /\ back \in Seq(Entries)
        /\ Len(back) = IF d + 1 <= Len(timeline) THEN Len(timeline) - (d + 1) + 1 ELSE 0
        /\ \A i \in 1 .. Len(timeline) - (d + 1) + 1 : back[i] = timeline[d + 1 + i - 1]
    BY <2>1, <2>2, SubSeqProperties, SMTT(60)
  <2> HIDE DEF back
  <2>4. Len(timeline) - (d + 1) + 1 = Len(timeline) - d
    BY <1>2
  <2>5. \A i \in 1 .. Len(timeline) - d : d + 1 + i - 1 = d + i
    BY <1>2
  <2> QED
    BY <1>2, <2>3, <2>4, <2>5
<1> HIDE DEF front, back
<1>5. /\ timeline' \in Seq(Entries) /\ Len(timeline') = Len(timeline) - 1
      /\ DOMAIN timeline' = 1 .. Len(timeline) - 1
      /\ \A i \in 1 .. Len(timeline) - 1 :
           timeline'[i] = IF i < d THEN front[i] ELSE back[i - (d - 1)]
  <2>1. timeline' = front \o back
    BY <1>1 DEF front, back
  <2>2. /\ front \o back \in Seq(Entries)
        /\ Len(front \o back) = Len(front) + Len(back)
        /\ \A i \in 1 .. Len(front) + Len(back) :
             (front \o back)[i] = IF i <= Len(front) THEN front[i] ELSE back[i - Len(front)]
    BY <1>3, <1>4, ConcatProperties
  <2>3. Len(front) + Len(back) = Len(timeline) - 1
        /\ \A i \in 1 .. Len(timeline) - 1 : i <= Len(front) <=> i < d
    BY <1>2, <1>3, <1>4
  <2>4. timeline' \in Seq(Entries) /\ Len(timeline') = Len(timeline) - 1
        /\ DOMAIN timeline' = 1 .. Len(timeline) - 1
    BY <2>1, <2>2, <2>3
  <2>5. \A i \in 1 .. Len(timeline) - 1 :
          timeline'[i] = IF i < d THEN front[i] ELSE back[i - (d - 1)]
    BY <1>3, <2>1, <2>2, <2>3
  <2> QED
    BY <2>4, <2>5
<1>6. ASSUME NEW i \in DOMAIN timeline'
      PROVE  \/ i < d /\ i \in DOMAIN timeline /\ timeline'[i] = timeline[i]
             \/ i >= d /\ i + 1 \in DOMAIN timeline /\ timeline'[i] = timeline[i + 1]
  <2>1. CASE i < d
    BY <1>2, <1>3, <1>5, <1>6, <2>1
  <2>2. CASE ~(i < d)
    <3>1. i - (d - 1) \in 1 .. Len(timeline) - d /\ d + (i - (d - 1)) = i + 1
      BY <1>2, <1>5, <1>6, <2>2
    <3>2. back[i - (d - 1)] = timeline[i + 1]
      BY <1>4, <3>1
    <3> QED
      BY <1>2, <1>5, <1>6, <2>2, <3>2
  <2> QED
    BY <2>1, <2>2
<1>7. ASSUME NEW i \in DOMAIN timeline, i # d
      PROVE  \E j \in DOMAIN timeline' : timeline'[j] = timeline[i]
  <2>1. CASE i < d
    <3>1. i \in DOMAIN timeline'
      BY <1>2, <1>5, <2>1
    <3>2. timeline'[i] = timeline[i]
      BY <1>2, <1>6, <2>1, <3>1
    <3> QED
      BY <3>1, <3>2
  <2>2. CASE i > d
    <3>1. i - 1 \in DOMAIN timeline' /\ i - 1 >= d /\ (i - 1) + 1 = i
      BY <1>2, <1>5, <2>2
    <3>2. timeline'[i - 1] = timeline[(i - 1) + 1]
      BY <1>2, <1>6, <3>1
    <3> QED
      BY <3>1, <3>2
  <2> QED
    BY <1>2, <1>7, <2>1, <2>2
<1>8. TypeOK'
  <2>1. removed' \subseteq Entries
    BY <1>1, <1>2 DEF TypeOK
  <2> QED
    BY <1>5, <2>1 DEF TypeOK, Delete, historyVars
<1> QED
  BY <1>5, <1>6, <1>7, <1>8

\* The portal's steps leave the check and its files alone.
LEMMA PortalKeeps ==
  ASSUME PortalStep
  PROVE  /\ UNCHANGED <<reader, historyVars>>
         /\ Known' = Known /\ Boundary' = Boundary /\ Begun' = Begun
         /\ Paging' = Paging /\ Revalidating' = Revalidating
         /\ NoHistoryAnnounced' = NoHistoryAnnounced
         /\ \A id : Added(id)' = Added(id) /\ Historic(id)' = Historic(id)
<1>1. UNCHANGED <<reader, historyVars>>
  BY DEF PortalStep, Publish, Correct, Delete
<1>2. Known' = Known /\ Boundary' = Boundary /\ Begun' = Begun
      /\ Paging' = Paging /\ Revalidating' = Revalidating
  BY <1>1 DEF Known, Boundary, Begun, Paging, Revalidating, historyVars
<1>3. \A id : Added(id)' = Added(id) /\ Historic(id)' = Historic(id)
  BY <1>1 DEF Added, Historic, historyVars
<1>4. NoHistoryAnnounced' = NoHistoryAnnounced
  BY <1>1, <1>3 DEF NoHistoryAnnounced, historyVars
<1> QED
  BY <1>1, <1>2, <1>3, <1>4

\* A portal step does not undo a removal, and shows nothing that was hidden.
LEMMA ShownBefore ==
  ASSUME TypeOK, PortalStep
  PROVE  /\ AllShown' => AllShown
         /\ removed' = {} => removed = {} /\ ~ \E d \in DOMAIN timeline : Delete(d)
         /\ published <= published'
<1>1. ASSUME NEW shown \in Shown, Publish(shown)
      PROVE  (AllShown' => AllShown) /\ removed' = removed /\ published <= published'
  <2>1. removed' = removed /\ published' = published + 1 /\ published \in Nat
    BY <1>1, EntryTypes DEF Publish
  <2>2. \A i \in DOMAIN timeline : i + 1 \in DOMAIN timeline' /\ timeline'[i + 1] = timeline[i]
    BY <1>1, PublishFacts
  <2> QED
    BY <2>1, <2>2 DEF AllShown
<1>2. ASSUME NEW d \in DOMAIN timeline, Correct(d)
      PROVE  (AllShown' => AllShown) /\ removed' = removed /\ published <= published'
  <2>1. removed' = removed /\ published' = published /\ published \in Nat
    BY <1>2, EntryTypes DEF Correct
  <2>2. DOMAIN timeline' = DOMAIN timeline
        /\ \A i \in DOMAIN timeline : timeline'[i].shown = timeline[i].shown
    BY <1>2, CorrectFacts
  <2> QED
    BY <2>1, <2>2 DEF AllShown
<1>3. ASSUME NEW d \in DOMAIN timeline, Delete(d)
      PROVE  (AllShown' => AllShown) /\ removed' # {} /\ published <= published'
  <2>1. removed' = removed \cup {timeline[d]} /\ published' = published /\ published \in Nat
    BY <1>3, EntryTypes DEF Delete
  <2>2. \A i \in DOMAIN timeline : i = d \/ \E j \in DOMAIN timeline' : timeline'[j] = timeline[i]
    BY <1>3, DeleteFacts
  <2> QED
    BY <2>1, <2>2 DEF AllShown
<1> QED
  BY <1>1, <1>2, <1>3 DEF PortalStep

LEMMA PortalTypes == TypeOK /\ PortalStep => TypeOK'
  BY PublishFacts, CorrectFacts, DeleteFacts DEF PortalStep

LEMMA PortalOrder ==
  ASSUME TypeOK, PortalInv, PortalStep
  PROVE  PortalInv'
<1>1. /\ published \in Nat /\ Len(timeline) \in Nat /\ DOMAIN timeline = 1 .. Len(timeline)
      /\ \A i \in DOMAIN timeline : timeline[i].id \in Nat
      /\ DOMAIN timeline' = 1 .. Len(timeline') /\ Len(timeline') \in Nat
  <2>1. timeline' \in Seq(Entries)
    BY PortalTypes DEF TypeOK
  <2> QED
    BY <2>1, EntryTypes
<1>2. ASSUME NEW shown \in Shown, Publish(shown)
      PROVE  PortalInv'
  <2>1. /\ Len(timeline') = Len(timeline) + 1 /\ timeline'[1].id = published + 1
        /\ \A i \in DOMAIN timeline' \ {1} :
             i - 1 \in DOMAIN timeline /\ timeline'[i] = timeline[i - 1]
    BY <1>2, PublishFacts
  <2>2. published' = published + 1 /\ removed' = removed
    BY <1>2 DEF Publish
  <2>3. \A i \in DOMAIN timeline' : timeline'[i].id <= published' /\ timeline'[i].id \in Nat
    <3> TAKE i \in DOMAIN timeline'
    <3>1. CASE i = 1
      BY <1>1, <2>1, <2>2, <3>1
    <3>2. CASE i # 1
      <4>1. /\ i - 1 \in DOMAIN timeline /\ timeline'[i] = timeline[i - 1]
            /\ timeline[i - 1].id \in Nat /\ timeline[i - 1].id <= published
        BY <1>1, <2>1, <3>2 DEF PortalInv
      <4> QED
        BY <1>1, <2>2, <4>1
    <3> QED
      BY <3>1, <3>2
  <2>4. ASSUME NEW i \in DOMAIN timeline', NEW j \in DOMAIN timeline', i < j
        PROVE  timeline'[j].id < timeline'[i].id
    <3>1. j # 1 /\ j - 1 \in DOMAIN timeline /\ timeline'[j] = timeline[j - 1]
      BY <1>1, <2>1, <2>4
    <3>2. CASE i = 1
      <4>1. timeline[j - 1].id \in Nat /\ timeline[j - 1].id <= published
        BY <1>1, <3>1 DEF PortalInv
      <4> QED
        BY <1>1, <2>1, <3>1, <3>2, <4>1
    <3>3. CASE i # 1
      <4>1. i - 1 \in DOMAIN timeline /\ timeline'[i] = timeline[i - 1] /\ i - 1 < j - 1
        BY <1>1, <2>1, <2>4, <3>3
      <4> QED
        BY <3>1, <4>1 DEF PortalInv
    <3> QED
      BY <3>2, <3>3
  <2>5. ASSUME removed' = {}
        PROVE  /\ Len(timeline') = published'
               /\ \A i \in DOMAIN timeline' : timeline'[i].id = published' + 1 - i
    <3>1. Len(timeline) = published /\ \A i \in DOMAIN timeline : timeline[i].id = published + 1 - i
      BY <2>2, <2>5 DEF PortalInv
    <3>2. ASSUME NEW i \in DOMAIN timeline'
          PROVE  timeline'[i].id = published' + 1 - i
      <4>1. CASE i = 1
        BY <1>1, <2>1, <2>2, <4>1
      <4>2. CASE i # 1
        <5>1. timeline'[i].id = published + 1 - (i - 1) /\ i \in Nat
          BY <1>1, <2>1, <3>1, <4>2
        <5> QED
          BY <1>1, <2>2, <5>1
      <4> QED
        BY <4>1, <4>2
    <3> QED
      BY <2>1, <2>2, <3>1, <3>2
  <2> QED
    BY <2>3, <2>4, <2>5 DEF PortalInv
<1>3. ASSUME NEW d \in DOMAIN timeline, Correct(d)
      PROVE  PortalInv'
  <2>1. /\ Len(timeline') = Len(timeline) /\ DOMAIN timeline' = DOMAIN timeline
        /\ \A i \in DOMAIN timeline : timeline'[i].id = timeline[i].id
    BY <1>3, CorrectFacts
  <2>2. published' = published /\ removed' = removed
    BY <1>3 DEF Correct
  <2> QED
    BY <2>1, <2>2 DEF PortalInv
<1>4. ASSUME NEW d \in DOMAIN timeline, Delete(d)
      PROVE  PortalInv'
  <2>1. \A i \in DOMAIN timeline' :
          \/ i < d /\ i \in DOMAIN timeline /\ timeline'[i] = timeline[i]
          \/ i >= d /\ i + 1 \in DOMAIN timeline /\ timeline'[i] = timeline[i + 1]
    BY <1>4, DeleteFacts
  <2>2. published' = published /\ removed' # {}
    BY <1>4 DEF Delete
  <2>3. \A i, j \in DOMAIN timeline' : i < j => timeline'[j].id < timeline'[i].id
    <3> TAKE i, j \in DOMAIN timeline'
    <3>1. ASSUME i < j
          PROVE  \E k, l \in DOMAIN timeline :
                   k < l /\ timeline'[i] = timeline[k] /\ timeline'[j] = timeline[l]
      <4>1. CASE j < d
        BY <1>1, <2>1, <3>1, <4>1
      <4>2. CASE j >= d /\ i < d
        BY <1>1, <2>1, <3>1, <4>2
      <4>3. CASE i >= d
        BY <1>1, <2>1, <3>1, <4>3
      <4> QED
        BY <1>1, <3>1, <4>1, <4>2, <4>3
    <3> QED
      BY <3>1 DEF PortalInv
  <2> QED
    BY <2>1, <2>2, <2>3 DEF PortalInv
<1> QED
  BY <1>2, <1>3, <1>4 DEF PortalStep

LEMMA PortalSmall ==
  ASSUME TypeOK, KnownInv, AddedInv, ReaderInv, PortalStep
  PROVE  KnownInv' /\ AddedInv' /\ ReaderInv'
<1>1. /\ reader' = reader /\ baseline' = baseline /\ seen' = seen /\ events' = events
      /\ first' = first /\ covered' = covered
  BY PortalKeeps DEF historyVars
<1>2. published <= published' /\ published \in Nat /\ published' \in Nat
  <2>1. TypeOK'
    BY PortalTypes
  <2> QED
    BY <2>1, ShownBefore, TimelineAssumption DEF TypeOK
<1>3. Known' = Known /\ Boundary' = Boundary
  BY PortalKeeps
<1>4. Known => covered.until \in Nat /\ covered.since \in Nat
  BY TimelineAssumption DEF TypeOK, KnownInv
<1>5. reader # None => reader.published \in Nat
  BY TimelineAssumption DEF TypeOK, Readers
<1>6. KnownInv'
  BY <1>1, <1>2, <1>3, <1>4 DEF KnownInv
<1>7. AddedInv'
  BY <1>1 DEF AddedInv
<1>8. ReaderInv'
  BY <1>1, <1>2, <1>3, <1>5 DEF ReaderInv
<1> QED
  BY <1>6, <1>7, <1>8

\* Facts about types that the arithmetic of the next lemmas needs.
LEMMA Numbers ==
  ASSUME TypeOK
  PROVE  /\ covered # None => covered.since \in Nat /\ covered.until \in Nat
         /\ reader # None =>
              /\ reader \in Readers
              /\ reader.published \in Nat /\ reader.lastPage \in Nat
              /\ reader.page \in Nat /\ reader.page >= 1
              /\ (reader.page - 1) * PageSize \in Nat
              /\ reader.page * PageSize = (reader.page - 1) * PageSize + PageSize
              /\ (reader.page - 2) * PageSize = (reader.page - 1) * PageSize - PageSize
<1>1. PageSize \in Nat \ {0} /\ MaxPublished \in Nat /\ PageLimit \in Nat
  BY TimelineAssumption
<1>2. covered # None => covered.since \in Nat /\ covered.until \in Nat
  BY <1>1 DEF TypeOK
<1>3. reader # None =>
        /\ reader \in Readers
        /\ reader.published \in Nat /\ reader.lastPage \in Nat
        /\ reader.page \in Nat /\ reader.page >= 1
  BY <1>1 DEF TypeOK, Readers
<1>4. ASSUME reader # None
      PROVE  /\ (reader.page - 1) * PageSize \in Nat
             /\ reader.page * PageSize = (reader.page - 1) * PageSize + PageSize
             /\ (reader.page - 2) * PageSize = (reader.page - 1) * PageSize - PageSize
  <2> DEFINE m == reader.page - 1
  <2>1. m \in Nat /\ reader.page = m + 1 /\ reader.page - 2 = m - 1
    BY <1>3, <1>4
  <2> HIDE DEF m
  <2>2. m * PageSize \in Nat /\ (m + 1) * PageSize = m * PageSize + PageSize
        /\ (m - 1) * PageSize = m * PageSize - PageSize
    BY <1>1, <2>1
  <2> QED
    BY <2>1, <2>2 DEF m
<1> QED
  BY <1>2, <1>3, <1>4

\* Entries are the old ones, or newer than all that was published.
LEMMA OlderEntries ==
  ASSUME TypeOK, PortalStep, removed' = {}, NEW i \in DOMAIN timeline'
  PROVE  \/ timeline'[i].id = published + 1
         \/ \E j \in DOMAIN timeline : /\ timeline'[i].id = timeline[j].id
                                       /\ timeline'[i].shown = timeline[j].shown
<1>1. ~ \E d \in DOMAIN timeline : Delete(d)
  BY ShownBefore
<1>2. ASSUME NEW shown \in Shown, Publish(shown)
      PROVE  \/ timeline'[i].id = published + 1
             \/ \E j \in DOMAIN timeline : timeline'[i] = timeline[j]
  BY <1>2, PublishFacts
<1>3. ASSUME NEW d \in DOMAIN timeline, Correct(d)
      PROVE  \E j \in DOMAIN timeline : /\ timeline'[i].id = timeline[j].id
                                        /\ timeline'[i].shown = timeline[j].shown
  BY <1>3, CorrectFacts
<1> QED
  BY <1>1, <1>2, <1>3 DEF PortalStep

LEMMA PortalMissed ==
  ASSUME TypeOK, PortalInv, KnownInv, ReaderInv, MissedInv, PortalStep
  PROVE  MissedInv'
<1> SUFFICES ASSUME removed' = {}
             PROVE  MissedInv'
  BY DEF MissedInv
<1>1. removed = {} /\ published <= published' /\ ~ \E d \in DOMAIN timeline : Delete(d)
  BY ShownBefore
<1>2. /\ UNCHANGED <<reader, historyVars>>
      /\ reader' = reader /\ baseline' = baseline /\ seen' = seen /\ covered' = covered
      /\ Known' = Known /\ Begun' = Begun /\ Paging' = Paging
      /\ \A id : Added(id)' = Added(id)
  BY PortalKeeps DEF historyVars
<1>3. published \in Nat /\ published' \in Nat
  BY PortalTypes, TimelineAssumption DEF TypeOK
<1>4. \A i \in DOMAIN timeline' :
        \/ timeline'[i].id = published + 1
        \/ \E j \in DOMAIN timeline : /\ timeline'[i].id = timeline[j].id
                                      /\ timeline'[i].shown = timeline[j].shown
  BY OlderEntries
<1>5. NothingMissed'
  <2> SUFFICES ASSUME NEW i \in DOMAIN timeline',
                      Known', timeline'[i].shown, timeline'[i].id > covered'.since,
                      timeline'[i].id <= covered'.until
               PROVE  Added(timeline[i].id)' # {}
    BY DEF NothingMissed
  <2>1. covered # None /\ covered.until <= published /\ covered.until \in Nat
    BY <1>2, Numbers DEF KnownInv
  <2>2. timeline'[i].id # published + 1
    BY <1>2, <1>3, <2>1
  <2>3. PICK j \in DOMAIN timeline : /\ timeline'[i].id = timeline[j].id
                                     /\ timeline'[i].shown = timeline[j].shown
    BY <1>4, <2>2
  <2>4. Added(timeline[j].id) # {}
    <3>1. Known /\ timeline[j].shown /\ timeline[j].id > covered.since
          /\ timeline[j].id <= covered.until
      BY <1>2, <2>3
    <3> QED
      BY <1>1, <3>1 DEF MissedInv, NothingMissed
  <2>5. events' = events
    BY <1>2 DEF historyVars
  <2> QED
    BY <2>3, <2>4, <2>5 DEF Added
<1>6. ASSUME NEW i \in DOMAIN timeline', reader # None, timeline'[i].shown,
             timeline'[i].id <= reader.published,
             IF Paging THEN published' - (reader.page - 1) * PageSize < timeline'[i].id
                       ELSE Known /\ covered.until < timeline'[i].id
      PROVE  timeline'[i].id \in reader.newIds \cap IdsOf(reader.items)
  <2>1. reader.published <= published /\ reader.published \in Nat
        /\ (reader.page - 1) * PageSize \in Nat
    BY <1>6, Numbers DEF ReaderInv
  <2>2. timeline'[i].id # published + 1
    BY <1>3, <1>6, <2>1
  <2>3. PICK j \in DOMAIN timeline : /\ timeline'[i].id = timeline[j].id
                                     /\ timeline'[i].shown = timeline[j].shown
    BY <1>4, <2>2
  <2>4. timeline[j].id \in Nat
    BY EntryTypes
  <2>5. IF Paging THEN published - (reader.page - 1) * PageSize < timeline[j].id
                  ELSE Known /\ covered.until < timeline[j].id
    BY <1>1, <1>3, <1>6, <2>1, <2>3, <2>4
  <2> QED
    BY <1>1, <1>6, <2>3, <2>5 DEF MissedInv
<1>7. Known' => \A id \in seen' : id <= covered'.until
  BY <1>1, <1>2 DEF MissedInv
<1>8. Begun' =>
         /\ reader'.lastPage = PagesOf(reader'.published)
         /\ reader'.phase = "paging" => reader'.page <= reader'.lastPage
         /\ \A id \in IdsOf(reader'.items) : id <= reader'.published
  BY <1>1, <1>2 DEF MissedInv
<1> QED
  BY <1>2, <1>5, <1>6, <1>7, <1>8 DEF MissedInv, PagesOf

LEMMA PortalSlide ==
  ASSUME TypeOK, KnownInv, SlideInv, PortalStep
  PROVE  SlideInv'
<1> SUFFICES ASSUME removed' = {}, AllShown'
             PROVE  SlideInv'
  BY DEF SlideInv
<1>1. removed = {} /\ AllShown /\ published <= published'
  BY ShownBefore
<1>2. /\ reader' = reader /\ baseline' = baseline /\ events' = events /\ covered' = covered
      /\ Known' = Known /\ Begun' = Begun /\ Boundary' = Boundary
      /\ Paging' = Paging /\ Revalidating' = Revalidating
  BY PortalKeeps DEF historyVars
<1>3. published \in Nat /\ published' \in Nat
  BY PortalTypes, TimelineAssumption DEF TypeOK
<1>4. Known /\ Paging => covered.until <= published - (reader.page - 1) * PageSize
  BY <1>1 DEF SlideInv
<1>5. Known' /\ Paging' => covered'.until <= published' - (reader'.page - 1) * PageSize
  <2> SUFFICES ASSUME Known, Paging
               PROVE  covered.until <= published' - (reader.page - 1) * PageSize
    BY <1>2
  <2>1. reader # None
    BY DEF Paging
  <2>2. (reader.page - 1) * PageSize \in Nat
    BY <2>1, Numbers
  <2>3. covered.until \in Nat
    BY Numbers DEF KnownInv
  <2> QED
    BY <1>1, <1>3, <1>4, <2>2, <2>3
<1> QED
  BY <1>1, <1>2, <1>5 DEF SlideInv

\* A read that has taken history for new has read a page.
LEMMA NewNeedsPage ==
  ASSUME TypeOK, ReaderInv, reader # None, reader.newIds # {}
  PROVE  /\ reader.pages # <<>>
         /\ Paging => reader.page >= 2 /\ (reader.page - 2) * PageSize \in Nat
<1>1. reader.pages # <<>> /\ reader.pages \in Seq(Seq(Activities))
  BY DEF ReaderInv, TypeOK, Readers
<1>2. ASSUME Paging
      PROVE  reader.page >= 2 /\ (reader.page - 2) * PageSize \in Nat
  <2>1. Len(reader.pages) = reader.page - 1
    BY <1>2 DEF ReaderInv, Paging
  <2>2. Len(reader.pages) \in Nat /\ Len(reader.pages) # 0
    BY <1>1, EmptySeq
  <2>3. reader.page \in Nat /\ PageSize \in Nat
    BY Numbers, TimelineAssumption
  <2> DEFINE m == reader.page - 2
  <2>4. m \in Nat /\ reader.page >= 2
    BY <2>1, <2>2, <2>3
  <2> HIDE DEF m
  <2>5. m * PageSize \in Nat
    BY <2>3, <2>4
  <2> QED
    BY <2>4, <2>5 DEF m
<1> QED
  BY <1>1, <1>2

LEMMA PortalHistory ==
  ASSUME TypeOK, KnownInv, ReaderInv, HistoryInv, PortalStep
  PROVE  HistoryInv'
<1> SUFFICES ASSUME AllShown', Known'
             PROVE  HistoryInv'
  BY DEF HistoryInv
<1>1. AllShown /\ published <= published'
  BY ShownBefore
<1>2. /\ reader' = reader /\ seen' = seen /\ covered' = covered
      /\ Known' = Known /\ Boundary' = Boundary
      /\ Paging' = Paging /\ Revalidating' = Revalidating
      /\ NoHistoryAnnounced' = NoHistoryAnnounced
  BY PortalKeeps DEF historyVars
<1>3. /\ published \in Nat /\ Len(timeline) \in Nat /\ DOMAIN timeline = 1 .. Len(timeline)
      /\ Len(timeline') \in Nat /\ DOMAIN timeline' = 1 .. Len(timeline')
      /\ \A i \in DOMAIN timeline : timeline[i].id \in Nat
  <2>1. TypeOK'
    BY PortalTypes
  <2>2. timeline' \in Seq(Entries)
    BY <2>1 DEF TypeOK
  <2> QED
    BY <2>2, EntryTypes
<1>4. /\ covered.since \in Nat /\ covered.since <= published
      /\ reader # None => reader.published \in Nat /\ reader.published <= published
  <2>1. covered # None /\ covered.since <= covered.until /\ covered.until <= published
    BY <1>2 DEF KnownInv
  <2>2. covered.since \in Nat /\ covered.until \in Nat
    BY <2>1, Numbers
  <2>3. reader # None => reader.published \in Nat /\ reader.published <= published
    BY Numbers DEF ReaderInv
  <2> QED
    BY <1>3, <2>1, <2>2, <2>3
<1>5. ASSUME NEW i \in DOMAIN timeline'
      PROVE  \/ timeline'[i].id = published + 1
             \/ \E j \in DOMAIN timeline : timeline'[i].id = timeline[j].id
  <2>1. ASSUME NEW shown \in Shown, Publish(shown)
        PROVE  \/ timeline'[i].id = published + 1
               \/ \E j \in DOMAIN timeline : timeline'[i] = timeline[j]
    BY <2>1, PublishFacts
  <2>2. ASSUME NEW d \in DOMAIN timeline, Correct(d)
        PROVE  \E j \in DOMAIN timeline : timeline'[i].id = timeline[j].id
    BY <2>2, CorrectFacts
  <2>3. ASSUME NEW d \in DOMAIN timeline, Delete(d)
        PROVE  \E j \in DOMAIN timeline : timeline'[i] = timeline[j]
    BY <2>3, DeleteFacts
  <2> QED
    BY <2>1, <2>2, <2>3 DEF PortalStep
<1>6. ASSUME NEW i \in DOMAIN timeline',
             timeline'[i].id <= covered.since, timeline'[i].id \notin seen
      PROVE  Boundary # {} /\ \A id \in Boundary : timeline'[i].id < id
  <2>1. timeline'[i].id # published + 1
    BY <1>3, <1>4, <1>6
  <2>2. PICK j \in DOMAIN timeline : timeline'[i].id = timeline[j].id
    BY <1>5, <2>1
  <2>3. Historic(timeline[j].id)
    BY <1>6, <2>2 DEF Historic
  <2> QED
    BY <1>1, <1>2, <2>2, <2>3 DEF HistoryInv
<1>7. ASSUME reader # None, NEW x \in reader.newIds, Historic(x)
      PROVE  /\ Boundary # {}
             /\ \E n \in 0 .. Len(timeline') :
                  /\ Newer(n)'
                  /\ Paging => \A i \in DOMAIN timeline' :
                       timeline'[i].id \in Boundary => i - 1 - n < (reader.page - 2) * PageSize
                  /\ Revalidating => Len(timeline') - n < (reader.lastPage - 1) * PageSize
  <2>1. Boundary # {}
    BY <1>1, <1>2, <1>7 DEF HistoryInv
  <2>2. PICK n \in 0 .. Len(timeline) :
             /\ Newer(n)
             /\ Paging => \A i \in DOMAIN timeline :
                  timeline[i].id \in Boundary => i - 1 - n < (reader.page - 2) * PageSize
             /\ Revalidating => Len(timeline) - n < (reader.lastPage - 1) * PageSize
    BY <1>1, <1>2, <1>7 DEF HistoryInv
  <2> DEFINE M == (reader.page - 2) * PageSize
             L == (reader.lastPage - 1) * PageSize
  <2>3. (Paging => M \in Nat) /\ L \in Int /\ reader.published \in Nat /\ reader.published <= published
    <3>1. Paging => M \in Nat
      BY <1>7, NewNeedsPage
    <3>2. reader.lastPage \in Nat /\ PageSize \in Nat
      BY <1>7, Numbers, TimelineAssumption
    <3>3. L \in Int
      BY <3>2
    <3> QED
      BY <1>4, <1>7, <3>1, <3>3
  <2>4. \A i \in DOMAIN timeline : (i <= n) <=> (reader.published < timeline[i].id)
    BY <2>2 DEF Newer
  <2>5. /\ Paging => \A i \in DOMAIN timeline : timeline[i].id \in Boundary => i - 1 - n < M
        /\ Revalidating => Len(timeline) - n < L
    BY <2>2
  <2> HIDE DEF M, L
  <2>6. ASSUME NEW shown \in Shown, Publish(shown)
        PROVE  /\ n + 1 \in 0 .. Len(timeline')
               /\ Newer(n + 1)'
               /\ Paging => \A i \in DOMAIN timeline' : timeline'[i].id \in Boundary => i - 1 - (n + 1) < M
               /\ Revalidating => Len(timeline') - (n + 1) < L
    <3>1. /\ Len(timeline') = Len(timeline) + 1 /\ timeline'[1].id = published + 1
          /\ \A i \in DOMAIN timeline' \ {1} :
               i - 1 \in DOMAIN timeline /\ timeline'[i] = timeline[i - 1]
      BY <2>6, PublishFacts
    <3>2. n + 1 \in 0 .. Len(timeline') /\ (Revalidating => Len(timeline') - (n + 1) < L)
      BY <1>3, <2>3, <2>5, <3>1
    <3>3. ASSUME NEW i \in DOMAIN timeline'
          PROVE  /\ (i <= n + 1) <=> (reader.published < timeline'[i].id)
                 /\ Paging => (timeline'[i].id \in Boundary => i - 1 - (n + 1) < M)
      <4>1. CASE i = 1
        BY <1>3, <2>3, <3>1, <4>1
      <4>2. CASE i # 1
        <5>1. i - 1 \in DOMAIN timeline /\ timeline'[i] = timeline[i - 1] /\ i \in Nat
          BY <1>3, <3>1, <4>2
        <5>2. (i - 1 <= n) <=> (reader.published < timeline'[i].id)
          BY <2>4, <5>1
        <5>3. Paging => (timeline'[i].id \in Boundary => i - 1 - 1 - n < M)
          BY <2>5, <5>1
        <5> QED
          BY <2>3, <5>1, <5>2, <5>3
      <4> QED
        BY <4>1, <4>2
    <3>4. Newer(n + 1)'
      BY <1>2, <3>3 DEF Newer
    <3> QED
      BY <3>2, <3>3, <3>4
  <2>7. ASSUME NEW d \in DOMAIN timeline, Correct(d)
        PROVE  /\ n \in 0 .. Len(timeline')
               /\ Newer(n)'
               /\ Paging => \A i \in DOMAIN timeline' : timeline'[i].id \in Boundary => i - 1 - n < M
               /\ Revalidating => Len(timeline') - n < L
    <3>1. /\ Len(timeline') = Len(timeline) /\ DOMAIN timeline' = DOMAIN timeline
          /\ \A i \in DOMAIN timeline : timeline'[i].id = timeline[i].id
      BY <2>7, CorrectFacts
    <3>2. Newer(n)'
      BY <1>2, <2>4, <3>1 DEF Newer
    <3> QED
      BY <2>5, <3>1, <3>2
  <2>8. ASSUME NEW d \in DOMAIN timeline, Delete(d)
        PROVE  \E m \in 0 .. Len(timeline') :
                 /\ Newer(m)'
                 /\ Paging => \A i \in DOMAIN timeline' : timeline'[i].id \in Boundary => i - 1 - m < M
                 /\ Revalidating => Len(timeline') - m < L
    <3>1. /\ Len(timeline') = Len(timeline) - 1
          /\ \A i \in DOMAIN timeline' :
               \/ i < d /\ i \in DOMAIN timeline /\ timeline'[i] = timeline[i]
               \/ i >= d /\ i + 1 \in DOMAIN timeline /\ timeline'[i] = timeline[i + 1]
      BY <2>8, DeleteFacts
    <3> DEFINE m == IF d <= n THEN n - 1 ELSE n
    <3>2. m \in 0 .. Len(timeline') /\ (Revalidating => Len(timeline') - m < L)
      BY <1>3, <2>3, <2>5, <3>1
    <3>3. ASSUME NEW i \in DOMAIN timeline'
          PROVE  /\ (i <= m) <=> (reader.published < timeline'[i].id)
                 /\ Paging => (timeline'[i].id \in Boundary => i - 1 - m < M)
      <4>1. i \in Nat /\ n \in Nat /\ d \in Nat
        BY <1>3
      <4>2. CASE i < d /\ i \in DOMAIN timeline /\ timeline'[i] = timeline[i]
        <5>1. (i <= n) <=> (reader.published < timeline'[i].id)
          BY <2>4, <4>2
        <5>2. Paging => (timeline'[i].id \in Boundary => i - 1 - n < M)
          BY <2>5, <4>2
        <5> QED
          BY <2>3, <4>1, <4>2, <5>1, <5>2
      <4>3. CASE i >= d /\ i + 1 \in DOMAIN timeline /\ timeline'[i] = timeline[i + 1]
        <5>1. PICK k \in DOMAIN timeline : k = i + 1 /\ timeline'[i] = timeline[k]
          BY <4>3
        <5>2. (k <= n) <=> (reader.published < timeline'[i].id)
          BY <2>4, <5>1
        <5>3. Paging => (timeline'[i].id \in Boundary => k - 1 - n < M)
          BY <2>5, <5>1
        <5> QED
          BY <2>3, <4>1, <4>3, <5>1, <5>2, <5>3
      <4> QED
        BY <3>1, <4>2, <4>3
    <3> HIDE DEF m
    <3>4. Newer(m)'
      BY <1>2, <3>3 DEF Newer
    <3> QED
      BY <3>2, <3>3, <3>4
  <2> QED
    BY <2>1, <2>6, <2>7, <2>8 DEF PortalStep, M, L
<1>8. (\E x \in reader.newIds : Historic(x))' <=> \E x \in reader.newIds : Historic(x)
  BY <1>2 DEF Historic
<1>9. NoHistoryAnnounced'
  BY <1>1, <1>2 DEF HistoryInv
<1>10. \A i \in DOMAIN timeline' :
         Historic(timeline[i].id)' => Boundary' # {} /\ \A id \in Boundary' : timeline'[i].id < id
  BY <1>2, <1>6 DEF Historic
<1> QED
  BY <1>2, <1>7, <1>8, <1>9, <1>10 DEF HistoryInv

\* No step of the portal harms the invariant.
LEMMA PortalInductive == Inv /\ PortalStep => Inv'
  BY PortalTypes, PortalOrder, PortalSmall, PortalMissed, PortalSlide, PortalHistory DEF Inv

-----------------------------------------------------------------------------
(* What a read takes in. *)

\* The items of a page are those of the shown entries in its range, and stand
\* in the order of publication.
LEMMA PageIds ==
  ASSUME TypeOK, PortalInv, NEW k \in Nat \ {0}
  PROVE  /\ Page(k) \in Seq(Activities)
         /\ \A id \in IdsOf(Page(k)) : \E i \in DOMAIN timeline :
              /\ timeline[i].id = id /\ timeline[i].shown
              /\ (k - 1) * PageSize < i /\ i <= k * PageSize
         /\ \A i \in DOMAIN timeline :
              /\ timeline[i].shown
              /\ (k - 1) * PageSize < i /\ i <= k * PageSize
              => timeline[i].id \in IdsOf(Page(k))
         /\ \A j, l \in DOMAIN Page(k) : j < l => Page(k)[l].id < Page(k)[j].id
<1>1. timeline \in Seq(Entries)
  BY DEF TypeOK
<1>2. PICK at : Page(k) \in Seq(Activities) /\ Cuts(at, k)
  BY <1>1, PageFacts
<1>3. \A j \in DOMAIN Page(k) : /\ at[j] \in DOMAIN timeline
                                /\ Page(k)[j].id = timeline[at[j]].id
  BY <1>2 DEF Cuts, Activity
<1>4. ASSUME NEW id \in IdsOf(Page(k))
      PROVE  \E i \in DOMAIN timeline :
               /\ timeline[i].id = id /\ timeline[i].shown
               /\ (k - 1) * PageSize < i /\ i <= k * PageSize
  <2>1. PICK j \in DOMAIN Page(k) : Page(k)[j].id = id
    BY DEF IdsOf
  <2> QED
    BY <1>2, <1>3, <2>1 DEF Cuts
<1>5. ASSUME NEW i \in DOMAIN timeline, timeline[i].shown,
             (k - 1) * PageSize < i, i <= k * PageSize
      PROVE  timeline[i].id \in IdsOf(Page(k))
  <2>1. PICK j \in DOMAIN Page(k) : at[j] = i
    BY <1>2, <1>5 DEF Cuts
  <2> QED
    BY <1>3, <2>1 DEF IdsOf
<1>6. ASSUME NEW j \in DOMAIN Page(k), NEW l \in DOMAIN Page(k), j < l
      PROVE  Page(k)[l].id < Page(k)[j].id
  <2>1. at[j] < at[l]
    BY <1>2, <1>6 DEF Cuts
  <2> QED
    BY <1>3, <2>1 DEF PortalInv
<1> QED
  BY <1>2, <1>4, <1>5, <1>6

\* Without removals a page covers a range of ids.
LEMMA PageRange ==
  ASSUME TypeOK, PortalInv, removed = {}, NEW k \in Nat \ {0}
  PROVE  /\ \A id \in IdsOf(Page(k)) :
              published - k * PageSize < id /\ id <= published - (k - 1) * PageSize
         /\ \A i \in DOMAIN timeline :
              /\ timeline[i].shown
              /\ published - k * PageSize < timeline[i].id
              /\ timeline[i].id <= published - (k - 1) * PageSize
              => timeline[i].id \in IdsOf(Page(k))
<1>1. PageSize \in Nat /\ published \in Nat /\ DOMAIN timeline = 1 .. Len(timeline)
      /\ Len(timeline) = published
      /\ \A i \in DOMAIN timeline : i \in Nat /\ timeline[i].id = published + 1 - i
  BY EntryTypes DEF PortalInv
<1> DEFINE from == (k - 1) * PageSize
           to == k * PageSize
<1>2. from \in Int /\ to \in Int
  BY <1>1
<1>3. /\ \A id \in IdsOf(Page(k)) : \E i \in DOMAIN timeline :
              /\ timeline[i].id = id /\ timeline[i].shown
              /\ from < i /\ i <= to
      /\ \A i \in DOMAIN timeline :
              timeline[i].shown /\ from < i /\ i <= to
              => timeline[i].id \in IdsOf(Page(k))
  BY PageIds
<1> HIDE DEF from, to
<1>4. ASSUME NEW id \in IdsOf(Page(k))
      PROVE  published - to < id /\ id <= published - from
  <2>1. PICK i \in DOMAIN timeline : timeline[i].id = id /\ from < i /\ i <= to
    BY <1>3
  <2>2. i \in Nat /\ id = published + 1 - i
    BY <1>1, <2>1
  <2> QED
    BY <1>1, <1>2, <2>1, <2>2
<1>5. ASSUME NEW i \in DOMAIN timeline, timeline[i].shown,
             published - to < timeline[i].id, timeline[i].id <= published - from
      PROVE  timeline[i].id \in IdsOf(Page(k))
  <2>1. i \in Nat /\ timeline[i].id = published + 1 - i
    BY <1>1
  <2>2. from < i /\ i <= to
    BY <1>1, <1>2, <1>5, <2>1
  <2> QED
    BY <1>3, <1>5, <2>2
<1> QED
  BY <1>4, <1>5 DEF from, to

\* Behind what was read, the items of a page that were not.
LEMMA UnreadFacts ==
  ASSUME NEW read \in Seq(Activities), NEW page \in Seq(Activities),
         \A i, j \in DOMAIN read : read[i].id = read[j].id => i = j,
         \A i, j \in DOMAIN page : page[i].id = page[j].id => i = j
  PROVE  \E all :
           /\ all = read \o Unread(read, page)
           /\ all \in Seq(Activities)
           /\ IdsOf(all) = IdsOf(read) \cup IdsOf(page)
           /\ \A i, j \in DOMAIN all : all[i].id = all[j].id => i = j
<1> DEFINE wanted == {i \in DOMAIN page : page[i].id \notin IdsOf(read)}
           fresh == Selected(page, wanted)
           all == read \o fresh
<1>1. fresh \in Seq(Activities) /\ \E at : Selects(at, fresh, page, wanted, Len(page))
  BY SelectedFacts
<1>2. PICK at : Selects(at, fresh, page, wanted, Len(page))
  BY <1>1
<1>3. Unread(read, page) = fresh
  BY DEF Unread
<1> HIDE DEF fresh
<1>4. /\ Len(read) \in Nat /\ DOMAIN read = 1 .. Len(read)
      /\ Len(page) \in Nat /\ DOMAIN page = 1 .. Len(page)
      /\ Len(fresh) \in Nat /\ DOMAIN fresh = 1 .. Len(fresh)
  BY <1>1
<1>5. \A k \in DOMAIN fresh : /\ at[k] \in DOMAIN page
                              /\ fresh[k] = page[at[k]]
                              /\ fresh[k].id \notin IdsOf(read)
  BY <1>2, <1>4 DEF Selects
<1>6. \A k, l \in DOMAIN fresh : fresh[k].id = fresh[l].id => k = l
  <2> SUFFICES ASSUME NEW k \in DOMAIN fresh, NEW l \in DOMAIN fresh,
                      fresh[k].id = fresh[l].id, k # l
               PROVE  FALSE
    OBVIOUS
  <2>1. at[k] = at[l]
    BY <1>5
  <2>2. at[k] < at[l] \/ at[l] < at[k]
    <3>1. k < l \/ l < k
      BY <1>4
    <3> QED
      BY <1>2, <3>1 DEF Selects
  <2>3. at[k] \in Nat /\ at[l] \in Nat
    BY <1>4, <1>5
  <2> QED
    BY <2>1, <2>2, <2>3
<1> HIDE DEF wanted
<1>7. /\ all \in Seq(Activities) /\ DOMAIN all = 1 .. Len(read) + Len(fresh)
      /\ \A i \in 1 .. Len(read) : all[i] = read[i]
      /\ \A i \in 1 .. Len(fresh) : all[Len(read) + i] = fresh[i]
      /\ \A i \in DOMAIN all : \/ i \in DOMAIN read /\ all[i] = read[i]
                               \/ i - Len(read) \in DOMAIN fresh /\ all[i] = fresh[i - Len(read)]
  <2>1. /\ all \in Seq(Activities) /\ Len(all) = Len(read) + Len(fresh)
        /\ \A i \in 1 .. Len(read) + Len(fresh) :
             all[i] = IF i <= Len(read) THEN read[i] ELSE fresh[i - Len(read)]
    BY <1>1, ConcatProperties
  <2> HIDE DEF all
  <2>2. DOMAIN all = 1 .. Len(read) + Len(fresh)
    BY <2>1
  <2>3. \A i \in 1 .. Len(read) : all[i] = read[i]
    BY <1>4, <2>1
  <2>4. ASSUME NEW i \in 1 .. Len(fresh)
        PROVE  all[Len(read) + i] = fresh[i]
    <3>1. PICK m \in 1 .. Len(read) + Len(fresh) : m = Len(read) + i /\ m - Len(read) = i /\ ~(m <= Len(read))
      BY <1>4
    <3> QED
      BY <2>1, <3>1
  <2>5. ASSUME NEW i \in DOMAIN all
        PROVE  \/ i \in DOMAIN read /\ all[i] = read[i]
               \/ i - Len(read) \in DOMAIN fresh /\ all[i] = fresh[i - Len(read)]
    BY <1>4, <2>1, <2>2
  <2> QED
    BY <2>1, <2>2, <2>3, <2>4, <2>5
<1> HIDE DEF all
<1>8. IdsOf(all) = IdsOf(read) \cup IdsOf(page)
  <2>1. ASSUME NEW i \in DOMAIN all
        PROVE  all[i].id \in IdsOf(read) \cup IdsOf(page)
    <3>1. CASE i \in DOMAIN read /\ all[i] = read[i]
      BY <3>1 DEF IdsOf
    <3>2. CASE i - Len(read) \in DOMAIN fresh /\ all[i] = fresh[i - Len(read)]
      BY <1>5, <3>2 DEF IdsOf
    <3> QED
      BY <1>7, <3>1, <3>2
  <2>2. ASSUME NEW i \in DOMAIN read
        PROVE  read[i].id \in IdsOf(all)
    <3>1. i \in DOMAIN all /\ all[i] = read[i]
      BY <1>4, <1>7
    <3> QED
      BY <3>1 DEF IdsOf
  <2>3. ASSUME NEW i \in DOMAIN page, page[i].id \notin IdsOf(read)
        PROVE  page[i].id \in IdsOf(all)
    <3>1. i \in wanted
      BY <2>3 DEF wanted
    <3>2. PICK k \in DOMAIN fresh : at[k] = i
      BY <1>2, <1>4, <3>1 DEF Selects
    <3>3. Len(read) + k \in DOMAIN all /\ all[Len(read) + k] = page[i]
      BY <1>4, <1>5, <1>7, <3>2
    <3> QED
      BY <3>3 DEF IdsOf
  <2> QED
    BY <2>1, <2>2, <2>3 DEF IdsOf
<1>9. ASSUME NEW i \in DOMAIN all, NEW j \in DOMAIN all, all[i].id = all[j].id
      PROVE  i = j
  <2>1. CASE i \in DOMAIN read /\ all[i] = read[i]
    <3>1. all[j].id \in IdsOf(read)
      BY <1>9, <2>1 DEF IdsOf
    <3>2. j \in DOMAIN read /\ all[j] = read[j]
      BY <1>5, <1>7, <3>1
    <3> QED
      BY <1>9, <2>1, <3>2
  <2>2. CASE i - Len(read) \in DOMAIN fresh /\ all[i] = fresh[i - Len(read)]
    <3>1. all[j].id \notin IdsOf(read)
      BY <1>5, <1>9, <2>2
    <3>2. j - Len(read) \in DOMAIN fresh /\ all[j] = fresh[j - Len(read)]
      <4>1. j \in DOMAIN read => read[j].id \in IdsOf(read)
        BY DEF IdsOf
      <4> QED
        BY <1>7, <3>1, <4>1
    <3>3. i - Len(read) = j - Len(read)
      BY <1>6, <1>9, <2>2, <3>2
    <3> QED
      BY <1>4, <1>7, <3>3
  <2> QED
    BY <1>7, <2>1, <2>2
<1> QED
  BY <1>3, <1>7, <1>8, <1>9 DEF all

\* The reader has taken in the page it asked for.
Takes(page) ==
  /\ reader'.items = reader.items \o Unread(reader.items, page)
  /\ reader'.pages = Append(reader.pages, page)
  /\ reader'.lastPage = LastPage
  /\ reader'.published = IF reader.page = 1 THEN published ELSE reader.published

\* The page that is asked for, and what holds of it whenever it is not refused.
LEMMA TakenItems ==
  ASSUME TypeOK, PortalInv, ReaderInv, Paging, Takes(Page(reader.page))
  PROVE  LET page == Page(reader.page)
         IN  /\ page \in Seq(Activities)
             /\ reader'.items \in Seq(Activities)
             /\ IdsOf(reader'.items) = IdsOf(reader.items) \cup IdsOf(page)
             /\ \A i, j \in DOMAIN reader'.items : reader'.items[i].id = reader'.items[j].id => i = j
             /\ reader'.pages \in Seq(Seq(Activities)) /\ reader'.pages # <<>>
             /\ Len(reader'.pages) = reader.page
             /\ reader'.pages[1] = IF reader.page = 1 THEN page ELSE reader.pages[1]
             /\ reader'.lastPage \in Nat
             /\ IdsOf(page) \subseteq Ids
<1> DEFINE page == Page(reader.page)
<1>1. reader # None /\ reader \in Readers /\ reader.page \in Nat /\ reader.page >= 1
  BY Numbers DEF Paging
<1>2. /\ page \in Seq(Activities)
      /\ \A j, l \in DOMAIN page : j < l => page[l].id < page[j].id
  BY <1>1, PageIds
<1> HIDE DEF page
<1>3. \A i \in DOMAIN page : page[i].id \in Ids /\ page[i].id \in Int /\ i \in Int
  <2>1. \A i \in DOMAIN page : page[i] \in Activities /\ i \in Int
    BY <1>2
  <2> QED
    BY <2>1, TimelineAssumption DEF Activities, Ids
<1>4. \A i, j \in DOMAIN page : page[i].id = page[j].id => i = j
  <2> SUFFICES ASSUME NEW i \in DOMAIN page, NEW j \in DOMAIN page, page[i].id = page[j].id, i # j
               PROVE  FALSE
    OBVIOUS
  <2>1. i < j \/ j < i
    BY <1>3
  <2> QED
    BY <1>2, <1>3, <2>1
<1>5. /\ reader.items \in Seq(Activities) /\ reader.pages \in Seq(Seq(Activities))
      /\ \A i, j \in DOMAIN reader.items : reader.items[i].id = reader.items[j].id => i = j
      /\ Len(reader.pages) = reader.page - 1
  BY <1>1 DEF Readers, ReaderInv, Paging
<1>6. /\ reader'.items \in Seq(Activities)
      /\ IdsOf(reader'.items) = IdsOf(reader.items) \cup IdsOf(page)
      /\ \A i, j \in DOMAIN reader'.items : reader'.items[i].id = reader'.items[j].id => i = j
  <2>1. reader'.items = reader.items \o Unread(reader.items, page)
    BY DEF Takes, page
  <2> QED
    <3> DEFINE read == reader.items
    <3>1. /\ read \in Seq(Activities) /\ page \in Seq(Activities)
          /\ \A i, j \in DOMAIN read : read[i].id = read[j].id => i = j
      BY <1>2, <1>5
    <3> HIDE DEF read
    <3>2. PICK all :
            /\ all = read \o Unread(read, page)
            /\ all \in Seq(Activities)
            /\ IdsOf(all) = IdsOf(read) \cup IdsOf(page)
            /\ \A i, j \in DOMAIN all : all[i].id = all[j].id => i = j
      BY <1>4, <3>1, UnreadFacts
    <3>3. reader'.items = all
      BY <2>1, <3>2 DEF read
    <3> QED
      BY <3>2, <3>3 DEF read
<1>7. /\ reader'.pages \in Seq(Seq(Activities)) /\ reader'.pages # <<>>
      /\ Len(reader'.pages) = reader.page
      /\ reader'.pages[1] = IF reader.page = 1 THEN page ELSE reader.pages[1]
  <2>1. reader'.pages = Append(reader.pages, page)
    BY DEF Takes, page
  <2> DEFINE pages == reader.pages
  <2>2. pages \in Seq(Seq(Activities)) /\ Len(pages) = reader.page - 1 /\ Len(pages) \in Nat
    BY <1>5
  <2> HIDE DEF pages
  <2>3. /\ Append(pages, page) \in Seq(Seq(Activities))
        /\ Len(Append(pages, page)) = Len(pages) + 1
        /\ Append(pages, page)[1] = IF Len(pages) = 0 THEN page ELSE pages[1]
    <3>1. /\ Append(pages, page) \in Seq(Seq(Activities))
          /\ Len(Append(pages, page)) = Len(pages) + 1
          /\ \A i \in 1 .. Len(pages) : Append(pages, page)[i] = pages[i]
          /\ Append(pages, page)[Len(pages) + 1] = page
      BY <1>2, <2>2, AppendProperties
    <3> DEFINE longer == Append(pages, page)
    <3> HIDE DEF longer
    <3>2. CASE Len(pages) = 0
      <4>1. longer[1] = page
        BY <3>1, <3>2 DEF longer
      <4> QED
        BY <3>1, <3>2, <4>1 DEF longer
    <3>3. CASE Len(pages) # 0
      <4> DEFINE n == Len(pages)
      <4>1. n \in Nat /\ n # 0
        BY <2>2, <3>3
      <4> HIDE DEF n
      <4>2. 1 \in 1 .. n
        BY <4>1
      <4>3. 1 \in 1 .. Len(pages)
        BY <4>2 DEF n
      <4>4. longer[1] = pages[1]
        BY <3>1, <4>3 DEF longer
      <4> QED
        BY <3>1, <3>3, <4>4 DEF longer
    <3> QED
      BY <3>2, <3>3
  <2>4. Append(pages, page) # <<>>
    BY <1>2, <2>2, AppendProperties
  <2> QED
    BY <1>1, <2>1, <2>2, <2>3, <2>4 DEF pages
<1>8. reader'.lastPage \in Nat
  <2>1. timeline \in Seq(Entries)
    BY DEF TypeOK
  <2> QED
    BY <2>1, LastPageFacts, PagesFacts DEF Takes
<1>9. IdsOf(page) \subseteq Ids
  BY <1>3 DEF IdsOf
<1> QED
  BY <1>2, <1>6, <1>7, <1>8, <1>9 DEF page

\* A later page was cut after less than a page of entries came, for the number
\* of pages is what it was.
LEMMA Undisplaced ==
  ASSUME TypeOK, PortalInv, ReaderInv, MissedInv, removed = {}, Paging, reader.page > 1,
         ~Refused(Page(reader.page))
  PROVE  /\ LastPage = PagesOf(reader.published)
         /\ published < reader.published + PageSize
         /\ (reader.page - 1) * PageSize >= PageSize
         /\ reader.published <= published
<1>1. /\ reader # None /\ reader.page \in Nat /\ reader.published \in Nat
      /\ PageSize \in Nat /\ PageSize > 0 /\ published \in Nat
  BY Numbers, TimelineAssumption DEF TypeOK, Paging
<1>2. LastPage = reader.lastPage
  BY <1>1 DEF Refused
<1>3. reader.pages # <<>> /\ reader.published <= published
  <2>1. Len(reader.pages) = reader.page - 1
    BY <1>1 DEF ReaderInv, Paging
  <2>2. Len(reader.pages) # 0
    BY <1>1, <2>1
  <2> QED
    BY <1>1, <2>2, EmptySeq DEF ReaderInv
<1>4. reader.lastPage = PagesOf(reader.published) /\ reader.page <= reader.lastPage
  BY <1>1, <1>3 DEF MissedInv, Begun, Paging
<1>5. LastPage = PagesOf(published)
  <2>1. timeline \in Seq(Entries) /\ Len(timeline) = published
    BY DEF TypeOK, PortalInv
  <2> QED
    BY <2>1, LastPageFacts
<1> DEFINE q == PagesOf(reader.published)
<1>6. q \in Nat /\ q > 1
  <2>1. q \in Nat
    BY <1>1, PagesFacts
  <2> QED
    BY <1>1, <1>4, <2>1
<1>7. published <= q * PageSize /\ (q - 1) * PageSize < reader.published
  <2>1. published <= PagesOf(published) * PageSize
    BY <1>1, PagesFacts
  <2>2. (q - 1) * PageSize < reader.published
    BY <1>1, <1>6, PagesFacts
  <2> QED
    BY <1>2, <1>4, <1>5, <2>1, <2>2
<1> HIDE DEF q
<1>8. (q - 1) * PageSize = q * PageSize - PageSize /\ q * PageSize \in Nat
  BY <1>1, <1>6
<1>9. published < reader.published + PageSize
  BY <1>1, <1>7, <1>8
<1>10. (reader.page - 1) * PageSize >= PageSize
  <2> DEFINE m == reader.page - 2
  <2>1. m \in Nat /\ reader.page - 1 = m + 1
    BY <1>1
  <2> HIDE DEF m
  <2>2. m * PageSize \in Nat /\ (m + 1) * PageSize = m * PageSize + PageSize
    BY <1>1, <2>1
  <2> QED
    BY <1>1, <2>1, <2>2
<1> QED
  BY <1>2, <1>3, <1>4, <1>9, <1>10

\* Whatever is read, the newest page and its ids are of what had been published
\* when it was read.
LEMMA TakenHead ==
  ASSUME TypeOK, PortalInv, KnownInv, ReaderInv, Paging, Takes(Page(reader.page))
  PROVE  /\ reader'.published \in 0 .. published
         /\ Known => covered.until <= reader'.published
         /\ IdsOf(reader'.pages[1]) \subseteq IdsOf(reader'.items)
         /\ \A id \in IdsOf(reader'.pages[1]) : id <= reader'.published
<1> DEFINE page == Page(reader.page)
<1>1. /\ reader # None /\ reader.page \in Nat /\ reader.page >= 1 /\ reader.published \in Nat
      /\ published \in Nat
  BY Numbers, TimelineAssumption DEF TypeOK, Paging
<1>2. /\ IdsOf(reader'.items) = IdsOf(reader.items) \cup IdsOf(page)
      /\ reader'.pages[1] = IF reader.page = 1 THEN page ELSE reader.pages[1]
  BY TakenItems
<1>3. reader'.published = IF reader.page = 1 THEN published ELSE reader.published
  BY DEF Takes
<1>4. reader.published <= published /\ (Known => covered.until <= reader.published)
  BY <1>1 DEF ReaderInv
<1>5. Known => covered.until <= published
  BY DEF KnownInv
<1>6. CASE reader.page = 1
  <2>1. \A id \in IdsOf(page) : id <= published
    <3>1. \A id \in IdsOf(page) : \E i \in DOMAIN timeline : timeline[i].id = id
      BY <1>1, PageIds
    <3> QED
      BY <3>1 DEF PortalInv
  <2> QED
    BY <1>1, <1>2, <1>3, <1>5, <1>6, <2>1
<1>7. CASE reader.page # 1
  <2>1. reader.pages # <<>>
    <3>1. Len(reader.pages) = reader.page - 1
      BY <1>1 DEF ReaderInv, Paging
    <3>2. Len(reader.pages) # 0
      BY <1>1, <1>7, <3>1
    <3> QED
      BY <3>2, EmptySeq
  <2>2. /\ IdsOf(reader.pages[1]) \subseteq IdsOf(reader.items)
        /\ \A id \in IdsOf(reader.pages[1]) : id <= reader.published
    BY <1>1, <2>1 DEF ReaderInv
  <2> QED
    BY <1>1, <1>2, <1>3, <1>4, <1>7, <2>2
<1> QED
  BY <1>6, <1>7

\* Without removals the pages that were read and this one leave no gap.
LEMMA TakenRange ==
  ASSUME TypeOK, PortalInv, ReaderInv, MissedInv, removed = {}, Paging,
         ~Refused(Page(reader.page)), Takes(Page(reader.page))
  PROVE  LET page == Page(reader.page)
         IN  /\ reader'.lastPage = PagesOf(reader'.published)
             /\ \A id \in IdsOf(reader'.items) : id <= reader'.published
             /\ \A i \in DOMAIN timeline :
                  /\ timeline[i].shown
                  /\ timeline[i].id <= reader'.published
                  /\ published - reader.page * PageSize < timeline[i].id
                  => /\ timeline[i].id \in IdsOf(reader'.items)
                     /\ timeline[i].id \in reader.newIds \/ timeline[i].id \in IdsOf(page)
<1> DEFINE page == Page(reader.page)
           from == (reader.page - 1) * PageSize
           to == reader.page * PageSize
<1>1. /\ reader # None /\ reader.page \in Nat /\ reader.page >= 1 /\ reader.published \in Nat
      /\ published \in Nat /\ PageSize \in Nat
      /\ from \in Nat /\ to = from + PageSize
  BY Numbers, TimelineAssumption DEF TypeOK, Paging
<1>2. /\ page \in Seq(Activities)
      /\ IdsOf(reader'.items) = IdsOf(reader.items) \cup IdsOf(page)
      /\ IdsOf(page) \subseteq Ids
  BY TakenItems
<1>3. reader'.lastPage = LastPage
      /\ reader'.published = IF reader.page = 1 THEN published ELSE reader.published
  BY DEF Takes
<1>4. /\ \A id \in IdsOf(page) : published - to < id /\ id <= published - from
      /\ \A i \in DOMAIN timeline :
           timeline[i].shown /\ published - to < timeline[i].id /\ timeline[i].id <= published - from
           => timeline[i].id \in IdsOf(page)
  BY <1>1, PageRange
<1>5. \A id \in Ids : id \in Nat
  BY TimelineAssumption DEF Ids
<1>6. \A i \in DOMAIN timeline : timeline[i].id \in Nat
  BY EntryTypes
<1> HIDE DEF page
<1>7. CASE reader.page = 1
  <2>1. reader.items = <<>> /\ from = 0
    <3>1. Len(reader.pages) = 0 /\ reader.pages \in Seq(Seq(Activities))
      BY <1>1, <1>7 DEF ReaderInv, Paging, TypeOK, Readers
    <3>2. reader.pages = <<>>
      BY <3>1, EmptySeq
    <3> QED
      BY <1>1, <1>7, <3>2 DEF ReaderInv
  <2> HIDE DEF from, to
  <2>2. LastPage = PagesOf(published)
    <3>1. timeline \in Seq(Entries) /\ Len(timeline) = published
      BY DEF TypeOK, PortalInv
    <3> QED
      BY <3>1, LastPageFacts
  <2>3. IdsOf(reader'.items) = IdsOf(page)
    <3>1. IdsOf(<<>>) = {}
      BY DEF IdsOf
    <3> QED
      BY <1>2, <2>1, <3>1
  <2>4. \A id \in IdsOf(page) : id <= published
    BY <1>1, <1>2, <1>4, <1>5, <2>1
  <2>5. \A i \in DOMAIN timeline :
          timeline[i].shown /\ timeline[i].id <= published /\ published - to < timeline[i].id
          => timeline[i].id \in IdsOf(page)
    BY <1>1, <1>4, <2>1
  <2> QED
    BY <1>3, <1>7, <2>2, <2>3, <2>4, <2>5 DEF page, to
<1>8. CASE reader.page # 1
  <2>1. /\ LastPage = PagesOf(reader.published)
        /\ published < reader.published + PageSize
        /\ from >= PageSize
        /\ reader.published <= published
    BY <1>1, <1>8, Undisplaced
  <2>2. reader'.published = reader.published
    BY <1>3, <1>8
  <2>3. /\ \A id \in IdsOf(reader.items) : id <= reader.published
        /\ \A i \in DOMAIN timeline :
             timeline[i].shown /\ timeline[i].id <= reader.published
             /\ published - from < timeline[i].id
             => timeline[i].id \in reader.newIds \cap IdsOf(reader.items)
    <3>1. reader.pages # <<>>
      <4>1. Len(reader.pages) = reader.page - 1
        BY <1>1 DEF ReaderInv, Paging
      <4>2. Len(reader.pages) # 0
        BY <1>1, <1>8, <4>1
      <4> QED
        BY <4>2, EmptySeq
    <3> QED
      BY <1>1, <3>1 DEF MissedInv, Begun
  <2> HIDE DEF from, to
  <2>4. \A id \in IdsOf(page) : id <= reader.published
    BY <1>1, <1>2, <1>4, <1>5, <2>1
  <2>5. ASSUME NEW i \in DOMAIN timeline, timeline[i].shown,
               timeline[i].id <= reader.published, published - to < timeline[i].id
        PROVE  timeline[i].id \in IdsOf(page)
               \/ timeline[i].id \in reader.newIds \cap IdsOf(reader.items)
    BY <1>1, <1>4, <1>6, <2>3, <2>5
  <2> QED
    BY <1>2, <1>3, <2>1, <2>2, <2>3, <2>4, <2>5 DEF page, to
<1> QED
  BY <1>7, <1>8

-----------------------------------------------------------------------------
(* The check's steps. *)


\* A record with a reader's fields is made up of them.
LEMMA RecordFields ==
  ASSUME NEW A, NEW B, NEW C, NEW D, NEW E, NEW F, NEW G,
         NEW r \in [phase : A, page : B, items : C, newIds : D,
                    pages : E, lastPage : F, published : G]
  PROVE  r = [phase |-> r.phase, page |-> r.page, items |-> r.items, newIds |-> r.newIds,
              pages |-> r.pages, lastPage |-> r.lastPage, published |-> r.published]
  OBVIOUS

\* The fields that Read gives other values.
LEMMA ReadRecord ==
  ASSUME NEW r,
         r = [phase |-> r.phase, page |-> r.page, items |-> r.items, newIds |-> r.newIds,
              pages |-> r.pages, lastPage |-> r.lastPage, published |-> r.published],
         NEW items, NEW pages, NEW lastPage, NEW since
  PROVE  [r EXCEPT !.items = items, !.pages = pages, !.lastPage = lastPage, !.published = since]
           = [phase |-> r.phase, page |-> r.page, items |-> items, newIds |-> r.newIds,
              pages |-> pages, lastPage |-> lastPage, published |-> since]
<1> DEFINE q == [r EXCEPT !.items = items, !.pages = pages,
                          !.lastPage = lastPage, !.published = since]
<1>1. q \in [phase : {r.phase}, page : {r.page}, items : {items, r.items}, newIds : {r.newIds},
             pages : {pages, r.pages}, lastPage : {lastPage, r.lastPage}, published : {since, r.published}]
  OBVIOUS
<1>2. /\ q.phase = r.phase /\ q.page = r.page /\ q.items = items /\ q.newIds = r.newIds
      /\ q.pages = pages /\ q.lastPage = lastPage /\ q.published = since
  OBVIOUS
<1> HIDE DEF q
<1>3. q = [phase |-> q.phase, page |-> q.page, items |-> q.items, newIds |-> q.newIds,
           pages |-> q.pages, lastPage |-> q.lastPage, published |-> q.published]
  BY <1>1, RecordFields
<1> QED
  BY <1>2, <1>3 DEF q

\* The fields that ReadOn gives other values besides.
LEMMA ReadOnRecord ==
  ASSUME NEW r,
         r = [phase |-> r.phase, page |-> r.page, items |-> r.items, newIds |-> r.newIds,
              pages |-> r.pages, lastPage |-> r.lastPage, published |-> r.published],
         NEW page, NEW newIds
  PROVE  [r EXCEPT !.page = page, !.newIds = newIds]
           = [phase |-> r.phase, page |-> page, items |-> r.items, newIds |-> newIds,
              pages |-> r.pages, lastPage |-> r.lastPage, published |-> r.published]
<1> DEFINE q == [r EXCEPT !.page = page, !.newIds = newIds]
<1>1. q \in [phase : {r.phase}, page : {page, r.page}, items : {r.items}, newIds : {newIds, r.newIds},
             pages : {r.pages}, lastPage : {r.lastPage}, published : {r.published}]
  OBVIOUS
<1>2. /\ q.phase = r.phase /\ q.page = page /\ q.items = r.items /\ q.newIds = newIds
      /\ q.pages = r.pages /\ q.lastPage = r.lastPage /\ q.published = r.published
  OBVIOUS
<1> HIDE DEF q
<1>3. q = [phase |-> q.phase, page |-> q.page, items |-> q.items, newIds |-> q.newIds,
           pages |-> q.pages, lastPage |-> q.lastPage, published |-> q.published]
  BY <1>1, RecordFields
<1> QED
  BY <1>2, <1>3 DEF q

\* And those that ReachEnd does.
LEMMA ReachEndRecord ==
  ASSUME NEW r,
         r = [phase |-> r.phase, page |-> r.page, items |-> r.items, newIds |-> r.newIds,
              pages |-> r.pages, lastPage |-> r.lastPage, published |-> r.published],
         NEW phase, NEW newIds
  PROVE  [r EXCEPT !.phase = phase, !.newIds = newIds]
           = [phase |-> phase, page |-> r.page, items |-> r.items, newIds |-> newIds,
              pages |-> r.pages, lastPage |-> r.lastPage, published |-> r.published]
<1> DEFINE q == [r EXCEPT !.phase = phase, !.newIds = newIds]
<1>1. q \in [phase : {phase, r.phase}, page : {r.page}, items : {r.items}, newIds : {newIds, r.newIds},
             pages : {r.pages}, lastPage : {r.lastPage}, published : {r.published}]
  OBVIOUS
<1>2. /\ q.phase = phase /\ q.page = r.page /\ q.items = r.items /\ q.newIds = newIds
      /\ q.pages = r.pages /\ q.lastPage = r.lastPage /\ q.published = r.published
  OBVIOUS
<1> HIDE DEF q
<1>3. q = [phase |-> q.phase, page |-> q.page, items |-> q.items, newIds |-> q.newIds,
           pages |-> q.pages, lastPage |-> q.lastPage, published |-> q.published]
  BY <1>1, RecordFields
<1> QED
  BY <1>2, <1>3 DEF q

\* The fields of the reader after it has taken in a page.
LEMMA ReadFields ==
  ASSUME TypeOK, Paging, NEW page
  PROVE  Read(page) =
           [phase     |-> "paging",
            page      |-> reader.page,
            items     |-> reader.items \o Unread(reader.items, page),
            newIds    |-> reader.newIds,
            pages     |-> Append(reader.pages, page),
            lastPage  |-> LastPage,
            published |-> IF reader.page = 1 THEN published ELSE reader.published]
<1> DEFINE items == reader.items \o Unread(reader.items, page)
           pages == Append(reader.pages, page)
           since == IF reader.page = 1 THEN published ELSE reader.published
<1>1. reader \in Readers /\ reader.phase = "paging"
  BY Numbers DEF Paging
<1>2. Read(page) = [reader EXCEPT !.items = items, !.pages = pages,
                                  !.lastPage = LastPage, !.published = since]
  BY <1>1 DEF Read, Readers
<1>3. reader = [phase |-> reader.phase, page |-> reader.page, items |-> reader.items,
                newIds |-> reader.newIds, pages |-> reader.pages,
                lastPage |-> reader.lastPage, published |-> reader.published]
  BY <1>1, RecordFields DEF Readers
<1> HIDE DEF items, pages, since
<1>4. Read(page) = [phase |-> reader.phase, page |-> reader.page, items |-> items,
                    newIds |-> reader.newIds, pages |-> pages,
                    lastPage |-> LastPage, published |-> since]
  BY <1>2, <1>3, ReadRecord
<1> QED
  BY <1>1, <1>4 DEF items, pages, since

\* A page that continues is taken in and its items are new.
ReadsOn ==
  /\ Paging /\ ~Refused(Page(reader.page)) /\ ~Establishes(Page(reader.page))
  /\ Continues(Page(reader.page))
  /\ Takes(Page(reader.page))
  /\ reader' # None /\ Paging' /\ ~Revalidating'
  /\ reader'.page = reader.page + 1
  /\ reader'.newIds = reader.newIds \cup IdsOf(Page(reader.page))
  /\ UNCHANGED <<portalVars, historyVars>>

LEMMA ReadOnFields ==
  ASSUME TypeOK, PortalInv, KnownInv, ReaderInv, ReadOn
  PROVE  ReadsOn /\ TypeOK'
<1> DEFINE page == Page(reader.page)
           items == reader.items \o Unread(reader.items, page)
           pages == Append(reader.pages, page)
           since == IF reader.page = 1 THEN published ELSE reader.published
           newIds == reader.newIds \cup IdsOf(page)
<1>1. /\ Paging /\ ~Refused(page) /\ ~Establishes(page) /\ Continues(page)
      /\ reader' = [Read(page) EXCEPT !.page = @ + 1, !.newIds = @ \cup IdsOf(page)]
      /\ UNCHANGED <<portalVars, historyVars>>
  BY DEF ReadOn
<1>2. Read(page) =
        [phase |-> "paging", page |-> reader.page, items |-> items, newIds |-> reader.newIds,
         pages |-> pages, lastPage |-> LastPage, published |-> since]
  BY <1>1, ReadFields
<1>3. reader' = [Read(page) EXCEPT !.page = reader.page + 1, !.newIds = newIds]
  <2> HIDE DEF page, items, pages, since
  <2>1. Read(page).page = reader.page /\ Read(page).newIds = reader.newIds
    BY <1>2
  <2> QED
    BY <1>1, <2>1
<1> HIDE DEF page, items, pages, since, newIds
<1>4. reader' =
        [phase |-> "paging", page |-> reader.page + 1, items |-> items, newIds |-> newIds,
         pages |-> pages, lastPage |-> LastPage, published |-> since]
  <2> DEFINE r == Read(page)
  <2>1. r = [phase |-> "paging", page |-> reader.page, items |-> items, newIds |-> reader.newIds,
             pages |-> pages, lastPage |-> LastPage, published |-> since]
    BY <1>2
  <2> HIDE DEF r
  <2>2. /\ r.phase = "paging" /\ r.page = reader.page /\ r.items = items
        /\ r.newIds = reader.newIds /\ r.pages = pages
        /\ r.lastPage = LastPage /\ r.published = since
    BY <2>1
  <2>3. r = [phase |-> r.phase, page |-> r.page, items |-> r.items, newIds |-> r.newIds,
             pages |-> r.pages, lastPage |-> r.lastPage, published |-> r.published]
    BY <2>1, <2>2
  <2>4. [r EXCEPT !.page = reader.page + 1, !.newIds = newIds]
          = [phase |-> r.phase, page |-> reader.page + 1, items |-> r.items, newIds |-> newIds,
             pages |-> r.pages, lastPage |-> r.lastPage, published |-> r.published]
    BY <2>3, ReadOnRecord
  <2> QED
    BY <1>3, <2>2, <2>4 DEF r
<1>5. Takes(page)
  BY <1>4 DEF Takes, items, pages, since
<1>6. /\ reader'.items \in Seq(Activities) /\ reader'.pages \in Seq(Seq(Activities))
      /\ reader'.lastPage \in Nat /\ IdsOf(page) \subseteq Ids
  BY <1>1, <1>5, TakenItems DEF page
<1>7. reader'.published \in 0 .. MaxPublished
  <2>1. reader'.published \in 0 .. published /\ published \in 0 .. MaxPublished
    BY <1>1, <1>5, TakenHead DEF page, TypeOK
  <2> QED
    BY <2>1, TimelineAssumption
<1>8. reader'.page \in 1 .. PageLimit
  <2>1. reader.page \in Nat /\ reader.page < PageLimit /\ PageLimit \in Nat
    BY <1>1, Numbers, TimelineAssumption DEF Continues, Paging
  <2> QED
    BY <1>4, <2>1
<1>9. newIds \in SUBSET Ids
  BY <1>1, <1>6, Numbers DEF newIds, Paging, Readers
<1>10. reader' \in Readers
  BY <1>4, <1>6, <1>7, <1>8, <1>9 DEF Readers
<1>11. TypeOK'
  BY <1>1, <1>10 DEF TypeOK, portalVars, historyVars
<1>12. reader' # None /\ Paging' /\ ~Revalidating'
  <2>1. reader'.phase = "paging" /\ reader' # None
    BY <1>4, <1>10, NoneAssumption
  <2> QED
    BY <2>1 DEF Paging, Revalidating
<1>13. reader'.page = reader.page + 1 /\ reader'.newIds = newIds
  BY <1>4
<1> QED
  BY <1>1, <1>5, <1>11, <1>12, <1>13 DEF page, newIds, ReadsOn

\* The page at which the read ends is taken in, and its items up to the
\* boundary are new.
ReachesEnd ==
  /\ Paging /\ ~Refused(Page(reader.page)) /\ ~Establishes(Page(reader.page))
  /\ Reaches(Page(reader.page))
  /\ Takes(Page(reader.page))
  /\ reader' # None /\ ~Paging' /\ Revalidating'
  /\ reader'.newIds = reader.newIds \cup NewPrefix(Page(reader.page), Boundary)
  /\ UNCHANGED <<portalVars, historyVars>>

LEMMA ReachEndFields ==
  ASSUME TypeOK, PortalInv, KnownInv, ReaderInv, ReachEnd
  PROVE  ReachesEnd /\ TypeOK'
<1> DEFINE page == Page(reader.page)
           items == reader.items \o Unread(reader.items, page)
           pages == Append(reader.pages, page)
           since == IF reader.page = 1 THEN published ELSE reader.published
           newIds == reader.newIds \cup NewPrefix(page, Boundary)
<1>1. /\ Paging /\ ~Refused(page) /\ ~Establishes(page) /\ Reaches(page)
      /\ reader' = [Read(page) EXCEPT !.phase = "revalidating",
                                      !.newIds = @ \cup NewPrefix(page, Boundary)]
      /\ UNCHANGED <<portalVars, historyVars>>
  BY DEF ReachEnd
<1>2. Read(page) =
        [phase |-> "paging", page |-> reader.page, items |-> items, newIds |-> reader.newIds,
         pages |-> pages, lastPage |-> LastPage, published |-> since]
  BY <1>1, ReadFields
<1>3. reader' = [Read(page) EXCEPT !.phase = "revalidating", !.newIds = newIds]
  <2> HIDE DEF page, items, pages, since
  <2>1. Read(page).newIds = reader.newIds
    BY <1>2
  <2> QED
    BY <1>1, <2>1
<1> HIDE DEF page, items, pages, since, newIds
<1>4. reader' =
        [phase |-> "revalidating", page |-> reader.page, items |-> items, newIds |-> newIds,
         pages |-> pages, lastPage |-> LastPage, published |-> since]
  <2> DEFINE r == Read(page)
  <2>1. r = [phase |-> "paging", page |-> reader.page, items |-> items, newIds |-> reader.newIds,
             pages |-> pages, lastPage |-> LastPage, published |-> since]
    BY <1>2
  <2> HIDE DEF r
  <2>2. /\ r.phase = "paging" /\ r.page = reader.page /\ r.items = items
        /\ r.newIds = reader.newIds /\ r.pages = pages
        /\ r.lastPage = LastPage /\ r.published = since
    BY <2>1
  <2>3. r = [phase |-> r.phase, page |-> r.page, items |-> r.items, newIds |-> r.newIds,
             pages |-> r.pages, lastPage |-> r.lastPage, published |-> r.published]
    BY <2>1, <2>2
  <2>4. [r EXCEPT !.phase = "revalidating", !.newIds = newIds]
          = [phase |-> "revalidating", page |-> r.page, items |-> r.items, newIds |-> newIds,
             pages |-> r.pages, lastPage |-> r.lastPage, published |-> r.published]
    BY <2>3, ReachEndRecord
  <2> QED
    BY <1>3, <2>2, <2>4 DEF r
<1>5. Takes(page)
  BY <1>4 DEF Takes, items, pages, since
<1>6. /\ reader'.items \in Seq(Activities) /\ reader'.pages \in Seq(Seq(Activities))
      /\ reader'.lastPage \in Nat /\ IdsOf(page) \subseteq Ids
  BY <1>1, <1>5, TakenItems DEF page
<1>7. reader'.published \in 0 .. MaxPublished
  <2>1. reader'.published \in 0 .. published /\ published \in 0 .. MaxPublished
    BY <1>1, <1>5, TakenHead DEF page, TypeOK
  <2> QED
    BY <2>1, TimelineAssumption
<1>8. reader.page \in 1 .. PageLimit
  BY <1>1, Numbers DEF Paging, Readers
<1>9. newIds \in SUBSET Ids
  <2>1. NewPrefix(page, Boundary) \subseteq IdsOf(page)
    BY DEF NewPrefix, IdsOf
  <2> QED
    BY <1>1, <1>6, <2>1, Numbers DEF newIds, Paging, Readers
<1>10. reader' \in Readers
  BY <1>4, <1>6, <1>7, <1>8, <1>9 DEF Readers
<1>11. TypeOK'
  BY <1>1, <1>10 DEF TypeOK, portalVars, historyVars
<1>12. reader' # None /\ ~Paging' /\ Revalidating'
  <2>1. reader'.phase = "revalidating" /\ reader' # None
    BY <1>4, <1>10, NoneAssumption
  <2> QED
    BY <2>1 DEF Paging, Revalidating
<1>13. reader'.newIds = newIds
  BY <1>4
<1> QED
  BY <1>1, <1>5, <1>11, <1>12, <1>13 DEF page, newIds, ReachesEnd

\* What a step leaves alone that only changes the reader.
LEMMA FilesKept ==
  ASSUME UNCHANGED <<portalVars, historyVars>>
  PROVE  /\ timeline' = timeline /\ published' = published /\ removed' = removed
         /\ baseline' = baseline /\ seen' = seen /\ events' = events
         /\ first' = first /\ covered' = covered
         /\ Known' = Known /\ Boundary' = Boundary /\ LastPage' = LastPage
         /\ PortalInv' = PortalInv /\ KnownInv' = KnownInv /\ AddedInv' = AddedInv
         /\ AllShown' = AllShown /\ NothingMissed' = NothingMissed
         /\ NoHistoryAnnounced' = NoHistoryAnnounced
         /\ \A id : Historic(id)' = Historic(id)
<1>1. /\ timeline' = timeline /\ published' = published /\ removed' = removed
      /\ baseline' = baseline /\ seen' = seen /\ events' = events
      /\ first' = first /\ covered' = covered
  BY DEF portalVars, historyVars
<1>2. Known' = Known /\ Boundary' = Boundary
  BY <1>1 DEF Known, Boundary
<1>3. \A id : Added(id)' = Added(id)
  BY <1>1 DEF Added
<1>4. PortalInv' = PortalInv
  BY <1>1 DEF PortalInv
<1>5. KnownInv' = KnownInv
  BY <1>1, <1>2 DEF KnownInv
<1>6. AddedInv' = AddedInv
  BY <1>1 DEF AddedInv
<1>7. AllShown' = AllShown /\ LastPage' = LastPage
  BY <1>1 DEF AllShown, LastPage
<1>8. NothingMissed' = NothingMissed
  BY <1>1, <1>2, <1>3 DEF NothingMissed
<1>9. NoHistoryAnnounced' = NoHistoryAnnounced
  BY <1>1, <1>3 DEF NoHistoryAnnounced
<1>10. \A id : Historic(id)' = Historic(id)
  BY <1>1 DEF Historic
<1> QED
  BY <1>1, <1>2, <1>4, <1>5, <1>6, <1>7, <1>8, <1>9, <1>10

\* A read that ends without a commit leaves nothing behind.
LEMMA ReadAbandoned ==
  ASSUME Inv, reader' = None, UNCHANGED <<portalVars, historyVars>>
  PROVE  Inv'
<1>1. /\ timeline' = timeline /\ published' = published /\ removed' = removed
      /\ baseline' = baseline /\ seen' = seen /\ events' = events
      /\ first' = first /\ covered' = covered
      /\ Known' = Known /\ Boundary' = Boundary
      /\ PortalInv' = PortalInv /\ KnownInv' = KnownInv /\ AddedInv' = AddedInv
      /\ AllShown' = AllShown /\ NothingMissed' = NothingMissed
      /\ NoHistoryAnnounced' = NoHistoryAnnounced
      /\ \A id : Historic(id)' = Historic(id)
  BY FilesKept
<1>2. ~Begun' /\ ~Paging' /\ ~Revalidating'
  BY DEF Begun, Paging, Revalidating
<1>3. TypeOK'
  BY <1>1 DEF Inv, TypeOK
<1>4. ReaderInv'
  BY DEF ReaderInv
<1>5. MissedInv'
  <2> SUFFICES ASSUME removed' = {}
               PROVE  MissedInv'
    BY DEF MissedInv
  <2>1. NothingMissed /\ (Known => \A id \in seen : id <= covered.until)
    BY <1>1 DEF Inv, MissedInv
  <2> QED
    BY <1>1, <1>2, <2>1 DEF MissedInv
<1>6. SlideInv'
  <2> SUFFICES ASSUME removed' = {}, AllShown'
               PROVE  SlideInv'
    BY DEF SlideInv
  <2>1. /\ \A i \in DOMAIN events : events[i].kind # "activity_reappeared"
        /\ Known => \A id \in Ids :
             covered.until - PageSize < id /\ id <= covered.until => id \in Boundary
    BY <1>1 DEF Inv, SlideInv
  <2> QED
    BY <1>1, <1>2, <2>1 DEF SlideInv
<1>7. HistoryInv'
  <2> SUFFICES ASSUME AllShown', Known'
               PROVE  HistoryInv'
    BY DEF HistoryInv
  <2>1. /\ NoHistoryAnnounced
        /\ \A i \in DOMAIN timeline :
             Historic(timeline[i].id) =>
               Boundary # {} /\ \A id \in Boundary : timeline[i].id < id
    BY <1>1 DEF Inv, HistoryInv
  <2>2. \A i \in DOMAIN timeline' : Historic(timeline[i].id)' = Historic(timeline[i].id)
    BY <1>1 DEF Historic
  <2> QED
    BY <1>1, <2>1, <2>2 DEF HistoryInv
<1> QED
  BY <1>1, <1>3, <1>4, <1>5, <1>6, <1>7 DEF Inv

\* A read that begins has taken in nothing.
LEMMA BeginReadInductive ==
  ASSUME Inv, BeginRead
  PROVE  Inv'
<1>1. /\ timeline' = timeline /\ published' = published /\ removed' = removed
      /\ baseline' = baseline /\ seen' = seen /\ events' = events
      /\ first' = first /\ covered' = covered
      /\ Known' = Known /\ Boundary' = Boundary
      /\ PortalInv' = PortalInv /\ KnownInv' = KnownInv /\ AddedInv' = AddedInv
      /\ AllShown' = AllShown /\ NothingMissed' = NothingMissed
      /\ NoHistoryAnnounced' = NoHistoryAnnounced
      /\ \A id : Historic(id)' = Historic(id)
  BY FilesKept DEF BeginRead
<1>2. reader' = [phase |-> "paging", page |-> 1, items |-> <<>>, newIds |-> {},
                 pages |-> <<>>, lastPage |-> 0, published |-> published]
  BY DEF BeginRead
<1>3. /\ reader'.phase = "paging" /\ reader'.page = 1 /\ reader'.items = <<>>
      /\ reader'.newIds = {} /\ reader'.pages = <<>> /\ reader'.published = published
  BY <1>2
<1>4. reader' \in Readers
  <2>1. 1 \in 1 .. PageLimit /\ published \in 0 .. MaxPublished
    BY TimelineAssumption DEF Inv, TypeOK
  <2>2. <<>> \in Seq(Activities) /\ <<>> \in Seq(Seq(Activities)) /\ {} \in SUBSET Ids
    OBVIOUS
  <2> QED
    BY <1>2, <2>1, <2>2 DEF Readers
<1>5. TypeOK'
  BY <1>1, <1>4 DEF Inv, TypeOK
<1>6. reader' # None /\ Paging' /\ ~Revalidating' /\ ~Begun'
  BY <1>3, <1>4, NoneAssumption DEF Paging, Revalidating, Begun
<1>7. published \in Nat /\ PageSize \in Nat /\ (1 - 1) * PageSize = 0
  <2>1. published \in Nat /\ PageSize \in Nat
    BY TimelineAssumption DEF Inv, TypeOK
  <2>2. 1 - 1 = 0 /\ 0 * PageSize = 0
    BY <2>1
  <2> QED
    BY <2>1, <2>2
<1>8. ReaderInv'
  <2>1. Known => covered.until <= published
    BY DEF Inv, KnownInv
  <2>2. Len(reader'.pages) = reader'.page - 1
    BY <1>3
  <2>3. reader'.published <= published'
    BY <1>1, <1>3, <1>7
  <2> QED
    BY <1>1, <1>3, <2>1, <2>2, <2>3 DEF ReaderInv
<1>9. MissedInv'
  <2> SUFFICES ASSUME removed' = {}
               PROVE  MissedInv'
    BY DEF MissedInv
  <2>1. NothingMissed /\ (Known => \A id \in seen : id <= covered.until)
    BY <1>1 DEF Inv, MissedInv
  <2>2. ASSUME NEW i \in DOMAIN timeline', timeline'[i].id <= reader'.published,
               published' - (reader'.page - 1) * PageSize < timeline'[i].id
        PROVE  FALSE
    <3>1. timeline'[i].id \in Nat
      BY <1>5, EntryTypes, <1>1 DEF Inv
    <3> QED
      BY <1>1, <1>3, <1>7, <2>2, <3>1
  <2> QED
    BY <1>1, <1>6, <2>1, <2>2 DEF MissedInv
<1>10. SlideInv'
  <2> SUFFICES ASSUME removed' = {}, AllShown'
               PROVE  SlideInv'
    BY DEF SlideInv
  <2>1. /\ \A i \in DOMAIN events : events[i].kind # "activity_reappeared"
        /\ Known => \A id \in Ids :
             covered.until - PageSize < id /\ id <= covered.until => id \in Boundary
    BY <1>1 DEF Inv, SlideInv
  <2>2. Known => covered.until <= published - (1 - 1) * PageSize
    BY <1>7 DEF Inv, KnownInv
  <2>3. IdsOf(reader'.items) = {}
    BY <1>3 DEF IdsOf
  <2> QED
    BY <1>1, <1>3, <1>6, <2>1, <2>2, <2>3 DEF SlideInv
<1>11. HistoryInv'
  <2> SUFFICES ASSUME AllShown', Known'
               PROVE  HistoryInv'
    BY DEF HistoryInv
  <2>1. /\ NoHistoryAnnounced
        /\ \A i \in DOMAIN timeline :
             Historic(timeline[i].id) =>
               Boundary # {} /\ \A id \in Boundary : timeline[i].id < id
    BY <1>1 DEF Inv, HistoryInv
  <2>2. \A i \in DOMAIN timeline' : Historic(timeline[i].id)' = Historic(timeline[i].id)
    BY <1>1 DEF Historic
  <2> QED
    BY <1>1, <1>3, <2>1, <2>2 DEF HistoryInv
<1> QED
  BY <1>1, <1>5, <1>8, <1>9, <1>10, <1>11 DEF Inv

-----------------------------------------------------------------------------
(* A page that continues. *)

\* How a page that is taken in leaves the reader, whether it continues or not.
LEMMA TakenReader ==
  ASSUME TypeOK, PortalInv, KnownInv, ReaderInv, Paging, Takes(Page(reader.page)),
         UNCHANGED <<portalVars, historyVars>>,
         reader' # None,
         Paging' => reader'.page = reader.page + 1
  PROVE  ReaderInv'
<1>1. /\ published' = published /\ covered' = covered /\ Known' = Known
  BY FilesKept
<1>2. /\ \A i, j \in DOMAIN reader'.items : reader'.items[i].id = reader'.items[j].id => i = j
      /\ reader'.pages # <<>>
      /\ Len(reader'.pages) = reader.page
  BY TakenItems
<1>3. /\ reader'.published \in 0 .. published
      /\ Known => covered.until <= reader'.published
      /\ IdsOf(reader'.pages[1]) \subseteq IdsOf(reader'.items)
      /\ \A id \in IdsOf(reader'.pages[1]) : id <= reader'.published
  BY TakenHead
<1>4. reader'.published <= published /\ reader.page \in Nat
  BY <1>3, EntryTypes, Numbers, SMTT(60) DEF Paging
<1>5. reader'.phase = "paging" => Len(reader'.pages) = reader'.page - 1
  BY <1>2, <1>4 DEF Paging
<1> QED
  BY <1>1, <1>2, <1>3, <1>4, <1>5 DEF ReaderInv

LEMMA ReadOnMissed ==
  ASSUME TypeOK, PortalInv, ReaderInv, MissedInv, ReadsOn
  PROVE  MissedInv'
<1> SUFFICES ASSUME removed' = {}
             PROVE  MissedInv'
  BY DEF MissedInv
<1>1. /\ Paging /\ ~Refused(Page(reader.page)) /\ Takes(Page(reader.page)) /\ ~Final
      /\ reader' # None /\ Paging'
      /\ reader'.page = reader.page + 1
      /\ reader'.newIds = reader.newIds \cup IdsOf(Page(reader.page))
      /\ UNCHANGED <<portalVars, historyVars>>
  BY DEF ReadsOn, Continues
<1>2. /\ timeline' = timeline /\ published' = published /\ removed = {} /\ removed' = removed
      /\ seen' = seen /\ covered' = covered
      /\ Known' = Known /\ NothingMissed' = NothingMissed
  BY <1>1, FilesKept
<1>3. NothingMissed /\ (Known => \A id \in seen : id <= covered.until)
  BY <1>2 DEF MissedInv
<1>4. /\ reader'.lastPage = PagesOf(reader'.published)
      /\ \A id \in IdsOf(reader'.items) : id <= reader'.published
      /\ \A i \in DOMAIN timeline :
           /\ timeline[i].shown
           /\ timeline[i].id <= reader'.published
           /\ published - reader.page * PageSize < timeline[i].id
           => /\ timeline[i].id \in IdsOf(reader'.items)
              /\ timeline[i].id \in reader.newIds \/ timeline[i].id \in IdsOf(Page(reader.page))
  BY <1>1, <1>2, TakenRange
<1>5. reader'.page <= reader'.lastPage /\ reader'.page - 1 = reader.page
  <2>1. reader'.lastPage = LastPage
    BY <1>1 DEF Takes
  <2>2. reader.page \in Nat /\ LastPage \in Nat
    <3>1. timeline \in Seq(Entries)
      BY DEF TypeOK
    <3> QED
      BY <1>1, <3>1, Numbers, LastPageFacts, PagesFacts DEF Paging
  <2> QED
    BY <1>1, <2>1, <2>2 DEF Final
<1>6. ASSUME NEW i \in DOMAIN timeline, timeline[i].shown,
             timeline[i].id <= reader'.published,
             published - (reader'.page - 1) * PageSize < timeline[i].id
      PROVE  timeline[i].id \in reader'.newIds \cap IdsOf(reader'.items)
  BY <1>1, <1>4, <1>5, <1>6
<1> QED
  BY <1>1, <1>2, <1>3, <1>4, <1>5, <1>6 DEF MissedInv

\* The newest page is full of the newest items, when nothing is removed or
\* hidden.
LEMMA NewestPage ==
  ASSUME TypeOK, PortalInv, removed = {}, AllShown
  PROVE  \A id \in Ids :
           published - PageSize < id /\ id <= published => id \in IdsOf(Page(1))
<1>1. PageSize \in Nat /\ published \in Nat /\ Len(timeline) = published
      /\ DOMAIN timeline = 1 .. published
      /\ \A i \in DOMAIN timeline : timeline[i].id = published + 1 - i /\ timeline[i].shown
  BY EntryTypes DEF PortalInv, AllShown
<1>2. /\ 1 * PageSize = PageSize /\ (1 - 1) * PageSize = 0
  <2>1. 1 - 1 = 0
    OBVIOUS
  <2> QED
    BY <1>1, <2>1
<1>3. \A i \in DOMAIN timeline :
        /\ timeline[i].shown
        /\ published - 1 * PageSize < timeline[i].id
        /\ timeline[i].id <= published - (1 - 1) * PageSize
        => timeline[i].id \in IdsOf(Page(1))
  BY PageRange
<1>4. ASSUME NEW id \in Ids, published - PageSize < id, id <= published
      PROVE  id \in IdsOf(Page(1))
  <2>1. id \in Nat /\ id >= 1
    BY TimelineAssumption DEF Ids
  <2>2. PICK i \in DOMAIN timeline : i = published + 1 - id
    BY <1>1, <1>4, <2>1
  <2>3. timeline[i].id = id /\ timeline[i].shown
    BY <1>1, <2>1, <2>2
  <2> QED
    BY <1>1, <1>2, <1>3, <1>4, <2>3
<1> QED
  BY <1>4

LEMMA TakenNewest ==
  ASSUME TypeOK, PortalInv, ReaderInv, SlideInv, removed = {}, AllShown,
         Paging, Takes(Page(reader.page))
  PROVE  \A id \in Ids : reader'.published - PageSize < id /\ id <= reader'.published
                         => id \in IdsOf(reader'.pages[1])
<1>1. reader'.pages[1] = IF reader.page = 1 THEN Page(reader.page) ELSE reader.pages[1]
  BY TakenItems
<1>2. reader'.published = IF reader.page = 1 THEN published ELSE reader.published
  BY DEF Takes
<1>3. CASE reader.page = 1
  BY <1>1, <1>2, <1>3, NewestPage
<1>4. CASE reader.page # 1
  <2>1. reader # None /\ reader.page \in Nat /\ Len(reader.pages) = reader.page - 1
    BY Numbers DEF Paging, ReaderInv
  <2>2. reader.pages # <<>>
    <3>1. Len(reader.pages) # 0
      BY <1>4, <2>1
    <3> QED
      BY <3>1, EmptySeq
  <2> QED
    BY <1>1, <1>2, <1>4, <2>1, <2>2 DEF SlideInv, Begun
<1> QED
  BY <1>3, <1>4

LEMMA ReadOnSlide ==
  ASSUME TypeOK, PortalInv, KnownInv, ReaderInv, SlideInv, ReadsOn
  PROVE  SlideInv'
<1> SUFFICES ASSUME removed' = {}, AllShown'
             PROVE  SlideInv'
  BY DEF SlideInv
<1> DEFINE page == Page(reader.page)
           to == reader.page * PageSize
<1>1. /\ Paging /\ ~Refused(page) /\ Takes(page) /\ ~Overlaps(page) /\ ~Final
      /\ reader' # None /\ Paging' /\ ~Revalidating'
      /\ reader'.page = reader.page + 1
      /\ UNCHANGED <<portalVars, historyVars>>
  BY DEF ReadsOn, Continues
<1>2. /\ timeline' = timeline /\ published' = published /\ removed = {} /\ AllShown
      /\ events' = events /\ covered' = covered
      /\ Known' = Known /\ Boundary' = Boundary
  BY <1>1, FilesKept
<1>3. /\ reader # None /\ reader.page \in Nat /\ reader.page >= 1
      /\ PageSize \in Nat \ {0} /\ published \in Nat /\ MaxPublished \in Nat
      /\ published <= MaxPublished
      /\ to \in Nat /\ (reader.page - 1) * PageSize = to - PageSize
      /\ (reader'.page - 1) * PageSize = to
  <2>1. /\ reader # None /\ reader.page \in Nat /\ reader.page >= 1
        /\ to = (reader.page - 1) * PageSize + PageSize /\ (reader.page - 1) * PageSize \in Nat
    BY <1>1, Numbers DEF Paging
  <2>2. PageSize \in Nat \ {0} /\ published \in Nat /\ MaxPublished \in Nat
        /\ published <= MaxPublished
    BY EntryTypes DEF TypeOK
  <2>3. reader'.page - 1 = reader.page
    BY <1>1, <2>1
  <2> QED
    BY <2>1, <2>2, <2>3
<1>4. /\ \A id \in IdsOf(page) : published - to < id
      /\ \A i \in DOMAIN timeline :
           /\ timeline[i].shown
           /\ published - to < timeline[i].id
           /\ timeline[i].id <= published - (reader.page - 1) * PageSize
           => timeline[i].id \in IdsOf(page)
  BY <1>2, <1>3, PageRange
<1>5. \A id \in Ids : reader'.published - PageSize < id /\ id <= reader'.published
                      => id \in IdsOf(reader'.pages[1])
  BY <1>1, <1>2, TakenNewest
<1>6. IdsOf(reader'.items) = IdsOf(reader.items) \cup IdsOf(page) /\ IdsOf(page) \subseteq Ids
  BY <1>1, TakenItems
<1>7. to < published
  <2>1. LastPage = PagesOf(published) /\ LastPage \in Nat
    <3>1. timeline \in Seq(Entries) /\ Len(timeline) = published
      BY <1>2 DEF TypeOK, PortalInv
    <3> QED
      BY <1>3, <3>1, LastPageFacts, PagesFacts
  <2>2. reader.page < LastPage
    BY <1>1, <1>3, <2>1 DEF Final
  <2>3. LastPage > 1 /\ (LastPage - 1) * PageSize < published
    BY <1>3, <2>1, <2>2, PagesFacts
  <2> DEFINE m == LastPage - 1 - reader.page
  <2>4. m \in Nat /\ LastPage - 1 = reader.page + m
    BY <1>3, <2>1, <2>2
  <2> HIDE DEF m
  <2>5. (LastPage - 1) * PageSize = to + m * PageSize /\ m * PageSize \in Nat
    BY <1>3, <2>4
  <2> QED
    BY <1>3, <2>3, <2>5
<1> HIDE DEF page, to
<1>8. ASSUME Known
      PROVE  /\ covered.until <= published - to
             /\ \A id \in IdsOf(reader'.items) : covered.until < id
  <2>1. /\ covered.until \in Nat /\ covered.until <= published
        /\ covered.until <= published - (reader.page - 1) * PageSize
        /\ \A id \in IdsOf(reader.items) : covered.until < id
        /\ \A id \in Ids :
             covered.until - PageSize < id /\ id <= covered.until => id \in Boundary
    BY <1>1, <1>2, <1>8, Numbers DEF KnownInv, SlideInv
  <2>2. covered.until <= published - to
    <3> SUFFICES ASSUME published - to < covered.until
                 PROVE  FALSE
      BY <1>3, <2>1
    <3>1. covered.until \in Ids
      BY <1>3, <1>7, <2>1 DEF Ids
    <3>2. covered.until \in Boundary
      BY <1>3, <2>1, <3>1
    <3>3. Len(timeline) = published /\ DOMAIN timeline = 1 .. Len(timeline)
          /\ \A i \in DOMAIN timeline : timeline[i].id = published + 1 - i /\ timeline[i].shown
      BY <1>2, EntryTypes DEF PortalInv, AllShown
    <3>4. PICK i \in DOMAIN timeline : i = published + 1 - covered.until
      BY <1>3, <1>7, <2>1, <3>3
    <3>5. timeline[i].id = covered.until /\ timeline[i].shown
      BY <1>3, <2>1, <3>3, <3>4
    <3>6. covered.until \in IdsOf(page)
      BY <1>4, <2>1, <3>5
    <3> QED
      BY <1>1, <3>2, <3>6 DEF Overlaps
  <2>3. \A id \in IdsOf(page) : covered.until < id
    <3>1. \A id \in Ids : id \in Nat
      BY <1>3 DEF Ids
    <3> QED
      BY <1>3, <1>4, <1>6, <2>1, <2>2, <3>1
  <2> QED
    BY <1>6, <2>1, <2>2, <2>3
<1>9. /\ \A i \in DOMAIN events' : events'[i].kind # "activity_reappeared"
      /\ Known' => \A id \in Ids :
           covered'.until - PageSize < id /\ id <= covered'.until => id \in Boundary'
  BY <1>2 DEF SlideInv
<1> QED
  BY <1>1, <1>2, <1>3, <1>5, <1>8, <1>9 DEF SlideInv

\* Some number of the first entries is newer than what p had been published.
LEMMA NewerSplit ==
  ASSUME TypeOK, PortalInv, NEW p \in Nat
  PROVE  \E n \in 0 .. Len(timeline) :
           \A i \in DOMAIN timeline : (i <= n) <=> (p < timeline[i].id)
<1> DEFINE U == {i \in DOMAIN timeline : p < timeline[i].id}
<1>1. /\ Len(timeline) \in Nat /\ DOMAIN timeline = 1 .. Len(timeline)
      /\ \A i \in DOMAIN timeline : timeline[i].id \in Nat
      /\ \A i, j \in DOMAIN timeline : i < j => timeline[j].id < timeline[i].id
  BY EntryTypes DEF PortalInv
<1>2. CASE U = {}
  <2>1. \A i \in DOMAIN timeline : (i <= 0) <=> (p < timeline[i].id)
    BY <1>1, <1>2
  <2> QED
    BY <1>1, <2>1
<1>3. CASE U # {}
  <2>1. U \in SUBSET Nat /\ \A i \in U : i <= Len(timeline)
    BY <1>1
  <2> HIDE DEF U
  <2>2. PICK n \in U : \A i \in U : i <= n
    BY <1>1, <1>3, <2>1, GreatestElement
  <2>3. n \in DOMAIN timeline /\ p < timeline[n].id
    BY <2>2 DEF U
  <2>4. ASSUME NEW i \in DOMAIN timeline
        PROVE  (i <= n) <=> (p < timeline[i].id)
    <3>1. i <= n => p < timeline[i].id
      <4>1. CASE i = n
        BY <2>3, <4>1
      <4>2. CASE i < n
        BY <1>1, <2>3, <4>2
      <4> QED
        BY <1>1, <2>3, <4>1, <4>2
    <3>2. p < timeline[i].id => i <= n
      BY <2>2 DEF U
    <3> QED
      BY <3>1, <3>2
  <2> QED
    BY <1>1, <2>3, <2>4
<1> QED
  BY <1>2, <1>3

LEMMA ReadOnHistory ==
  ASSUME TypeOK, PortalInv, KnownInv, ReaderInv, HistoryInv, ReadsOn
  PROVE  HistoryInv'
<1> SUFFICES ASSUME AllShown', Known'
             PROVE  HistoryInv'
  BY DEF HistoryInv
<1> DEFINE page == Page(reader.page)
           from == (reader.page - 1) * PageSize
           to == reader.page * PageSize
<1>1. /\ Paging /\ Takes(page) /\ ~Overlaps(page)
      /\ reader' # None /\ Paging' /\ ~Revalidating'
      /\ reader'.page = reader.page + 1
      /\ reader'.newIds = reader.newIds \cup IdsOf(page)
      /\ UNCHANGED <<portalVars, historyVars>>
  BY DEF ReadsOn, Continues
<1>2. /\ timeline' = timeline /\ AllShown /\ Known /\ seen' = seen /\ covered' = covered
      /\ Known' = Known /\ Boundary' = Boundary
      /\ NoHistoryAnnounced' = NoHistoryAnnounced
      /\ \A id : Historic(id)' = Historic(id)
  BY <1>1, FilesKept
<1>3. /\ reader # None /\ reader.page \in Nat /\ reader.page >= 1
      /\ from \in Nat /\ to = from + PageSize
      /\ (reader.page - 2) * PageSize = from - PageSize
      /\ (reader'.page - 2) * PageSize = from
      /\ PageSize \in Nat
  <2>1. /\ reader # None /\ reader.page \in Nat /\ reader.page >= 1
        /\ from \in Nat /\ to = from + PageSize
        /\ (reader.page - 2) * PageSize = from - PageSize
    BY <1>1, Numbers DEF Paging
  <2>2. reader'.page - 2 = reader.page - 1
    BY <1>1, <2>1
  <2> QED
    BY <2>1, <2>2, EntryTypes
<1>4. /\ \A id \in IdsOf(page) : \E i \in DOMAIN timeline :
           timeline[i].id = id /\ from < i /\ i <= to
      /\ \A i \in DOMAIN timeline :
           timeline[i].shown /\ from < i /\ i <= to => timeline[i].id \in IdsOf(page)
  <2>1. reader.page \in Nat \ {0}
    BY <1>3
  <2>2. /\ \A id \in IdsOf(page) : \E i \in DOMAIN timeline :
              /\ timeline[i].id = id /\ timeline[i].shown
              /\ from < i /\ i <= to
        /\ \A i \in DOMAIN timeline :
              /\ timeline[i].shown
              /\ from < i /\ i <= to
              => timeline[i].id \in IdsOf(page)
    BY <2>1, PageIds
  <2> QED
    BY <2>2
<1>5. reader'.published \in Nat
        /\ reader'.published = IF reader.page = 1 THEN published ELSE reader.published
  BY <1>1, <1>3, Numbers, EntryTypes DEF Takes
<1>6. /\ Len(timeline) \in Nat /\ DOMAIN timeline = 1 .. Len(timeline)
      /\ \A i \in DOMAIN timeline : timeline[i].id \in Nat /\ timeline[i].shown
      /\ \A i, j \in DOMAIN timeline : i < j => timeline[j].id < timeline[i].id
  BY <1>2, EntryTypes DEF PortalInv, AllShown
<1> HIDE DEF page, from, to
<1>7. ASSUME NEW x \in reader'.newIds, Historic(x)
      PROVE  /\ Boundary # {}
             /\ \E n \in 0 .. Len(timeline) :
                  /\ \A i \in DOMAIN timeline : (i <= n) <=> (reader'.published < timeline[i].id)
                  /\ \A i \in DOMAIN timeline : timeline[i].id \in Boundary => i - 1 - n < from
  <2>1. CASE x \in reader.newIds
    <3>1. reader.page # 1
      <4>1. reader.newIds # {}
        BY <2>1
      <4>2. reader.page >= 2
        BY <1>1, <1>3, <4>1, NewNeedsPage
      <4> QED
        BY <1>3, <4>2
    <3>2. /\ Boundary # {}
          /\ \E n \in 0 .. Len(timeline) :
               /\ Newer(n)
               /\ \A i \in DOMAIN timeline :
                    timeline[i].id \in Boundary => i - 1 - n < (reader.page - 2) * PageSize
      BY <1>1, <1>2, <1>3, <1>7, <2>1 DEF HistoryInv
    <3>3. PICK n \in 0 .. Len(timeline) :
               /\ Newer(n)
               /\ \A i \in DOMAIN timeline :
                    timeline[i].id \in Boundary => i - 1 - n < from - PageSize
      BY <1>3, <3>2
    <3>4. \A i \in DOMAIN timeline : timeline[i].id \in Boundary => i - 1 - n < from
      BY <1>3, <1>6, <3>3
    <3>5. \A i \in DOMAIN timeline : (i <= n) <=> (reader'.published < timeline[i].id)
      BY <1>5, <3>1, <3>3 DEF Newer
    <3> QED
      BY <3>2, <3>4, <3>5
  <2>2. CASE x \in IdsOf(page)
    <3>1. PICK i \in DOMAIN timeline :
            timeline[i].id = x /\ from < i /\ i <= to
      BY <1>4, <2>2
    <3>2. Boundary # {} /\ \A id \in Boundary : x < id
      BY <1>2, <1>7, <3>1 DEF HistoryInv
    <3>3. ASSUME NEW j \in DOMAIN timeline, timeline[j].id \in Boundary
          PROVE  j <= from
      <4>1. x < timeline[j].id
        BY <3>2, <3>3
      <4>2. j < i
        <5> SUFFICES ASSUME i <= j PROVE FALSE
          BY <1>6
        <5>1. CASE i = j
          BY <1>6, <3>1, <4>1, <5>1
        <5>2. CASE i < j
          BY <1>6, <3>1, <4>1, <5>2
        <5> QED
          BY <1>6, <5>1, <5>2
      <4>3. timeline[j].id \notin IdsOf(page)
        BY <1>1, <3>3 DEF Overlaps
      <4>4. timeline[j].shown /\ j <= to
        BY <1>3, <1>6, <3>1, <4>2
      <4> QED
        BY <1>3, <1>4, <1>6, <4>3, <4>4
    <3>4. PICK n \in 0 .. Len(timeline) :
            \A j \in DOMAIN timeline : (j <= n) <=> (reader'.published < timeline[j].id)
      BY <1>5, NewerSplit
    <3>5. \A j \in DOMAIN timeline : timeline[j].id \in Boundary => j - 1 - n < from
      BY <1>3, <1>6, <3>3
    <3> QED
      BY <3>2, <3>4, <3>5
  <2> QED
    BY <1>1, <1>7, <2>1, <2>2
<1>8. \A n : Newer(n)' <=> \A i \in DOMAIN timeline :
                             (i <= n) <=> (reader'.published < timeline[i].id)
  BY <1>2 DEF Newer
<1>9. (\E x \in reader.newIds : Historic(x))' <=> \E x \in reader'.newIds : Historic(x)
  BY <1>2 DEF Historic
<1>10. /\ NoHistoryAnnounced
       /\ \A i \in DOMAIN timeline :
            Historic(timeline[i].id) =>
              Boundary # {} /\ \A id \in Boundary : timeline[i].id < id
  BY <1>2 DEF HistoryInv
<1>11. \A i \in DOMAIN timeline' : Historic(timeline[i].id)' = Historic(timeline[i].id)
  BY <1>2 DEF Historic
<1>12. (\E x \in reader'.newIds : Historic(x)) =>
         /\ Boundary' # {}
         /\ \E n \in 0 .. Len(timeline') :
              /\ Newer(n)'
              /\ \A i \in DOMAIN timeline' :
                   timeline'[i].id \in Boundary' => i - 1 - n < (reader'.page - 2) * PageSize
  BY <1>2, <1>3, <1>7, <1>8
<1> QED
  BY <1>1, <1>2, <1>9, <1>10, <1>11, <1>12 DEF HistoryInv

LEMMA ReadOnInductive ==
  ASSUME Inv, ReadOn
  PROVE  Inv'
<1>1. TypeOK /\ PortalInv /\ KnownInv /\ ReaderInv /\ MissedInv /\ SlideInv /\ HistoryInv
  BY DEF Inv
<1>2. ReadsOn /\ TypeOK'
  BY <1>1, ReadOnFields
<1>3. PortalInv' /\ KnownInv' /\ AddedInv'
  BY <1>2, FilesKept DEF Inv, ReadsOn
<1>4. ReaderInv'
  BY <1>1, <1>2, TakenReader DEF ReadsOn
<1>5. MissedInv' /\ SlideInv' /\ HistoryInv'
  BY <1>1, <1>2, ReadOnMissed, ReadOnSlide, ReadOnHistory
<1> QED
  BY <1>2, <1>3, <1>4, <1>5 DEF Inv

-----------------------------------------------------------------------------
(* The page at which a read ends. *)

\* What comes before the boundary on a page is what is newer than all of it on
\* that page.
LEMMA PrefixFacts ==
  ASSUME TypeOK, PortalInv, NEW k \in Nat \ {0}, NEW boundary \in SUBSET Ids
  PROVE  /\ NewPrefix(Page(k), boundary) \subseteq IdsOf(Page(k))
         /\ \A y \in IdsOf(Page(k)) :
              (\A b \in boundary : b < y) => y \in NewPrefix(Page(k), boundary)
         /\ \A x \in NewPrefix(Page(k), boundary), b \in IdsOf(Page(k)) \cap boundary : b < x
<1> DEFINE page == Page(k)
<1>1. /\ page \in Seq(Activities)
      /\ \A j, l \in DOMAIN page : j < l => page[l].id < page[j].id
  BY PageIds
<1> HIDE DEF page
<1>2. DOMAIN page = 1 .. Len(page) /\ Len(page) \in Nat
  BY <1>1
<1>3. \A id \in Ids : id \in Nat
  BY TimelineAssumption DEF Ids
<1>4. \A j \in DOMAIN page : page[j].id \in Ids /\ page[j].id \in Nat
  <2>1. \A j \in DOMAIN page : page[j] \in Activities
    BY <1>1
  <2>2. \A activity \in Activities : activity.id \in Ids
    BY DEF Activities
  <2> QED
    BY <1>3, <2>1, <2>2
<1>5. NewPrefix(page, boundary) \subseteq IdsOf(page)
  BY DEF NewPrefix, IdsOf
<1>6. ASSUME NEW y \in IdsOf(page), \A b \in boundary : b < y
      PROVE  y \in NewPrefix(page, boundary)
  <2>1. PICK j \in DOMAIN page : page[j].id = y
    BY DEF IdsOf
  <2>2. ASSUME NEW l \in 1 .. j
        PROVE  page[l].id \notin boundary
    <3>1. l \in DOMAIN page
      BY <1>2
    <3>2. y <= page[l].id
      <4>1. CASE l = j
        BY <1>4, <2>1, <4>1
      <4>2. CASE l < j
        BY <1>1, <1>4, <2>1, <3>1, <4>2
      <4> QED
        BY <1>2, <4>1, <4>2
    <3> QED
      BY <1>3, <1>4, <1>6, <2>1, <3>1, <3>2
  <2> QED
    BY <2>1, <2>2 DEF NewPrefix
<1>7. ASSUME NEW x \in NewPrefix(page, boundary), NEW b \in IdsOf(page), b \in boundary
      PROVE  b < x
  <2>1. PICK j \in DOMAIN page : page[j].id = x /\ \A l \in 1 .. j : page[l].id \notin boundary
    BY DEF NewPrefix
  <2>2. PICK l \in DOMAIN page : page[l].id = b
    BY DEF IdsOf
  <2>3. j < l
    <3>1. l \notin 1 .. j
      BY <1>7, <2>1, <2>2
    <3> QED
      BY <1>2, <3>1
  <2> QED
    BY <1>1, <2>1, <2>2, <2>3
<1> QED
  BY <1>5, <1>6, <1>7 DEF page

LEMMA ReachEndMissed ==
  ASSUME TypeOK, PortalInv, KnownInv, ReaderInv, MissedInv, ReachesEnd
  PROVE  MissedInv'
<1> SUFFICES ASSUME removed' = {}
             PROVE  MissedInv'
  BY DEF MissedInv
<1> DEFINE page == Page(reader.page)
           to == reader.page * PageSize
<1>1. /\ Paging /\ ~Refused(page) /\ Takes(page) /\ Reaches(page)
      /\ reader' # None /\ ~Paging' /\ Revalidating'
      /\ reader'.newIds = reader.newIds \cup NewPrefix(page, Boundary)
      /\ UNCHANGED <<portalVars, historyVars>>
  BY DEF ReachesEnd
<1>2. /\ timeline' = timeline /\ published' = published /\ removed = {}
      /\ seen' = seen /\ covered' = covered
      /\ Known' = Known /\ NothingMissed' = NothingMissed
  BY <1>1, FilesKept
<1>3. NothingMissed /\ (Known => \A id \in seen : id <= covered.until)
  BY <1>2 DEF MissedInv
<1>4. /\ reader'.lastPage = PagesOf(reader'.published)
      /\ \A id \in IdsOf(reader'.items) : id <= reader'.published
      /\ \A i \in DOMAIN timeline :
           /\ timeline[i].shown
           /\ timeline[i].id <= reader'.published
           /\ published - to < timeline[i].id
           => /\ timeline[i].id \in IdsOf(reader'.items)
              /\ timeline[i].id \in reader.newIds \/ timeline[i].id \in IdsOf(page)
  BY <1>1, <1>2, TakenRange
<1>5. /\ reader.page \in Nat \ {0} /\ PageSize \in Nat /\ published \in Nat /\ to \in Nat
      /\ \A id \in Ids : id \in Nat /\ id >= 1
      /\ \A i \in DOMAIN timeline : timeline[i].id \in Ids
  <2>1. reader.page \in Nat \ {0} /\ PageSize \in Nat /\ published \in Nat
    BY <1>1, Numbers, EntryTypes DEF Paging
  <2>2. to \in Nat
    BY <2>1
  <2>3. \A id \in Ids : id \in Nat /\ id >= 1
    BY TimelineAssumption DEF Ids
  <2> QED
    BY <2>1, <2>2, <2>3, EntryTypes
<1>6. \A id \in IdsOf(page) : published - to < id
  BY <1>2, <1>5, PageRange
<1>7. Boundary \in SUBSET Ids /\ (Known => \A b \in Boundary : b \in seen)
  <2>1. Known => Boundary \subseteq seen
    BY DEF KnownInv
  <2> QED
    BY <2>1 DEF TypeOK, Boundary
<1>8. \A y \in IdsOf(page) : (\A b \in Boundary : b < y) => y \in NewPrefix(page, Boundary)
  BY <1>5, <1>7, PrefixFacts
<1> HIDE DEF page, to
<1>9. ASSUME NEW i \in DOMAIN timeline, timeline[i].shown,
             timeline[i].id <= reader'.published,
             Known, covered.until < timeline[i].id
      PROVE  timeline[i].id \in reader'.newIds \cap IdsOf(reader'.items)
  <2>1. covered.until \in Nat
    BY <1>9, Numbers DEF KnownInv
  <2>2. \A b \in Boundary : b <= covered.until /\ b < timeline[i].id
    BY <1>3, <1>5, <1>7, <1>9, <2>1
  <2>3. published - to < timeline[i].id
    <3>1. CASE Overlaps(page)
      <4>1. PICK b \in IdsOf(page) : b \in Boundary
        BY <3>1 DEF Overlaps
      <4>2. published - to < b /\ b < timeline[i].id /\ b \in Nat
        BY <1>5, <1>6, <1>7, <2>2, <4>1
      <4> QED
        BY <1>5, <4>2
    <3>2. CASE Final
      <4>1. LastPage = PagesOf(published) /\ LastPage \in Nat /\ published <= LastPage * PageSize
        <5>1. timeline \in Seq(Entries) /\ Len(timeline) = published
          BY <1>2 DEF TypeOK, PortalInv
        <5> QED
          BY <1>5, <5>1, LastPageFacts, PagesFacts
      <4> DEFINE m == reader.page - LastPage
      <4>2. m \in Nat /\ reader.page = LastPage + m
        BY <1>5, <3>2, <4>1 DEF Final
      <4> HIDE DEF m
      <4>3. to = LastPage * PageSize + m * PageSize /\ m * PageSize \in Nat
            /\ LastPage * PageSize \in Nat
        BY <1>5, <4>1, <4>2 DEF to
      <4> QED
        BY <1>5, <4>1, <4>3
    <3> QED
      BY <1>1, <3>1, <3>2 DEF Reaches
  <2>4. timeline[i].id \in IdsOf(page) => timeline[i].id \in NewPrefix(page, Boundary)
    BY <1>8, <2>2
  <2> QED
    BY <1>1, <1>4, <1>9, <2>3, <2>4
<1>10. reader'.phase # "paging"
  BY <1>1 DEF Paging
<1> QED
  BY <1>1, <1>2, <1>3, <1>4, <1>9, <1>10 DEF MissedInv

LEMMA ReachEndSlide ==
  ASSUME TypeOK, PortalInv, KnownInv, ReaderInv, SlideInv, ReachesEnd
  PROVE  SlideInv'
<1> SUFFICES ASSUME removed' = {}, AllShown'
             PROVE  SlideInv'
  BY DEF SlideInv
<1> DEFINE page == Page(reader.page)
           to == reader.page * PageSize
<1>1. /\ Paging /\ Takes(page)
      /\ reader' # None /\ ~Paging' /\ Revalidating'
      /\ UNCHANGED <<portalVars, historyVars>>
  BY DEF ReachesEnd
<1>2. /\ timeline' = timeline /\ removed = {} /\ AllShown
      /\ events' = events /\ covered' = covered
      /\ Known' = Known /\ Boundary' = Boundary
  BY <1>1, FilesKept
<1>3. /\ reader # None /\ reader.page \in Nat \ {0}
      /\ PageSize \in Nat /\ published \in Nat
      /\ to \in Nat /\ (reader.page - 1) * PageSize = to - PageSize
  <2>1. /\ reader # None /\ reader.page \in Nat /\ reader.page >= 1
        /\ (reader.page - 1) * PageSize \in Nat
        /\ to = (reader.page - 1) * PageSize + PageSize
    BY <1>1, Numbers DEF Paging
  <2>2. PageSize \in Nat /\ published \in Nat
    BY EntryTypes
  <2> HIDE DEF to
  <2> QED
    BY <2>1, <2>2
<1>4. \A id \in IdsOf(page) : published - to < id
  BY <1>2, <1>3, PageRange
<1>5. \A id \in Ids : reader'.published - PageSize < id /\ id <= reader'.published
                      => id \in IdsOf(reader'.pages[1])
  BY <1>1, <1>2, TakenNewest
<1>6. /\ IdsOf(reader'.items) = IdsOf(reader.items) \cup IdsOf(page)
      /\ \A id \in IdsOf(reader'.items) : id \in Nat
  <2>1. /\ IdsOf(reader'.items) = IdsOf(reader.items) \cup IdsOf(page)
        /\ reader'.items \in Seq(Activities)
    BY <1>1, TakenItems
  <2>2. \A activity \in Activities : activity.id \in Nat
    BY TimelineAssumption DEF Activities, Ids
  <2>3. \A i \in DOMAIN reader'.items : reader'.items[i] \in Activities
    BY <2>1
  <2> QED
    BY <2>1, <2>2, <2>3 DEF IdsOf
<1> HIDE DEF page, to
<1>7. ASSUME Known, NEW id \in IdsOf(reader'.items)
      PROVE  covered.until - PageSize < id
  <2>1. covered.until \in Nat
    BY <1>7, Numbers DEF KnownInv
  <2>2. /\ covered.until <= published - (reader.page - 1) * PageSize
        /\ \A known \in IdsOf(reader.items) : covered.until < known
    BY <1>1, <1>2, <1>7 DEF SlideInv
  <2> QED
    BY <1>3, <1>4, <1>6, <1>7, <2>1, <2>2
<1>8. /\ \A i \in DOMAIN events' : events'[i].kind # "activity_reappeared"
      /\ Known' => \A id \in Ids :
           covered'.until - PageSize < id /\ id <= covered'.until => id \in Boundary'
  BY <1>2 DEF SlideInv
<1> QED
  BY <1>1, <1>2, <1>5, <1>7, <1>8 DEF SlideInv

LEMMA ReachEndHistory ==
  ASSUME TypeOK, PortalInv, KnownInv, ReaderInv, HistoryInv, ReachesEnd
  PROVE  HistoryInv'
<1> SUFFICES ASSUME AllShown', Known'
             PROVE  HistoryInv'
  BY DEF HistoryInv
<1> DEFINE page == Page(reader.page)
           from == (reader.page - 1) * PageSize
           to == reader.page * PageSize
<1>1. /\ Paging /\ Takes(page) /\ Reaches(page)
      /\ reader' # None /\ ~Paging' /\ Revalidating'
      /\ reader'.newIds = reader.newIds \cup NewPrefix(page, Boundary)
      /\ UNCHANGED <<portalVars, historyVars>>
  BY DEF ReachesEnd
<1>2. /\ timeline' = timeline /\ AllShown /\ Known /\ seen' = seen /\ covered' = covered
      /\ Known' = Known /\ Boundary' = Boundary
      /\ NoHistoryAnnounced' = NoHistoryAnnounced
      /\ \A id : Historic(id)' = Historic(id)
  BY <1>1, FilesKept
<1>3. /\ reader # None /\ reader.page \in Nat \ {0}
      /\ from \in Nat /\ (reader.page - 2) * PageSize = from - PageSize
      /\ PageSize \in Nat
  BY <1>1, Numbers, EntryTypes DEF Paging
<1>4. /\ \A id \in IdsOf(page) : \E i \in DOMAIN timeline :
           timeline[i].id = id /\ from < i /\ i <= to
  <2>1. \A id \in IdsOf(page) : \E i \in DOMAIN timeline :
              /\ timeline[i].id = id /\ timeline[i].shown
              /\ from < i /\ i <= to
    BY <1>3, PageIds
  <2> QED
    BY <2>1
<1>5. reader'.lastPage = LastPage /\ LastPage \in Nat
      /\ Len(timeline) <= LastPage * PageSize
      /\ (LastPage - 1) * PageSize = LastPage * PageSize - PageSize
      /\ LastPage * PageSize \in Nat
  <2>1. timeline \in Seq(Entries)
    BY DEF TypeOK
  <2>2. reader'.lastPage = LastPage
    BY <1>1 DEF Takes
  <2>3. LastPage \in Nat /\ Len(timeline) <= LastPage * PageSize
    BY <2>1, LastPageFacts, PagesFacts
  <2>4. (LastPage - 1) * PageSize = LastPage * PageSize - PageSize
        /\ LastPage * PageSize \in Nat
    BY <1>3, <2>3
  <2> QED
    BY <2>2, <2>3, <2>4
<1>6. /\ Len(timeline) \in Nat /\ DOMAIN timeline = 1 .. Len(timeline)
      /\ \A i \in DOMAIN timeline : timeline[i].id \in Nat
  BY EntryTypes
<1>7. Boundary \in SUBSET Ids /\ \A id \in Ids : id \in Nat
  BY TimelineAssumption DEF TypeOK, Known, Boundary, Baselines, Ids
<1>8. /\ NewPrefix(page, Boundary) \subseteq IdsOf(page)
      /\ \A x \in NewPrefix(page, Boundary), b \in IdsOf(page) \cap Boundary : b < x
  BY <1>3, <1>7, PrefixFacts
<1> HIDE DEF page, from, to
<1>9. ASSUME NEW x \in reader'.newIds, Historic(x)
      PROVE  /\ Boundary # {}
             /\ \E n \in 0 .. Len(timeline) :
                  /\ \A i \in DOMAIN timeline : (i <= n) <=> (reader'.published < timeline[i].id)
                  /\ Len(timeline) - n < (reader'.lastPage - 1) * PageSize
  <2>1. Boundary # {} => \E b \in IdsOf(page) : b \in Boundary
    BY <1>1, <1>2 DEF Reaches, Overlaps
  <2>2. CASE x \in reader.newIds
    <3>1. reader.page # 1
      <4>1. reader.newIds # {}
        BY <2>2
      <4>2. reader.page >= 2
        BY <1>1, <1>3, <4>1, NewNeedsPage
      <4> QED
        BY <1>3, <4>2
    <3>2. reader'.published = reader.published
      BY <1>1, <3>1 DEF Takes
    <3>3. /\ Boundary # {}
          /\ \E n \in 0 .. Len(timeline) :
               /\ Newer(n)
               /\ \A i \in DOMAIN timeline :
                    timeline[i].id \in Boundary => i - 1 - n < (reader.page - 2) * PageSize
      BY <1>1, <1>2, <1>3, <1>9, <2>2 DEF HistoryInv
    <3>4. PICK n \in 0 .. Len(timeline) :
               /\ Newer(n)
               /\ \A i \in DOMAIN timeline :
                    timeline[i].id \in Boundary => i - 1 - n < from - PageSize
      BY <1>3, <3>3
    <3>5. PICK b \in IdsOf(page) : b \in Boundary
      BY <2>1, <3>3
    <3>6. PICK i \in DOMAIN timeline : timeline[i].id = b /\ from < i
      BY <1>4, <3>5
    <3>7. i - 1 - n < from - PageSize
      BY <3>4, <3>5, <3>6
    <3>8. n \in Nat /\ i \in Nat /\ PageSize < n
      BY <1>3, <1>6, <3>6, <3>7
    <3>9. Len(timeline) - n < (reader'.lastPage - 1) * PageSize
      BY <1>3, <1>5, <1>6, <3>8
    <3>10. \A j \in DOMAIN timeline : (j <= n) <=> (reader'.published < timeline[j].id)
      BY <3>2, <3>4 DEF Newer
    <3> QED
      BY <3>3, <3>9, <3>10
  <2>3. CASE x \in NewPrefix(page, Boundary)
    <3>1. PICK i \in DOMAIN timeline : timeline[i].id = x
      BY <1>4, <1>8, <2>3
    <3>2. Boundary # {} /\ \A id \in Boundary : x < id
      BY <1>2, <1>9, <3>1 DEF HistoryInv
    <3>3. PICK b \in IdsOf(page) : b \in Boundary
      BY <2>1, <3>2
    <3>4. b < x /\ x < b /\ b \in Nat /\ x \in Nat
      BY <1>6, <1>7, <1>8, <2>3, <3>1, <3>2, <3>3
    <3> QED
      BY <3>4
  <2> QED
    BY <1>1, <1>9, <2>2, <2>3
<1>10. \A n : Newer(n)' <=> \A i \in DOMAIN timeline :
                              (i <= n) <=> (reader'.published < timeline[i].id)
  BY <1>2 DEF Newer
<1>11. (\E x \in reader.newIds : Historic(x))' <=> \E x \in reader'.newIds : Historic(x)
  BY <1>2 DEF Historic
<1>12. /\ NoHistoryAnnounced
       /\ \A i \in DOMAIN timeline :
            Historic(timeline[i].id) =>
              Boundary # {} /\ \A id \in Boundary : timeline[i].id < id
  BY <1>2 DEF HistoryInv
<1>13. \A i \in DOMAIN timeline' : Historic(timeline[i].id)' = Historic(timeline[i].id)
  BY <1>2 DEF Historic
<1>14. (\E x \in reader'.newIds : Historic(x)) =>
         /\ Boundary' # {}
         /\ \E n \in 0 .. Len(timeline') :
              Newer(n)' /\ Len(timeline') - n < (reader'.lastPage - 1) * PageSize
  BY <1>2, <1>9, <1>10
<1> QED
  BY <1>1, <1>2, <1>11, <1>12, <1>13, <1>14 DEF HistoryInv

LEMMA ReachEndInductive ==
  ASSUME Inv, ReachEnd
  PROVE  Inv'
<1>1. TypeOK /\ PortalInv /\ KnownInv /\ ReaderInv /\ MissedInv /\ SlideInv /\ HistoryInv
  BY DEF Inv
<1>2. ReachesEnd /\ TypeOK'
  BY <1>1, ReachEndFields
<1>3. PortalInv' /\ KnownInv' /\ AddedInv'
  BY <1>2, FilesKept DEF Inv, ReachesEnd
<1>4. ReaderInv'
  BY <1>1, <1>2, TakenReader DEF ReachesEnd
<1>5. MissedInv' /\ SlideInv' /\ HistoryInv'
  BY <1>1, <1>2, ReachEndMissed, ReachEndSlide, ReachEndHistory
<1> QED
  BY <1>2, <1>3, <1>4, <1>5 DEF Inv

-----------------------------------------------------------------------------
(* Commits. *)

\* What is not on the newest page is older than all that is.
LEMMA HeadFirst ==
  ASSUME TypeOK, PortalInv, AllShown, NEW i \in DOMAIN timeline,
         timeline[i].id \notin IdsOf(Page(1))
  PROVE  IdsOf(Page(1)) # {} /\ \A id \in IdsOf(Page(1)) : timeline[i].id < id
<1>1. /\ PageSize \in Nat \ {0} /\ Len(timeline) \in Nat
      /\ DOMAIN timeline = 1 .. Len(timeline)
      /\ \A j \in DOMAIN timeline : timeline[j].id \in Nat /\ timeline[j].shown
      /\ \A j, l \in DOMAIN timeline : j < l => timeline[l].id < timeline[j].id
  BY EntryTypes DEF PortalInv, AllShown
<1>2. (1 - 1) * PageSize = 0 /\ 1 * PageSize = PageSize
  <2>1. 1 - 1 = 0
    OBVIOUS
  <2> QED
    BY <1>1, <2>1
<1>3. /\ \A id \in IdsOf(Page(1)) : \E j \in DOMAIN timeline :
           /\ timeline[j].id = id /\ timeline[j].shown
           /\ (1 - 1) * PageSize < j /\ j <= 1 * PageSize
      /\ \A j \in DOMAIN timeline :
           /\ timeline[j].shown
           /\ (1 - 1) * PageSize < j /\ j <= 1 * PageSize
           => timeline[j].id \in IdsOf(Page(1))
  <2>1. 1 \in Nat \ {0}
    OBVIOUS
  <2> QED
    BY <2>1, PageIds
<1>4. /\ \A id \in IdsOf(Page(1)) : \E j \in DOMAIN timeline :
           timeline[j].id = id /\ 0 < j /\ j <= PageSize
      /\ \A j \in DOMAIN timeline :
           timeline[j].shown /\ 0 < j /\ j <= PageSize => timeline[j].id \in IdsOf(Page(1))
  BY <1>2, <1>3
<1>5. PageSize < i
  BY <1>1, <1>4
<1>6. timeline[1].id \in IdsOf(Page(1))
  <2>1. 1 \in DOMAIN timeline /\ 0 < 1 /\ 1 <= PageSize
    BY <1>1
  <2> QED
    BY <1>1, <1>4, <2>1
<1>7. ASSUME NEW id \in IdsOf(Page(1))
      PROVE  timeline[i].id < id
  <2>1. PICK j \in DOMAIN timeline : timeline[j].id = id /\ j <= PageSize
    BY <1>4
  <2>2. j < i
    BY <1>1, <1>5, <2>1
  <2> QED
    BY <1>1, <2>1, <2>2
<1> QED
  BY <1>6, <1>7

\* The first baseline: what it holds is told by no event and missed by none.
LEMMA EstablishInductive ==
  ASSUME Inv, EstablishBaseline
  PROVE  Inv'
<1> DEFINE page == Page(reader.page)
<1>1. /\ Paging /\ ~Known /\ reader.page = 1
      /\ baseline' = [items |-> page, boundary |-> IdsOf(page)]
      /\ seen' = seen \cup IdsOf(page)
      /\ first' = page
      /\ covered' = [since |-> published, until |-> published]
      /\ reader' = None
      /\ timeline' = timeline /\ published' = published /\ removed' = removed
      /\ events' = events
  BY DEF EstablishBaseline, Establishes, portalVars
<1>2. page = Page(1)
  BY <1>1
<1>3. TypeOK /\ PortalInv /\ KnownInv
  BY DEF Inv
<1>4. seen = {} /\ events = <<>>
  BY <1>1, <1>3 DEF KnownInv
<1>5. 1 \in Nat \ {0}
  OBVIOUS
<1>6. /\ page \in Seq(Activities)
      /\ \A id \in IdsOf(page) : \E i \in DOMAIN timeline : timeline[i].id = id
  BY <1>2, <1>3, <1>5, PageIds
<1> HIDE DEF page
<1>7. /\ published \in Nat /\ published \in 0 .. MaxPublished
      /\ \A id \in IdsOf(page) : id \in Ids /\ id <= published
  BY <1>3, <1>6, EntryTypes DEF PortalInv, TypeOK
<1>8. baseline' \in Baselines
  <2>1. IdsOf(page) \in SUBSET Ids
    BY <1>7
  <2> QED
    BY <1>1, <1>6, <2>1 DEF Baselines
<1>9. Known' /\ Boundary' = IdsOf(page) /\ baseline'.items = page
  <2>1. Known'
    BY <1>8, NoneAssumption DEF Known
  <2>2. baseline'.boundary = IdsOf(page) /\ baseline'.items = page
    BY <1>1
  <2> QED
    BY <2>1, <2>2 DEF Boundary
<1>10. covered' \in [since : 0 .. MaxPublished, until : 0 .. MaxPublished]
       /\ covered'.since = published /\ covered'.until = published
  BY <1>1, <1>7
<1>11. TypeOK'
  <2>1. seen' \subseteq Ids
    BY <1>1, <1>4, <1>7
  <2> QED
    BY <1>1, <1>3, <1>6, <1>8, <1>10, <2>1 DEF TypeOK
<1>12. PortalInv'
  BY <1>1, <1>3 DEF PortalInv
<1>13. KnownInv'
  <2>1. covered' # None
    BY <1>10, NoneAssumption
  <2> QED
    BY <1>1, <1>4, <1>7, <1>9, <1>10, <2>1 DEF KnownInv
<1>14. DOMAIN events' = {}
  BY <1>1, <1>4
<1>15. AddedInv'
  BY <1>14 DEF AddedInv
<1>16. ReaderInv' /\ ~Begun' /\ ~Paging' /\ ~Revalidating'
  BY <1>1 DEF ReaderInv, Begun, Paging, Revalidating
<1>17. MissedInv'
  <2>1. NothingMissed'
    <3> SUFFICES ASSUME NEW i \in DOMAIN timeline',
                        timeline'[i].id > covered'.since, timeline'[i].id <= covered'.until
                 PROVE  FALSE
      BY DEF NothingMissed
    <3>1. timeline'[i].id \in Nat
      BY <1>1, <1>3, EntryTypes
    <3> QED
      BY <1>7, <1>10, <3>1
  <2>2. \A id \in seen' : id <= covered'.until
    BY <1>1, <1>4, <1>7, <1>10
  <2> QED
    BY <1>1, <1>16, <2>1, <2>2 DEF MissedInv
<1>18. SlideInv'
  <2> SUFFICES ASSUME removed' = {}, AllShown'
               PROVE  SlideInv'
    BY DEF SlideInv
  <2>1. removed = {} /\ AllShown
    BY <1>1 DEF AllShown
  <2>2. \A id \in Ids : published - PageSize < id /\ id <= published => id \in IdsOf(page)
    BY <1>2, <1>3, <2>1, NewestPage
  <2> QED
    BY <1>9, <1>10, <1>14, <1>16, <2>2 DEF SlideInv
<1>19. HistoryInv'
  <2> SUFFICES ASSUME AllShown'
               PROVE  HistoryInv'
    BY DEF HistoryInv
  <2>1. AllShown
    BY <1>1 DEF AllShown
  <2>2. NoHistoryAnnounced'
    BY <1>14 DEF NoHistoryAnnounced, Added
  <2>3. ASSUME NEW i \in DOMAIN timeline', Historic(timeline[i].id)'
        PROVE  Boundary' # {} /\ \A id \in Boundary' : timeline'[i].id < id
    <3>1. i \in DOMAIN timeline /\ timeline'[i].id = timeline[i].id
          /\ timeline[i].id \notin IdsOf(page)
      BY <1>1, <2>3 DEF Historic
    <3>2. IdsOf(page) # {} /\ \A id \in IdsOf(page) : timeline[i].id < id
      BY <1>2, <1>3, <2>1, <3>1, HeadFirst
    <3> QED
      BY <1>9, <3>1, <3>2
  <2> QED
    BY <1>1, <2>2, <2>3 DEF HistoryInv
<1> QED
  BY <1>11, <1>12, <1>13, <1>15, <1>16, <1>17, <1>18, <1>19 DEF Inv

\* What reconciliation and the filter report of an item.
Reports(event, item, newIds) ==
  /\ event.activity = item /\ event.kind = KindOf(item)
  /\ ~Unchanged(item)
  /\ KindOf(item) = "activity_added" => item.id \in newIds

\* Every event is about an item, no two about the same, and every item that
\* was not known and came before the point of overlap has one.
LEMMA EventsFacts ==
  ASSUME NEW items \in Seq(Activities), NEW newIds,
         \A i, j \in DOMAIN items : items[i].id = items[j].id => i = j
  PROVE  \E fresh :
           /\ fresh = EventsOf(items, newIds)
           /\ fresh \in Seq(Events)
           /\ \A k \in DOMAIN fresh : \E i \in DOMAIN items : Reports(fresh[k], items[i], newIds)
           /\ \A k, l \in DOMAIN fresh : fresh[k].activity.id = fresh[l].activity.id => k = l
           /\ \A i \in DOMAIN items :
                /\ ~Unchanged(items[i])
                /\ KindOf(items[i]) = "activity_added" => items[i].id \in newIds
                => \E k \in DOMAIN fresh : Reports(fresh[k], items[i], newIds)
<1> DEFINE Wanted(item) ==
             /\ ~Unchanged(item)
             /\ KindOf(item) = "activity_added" => item.id \in newIds
           chosen == {i \in DOMAIN items : Wanted(items[i])}
           reported == Selected(items, chosen)
           fresh == [i \in DOMAIN reported |->
                       [kind |-> KindOf(reported[i]), activity |-> reported[i]]]
<1>1. EventsOf(items, newIds) = fresh
  BY DEF EventsOf
<1>2. reported \in Seq(Activities) /\ \E at : Selects(at, reported, items, chosen, Len(items))
  BY SelectedFacts
<1>3. PICK at : Selects(at, reported, items, chosen, Len(items))
  BY <1>2
<1>4. DOMAIN items = 1 .. Len(items) /\ \A i \in DOMAIN items : i \in Nat
  OBVIOUS
<1> HIDE DEF reported
<1>5. /\ DOMAIN reported = 1 .. Len(reported) /\ Len(reported) \in Nat
      /\ \A k \in DOMAIN reported : reported[k] \in Activities
  BY <1>2
<1>6. \A k \in DOMAIN reported :
        /\ at[k] \in DOMAIN items /\ Wanted(items[at[k]])
        /\ reported[k] = items[at[k]]
  BY <1>3, <1>4 DEF Selects
<1>7. \A item \in Activities : KindOf(item) \in Kinds
  BY DEF KindOf, Kinds
<1>8. /\ DOMAIN fresh = DOMAIN reported
      /\ \A k \in DOMAIN reported :
           fresh[k].kind = KindOf(reported[k]) /\ fresh[k].activity = reported[k]
  OBVIOUS
<1>9. fresh \in Seq(Events)
  <2>1. \A k \in 1 .. Len(reported) :
          [kind |-> KindOf(reported[k]), activity |-> reported[k]] \in Events
    BY <1>5, <1>7 DEF Events
  <2> QED
    BY <1>5, <2>1
<1> HIDE DEF fresh
<1>10. ASSUME NEW k \in DOMAIN fresh
       PROVE  \E i \in DOMAIN items : Reports(fresh[k], items[i], newIds)
  <2>1. k \in DOMAIN reported
    BY <1>8
  <2>2. Reports(fresh[k], items[at[k]], newIds)
    BY <1>6, <1>8, <2>1 DEF Reports
  <2> QED
    BY <1>6, <2>1, <2>2
<1>11. ASSUME NEW k \in DOMAIN fresh, NEW l \in DOMAIN fresh,
              fresh[k].activity.id = fresh[l].activity.id
       PROVE  k = l
  <2>1. k \in DOMAIN reported /\ l \in DOMAIN reported
    BY <1>8
  <2>2. items[at[k]].id = items[at[l]].id /\ at[k] \in DOMAIN items /\ at[l] \in DOMAIN items
    BY <1>6, <1>8, <1>11, <2>1
  <2>3. at[k] = at[l]
    BY <2>2
  <2>4. ~(k < l) /\ ~(l < k)
    BY <1>3, <1>4, <2>1, <2>2, <2>3 DEF Selects
  <2> QED
    BY <1>5, <2>1, <2>4
<1>12. ASSUME NEW i \in DOMAIN items, Wanted(items[i])
       PROVE  \E k \in DOMAIN fresh : Reports(fresh[k], items[i], newIds)
  <2>1. i \in chosen /\ i \in 1 .. Len(items)
    BY <1>4, <1>12
  <2>2. PICK k \in DOMAIN reported : at[k] = i
    <3> HIDE DEF chosen
    <3> QED
      BY <1>3, <2>1 DEF Selects
  <2>3. Reports(fresh[k], items[i], newIds)
    BY <1>6, <1>8, <1>12, <2>2 DEF Reports
  <2> QED
    BY <1>8, <2>2, <2>3
<1> QED
  BY <1>1, <1>9, <1>10, <1>11, <1>12

\* Events that are appended come after the earlier ones.
LEMMA AppendedFacts ==
  ASSUME NEW old \in Seq(Events), NEW fresh \in Seq(Events)
  PROVE  \E all :
           /\ all = old \o fresh
           /\ all \in Seq(Events)
           /\ \A i \in DOMAIN old : i \in DOMAIN all /\ all[i] = old[i]
           /\ \A k \in DOMAIN fresh : \E i \in DOMAIN all : all[i] = fresh[k]
           /\ \A i \in DOMAIN all :
                \/ i \in DOMAIN old /\ all[i] = old[i]
                \/ \E k \in DOMAIN fresh : i = Len(old) + k /\ all[i] = fresh[k]
<1> DEFINE all == old \o fresh
<1>1. /\ all \in Seq(Events) /\ Len(all) = Len(old) + Len(fresh)
      /\ \A i \in 1 .. Len(old) + Len(fresh) :
           all[i] = IF i <= Len(old) THEN old[i] ELSE fresh[i - Len(old)]
  BY ConcatProperties
<1>2. /\ Len(old) \in Nat /\ DOMAIN old = 1 .. Len(old)
      /\ Len(fresh) \in Nat /\ DOMAIN fresh = 1 .. Len(fresh)
  OBVIOUS
<1> HIDE DEF all
<1>3. DOMAIN all = 1 .. Len(old) + Len(fresh)
  BY <1>1
<1>4. ASSUME NEW i \in DOMAIN old
      PROVE  i \in DOMAIN all /\ all[i] = old[i]
  <2>1. i \in 1 .. Len(old) + Len(fresh) /\ i <= Len(old)
    BY <1>2
  <2> QED
    BY <1>1, <1>3, <2>1
<1>5. ASSUME NEW k \in DOMAIN fresh
      PROVE  \E i \in DOMAIN all : all[i] = fresh[k]
  <2>1. PICK i \in 1 .. Len(old) + Len(fresh) : i = Len(old) + k /\ i - Len(old) = k /\ ~(i <= Len(old))
    BY <1>2
  <2>2. all[i] = fresh[k]
    BY <1>1, <2>1
  <2> QED
    BY <1>3, <2>2
<1>6. ASSUME NEW i \in DOMAIN all, i \notin DOMAIN old
      PROVE  \E k \in DOMAIN fresh : i = Len(old) + k /\ all[i] = fresh[k]
  <2>1. PICK k \in DOMAIN fresh : k = i - Len(old) /\ i = Len(old) + k
    BY <1>2, <1>3, <1>6
  <2>2. all[i] = fresh[i - Len(old)]
    BY <1>1, <1>2, <1>3, <1>6
  <2> QED
    BY <2>1, <2>2
<1> QED
  BY <1>1, <1>4, <1>5, <1>6 DEF all

\* The committed files after a complete read.
LEMMA CompleteFiles ==
  ASSUME Inv, Complete
  PROVE  /\ Revalidating /\ HeadUnchanged /\ reader # None /\ reader \in Readers
         /\ reader.pages # <<>>
         /\ reader' = None /\ ~Begun' /\ ~Paging' /\ ~Revalidating'
         /\ timeline' = timeline /\ published' = published /\ removed' = removed
         /\ AllShown' = AllShown
         /\ baseline' \in Baselines /\ Known' /\ baseline'.items = reader.items
         /\ Boundary' = IdsOf(reader.pages[1]) /\ Boundary' \subseteq IdsOf(reader.items)
         /\ seen' = seen \cup IdsOf(reader.items)
         /\ covered' \in [since : 0 .. MaxPublished, until : 0 .. MaxPublished]
         /\ covered'.until = reader.published /\ reader.published \in Nat
         /\ Known => /\ events' = events \o EventsOf(reader.items, reader.newIds)
                     /\ first' = first /\ covered'.since = covered.since
         /\ ~Known => /\ seen = {} /\ events' = <<>> /\ first' = reader.items
                      /\ covered'.since = reader.published
<1>1. /\ Revalidating /\ HeadUnchanged /\ reader' = None
      /\ timeline' = timeline /\ published' = published /\ removed' = removed
      /\ baseline' = [items |-> reader.items, boundary |-> IdsOf(reader.pages[1])]
      /\ seen' = seen \cup IdsOf(reader.items)
      /\ Known => /\ events' = events \o EventsOf(reader.items, reader.newIds)
                  /\ covered' = [covered EXCEPT !.until = reader.published]
                  /\ first' = first
      /\ ~Known => /\ first' = reader.items
                   /\ covered' = [since |-> reader.published, until |-> reader.published]
                   /\ events' = events
  BY DEF Complete, portalVars
<1>2. TypeOK /\ KnownInv /\ ReaderInv
  BY DEF Inv
<1>3. reader # None /\ reader \in Readers /\ reader.published \in Nat
  BY <1>1, <1>2, Numbers DEF Revalidating
<1>4. /\ reader.items \in Seq(Activities) /\ reader.published \in 0 .. MaxPublished
  BY <1>3 DEF Readers
<1>5. reader.pages # <<>> /\ IdsOf(reader.pages[1]) \subseteq IdsOf(reader.items)
  BY <1>1, <1>2, <1>3 DEF ReaderInv, Revalidating
<1>6. IdsOf(reader.items) \subseteq Ids
  <2>1. \A i \in DOMAIN reader.items : reader.items[i] \in Activities
    BY <1>4
  <2> QED
    BY <2>1 DEF IdsOf, Activities
<1>7. baseline' \in Baselines
  <2>1. IdsOf(reader.pages[1]) \in SUBSET Ids
    BY <1>5, <1>6
  <2> QED
    BY <1>1, <1>4, <2>1 DEF Baselines
<1>8. /\ Known' /\ baseline'.items = reader.items
      /\ Boundary' = IdsOf(reader.pages[1])
  <2>1. Known'
    BY <1>7, NoneAssumption DEF Known
  <2>2. baseline'.items = reader.items /\ baseline'.boundary = IdsOf(reader.pages[1])
    BY <1>1
  <2> QED
    BY <2>1, <2>2 DEF Boundary
<1>9. /\ covered' \in [since : 0 .. MaxPublished, until : 0 .. MaxPublished]
      /\ covered'.until = reader.published
      /\ Known => covered'.since = covered.since
      /\ ~Known => covered'.since = reader.published
  <2>1. CASE Known
    <3>1. covered \in [since : 0 .. MaxPublished, until : 0 .. MaxPublished]
      BY <1>2, <2>1 DEF KnownInv, TypeOK
    <3> QED
      BY <1>1, <1>4, <2>1, <3>1
  <2>2. CASE ~Known
    BY <1>1, <1>4, <2>2
  <2> QED
    BY <2>1, <2>2
<1>10. ~Begun' /\ ~Paging' /\ ~Revalidating'
  BY <1>1 DEF Begun, Paging, Revalidating
<1>11. AllShown' = AllShown
  BY <1>1 DEF AllShown
<1>12. ~Known => seen = {} /\ events' = <<>>
  BY <1>1, <1>2 DEF KnownInv
<1> QED
  BY <1>1, <1>3, <1>5, <1>7, <1>8, <1>9, <1>10, <1>11, <1>12

\* Something with the id of a baseline's item is known to the baseline.
LEMMA UnchangedKnown ==
  ASSUME NEW item, Unchanged(item)
  PROVE  item.id \in IdsOf(baseline.items)
  BY DEF Unchanged, IdsOf

\* The events of a complete read.
LEMMA CompleteEvents ==
  ASSUME Inv, Complete, Known
  PROVE  /\ events' \in Seq(Events)
         /\ \A i \in DOMAIN events : i \in DOMAIN events' /\ events'[i] = events[i]
         /\ \A i \in DOMAIN events' \ DOMAIN events : \E j \in DOMAIN reader.items :
              Reports(events'[i], reader.items[j], reader.newIds)
         /\ \A i, j \in DOMAIN events' \ DOMAIN events :
              events'[i].activity.id = events'[j].activity.id => i = j
         /\ \A id \in reader.newIds \cap IdsOf(reader.items) :
              id \notin seen => Added(id)' # {}
<1>1. /\ reader # None /\ reader \in Readers
      /\ events' = events \o EventsOf(reader.items, reader.newIds)
  BY CompleteFiles
<1>2. /\ reader.items \in Seq(Activities) /\ events \in Seq(Events)
      /\ \A i, j \in DOMAIN reader.items : reader.items[i].id = reader.items[j].id => i = j
      /\ IdsOf(baseline.items) \subseteq seen
  BY <1>1 DEF Inv, TypeOK, Readers, ReaderInv, KnownInv
<1> DEFINE items == reader.items
           newIds == reader.newIds
<1>3. /\ items \in Seq(Activities)
      /\ \A i, j \in DOMAIN items : items[i].id = items[j].id => i = j
      /\ events' = events \o EventsOf(items, newIds)
  BY <1>1, <1>2
<1> HIDE DEF items, newIds
<1>4. PICK fresh :
        /\ fresh = EventsOf(items, newIds)
        /\ fresh \in Seq(Events)
        /\ \A k \in DOMAIN fresh : \E i \in DOMAIN items : Reports(fresh[k], items[i], newIds)
        /\ \A k, l \in DOMAIN fresh : fresh[k].activity.id = fresh[l].activity.id => k = l
        /\ \A i \in DOMAIN items :
             /\ ~Unchanged(items[i])
             /\ KindOf(items[i]) = "activity_added" => items[i].id \in newIds
             => \E k \in DOMAIN fresh : Reports(fresh[k], items[i], newIds)
  BY <1>3, EventsFacts
<1>5. PICK all :
        /\ all = events \o fresh
        /\ all \in Seq(Events)
        /\ \A i \in DOMAIN events : i \in DOMAIN all /\ all[i] = events[i]
        /\ \A k \in DOMAIN fresh : \E i \in DOMAIN all : all[i] = fresh[k]
        /\ \A i \in DOMAIN all :
             \/ i \in DOMAIN events /\ all[i] = events[i]
             \/ \E k \in DOMAIN fresh : i = Len(events) + k /\ all[i] = fresh[k]
  <2>1. events \in Seq(Events) /\ fresh \in Seq(Events)
    BY <1>2, <1>4
  <2> QED
    BY <2>1, AppendedFacts
<1>6. events' = all
  BY <1>3, <1>4, <1>5
<1>7. ASSUME NEW i \in DOMAIN all \ DOMAIN events
      PROVE  \E j \in DOMAIN items : Reports(all[i], items[j], newIds)
  BY <1>4, <1>5, <1>7
<1>8. ASSUME NEW i \in DOMAIN all \ DOMAIN events, NEW j \in DOMAIN all \ DOMAIN events,
             all[i].activity.id = all[j].activity.id
      PROVE  i = j
  <2>1. PICK k \in DOMAIN fresh : i = Len(events) + k /\ all[i] = fresh[k]
    BY <1>5
  <2>2. PICK l \in DOMAIN fresh : j = Len(events) + l /\ all[j] = fresh[l]
    BY <1>5
  <2>3. k = l
    BY <1>4, <1>8, <2>1, <2>2
  <2> QED
    BY <2>1, <2>2, <2>3
<1>9. ASSUME NEW j \in DOMAIN items, items[j].id \in newIds \ seen
      PROVE  \E i \in DOMAIN all :
               all[i].kind = "activity_added" /\ all[i].activity.id = items[j].id
  <2>1. items[j].id \notin IdsOf(baseline.items)
    BY <1>2, <1>9
  <2>2. ~Unchanged(items[j]) /\ KindOf(items[j]) = "activity_added"
    BY <1>9, <2>1, UnchangedKnown DEF KindOf
  <2>3. PICK k \in DOMAIN fresh : Reports(fresh[k], items[j], newIds)
    BY <1>4, <1>9, <2>2
  <2>4. fresh[k].kind = "activity_added" /\ fresh[k].activity.id = items[j].id
    BY <2>2, <2>3 DEF Reports
  <2>5. PICK i \in DOMAIN all : all[i] = fresh[k]
    BY <1>5
  <2> QED
    BY <2>4, <2>5
<1>10. ASSUME NEW id \in newIds \cap IdsOf(items), id \notin seen
       PROVE  Added(id)' # {}
  <2>1. PICK j \in DOMAIN items : items[j].id = id
    BY DEF IdsOf
  <2>2. PICK i \in DOMAIN all : all[i].kind = "activity_added" /\ all[i].activity.id = id
    BY <1>9, <1>10, <2>1
  <2> QED
    BY <1>6, <2>2 DEF Added
<1> QED
  BY <1>5, <1>6, <1>7, <1>8, <1>10 DEF items, newIds

LEMMA CompleteKnown ==
  ASSUME Inv, Complete
  PROVE  TypeOK' /\ PortalInv' /\ KnownInv' /\ ReaderInv'
<1>1. /\ Revalidating /\ reader # None /\ reader \in Readers /\ reader' = None
      /\ timeline' = timeline /\ published' = published /\ removed' = removed
      /\ baseline' \in Baselines /\ Known' /\ baseline'.items = reader.items
      /\ Boundary' \subseteq IdsOf(reader.items)
      /\ seen' = seen \cup IdsOf(reader.items)
      /\ covered' \in [since : 0 .. MaxPublished, until : 0 .. MaxPublished]
      /\ covered'.until = reader.published /\ reader.published \in Nat
      /\ Known => /\ events' = events \o EventsOf(reader.items, reader.newIds)
                  /\ first' = first /\ covered'.since = covered.since
      /\ ~Known => /\ seen = {} /\ events' = <<>> /\ first' = reader.items
                   /\ covered'.since = reader.published
  BY CompleteFiles
<1>2. TypeOK /\ PortalInv /\ KnownInv /\ ReaderInv
  BY DEF Inv
<1>3. reader.items \in Seq(Activities) /\ IdsOf(reader.items) \subseteq Ids
  <2>1. reader.items \in Seq(Activities)
    BY <1>1 DEF Readers
  <2>2. \A i \in DOMAIN reader.items : reader.items[i] \in Activities
    BY <2>1
  <2> QED
    BY <2>1, <2>2 DEF IdsOf, Activities
<1>4. TypeOK'
  <2>1. events' \in Seq(Events)
    <3>1. CASE Known
      BY <3>1, CompleteEvents
    <3>2. CASE ~Known
      BY <1>1, <3>2
    <3> QED
      BY <3>1, <3>2
  <2>2. first' \in Seq(Activities)
    BY <1>1, <1>2, <1>3 DEF TypeOK
  <2>3. seen' \subseteq Ids
    BY <1>1, <1>2, <1>3 DEF TypeOK
  <2> QED
    BY <1>1, <1>2, <2>1, <2>2, <2>3 DEF TypeOK
<1>5. PortalInv'
  BY <1>1, <1>2 DEF PortalInv
<1>6. KnownInv'
  <2>1. covered' # None
    BY <1>1, NoneAssumption
  <2>2. covered'.since <= covered'.until /\ covered'.until <= published'
    <3>1. reader.published <= published /\ (Known => covered.until <= reader.published)
      BY <1>1, <1>2 DEF ReaderInv
    <3>2. CASE Known
      <4>1. covered.since <= covered.until /\ covered.since \in Nat /\ covered.until \in Nat
        BY <1>2, <3>2, Numbers DEF KnownInv
      <4> QED
        BY <1>1, <3>1, <3>2, <4>1
    <3>3. CASE ~Known
      BY <1>1, <3>1, <3>3
    <3> QED
      BY <3>2, <3>3
  <2>3. IdsOf(first') \subseteq seen'
    <3>1. CASE Known
      BY <1>1, <1>2, <3>1 DEF KnownInv
    <3>2. CASE ~Known
      BY <1>1, <3>2
    <3> QED
      BY <3>1, <3>2
  <2>4. IdsOf(first)' = IdsOf(first') /\ IdsOf(baseline.items)' = IdsOf(reader.items)
    BY <1>1
  <2> QED
    BY <1>1, <2>1, <2>2, <2>3, <2>4 DEF KnownInv
<1>7. ReaderInv'
  BY <1>1 DEF ReaderInv
<1> QED
  BY <1>4, <1>5, <1>6, <1>7

LEMMA CompleteAdded ==
  ASSUME Inv, Complete
  PROVE  AddedInv'
<1>1. /\ seen' = seen \cup IdsOf(reader.items)
      /\ Known => first' = first
      /\ ~Known => events' = <<>>
  BY CompleteFiles
<1>2. CASE ~Known
  <2>1. DOMAIN events' = {}
    BY <1>1, <1>2
  <2> QED
    BY <2>1 DEF AddedInv
<1>3. CASE Known
  <2>1. /\ \A i \in DOMAIN events : i \in DOMAIN events' /\ events'[i] = events[i]
        /\ \A i \in DOMAIN events' \ DOMAIN events : \E j \in DOMAIN reader.items :
             Reports(events'[i], reader.items[j], reader.newIds)
        /\ \A i, j \in DOMAIN events' \ DOMAIN events :
             events'[i].activity.id = events'[j].activity.id => i = j
    BY <1>3, CompleteEvents
  <2>2. first' = first /\ IdsOf(first) \subseteq seen
    BY <1>1, <1>3 DEF Inv, KnownInv
  <2>3. /\ \A i \in DOMAIN events :
             events[i].kind = "activity_added" =>
               events[i].activity.id \in seen /\ events[i].activity.id \notin IdsOf(first)
        /\ \A i, j \in DOMAIN events :
             /\ events[i].kind = "activity_added" /\ events[j].kind = "activity_added"
             /\ events[i].activity.id = events[j].activity.id
             => i = j
    BY DEF Inv, AddedInv
  <2>4. ASSUME NEW i \in DOMAIN events' \ DOMAIN events, events'[i].kind = "activity_added"
        PROVE  /\ events'[i].activity.id \notin seen
               /\ events'[i].activity.id \in seen'
    <3>1. PICK j \in DOMAIN reader.items : Reports(events'[i], reader.items[j], reader.newIds)
      BY <2>1
    <3>2. events'[i].activity = reader.items[j] /\ KindOf(reader.items[j]) = "activity_added"
      BY <2>4, <3>1 DEF Reports
    <3>3. reader.items[j].id \notin seen
      BY <3>2 DEF KindOf
    <3>4. reader.items[j].id \in IdsOf(reader.items)
      BY DEF IdsOf
    <3> QED
      BY <1>1, <3>2, <3>3, <3>4
  <2>5. ASSUME NEW i \in DOMAIN events', events'[i].kind = "activity_added"
        PROVE  events'[i].activity.id \in seen' /\ events'[i].activity.id \notin IdsOf(first')
    <3>1. CASE i \in DOMAIN events
      BY <1>1, <2>1, <2>2, <2>3, <2>5, <3>1
    <3>2. CASE i \notin DOMAIN events
      BY <2>2, <2>4, <2>5, <3>2
    <3> QED
      BY <3>1, <3>2
  <2>6. ASSUME NEW i \in DOMAIN events', NEW j \in DOMAIN events',
               events'[i].kind = "activity_added", events'[j].kind = "activity_added",
               events'[i].activity.id = events'[j].activity.id
        PROVE  i = j
    <3>1. CASE i \in DOMAIN events /\ j \in DOMAIN events
      BY <2>1, <2>3, <2>6, <3>1
    <3>2. CASE i \notin DOMAIN events /\ j \notin DOMAIN events
      BY <2>1, <2>6, <3>2
    <3>3. CASE i \in DOMAIN events /\ j \notin DOMAIN events
      BY <2>1, <2>3, <2>4, <2>6, <3>3
    <3>4. CASE i \notin DOMAIN events /\ j \in DOMAIN events
      BY <2>1, <2>3, <2>4, <2>6, <3>4
    <3> QED
      BY <3>1, <3>2, <3>3, <3>4
  <2>7. IdsOf(first)' = IdsOf(first')
    OBVIOUS
  <2> QED
    BY <2>5, <2>6, <2>7 DEF AddedInv
<1> QED
  BY <1>2, <1>3

LEMMA CompleteMissed ==
  ASSUME Inv, Complete
  PROVE  MissedInv'
<1> SUFFICES ASSUME removed' = {}
             PROVE  MissedInv'
  BY DEF MissedInv
<1>1. /\ Revalidating /\ reader # None /\ reader \in Readers /\ reader.pages # <<>>
      /\ reader' = None /\ ~Begun' /\ ~Paging'
      /\ timeline' = timeline /\ removed = {}
      /\ seen' = seen \cup IdsOf(reader.items)
      /\ covered'.until = reader.published /\ reader.published \in Nat
      /\ Known => covered'.since = covered.since
      /\ ~Known => seen = {} /\ covered'.since = reader.published
  BY CompleteFiles
<1>2. TypeOK /\ KnownInv /\ ReaderInv /\ MissedInv
  BY DEF Inv
<1>3. /\ \A id \in IdsOf(reader.items) : id <= reader.published
      /\ \A i \in DOMAIN timeline :
           /\ timeline[i].shown
           /\ timeline[i].id <= reader.published
           /\ Known /\ covered.until < timeline[i].id
           => timeline[i].id \in reader.newIds \cap IdsOf(reader.items)
      /\ NothingMissed
      /\ Known => \A id \in seen : id <= covered.until
  <2>1. ~Paging
    BY <1>1 DEF Paging, Revalidating
  <2> QED
    BY <1>1, <1>2, <2>1 DEF MissedInv, Begun
<1>4. /\ Known => covered.until \in Nat /\ covered.until <= reader.published
      /\ \A id \in Ids : id \in Nat
      /\ seen \subseteq Ids
      /\ \A i \in DOMAIN timeline : timeline[i].id \in Ids
  <2>1. Known => covered.until \in Nat /\ covered.until <= reader.published
    BY <1>1, <1>2, Numbers DEF KnownInv, ReaderInv
  <2>2. \A id \in Ids : id \in Nat
    BY TimelineAssumption DEF Ids
  <2> QED
    BY <1>2, <2>1, <2>2, EntryTypes DEF TypeOK
<1>5. \A id \in seen' : id <= covered'.until
  <2>1. \A id \in seen : id <= reader.published
    <3>1. CASE Known
      BY <1>1, <1>3, <1>4, <3>1
    <3>2. CASE ~Known
      BY <1>1, <3>2
    <3> QED
      BY <3>1, <3>2
  <2> QED
    BY <1>1, <1>3, <2>1
<1>6. ASSUME NEW i \in DOMAIN timeline, timeline[i].shown,
             timeline[i].id > covered'.since, timeline[i].id <= covered'.until
      PROVE  \A id : id = timeline[i].id => Added(id)' # {}
  <2>1. Known
    BY <1>1, <1>4, <1>6
  <2>2. /\ \A j \in DOMAIN events : j \in DOMAIN events' /\ events'[j] = events[j]
        /\ \A new \in reader.newIds \cap IdsOf(reader.items) :
             new \notin seen => Added(new)' # {}
    BY <2>1, CompleteEvents
  <2>3. CASE timeline[i].id <= covered.until
    <3>1. Added(timeline[i].id) # {}
      BY <1>1, <1>3, <1>6, <2>1, <2>3 DEF NothingMissed
    <3>2. \A any : Added(any) # {} => Added(any)' # {}
      BY <2>2 DEF Added
    <3> QED
      BY <3>1, <3>2
  <2>4. CASE covered.until < timeline[i].id
    <3>1. timeline[i].id \in reader.newIds \cap IdsOf(reader.items)
      BY <1>1, <1>3, <1>6, <2>1, <2>4
    <3>2. timeline[i].id \notin seen
      BY <1>3, <1>4, <2>1, <2>4
    <3> QED
      BY <2>2, <3>1, <3>2
  <2> QED
    BY <1>4, <2>1, <2>3, <2>4
<1>7. NothingMissed'
  <2> SUFFICES ASSUME NEW i \in DOMAIN timeline',
                      timeline'[i].shown, timeline'[i].id > covered'.since,
                      timeline'[i].id <= covered'.until
               PROVE  Added(timeline[i].id)' # {}
    BY DEF NothingMissed
  <2>1. \A id : id = timeline'[i].id => Added(id)' # {}
    BY <1>1, <1>6
  <2>2. PICK id : id = timeline'[i].id
    OBVIOUS
  <2>3. Added(id)' # {}
    BY <2>1, <2>2
  <2> QED
    BY <2>2, <2>3 DEF Added
<1> QED
  BY <1>1, <1>5, <1>7 DEF MissedInv

LEMMA CompleteSlide ==
  ASSUME Inv, Complete
  PROVE  SlideInv'
<1> SUFFICES ASSUME removed' = {}, AllShown'
             PROVE  SlideInv'
  BY DEF SlideInv
<1>1. /\ Revalidating /\ reader # None /\ reader.pages # <<>>
      /\ ~Begun' /\ ~Paging' /\ ~Revalidating'
      /\ removed = {} /\ AllShown
      /\ Boundary' = IdsOf(reader.pages[1])
      /\ covered'.until = reader.published
      /\ ~Known => events' = <<>>
  BY CompleteFiles
<1>2. /\ \A i \in DOMAIN events : events[i].kind # "activity_reappeared"
      /\ Known => \A id \in Ids :
           covered.until - PageSize < id /\ id <= covered.until => id \in Boundary
      /\ \A id \in Ids : reader.published - PageSize < id /\ id <= reader.published
                         => id \in IdsOf(reader.pages[1])
      /\ Known => \A id \in IdsOf(reader.items) : covered.until - PageSize < id
  BY <1>1 DEF Inv, SlideInv, Begun
<1>3. Known => /\ \A id \in seen : id <= covered.until
               /\ seen \subseteq Ids
               /\ Boundary \subseteq IdsOf(baseline.items)
  BY <1>1 DEF Inv, MissedInv, TypeOK, KnownInv
<1>4. ASSUME NEW i \in DOMAIN events'
      PROVE  events'[i].kind # "activity_reappeared"
  <2>1. Known
    BY <1>1
  <2>2. /\ \A j \in DOMAIN events : events'[j] = events[j]
        /\ \A j \in DOMAIN events' \ DOMAIN events : \E l \in DOMAIN reader.items :
             Reports(events'[j], reader.items[l], reader.newIds)
    BY <2>1, CompleteEvents
  <2>3. CASE i \in DOMAIN events
    BY <1>2, <2>2, <2>3
  <2>4. CASE i \notin DOMAIN events
    <3>1. PICK l \in DOMAIN reader.items :
            Reports(events'[i], reader.items[l], reader.newIds)
      BY <2>2, <2>4
    <3> DEFINE id == reader.items[l].id
    <3> SUFFICES ASSUME events'[i].kind = "activity_reappeared"
                 PROVE  FALSE
      OBVIOUS
    <3>2. KindOf(reader.items[l]) = "activity_reappeared"
      BY <3>1 DEF Reports
    <3>3. id \notin IdsOf(baseline.items) /\ id \in seen
      BY <3>2 DEF KindOf
    <3>4. id \in IdsOf(reader.items)
      BY DEF IdsOf
    <3> HIDE DEF id
    <3>5. covered.until - PageSize < id /\ id <= covered.until /\ id \in Ids
      BY <1>2, <1>3, <2>1, <3>3, <3>4
    <3>6. id \in Boundary
      BY <1>2, <2>1, <3>5
    <3> QED
      BY <1>3, <2>1, <3>3, <3>6
  <2> QED
    BY <2>3, <2>4
<1> QED
  BY <1>1, <1>2, <1>4 DEF SlideInv

\* A read whose newest page and number of pages have not changed had nothing
\* pushed before it.
LEMMA NothingNewer ==
  ASSUME TypeOK, ReaderInv, AllShown, reader # None, reader.pages # <<>>, HeadUnchanged,
         NEW n \in 0 .. Len(timeline), Newer(n)
  PROVE  ~(Len(timeline) - n < (reader.lastPage - 1) * PageSize)
<1>1. /\ Len(timeline) \in Nat /\ DOMAIN timeline = 1 .. Len(timeline)
      /\ PageSize \in Nat \ {0}
      /\ \A i \in DOMAIN timeline : timeline[i].id \in Nat /\ timeline[i].shown
  BY EntryTypes DEF AllShown
<1>2. reader.published \in Nat /\ \A id \in IdsOf(Page(1)) : id <= reader.published
  BY Numbers DEF ReaderInv, HeadUnchanged
<1>3. n = 0
  <2> SUFFICES ASSUME n # 0
               PROVE  FALSE
    OBVIOUS
  <2>1. 1 \in DOMAIN timeline /\ 1 <= n
    BY <1>1
  <2>2. reader.published < timeline[1].id
    BY <2>1 DEF Newer
  <2>3. timeline[1].id \in IdsOf(Page(1))
    <3>1. PICK at : Cuts(at, 1)
      <4>1. timeline \in Seq(Entries) /\ 1 \in Nat \ {0}
        BY DEF TypeOK
      <4> QED
        BY <4>1, PageFacts
    <3>2. (1 - 1) * PageSize < 1 /\ 1 <= 1 * PageSize
      <4>1. 1 - 1 = 0
        OBVIOUS
      <4> QED
        BY <1>1, <4>1
    <3>3. PICK j \in DOMAIN Page(1) : at[j] = 1
      BY <1>1, <2>1, <3>1, <3>2 DEF Cuts
    <3>4. Page(1)[j].id = timeline[1].id
      BY <3>1, <3>3 DEF Cuts, Activity
    <3> QED
      BY <3>3, <3>4 DEF IdsOf
  <2> QED
    BY <1>1, <1>2, <2>1, <2>2, <2>3
<1>4. reader.lastPage = PagesOf(Len(timeline))
  <2>1. timeline \in Seq(Entries)
    BY DEF TypeOK
  <2> QED
    BY <2>1, LastPageFacts DEF HeadUnchanged
<1> DEFINE q == PagesOf(Len(timeline))
<1>5. q \in Nat \ {0} /\ (q > 1 => (q - 1) * PageSize < Len(timeline))
  BY <1>1, PagesFacts
<1> HIDE DEF q
<1>6. ~(Len(timeline) < (q - 1) * PageSize)
  <2>1. CASE q > 1
    <3>1. (q - 1) * PageSize \in Nat
      <4>1. q - 1 \in Nat
        BY <1>5
      <4> QED
        BY <1>1, <4>1
    <3> QED
      BY <1>1, <1>5, <2>1, <3>1
  <2>2. CASE q = 1
    <3>1. q - 1 = 0 /\ 0 * PageSize = 0
      BY <1>1, <2>2
    <3>2. (q - 1) * PageSize = 0
      BY <3>1
    <3> QED
      BY <1>1, <3>2
  <2> QED
    BY <1>5, <2>1, <2>2
<1> QED
  BY <1>1, <1>3, <1>4, <1>6 DEF q

LEMMA CompleteHistory ==
  ASSUME Inv, Complete
  PROVE  HistoryInv'
<1> SUFFICES ASSUME AllShown'
             PROVE  HistoryInv'
  BY DEF HistoryInv
<1>1. /\ Revalidating /\ HeadUnchanged /\ reader # None /\ reader.pages # <<>>
      /\ reader' = None
      /\ timeline' = timeline /\ AllShown
      /\ Boundary' = IdsOf(reader.pages[1]) /\ Boundary' \subseteq IdsOf(reader.items)
      /\ seen' = seen \cup IdsOf(reader.items)
      /\ Known => covered'.since = covered.since
      /\ ~Known => events' = <<>>
  BY CompleteFiles
<1>2. TypeOK /\ PortalInv /\ ReaderInv
  BY DEF Inv
<1>3. NoHistoryAnnounced'
  <2> SUFFICES ASSUME NEW id \in Ids, Added(id)' # {}
               PROVE  id > covered'.since
    BY DEF NoHistoryAnnounced
  <2>1. PICK i \in DOMAIN events' :
          events'[i].kind = "activity_added" /\ events'[i].activity.id = id
    BY DEF Added
  <2>2. Known
    BY <1>1, <2>1
  <2>3. /\ \A j \in DOMAIN events : events'[j] = events[j]
        /\ \A j \in DOMAIN events' \ DOMAIN events : \E l \in DOMAIN reader.items :
             Reports(events'[j], reader.items[l], reader.newIds)
    BY <2>2, CompleteEvents
  <2>4. CASE i \in DOMAIN events
    <3>1. Added(id) # {}
      BY <2>1, <2>3, <2>4 DEF Added
    <3> QED
      BY <1>1, <2>2, <3>1 DEF Inv, HistoryInv, NoHistoryAnnounced
  <2>5. CASE i \notin DOMAIN events
    <3>1. PICK l \in DOMAIN reader.items :
            Reports(events'[i], reader.items[l], reader.newIds)
      BY <2>3, <2>5
    <3>2. events'[i].activity = reader.items[l] /\ KindOf(reader.items[l]) = "activity_added"
          /\ reader.items[l].id \in reader.newIds
      BY <2>1, <3>1 DEF Reports
    <3>3. id \in reader.newIds /\ id \notin seen
      BY <2>1, <3>2 DEF KindOf
    <3>4. ~Historic(id)
      <4> SUFFICES ASSUME Historic(id)
                   PROVE  FALSE
        OBVIOUS
      <4>1. PICK n \in 0 .. Len(timeline) :
              Newer(n) /\ Len(timeline) - n < (reader.lastPage - 1) * PageSize
        BY <1>1, <2>2, <3>3 DEF Inv, HistoryInv
      <4> QED
        BY <1>1, <1>2, <4>1, NothingNewer
    <3>5. covered.since \in Nat /\ id \in Nat
      BY <1>2, <2>2, Numbers, TimelineAssumption DEF Inv, KnownInv, Ids
    <3> QED
      BY <1>1, <2>2, <3>3, <3>4, <3>5 DEF Historic
  <2> QED
    BY <2>4, <2>5
<1>4. ASSUME NEW i \in DOMAIN timeline', Historic(timeline[i].id)'
      PROVE  Boundary' # {} /\ \A id \in Boundary' : timeline'[i].id < id
  <2>1. reader.pages[1] = Page(1)
    BY <1>1 DEF HeadUnchanged
  <2>2. i \in DOMAIN timeline /\ timeline'[i].id = timeline[i].id
        /\ timeline[i].id \notin IdsOf(Page(1))
    BY <1>1, <1>4, <2>1 DEF Historic
  <2>3. IdsOf(Page(1)) # {} /\ \A id \in IdsOf(Page(1)) : timeline[i].id < id
    BY <1>1, <1>2, <2>2, HeadFirst
  <2> QED
    BY <1>1, <2>1, <2>2, <2>3
<1> QED
  BY <1>1, <1>3, <1>4 DEF HistoryInv

LEMMA CompleteInductive ==
  ASSUME Inv, Complete
  PROVE  Inv'
  BY CompleteKnown, CompleteAdded, CompleteMissed, CompleteSlide, CompleteHistory DEF Inv

-----------------------------------------------------------------------------
(* The theorems. *)

LEMMA Initial == Init => Inv
<1> SUFFICES ASSUME Init
             PROVE  Inv
  OBVIOUS
<1>1. /\ timeline = <<>> /\ published = 0 /\ removed = {} /\ baseline = None /\ seen = {}
      /\ reader = None /\ events = <<>> /\ first = <<>> /\ covered = None
  BY DEF Init
<1>2. ~Known /\ ~Begun /\ ~Paging /\ ~Revalidating /\ DOMAIN timeline = {} /\ DOMAIN events = {}
  BY <1>1 DEF Known, Begun, Paging, Revalidating
<1>3. TypeOK
  <2>1. 0 \in 0 .. MaxPublished
    BY TimelineAssumption
  <2> QED
    BY <1>1, <2>1 DEF TypeOK
<1>4. PortalInv
  <2>1. Len(timeline) = published
    BY <1>1
  <2> QED
    BY <1>2, <2>1 DEF PortalInv
<1>5. KnownInv /\ AddedInv /\ ReaderInv /\ HistoryInv
  BY <1>1, <1>2 DEF KnownInv, AddedInv, ReaderInv, HistoryInv
<1>6. MissedInv
  BY <1>1, <1>2 DEF MissedInv, NothingMissed
<1>7. SlideInv
  BY <1>1, <1>2 DEF SlideInv
<1> QED
  BY <1>3, <1>4, <1>5, <1>6, <1>7 DEF Inv

LEMMA Inductive == Inv /\ [Next]_vars => Inv'
<1> SUFFICES ASSUME Inv, [Next]_vars
             PROVE  Inv'
  OBVIOUS
<1>1. CASE PortalStep
  BY <1>1, PortalInductive
<1>2. CASE BeginRead
  BY <1>2, BeginReadInductive
<1>3. CASE EstablishBaseline
  BY <1>3, EstablishInductive
<1>4. CASE ReadOn
  BY <1>4, ReadOnInductive
<1>5. CASE ReachEnd
  BY <1>5, ReachEndInductive
<1>6. CASE Complete
  BY <1>6, CompleteInductive
<1>7. CASE Incomplete \/ Interrupt
  BY <1>7, ReadAbandoned DEF Incomplete, Interrupt
<1>8. CASE UNCHANGED vars
  <2>1. /\ UNCHANGED <<portalVars, historyVars>> /\ reader' = reader
    BY <1>8 DEF vars
  <2>2. /\ timeline' = timeline /\ published' = published /\ removed' = removed
        /\ baseline' = baseline /\ seen' = seen /\ events' = events
        /\ first' = first /\ covered' = covered
        /\ Known' = Known /\ Boundary' = Boundary
        /\ PortalInv' = PortalInv /\ KnownInv' = KnownInv /\ AddedInv' = AddedInv
        /\ AllShown' = AllShown /\ NothingMissed' = NothingMissed
        /\ NoHistoryAnnounced' = NoHistoryAnnounced
        /\ \A id : Historic(id)' = Historic(id)
    BY <2>1, FilesKept
  <2>3. Begun' = Begun /\ Paging' = Paging /\ Revalidating' = Revalidating
    BY <2>1 DEF Begun, Paging, Revalidating
  <2>4. TypeOK' = TypeOK
    BY <2>1, <2>2 DEF TypeOK
  <2>5. ReaderInv' = ReaderInv
    BY <2>1, <2>2 DEF ReaderInv
  <2>6. MissedInv' = MissedInv
    BY <2>1, <2>2, <2>3 DEF MissedInv
  <2>7. SlideInv' = SlideInv
    BY <2>1, <2>2, <2>3 DEF SlideInv
  <2>8. HistoryInv' = HistoryInv
    BY <2>1, <2>2, <2>3 DEF HistoryInv, Historic, Newer
  <2> QED
    BY <2>2, <2>4, <2>5, <2>6, <2>7, <2>8 DEF Inv
<1> QED
  BY <1>1, <1>2, <1>3, <1>4, <1>5, <1>6, <1>7, <1>8 DEF Next, CheckStep

LEMMA InvHolds == Spec => []Inv
<1>1. Init => Inv
  BY Initial
<1>2. Inv /\ [Next]_vars => Inv'
  BY Inductive
<1> QED
  BY <1>1, <1>2, PTL DEF Spec

\* The timeline, the files and the state of the read keep their types, whatever
\* the portal does and however often a read is abandoned.
THEOREM TypeCorrect == Spec => []TypeOK
<1>1. Inv => TypeOK
  BY DEF Inv
<1> QED
  BY <1>1, InvHolds, PTL

\* No item is announced as added twice, nor one of the first baseline
\* (contract.go:334-342, diff.go:217-222).
THEOREM NoneAddedTwice == Spec => []AddedOnce
<1>1. Inv => AddedOnce
  <2> SUFFICES ASSUME Inv, NEW id \in Ids
               PROVE  /\ Cardinality(Added(id)) <= 1
                      /\ id \in IdsOf(first) => Added(id) = {}
    BY DEF AddedOnce
  <2>1. AddedInv
    BY DEF Inv
  <2>2. CASE Added(id) = {}
    BY <2>2, FS_EmptySet
  <2>3. CASE Added(id) # {}
    <3>1. PICK i : i \in Added(id)
      BY <2>3
    <3>2. \A j \in Added(id) : j = i
      BY <2>1, <3>1 DEF Added, AddedInv
    <3>3. Added(id) = {i}
      BY <3>1, <3>2
    <3>4. Cardinality(Added(id)) = 1
      BY <3>3, FS_Singleton
    <3>5. id \notin IdsOf(first)
      BY <2>1, <3>1 DEF Added, AddedInv
    <3> QED
      BY <3>4, <3>5
  <2> QED
    BY <2>2, <2>3
<1> QED
  BY <1>1, InvHolds, PTL

\* While the portal only publishes and corrects, a complete check announces
\* every item shown that was published since the first baseline, however the
\* items slide across pages between its requests (contract.go:353-464).
THEOREM NothingSlidesPast == Spec => []NothingMissedUnlessRemoved
<1>1. Inv => NothingMissedUnlessRemoved
  BY DEF Inv, MissedInv, NothingMissedUnlessRemoved
<1> QED
  BY <1>1, InvHolds, PTL

\* Without removals and hidden items, sliding is never taken for a return
\* (diff.go:218).
THEOREM SlidingIsNoReturn == Spec => []NoReappearanceBySliding
<1>1. Inv => NoReappearanceBySliding
  BY DEF Inv, SlideInv, NoReappearanceBySliding
<1> QED
  BY <1>1, InvHolds, PTL

\* No history is announced as new when no page before the last is empty,
\* however many items are removed during a read (contract.go:353-464,
\* timeline_catchup_test.go:197).
THEOREM HistoryStaysQuiet == Spec => []NoHistoryUnlessHidden
<1>1. Inv => NoHistoryUnlessHidden
  <2> SUFFICES ASSUME Inv, AllShown
               PROVE  NoHistoryAnnounced
    BY DEF NoHistoryUnlessHidden
  <2>1. CASE Known
    BY <2>1 DEF Inv, HistoryInv
  <2>2. CASE ~Known
    <3>1. DOMAIN events = {}
      BY <2>2 DEF Inv, KnownInv
    <3> QED
      BY <3>1 DEF NoHistoryAnnounced, Added
  <2> QED
    BY <2>1, <2>2
<1> QED
  BY <1>1, InvHolds, PTL

-----------------------------------------------------------------------------
(* What consumers know of the newest page. *)

\* Told, of any events and any first snapshot.
ToldOf(told, start, id) ==
  LET about == {i \in DOMAIN told : told[i].activity.id = id}
      known == {i \in DOMAIN start : start[i].id = id}
  IN  IF about # {}
      THEN told[CHOOSE i \in about : \A j \in about : j <= i].activity.version
      ELSE IF known # {} THEN start[CHOOSE i \in known : TRUE].version ELSE None

\* While nothing is removed, all that was shown on the newest page when the
\* last complete read began is in the boundary, and on the first page of the
\* read in progress if it has one; and consumers know what the boundary holds as
\* the baseline has it.
HeadInv ==
  /\ Begun => \A j \in DOMAIN reader.pages[1] : \E i \in DOMAIN reader.items :
       reader.items[i] = reader.pages[1][j]
  /\ removed = {} =>
       /\ Known => \A i \in DOMAIN timeline :
            /\ timeline[i].shown
            /\ covered.until - PageSize < timeline[i].id /\ timeline[i].id <= covered.until
            => timeline[i].id \in Boundary
       /\ Begun => \A i \in DOMAIN timeline :
            /\ timeline[i].shown
            /\ reader.published - PageSize < timeline[i].id
            /\ timeline[i].id <= reader.published
            => timeline[i].id \in IdsOf(reader.pages[1])
       /\ Known => \A i \in DOMAIN baseline.items :
            baseline.items[i].id \in Boundary =>
              ToldOf(events, first, baseline.items[i].id) = baseline.items[i].version

LEMMA ToldFirst ==
  ASSUME NEW items \in Seq(Activities), NEW j \in DOMAIN items,
         \A i \in DOMAIN items : items[i].id = items[j].id => i = j
  PROVE  ToldOf(<<>>, items, items[j].id) = items[j].version
<1> DEFINE id == items[j].id
           about == {i \in DOMAIN <<>> : <<>>[i].activity.id = id}
           known == {i \in DOMAIN items : items[i].id = id}
<1>1. about = {}
  OBVIOUS
<1>2. known = {j}
  OBVIOUS
<1>3. (CHOOSE i \in known : TRUE) = j
  BY <1>2
<1>4. known # {}
  BY <1>2
<1> QED
  BY <1>1, <1>3, <1>4 DEF ToldOf

\* The last event about an item is what consumers know of it.
LEMMA ToldLast ==
  ASSUME NEW told \in Seq(Events), NEW start, NEW k \in DOMAIN told,
         \A j \in DOMAIN told : told[j].activity.id = told[k].activity.id => j <= k
  PROVE  ToldOf(told, start, told[k].activity.id) = told[k].activity.version
<1> DEFINE id == told[k].activity.id
           about == {i \in DOMAIN told : told[i].activity.id = id}
<1>1. k \in about /\ about # {} /\ \A j \in about : j <= k
  OBVIOUS
<1>2. \A i \in about : i \in Int
  OBVIOUS
<1> HIDE DEF about
<1>3. \A i \in about : (\A j \in about : j <= i) => i = k
  BY <1>1, <1>2
<1>4. (CHOOSE i \in about : \A j \in about : j <= i) = k
  BY <1>1, <1>3
<1> QED
  BY <1>1, <1>4 DEF ToldOf, about

\* Events about other items do not change what consumers know of an item.
LEMMA ToldBefore ==
  ASSUME NEW old \in Seq(Events), NEW all \in Seq(Events), NEW start, NEW id,
         \A i \in DOMAIN old : i \in DOMAIN all /\ all[i] = old[i],
         \A i \in DOMAIN all \ DOMAIN old : all[i].activity.id # id
  PROVE  ToldOf(all, start, id) = ToldOf(old, start, id)
<1> DEFINE about == {i \in DOMAIN old : old[i].activity.id = id}
           aboutAll == {i \in DOMAIN all : all[i].activity.id = id}
<1>1. aboutAll = about
  OBVIOUS
<1>2. CASE about = {}
  BY <1>1, <1>2 DEF ToldOf
<1>3. CASE about # {}
  <2> DEFINE Rest == {m \in Nat : \E i \in about : m = Len(old) - i}
             last == CHOOSE i \in about : \A j \in about : j <= i
  <2>1. Len(old) \in Nat /\ \A i \in about : i \in Nat /\ i <= Len(old)
    OBVIOUS
  <2> HIDE DEF about
  <2>2. Rest # {} /\ Rest \subseteq Nat
    <3>1. PICK i \in about : TRUE
      BY <1>3
    <3>2. Len(old) - i \in Rest
      BY <2>1, <3>1
    <3> QED
      BY <3>2
  <2>3. PICK m \in Rest : \A n \in Rest : m <= n
    <3> HIDE DEF Rest
    <3> QED
      BY <2>2, LeastElement
  <2>4. PICK greatest \in about : m = Len(old) - greatest
    BY <2>3
  <2>5. ASSUME NEW j \in about PROVE j <= greatest
    <3>1. Len(old) - j \in Rest
      BY <2>1, <2>5
    <3>2. m <= Len(old) - j
      BY <2>3, <3>1
    <3> QED
      BY <2>1, <2>4, <2>5, <3>2
  <2>6. last \in about
    BY <2>4, <2>5
  <2> HIDE DEF last
  <2>7. all[last] = old[last]
    BY <2>6 DEF about
  <2>8. ToldOf(old, start, id) = old[last].activity.version
    BY <1>3 DEF ToldOf, about, last
  <2>9. ToldOf(all, start, id) = all[last].activity.version
    <3>1. aboutAll # {} /\ (CHOOSE i \in aboutAll : \A j \in aboutAll : j <= i) = last
      BY <1>1, <1>3 DEF last
    <3> QED
      BY <3>1 DEF ToldOf
  <2> QED
    BY <2>7, <2>8, <2>9
<1> QED
  BY <1>2, <1>3

\* Whatever is shown on the newest page is of the newest entries.
LEMMA HeadRange ==
  ASSUME TypeOK, PortalInv, removed = {}
  PROVE  /\ \A i \in DOMAIN timeline :
              timeline[i].shown /\ published - PageSize < timeline[i].id
              => timeline[i].id \in IdsOf(Page(1))
         /\ \A id \in IdsOf(Page(1)) :
              /\ published - PageSize < id
              /\ \E i \in DOMAIN timeline : timeline[i].id = id /\ timeline[i].shown
<1>1. 1 \in Nat \ {0}
  OBVIOUS
<1>2. PageSize \in Nat /\ published \in Nat
  BY EntryTypes
<1>3. 1 * PageSize = PageSize /\ published - (1 - 1) * PageSize = published
  <2>1. 1 - 1 = 0
    OBVIOUS
  <2> QED
    BY <1>2, <2>1
<1>4. /\ \A id \in IdsOf(Page(1)) :
           published - 1 * PageSize < id /\ id <= published - (1 - 1) * PageSize
      /\ \A i \in DOMAIN timeline :
           /\ timeline[i].shown
           /\ published - 1 * PageSize < timeline[i].id
           /\ timeline[i].id <= published - (1 - 1) * PageSize
           => timeline[i].id \in IdsOf(Page(1))
  BY <1>1, PageRange
<1>5. \A i \in DOMAIN timeline : timeline[i].id <= published
  BY DEF PortalInv
<1>6. \A id \in IdsOf(Page(1)) : \E i \in DOMAIN timeline :
        timeline[i].id = id /\ timeline[i].shown
  BY <1>1, PageIds
<1> QED
  BY <1>3, <1>4, <1>5, <1>6

LEMMA PageStays ==
  ASSUME timeline' = timeline
  PROVE  Page(1)' = Page(1)
<1> DEFINE last  == IF 1 * PageSize < Len(timeline) THEN 1 * PageSize ELSE Len(timeline)
           slice == SubSeq(timeline, (1 - 1) * PageSize + 1, last)
           shown == Selected(slice, {i \in DOMAIN slice : slice[i].shown})
<1>1. slice' = slice
  OBVIOUS
<1>2. shown' = shown
  BY <1>1 DEF Selected
<1>3. Page(1) = [i \in DOMAIN shown |-> Activity(shown[i])]
  BY DEF Page
<1>4. Page(1)' = [i \in DOMAIN shown' |-> Activity(shown'[i])]
  BY DEF Page, Activity
<1> HIDE DEF shown, slice
<1> QED
  BY <1>2, <1>3, <1>4

\* The items of a page have different ids.
LEMMA PageDistinct ==
  ASSUME TypeOK, PortalInv
  PROVE  /\ Page(1) \in Seq(Activities)
         /\ \A i, j \in DOMAIN Page(1) : Page(1)[i].id = Page(1)[j].id => i = j
<1>1. 1 \in Nat \ {0}
  OBVIOUS
<1>2. /\ Page(1) \in Seq(Activities)
      /\ \A j, l \in DOMAIN Page(1) : j < l => Page(1)[l].id < Page(1)[j].id
  BY <1>1, PageIds
<1>3. \A activity \in Activities : activity.id \in Int
  BY TimelineAssumption DEF Activities, Ids
<1> DEFINE page == Page(1)
<1>4. /\ page \in Seq(Activities)
      /\ \A j, l \in DOMAIN page : j < l => page[l].id < page[j].id
  BY <1>2
<1> HIDE DEF page
<1>5. \A i \in DOMAIN page : i \in Int /\ page[i].id \in Int
  <2>1. \A i \in DOMAIN page : i \in Int /\ page[i] \in Activities
    BY <1>4
  <2> QED
    BY <1>3, <2>1
<1>6. \A i, j \in DOMAIN page : page[i].id = page[j].id => i = j
  BY <1>4, <1>5
<1> QED
  BY <1>2, <1>6 DEF page

\* The portal's steps change none of it: what they publish is newer.
LEMMA PortalHead ==
  ASSUME Inv, HeadInv, PortalStep
  PROVE  HeadInv'
<1>1. /\ UNCHANGED <<reader, historyVars>> /\ reader' = reader
      /\ Known' = Known /\ Boundary' = Boundary /\ Begun' = Begun
  BY PortalKeeps
<1>2. baseline' = baseline /\ events' = events /\ first' = first /\ covered' = covered
  BY <1>1 DEF historyVars
<1>3. TypeOK /\ PortalInv /\ KnownInv /\ ReaderInv
  BY DEF Inv
<1>4. ASSUME removed' = {}
      PROVE  /\ removed = {}
             /\ \A i \in DOMAIN timeline' :
                  \/ timeline'[i].id = published + 1
                  \/ \E j \in DOMAIN timeline : /\ timeline'[i].id = timeline[j].id
                                                /\ timeline'[i].shown = timeline[j].shown
  BY <1>3, <1>4, ShownBefore, OlderEntries
<1>5. published \in Nat
  BY <1>3, EntryTypes
<1>6. ASSUME removed' = {}, Known, NEW i \in DOMAIN timeline', timeline'[i].shown,
             covered.until - PageSize < timeline'[i].id, timeline'[i].id <= covered.until
      PROVE  timeline'[i].id \in Boundary
  <2>1. covered.until <= published /\ covered.until \in Nat
    BY <1>3, <1>6, Numbers DEF KnownInv
  <2>2. timeline'[i].id # published + 1
    BY <1>5, <1>6, <2>1
  <2>3. PICK j \in DOMAIN timeline : /\ timeline'[i].id = timeline[j].id
                                     /\ timeline'[i].shown = timeline[j].shown
    BY <1>4, <1>6, <2>2
  <2> QED
    BY <1>4, <1>6, <2>3 DEF HeadInv
<1>7. ASSUME removed' = {}, Begun, NEW i \in DOMAIN timeline', timeline'[i].shown,
             reader.published - PageSize < timeline'[i].id, timeline'[i].id <= reader.published
      PROVE  timeline'[i].id \in IdsOf(reader.pages[1])
  <2>1. reader.published <= published /\ reader.published \in Nat
    BY <1>3, <1>7, Numbers DEF ReaderInv, Begun
  <2>2. timeline'[i].id # published + 1
    BY <1>5, <1>7, <2>1
  <2>3. PICK j \in DOMAIN timeline : /\ timeline'[i].id = timeline[j].id
                                     /\ timeline'[i].shown = timeline[j].shown
    BY <1>4, <1>7, <2>2
  <2> QED
    BY <1>4, <1>7, <2>3 DEF HeadInv
<1>8. \A id : ToldOf(events, first, id)' = ToldOf(events, first, id)
  BY <1>2 DEF ToldOf
<1> QED
  BY <1>1, <1>2, <1>4, <1>6, <1>7, <1>8 DEF HeadInv

\* A page taken in: the first stays in what was read, and is the newest one of
\* when the read began.
LEMMA TakenFirst ==
  ASSUME Inv, HeadInv, Paging, Takes(Page(reader.page))
  PROVE  /\ \A j \in DOMAIN reader'.pages[1] : \E i \in DOMAIN reader'.items :
              reader'.items[i] = reader'.pages[1][j]
         /\ removed = {} => \A i \in DOMAIN timeline :
              /\ timeline[i].shown
              /\ reader'.published - PageSize < timeline[i].id
              /\ timeline[i].id <= reader'.published
              => timeline[i].id \in IdsOf(reader'.pages[1])
<1> DEFINE page == Page(reader.page)
<1>1. TypeOK /\ PortalInv /\ ReaderInv
  BY DEF Inv
<1>2. /\ reader'.pages[1] = IF reader.page = 1 THEN page ELSE reader.pages[1]
      /\ page \in Seq(Activities)
  BY <1>1, TakenItems
<1>3. /\ reader'.items = reader.items \o Unread(reader.items, page)
      /\ reader'.published = IF reader.page = 1 THEN published ELSE reader.published
  BY DEF Takes
<1>4. /\ reader # None /\ reader \in Readers /\ reader.items \in Seq(Activities)
      /\ Len(reader.pages) = reader.page - 1 /\ reader.page \in Nat
  BY <1>1, Numbers DEF Paging, ReaderInv, Readers
<1>5. /\ Unread(reader.items, page) \in Seq(Activities)
      /\ \A i \in DOMAIN reader.items :
           i \in DOMAIN reader'.items /\ reader'.items[i] = reader.items[i]
  <2> HIDE DEF page
  <2>1. Unread(reader.items, page) \in Seq(Activities)
    BY <1>2, SelectedFacts DEF Unread
  <2> DEFINE read == reader.items
             rest == Unread(read, page)
  <2>2. read \in Seq(Activities) /\ rest \in Seq(Activities)
    BY <1>4, <2>1
  <2> HIDE DEF read, rest
  <2>3. \A i \in DOMAIN read : i \in DOMAIN (read \o rest) /\ (read \o rest)[i] = read[i]
    BY <2>2
  <2> QED
    BY <1>3, <2>1, <2>3 DEF read, rest
<1>6. CASE reader.page = 1
  <2>1. reader.pages = <<>>
    <3>1. reader.pages \in Seq(Seq(Activities)) /\ Len(reader.pages) = 0
      BY <1>4, <1>6 DEF Readers
    <3> QED
      BY <3>1
  <2>2. reader.items = <<>>
    BY <1>1, <1>4, <2>1 DEF ReaderInv
  <2>3. reader'.items = page
    <3>1. IdsOf(<<>>) = {}
      BY DEF IdsOf
    <3>2. Unread(<<>>, page) = Selected(page, DOMAIN page)
      BY <3>1 DEF Unread
    <3> HIDE DEF page
    <3>3. Selected(page, DOMAIN page) = page
      BY <1>2, SelectedAll
    <3> QED
      BY <1>2, <1>3, <2>2, <3>2, <3>3
  <2>4. page = Page(1)
    BY <1>6
  <2> HIDE DEF page
  <2>5. removed = {} => \A i \in DOMAIN timeline :
          /\ timeline[i].shown
          /\ published - PageSize < timeline[i].id
          => timeline[i].id \in IdsOf(page)
    BY <1>1, <2>4, HeadRange
  <2> QED
    BY <1>2, <1>3, <1>6, <2>3, <2>5
<1>7. CASE reader.page # 1
  <2>1. reader.pages # <<>>
    <3>1. Len(reader.pages) # 0
      BY <1>4, <1>7
    <3> QED
      BY <3>1, EmptySeq
  <2>2. Begun
    BY <1>4, <2>1 DEF Begun
  <2>3. /\ \A j \in DOMAIN reader.pages[1] : \E i \in DOMAIN reader.items :
             reader.items[i] = reader.pages[1][j]
        /\ removed = {} => \A i \in DOMAIN timeline :
             /\ timeline[i].shown
             /\ reader.published - PageSize < timeline[i].id
             /\ timeline[i].id <= reader.published
             => timeline[i].id \in IdsOf(reader.pages[1])
    BY <2>2 DEF HeadInv
  <2>4. reader'.pages[1] = reader.pages[1] /\ reader'.published = reader.published
    BY <1>2, <1>3, <1>7
  <2> QED
    BY <1>5, <2>3, <2>4
<1> QED
  BY <1>6, <1>7

\* A step that only changes the reader.
LEMMA ReaderHead ==
  ASSUME HeadInv, UNCHANGED <<portalVars, historyVars>>,
         Begun' =>
           /\ \A j \in DOMAIN reader'.pages[1] : \E i \in DOMAIN reader'.items :
                reader'.items[i] = reader'.pages[1][j]
           /\ removed = {} => \A i \in DOMAIN timeline :
                /\ timeline[i].shown
                /\ reader'.published - PageSize < timeline[i].id
                /\ timeline[i].id <= reader'.published
                => timeline[i].id \in IdsOf(reader'.pages[1])
  PROVE  HeadInv'
<1>1. /\ timeline' = timeline /\ published' = published /\ removed' = removed
      /\ baseline' = baseline /\ events' = events /\ first' = first /\ covered' = covered
      /\ Known' = Known /\ Boundary' = Boundary
  BY FilesKept
<1>2. \A id : ToldOf(events, first, id)' = ToldOf(events, first, id)
  BY <1>1 DEF ToldOf
<1> QED
  BY <1>1, <1>2 DEF HeadInv

\* The first baseline: all of it is told.
LEMMA EstablishHead ==
  ASSUME Inv, EstablishBaseline
  PROVE  /\ \A i \in DOMAIN Page(1) :
              ToldOf(events', first', Page(1)[i].id) = Page(1)[i].version
         /\ Page(1)' = Page(1)
         /\ HeadInv'
<1> DEFINE page == Page(1)
<1>1. TypeOK /\ PortalInv /\ KnownInv
  BY DEF Inv
<1>2. /\ ~Known /\ Page(reader.page) = page
      /\ baseline' = [items |-> page, boundary |-> IdsOf(page)]
      /\ first' = page
      /\ covered' = [since |-> published, until |-> published]
      /\ reader' = None
      /\ timeline' = timeline /\ published' = published /\ removed' = removed
      /\ events' = events
  <2>1. reader.page = 1
    BY DEF EstablishBaseline, Establishes
  <2> QED
    BY <2>1 DEF EstablishBaseline, Establishes, portalVars
<1>3. events' = <<>>
  BY <1>1, <1>2 DEF KnownInv
<1>4. page \in Seq(Activities) /\ \A i, j \in DOMAIN page : page[i].id = page[j].id => i = j
  BY <1>1, PageDistinct
<1>5. removed = {} => \A i \in DOMAIN timeline :
        /\ timeline[i].shown /\ published - PageSize < timeline[i].id
        => timeline[i].id \in IdsOf(page)
  BY <1>1, HeadRange
<1>6. Page(1)' = page
  BY <1>2, PageStays
<1> HIDE DEF page
<1>7. ASSUME NEW i \in DOMAIN page
      PROVE  ToldOf(events', first', page[i].id) = page[i].version
  <2>1. ToldOf(<<>>, page, page[i].id) = page[i].version
    BY <1>4, ToldFirst
  <2> QED
    BY <1>2, <1>3, <2>1
<1>8. baseline'.items = page /\ covered'.until = published /\ ~Begun'
  BY <1>2 DEF Begun
<1>9. Known' => Boundary' = IdsOf(page)
  BY <1>2 DEF Boundary
<1>10. HeadInv'
  BY <1>2, <1>5, <1>7, <1>8, <1>9 DEF HeadInv
<1> QED
  BY <1>6, <1>7, <1>10 DEF page

\* An item that was read and was not known as it is, and is new if it was never
\* seen, has an event behind all earlier ones, and no other new one.
LEMMA CompleteReports ==
  ASSUME Inv, Complete, Known, NEW j \in DOMAIN reader.items,
         ~Unchanged(reader.items[j]),
         KindOf(reader.items[j]) = "activity_added" => reader.items[j].id \in reader.newIds
  PROVE  ToldOf(events', first', reader.items[j].id) = reader.items[j].version
<1> DEFINE items == reader.items
           newIds == reader.newIds
           item == items[j]
<1>1. /\ reader # None /\ reader \in Readers
      /\ events' = events \o EventsOf(items, newIds)
  BY CompleteFiles
<1>2. /\ items \in Seq(Activities) /\ events \in Seq(Events)
      /\ \A i, k \in DOMAIN items : items[i].id = items[k].id => i = k
  BY <1>1 DEF Inv, TypeOK, Readers, ReaderInv
<1>3. /\ events' \in Seq(Events)
      /\ \A i, k \in DOMAIN events' \ DOMAIN events :
           events'[i].activity.id = events'[k].activity.id => i = k
  BY CompleteEvents
<1>4. ~Unchanged(item) /\ (KindOf(item) = "activity_added" => item.id \in newIds)
  OBVIOUS
<1> HIDE DEF items, newIds
<1>5. PICK fresh :
        /\ fresh = EventsOf(items, newIds)
        /\ fresh \in Seq(Events)
        /\ \A i \in DOMAIN items :
             /\ ~Unchanged(items[i])
             /\ KindOf(items[i]) = "activity_added" => items[i].id \in newIds
             => \E k \in DOMAIN fresh : Reports(fresh[k], items[i], newIds)
  BY <1>2, EventsFacts
<1>6. j \in DOMAIN items
  BY DEF items
<1>7. PICK k \in DOMAIN fresh : Reports(fresh[k], item, newIds)
  BY <1>4, <1>5, <1>6
<1>8. fresh[k].activity = item
  BY <1>7 DEF Reports
<1> HIDE DEF item
<1>9. /\ Len(events) \in Nat /\ DOMAIN events = 1 .. Len(events)
      /\ \A i \in DOMAIN events' : i \in Nat
      /\ k \in 1 .. Len(fresh) /\ Len(fresh) \in Nat
  BY <1>2, <1>3, <1>5, <1>7
<1>10. PICK last \in Nat : last = Len(events) + k
  BY <1>9
<1>11. last \in DOMAIN events' \ DOMAIN events /\ events'[last] = fresh[k]
  <2>1. /\ Len(events \o fresh) = Len(events) + Len(fresh)
        /\ events \o fresh \in Seq(Events)
        /\ \A i \in 1 .. Len(events) + Len(fresh) :
             (events \o fresh)[i] = IF i <= Len(events) THEN events[i] ELSE fresh[i - Len(events)]
    BY <1>2, <1>5, ConcatProperties
  <2>2. last \in 1 .. Len(events) + Len(fresh) /\ ~(last <= Len(events)) /\ last - Len(events) = k
    BY <1>9, <1>10
  <2>3. DOMAIN (events \o fresh) = 1 .. Len(events) + Len(fresh)
    BY <2>1
  <2>4. (events \o fresh)[last] = fresh[k]
    BY <2>1, <2>2
  <2> QED
    BY <1>1, <1>5, <1>9, <2>2, <2>3, <2>4
<1>12. \A i \in DOMAIN events' : events'[i].activity.id = events'[last].activity.id => i <= last
  <2> TAKE i \in DOMAIN events'
  <2>1. CASE i \in DOMAIN events
    BY <1>9, <1>10, <2>1
  <2>2. CASE i \notin DOMAIN events
    <3> HAVE events'[i].activity.id = events'[last].activity.id
    <3>1. i = last
      BY <1>3, <1>11, <2>2
    <3> QED
      BY <1>10, <3>1
  <2> QED
    BY <2>1, <2>2
<1>13. ToldOf(events', first', events'[last].activity.id) = events'[last].activity.version
  <2> DEFINE all == events'
  <2>1. /\ all \in Seq(Events) /\ last \in DOMAIN all
        /\ \A i \in DOMAIN all : all[i].activity.id = all[last].activity.id => i <= last
    BY <1>3, <1>11, <1>12
  <2> HIDE DEF all
  <2>2. ToldOf(all, first', all[last].activity.id) = all[last].activity.version
    BY <2>1, ToldLast
  <2> QED
    BY <2>2 DEF all
<1> QED
  BY <1>8, <1>11, <1>13 DEF item, items

\* An item that is known as it is has no event.
LEMMA CompleteKeeps ==
  ASSUME Inv, Complete, Known, NEW j \in DOMAIN reader.items, Unchanged(reader.items[j])
  PROVE  ToldOf(events', first', reader.items[j].id) = ToldOf(events, first, reader.items[j].id)
<1> DEFINE items == reader.items
           id == items[j].id
<1>1. reader # None /\ first' = first
  BY CompleteFiles
<1>2. /\ events \in Seq(Events)
      /\ \A i, k \in DOMAIN items : items[i].id = items[k].id => i = k
  BY <1>1 DEF Inv, TypeOK, ReaderInv
<1>3. /\ events' \in Seq(Events)
      /\ \A i \in DOMAIN events : i \in DOMAIN events' /\ events'[i] = events[i]
      /\ \A i \in DOMAIN events' \ DOMAIN events : \E k \in DOMAIN items :
           Reports(events'[i], items[k], reader.newIds)
  BY CompleteEvents
<1>4. j \in DOMAIN items /\ Unchanged(items[j])
  OBVIOUS
<1> HIDE DEF items
<1>5. ASSUME NEW i \in DOMAIN events' \ DOMAIN events
      PROVE  events'[i].activity.id # id
  <2>1. PICK k \in DOMAIN items : Reports(events'[i], items[k], reader.newIds)
    BY <1>3, <1>5
  <2>2. events'[i].activity = items[k] /\ ~Unchanged(items[k])
    BY <2>1 DEF Reports
  <2>3. k # j
    BY <1>4, <2>2
  <2> QED
    BY <1>2, <1>4, <2>2, <2>3
<1> HIDE DEF id
<1>6. ToldOf(events', first, id) = ToldOf(events, first, id)
  BY <1>2, <1>3, <1>5, ToldBefore
<1> QED
  BY <1>1, <1>6 DEF id, items

\* A complete read tells all of the newest page: its items that lay in the
\* boundary were known, and no other one is older than the last complete read.
LEMMA CompleteTold ==
  ASSUME Inv, HeadInv, Complete, removed = {}, NEW j \in DOMAIN reader.items,
         reader.items[j].id \in IdsOf(reader.pages[1])
  PROVE  ToldOf(events', first', reader.items[j].id) = reader.items[j].version
<1> DEFINE item == reader.items[j]
<1>1. /\ Revalidating /\ HeadUnchanged /\ reader # None /\ reader \in Readers
      /\ reader.pages # <<>> /\ reader.published \in Nat
      /\ ~Known => events' = <<>> /\ first' = reader.items
  BY CompleteFiles
<1>2. TypeOK /\ PortalInv /\ KnownInv /\ ReaderInv /\ MissedInv
  BY DEF Inv
<1>3. /\ reader.items \in Seq(Activities)
      /\ \A i, k \in DOMAIN reader.items : reader.items[i].id = reader.items[k].id => i = k
      /\ item.id <= reader.published /\ reader.published <= published
  BY <1>1, <1>2 DEF Readers, ReaderInv
<1>4. CASE ~Known
  <2> DEFINE items == reader.items
  <2>1. /\ items \in Seq(Activities) /\ j \in DOMAIN items
        /\ \A i \in DOMAIN items : items[i].id = items[j].id => i = j
    BY <1>3
  <2> HIDE DEF items
  <2>2. ToldOf(<<>>, items, items[j].id) = items[j].version
    BY <2>1, ToldFirst
  <2> QED
    BY <1>1, <1>4, <2>2 DEF items
<1>5. CASE Known
  <2>1. PICK i \in DOMAIN timeline :
          /\ timeline[i].id = item.id /\ timeline[i].shown
          /\ published - PageSize < item.id
    <3>1. item.id \in IdsOf(Page(1))
      BY <1>1 DEF HeadUnchanged
    <3>2. \A id \in IdsOf(Page(1)) :
            /\ published - PageSize < id
            /\ \E i \in DOMAIN timeline : timeline[i].id = id /\ timeline[i].shown
      BY <1>2, HeadRange
    <3> HIDE DEF item
    <3> QED
      BY <3>1, <3>2
  <2>2. /\ covered.until \in Nat /\ covered.until <= reader.published
        /\ published \in Nat /\ PageSize \in Nat /\ timeline[i].id \in Nat
        /\ Boundary \subseteq IdsOf(baseline.items)
        /\ IdsOf(baseline.items) \subseteq seen
        /\ \A id \in seen : id <= covered.until
    BY <1>1, <1>2, <1>5, Numbers, EntryTypes DEF KnownInv, ReaderInv, MissedInv
  <2>3. covered.until - PageSize < item.id /\ (item.id <= covered.until \/ covered.until < item.id)
    <3> HIDE DEF item
    <3> QED
      BY <1>1, <1>3, <2>1, <2>2
  <2>4. item.id <= covered.until => item.id \in Boundary
    BY <1>5, <2>1, <2>3 DEF HeadInv
  <2>5. covered.until < item.id => item.id \in reader.newIds
    <3>1. ~Paging
      BY <1>1 DEF Paging, Revalidating
    <3>2. covered.until < item.id =>
            timeline[i].shown /\ timeline[i].id <= reader.published /\ covered.until < timeline[i].id
      BY <1>3, <2>1
    <3>3. covered.until < item.id => timeline[i].id \in reader.newIds
      BY <1>1, <1>2, <1>5, <3>1, <3>2 DEF MissedInv
    <3> QED
      BY <2>1, <3>3
  <2>6. CASE Unchanged(item)
    <3>1. PICK k \in DOMAIN baseline.items : baseline.items[k] = item
      BY <2>6 DEF Unchanged
    <3>2. item.id \in IdsOf(baseline.items)
      BY <3>1 DEF IdsOf
    <3>3. item.id \in Boundary
      BY <2>2, <2>4, <3>2
    <3>4. ToldOf(events, first, item.id) = item.version
      BY <1>5, <3>1, <3>3 DEF HeadInv
    <3>5. ToldOf(events', first', item.id) = ToldOf(events, first, item.id)
      BY <1>5, <2>6, CompleteKeeps
    <3> QED
      BY <3>4, <3>5
  <2>7. CASE ~Unchanged(item)
    <3>1. KindOf(item) = "activity_added" => item.id \in reader.newIds
      <4> SUFFICES ASSUME KindOf(item) = "activity_added"
                   PROVE  item.id \in reader.newIds
        OBVIOUS
      <4>1. item.id \notin IdsOf(baseline.items)
        BY DEF KindOf
      <4> QED
        BY <2>2, <2>3, <2>4, <2>5, <4>1
    <3> QED
      BY <1>5, <2>7, <3>1, CompleteReports
  <2> QED
    BY <2>6, <2>7
<1> QED
  BY <1>4, <1>5

LEMMA CompleteHead ==
  ASSUME Inv, HeadInv, Complete
  PROVE  /\ removed = {} => \A i \in DOMAIN Page(1) :
              ToldOf(events', first', Page(1)[i].id) = Page(1)[i].version
         /\ Page(1)' = Page(1)
         /\ HeadInv'
<1>1. /\ HeadUnchanged /\ reader # None /\ reader.pages # <<>> /\ ~Begun'
      /\ timeline' = timeline /\ removed' = removed
      /\ baseline'.items = reader.items
      /\ Boundary' = IdsOf(reader.pages[1])
      /\ covered'.until = reader.published
  BY CompleteFiles
<1>2. Page(1)' = Page(1)
  BY <1>1, PageStays
<1>3. /\ \A j \in DOMAIN reader.pages[1] : \E i \in DOMAIN reader.items :
           reader.items[i] = reader.pages[1][j]
      /\ removed = {} => \A i \in DOMAIN timeline :
           /\ timeline[i].shown
           /\ reader.published - PageSize < timeline[i].id
           /\ timeline[i].id <= reader.published
           => timeline[i].id \in IdsOf(reader.pages[1])
  BY <1>1 DEF HeadInv, Begun
<1>4. removed = {} => \A i \in DOMAIN reader.items :
        reader.items[i].id \in IdsOf(reader.pages[1]) =>
          ToldOf(events', first', reader.items[i].id) = reader.items[i].version
  BY CompleteTold
<1>5. ASSUME removed = {}, NEW j \in DOMAIN Page(1)
      PROVE  ToldOf(events', first', Page(1)[j].id) = Page(1)[j].version
  <2>1. Page(1) = reader.pages[1]
    BY <1>1 DEF HeadUnchanged
  <2>2. PICK i \in DOMAIN reader.items : reader.items[i] = Page(1)[j]
    BY <1>3, <1>5, <2>1
  <2>3. Page(1)[j].id \in IdsOf(reader.pages[1])
    BY <1>5, <2>1 DEF IdsOf
  <2> QED
    BY <1>4, <1>5, <2>2, <2>3
<1>6. HeadInv'
  <2>1. removed' = {} => /\ removed = {}
                         /\ \A i \in DOMAIN timeline' :
                              /\ timeline'[i].shown
                              /\ covered'.until - PageSize < timeline'[i].id
                              /\ timeline'[i].id <= covered'.until
                              => timeline'[i].id \in Boundary'
    BY <1>1, <1>3
  <2>2. removed' = {} => \A i \in DOMAIN baseline'.items :
          baseline'.items[i].id \in Boundary' =>
            ToldOf(events', first', baseline'.items[i].id) = baseline'.items[i].version
    BY <1>1, <1>4
  <2> QED
    BY <1>1, <2>1, <2>2 DEF HeadInv
<1> QED
  BY <1>2, <1>5, <1>6

LEMMA HeadInitial == Init => HeadInv
  BY DEF Init, HeadInv, Begun, Known

LEMMA HeadInductive == Inv /\ HeadInv /\ [Next]_vars => HeadInv'
<1> SUFFICES ASSUME Inv, HeadInv, [Next]_vars
             PROVE  HeadInv'
  OBVIOUS
<1>1. TypeOK /\ PortalInv /\ KnownInv /\ ReaderInv
  BY DEF Inv
<1>2. CASE PortalStep
  BY <1>2, PortalHead
<1>3. CASE BeginRead
  <2>1. reader'.pages = <<>> /\ UNCHANGED <<portalVars, historyVars>>
    BY <1>3 DEF BeginRead
  <2> QED
    BY <2>1, ReaderHead DEF Begun
<1>4. CASE EstablishBaseline
  BY <1>4, EstablishHead
<1>5. CASE ReadOn
  <2>1. ReadsOn
    BY <1>1, <1>5, ReadOnFields
  <2>2. Paging /\ Takes(Page(reader.page)) /\ UNCHANGED <<portalVars, historyVars>>
    BY <2>1 DEF ReadsOn
  <2> QED
    BY <2>2, TakenFirst, ReaderHead
<1>6. CASE ReachEnd
  <2>1. ReachesEnd
    BY <1>1, <1>6, ReachEndFields
  <2>2. Paging /\ Takes(Page(reader.page)) /\ UNCHANGED <<portalVars, historyVars>>
    BY <2>1 DEF ReachesEnd
  <2> QED
    BY <2>2, TakenFirst, ReaderHead
<1>7. CASE Complete
  BY <1>7, CompleteHead
<1>8. CASE Incomplete \/ Interrupt
  <2>1. reader' = None /\ UNCHANGED <<portalVars, historyVars>>
    BY <1>8 DEF Incomplete, Interrupt
  <2> QED
    BY <2>1, ReaderHead DEF Begun
<1>9. CASE UNCHANGED vars
  <2>1. UNCHANGED <<portalVars, historyVars>> /\ reader' = reader /\ (Begun' => Begun)
    BY <1>9 DEF vars, Begun
  <2> QED
    BY <2>1, ReaderHead DEF HeadInv
<1> QED
  BY <1>2, <1>3, <1>4, <1>5, <1>6, <1>7, <1>8, <1>9 DEF Next, CheckStep

\* When a check completes and nothing was removed, its consumers know the newest
\* page as the second look showed it, corrections included, whatever is hidden and
\* however many checks were interrupted (contract.go:442-464).
THEOREM HeadIsKnown == Spec => HeadIsCurrent
<1>1. Inv /\ HeadInv /\ [Next]_vars =>
        [ reader # None /\ baseline' # baseline /\ removed = {} =>
            \A i \in DOMAIN Page(1) : Told(Page(1)[i].id)' = Page(1)[i].version ]_vars
  <2> SUFFICES ASSUME Inv, HeadInv, Next, baseline' # baseline, removed = {},
                      NEW i \in DOMAIN Page(1)
               PROVE  Told(Page(1)[i].id)' = Page(1)[i].version
    BY DEF vars, historyVars
  <2>1. EstablishBaseline \/ Complete
    <3>1. ~(UNCHANGED historyVars)
      BY DEF historyVars
    <3>2. ~PortalStep
      BY <3>1 DEF PortalStep, Publish, Correct, Delete
    <3> QED
      BY <3>1, <3>2 DEF Next, CheckStep, BeginRead, ReadOn, ReachEnd, Incomplete, Interrupt
  <2>2. /\ Page(1)' = Page(1)
        /\ ToldOf(events', first', Page(1)[i].id) = Page(1)[i].version
    BY <2>1, EstablishHead, CompleteHead
  <2>3. Told(Page(1)[i].id)' = ToldOf(events', first', Page(1)'[i].id)
    BY DEF Told, ToldOf
  <2> QED
    BY <2>2, <2>3
<1>2. Spec => []HeadInv
  BY HeadInitial, HeadInductive, InvHolds, PTL DEF Spec
<1> QED
  BY <1>1, <1>2, InvHolds, PTL DEF Spec, HeadIsCurrent

=============================================================================
