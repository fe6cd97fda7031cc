--------------------------- MODULE TimelineCatchUp ---------------------------
(***************************************************************************)
(* How a check reads one enrolment's paginated timeline and turns it into  *)
(* activity events: readTimeline and completeStableTimeline of             *)
(* cmd/ednevnik/contract.go, reconcileActivities of internal/store/diff.go *)
(* and the filter between them.                                            *)
(*                                                                         *)
(* The portal shows the newest item first and cuts its timeline into pages *)
(* when a page is requested, so what it publishes, corrects or removes     *)
(* between two requests of one check moves items across page boundaries.   *)
(* An item may take a place on a page without being shown, so that a page  *)
(* that is not the last may be empty.  The portal is external: its actions *)
(* are what the code and its tests allow for.                              *)
(***************************************************************************)
EXTENDS Integers, Sequences, FiniteSets, SequencesExt, Selection

CONSTANTS
  PageSize,        \* places on a page of the portal
  PageLimit,       \* timelineCatchUpPageLimit
  Shown,           \* whether published items are shown, a subset of BOOLEAN
  MaxPublished,    \* bound: items the portal publishes
  MaxCorrections,  \* bound: corrections of one item
  MaxRemovals,     \* bound: items the portal removes
  None             \* no baseline, no read, nothing told

ASSUME TimelineAssumption ==
  /\ PageSize \in Nat \ {0} /\ PageLimit \in Nat \ {0}
  /\ Shown \subseteq BOOLEAN
  /\ MaxPublished \in Nat /\ MaxCorrections \in Nat /\ MaxRemovals \in Nat

Ids == 1 .. MaxPublished
Versions == 0 .. MaxCorrections
Activities == [id : Ids, version : Versions]
Entries == [id : Ids, version : Versions, shown : BOOLEAN]
Kinds == {"activity_added", "activity_updated", "activity_reappeared"}
Events == [kind : Kinds, activity : Activities]

\* checkstate.Baseline, as far as the timeline goes.
Baselines == [items : Seq(Activities), boundary : SUBSET Ids]

\* The local state of readTimeline.  Of its published, history: how many items
\* had been published when page 1 was requested.
Readers ==
  [phase     : {"paging", "revalidating"},
   page      : 1 .. PageLimit,
   items     : Seq(Activities),
   newIds    : SUBSET Ids,
   pages     : Seq(Seq(Activities)),
   lastPage  : Nat,
   published : 0 .. MaxPublished]

ASSUME NoneAssumption ==
  /\ None \notin Baselines /\ None \notin Readers
  /\ None \notin [since : 0 .. MaxPublished, until : 0 .. MaxPublished]

VARIABLES
  timeline,   \* the portal's timeline, newest first
  published,  \* how many items the portal has published; their ids
  removed,    \* the entries the portal has removed
  baseline,   \* the enrolment's baseline, or None
  seen,       \* SeenSourceRecords: ids of every snapshot so far
  reader,     \* the read in progress, or None
  events,     \* the activity events of all checks so far
  first,      \* history: the snapshot of the first baseline
  covered     \* history: how many items had been published when the first
              \* baseline was read, and when the last complete read began

portalVars == <<timeline, published, removed>>
historyVars == <<baseline, seen, events, first, covered>>
vars == <<portalVars, historyVars, reader>>

-----------------------------------------------------------------------------
(* The portal. *)

LastPage ==
  IF timeline = <<>> THEN 1 ELSE (Len(timeline) + PageSize - 1) \div PageSize

Activity(entry) == [id |-> entry.id, version |-> entry.version]

\* The items page k shows now.
Page(k) ==
  LET last  == IF k * PageSize < Len(timeline) THEN k * PageSize ELSE Len(timeline)
      slice == SubSeq(timeline, (k - 1) * PageSize + 1, last)
      shown == Selected(slice, {i \in DOMAIN slice : slice[i].shown})
  IN  [i \in DOMAIN shown |-> Activity(shown[i])]

Publish(shown) ==
  /\ published < MaxPublished
  /\ published' = published + 1
  /\ timeline' = <<[id |-> published + 1, version |-> 0, shown |-> shown]>> \o timeline
  /\ UNCHANGED <<removed, reader, historyVars>>

Correct(i) ==
  /\ timeline[i].version < MaxCorrections
  /\ timeline' = [timeline EXCEPT ![i].version = @ + 1]
  /\ UNCHANGED <<published, removed, reader, historyVars>>

Delete(i) ==
  /\ Cardinality(removed) < MaxRemovals
  /\ timeline' = RemoveAt(timeline, i)
  /\ removed' = removed \cup {timeline[i]}
  /\ UNCHANGED <<published, reader, historyVars>>

-----------------------------------------------------------------------------
(* The pure parts. *)

IdsOf(items) == {items[i].id : i \in DOMAIN items}

\* Mutant of NewPrefix: the item next to the boundary is not new.
NewPrefixShort(items, boundary) ==
  {items[i].id : i \in
     {j \in DOMAIN items :
        \A k \in DOMAIN items : k <= j + 1 => items[k].id \notin boundary}}

\* markNewActivityPrefix: what comes before the first item of the boundary.
NewPrefix(items, boundary) ==
  {items[i].id : i \in
     {j \in DOMAIN items : \A k \in 1 .. j : items[k].id \notin boundary}}

\* Items that were not read before, in the order of the page.
Unread(read, page) ==
  Selected(page, {i \in DOMAIN page : page[i].id \notin IdsOf(read)})

\* An item read before has other content now.
Conflicting(read, page) ==
  \E i \in DOMAIN read, j \in DOMAIN page :
    read[i].id = page[j].id /\ read[i] # page[j]

\* Mutant of KindOf: what earlier checks have seen is forgotten.
KindOfForgetful(item) ==
  IF item.id \notin IdsOf(baseline.items) THEN "activity_added" ELSE "activity_updated"

\* reconcileActivities, for one item.
KindOf(item) ==
  IF item.id \notin IdsOf(baseline.items)
  THEN IF item.id \in seen THEN "activity_reappeared" ELSE "activity_added"
  ELSE "activity_updated"

Unchanged(item) == \E i \in DOMAIN baseline.items : baseline.items[i] = item

\* Mutant of EventsOf: without the filter.
EventsUnfiltered(items, newIds) ==
  LET reported == Selected(items, {i \in DOMAIN items : ~Unchanged(items[i])})
  IN  [i \in DOMAIN reported |->
         [kind |-> KindOf(reported[i]), activity |-> reported[i]]]

\* reconcileActivities and filterTimelineAdditions: an addition counts only
\* when its item came before the point of overlap.
EventsOf(items, newIds) ==
  LET Reported(item) ==
        /\ ~Unchanged(item)
        /\ KindOf(item) = "activity_added" => item.id \in newIds
      reported == Selected(items, {i \in DOMAIN items : Reported(items[i])})
  IN  [i \in DOMAIN reported |->
         [kind |-> KindOf(reported[i]), activity |-> reported[i]]]

-----------------------------------------------------------------------------
(* The check. *)

Known == baseline # None
Boundary == IF Known THEN baseline.boundary ELSE {}

BeginRead ==
  /\ reader = None
  /\ reader' = [phase     |-> "paging",
                page      |-> 1,
                items     |-> <<>>,
                newIds    |-> {},
                pages     |-> <<>>,
                lastPage  |-> 0,
                published |-> published]
  /\ UNCHANGED <<portalVars, historyVars>>

Paging == reader # None /\ reader.phase = "paging"

\* What ends the read at this page as incomplete.
Refused(page) ==
  \/ reader.page > 1 /\ LastPage # reader.lastPage
  \/ \E i \in DOMAIN reader.pages : reader.pages[i] = page
  \/ Conflicting(reader.items, page)

\* The reader after it has taken in the page.
Read(page) ==
  [reader EXCEPT !.items     = @ \o Unread(@, page),
                 !.pages     = Append(@, page),
                 !.lastPage  = LastPage,
                 !.published = IF reader.page = 1 THEN published ELSE @]

Overlaps(page) == IdsOf(page) \cap Boundary # {}

Final == reader.page >= LastPage

\* Mutant of Continues: one page more than the limit.
ContinuesPastLimit(page) == ~Overlaps(page) /\ ~Final /\ reader.page <= PageLimit

\* Mutant of Continues: one page less than the limit.
ContinuesBelowLimit(page) == ~Overlaps(page) /\ ~Final /\ reader.page + 1 < PageLimit

\* A page continues to the next, which must be within the limit.
Continues(page) == ~Overlaps(page) /\ ~Final /\ reader.page < PageLimit

\* The first page of an enrolment without a baseline, unless it is empty and
\* there are more.
Establishes(page) == ~Known /\ reader.page = 1 /\ (page # <<>> \/ Final)

\* The read has reached what it was looking for.
Reaches(page) ==
  Overlaps(page) \/ (Final /\ (~Known \/ Boundary = {}))

\* The first check of an enrolment establishes state only.
EstablishBaseline ==
  LET page == Page(reader.page)
  IN  /\ Paging
      /\ ~Refused(page)
      /\ Establishes(page)
      /\ baseline' = [items |-> page, boundary |-> IdsOf(page)]
      /\ seen' = seen \cup IdsOf(page)
      /\ first' = page
      /\ covered' = [since |-> published, until |-> published]
      /\ reader' = None
      /\ UNCHANGED <<portalVars, events>>

ReadOn ==
  LET page == Page(reader.page)
  IN  /\ Paging
      /\ ~Refused(page)
      /\ ~Establishes(page)
      /\ Continues(page)
      /\ reader' = [Read(page) EXCEPT !.page   = @ + 1,
                                      !.newIds = @ \cup IdsOf(page)]
      /\ UNCHANGED <<portalVars, historyVars>>

ReachEnd ==
  LET page == Page(reader.page)
  IN  /\ Paging
      /\ ~Refused(page)
      /\ ~Establishes(page)
      /\ Reaches(page)
      /\ reader' = [Read(page) EXCEPT
                      !.phase  = "revalidating",
                      !.newIds = @ \cup NewPrefix(page, Boundary)]
      /\ UNCHANGED <<portalVars, historyVars>>

Revalidating == reader # None /\ reader.phase = "revalidating"

\* Mutant of HeadUnchanged: only the number of pages is compared.
PagesUnchanged == LastPage = reader.lastPage

HeadUnchanged == LastPage = reader.lastPage /\ Page(1) = reader.pages[1]

\* The newest page is read again and has not changed.  With it the check commits:
\* it first reads its other enrolments, but nothing more of this timeline, and
\* no step of the portal reads the files, so a later commit writes the same.  A
\* command that ends before it does is an Interrupt.
Complete ==
  /\ Revalidating
  /\ HeadUnchanged
  /\ baseline' = [items |-> reader.items, boundary |-> IdsOf(reader.pages[1])]
  /\ seen' = seen \cup IdsOf(reader.items)
  /\ IF Known
     THEN /\ events' = events \o EventsOf(reader.items, reader.newIds)
          /\ covered' = [covered EXCEPT !.until = reader.published]
          /\ UNCHANGED first
     ELSE /\ first' = reader.items
          /\ covered' = [since |-> reader.published, until |-> reader.published]
          /\ UNCHANGED events
  /\ reader' = None
  /\ UNCHANGED portalVars

\* timeline_source_changed, timeline_repeated_page, timeline_gap or
\* timeline_page_limit: only the attempt is recorded.
Incomplete ==
  LET page == Page(reader.page)
  IN  /\ \/ Paging /\ Refused(page)
         \/ /\ Paging
            /\ ~Establishes(page) /\ ~Continues(page) /\ ~Reaches(page)
         \/ Revalidating /\ ~HeadUnchanged
      /\ reader' = None
      /\ UNCHANGED <<portalVars, historyVars>>

\* Mutant of Interrupt: what was read so far is remembered as seen.
InterruptRemembering ==
  /\ reader # None
  /\ reader' = None
  /\ seen' = seen \cup IdsOf(reader.items)
  /\ UNCHANGED <<portalVars, baseline, events, first, covered>>

\* A request fails, timeline_time_limit, or the command is killed.
Interrupt ==
  /\ reader # None
  /\ reader' = None
  /\ UNCHANGED <<portalVars, historyVars>>

-----------------------------------------------------------------------------

Init ==
  /\ timeline = <<>>
  /\ published = 0
  /\ removed = {}
  /\ baseline = None
  /\ seen = {}
  /\ reader = None
  /\ events = <<>>
  /\ first = <<>>
  /\ covered = None

PortalStep ==
  \/ \E shown \in Shown : Publish(shown)
  \/ \E i \in DOMAIN timeline : Correct(i) \/ Delete(i)

CheckStep ==
  BeginRead \/ EstablishBaseline \/ ReadOn \/ ReachEnd \/ Complete \/ Incomplete

Next == PortalStep \/ CheckStep \/ Interrupt

Spec == Init /\ [][Next]_vars

\* Checks run again and again, and none is interrupted.
UninterruptedSpec ==
  Init /\ [][PortalStep \/ CheckStep]_vars /\ WF_vars(CheckStep)

-----------------------------------------------------------------------------
(* Properties. *)

Added(id) ==
  {i \in DOMAIN events : events[i].kind = "activity_added" /\ events[i].activity.id = id}

\* Every variable has its type.
TypeOK ==
  /\ timeline \in Seq(Entries)
  /\ published \in 0 .. MaxPublished
  /\ removed \subseteq Entries
  /\ baseline \in Baselines \cup {None}
  /\ seen \subseteq Ids
  /\ reader \in Readers \cup {None}
  /\ events \in Seq(Events)
  /\ first \in Seq(Activities)
  /\ covered \in [since : 0 .. MaxPublished, until : 0 .. MaxPublished] \cup {None}

\* After a complete check, every item shown that was published between the
\* first baseline and the beginning of that check has been announced:
\* "Complete observation with committed events" (docs/automation.md:20).
NothingMissed ==
  \A i \in DOMAIN timeline :
    /\ Known
    /\ timeline[i].shown
    /\ timeline[i].id > covered.since
    /\ timeline[i].id <= covered.until
    => Added(timeline[i].id) # {}

\* Nothing is missed while the portal only publishes and corrects, however its
\* items slide across pages during the reads (contract.go:353-464).
NothingMissedUnlessRemoved == removed = {} => NothingMissed

\* No item is announced as added twice, nor one of the first baseline, even
\* when items slide across pages during a read or were read by an abandoned
\* check (contract.go:334-342, diff.go:217-222).
AddedOnce ==
  \A id \in Ids : /\ Cardinality(Added(id)) <= 1
                  /\ id \in IdsOf(first) => Added(id) = {}

\* Nothing older than the first baseline is announced as new:
\* "historical suffix emitted as new" (timeline_catchup_test.go:197).
NoHistoryAnnounced ==
  \A id \in Ids : Added(id) # {} => id > covered.since

\* Every entry the portal has published so far is shown.
AllShown ==
  /\ \A i \in DOMAIN timeline : timeline[i].shown
  /\ \A entry \in removed : entry.shown

\* No history is announced when no page before the last is empty, whatever is
\* removed and however far back a check must read (contract.go:353-464).
NoHistoryUnlessHidden == AllShown => NoHistoryAnnounced

\* An item that only slid down the timeline is never reported as reappeared:
\* it takes a removal, or an empty page before the last, to bring it back into
\* the pages a check reads (diff.go:218).
NoReappearanceBySliding ==
  AllShown /\ removed = {} =>
    \A i \in DOMAIN events : events[i].kind # "activity_reappeared"

\* What consumers were last told of an item.
Told(id) ==
  LET about == {i \in DOMAIN events : events[i].activity.id = id}
      start == {i \in DOMAIN first : first[i].id = id}
  IN  IF about # {}
      THEN events[CHOOSE i \in about : \A j \in about : j <= i].activity.version
      ELSE IF start # {} THEN first[CHOOSE i \in start : TRUE].version ELSE None

\* When a check completes, its consumers know the newest page as the portal
\* showed it at the second look, corrections included, unless removals brought up
\* what no check has read (contract.go:442-464).
HeadIsCurrent ==
  [][ reader # None /\ baseline' # baseline /\ removed = {} =>
        \A i \in DOMAIN Page(1) : Told(Page(1)[i].id)' = Page(1)[i].version ]_vars

\* Once the portal is quiet, checks catch up with it, however the earlier ones
\* were disturbed, if no more items came than the page limit reaches
\* (contract.go:264-269, 353-433).
CatchesUp ==
  \A n \in Ids : published >= n ~> Known /\ covered.until >= n
=============================================================================
