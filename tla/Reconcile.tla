------------------------------ MODULE Reconcile ------------------------------
(***************************************************************************)
(* How a check compares what the portal shows with the last baseline:      *)
(* reconcileGroups and reconcileOverview of internal/store/diff.go, as     *)
(* contract.go calls them (removals are never inferred), over the checks   *)
(* of one enrolment.  reconcileActivities is in module TimelineCatchUp.    *)
(*                                                                         *)
(* The records of a page are grouped by an anchor.  A sourced record has   *)
(* an identifier of the portal and a group of its own; parsing refuses two *)
(* with one identifier.  Records without one share a fallback group, the   *)
(* lessons of one subject, date and period, in which equal-looking records *)
(* cannot be told apart.  A subject of the overview is a group of its own, *)
(* whose state is the list of displayed grades.                            *)
(***************************************************************************)
EXTENDS Integers, Sequences, FiniteSets, SequencesExt, Selection

CONSTANTS
  Sourced,   \* anchors of records with a source identifier
  Fallback,  \* anchors of records without
  Subjects,  \* subjects of the overview
  States,    \* what a record, or a subject's grades, may look like
  MaxGroup,  \* bound: records in a fallback group
  None,      \* no baseline, no state seen
  Unclear,   \* known of a group after a change said that it is ambiguous
  Misled     \* known of a group after a change contradicted earlier ones

ASSUME GroupAssumption == MaxGroup \in Nat \ {0}
ASSUME AnchorsAssumption ==
  Sourced \cap Fallback = {} /\ Subjects \cap (Sourced \cup Fallback) = {}

VARIABLES
  portal,      \* the groups the portal shows
  base,        \* the groups of the committed baseline, or None
  unresolved,  \* the baseline's unresolved fallback keys
  seen,        \* the baseline's seen source records: the last state, or None
  found,       \* history: the changes the last step reported
  told,        \* history: what a consumer knows of each group that replays them
  broken       \* history: groups of which two checks in a row did not show
               \* which record is which

vars == <<portal, base, unresolved, seen, found, told, broken>>

Anchors == Sourced \cup Fallback
Groups == Anchors \cup Subjects

\* The records of a group, in the order of the page.
Contents(g) ==
  BoundedSeq(States, IF g \in Fallback THEN MaxGroup ELSE 1)

Snapshots == {s \in [Groups -> BoundedSeq(States, MaxGroup)] :
                \A g \in Groups : s[g] \in Contents(g)}

ASSUME NoneAssumption ==
  /\ None \notin States \cup Snapshots
  /\ Unclear # Misled
  /\ {Unclear, Misled} \cap BoundedSeq(States, MaxGroup) = {}

Change(kind, group, occurrence, before, after) ==
  [kind |-> kind, group |-> group, occurrence |-> occurrence,
   before |-> before, after |-> after]

-----------------------------------------------------------------------------
(* reconcileGroups, for one anchor. *)

Times(group, state) == Cardinality({i \in DOMAIN group : group[i] = state})

\* Mutant of Unmatched: one record may be the partner of several.
UnmatchedByState(group, other) == SelectSeq(group, LAMBDA s : Times(other, s) = 0)

\* cancelEqual: the records of one group without an equal partner in the other.
Unmatched(group, other) ==
  Selected(group, {i \in DOMAIN group :
    Times(SubSeq(group, 1, i), group[i]) > Times(other, group[i])})

Equal(old, now) == Unmatched(old, now) = <<>> /\ Unmatched(now, old) = <<>>

\* A sourced record that an earlier baseline held comes back.
Reappears(anchor, old, now) ==
  anchor \in Sourced /\ old = <<>> /\ now # <<>> /\ seen[anchor] # None

\* A fallback group that was unresolved before, or whose number of records is
\* another, is not paired at all.
Unpairable(anchor, old, now) ==
  /\ anchor \in Fallback
  /\ now # <<>>
  /\ anchor \in unresolved \/ (old # <<>> /\ Len(old) # Len(now))

\* One record was corrected: a sourced one, or the only one of its group.
Corrected(anchor, old, now) ==
  /\ Len(Unmatched(old, now)) = 1
  /\ Len(Unmatched(now, old)) = 1
  /\ anchor \in Sourced \/ (Len(old) = 1 /\ Len(now) = 1)

ChangesAt(anchor, old, now) ==
  LET a == Unmatched(old, now)
      b == Unmatched(now, old)
  IN  IF Reappears(anchor, old, now)
      THEN {Change("reappeared", anchor, 1, <<seen[anchor]>>, now)}
      ELSE IF Equal(old, now) THEN {}
      ELSE IF Unpairable(anchor, old, now)
      THEN {Change("ambiguous", anchor, 0, old, now)}
      ELSE IF Corrected(anchor, old, now) THEN {Change("updated", anchor, 1, a, b)}
      ELSE IF a = <<>>
      THEN {Change("added", anchor, i, <<>>, <<b[i]>>) : i \in DOMAIN b}
      ELSE IF b = <<>> THEN {}
      ELSE {Change("ambiguous", anchor, 0, a, b)}

\* Mutant of Vanished: what is gone is forgotten.
VanishedUnnoticed(anchor, old, now) == FALSE

\* Nothing was added to a fallback group and records of it are gone: a record
\* that is there later must not inherit their lineage.
Vanished(anchor, old, now) ==
  /\ anchor \in Fallback
  /\ Unmatched(old, now) # <<>>
  /\ Unmatched(now, old) = <<>>

\* nextUnresolved: keys stay, whatever becomes of their group.
Unresolved(changes, old, now) ==
  unresolved
    \cup {c.group : c \in {d \in changes : d.kind = "ambiguous"}}
    \cup {a \in Fallback : Vanished(a, old[a], now[a])}

\* Mutant of Observed: records without an identifier count as well.
ObservedByAnchor(now) ==
  [a \in Anchors |-> IF now[a] # <<>> THEN now[a][1] ELSE seen[a]]

\* observeSourceRecords.
Observed(now) ==
  [a \in Anchors |->
     IF a \in Sourced /\ now[a] # <<>> THEN now[a][1] ELSE seen[a]]

-----------------------------------------------------------------------------

\* reconcileOverview: subjects that both overviews list.
OverviewChanges(old, now) ==
  {Change("grades_changed", s, 1, old[s], now[s]) :
     s \in {t \in Subjects : old[t] # <<>> /\ now[t] # <<>> /\ old[t] # now[t]}}

ReconcileWithState(old, now) ==
  (UNION {ChangesAt(a, old[a], now[a]) : a \in Anchors})
    \cup OverviewChanges(old, now)

-----------------------------------------------------------------------------
(* A consumer that replays the changes. *)

SameRecords(group, other) ==
  \A s \in States : Times(group, s) = Times(other, s)

Replayed(g, changes) ==
  LET kinds == {c.kind : c \in changes}
      one   == CHOOSE c \in changes : TRUE
  IN  IF changes = {} \/ (told[g] \in {Unclear, Misled} /\ kinds = {"ambiguous"})
      THEN told[g]
      ELSE IF kinds = {"ambiguous"} THEN Unclear
      ELSE IF kinds = {"added"} /\ told[g] = <<>>
      THEN [i \in 1 .. Cardinality(changes) |->
              (CHOOSE c \in changes : c.occurrence = i).after[1]]
      ELSE IF \/ (kinds \in {{"updated"}, {"reappeared"}} /\ told[g] = one.before)
              \/ (kinds = {"grades_changed"} /\ told[g] \in {<<>>, one.before})
      THEN one.after
      ELSE Misled

\* Of a group with records, the next page shows none, another number, or
\* another set of several.  A sourced record is known by its identifier.
NotTraceable(g, old, now) ==
  /\ old # <<>>
  /\ \/ g \in Fallback /\ Len(old) # Len(now)
     \/ g \in Fallback /\ Len(old) > 1 /\ ~SameRecords(old, now)
     \/ g \in Subjects /\ now = <<>>

-----------------------------------------------------------------------------

\* The first complete check: existing records establish state only.
FirstCheck ==
  /\ base = None
  /\ base' = portal
  /\ seen' = Observed(portal)
  /\ unresolved' = {}
  /\ found' = {}
  /\ told' = portal
  /\ UNCHANGED <<portal, broken>>

\* A later complete check.
Check ==
  LET changes == ReconcileWithState(base, portal)
  IN  /\ base # None
      /\ base' = portal
      /\ seen' = Observed(portal)
      /\ unresolved' = Unresolved(changes, base, portal)
      /\ found' = changes
      /\ told' = [g \in Groups |-> Replayed(g, {c \in changes : c.group = g})]
      /\ broken' = broken \cup {g \in Groups : NotTraceable(g, base[g], portal[g])}
      /\ UNCHANGED portal

\* Records appear, disappear, are corrected and change their order.
PortalChanges(g) ==
  /\ \E contents \in Contents(g) \ {portal[g]} :
       portal' = [portal EXCEPT ![g] = contents]
  /\ found' = {}
  /\ UNCHANGED <<base, unresolved, seen, told, broken>>

Init ==
  /\ portal \in Snapshots
  /\ base = None
  /\ unresolved = {}
  /\ seen = [a \in Anchors |-> None]
  /\ found = {}
  /\ told = [g \in Groups |-> <<>>]
  /\ broken = {}

Next ==
  \/ FirstCheck
  \/ Check
  \/ \E g \in Groups : PortalChanges(g)

Spec == Init /\ [][Next]_vars

-----------------------------------------------------------------------------
(* Properties. *)

\* Every variable has its type; only sourced records are seen, only fallback
\* groups unresolved.
TypeOK ==
  /\ portal \in Snapshots
  /\ base = None \/ base \in Snapshots
  /\ unresolved \subseteq Fallback
  /\ seen \in [Anchors -> States \cup {None}]
  /\ \A a \in Fallback : seen[a] = None
  /\ told \in [Groups -> BoundedSeq(States, MaxGroup) \cup {Unclear, Misled}]
  /\ broken \subseteq Groups

\* A consumer that replays the changes from the first baseline is never told
\* something that contradicts what it was told before, and of every group that
\* the pages show it knows the records, or that they are ambiguous; ambiguous
\* is only what no reader of the pages could have told apart.  So no record
\* inherits the history of another.  What is promised for subjects ends when
\* an overview does not list them: a list of grades that changed before the
\* subject is back is never reported (diff.go:110-244, reconcile_test.go:89-162).
ReplayGivesBaseline ==
  base # None =>
    \A g \in Groups :
      /\ told[g] = Unclear => g \in broken
      /\ told[g] = Misled => g \in Subjects \cap broken
      /\ \/ base[g] = <<>>
         \/ told[g] = Unclear
         \/ g \in Subjects /\ (g \in broken \/ told[g] = <<>>)
         \/ SameRecords(told[g], base[g])

\* A check reports every group that shows records and shows others than the
\* baseline, resolved or not, and no group that shows the same; a subject is
\* reported if both overviews list it.
DifferencesReported ==
  [][ base # None /\ base' # base =>
        \A g \in Groups :
          (\E c \in found' : c.group = g)
            <=> /\ base'[g] # <<>>
                /\ g \in Subjects => base[g] # <<>>
                /\ ~SameRecords(base[g], base'[g]) ]_vars
=============================================================================
