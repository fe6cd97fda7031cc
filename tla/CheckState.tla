----------------------------- MODULE CheckState -----------------------------
(***************************************************************************)
(* The account history document of internal/checkstate/store.go with the   *)
(* commands that write it: check (cmd/ednevnik/contract.go) and the three  *)
(* consumer commands (cmd/ednevnik/main.go).  Each command holds the       *)
(* account lease (module RequestPolicy) from its load to its write, so     *)
(* commands do not interleave; what interleaves with a running check is    *)
(* the portal, and between any two commands the consumers, who may be      *)
(* slow, retry, present old tokens or each other's tokens.                 *)
(*                                                                         *)
(* A write replaces the document by rename.  It may fail before the        *)
(* rename (the old document stays); the process may die or report an       *)
(* error after it (the new document is there, the caller does not know):   *)
(* CommitError.Committed.                                                  *)
(*                                                                         *)
(* A snapshot is a version per record: what the reconciliation does within *)
(* a record is not modelled here.                                          *)
(***************************************************************************)
EXTENDS Integers, Sequences, FiniteSets, SequencesExt

CONSTANTS
  Enrolments,     \* enrolments that may be requested
  Records,        \* the records of one enrolment
  Consumers,      \* names consumers may register
  MaxEvents,      \* MaxEvents
  MaxConsumers,   \* MaxConsumers
  MaxTokens,      \* acknowledged tokens kept per consumer, 1024 in validate
  Limits,         \* batch limits consumers ask for, 1 .. 1000 in ReadBatch
  MaxVersion,     \* bound: updates of one record on the portal
  MaxGeneration,  \* bound: no check commits at this generation or later
  None            \* no baseline, attempt, batch, check or cursor

ASSUME FiniteAssumption == IsFiniteSet(Enrolments) /\ IsFiniteSet(Records)
ASSUME LimitsAssumption ==
  /\ MaxEvents \in Nat /\ MaxConsumers \in Nat /\ MaxTokens \in Nat
  /\ MaxVersion \in Nat /\ MaxGeneration \in Nat
  /\ Limits \subseteq Nat \ {0}

VARIABLES
  portal,    \* what the portal shows for each enrolment
  doc,       \* the document; generation 0 means that there is no file
  check,     \* the running check, or None
  received,  \* history: the batches each consumer has been given
  enrolled   \* history: the first baseline of each enrolment, or None

vars == <<portal, doc, check, received, enrolled>>

-----------------------------------------------------------------------------
(* The document. *)

Versions == 0 .. MaxVersion
Snapshots == [Records -> Versions]

Successful == {"initial_baseline", "complete_with_changes", "complete_without_changes"}
Outcomes == Successful \cup {"incomplete", "failed"}

Attempts == [id : Nat, outcome : Outcomes, requested : SUBSET Enrolments]
Baselines == [id : Nat, snapshot : Snapshots]
Changes == [enrolment : Enrolments, record : Records, version : Versions]
\* The id "event_<check>_<i>" is unique because check ids are.
RetainedEvents ==
  [id : Nat \X Nat, sequence : Nat, revision : Nat, change : Changes]
Batches == [token : Nat, from : Nat, through : Nat]
Cursors ==
  [acknowledgedThrough : Nat, pending : Batches \cup {None}, tokens : SUBSET Nat]

\* A running check; observed has the enrolments read so far.
Checks ==
  [id        : Nat,
   phase     : {"reading", "uncertain"},
   requested : SUBSET Enrolments,
   prior     : [Enrolments -> Baselines \cup {None}],
   observed  : UNION {[read -> Snapshots] : read \in SUBSET Enrolments},
   complete  : BOOLEAN]

Documents ==
  [generation   : Nat,
   nextSequence : Nat,
   baselines    : [Enrolments -> Baselines \cup {None}],
   events       : Seq(RetainedEvents),
   consumers    : [Consumers -> Cursors \cup {None}],
   latest       : Attempts \cup {None},
   success      : Attempts \cup {None}]

ASSUME NoneAssumption ==
  /\ None \notin Nat /\ None \notin Snapshots /\ None \notin Attempts
  /\ None \notin Baselines /\ None \notin Batches /\ None \notin Cursors
  /\ None \notin Checks

EmptyDocument ==
  [generation   |-> 0,
   nextSequence |-> 1,
   baselines    |-> [e \in Enrolments |-> None],
   events       |-> <<>>,
   consumers    |-> [c \in Consumers |-> None],
   latest       |-> None,
   success      |-> None]

Registered(d) == {c \in Consumers : d.consumers[c] # None}

\* What validate refuses before a write.  Of its conditions only the limits can
\* fail for a document the commands build; WellFormed states the others.
WithinLimits(d) ==
  /\ Len(d.events) <= MaxEvents
  /\ Cardinality(Registered(d)) <= MaxConsumers
  /\ \A c \in Registered(d) : Cardinality(d.consumers[c].tokens) <= MaxTokens

\* writeAtomic made this generation visible.
Written(d) ==
  /\ WithinLimits(d)
  /\ doc' = [d EXCEPT !.generation = doc.generation + 1]

-----------------------------------------------------------------------------
(* What a successful check puts in the document: applySuccess. *)

\* The changes of one enrolment since its baseline; none for a new enrolment,
\* whose existing records establish state only.
ChangesOf(e, prior, snapshot) ==
  IF prior[e] = None THEN {}
  ELSE {[enrolment |-> e, record |-> r, version |-> snapshot[r]] :
          r \in {x \in Records : snapshot[x] # prior[e].snapshot[x]}}

SameRecord(a, b) == a.enrolment = b.enrolment /\ a.record = b.record

\* One more than the revision of the last event of the same record.
Revision(events, change) ==
  LET earlier == {i \in DOMAIN events : SameRecord(events[i].change, change)}
  IN  IF earlier = {} THEN 1
      ELSE events[CHOOSE i \in earlier : \A j \in earlier : j <= i].revision + 1

\* An event id that is already retained is a redelivery and adds nothing.
Retained(d, id) == \E i \in DOMAIN d.events : d.events[i].id = id

\* Mutant of Appended: the next sequence number stays.
AppendedInPlace(d, id, change) ==
  IF Retained(d, id) THEN d
  ELSE [d EXCEPT !.events = Append(@, [id       |-> id,
                                       sequence |-> d.nextSequence,
                                       revision |-> Revision(d.events, change),
                                       change   |-> change])]

Appended(d, id, change) ==
  IF Retained(d, id) THEN d
  ELSE [d EXCEPT !.events = Append(@, [id       |-> id,
                                       sequence |-> d.nextSequence,
                                       revision |-> Revision(d.events, change),
                                       change   |-> change]),
                 !.nextSequence = @ + 1]

\* The items of a result, in order, after the document d.
Applied(d, id, items) ==
  LET after[i \in 0 .. Len(items)] ==
        IF i = 0 THEN d ELSE Appended(after[i - 1], <<id, i>>, items[i])
  IN  after[Len(items)]

\* Mutant of Rebased: only a new enrolment gets a baseline.
RebasedIfNew(d, id, snapshots) ==
  [d EXCEPT !.baselines =
     [e \in Enrolments |->
        IF e \in DOMAIN snapshots /\ @[e] = None
        THEN [id |-> id, snapshot |-> snapshots[e]]
        ELSE @[e]]]

Rebased(d, id, snapshots) ==
  [d EXCEPT !.baselines =
     [e \in Enrolments |->
        IF e \in DOMAIN snapshots
        THEN [id |-> id, snapshot |-> snapshots[e]]
        ELSE @[e]]]

Attempt(outcome) ==
  [id |-> check.id, outcome |-> outcome, requested |-> check.requested]

-----------------------------------------------------------------------------
(* The check command. *)

\* The command loads the document, and keeps its baselines as Prior.  Check
\* ids are random; the next generation is one no visible attempt has used.
BeginCheck(requested) ==
  /\ check = None
  /\ requested # {}
  /\ check' = [id        |-> doc.generation + 1,
               phase     |-> "reading",
               requested |-> requested,
               prior     |-> doc.baselines,
               observed  |-> <<>>,
               complete  |-> TRUE]
  /\ UNCHANGED <<portal, doc, received, enrolled>>

Remaining == check.requested \ DOMAIN check.observed

Reading == check # None /\ check.phase = "reading"

\* One enrolment is read; its timeline may turn out not to be continuous.
ReadEnrolment(e) ==
  /\ Reading
  /\ e \in Remaining
  /\ \E complete \in BOOLEAN :
       check' = [check EXCEPT
                   !.observed = [x \in DOMAIN @ \cup {e} |->
                                   IF x = e THEN portal[e] ELSE @[x]],
                   !.complete = @ /\ complete]
  /\ UNCHANGED <<portal, doc, received, enrolled>>

\* The check's result becomes the new document.
Committed(d) == doc.generation < MaxGeneration /\ Written(d)

\* The command is over, whether or not its result reached the caller.
EndCheck == check' = None /\ UNCHANGED <<portal, received>>

\* A read failed: failCheck commits a failed attempt, and nothing else.
CommitFailure ==
  /\ Reading
  /\ Remaining # {}
  /\ Committed([doc EXCEPT !.latest = Attempt("failed")])
  /\ EndCheck
  /\ UNCHANGED enrolled

\* Mutant of CommitIncomplete: the observed enrolments get new baselines.
CommitIncompleteRebasing ==
  /\ Reading
  /\ Remaining = {}
  /\ ~check.complete
  /\ Committed([Rebased(doc, check.id, check.observed)
                  EXCEPT !.latest = Attempt("incomplete")])
  /\ EndCheck
  /\ UNCHANGED enrolled

\* Some enrolment was incomplete: only the attempt is committed.
CommitIncomplete ==
  /\ Reading
  /\ Remaining = {}
  /\ ~check.complete
  /\ Committed([doc EXCEPT !.latest = Attempt("incomplete")])
  /\ EndCheck
  /\ UNCHANGED enrolled

\* The changes the check found; their order is the source's.
Found == UNION {ChangesOf(e, check.prior, check.observed[e]) : e \in check.requested}

SuccessOutcome ==
  IF \A e \in Enrolments : check.prior[e] = None
  THEN "initial_baseline"
  ELSE IF Found # {} THEN "complete_with_changes" ELSE "complete_without_changes"

SuccessDocument(items) ==
  [Applied(Rebased(doc, check.id, check.observed), check.id, items)
     EXCEPT !.latest  = Attempt(SuccessOutcome),
            !.success = Attempt(SuccessOutcome)]

\* New baselines, events and attempt become visible in one rename.  Commit
\* returns nil and the command prints its result and ends, or it returns a
\* CommitError that says Committed.
CommitSuccess ==
  /\ Reading
  /\ Remaining = {}
  /\ check.complete
  /\ \E items \in SetToSeqs(Found) : Committed(SuccessDocument(items))
  /\ enrolled' = [e \in Enrolments |->
                    IF e \in check.requested /\ enrolled[e] = None
                    THEN check.observed[e] ELSE enrolled[e]]
  /\ check' \in {None, [check EXCEPT !.phase = "uncertain"]}
  /\ UNCHANGED <<portal, received>>

\* Mutant of ReportUncertain: the error is recorded as a failed attempt.
CompensateUncertain ==
  /\ check # None
  /\ check.phase = "uncertain"
  /\ Committed([doc EXCEPT !.latest = Attempt("failed")])
  /\ EndCheck
  /\ UNCHANGED enrolled

\* After an uncertain commit the command reports an error and writes no more.
ReportUncertain ==
  /\ check # None
  /\ check.phase = "uncertain"
  /\ EndCheck
  /\ UNCHANGED <<doc, enrolled>>

\* The command ends with nothing written: it was killed, the write failed
\* before its rename, or the new document exceeded a limit.
AbandonCheck ==
  /\ Reading
  /\ EndCheck
  /\ UNCHANGED <<doc, enrolled>>

-----------------------------------------------------------------------------
(* The consumer commands. *)

\* No check holds the lease, and the document can be loaded.
Loadable == check = None /\ doc.generation > 0

\* Mutant of StartCursor: one before the earliest event, even without events.
StartCursorBefore(start) ==
  IF start = "latest" THEN doc.nextSequence - 1
  ELSE (IF doc.events = <<>> THEN 0 ELSE doc.events[1].sequence) - 1

StartCursor(start) ==
  IF start = "latest" THEN doc.nextSequence - 1
  ELSE IF doc.events = <<>> THEN 0 ELSE doc.events[1].sequence - 1

\* Mutant of Register: the map of consumers is made anew.
RegisterAlone(c, start) ==
  /\ Loadable
  /\ doc.consumers[c] = None
  /\ Cardinality(Registered(doc)) < MaxConsumers
  /\ Written([doc EXCEPT !.consumers =
                [x \in Consumers |->
                   IF x = c THEN [acknowledgedThrough |-> StartCursor(start),
                                  pending             |-> None,
                                  tokens              |-> {}]
                   ELSE None]])
  /\ UNCHANGED <<portal, check, received, enrolled>>

Register(c, start) ==
  /\ Loadable
  /\ doc.consumers[c] = None
  /\ Cardinality(Registered(doc)) < MaxConsumers
  /\ Written([doc EXCEPT !.consumers[c] =
                [acknowledgedThrough |-> StartCursor(start),
                 pending             |-> None,
                 tokens              |-> {}]])
  /\ UNCHANGED <<portal, check, received, enrolled>>

\* Mutant of EventsAfter: the first event after the cursor is skipped.
EventsPast(cursor, limit) ==
  {doc.events[i].sequence : i \in
     {j \in DOMAIN doc.events :
        /\ doc.events[j].sequence > cursor + 1
        /\ Cardinality({k \in 1 .. j - 1 : doc.events[k].sequence > cursor}) < limit}}

\* eventsAfter: the sequence numbers of the next events, at most limit.
EventsAfter(cursor, limit) ==
  {doc.events[i].sequence : i \in
     {j \in DOMAIN doc.events :
        /\ doc.events[j].sequence > cursor
        /\ Cardinality({k \in 1 .. j - 1 : doc.events[k].sequence > cursor}) < limit}}

\* A new batch; its token is fresh.
NewBatch(numbers) ==
  [token   |-> doc.generation + 1,
   from    |-> CHOOSE n \in numbers : \A m \in numbers : n <= m,
   through |-> CHOOSE n \in numbers : \A m \in numbers : n >= m]

Give(c, batch) == received' = [received EXCEPT ![c] = @ \cup {batch}]

\* Mutant of ReadNewBatch: a new batch is cut although one is pending.
RecutBatch(c, limit) ==
  /\ Loadable
  /\ c \in Registered(doc)
  /\ LET numbers == EventsAfter(doc.consumers[c].acknowledgedThrough, limit)
         batch   == NewBatch(numbers)
     IN  /\ numbers # {}
         /\ Written([doc EXCEPT !.consumers[c].pending = batch])
         /\ Give(c, batch) \/ UNCHANGED received
  /\ UNCHANGED <<portal, check, enrolled>>

\* consumer-read cuts and persists a batch; the output may be lost.
ReadNewBatch(c, limit) ==
  /\ Loadable
  /\ c \in Registered(doc)
  /\ doc.consumers[c].pending = None
  /\ LET numbers == EventsAfter(doc.consumers[c].acknowledgedThrough, limit)
         batch   == NewBatch(numbers)
     IN  /\ numbers # {}
         /\ Written([doc EXCEPT !.consumers[c].pending = batch])
         /\ Give(c, batch) \/ UNCHANGED received
  /\ UNCHANGED <<portal, check, enrolled>>

\* A batch is pending: it is returned again, whatever the limit.
ReadPendingBatch(c) ==
  /\ Loadable
  /\ c \in Registered(doc)
  /\ doc.consumers[c].pending # None
  /\ Give(c, doc.consumers[c].pending)
  /\ UNCHANGED <<portal, doc, check, enrolled>>

\* Tokens anyone has been given; a consumer may present any of them.
KnownTokens == {b.token : b \in UNION {received[c] : c \in Consumers}}

\* Mutant of Acknowledge: the cursor moves to the last event there is.
AcknowledgeAll(c, token) ==
  /\ Loadable
  /\ c \in Registered(doc)
  /\ token \notin doc.consumers[c].tokens
  /\ doc.consumers[c].pending # None
  /\ token = doc.consumers[c].pending.token
  /\ Cardinality(doc.consumers[c].tokens) < MaxTokens
  /\ Written([doc EXCEPT !.consumers[c] =
                [acknowledgedThrough |-> doc.nextSequence - 1,
                 pending             |-> None,
                 tokens              |-> @.tokens \cup {token}]])
  /\ UNCHANGED <<portal, check, received, enrolled>>

\* A token acknowledged before succeeds and changes nothing, and any other
\* token than the pending one is refused.
Acknowledge(c, token) ==
  /\ Loadable
  /\ c \in Registered(doc)
  /\ token \notin doc.consumers[c].tokens
  /\ doc.consumers[c].pending # None
  /\ token = doc.consumers[c].pending.token
  /\ Cardinality(doc.consumers[c].tokens) < MaxTokens
  /\ Written([doc EXCEPT !.consumers[c] =
                [acknowledgedThrough |-> @.pending.through,
                 pending             |-> None,
                 tokens              |-> @.tokens \cup {token}]])
  /\ UNCHANGED <<portal, check, received, enrolled>>

-----------------------------------------------------------------------------

\* The portal publishes or updates a record.
PortalChanges(e, r) ==
  /\ portal[e][r] < MaxVersion
  /\ portal' = [portal EXCEPT ![e][r] = @ + 1]
  /\ UNCHANGED <<doc, check, received, enrolled>>

Init ==
  /\ portal = [e \in Enrolments |-> [r \in Records |-> 0]]
  /\ doc = EmptyDocument
  /\ check = None
  /\ received = [c \in Consumers |-> {}]
  /\ enrolled = [e \in Enrolments |-> None]

CheckStep ==
  \/ \E requested \in SUBSET Enrolments : BeginCheck(requested)
  \/ \E e \in Enrolments : ReadEnrolment(e)
  \/ CommitFailure
  \/ CommitIncomplete
  \/ CommitSuccess
  \/ ReportUncertain
  \/ AbandonCheck

ConsumerStep(c) ==
  \/ \E start \in {"earliest", "latest"} : Register(c, start)
  \/ \E limit \in Limits : ReadNewBatch(c, limit)
  \/ ReadPendingBatch(c)
  \/ \E token \in KnownTokens : Acknowledge(c, token)

Next ==
  \/ CheckStep
  \/ \E c \in Consumers : ConsumerStep(c)
  \/ \E e \in Enrolments, r \in Records : PortalChanges(e, r)

Spec == Init /\ [][Next]_vars

\* A consumer that keeps reading, is given what it reads, and acknowledges.
Consumes(c) ==
  \/ \E limit \in Limits : ReadNewBatch(c, limit) /\ received' # received
  \/ ReadPendingBatch(c) /\ received' # received
  \/ \E token \in {b.token : b \in received[c]} : Acknowledge(c, token)

\* Commands end, and every consumer keeps consuming.
FairSpec ==
  /\ Spec
  /\ WF_vars(CheckStep /\ check # None)
  /\ \A c \in Consumers : SF_vars(Consumes(c))

-----------------------------------------------------------------------------
(* Properties. *)

\* Every variable has its type.
TypeOK ==
  /\ portal \in [Enrolments -> Snapshots]
  /\ doc \in Documents
  /\ check \in Checks \cup {None}
  /\ check # None => DOMAIN check.observed \subseteq check.requested
  /\ received \in [Consumers -> SUBSET Batches]
  /\ enrolled \in [Enrolments -> Snapshots \cup {None}]

\* Apart from its limits, validate never refuses a document that the commands
\* build: no sequence of legal calls makes the account unusable
\* (store.go:157-234, called before every write and after every load).
WellFormed ==
  /\ \A i \in DOMAIN doc.events : doc.events[i].sequence = i
  /\ \A i, j \in DOMAIN doc.events : doc.events[i].id = doc.events[j].id => i = j
  /\ doc.nextSequence = Len(doc.events) + 1
  /\ \A c \in Registered(doc) :
       LET cursor == doc.consumers[c]
           batch  == cursor.pending
       IN  /\ cursor.acknowledgedThrough < doc.nextSequence
           /\ batch # None =>
                /\ batch.token \notin cursor.tokens
                /\ batch.from = cursor.acknowledgedThrough + 1
                /\ batch.from <= batch.through
                /\ batch.through < doc.nextSequence

\* Replaying the retained events of an enrolment over its first baseline gives
\* its current baseline: whatever fails, is killed or is only half reported,
\* no transition between two baselines is lost and none is recorded that did
\* not happen (contract.go:271-332, store.go:480-542).
HistoryReplaysBaselines ==
  \A e \in Enrolments : doc.baselines[e] # None =>
    /\ enrolled[e] # None
    /\ \A r \in Records :
         LET of == {i \in DOMAIN doc.events :
                      /\ doc.events[i].change.enrolment = e
                      /\ doc.events[i].change.record = r}
         IN  doc.baselines[e].snapshot[r] =
               IF of = {} THEN enrolled[e][r]
               ELSE doc.events[CHOOSE i \in of : \A j \in of : j <= i].change.version

\* No transition is recorded twice, not even by a check that repeats one whose
\* commit was uncertain: the versions of a record only go forward, and its
\* revisions count its events (store.go:480-542, contract.go:156-165).
NoTransitionTwice ==
  \A j \in DOMAIN doc.events :
    LET earlier == {i \in 1 .. j - 1 :
                      SameRecord(doc.events[i].change, doc.events[j].change)}
    IN  /\ \A i \in earlier :
             doc.events[i].change.version < doc.events[j].change.version
        /\ doc.events[j].revision = Cardinality(earlier) + 1

\* One check has one verdict: a check whose commit became visible is never
\* recorded as failed afterwards (store.go:41-43, contract.go:158-161).
OneVerdict ==
  doc.success # None /\ doc.latest.id = doc.success.id => doc.latest = doc.success

\* Until a batch is acknowledged a consumer is given that same batch: two
\* batches it was given are the same or share no event, whatever limits it
\* asked for and whatever was retained meanwhile (store.go:367-403).
StableBatches ==
  \A c \in Consumers : \A a, b \in received[c] :
    a = b \/ a.through < b.from \/ b.through < a.from

\* Consumers are independent: a step moves the cursor of at most one, and a
\* check moves none (docs/automation.md:35).
CursorsIndependent ==
  [][ \A c \in Consumers : doc'.consumers[c] # doc.consumers[c] =>
        doc' = [doc EXCEPT !.consumers[c] = doc'.consumers[c], !.generation = @ + 1] ]_vars

\* The document and what consumers were given implement the event feed.
Delivered(c) == UNION {b.from .. b.through : b \in received[c]}

Feed == INSTANCE EventFeed WITH
  Events    <- RetainedEvents,
  Unknown   <- None,
  log       <- doc.events,
  cursor    <- [c \in Consumers |->
                  IF doc.consumers[c] = None THEN None
                  ELSE doc.consumers[c].acknowledgedThrough],
  delivered <- [c \in Consumers |-> Delivered(c)]

\* Events are never dropped or rewritten, and a cursor passes an event only
\* after the consumer was given it: delivery is at least once
\* (docs/automation.md:43).
ImplementsFeed == Feed!FeedSpec

\* Every event past a registered consumer's cursor reaches that consumer
\* (store.go:367-440).
EventuallyDelivered ==
  \A c \in Consumers, n \in 1 .. MaxEvents :
    /\ c \in Registered(doc)
    /\ n <= Len(doc.events)
    /\ n > doc.consumers[c].acknowledgedThrough
    ~> n \in Delivered(c)

\* docs/automation.md:47: the store retains "1,024 recent acknowledgement
\* tokens per consumer", so that a batch can always be acknowledged by the
\* consumer that was given it.
PendingCanBeAcknowledged ==
  \A c \in Registered(doc) :
    doc.consumers[c].pending # None =>
      Cardinality(doc.consumers[c].tokens) < MaxTokens
=============================================================================
