------------------------------ MODULE EventFeed ------------------------------
(***************************************************************************)
(* What the retained event history promises its consumers                  *)
(* (docs/automation.md, "Consumers"): a log that only grows, and for each  *)
(* consumer a cursor that passes an event only after that event was        *)
(* delivered to it.  Delivery is at least once: the same events may be     *)
(* delivered again, and every delivery starts right after the cursor.      *)
(***************************************************************************)
EXTENDS Integers, Sequences

CONSTANTS
  Consumers,  \* the names a consumer may register
  Events,     \* what the log holds
  Unknown     \* the cursor of a consumer that has not registered, no number

VARIABLES
  log,       \* every event ever retained
  cursor,    \* the last event each consumer has acknowledged
  delivered  \* the positions of the events each consumer has received

feedVars == <<log, cursor, delivered>>

FeedTypeOK ==
  /\ log \in Seq(Events)
  /\ cursor \in [Consumers -> Nat \cup {Unknown}]
  /\ delivered \in [Consumers -> SUBSET Nat]

FeedInit ==
  /\ log = <<>>
  /\ cursor = [c \in Consumers |-> Unknown]
  /\ delivered = [c \in Consumers |-> {}]

\* A successful check retains its changes.
Retain ==
  /\ Len(log') >= Len(log)
  /\ \A i \in 1 .. Len(log) : log'[i] = log[i]
  /\ UNCHANGED <<cursor, delivered>>

\* A consumer joins at the earliest or at the latest event.
Join(c) ==
  /\ cursor[c] = Unknown
  /\ \E start \in {0, Len(log)} : cursor' = [cursor EXCEPT ![c] = start]
  /\ UNCHANGED <<log, delivered>>

\* A consumer receives a batch.
Deliver(c) ==
  /\ cursor[c] # Unknown
  /\ \E through \in cursor[c] + 1 .. Len(log) :
       delivered' =
         [delivered EXCEPT ![c] = @ \cup (cursor[c] + 1 .. through)]
  /\ UNCHANGED <<log, cursor>>

\* A consumer acknowledges what it has received.
Advance(c) ==
  /\ cursor[c] # Unknown
  /\ \E through \in cursor[c] + 1 .. Len(log) :
       /\ cursor[c] + 1 .. through \subseteq delivered[c]
       /\ cursor' = [cursor EXCEPT ![c] = through]
  /\ UNCHANGED <<log, delivered>>

FeedNext ==
  \/ Retain
  \/ \E c \in Consumers : Join(c) \/ Deliver(c) \/ Advance(c)

FeedSpec == FeedInit /\ [][FeedNext]_feedVars
=============================================================================
