---------------------------- MODULE PolicyHistory ----------------------------
(***************************************************************************)
(* RequestPolicy with observers, to state what the portal sees: how far    *)
(* apart requests are admitted, whether the server's Retry-After is kept,  *)
(* and how many requests fall on one UTC day.  A request is admitted when  *)
(* BeforeRequest returns nil, and the transport follows at once.           *)
(*                                                                         *)
(* Elapsed time is monotonic time plus every forward step of the wall      *)
(* clock: a program that persists wall clock times cannot tell them apart. *)
(* A backward step takes nothing away.                                     *)
(***************************************************************************)
EXTENDS RequestPolicy

VARIABLES
  gap,    \* time elapsed since the last admission, up to Pace
  owed,   \* time left of the Retry-After last recorded for this window
  onDay   \* requests admitted on each UTC day since the clock was set back

observers == <<gap, owed, onDay>>

NoRequests == [d \in Windows |-> 0]

HistoryInit ==
  /\ Init
  /\ gap = Pace
  /\ owed = 0
  /\ onDay = NoRequests

Admits == \E p \in Procs : pc[p] # "sending" /\ pc'[p] = "sending"

NewWindow == file'.windowStart # file.windowStart

\* What d more units of elapsed time do to the observers.
Elapse(d) ==
  /\ gap' = IF gap + d < Pace THEN gap + d ELSE Pace
  /\ owed' = Max2(owed - d, 0)

\* A server's Retry-After has been written to the record.
Recorded(h) == \E p \in Procs : RecordCooldown(p, h)

ObserveProcess ==
  \/ /\ Admits
     /\ gap' = 0
     /\ owed' = IF NewWindow THEN 0 ELSE owed
     /\ onDay' = [onDay EXCEPT ![DayStart(now)] = @ + 1]
  \/ \E h \in Headers :
       /\ Recorded(h)
       /\ owed' = Max2(owed, RetryAt(h, now) - now)
       /\ UNCHANGED <<gap, onDay>>
  \/ /\ ~Admits
     /\ UNCHANGED <<file, observers>>

HistoryNext ==
  \/ ProcessStep /\ ObserveProcess
  \/ Tick /\ Elapse(1) /\ UNCHANGED onDay
  \/ /\ StepClock
     /\ Elapse(Max2(now' - now, 0))
     /\ onDay' = IF now' < now THEN NoRequests ELSE onDay

HistorySpec == HistoryInit /\ [][HistoryNext]_<<vars, observers>>

-----------------------------------------------------------------------------
(* Properties. *)

\* Two requests of one window are admitted at least Pace apart, whichever
\* processes make them and however the wall clock is set back in between
\* (coordination.go:189-198).
PacedWithinWindow ==
  [][Admits => gap >= Pace \/ NewWindow]_<<vars, observers>>

\* Within a window no request is admitted before a recorded Retry-After has
\* run out (coordination.go:183-185, 208-228).
RetryAfterKeptWithinWindow ==
  [][Admits => owed = 0 \/ NewWindow]_<<vars, observers>>

\* A request that waits for its pace across midnight is counted in the old
\* window and admitted in the new day, on top of the new day's budget; there
\* is never more than one such request a day, counted from the last time the
\* wall clock was set back (coordination.go:182, 193-201).
DayBudgetPlusOne ==
  Budget > 0 => \A d \in Windows : onDay[d] <= Budget + 1

\* README.md:84: the CLI "honors a valid server Retry-After value".
RetryAfterHonored ==
  [][Admits => owed = 0]_<<vars, observers>>
=============================================================================
