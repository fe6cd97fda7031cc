---------------------------- MODULE RequestPolicy ----------------------------
(***************************************************************************)
(* The account lease and the persisted request policy of                   *)
(* internal/coordination/coordination.go, for one account namespace.       *)
(*                                                                         *)
(* Several processes run commands.  A command polls for the exclusive file *)
(* lock (Acquire), issues HTTP requests through policyTransport.RoundTrip, *)
(* each bracketed by BeforeRequest and RecordResponse, and releases the    *)
(* lock.  The only shared data is the file request-policy.json.  A process *)
(* may die between any two steps; the kernel then frees its lock.          *)
(*                                                                         *)
(* Two clocks run: the wall clock `now', which the operator or NTP may     *)
(* step either way, and the monotonic clock that drives Go's timers, of    *)
(* which only the time left on each process's timer is kept.               *)
(***************************************************************************)
EXTENDS Integers, FiniteSets

CONSTANTS
  Procs,         \* processes that run commands for this account
  NoProc,        \* nobody holds the lock
  Budget,        \* Config.DailyBudget; 0 disables the limit
  Pace,          \* Config.RequestPace
  LockWait,      \* Config.LockWait
  Day,           \* 24 hours
  Epoch,         \* the earliest wall clock reading
  MaxTime,       \* bound: the wall clock sticks at its last reading
  MaxRequests,   \* bound: calls to BeforeRequest in one command
  Jumps,         \* the sizes of the wall clock's steps, either sign
  RetrySeconds,  \* delays a server may put in Retry-After
  RetryDates,    \* dates a server may put in Retry-After
  DurationLimit  \* a time.Duration holds -DurationLimit .. DurationLimit - 1

ASSUME ProcsAssumption == NoProc \notin Procs
ASSUME ConfigAssumption ==
  /\ Budget \in Nat
  /\ Pace \in Nat
  /\ LockWait \in Nat \ {0}
\* The zero time.Time, here 0, lies more than a day and a pace in the past.
ASSUME TimeAssumption ==
  /\ Day \in Nat \ {0}
  /\ Epoch \in Nat /\ Epoch >= Day /\ Epoch >= Pace
  /\ MaxTime \in Nat /\ MaxTime >= Epoch
ASSUME EnvironmentAssumption ==
  /\ MaxRequests \in Nat
  /\ Jumps \subseteq Int
  /\ RetrySeconds \subseteq Nat
  /\ RetryDates \subseteq Nat
  /\ DurationLimit \in Nat \ {0}

VARIABLES
  now,      \* the wall clock
  holder,   \* who holds the flock on command.lock
  file,     \* request-policy.json; ZeroState when it does not exist
  pc,       \* where each process is
  timer,    \* time left on each process's timer, in monotonic time
  state,    \* the policyState each BeforeRequest call works on
  calls,    \* calls to BeforeRequest each command has made
  charged   \* history: transports made, by the window they were counted in

vars == <<now, holder, file, pc, timer, state, calls, charged>>

-----------------------------------------------------------------------------
(* The persisted record and the pure functions on it. *)

Zero == 0
Times == Nat

PolicyState ==
  [windowStart : Times, count : Nat, lastRequest : Times, cooldownUntil : Times]

ZeroState ==
  [windowStart |-> Zero, count |-> 0, lastRequest |-> Zero, cooldownUntil |-> Zero]

Max2(a, b) == IF a >= b THEN a ELSE b

\* time.Truncate(24 * time.Hour)
DayStart(t) == t - (t % Day)

\* The consistency check of load.
Coherent(s) ==
  /\ s.count > 0 => s.windowStart # Zero /\ s.lastRequest # Zero
  /\ s.lastRequest # Zero /\ s.windowStart # Zero => s.lastRequest >= s.windowStart

\* Mutant of Rolled: any other day starts a window, an earlier one as well.
RolledOnDayChange(s, t) ==
  IF s.windowStart = DayStart(t) THEN s
  ELSE [ZeroState EXCEPT !.windowStart = DayStart(t)]

\* rollWindow: a new UTC window forgets the whole record.
Rolled(s, t) ==
  IF s.windowStart = Zero
  THEN [s EXCEPT !.windowStart = DayStart(t)]
  ELSE IF t >= s.windowStart + Day
       THEN [ZeroState EXCEPT !.windowStart = DayStart(t)]
       ELSE s

\* Mutant of CoolingDown: the cooldown ends a moment early.
CoolingDownShort(s, t) == s.cooldownUntil > t + 1

CoolingDown(s, t) == s.cooldownUntil > t

\* Mutant of OverBudget: off by one.
OverBudgetByOne(s) == Budget > 0 /\ s.count > Budget

OverBudget(s) == Budget > 0 /\ s.count >= Budget

\* Mutant of PacedUntil: a last request in the future needs no wait.
PacedUntilNow(s, t) ==
  IF s.lastRequest > t THEN t ELSE s.lastRequest + Pace

\* When the pacing wait ends.  A last request in the future means that the
\* clock was set back: wait one full pace from here.
PacedUntil(s, t) ==
  IF s.lastRequest > t THEN t + Pace ELSE s.lastRequest + Pace

\* Mutant of Counted: the last request is not kept inside its window.
CountedUnclamped(s, t) ==
  [s EXCEPT !.count = @ + 1, !.lastRequest = t]

\* The record BeforeRequest saves for an attempt made at t.
Counted(s, t) ==
  [s EXCEPT !.count = @ + 1, !.lastRequest = Max2(t, s.windowStart)]

\* Multiplication of a time.Duration wraps around.
Wrapped(d) == ((d + DurationLimit) % (2 * DurationLimit)) - DurationLimit

\* Values of the Retry-After header: parseRetryAfter accepts a number of
\* seconds, or a date that is still in the future.
Headers ==
  [form : {"seconds"}, value : RetrySeconds] \cup [form : {"date"}, value : RetryDates]

Understood(h, t) == h.form = "seconds" \/ h.value > t

RetryAt(h, t) == IF h.form = "seconds" THEN t + Wrapped(h.value) ELSE h.value

\* Mutant of WithCooldown: the latest header wins.
WithLatestCooldown(s, until) ==
  [s EXCEPT !.cooldownUntil = until]

WithCooldown(s, until) ==
  [s EXCEPT !.cooldownUntil = Max2(@, until)]

-----------------------------------------------------------------------------
(* Acquire and Release. *)

Leased == {"leased", "pacing", "sending", "awaiting"}

Goto(p, from, to) ==
  /\ pc[p] = from
  /\ pc' = [pc EXCEPT ![p] = to]

\* A command enters Acquire: its deadline starts to run.
StartCommand(p) ==
  /\ Goto(p, "idle", "locking")
  /\ timer' = [timer EXCEPT ![p] = LockWait]
  /\ UNCHANGED <<now, holder, file, state, calls, charged>>

\* Mutant of TakeLock: a shared lock.
TakeLockShared(p) ==
  /\ Goto(p, "locking", "leased")
  /\ holder' = p
  /\ timer' = [timer EXCEPT ![p] = 0]
  /\ UNCHANGED <<now, file, state, calls, charged>>

\* One poll of the lock succeeds.
TakeLock(p) ==
  /\ Goto(p, "locking", "leased")
  /\ holder = NoProc
  /\ holder' = p
  /\ timer' = [timer EXCEPT ![p] = 0]
  /\ UNCHANGED <<now, file, state, calls, charged>>

\* Mutant of LockTimeout: the deadline is never noticed.
LockTimeoutMissed(p) ==
  /\ Goto(p, "locking", "idle")
  /\ timer[p] < 0
  /\ UNCHANGED <<now, holder, file, timer, state, calls, charged>>

\* ErrLockTimeout.
LockTimeout(p) ==
  /\ Goto(p, "locking", "idle")
  /\ timer[p] = 0
  /\ UNCHANGED <<now, holder, file, timer, state, calls, charged>>

\* The caller's context ends while Acquire polls.
CancelLocking(p) ==
  /\ Goto(p, "locking", "idle")
  /\ timer' = [timer EXCEPT ![p] = 0]
  /\ UNCHANGED <<now, holder, file, state, calls, charged>>

Release(p) ==
  /\ Goto(p, "leased", "idle")
  /\ holder' = NoProc
  /\ calls' = [calls EXCEPT ![p] = 0]
  /\ UNCHANGED <<now, file, timer, state, charged>>

-----------------------------------------------------------------------------
(* BeforeRequest.  The clock reading, the load, the checks and, when no    *)
(* wait is due, the save make one step: the lease keeps others off the     *)
(* file meanwhile.                                                         *)

\* A call's own copy of the record is gone when it returns.
Forget(p) == state' = [state EXCEPT ![p] = ZeroState]

\* What every call does first.
Loaded(p) ==
  /\ pc[p] = "leased"
  /\ calls[p] < MaxRequests
  /\ Coherent(file)
  /\ calls' = [calls EXCEPT ![p] = @ + 1]

Allowed(s) == ~CoolingDown(s, now) /\ ~OverBudget(s)

\* ErrServerCooldown or ErrBudgetExhausted: nothing is written.
Refuse(p) ==
  /\ Loaded(p)
  /\ ~Allowed(Rolled(file, now))
  /\ UNCHANGED <<now, holder, file, pc, timer, state, charged>>

\* The save succeeds: the attempt is on disk before it is made.
Save(p, s) ==
  /\ file' = Counted(s, now)
  /\ pc' = [pc EXCEPT ![p] = "sending"]
  /\ state' = [state EXCEPT ![p] = s]

\* The save fails before its rename: BeforeRequest returns the error.
SaveFails(p) ==
  /\ pc' = [pc EXCEPT ![p] = "leased"]
  /\ Forget(p)
  /\ UNCHANGED file

\* No wait is due.
AdmitAtOnce(p) ==
  LET s == Rolled(file, now)
  IN  /\ Loaded(p)
      /\ Allowed(s)
      /\ PacedUntil(s, now) <= now
      /\ Save(p, s) \/ SaveFails(p)
      /\ UNCHANGED <<now, holder, timer, charged>>

\* A wait is due: the rolled record is kept in memory across it.
BeginPacing(p) ==
  LET s == Rolled(file, now)
  IN  /\ Loaded(p)
      /\ Allowed(s)
      /\ PacedUntil(s, now) > now
      /\ pc' = [pc EXCEPT ![p] = "pacing"]
      /\ state' = [state EXCEPT ![p] = s]
      /\ timer' = [timer EXCEPT ![p] = PacedUntil(s, now) - now]
      /\ UNCHANGED <<now, holder, file, charged>>

\* The wait is over: the clock is read again, the record is not.
AdmitAfterPacing(p) ==
  /\ pc[p] = "pacing"
  /\ timer[p] = 0
  /\ Save(p, state[p]) \/ SaveFails(p)
  /\ UNCHANGED <<now, holder, timer, calls, charged>>

\* The context ends during the wait: nothing was counted.
CancelPacing(p) ==
  /\ Goto(p, "pacing", "leased")
  /\ timer' = [timer EXCEPT ![p] = 0]
  /\ Forget(p)
  /\ UNCHANGED <<now, holder, file, calls, charged>>

-----------------------------------------------------------------------------
(* The transport, and RecordResponse. *)

Send(p) ==
  /\ Goto(p, "sending", "awaiting")
  /\ charged' = [charged EXCEPT ![state[p].windowStart] = @ + 1]
  /\ Forget(p)
  /\ UNCHANGED <<now, holder, file, timer, calls>>

\* A transport error, a status other than 429 and 503, or a header that
\* parseRetryAfter does not understand; and a failed save of a cooldown.
Answered(p) ==
  /\ Goto(p, "awaiting", "leased")
  /\ UNCHANGED <<now, holder, file, timer, state, calls, charged>>

\* 429 or 503 with a Retry-After: load, take the later time, save.
RecordCooldown(p, h) ==
  /\ Goto(p, "awaiting", "leased")
  /\ Understood(h, now)
  /\ Coherent(file)
  /\ file' = WithCooldown(file, RetryAt(h, now))
  /\ UNCHANGED <<now, holder, timer, state, calls, charged>>

-----------------------------------------------------------------------------
(* The environment. *)

\* The process dies; the kernel closes its files and so frees its lock.
Crash(p) ==
  /\ pc[p] # "idle"
  /\ pc' = [pc EXCEPT ![p] = "idle"]
  /\ timer' = [timer EXCEPT ![p] = 0]
  /\ calls' = [calls EXCEPT ![p] = 0]
  /\ holder' = IF holder = p THEN NoProc ELSE holder
  /\ Forget(p)
  /\ UNCHANGED <<now, file, charged>>

\* Time passes on both clocks.
Tick ==
  /\ now' = IF now < MaxTime THEN now + 1 ELSE now
  /\ timer' = [p \in Procs |-> IF timer[p] > 0 THEN timer[p] - 1 ELSE 0]
  /\ UNCHANGED <<holder, file, pc, state, calls, charged>>

\* The wall clock is stepped; timers do not notice.
StepClock ==
  /\ \E d \in Jumps :
       /\ now + d \in Epoch .. MaxTime
       /\ now' = now + d
  /\ UNCHANGED <<holder, file, pc, timer, state, calls, charged>>

-----------------------------------------------------------------------------

Windows == {DayStart(t) : t \in Epoch .. MaxTime}

Init ==
  /\ now \in Epoch .. MaxTime
  /\ holder = NoProc
  /\ file = ZeroState
  /\ pc = [p \in Procs |-> "idle"]
  /\ timer = [p \in Procs |-> 0]
  /\ state = [p \in Procs |-> ZeroState]
  /\ calls = [p \in Procs |-> 0]
  /\ charged = [w \in Windows |-> 0]

\* The steps the scheduler owes a running command.
Progress(p) ==
  \/ TakeLock(p)
  \/ LockTimeout(p)
  \/ Refuse(p)
  \/ AdmitAtOnce(p)
  \/ BeginPacing(p)
  \/ AdmitAfterPacing(p)
  \/ Send(p)
  \/ Answered(p)
  \/ \E h \in Headers : RecordCooldown(p, h)
  \/ Release(p)

ProcessStep ==
  \E p \in Procs :
    \/ StartCommand(p)
    \/ Progress(p)
    \/ CancelLocking(p)
    \/ CancelPacing(p)
    \/ Crash(p)

Next ==
  \/ ProcessStep
  \/ Tick
  \/ StepClock

Spec == Init /\ [][Next]_vars

FairSpec ==
  /\ Spec
  /\ WF_vars(Tick)
  /\ \A p \in Procs : WF_vars(Progress(p))

-----------------------------------------------------------------------------
(* Properties. *)

\* Every variable has its type.
TypeOK ==
  /\ now \in Epoch .. MaxTime
  /\ holder \in Procs \cup {NoProc}
  /\ file \in PolicyState
  /\ pc \in [Procs -> Leased \cup {"idle", "locking"}]
  /\ timer \in [Procs -> Nat]
  /\ state \in [Procs -> PolicyState]
  /\ calls \in [Procs -> Nat]
  /\ charged \in [Windows -> Nat]

\* The program never writes a record its own load would reject: whatever the
\* wall clock does, the account is not locked out by ErrInvalidState
\* (coordination.go:279).
FileCoherent == Coherent(file)

\* No UTC window is ever charged with more transports than its budget, with
\* several processes, crashes between the save and the transport, and a wall
\* clock that is set back over a window's start (coordination.go:255-265).
BudgetPerWindow ==
  Budget > 0 => \A w \in Windows : charged[w] <= Budget

\* Every transport of the current window is in the persisted count, and so
\* is the one a process is about to make: a request is counted before it is
\* sent (coordination.go:169-206).
CountedBeforeSent ==
  file.windowStart # Zero =>
    charged[file.windowStart]
      + Cardinality({p \in Procs : pc[p] = "sending"}) <= file.count

\* The persisted window never moves back, and within a window the count never
\* shrinks and a cooldown is never shortened, whichever process writes and
\* whatever the wall clock does (coordination.go:208-228, 255-265).
RecordOnlyGrows ==
  [][ \/ file'.windowStart > file.windowStart
      \/ /\ file'.windowStart = file.windowStart
         /\ file'.count >= file.count
         /\ file'.cooldownUntil >= file.cooldownUntil ]_file

\* Every command ends: it never waits for the lock, for its pace or for
\* another command for ever, even when lock holders die
\* (coordination.go:102-137, 314-327).
CommandEnds ==
  \A p \in Procs : pc[p] # "idle" ~> pc[p] = "idle"
=============================================================================
