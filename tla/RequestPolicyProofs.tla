------------------------- MODULE RequestPolicyProofs -------------------------
(***************************************************************************)
(* Proofs about RequestPolicy and PolicyHistory, for every number of       *)
(* processes, every configuration and every behaviour of the clocks.       *)
(*                                                                         *)
(* BudgetPerWindow is not inductive: that a process may send rests on the  *)
(* copy of the record it kept across its wait (PacingInv), on the record   *)
(* being no younger than that copy, and on nobody else writing it          *)
(* meanwhile (LeaseInv).                                                   *)
(*                                                                         *)
(* What the portal sees rests on the record on disk and on what a waiting  *)
(* process remembers of it: the invariants of the second part (HistoryInv) *)
(* tie both to the time that has really elapsed.                           *)
(***************************************************************************)
EXTENDS PolicyHistory, FiniteSetTheorems, TLAPS

\* Only the holder of the lock is past Acquire.
LeaseInv == \A p \in Procs : pc[p] \in Leased => holder = p

\* What is on disk.
FileInv ==
  /\ file.windowStart \in Windows \cup {Zero}
  /\ Coherent(file)
  /\ Budget > 0 => file.count <= Budget

\* A copy s of the record f that a request may still be counted in.
Current(s, f) ==
  /\ s.windowStart \in Windows
  /\ s.windowStart >= f.windowStart
  /\ s.windowStart = f.windowStart =>
       s.count = f.count /\ s.cooldownUntil = f.cooldownUntil
  /\ s.windowStart # f.windowStart => s.count = 0
  /\ Budget > 0 => s.count < Budget

PacingInv == \A p \in Procs : pc[p] = "pacing" => Current(state[p], file)

\* A request about to be sent is in the count, and not yet charged.
SendingInv ==
  \A p \in Procs : pc[p] = "sending" =>
    /\ file.windowStart \in Windows
    /\ state[p].windowStart = file.windowStart
    /\ charged[file.windowStart] + 1 <= file.count

ChargedInv ==
  \A w \in Windows :
    /\ w > file.windowStart => charged[w] = 0
    /\ w = file.windowStart => charged[w] <= file.count
    /\ Budget > 0 => charged[w] <= Budget

Inv ==
  /\ TypeOK
  /\ LeaseInv
  /\ FileInv
  /\ PacingInv
  /\ SendingInv
  /\ ChargedInv

-----------------------------------------------------------------------------
(* Days and windows. *)

\* A day starts at most a day before any of its times, and after the zero time.
LEMMA DayStartBounds ==
  ASSUME NEW t \in Epoch .. MaxTime
  PROVE  /\ DayStart(t) \in Windows
         /\ DayStart(t) \in Nat \ {0}
         /\ DayStart(t) <= t
         /\ t < DayStart(t) + Day
<1> USE TimeAssumption
<1>1. t \in Nat /\ t >= Day
  OBVIOUS
<1>2. t % Day \in 0 .. Day - 1
  BY <1>1
<1>3. DayStart(t) = t - (t % Day)
  BY DEF DayStart
<1>4. DayStart(t) \in Windows
  BY DEF Windows
<1> QED
  BY <1>1, <1>2, <1>3, <1>4

LEMMA WindowsAreTimes == \A w \in Windows : w \in Nat \ {0}
BY DayStartBounds DEF Windows

\* rollWindow keeps a record or replaces it by a younger one without requests.
LEMMA RolledFacts ==
  ASSUME NEW f \in PolicyState, NEW t \in Epoch .. MaxTime,
         f.windowStart \in Windows \cup {Zero}, Coherent(f)
  PROVE  /\ Rolled(f, t) \in PolicyState
         /\ Rolled(f, t).windowStart \in Windows
         /\ Rolled(f, t).windowStart >= f.windowStart
         /\ Rolled(f, t).windowStart = f.windowStart => Rolled(f, t) = f
         /\ Rolled(f, t).windowStart # f.windowStart => Rolled(f, t).count = 0
<1> DEFINE d == DayStart(t)
<1>1. d \in Windows /\ d \in Nat \ {0} /\ d <= t /\ t < d + Day
  BY DayStartBounds
<1>2. t \in Nat /\ Day \in Nat /\ f.windowStart \in Nat
  BY TimeAssumption DEF PolicyState, Times
<1>3. CASE f.windowStart = Zero
  <2>1. Rolled(f, t) = [f EXCEPT !.windowStart = d]
    BY <1>3 DEF Rolled
  <2>2. f.count = 0
    BY <1>3 DEF Coherent, PolicyState
  <2> HIDE DEF d
  <2> QED
    BY <1>1, <1>3, <2>1, <2>2 DEF PolicyState, Times, Zero
<1>4. CASE f.windowStart # Zero /\ t >= f.windowStart + Day
  <2>1. Rolled(f, t) = [ZeroState EXCEPT !.windowStart = d]
    BY <1>4 DEF Rolled
  <2>2. d > f.windowStart
    BY <1>1, <1>2, <1>4
  <2> HIDE DEF d
  <2> QED
    BY <1>1, <1>2, <2>1, <2>2 DEF PolicyState, Times, Zero, ZeroState
<1>5. CASE f.windowStart # Zero /\ ~(t >= f.windowStart + Day)
  BY <1>2, <1>5 DEF Rolled, PolicyState
<1> QED
  BY <1>3, <1>4, <1>5

\* A counted record is one that load accepts.
LEMMA CountedFacts ==
  ASSUME NEW s \in PolicyState, NEW t \in Nat, s.windowStart \in Windows
  PROVE  /\ Counted(s, t) \in PolicyState
         /\ Counted(s, t).windowStart = s.windowStart
         /\ Counted(s, t).count = s.count + 1
         /\ Counted(s, t).cooldownUntil = s.cooldownUntil
         /\ Coherent(Counted(s, t))
<1>1. s.windowStart \in Nat \ {0}
  BY WindowsAreTimes
<1> DEFINE n == s.count + 1
           last == Max2(t, s.windowStart)
<1>2. n \in Nat \ {0} /\ last \in Nat \ {0} /\ last >= s.windowStart
  BY <1>1 DEF Max2, PolicyState
<1>3. Counted(s, t) = [s EXCEPT !.count = n, !.lastRequest = last]
  BY DEF Counted
<1> HIDE DEF n, last
<1>4. /\ Counted(s, t) \in PolicyState
      /\ Counted(s, t).windowStart = s.windowStart
      /\ Counted(s, t).count = n
      /\ Counted(s, t).cooldownUntil = s.cooldownUntil
      /\ Counted(s, t).lastRequest = last
  BY <1>2, <1>3 DEF PolicyState, Times
<1>5. Coherent(Counted(s, t))
  BY <1>1, <1>2, <1>4 DEF Coherent, Zero
<1> QED
  BY <1>4, <1>5 DEF n

\* A server's delay may be any integer, for the multiplication may overflow;
\* the recorded cooldown never gets shorter for it.
LEMMA RetryAtIsInteger ==
  ASSUME NEW h \in Headers, NEW t \in Nat
  PROVE  RetryAt(h, t) \in Int
<1>1. h.value \in Nat
  BY EnvironmentAssumption DEF Headers
<1>2. Wrapped(h.value) \in Int
  BY <1>1, EnvironmentAssumption DEF Wrapped
<1> QED
  BY <1>1, <1>2 DEF RetryAt

LEMMA CooldownFacts ==
  ASSUME NEW f \in PolicyState, NEW u \in Int
  PROVE  /\ WithCooldown(f, u) \in PolicyState
         /\ WithCooldown(f, u).windowStart = f.windowStart
         /\ WithCooldown(f, u).count = f.count
         /\ WithCooldown(f, u).lastRequest = f.lastRequest
         /\ WithCooldown(f, u).cooldownUntil >= f.cooldownUntil
BY DEF WithCooldown, PolicyState, Times, Max2

-----------------------------------------------------------------------------
(* The inductive invariant. *)

LEMMA Initial == Init => Inv
<1> SUFFICES ASSUME Init PROVE Inv
  OBVIOUS
<1>1. ZeroState \in PolicyState
  BY DEF ZeroState, PolicyState, Times, Zero
<1>2. TypeOK
  BY <1>1 DEF Init, TypeOK
<1>3. LeaseInv /\ PacingInv /\ SendingInv
  BY DEF Init, LeaseInv, PacingInv, SendingInv, Leased
<1>4. FileInv
  BY ConfigAssumption DEF Init, FileInv, ZeroState, Coherent, Zero
<1>5. ChargedInv
  BY WindowsAreTimes, ConfigAssumption DEF Init, ChargedInv, ZeroState, Zero
<1> QED
  BY <1>2, <1>3, <1>4, <1>5 DEF Inv

\* A step that leaves the record alone, and lets no process begin to wait or
\* to send, keeps what is said of them.
LEMMA QuietStep ==
  ASSUME Inv, UNCHANGED <<file, charged>>,
         \A q \in Procs : pc'[q] \in {"pacing", "sending"} =>
           pc'[q] = pc[q] /\ state'[q] = state[q]
  PROVE  FileInv' /\ PacingInv' /\ SendingInv' /\ ChargedInv'
<1>1. FileInv' /\ ChargedInv'
  BY DEF Inv, FileInv, ChargedInv
<1>2. PacingInv'
  BY DEF Inv, PacingInv, Current
<1>3. SendingInv'
  BY DEF Inv, SendingInv
<1> QED
  BY <1>1, <1>2, <1>3

\* The save of a current copy by the process that holds the lock.
LEMMA SaveStep ==
  ASSUME Inv, NEW p \in Procs, pc[p] \in Leased,
         NEW s \in PolicyState, Current(s, file), Save(p, s), UNCHANGED charged
  PROVE  /\ file' \in PolicyState
         /\ FileInv' /\ PacingInv' /\ SendingInv' /\ ChargedInv'
<1> DEFINE f == Counted(s, now)
<1>1. now \in Nat
  BY TimeAssumption DEF Inv, TypeOK
<1>2. /\ f \in PolicyState
      /\ f.windowStart = s.windowStart
      /\ f.count = s.count + 1
      /\ Coherent(f)
  BY <1>1, CountedFacts DEF Current
<1>3. file' = f /\ s.windowStart \in Windows /\ s.windowStart >= file.windowStart
  BY DEF Save, Current
<1> HIDE DEF f
<1>4. s.count \in Nat /\ file.count \in Nat /\ file.windowStart \in Nat
  BY DEF Inv, TypeOK, PolicyState, Times
<1>5. Budget > 0 => s.count + 1 <= Budget
  BY <1>4, ConfigAssumption DEF Current
<1>6. FileInv'
  BY <1>2, <1>3, <1>5 DEF FileInv
<1>7. \A q \in Procs : pc'[q] \in {"pacing", "sending"} => q = p /\ pc'[q] = "sending"
  <2>1. \A q \in Procs : pc[q] \in Leased => q = p
    BY DEF Inv, LeaseInv
  <2> QED
    BY <2>1 DEF Inv, TypeOK, Save, Leased
<1>8. PacingInv'
  BY <1>7 DEF PacingInv
<1>9. charged \in [Windows -> Nat] /\ charged' = charged
  BY DEF Inv, TypeOK
<1>10. charged[s.windowStart] <= s.count
  <2>1. CASE s.windowStart = file.windowStart
    BY <2>1, <1>3 DEF Inv, ChargedInv, Current
  <2>2. CASE s.windowStart > file.windowStart
    BY <2>2, <1>3, <1>4 DEF Inv, ChargedInv
  <2> QED
    BY <1>3, <1>4, <2>1, <2>2, WindowsAreTimes
<1>11. SendingInv'
  <2> SUFFICES ASSUME NEW q \in Procs, pc'[q] = "sending"
               PROVE  /\ file'.windowStart \in Windows
                      /\ state'[q].windowStart = file'.windowStart
                      /\ charged'[file'.windowStart] + 1 <= file'.count
    BY DEF SendingInv
  <2>1. state'[q] = s
    BY <1>7 DEF Inv, TypeOK, Save
  <2> QED
    BY <1>2, <1>3, <1>4, <1>9, <1>10, <2>1
<1>12. ChargedInv'
  <2> SUFFICES ASSUME NEW w \in Windows
               PROVE  /\ w > s.windowStart => charged[w] = 0
                      /\ w = s.windowStart => charged[w] <= s.count + 1
                      /\ Budget > 0 => charged[w] <= Budget
    BY <1>2, <1>3, <1>9 DEF ChargedInv
  <2>1. w > s.windowStart => w > file.windowStart
    BY <1>3, <1>4, WindowsAreTimes
  <2> QED
    BY <1>3, <1>4, <1>9, <1>10, <2>1 DEF Inv, ChargedInv
<1> QED
  BY <1>2, <1>3, <1>6, <1>8, <1>11, <1>12

\* A step that lets no process past Acquire and leaves the lock alone.
LEMMA LeaseKept ==
  ASSUME Inv, UNCHANGED holder,
         \A q \in Procs : pc'[q] \in Leased => pc[q] \in Leased
  PROVE  LeaseInv'
BY DEF Inv, LeaseInv

\* The copy a request works on, taken from the record on disk.
LEMMA FreshCopy ==
  ASSUME Inv, Allowed(Rolled(file, now))
  PROVE  Rolled(file, now) \in PolicyState /\ Current(Rolled(file, now), file)
<1> DEFINE s == Rolled(file, now)
<1>1. file \in PolicyState /\ now \in Epoch .. MaxTime
      /\ file.windowStart \in Windows \cup {Zero} /\ Coherent(file)
  BY DEF Inv, TypeOK, FileInv
<1>2. /\ s \in PolicyState
      /\ s.windowStart \in Windows
      /\ s.windowStart >= file.windowStart
      /\ s.windowStart = file.windowStart => s = file
      /\ s.windowStart # file.windowStart => s.count = 0
  BY <1>1, RolledFacts
<1>3. Budget > 0 => ~(s.count >= Budget)
  BY DEF Allowed, OverBudget
<1> HIDE DEF s
<1>4. s.count \in Nat
  BY <1>2 DEF PolicyState
<1>5. s \in PolicyState /\ Current(s, file)
  BY <1>2, <1>3, <1>4, ConfigAssumption DEF Current
<1> QED
  BY <1>5 DEF s

\* Attempts that save or fail to save a current copy.
LEMMA AdmitStep ==
  ASSUME Inv, NEW p \in Procs, pc[p] \in Leased,
         NEW s \in PolicyState, Current(s, file),
         Save(p, s) \/ SaveFails(p), UNCHANGED <<now, holder, timer, charged>>,
         calls' \in [Procs -> Nat]
  PROVE  Inv'
<1>1. ZeroState \in PolicyState
  BY DEF ZeroState, PolicyState, Times, Zero
<1>2. CASE Save(p, s)
  <2>1. file' \in PolicyState /\ FileInv' /\ PacingInv' /\ SendingInv' /\ ChargedInv'
    BY <1>2, SaveStep
  <2>2. TypeOK'
    BY <1>2, <2>1 DEF Inv, TypeOK, Save, Leased
  <2>3. LeaseInv'
    BY <1>2, LeaseKept DEF Save, Inv, TypeOK, Leased
  <2> QED
    BY <2>1, <2>2, <2>3 DEF Inv
<1>3. CASE SaveFails(p)
  <2>1. TypeOK'
    BY <1>1, <1>3 DEF Inv, TypeOK, SaveFails, Forget, Leased
  <2>2. LeaseInv'
    BY <1>3, LeaseKept DEF SaveFails, Inv, TypeOK, Leased
  <2>3. FileInv' /\ PacingInv' /\ SendingInv' /\ ChargedInv'
    BY <1>3, QuietStep DEF SaveFails, Forget, Inv, TypeOK
  <2> QED
    BY <2>1, <2>2, <2>3 DEF Inv
<1> QED
  BY <1>2, <1>3

-----------------------------------------------------------------------------
(* Every action keeps the invariant. *)

LEMMA LockingKeepsInv ==
  ASSUME Inv, NEW p \in Procs,
         \/ StartCommand(p) \/ TakeLock(p) \/ LockTimeout(p) \/ CancelLocking(p)
         \/ Release(p) \/ Crash(p)
  PROVE  Inv'
<1>1. ZeroState \in PolicyState
  BY DEF ZeroState, PolicyState, Times, Zero
<1>2. TypeOK'
  BY <1>1, ConfigAssumption
  DEF Inv, TypeOK, StartCommand, TakeLock, LockTimeout, CancelLocking, Release,
      Crash, Forget, Goto, Leased
<1>3. FileInv' /\ PacingInv' /\ SendingInv' /\ ChargedInv'
  <2>1. UNCHANGED <<file, charged>>
    BY DEF StartCommand, TakeLock, LockTimeout, CancelLocking, Release, Crash
  <2>2. \A q \in Procs : pc'[q] \in {"pacing", "sending"} =>
          pc'[q] = pc[q] /\ state'[q] = state[q]
    BY DEF Inv, TypeOK, StartCommand, TakeLock, LockTimeout, CancelLocking,
           Release, Crash, Forget, Goto
  <2> QED
    BY <2>1, <2>2, QuietStep
<1>4. LeaseInv'
  <2>1. CASE TakeLock(p)
    <3>1. \A q \in Procs : pc[q] \notin Leased
      BY <2>1, ProcsAssumption DEF Inv, LeaseInv, TakeLock
    <3> QED
      BY <2>1, <3>1 DEF Inv, TypeOK, LeaseInv, TakeLock, Goto
  <2>2. CASE Release(p)
    <3>1. \A q \in Procs : pc[q] \in Leased => q = p
      BY <2>2 DEF Inv, LeaseInv, Release, Goto, Leased
    <3> QED
      BY <2>2, <3>1 DEF Inv, TypeOK, LeaseInv, Release, Goto, Leased
  <2>3. CASE Crash(p)
    BY <2>3 DEF Inv, TypeOK, LeaseInv, Crash, Leased
  <2>4. CASE StartCommand(p) \/ LockTimeout(p) \/ CancelLocking(p)
    BY <2>4 DEF Inv, TypeOK, LeaseInv, StartCommand, LockTimeout, CancelLocking,
                Goto, Leased
  <2> QED
    BY <2>1, <2>2, <2>3, <2>4
<1> QED
  BY <1>2, <1>3, <1>4 DEF Inv

LEMMA RefuseKeepsInv ==
  ASSUME Inv, NEW p \in Procs, Refuse(p)
  PROVE  Inv'
<1>1. TypeOK'
  BY DEF Inv, TypeOK, Refuse, Loaded
<1>2. LeaseInv'
  BY DEF Inv, LeaseInv, Refuse
<1>3. FileInv' /\ PacingInv' /\ SendingInv' /\ ChargedInv'
  BY QuietStep DEF Refuse
<1> QED
  BY <1>1, <1>2, <1>3 DEF Inv

LEMMA AdmitAtOnceKeepsInv ==
  ASSUME Inv, NEW p \in Procs, AdmitAtOnce(p)
  PROVE  Inv'
<1> PICK s \in PolicyState : s = Rolled(file, now) /\ Current(s, file)
  BY FreshCopy DEF AdmitAtOnce
<1>1. Save(p, s) \/ SaveFails(p)
  BY DEF AdmitAtOnce
<1>2. pc[p] \in Leased /\ calls' \in [Procs -> Nat]
  BY DEF AdmitAtOnce, Loaded, Leased, Inv, TypeOK
<1>3. UNCHANGED <<now, holder, timer, charged>>
  BY DEF AdmitAtOnce
<1> QED
  BY <1>1, <1>2, <1>3, AdmitStep

LEMMA AdmitAfterPacingKeepsInv ==
  ASSUME Inv, NEW p \in Procs, AdmitAfterPacing(p)
  PROVE  Inv'
<1> PICK s \in PolicyState : s = state[p] /\ Current(s, file)
  BY DEF AdmitAfterPacing, Inv, TypeOK, PacingInv
<1>1. Save(p, s) \/ SaveFails(p)
  BY DEF AdmitAfterPacing
<1>2. pc[p] \in Leased /\ calls' \in [Procs -> Nat]
  BY DEF AdmitAfterPacing, Leased, Inv, TypeOK
<1>3. UNCHANGED <<now, holder, timer, charged>>
  BY DEF AdmitAfterPacing
<1> QED
  BY <1>1, <1>2, <1>3, AdmitStep

LEMMA BeginPacingKeepsInv ==
  ASSUME Inv, NEW p \in Procs, BeginPacing(p)
  PROVE  Inv'
<1> PICK s \in PolicyState : s = Rolled(file, now) /\ Current(s, file)
  BY FreshCopy DEF BeginPacing
<1>1. /\ pc[p] = "leased"
      /\ pc' = [pc EXCEPT ![p] = "pacing"]
      /\ state' = [state EXCEPT ![p] = s]
      /\ timer' = [timer EXCEPT ![p] = PacedUntil(s, now) - now]
      /\ PacedUntil(s, now) > now
      /\ UNCHANGED <<now, holder, file, charged>>
  BY DEF BeginPacing, Loaded
<1>2. PacedUntil(s, now) - now \in Nat
  <2>1. now \in Nat /\ s.lastRequest \in Nat /\ Pace \in Nat
    BY TimeAssumption, ConfigAssumption DEF Inv, TypeOK, PolicyState, Times
  <2> QED
    BY <1>1, <2>1 DEF PacedUntil
<1>3. TypeOK'
  <2>1. calls' \in [Procs -> Nat]
    BY DEF BeginPacing, Loaded, Inv, TypeOK
  <2> QED
    BY <1>1, <1>2, <2>1 DEF Inv, TypeOK, Leased
<1>4. LeaseInv'
  BY <1>1 DEF Inv, TypeOK, LeaseInv, Leased
<1>5. PacingInv'
  <2> SUFFICES ASSUME NEW q \in Procs, pc'[q] = "pacing"
               PROVE  Current(state'[q], file)
    BY <1>1 DEF PacingInv, Current
  <2>1. CASE q = p
    BY <1>1, <2>1 DEF Inv, TypeOK
  <2>2. CASE q # p
    BY <1>1, <2>2 DEF Inv, TypeOK, PacingInv
  <2> QED
    BY <2>1, <2>2
<1>6. SendingInv'
  BY <1>1 DEF Inv, TypeOK, SendingInv
<1>7. FileInv' /\ ChargedInv'
  BY <1>1 DEF Inv, FileInv, ChargedInv
<1> QED
  BY <1>3, <1>4, <1>5, <1>6, <1>7 DEF Inv

LEMMA CancelPacingKeepsInv ==
  ASSUME Inv, NEW p \in Procs, CancelPacing(p)
  PROVE  Inv'
<1>1. ZeroState \in PolicyState
  BY DEF ZeroState, PolicyState, Times, Zero
<1>2. TypeOK'
  BY <1>1 DEF Inv, TypeOK, CancelPacing, Forget, Goto, Leased
<1>3. LeaseInv'
  BY DEF Inv, TypeOK, LeaseInv, CancelPacing, Goto, Leased
<1>4. FileInv' /\ PacingInv' /\ SendingInv' /\ ChargedInv'
  BY QuietStep DEF Inv, TypeOK, CancelPacing, Forget, Goto
<1> QED
  BY <1>2, <1>3, <1>4 DEF Inv

\* The one step that charges a window: the request is in the count already.
LEMMA SendKeepsInv ==
  ASSUME Inv, NEW p \in Procs, Send(p)
  PROVE  Inv'
<1> DEFINE w == file.windowStart
<1>1. ZeroState \in PolicyState
  BY DEF ZeroState, PolicyState, Times, Zero
<1>2. /\ w \in Windows
      /\ charged[w] + 1 <= file.count
      /\ charged' = [charged EXCEPT ![w] = charged[w] + 1]
  BY DEF Inv, SendingInv, Send, Goto
<1>3. /\ UNCHANGED <<now, holder, file, timer, calls>>
      /\ pc' = [pc EXCEPT ![p] = "awaiting"]
      /\ state' = [state EXCEPT ![p] = ZeroState]
      /\ pc[p] = "sending"
  BY DEF Send, Goto, Forget
<1>4. TypeOK'
  BY <1>1, <1>2, <1>3 DEF Inv, TypeOK, Leased
<1>5. LeaseInv'
  BY <1>3 DEF Inv, TypeOK, LeaseInv, Leased
<1>6. \A q \in Procs : pc'[q] \notin {"pacing", "sending"}
  BY <1>3 DEF Inv, TypeOK, LeaseInv, Leased
<1>7. PacingInv' /\ SendingInv'
  BY <1>6 DEF PacingInv, SendingInv
<1>8. FileInv'
  BY <1>3 DEF Inv, FileInv
<1>9. ChargedInv'
  <2> SUFFICES ASSUME NEW v \in Windows
               PROVE  /\ v > w => charged'[v] = 0
                      /\ v = w => charged'[v] <= file.count
                      /\ Budget > 0 => charged'[v] <= Budget
    BY <1>3 DEF ChargedInv
  <2>1. CASE v = w
    <3>1. charged'[v] = charged[w] + 1 /\ charged[w] \in Nat /\ file.count \in Nat
      BY <1>2, <2>1 DEF Inv, TypeOK, PolicyState
    <3>2. ~(v > w)
      BY <2>1, WindowsAreTimes
    <3> QED
      BY <1>2, <2>1, <3>1, <3>2, ConfigAssumption DEF Inv, FileInv
  <2>2. CASE v # w
    BY <1>2, <2>2 DEF Inv, TypeOK, ChargedInv
  <2> QED
    BY <2>1, <2>2
<1> QED
  BY <1>4, <1>5, <1>7, <1>8, <1>9 DEF Inv

LEMMA AnsweredKeepsInv ==
  ASSUME Inv, NEW p \in Procs, Answered(p)
  PROVE  Inv'
<1>1. TypeOK'
  BY DEF Inv, TypeOK, Answered, Goto, Leased
<1>2. LeaseInv'
  BY DEF Inv, TypeOK, LeaseInv, Answered, Goto, Leased
<1>3. FileInv' /\ PacingInv' /\ SendingInv' /\ ChargedInv'
  BY QuietStep DEF Inv, TypeOK, Answered, Goto
<1> QED
  BY <1>1, <1>2, <1>3 DEF Inv

LEMMA RecordCooldownKeepsInv ==
  ASSUME Inv, NEW p \in Procs, NEW h \in Headers, RecordCooldown(p, h)
  PROVE  Inv'
<1>1. RetryAt(h, now) \in Int
  BY RetryAtIsInteger, TimeAssumption DEF Inv, TypeOK
<1>2. /\ file' \in PolicyState
      /\ file'.windowStart = file.windowStart
      /\ file'.count = file.count
      /\ file'.lastRequest = file.lastRequest
  BY <1>1, CooldownFacts DEF RecordCooldown, Inv, TypeOK
<1>3. /\ pc[p] = "awaiting"
      /\ pc' = [pc EXCEPT ![p] = "leased"]
      /\ UNCHANGED <<now, holder, timer, state, calls, charged>>
  BY DEF RecordCooldown, Goto
<1>4. TypeOK'
  BY <1>2, <1>3 DEF Inv, TypeOK, Leased
<1>5. LeaseInv'
  BY <1>3 DEF Inv, TypeOK, LeaseInv, Leased
<1>6. \A q \in Procs : pc'[q] \notin {"pacing", "sending"}
  BY <1>3 DEF Inv, TypeOK, LeaseInv, Leased
<1>7. PacingInv' /\ SendingInv'
  BY <1>6 DEF PacingInv, SendingInv
<1>8. FileInv' /\ ChargedInv'
  BY <1>2, <1>3 DEF Inv, FileInv, ChargedInv, Coherent
<1> QED
  BY <1>4, <1>5, <1>7, <1>8 DEF Inv

LEMMA ClocksKeepInv ==
  ASSUME Inv, Tick \/ StepClock
  PROVE  Inv'
<1>1. now' \in Epoch .. MaxTime
  BY TimeAssumption DEF Inv, TypeOK, Tick, StepClock
<1>2. timer' \in [Procs -> Nat]
  BY DEF Inv, TypeOK, Tick, StepClock
<1>3. UNCHANGED <<holder, file, pc, state, calls, charged>>
  BY DEF Tick, StepClock
<1>4. TypeOK'
  BY <1>1, <1>2, <1>3 DEF Inv, TypeOK
<1>5. LeaseInv'
  BY <1>3 DEF Inv, LeaseInv
<1>6. FileInv' /\ PacingInv' /\ SendingInv' /\ ChargedInv'
  BY <1>3, QuietStep
<1> QED
  BY <1>4, <1>5, <1>6 DEF Inv

LEMMA Inductive == Inv /\ [Next]_vars => Inv'
<1> SUFFICES ASSUME Inv, [Next]_vars PROVE Inv'
  OBVIOUS
<1>1. CASE UNCHANGED vars
  BY <1>1 DEF vars, Inv, TypeOK, LeaseInv, FileInv, PacingInv, SendingInv,
              ChargedInv, Current
<1>2. ASSUME NEW p \in Procs, Progress(p) PROVE Inv'
  BY <1>2, LockingKeepsInv, RefuseKeepsInv, AdmitAtOnceKeepsInv,
     BeginPacingKeepsInv, AdmitAfterPacingKeepsInv, SendKeepsInv,
     AnsweredKeepsInv, RecordCooldownKeepsInv
  DEF Progress
<1>3. CASE ProcessStep
  BY <1>2, <1>3, LockingKeepsInv, CancelPacingKeepsInv DEF ProcessStep
<1> QED
  BY <1>1, <1>3, ClocksKeepInv DEF Next

-----------------------------------------------------------------------------
(* The theorems. *)

LEMMA InvHolds == Spec => []Inv
BY Initial, Inductive, PTL DEF Spec

\* Every variable keeps its type, with any number of processes and any
\* Retry-After the portal sends (coordination.go:152-228).
THEOREM TypeCorrect == Spec => []TypeOK
<1>1. Inv => TypeOK
  BY DEF Inv
<1> QED
  BY <1>1, InvHolds, PTL

\* The record on disk is always one that load accepts (coordination.go:279).
THEOREM AlwaysCoherent == Spec => []FileCoherent
<1>1. Inv => FileCoherent
  BY DEF Inv, FileInv, FileCoherent
<1> QED
  BY <1>1, InvHolds, PTL

\* No window is ever charged with more transports than the budget
\* (coordination.go:171-206).
THEOREM BudgetHolds == Spec => []BudgetPerWindow
<1>1. Inv => BudgetPerWindow
  BY DEF Inv, ChargedInv, BudgetPerWindow
<1> QED
  BY <1>1, InvHolds, PTL

\* A request is in the persisted count before it is sent
\* (coordination.go:169-206).
THEOREM CountedFirst == Spec => []CountedBeforeSent
<1>1. Inv => CountedBeforeSent
  <2> SUFFICES ASSUME Inv, file.windowStart # Zero
               PROVE  charged[file.windowStart]
                        + Cardinality({p \in Procs : pc[p] = "sending"}) <= file.count
    BY DEF CountedBeforeSent
  <2>1. file.windowStart \in Windows
    BY DEF Inv, FileInv
  <2>2. charged[file.windowStart] \in Nat /\ file.count \in Nat
        /\ charged[file.windowStart] <= file.count
    BY <2>1 DEF Inv, TypeOK, ChargedInv, PolicyState
  <2>3. CASE \E p \in Procs : pc[p] = "sending"
    <3> PICK p \in Procs : pc[p] = "sending"
      BY <2>3
    <3>1. {q \in Procs : pc[q] = "sending"} = {p}
      BY DEF Inv, LeaseInv, Leased
    <3>2. Cardinality({p}) = 1
      BY FS_Singleton
    <3>3. charged[file.windowStart] + 1 <= file.count
      BY DEF Inv, SendingInv
    <3> QED
      BY <3>1, <3>2, <3>3
  <2>4. CASE ~ \E p \in Procs : pc[p] = "sending"
    <3>1. {q \in Procs : pc[q] = "sending"} = {}
      BY <2>4
    <3>2. Cardinality({}) = 0
      BY FS_EmptySet
    <3> QED
      BY <2>2, <3>1, <3>2
  <2> QED
    BY <2>3, <2>4
<1> QED
  BY <1>1, InvHolds, PTL

\* The window never moves back, and within it neither the count nor the
\* cooldown shrinks (coordination.go:208-228, 255-265).
THEOREM OnlyGrows == Spec => RecordOnlyGrows
<1> DEFINE Grows == \/ file'.windowStart > file.windowStart
                    \/ /\ file'.windowStart = file.windowStart
                       /\ file'.count >= file.count
                       /\ file'.cooldownUntil >= file.cooldownUntil
<1>1. ASSUME Inv, NEW p \in Procs, NEW s \in PolicyState, Current(s, file), Save(p, s)
      PROVE  Grows
  <2>1. now \in Nat
    BY <1>1, TimeAssumption DEF Inv, TypeOK
  <2>2. /\ s.windowStart \in Nat /\ s.count \in Nat /\ s.cooldownUntil \in Nat
        /\ file.windowStart \in Nat
    BY <1>1 DEF Inv, TypeOK, PolicyState, Times
  <2>3. /\ file'.windowStart = s.windowStart
        /\ file'.count = s.count + 1
        /\ file'.cooldownUntil = s.cooldownUntil
    BY <1>1, <2>1, CountedFacts DEF Save, Current
  <2> QED
    BY <1>1, <2>2, <2>3 DEF Current
<1>2. ASSUME Inv, NEW p \in Procs, AdmitAtOnce(p) PROVE Grows \/ UNCHANGED file
  <2> PICK s \in PolicyState : s = Rolled(file, now) /\ Current(s, file)
    BY <1>2, FreshCopy DEF AdmitAtOnce
  <2>1. Save(p, s) \/ SaveFails(p)
    BY <1>2 DEF AdmitAtOnce
  <2> QED
    BY <1>1, <1>2, <2>1 DEF SaveFails
<1>3. ASSUME Inv, NEW p \in Procs, AdmitAfterPacing(p) PROVE Grows \/ UNCHANGED file
  <2> PICK s \in PolicyState : s = state[p] /\ Current(s, file)
    BY <1>3 DEF AdmitAfterPacing, Inv, TypeOK, PacingInv
  <2>1. Save(p, s) \/ SaveFails(p)
    BY <1>3 DEF AdmitAfterPacing
  <2> QED
    BY <1>1, <1>3, <2>1 DEF SaveFails
<1>4. ASSUME Inv, NEW p \in Procs, NEW h \in Headers, RecordCooldown(p, h) PROVE Grows
  <2>1. RetryAt(h, now) \in Int
    BY <1>4, RetryAtIsInteger, TimeAssumption DEF Inv, TypeOK
  <2>2. file.count \in Nat
    BY <1>4 DEF Inv, TypeOK, PolicyState
  <2> QED
    <3>1. file' = WithCooldown(file, RetryAt(h, now)) /\ file \in PolicyState
      BY <1>4 DEF RecordCooldown, Inv, TypeOK
    <3>2. /\ file'.windowStart = file.windowStart
          /\ file'.count = file.count
          /\ file'.cooldownUntil >= file.cooldownUntil
      BY <2>1, <3>1, CooldownFacts
    <3> QED
      BY <2>2, <3>2
<1>5. ASSUME Inv, [Next]_vars PROVE Grows \/ UNCHANGED file
  <2>1. ASSUME NEW p \in Procs, Progress(p) PROVE Grows \/ UNCHANGED file
    <3>1. CASE AdmitAtOnce(p) \/ AdmitAfterPacing(p)
      BY <1>2, <1>3, <1>5, <3>1
    <3>2. CASE \E h \in Headers : RecordCooldown(p, h)
      BY <1>4, <1>5, <3>2
    <3>3. CASE TakeLock(p) \/ LockTimeout(p) \/ Refuse(p) \/ BeginPacing(p)
               \/ Send(p) \/ Answered(p) \/ Release(p)
      BY <3>3 DEF TakeLock, LockTimeout, Refuse, BeginPacing, Send, Answered, Release
    <3> QED
      BY <2>1, <3>1, <3>2, <3>3 DEF Progress
  <2>2. CASE ProcessStep
    BY <2>1, <2>2 DEF ProcessStep, StartCommand, CancelLocking, CancelPacing, Crash
  <2>3. CASE Tick \/ StepClock \/ UNCHANGED vars
    BY <2>3 DEF Tick, StepClock, vars
  <2> QED
    BY <1>5, <2>2, <2>3 DEF Next
<1>6. Inv /\ [Next]_vars => [Grows]_file
  BY <1>5
<1> QED
  BY <1>6, InvHolds, PTL DEF Spec, RecordOnlyGrows

-----------------------------------------------------------------------------
(* PolicyHistory: what the observers see. *)

HistoryTypeOK ==
  /\ gap \in 0 .. Pace
  /\ owed \in Nat
  /\ onDay \in [Windows -> Nat]

\* A process waits for its pace with a copy of the record's window.
WaitsInWindow(p) == pc[p] = "pacing" /\ state[p].windowStart = file.windowStart

\* The wall clock shows no more time since the last request than has elapsed,
\* and a waiting process waits long enough.
PaceInv ==
  /\ gap < Pace => now <= file.lastRequest + gap
  /\ \A p \in Procs : WaitsInWindow(p) => gap + timer[p] >= Pace

\* A Retry-After still owed is in the record, and nobody waits beside it.
OwedInv ==
  /\ owed > 0 => now + owed <= file.cooldownUntil
  /\ \A p \in Procs : WaitsInWindow(p) => owed = 0

\* Today's requests are in the count of a window that began today or later,
\* but for one: a request that waited past midnight with an older window.
DayInv ==
  LET today == DayStart(now)
  IN  /\ \A d \in Windows : d > today => onDay[d] = 0
      /\ onDay[today] <= IF file.windowStart >= today THEN file.count + 1 ELSE 1
      /\ \A p \in Procs : pc[p] = "pacing" =>
           \/ onDay[today] = 0
           \/ state[p].windowStart = today
           \/ state[p].windowStart > today /\ WaitsInWindow(p)

HistoryInv ==
  Inv /\ HistoryTypeOK /\ PaceInv /\ OwedInv /\ DayInv /\ DayBudgetPlusOne

-----------------------------------------------------------------------------
(* Today's window. *)

\* A window that has not ended has not begun before today.
LEMMA WindowsAlign ==
  ASSUME NEW w \in Windows, NEW t \in Epoch .. MaxTime, t < w + Day
  PROVE  w >= DayStart(t)
<1>1. PICK u \in Epoch .. MaxTime : w = DayStart(u)
  BY DEF Windows
<1>2. t \in Nat /\ u \in Nat /\ Day \in Nat \ {0}
  BY TimeAssumption
<1> DEFINE a == t \div Day
           b == u \div Day
<1>3. a \in Nat /\ b \in Nat /\ DayStart(t) = Day * a /\ DayStart(u) = Day * b
  BY <1>2 DEF DayStart
<1>4. DayStart(t) <= t
  BY DayStartBounds
<1> HIDE DEF a, b
<1>5. ASSUME b < a PROVE FALSE
  <2>1. a >= b + 1
    BY <1>3, <1>5
  <2>2. Day * a >= Day * (b + 1)
    BY <1>2, <1>3, <2>1
  <2>3. Day * (b + 1) = Day * b + Day
    BY <1>2, <1>3
  <2> QED
    BY <1>1, <1>2, <1>3, <1>4, <2>2, <2>3
<1>6. b >= a
  BY <1>3, <1>5
<1> QED
  BY <1>1, <1>2, <1>3, <1>6

\* The record a request works on begins today, or is the one on disk.
LEMMA RolledToday ==
  ASSUME Inv
  PROVE  LET s == Rolled(file, now)
         IN  /\ s.windowStart >= DayStart(now)
             /\ s.windowStart # file.windowStart =>
                  s.windowStart = DayStart(now) /\ file.windowStart < DayStart(now)
<1> DEFINE d == DayStart(now)
<1>1. /\ now \in Epoch .. MaxTime /\ now \in Nat /\ Day \in Nat \ {0}
      /\ file \in PolicyState /\ file.windowStart \in Nat
      /\ file.windowStart \in Windows \cup {Zero}
  BY TimeAssumption DEF Inv, TypeOK, FileInv, PolicyState, Times
<1>2. d \in Nat \ {0} /\ d <= now /\ now < d + Day
  BY <1>1, DayStartBounds
<1>3. CASE file.windowStart = Zero
  <2>1. Rolled(file, now) = [file EXCEPT !.windowStart = d]
    BY <1>3 DEF Rolled
  <2> HIDE DEF d
  <2>2. Rolled(file, now).windowStart = d
    BY <1>1, <2>1 DEF PolicyState
  <2> QED
    BY <1>2, <1>3, <2>2 DEF Zero, d
<1>4. CASE file.windowStart # Zero /\ now >= file.windowStart + Day
  <2>1. Rolled(file, now) = [ZeroState EXCEPT !.windowStart = d]
    BY <1>4 DEF Rolled
  <2> HIDE DEF d
  <2>2. Rolled(file, now).windowStart = d
    BY <2>1 DEF ZeroState
  <2> QED
    BY <1>1, <1>2, <1>4, <2>2 DEF d
<1>5. CASE file.windowStart # Zero /\ ~(now >= file.windowStart + Day)
  <2>1. Rolled(file, now) = file
    BY <1>5 DEF Rolled
  <2>2. file.windowStart >= d
    BY <1>1, <1>5, WindowsAlign
  <2> QED
    BY <2>1, <2>2
<1> QED
  BY <1>3, <1>4, <1>5

-----------------------------------------------------------------------------
(* What each step does to the record, the waits and the observers. *)

\* A request is admitted with the record s, at once or after its wait.
Admission(p, s) ==
  /\ Save(p, s)
  /\ Current(s, file)
  /\ \/ /\ pc[p] = "leased"
        /\ s = Rolled(file, now)
        /\ Allowed(s)
        /\ PacedUntil(s, now) <= now
     \/ /\ pc[p] = "pacing"
        /\ s = state[p]
        /\ timer[p] = 0
  /\ now' = now

\* No process begins to wait.
NoNewWait ==
  \A q \in Procs : pc'[q] = "pacing" =>
    pc[q] = "pacing" /\ state'[q] = state[q] /\ timer'[q] = timer[q]

LEMMA SaveAdmits ==
  ASSUME Inv, NEW p \in Procs, pc[p] \in {"leased", "pacing"}, NEW s, Save(p, s)
  PROVE  Admits
BY DEF Inv, TypeOK, Save, Admits

\* A process admits, begins to wait, or does neither; only an admission and a
\* recorded Retry-After write the record.
LEMMA ProcessCases ==
  ASSUME Inv, ProcessStep
  PROVE  \/ Admits /\ \E p \in Procs, s \in PolicyState : Admission(p, s)
         \/ ~Admits /\ \E p \in Procs : BeginPacing(p)
         \/ /\ ~Admits /\ NoNewWait /\ now' = now
            /\ \/ UNCHANGED file
               \/ \E p \in Procs, h \in Headers : RecordCooldown(p, h)
<1>1. pc \in [Procs -> Leased \cup {"idle", "locking"}]
  BY DEF Inv, TypeOK
<1> PICK p \in Procs :
      StartCommand(p) \/ Progress(p) \/ CancelLocking(p) \/ CancelPacing(p) \/ Crash(p)
  BY DEF ProcessStep
<1>2. CASE AdmitAtOnce(p)
  <2> PICK s \in PolicyState : s = Rolled(file, now) /\ Current(s, file)
    BY <1>2, FreshCopy DEF AdmitAtOnce
  <2>1. pc[p] = "leased" /\ Allowed(s) /\ PacedUntil(s, now) <= now /\ now' = now
    BY <1>2 DEF AdmitAtOnce, Loaded
  <2>2. CASE Save(p, s)
    BY <2>1, <2>2, SaveAdmits DEF Admission
  <2>3. CASE SaveFails(p)
    BY <1>1, <2>1, <1>2, <2>3 DEF SaveFails, Forget, Admits, NoNewWait, AdmitAtOnce, Inv, TypeOK
  <2> QED
    BY <1>2, <2>2, <2>3 DEF AdmitAtOnce
<1>3. CASE AdmitAfterPacing(p)
  <2> PICK s \in PolicyState : s = state[p] /\ Current(s, file)
    BY <1>3 DEF AdmitAfterPacing, Inv, TypeOK, PacingInv
  <2>1. pc[p] = "pacing" /\ timer[p] = 0 /\ now' = now
    BY <1>3 DEF AdmitAfterPacing
  <2>2. CASE Save(p, s)
    BY <2>1, <2>2, SaveAdmits DEF Admission
  <2>3. CASE SaveFails(p)
    BY <1>1, <2>1, <1>3, <2>3 DEF SaveFails, Forget, Admits, NoNewWait, AdmitAfterPacing, Inv, TypeOK
  <2> QED
    BY <1>3, <2>2, <2>3 DEF AdmitAfterPacing
<1>4. CASE BeginPacing(p)
  BY <1>1, <1>4 DEF BeginPacing, Admits
<1>5. ASSUME NEW h \in Headers, RecordCooldown(p, h)
      PROVE  ~Admits /\ NoNewWait /\ now' = now
  BY <1>1, <1>5 DEF RecordCooldown, Goto, Admits, NoNewWait
<1>6. CASE \/ StartCommand(p) \/ TakeLock(p) \/ LockTimeout(p) \/ Refuse(p) \/ Send(p)
           \/ Answered(p) \/ Release(p) \/ CancelLocking(p) \/ CancelPacing(p) \/ Crash(p)
  <2>1. now' = now /\ file' = file
    BY <1>6 DEF StartCommand, TakeLock, LockTimeout, Refuse, Send, Answered, Release,
                CancelLocking, CancelPacing, Crash
  <2>2. ~Admits
    BY <1>1, <1>6 DEF StartCommand, TakeLock, LockTimeout, Refuse, Send, Answered, Release,
                      CancelLocking, CancelPacing, Crash, Goto, Admits
  <2>3. NoNewWait
    BY <1>1, <1>6 DEF StartCommand, TakeLock, LockTimeout, Refuse, Send, Answered, Release,
                      CancelLocking, CancelPacing, Crash, Goto, Forget, NoNewWait, Inv, TypeOK
  <2> QED
    BY <2>1, <2>2, <2>3
<1> QED
  BY <1>2, <1>3, <1>4, <1>5, <1>6 DEF Progress

\* The observers beside a process step that admits nothing.
ObservesCooldown(h) ==
  /\ owed' = Max2(owed, RetryAt(h, now) - now)
  /\ file' = WithCooldown(file, RetryAt(h, now))
  /\ UNCHANGED <<gap, onDay>>

\* The steps of the history, by what they do to the observers.
LEMMA HistoryCases ==
  ASSUME Inv, [HistoryNext]_<<vars, observers>>
  PROVE  \/ /\ Admits
            /\ \E p \in Procs, s \in PolicyState : Admission(p, s)
            /\ gap' = 0
            /\ owed' = IF NewWindow THEN 0 ELSE owed
            /\ onDay' = [onDay EXCEPT ![DayStart(now)] = @ + 1]
         \/ /\ ~Admits
            /\ \/ (\E p \in Procs : BeginPacing(p)) /\ UNCHANGED <<file, observers>>
               \/ NoNewWait /\ now' = now /\ UNCHANGED <<file, observers>>
               \/ /\ \A q \in Procs : pc'[q] # "pacing"
                  /\ now' = now
                  /\ \E h \in Headers : ObservesCooldown(h)
               \/ Tick /\ Elapse(1) /\ UNCHANGED onDay
               \/ /\ StepClock
                  /\ Elapse(Max2(now' - now, 0))
                  /\ onDay' = IF now' < now THEN NoRequests ELSE onDay
<1>1. pc \in [Procs -> Leased \cup {"idle", "locking"}]
  BY DEF Inv, TypeOK
<1>2. CASE ProcessStep /\ ObserveProcess
  <2>1. CASE Admits /\ gap' = 0
    <3>1. ASSUME NEW h \in Headers, Recorded(h)
          PROVE  ~Admits
      BY <1>1, <3>1 DEF Recorded, RecordCooldown, Goto, Admits
    <3> QED
      BY <1>2, <2>1, <3>1, ProcessCases DEF ObserveProcess
  <2>2. ASSUME NEW h \in Headers, Recorded(h),
               owed' = Max2(owed, RetryAt(h, now) - now), UNCHANGED <<gap, onDay>>
        PROVE  /\ ~Admits /\ now' = now /\ ObservesCooldown(h)
               /\ \A q \in Procs : pc'[q] # "pacing"
    <3> PICK p \in Procs : RecordCooldown(p, h)
      BY <2>2 DEF Recorded
    <3>1. ~Admits /\ \A q \in Procs : pc'[q] # "pacing"
      BY <1>1 DEF RecordCooldown, Goto, Admits, Inv, LeaseInv, Leased
    <3> QED
      BY <2>2, <3>1 DEF RecordCooldown, ObservesCooldown
  <2>3. CASE ~Admits /\ UNCHANGED <<file, observers>>
    BY <1>2, <2>3, ProcessCases
  <2> QED
    BY <1>2, <2>1, <2>2, <2>3, ProcessCases DEF ObserveProcess
<1>3. CASE Tick /\ Elapse(1) /\ UNCHANGED onDay
  BY <1>3 DEF Tick, Admits
<1>4. CASE /\ StepClock
           /\ Elapse(Max2(now' - now, 0))
           /\ onDay' = IF now' < now THEN NoRequests ELSE onDay
  BY <1>4 DEF StepClock, Admits
<1>5. CASE UNCHANGED <<vars, observers>>
  BY <1>5 DEF vars, observers, Admits, NoNewWait
<1> QED
  BY <1>2, <1>3, <1>4, <1>5 DEF HistoryNext

\* What an admission writes.
LEMMA AdmissionFacts ==
  ASSUME Inv, NEW p \in Procs, NEW s \in PolicyState, Admission(p, s)
  PROVE  /\ file'.windowStart = s.windowStart
         /\ file'.count = s.count + 1
         /\ file'.cooldownUntil = s.cooldownUntil
         /\ file'.lastRequest >= now
         /\ \A q \in Procs : pc'[q] # "pacing"
<1>1. now \in Nat /\ s.windowStart \in Nat /\ s.windowStart \in Windows
  BY TimeAssumption DEF Inv, TypeOK, Admission, Current, PolicyState, Times
<1>2. file' = Counted(s, now) /\ pc' = [pc EXCEPT ![p] = "sending"]
  BY DEF Admission, Save
<1>3. file'.lastRequest >= now
  <2>1. file'.lastRequest = Max2(now, s.windowStart)
    BY <1>2 DEF Counted, PolicyState
  <2> QED
    BY <1>1, <2>1 DEF Max2
<1>4. \A q \in Procs : pc'[q] # "pacing"
  BY <1>2 DEF Inv, TypeOK, LeaseInv, Leased, Admission
<1> QED
  BY <1>1, <1>2, <1>3, <1>4, CountedFacts

\* A request of the window on disk is admitted at least Pace after the last,
\* and owes no Retry-After.
LEMMA AdmissionDue ==
  ASSUME Inv, HistoryTypeOK, PaceInv, OwedInv,
         NEW p \in Procs, NEW s \in PolicyState, Admission(p, s),
         s.windowStart = file.windowStart
  PROVE  gap >= Pace /\ owed = 0
<1>1. /\ now \in Nat /\ Pace \in Nat /\ gap \in 0 .. Pace /\ owed \in Nat
      /\ file \in PolicyState /\ timer[p] \in Nat
      /\ file.lastRequest \in Nat /\ file.cooldownUntil \in Nat
  BY TimeAssumption, ConfigAssumption
  DEF Inv, TypeOK, HistoryTypeOK, PolicyState, Times
<1>2. CASE pc[p] = "leased" /\ s = Rolled(file, now) /\ Allowed(s) /\ PacedUntil(s, now) <= now
  <2>1. s = file
    <3>1. now \in Epoch .. MaxTime /\ file.windowStart \in Windows \cup {Zero} /\ Coherent(file)
      BY DEF Inv, TypeOK, FileInv
    <3> QED
      BY <1>1, <1>2, <3>1, RolledFacts
  <2>2. PacedUntil(file, now) <= now /\ ~(file.cooldownUntil > now)
    BY <1>2, <2>1 DEF Allowed, CoolingDown
  <2>3. gap >= Pace
    BY <1>1, <2>2 DEF PacedUntil, PaceInv
  <2>4. owed = 0
    BY <1>1, <2>2 DEF OwedInv
  <2> QED
    BY <2>3, <2>4
<1>3. CASE pc[p] = "pacing" /\ s = state[p] /\ timer[p] = 0
  BY <1>1, <1>3 DEF PaceInv, OwedInv, WaitsInWindow
<1> QED
  BY <1>2, <1>3 DEF Admission

\* A process that begins to wait does so with a current copy of the record,
\* alone, and until it may be admitted.
LEMMA WaitFacts ==
  ASSUME Inv, NEW p \in Procs, BeginPacing(p)
  PROVE  LET s == Rolled(file, now)
         IN  /\ Allowed(s) /\ now' = now /\ file' = file /\ PacedUntil(s, now) > now
             /\ state'[p] = s /\ timer'[p] = PacedUntil(s, now) - now
             /\ s.windowStart = file.windowStart => s = file
             /\ \A q \in Procs : pc'[q] = "pacing" => q = p
<1> DEFINE s == Rolled(file, now)
<1>1. /\ now \in Epoch .. MaxTime /\ file \in PolicyState
      /\ file.windowStart \in Windows \cup {Zero} /\ Coherent(file)
  BY DEF Inv, TypeOK, FileInv
<1>2. s.windowStart = file.windowStart => s = file
  BY <1>1, RolledFacts
<1>3. /\ Allowed(s) /\ now' = now /\ file' = file /\ pc[p] = "leased"
      /\ PacedUntil(s, now) > now
      /\ pc' = [pc EXCEPT ![p] = "pacing"]
      /\ state' = [state EXCEPT ![p] = s]
      /\ timer' = [timer EXCEPT ![p] = PacedUntil(s, now) - now]
  BY DEF BeginPacing, Loaded
<1> HIDE DEF s
<1>4. \A q \in Procs : pc'[q] = "pacing" => q = p
  BY <1>3 DEF Inv, TypeOK, LeaseInv, Leased
<1>5. state'[p] = s /\ timer'[p] = PacedUntil(s, now) - now
  BY <1>3 DEF Inv, TypeOK
<1> QED
  BY <1>2, <1>3, <1>4, <1>5 DEF s

\* What a recorded Retry-After does to the record and to what is owed.
LEMMA CooldownObserved ==
  ASSUME Inv, HistoryTypeOK, NEW h \in Headers, ObservesCooldown(h)
  PROVE  /\ file'.windowStart = file.windowStart
         /\ file'.count = file.count
         /\ file'.lastRequest = file.lastRequest
         /\ file'.cooldownUntil \in Nat
         /\ file'.cooldownUntil >= file.cooldownUntil
         /\ owed' \in Nat
         /\ owed' > owed => now + owed' <= file'.cooldownUntil
         /\ owed' >= owed
<1> DEFINE u == RetryAt(h, now)
<1>1. /\ now \in Nat /\ u \in Int /\ file \in PolicyState /\ owed \in Nat
      /\ file.cooldownUntil \in Nat
  BY RetryAtIsInteger, TimeAssumption DEF Inv, TypeOK, HistoryTypeOK, PolicyState, Times
<1>2. file' = WithCooldown(file, u) /\ owed' = Max2(owed, u - now)
  BY DEF ObservesCooldown
<1> HIDE DEF u
<1>3. /\ file'.windowStart = file.windowStart
      /\ file'.count = file.count
      /\ file'.lastRequest = file.lastRequest
      /\ file'.cooldownUntil >= file.cooldownUntil
  BY <1>1, <1>2, CooldownFacts
<1>4. file'.cooldownUntil = Max2(file.cooldownUntil, u)
  BY <1>1, <1>2 DEF WithCooldown, PolicyState
<1> QED
  BY <1>1, <1>2, <1>3, <1>4 DEF Max2

LEMMA ClockTypes ==
  ASSUME Inv, HistoryTypeOK
  PROVE  /\ now \in Nat /\ Pace \in Nat /\ gap \in 0 .. Pace /\ owed \in Nat
         /\ file.windowStart \in Nat /\ file.lastRequest \in Nat
         /\ file.cooldownUntil \in Nat /\ file.count \in Nat
         /\ DayStart(now) \in Windows
         /\ \A q \in Procs : timer[q] \in Nat
         /\ \A d \in Windows : d \in Nat /\ onDay[d] \in Nat
<1>1. DayStart(now) \in Windows
  BY DayStartBounds DEF Inv, TypeOK
<1> QED
  BY <1>1, WindowsAreTimes, TimeAssumption, ConfigAssumption
  DEF Inv, TypeOK, HistoryTypeOK, PolicyState, Times

LEMMA ElapseFacts ==
  ASSUME Inv, HistoryTypeOK, NEW d \in Nat, Elapse(d)
  PROVE  /\ gap' \in 0 .. Pace
         /\ gap' < Pace => gap' = gap + d
         /\ gap' = Pace \/ gap' = gap + d
         /\ owed' \in Nat
         /\ owed' > 0 => owed' = owed - d
<1>1. Pace \in Nat /\ gap \in 0 .. Pace /\ owed \in Nat
  BY ClockTypes
<1>2. gap' = IF gap + d < Pace THEN gap + d ELSE Pace
  BY DEF Elapse
<1>3. owed' = IF owed - d >= 0 THEN owed - d ELSE 0
  BY DEF Elapse, Max2
<1> QED
  BY <1>1, <1>2, <1>3

\* A stepped clock's time elapses if it was stepped forward.
LEMMA SteppedTime ==
  ASSUME Inv, StepClock
  PROVE  /\ now' \in Nat /\ now' \in Epoch .. MaxTime
         /\ Max2(now' - now, 0) \in Nat
         /\ Max2(now' - now, 0) >= now' - now
<1>1. now \in Nat /\ now' \in Epoch .. MaxTime /\ now' \in Nat
  BY TimeAssumption DEF Inv, TypeOK, StepClock
<1> DEFINE d == now' - now
<1>2. d \in Int
  BY <1>1
<1> HIDE DEF d
<1>3. Max2(d, 0) \in Nat /\ Max2(d, 0) >= d
  BY <1>2 DEF Max2
<1> QED
  BY <1>1, <1>3 DEF d

-----------------------------------------------------------------------------
(* Every step keeps the invariant, one conjunct at a time. *)

LEMMA HistoryTypeStep ==
  ASSUME Inv, HistoryTypeOK, [HistoryNext]_<<vars, observers>>
  PROVE  HistoryTypeOK'
<1> /\ now \in Nat /\ Pace \in Nat /\ gap \in 0 .. Pace /\ owed \in Nat
    /\ file.windowStart \in Nat /\ file.lastRequest \in Nat
    /\ file.cooldownUntil \in Nat /\ file.count \in Nat
    /\ DayStart(now) \in Windows
    /\ \A q \in Procs : timer[q] \in Nat
    /\ \A d \in Windows : d \in Nat /\ onDay[d] \in Nat
  BY ClockTypes
<1>1. CASE /\ gap' = 0
           /\ owed' = IF NewWindow THEN 0 ELSE owed
           /\ onDay' = [onDay EXCEPT ![DayStart(now)] = @ + 1]
  BY <1>1 DEF HistoryTypeOK
<1>2. CASE UNCHANGED observers
  BY <1>2 DEF HistoryTypeOK, observers
<1>3. ASSUME NEW h \in Headers, ObservesCooldown(h)
      PROVE  HistoryTypeOK'
  BY <1>3, CooldownObserved DEF HistoryTypeOK, ObservesCooldown
<1>4. CASE Tick /\ Elapse(1) /\ UNCHANGED onDay
  BY <1>4, ElapseFacts DEF HistoryTypeOK
<1>5. CASE /\ StepClock
           /\ Elapse(Max2(now' - now, 0))
           /\ onDay' = IF now' < now THEN NoRequests ELSE onDay
  BY <1>5, SteppedTime, ElapseFacts DEF HistoryTypeOK, NoRequests
<1> QED
  BY <1>1, <1>2, <1>3, <1>4, <1>5, HistoryCases DEF observers

LEMMA StepBound ==
  ASSUME NEW a \in Nat, NEW b \in Nat, NEW d \in Nat, d >= b - a
  PROVE  b <= a + d
OBVIOUS

LEMMA PaceStep ==
  ASSUME Inv, HistoryTypeOK, PaceInv, [HistoryNext]_<<vars, observers>>
  PROVE  PaceInv'
<1> /\ now \in Nat /\ Pace \in Nat /\ gap \in 0 .. Pace /\ owed \in Nat
    /\ file.windowStart \in Nat /\ file.lastRequest \in Nat
    /\ file.cooldownUntil \in Nat /\ file.count \in Nat
    /\ DayStart(now) \in Windows
    /\ \A q \in Procs : timer[q] \in Nat
    /\ \A d \in Windows : d \in Nat /\ onDay[d] \in Nat
  BY ClockTypes
<1>1. ASSUME NEW p \in Procs, NEW s \in PolicyState, Admission(p, s), gap' = 0
      PROVE  PaceInv'
  <2>1. now' = now /\ file'.lastRequest >= now /\ \A q \in Procs : pc'[q] # "pacing"
    BY <1>1, AdmissionFacts DEF Admission
  <2>2. file'.lastRequest \in Nat
    <3>1. file' = Counted(s, now) /\ s.windowStart \in Nat
      BY <1>1 DEF Admission, Save, PolicyState, Times
    <3> QED
      BY <3>1 DEF Counted, PolicyState, Max2
  <2> QED
    BY <1>1, <2>1, <2>2 DEF PaceInv, WaitsInWindow
<1>2. ASSUME NEW p \in Procs, BeginPacing(p), UNCHANGED <<file, observers>>
      PROVE  PaceInv'
  <2> DEFINE s == Rolled(file, now)
  <2>1. /\ now' = now /\ file' = file /\ gap' = gap /\ PacedUntil(s, now) > now
        /\ state'[p] = s /\ timer'[p] = PacedUntil(s, now) - now
        /\ s.windowStart = file.windowStart => s = file
        /\ \A q \in Procs : pc'[q] = "pacing" => q = p
    BY <1>2, WaitFacts DEF observers
  <2> HIDE DEF s
  <2>2. PacedUntil(file, now) > now => gap + (PacedUntil(file, now) - now) >= Pace
    <3>1. gap < Pace => now <= file.lastRequest + gap
      BY DEF PaceInv
    <3>2. CASE file.lastRequest > now
      BY <3>2 DEF PacedUntil
    <3>3. CASE ~(file.lastRequest > now)
      BY <3>1, <3>3 DEF PacedUntil
    <3> QED
      BY <3>2, <3>3
  <2> QED
    BY <2>1, <2>2 DEF PaceInv, WaitsInWindow
<1>3. ASSUME NoNewWait, now' = now, gap' = gap,
             file'.windowStart = file.windowStart, file'.lastRequest = file.lastRequest
      PROVE  PaceInv'
  BY <1>3 DEF PaceInv, NoNewWait, WaitsInWindow
<1>4. CASE Tick /\ Elapse(1)
  <2>1. file' = file /\ now' \in {now, now + 1}
    BY <1>4 DEF Tick
  <2>3. gap' \in 0 .. Pace /\ (gap' = Pace \/ gap' = gap + 1)
    BY <1>4, ElapseFacts
  <2>2. \A q \in Procs : /\ WaitsInWindow(q)' <=> WaitsInWindow(q)
                         /\ timer'[q] = IF timer[q] > 0 THEN timer[q] - 1 ELSE 0
    BY <1>4 DEF Tick, WaitsInWindow
  <2> QED
    BY <2>1, <2>2, <2>3 DEF PaceInv
<1>5. CASE StepClock /\ Elapse(Max2(now' - now, 0))
  <2> DEFINE d == Max2(now' - now, 0)
  <2>1. file' = file /\ now' \in Nat /\ d \in Nat /\ d >= now' - now
    BY <1>5, SteppedTime DEF StepClock
  <2>3. gap' \in 0 .. Pace /\ (gap' = Pace \/ gap' = gap + d)
    BY <1>5, <2>1, ElapseFacts
  <2>2. \A q \in Procs : (WaitsInWindow(q)' <=> WaitsInWindow(q)) /\ timer'[q] = timer[q]
    BY <1>5 DEF StepClock, WaitsInWindow
  <2> HIDE DEF d
  <2>4. gap' < Pace => now' <= file'.lastRequest + gap'
    <3> SUFFICES ASSUME gap' < Pace
                 PROVE  now' <= file'.lastRequest + gap'
      OBVIOUS
    <3>1. gap' = gap + d /\ gap < Pace
      BY <2>1, <2>3
    <3>2. now <= file.lastRequest + gap
      BY <3>1 DEF PaceInv
    <3>3. now' <= now + d
      BY <2>1, StepBound
    <3>4. now + d <= file.lastRequest + (gap + d)
      BY <2>1, <3>2
    <3>5. now' \in Nat /\ now + d \in Nat /\ file.lastRequest + (gap + d) \in Nat
      BY <2>1
    <3>6. now' <= file.lastRequest + (gap + d)
      BY <3>3, <3>4, <3>5
    <3>7. file'.lastRequest + gap' = file.lastRequest + (gap + d)
      BY <2>1, <3>1
    <3> QED
      BY <3>6, <3>7
  <2>5. ASSUME NEW q \in Procs, WaitsInWindow(q)'
        PROVE  gap' + timer'[q] >= Pace
    <3>1. timer'[q] = timer[q] /\ gap + timer[q] >= Pace
      BY <2>2, <2>5 DEF PaceInv
    <3>2. gap' = Pace \/ gap' >= gap
      BY <2>1, <2>3
    <3> QED
      BY <2>3, <3>1, <3>2
  <2> QED
    BY <2>4, <2>5 DEF PaceInv
<1>6. ASSUME NEW h \in Headers, \A q \in Procs : pc'[q] # "pacing", now' = now,
             ObservesCooldown(h)
      PROVE  PaceInv'
  BY <1>3, <1>6, CooldownObserved DEF ObservesCooldown, NoNewWait
<1> QED
  BY <1>1, <1>2, <1>3, <1>4, <1>5, <1>6, HistoryCases DEF observers

LEMMA OwedStep ==
  ASSUME Inv, HistoryTypeOK, PaceInv, OwedInv, [HistoryNext]_<<vars, observers>>
  PROVE  OwedInv'
<1> /\ now \in Nat /\ owed \in Nat /\ file.cooldownUntil \in Nat
  BY ClockTypes
<1>1. ASSUME NEW p \in Procs, NEW s \in PolicyState, Admission(p, s),
             owed' = IF NewWindow THEN 0 ELSE owed
      PROVE  OwedInv'
  <2>1. file'.windowStart = s.windowStart /\ \A q \in Procs : pc'[q] # "pacing"
    BY <1>1, AdmissionFacts
  <2>2. owed' = 0
    BY <1>1, <2>1, AdmissionDue DEF NewWindow
  <2> QED
    BY <2>1, <2>2 DEF OwedInv, WaitsInWindow
<1>2. ASSUME NEW p \in Procs, BeginPacing(p), UNCHANGED <<file, observers>>
      PROVE  OwedInv'
  <2> DEFINE s == Rolled(file, now)
  <2>1. /\ Allowed(s) /\ now' = now /\ file' = file /\ owed' = owed
        /\ state'[p] = s
        /\ s.windowStart = file.windowStart => s = file
        /\ \A q \in Procs : pc'[q] = "pacing" => q = p
    BY <1>2, WaitFacts DEF observers
  <2> HIDE DEF s
  <2>2. s = file => owed = 0
    BY <2>1 DEF Allowed, CoolingDown, OwedInv
  <2> QED
    BY <2>1, <2>2 DEF OwedInv, WaitsInWindow
<1>3. CASE NoNewWait /\ now' = now /\ UNCHANGED <<file, observers>>
  BY <1>3 DEF OwedInv, NoNewWait, WaitsInWindow, observers
<1>4. ASSUME NEW h \in Headers, \A q \in Procs : pc'[q] # "pacing", now' = now,
             ObservesCooldown(h)
      PROVE  OwedInv'
  BY <1>4, CooldownObserved DEF OwedInv, WaitsInWindow
<1>5. ASSUME NEW d \in Nat, Elapse(d), now' \in Nat, now' - now <= d,
             UNCHANGED <<file, pc, state>>
      PROVE  OwedInv'
  <2>1. owed' \in Nat /\ (owed' > 0 => owed' = owed - d)
    BY <1>5, ElapseFacts
  <2> QED
    BY <1>5, <2>1 DEF OwedInv, WaitsInWindow
<1>6. CASE Tick /\ Elapse(1)
  <2>1. now' \in Nat /\ now' - now <= 1 /\ UNCHANGED <<file, pc, state>>
    BY <1>6 DEF Tick
  <2> QED
    BY <1>5, <1>6, <2>1
<1>7. CASE StepClock /\ Elapse(Max2(now' - now, 0))
  <2>1. UNCHANGED <<file, pc, state>>
    BY <1>7 DEF StepClock
  <2>2. /\ Max2(now' - now, 0) \in Nat /\ now' \in Nat
        /\ now' - now <= Max2(now' - now, 0)
    BY <1>7, SteppedTime
  <2> QED
    BY <1>5, <1>7, <2>1, <2>2
<1> QED
  BY <1>1, <1>2, <1>3, <1>4, <1>6, <1>7, HistoryCases

\* A later time is not on an earlier day.
LEMMA DaysPass ==
  ASSUME NEW t \in Epoch .. MaxTime, NEW u \in Epoch .. MaxTime, t <= u
  PROVE  DayStart(t) <= DayStart(u)
<1>1. DayStart(u) \in Windows /\ u < DayStart(u) + Day /\ DayStart(u) \in Nat
  BY DayStartBounds
<1>2. t \in Nat /\ u \in Nat /\ Day \in Nat
  BY TimeAssumption
<1>3. t < DayStart(u) + Day
  BY <1>1, <1>2
<1>4. DayStart(u) >= DayStart(t) /\ DayStart(t) \in Nat
  BY <1>1, <1>3, WindowsAlign, DayStartBounds
<1> QED
  BY <1>1, <1>4

LEMMA DayStep ==
  ASSUME Inv, HistoryTypeOK, DayInv, DayBudgetPlusOne, [HistoryNext]_<<vars, observers>>
  PROVE  DayInv' /\ DayBudgetPlusOne'
<1> DEFINE today == DayStart(now)
<1>0. /\ now \in Nat /\ now \in Epoch .. MaxTime
      /\ file.windowStart \in Nat /\ file.count \in Nat
      /\ today \in Windows /\ today \in Nat
      /\ onDay \in [Windows -> Nat]
      /\ \A d \in Windows : d \in Nat /\ onDay[d] \in Nat
      /\ Budget \in Nat
  BY ClockTypes, ConfigAssumption DEF Inv, TypeOK, HistoryTypeOK
<1>1. ASSUME NEW p \in Procs, NEW s \in PolicyState, Admission(p, s),
             onDay' = [onDay EXCEPT ![DayStart(now)] = @ + 1]
      PROVE  DayInv' /\ DayBudgetPlusOne'
  <2>1. /\ now' = now
        /\ file'.windowStart = s.windowStart /\ file'.count = s.count + 1
        /\ \A q \in Procs : pc'[q] # "pacing"
        /\ s.windowStart \in Nat /\ s.count \in Nat
    BY <1>1, AdmissionFacts DEF Admission, PolicyState, Times
  <2>2. /\ s.windowStart >= file.windowStart
        /\ s.windowStart = file.windowStart => s.count = file.count
        /\ s.windowStart # file.windowStart => s.count = 0
        /\ Budget > 0 => s.count < Budget
    BY <1>1 DEF Admission, Current
  <2>3. \/ onDay[today] = 0
        \/ s.windowStart = today
        \/ s.windowStart > today /\ s.windowStart = file.windowStart
    <3>1. CASE s = Rolled(file, now)
      BY <1>0, <2>1, <3>1, RolledToday
    <3>2. CASE pc[p] = "pacing" /\ s = state[p]
      BY <3>2 DEF DayInv, WaitsInWindow
    <3> QED
      BY <1>1, <3>1, <3>2 DEF Admission
  <2>4. onDay[today] <= IF file.windowStart >= today THEN file.count + 1 ELSE 1
    BY DEF DayInv
  <2>5. /\ onDay'[today] = onDay[today] + 1
        /\ \A d \in Windows : d # today => onDay'[d] = onDay[d]
    BY <1>0, <1>1
  <2> HIDE DEF today
  <2>6. onDay'[today] <= IF s.windowStart >= today THEN s.count + 2 ELSE 1
    BY <1>0, <2>1, <2>2, <2>3, <2>4, <2>5
  <2>7. DayInv'
    <3>1. \A d \in Windows : d > today => onDay'[d] = 0
      BY <1>0, <2>5 DEF DayInv, today
    <3>2. onDay'[today] <= IF file'.windowStart >= today THEN file'.count + 1 ELSE 1
      BY <2>1, <2>6
    <3> QED
      BY <2>1, <3>1, <3>2 DEF DayInv, today
  <2>8. DayBudgetPlusOne'
    <3>1. Budget > 0 => onDay'[today] <= Budget + 1
      BY <1>0, <2>1, <2>2, <2>5, <2>6
    <3> QED
      BY <2>5, <3>1 DEF DayBudgetPlusOne
  <2> QED
    BY <2>7, <2>8
<1>2. ASSUME NEW p \in Procs, BeginPacing(p), UNCHANGED <<file, observers>>
      PROVE  DayInv' /\ DayBudgetPlusOne'
  <2> DEFINE s == Rolled(file, now)
  <2>1. /\ now' = now /\ file' = file /\ onDay' = onDay /\ state'[p] = s
        /\ \A q \in Procs : pc'[q] = "pacing" => q = p
    BY <1>2, WaitFacts DEF observers
  <2>2. /\ s.windowStart >= today
        /\ s.windowStart # file.windowStart => s.windowStart = today
    BY RolledToday
  <2> HIDE DEF s
  <2>3. s.windowStart = today \/ (s.windowStart > today /\ s.windowStart = file.windowStart)
    BY <1>0, <2>2
  <2> QED
    BY <2>1, <2>3 DEF DayInv, DayBudgetPlusOne, WaitsInWindow
<1>3. ASSUME NoNewWait, now' = now, onDay' = onDay,
             file'.windowStart = file.windowStart, file'.count = file.count
      PROVE  DayInv' /\ DayBudgetPlusOne'
  BY <1>3 DEF DayInv, DayBudgetPlusOne, NoNewWait, WaitsInWindow
<1>4. ASSUME NEW h \in Headers, \A q \in Procs : pc'[q] # "pacing", now' = now,
             ObservesCooldown(h)
      PROVE  DayInv' /\ DayBudgetPlusOne'
  BY <1>3, <1>4, CooldownObserved DEF ObservesCooldown, NoNewWait
<1>5. ASSUME now' \in Epoch .. MaxTime, now' >= now, onDay' = onDay,
             UNCHANGED <<file, pc, state>>
      PROVE  DayInv' /\ DayBudgetPlusOne'
  <2> DEFINE tomorrow == DayStart(now')
  <2>1. today <= tomorrow /\ tomorrow \in Windows /\ tomorrow \in Nat
    BY <1>0, <1>5, DaysPass, DayStartBounds
  <2>2. CASE tomorrow = today
    BY <1>5, <2>2 DEF DayInv, DayBudgetPlusOne, WaitsInWindow
  <2>3. CASE tomorrow > today
    <3>1. onDay[tomorrow] = 0 /\ \A d \in Windows : d > tomorrow => onDay[d] = 0
      BY <1>0, <2>1, <2>3 DEF DayInv
    <3> HIDE DEF today, tomorrow
    <3>2. DayInv'
      BY <1>0, <1>5, <3>1 DEF DayInv, tomorrow
    <3> QED
      BY <1>5, <3>2 DEF DayBudgetPlusOne
  <2> QED
    BY <1>0, <2>1, <2>2, <2>3
<1>6. CASE Tick /\ UNCHANGED onDay
  <2>1. now' \in Epoch .. MaxTime /\ now' >= now /\ UNCHANGED <<file, pc, state>>
    BY <1>0, <1>6, TimeAssumption DEF Tick
  <2> QED
    BY <1>5, <1>6, <2>1
<1>7. CASE StepClock /\ onDay' = IF now' < now THEN NoRequests ELSE onDay
  <2>1. UNCHANGED <<file, pc, state>> /\ now' \in Epoch .. MaxTime /\ now' \in Nat
    BY <1>7, SteppedTime DEF StepClock
  <2>2. CASE now' < now
    <3>1. \A d \in Windows : onDay'[d] = 0
      BY <1>7, <2>2 DEF NoRequests
    <3>2. DayStart(now') \in Windows
      BY <2>1, DayStartBounds
    <3>3. DayInv'
      BY <1>0, <2>1, <3>1, <3>2 DEF DayInv
    <3> QED
      BY <1>0, <3>1, <3>3 DEF DayBudgetPlusOne
  <2>3. CASE now' >= now
    BY <1>0, <1>5, <1>7, <2>1, <2>3
  <2> QED
    BY <1>0, <2>1, <2>2, <2>3
<1> QED
  BY <1>1, <1>2, <1>3, <1>4, <1>6, <1>7, HistoryCases DEF observers

-----------------------------------------------------------------------------
(* The theorems. *)

LEMMA HistoryInitial ==
  ASSUME HistoryInit
  PROVE  HistoryInv
<1>1. Inv /\ file = ZeroState /\ \A p \in Procs : pc[p] # "pacing"
  BY Initial DEF HistoryInit, Init
<1>2. DayStart(now) \in Windows /\ Pace \in Nat /\ Budget \in Nat
  BY <1>1, DayStartBounds, ConfigAssumption DEF Inv, TypeOK
<1>3. HistoryTypeOK
  BY <1>2 DEF HistoryInit, HistoryTypeOK, NoRequests
<1>4. PaceInv /\ OwedInv
  BY <1>1, <1>2 DEF HistoryInit, PaceInv, OwedInv, WaitsInWindow
<1>5. DayInv /\ DayBudgetPlusOne
  BY <1>1, <1>2 DEF HistoryInit, DayInv, DayBudgetPlusOne, NoRequests, ZeroState
<1> QED
  BY <1>1, <1>3, <1>4, <1>5 DEF HistoryInv

\* The observers only watch.
LEMMA HistoryIsPolicy ==
  ASSUME [HistoryNext]_<<vars, observers>>
  PROVE  [Next]_vars
BY DEF HistoryNext, Next

LEMMA HistoryInductive ==
  ASSUME HistoryInv, [HistoryNext]_<<vars, observers>>
  PROVE  HistoryInv'
<1>1. Inv'
  BY HistoryIsPolicy, Inductive DEF HistoryInv
<1> QED
  BY <1>1, HistoryTypeStep, PaceStep, OwedStep, DayStep DEF HistoryInv

LEMMA HistoryInvHolds == HistorySpec => []HistoryInv
<1>1. HistoryInit => HistoryInv
  BY HistoryInitial
<1>2. HistoryInv /\ [HistoryNext]_<<vars, observers>> => HistoryInv'
  BY HistoryInductive
<1> QED
  BY <1>1, <1>2, PTL DEF HistorySpec

\* On no day are more requests admitted than the budget and one, since the
\* wall clock was last set back: at most one waited past midnight with the
\* window of another day (coordination.go:182, 193-201).
THEOREM DayBudget == HistorySpec => []DayBudgetPlusOne
<1>1. HistoryInv => DayBudgetPlusOne
  BY DEF HistoryInv
<1> QED
  BY <1>1, HistoryInvHolds, PTL

\* What an admission finds: the pace and the Retry-After have run out, or it
\* begins a window.
LEMMA AdmissionsDue ==
  ASSUME HistoryInv, [HistoryNext]_<<vars, observers>>, Admits, ~NewWindow
  PROVE  gap >= Pace /\ owed = 0
<1>1. PICK p \in Procs, s \in PolicyState : Admission(p, s)
  BY HistoryCases DEF HistoryInv
<1>2. s.windowStart = file.windowStart
  BY <1>1, AdmissionFacts DEF NewWindow, HistoryInv
<1> QED
  BY <1>1, <1>2, AdmissionDue DEF HistoryInv

\* Two requests of one window are admitted at least Pace apart in elapsed time,
\* whichever processes make them and however the wall clock is stepped
\* (coordination.go:189-198).
THEOREM Paced == HistorySpec => PacedWithinWindow
<1>1. HistoryInv /\ [HistoryNext]_<<vars, observers>> =>
        [Admits => gap >= Pace \/ NewWindow]_<<vars, observers>>
  BY AdmissionsDue
<1> QED
  BY <1>1, HistoryInvHolds, PTL DEF HistorySpec, PacedWithinWindow

\* Within a window no request is admitted before a recorded Retry-After has run
\* out in elapsed time (coordination.go:183-185, 208-228).
THEOREM RetryAfterKept == HistorySpec => RetryAfterKeptWithinWindow
<1>1. HistoryInv /\ [HistoryNext]_<<vars, observers>> =>
        [Admits => owed = 0 \/ NewWindow]_<<vars, observers>>
  BY AdmissionsDue
<1> QED
  BY <1>1, HistoryInvHolds, PTL DEF HistorySpec, RetryAfterKeptWithinWindow
=============================================================================
