# A verification project for ednevnik-cli

`ednevnik` is a command-line client that reads a school diary portal for a
family. It logs in, fetches pages politely, compares them with what it saw
before, and keeps a durable history of changes that consumers read at their own
pace. This directory holds TLA+ models of it, TLC configurations that check
them, and TLAPS proofs.

Contents

1. The system
2. The modules
3. What the runs check
4. Bounds
5. Fairness
6. What is proved
7. Where code and documents disagree
8. What is not modelled
9. Plan
10. Running the checks


## 1. The system

Everything runs in short-lived processes, one per command. Nothing is shared in
memory; commands meet only in the files of a profile's state directory, guarded
by one exclusive file lock.

| Component | Source | State it keeps | Operations |
|---|---|---|---|
| Coordination | `internal/coordination` | `command.lock`, `request-policy.json` (window, count, last request, cooldown) | `Acquire`, `Release`, `BeforeRequest`, `RecordResponse`, `Status` |
| Client | `internal/client` | `session.json` (cookies) | `Get`, `LoginWithCommit`, `ResetSession`, `policyTransport.RoundTrip` |
| Cookie jar | `internal/client/cookiejar` | cookies in memory | `SetCookies`, `Cookies`, snapshot and restore |
| Account binding | `cmd/ednevnik/main.go` | `account.json` | `loginAndBind`, `validateCredentialAccount`, `session-reset` |
| Check store | `internal/checkstate` | `check-state.json` (baselines, events, consumers, last attempt, last success) | `Load`, `Commit`, `Register`, `ReadBatch`, `Acknowledge` |
| Check command | `cmd/ednevnik/contract.go` | the documents it loaded | `checkCommand`, `readTimeline`, `completeStableTimeline`, `failCheck` |
| Reconciliation | `internal/store/diff.go` | none of its own: unresolved keys and seen states go into the baseline | `ReconcileWithState` for grades, absences, activities, overview |
| Consumer commands | `cmd/ednevnik/main.go` | none | `consumer-register`, `consumer-read`, `consumer-ack` |
| Legacy sync | `cmd/ednevnik/main.go`, `internal/store/store.go` | `previous.json`, `latest.json`, `changes.json`, `checks.jsonl` | `sync` without `--profile`, `changes` |
| Parsers | `internal/parse` | none (pure) | HTML to model types |
| Credential providers | `internal/credentials` | none | environment, file, Keychain |
| Errors, status | `cmd/ednevnik/main.go` | none | classification, JSON output |

How they interact. A command acquires the lease, loads its files, and sends
HTTP requests. The client's transport calls `BeforeRequest` ahead of each
request and `RecordResponse` after it; both read and rewrite the policy file. A
session that has expired is renewed by a login, which binds the account before
it saves the new cookies. `check` reads each requested enrolment, reconciles
what it read with the baseline it loaded, and commits baselines, events and
verdict in one rename. Consumer commands move cursors in that same document.

What is hard here:

- **Interleaving.** Several processes of one account poll for the lock; the
  portal changes between any two page requests of one check.
- **Crashes.** A process may be killed between any two writes: after a request
  is counted and before it is sent; between the binding and the cookies; on
  either side of the rename that makes a check visible; between two of the
  files of a legacy sync.
- **State across processes.** The cookie jar lives in memory and in a file in
  turn: the next process restores what the last one saved, numbers its cookies
  anew and drops what ended meanwhile. What one function lets in another checks
  again on load.
- **Identity.** Records without a source identifier that look alike cannot be
  told apart, and what is missing from a page may have been removed, or not.
- **Uncertain writes.** A rename may succeed and the following directory sync
  fail: the document is there and the command is told of an error.
- **Clocks.** The wall clock is persisted, compared and waited on, and may be
  stepped either way. A record is rolled before a wait and saved after it; a
  cookie's creation is compared with its last use.
- **Lost and repeated calls.** The output of `consumer-read` may be lost;
  tokens are acknowledged twice, late, or by another consumer.
- **Limits.** Budget, event, consumer and token limits, the timeline page
  limit, and the width of `time.Duration`.

What makes each component correct:

- *Coordination*: a request is counted before it is sent; no window sees more
  than its budget; requests keep their pace and the server's cooldown within a
  window; the program never writes a record it cannot load; every command ends.
- *Check store and check*: the history replays to the baselines; no transition
  is lost or doubled; a check has one verdict; a failed check moves nothing.
- *Consumers*: cursors pass only what was delivered, deliveries are stable
  until acknowledged, consumers do not disturb each other, and everything
  retained is eventually delivered.
- *Timeline catch-up*: whatever the portal does meanwhile, an item is announced
  once, none is missed, none of the old ones is announced, and once the portal
  is quiet the checks catch up.
- *Account binding*: one profile never mixes two accounts, and credentials are
  submitted at most once per command.
- *Cookie jar and session*: every command sends what the portal set, in its
  order, whichever command set it, and can load what the last one saved.
- *Reconciliation*: the changes, replayed, give the baseline or say that they
  cannot; no record continues another's history; every difference is reported.
- *Legacy sync*: its snapshots are the profile's account's, and a reader of
  `changes.json` misses nothing but what a died or a narrower sync cuts off.

`PROJECT.json` lists the hazards one by one, each at the line where it bites,
with the properties that would catch it.


## 2. The modules

| Module | Models | Proofs |
|---|---|---|
| `RequestPolicy` | lease and request policy, any number of processes, two clocks | `RequestPolicyProofs` |
| `PolicyHistory` | `RequestPolicy` with observers: what the portal sees | `RequestPolicyProofs` |
| `CheckState` | the history document, `check`, the consumer commands | `CheckStateProofs` |
| `EventFeed` | abstract: what the history promises consumers | `CheckStateProofs` (refinement) |
| `TimelineCatchUp` | paginated reading against a changing portal | `TimelineCatchUpProofs` |
| `Reconcile` | grades, absences and the overview over successive checks | `ReconcileProofs` |
| `AccountBinding` | binding, session and history files under login and read commands | `AccountBindingProofs` |
| `LegacySync` | the older snapshot files beside them; extends `AccountBinding` | `LegacySyncProofs` |
| `CookieJar` | the jar in memory and in `session.json`, over several commands | `CookieJarProofs` |
| `Selection` | what a loop keeps that filters a list; used by the modules above | `SelectionProofs` |
| `MC...` | instances for TLC: symmetry sets and named constant values | |

`LegacySync` composes the legacy commands with those of `AccountBinding`: it
extends its module, adds variables and takes its steps, and is proved to
implement it. The other modules do not share variables. `CheckState`,
`AccountBinding` and `CookieJar` take from `RequestPolicy` that commands of one
account exclude each other (its invariant `LeaseInv`, proved). `CheckState` and
`LegacySync` treat the content of a record, or of an enrolment, as a version;
what one enrolment's timeline does inside a check is `TimelineCatchUp`, how its
other records are compared `Reconcile`. `AccountBinding` knows of cookies only
whose they are; the cookies themselves are in `CookieJar`. `CheckState` is shown
to implement `EventFeed`.

### RequestPolicy

| Model | Code |
|---|---|
| `holder` | the `flock` on `command.lock`; the kernel frees it when its process dies (`Crash`) |
| `file` | `request-policy.json`; `ZeroState` when it is missing |
| `pc`, `calls` | how far each command is, and how many requests it has made |
| `timer` | the time left in `Acquire`'s poll loop or `BeforeRequest`'s wait: monotonic |
| `state` | the `policyState` a `BeforeRequest` call holds across its wait |
| `now` | `time.Now().UTC()`; `StepClock` steps it |
| `charged` | history: transports, by the window that paid for them |

`BeforeRequest` is `Refuse`, `AdmitAtOnce`, or `BeginPacing` and then
`AdmitAfterPacing` or `CancelPacing`. Loading, rolling, checking and saving are
one step when no wait is due, because the lease keeps everyone else off the file.
The wait is a step boundary, and the record loaded before it is what is saved
after it. A save may fail before its rename. `Send` is the transport,
`RecordCooldown` and `Answered` are `RecordResponse`.

### PolicyHistory

Adds observers and no behaviour: `gap` (time since the last admission), `owed`
(what is left of the server's `Retry-After`), `onDay` (admissions per UTC day).
A program that persists wall-clock readings cannot tell a forward step from time
passing; elapsed time is therefore monotonic time plus forward steps.

### CheckState

`doc` is `check-state.json`; generation 0 means that there is none. `check` is
the running check with the baselines it loaded. Every write is one rename:
it happened, it did not (`AbandonCheck`), or it happened and the command was told
otherwise (`CommitSuccess` into phase `uncertain`, then `ReportUncertain`).
A killed command is the same as one whose write failed, or as a commit nobody
heard of. `received` is history: the batches that reached a consumer. `enrolled`
is history: each enrolment's first baseline.

Check ids and tokens are random in the code. The model numbers them by the
generation that makes them visible, so that they are fresh; `writeAtomic`
increases the generation on every write.

### EventFeed

A log that only grows, and per consumer a cursor that moves only over events
that were delivered. `CheckState!ImplementsFeed` is the refinement: the log is
`doc.events`, the cursor `acknowledgedThrough`, and what was delivered the union
of the batches received.

### TimelineCatchUp

One enrolment. `timeline` is the portal's (newest first); `Publish`, `Correct`
and `Delete` may come between any two requests, and pages are cut when they are
requested. An entry may take a place on a page without being an activity, so
that a page before the last may be empty: the code allows for this
(`contract.go:353-433`). `reader` is the local state of `readTimeline`; one page request is
one step. `Refused` collects the reasons to give up that the code checks before
it uses a page (other number of pages, repeated page, conflicting item),
`Continues`, `Reaches` and `Establishes` the decisions after that.
`Complete` is `completeStableTimeline`'s second look at the newest page, the
reconciliation, the filter and the commit. In the code the check reads its other
enrolments before it commits. One step is enough all the same: after the second
look the check asks for nothing more of this timeline and keeps what it read, and
no step of the portal looks at the files, so that a later commit writes the same.
If the command ends before it commits, the step is an `Interrupt`.

### AccountBinding

`binding`, `session` and `history` stand for `account.json`, `session.json` and
`check-state.json`; of the cookies only their owner is kept, of the history only
whose data is in it. The steps of a running command are `reading` (each
`app.get`), `login` (`loginAndBind`), `posting`, `binding`, `saving`
(`LoginWithCommit`). The portal honours a session or not, accepts credentials or
not, replaces cookies or not. Initially a profile is new, or has a session and a
history of one account from a version that knew no binding.

### LegacySync

| Model | Code |
|---|---|
| `older` | files of versions without profiles, which `consumerDir` and `legacyStateExists` look for |
| `legacy` | `latest.json`; `None` while the schema-2 directory does not exist |
| `job` | the local state of a running `sync`: what it was asked for, `previous`, `snapshot` and the next file |
| `told`, `cut` | history: what a reader of every `changes.json` knows, and of which enrolments changes were not written |

A sync is a command of `AccountBinding` of kind `show`: its reads are `Served`
(`Discover`, `ReadStudent`), its failures any step that ends the command. It
writes three files, each by a rename (`WritePrevious`, `WriteLatest`,
`WriteChanges`), and may die in between. `MayStart` is what stops the others: a
check cannot load its state beside legacy files, nor can credentials without a
binding be judged. `MoveAside` is the user who follows the guidance and archives
the files. Nothing in the files says whose account they are; that they are one
account's follows from who could have read when (section 6).

### CookieJar

| Model | Code |
|---|---|
| `jar` | `Jar.entries` and `nextSeqNum` of the running command |
| `file` | the cookies in `session.json` |
| `set`, `setSaved` | history: what the portal set, with the end its headers mean and whether one of its ages was too long for a `time.Duration`, in memory and when the file was written |
| `rewound` | history: the clock was set back past a saved cookie's creation |

`Open` is `loadJar` with its checks and `Restore`, `OpenFresh` the fresh jar of a
login, `Request` `Jar.Cookies`, `SetCookie` `newEntry` and the rest of
`setCookies`, `Save` `saveJar`. Host names are sequences of labels, paths
sequences of character codes, because the suffix rules and the text order of
paths matter. `Stored`, `Restored`, `SentBefore` and `ExpiresAt` are the code's,
which multiplies a Max-Age in 64-bit nanoseconds (`Wrapped`); `set`, `With` and
`MeantEnd` say independently what a jar should hold, and `MeantEnd` does not wrap.
Request paths are decoded and may have any character.

### Reconcile

| Model | Code |
|---|---|
| `portal` | the records the pages show, grouped by anchor |
| `base`, `unresolved`, `seen` | the committed snapshot, `UnresolvedFallbackKeys`, `SeenSourceRecords` |
| `found` | history: the changes of the last check |
| `told` | history: what a consumer knows who replays all changes from the first baseline |
| `broken` | history: groups whose records two checks in a row could not trace |

`ChangesAt` is the body of `reconcileGroups` for one anchor, with `Unmatched`
for `cancelEqual`. `Replayed` is the consumer's side and not code: it takes each
change at its word (*before* must be what it knows) and is `Misled` otherwise.


## 3. What the runs check

Each run is one module with one `.cfg`. Runs marked *violation* show a
disagreement between the code and its documents (section 7).

| Run | cfg | Properties | What it shows |
|---|---|---|---|
| `policy` | `MCPolicyHistory` | `TypeOK`, `FileCoherent`, `BudgetPerWindow`, `CountedBeforeSent`, `RecordOnlyGrows`; `PacedWithinWindow`, `RetryAfterKeptWithinWindow`, `DayBudgetPlusOne` | two processes, crashes, failed saves, a clock stepped back and forth over midnight, overflowing `Retry-After`: the record on disk, and what the portal sees of it |
| `policy_liveness` | `MCPolicyLiveness` | `CommandEnds` | no command waits for ever, also when lock holders die and the clock is stepped by a day |
| `retry_after` | `MCRetryAfterHonored` | `RetryAfterHonored` | *violation* |
| `check_state` | `MCCheckState` | `TypeOK`, `WellFormed`, `HistoryReplaysBaselines`, `NoTransitionTwice`, `OneVerdict`, `StableBatches`, `ImplementsFeed` | two enrolments, partly read, incomplete, failed or uncertain checks, event limit reached, a consumer that loses answers and changes limits |
| `consumers` | `MCConsumers` | `EventuallyDelivered`, `CursorsIndependent` | two consumers, lost output, repeated and foreign tokens: each that keeps consuming receives every retained event |
| `token_limit` | `MCTokenLimit` | `PendingCanBeAcknowledged` | *violation* |
| `timeline` | `MCTimelineCatchUp` | `TypeOK`, `NothingMissedUnlessRemoved`, `AddedOnce`, `NoHistoryUnlessHidden`, `NoReappearanceBySliding` | entries published, some hidden, and one removed, between any two requests |
| `timeline_progress` | `MCTimelineProgress` | `HeadIsCurrent`, `CatchesUp` | items published and corrected between requests: consumers know the newest page as the second look of a complete check showed it, and checks catch up once the portal is quiet |
| `history_flood` | `MCHistoryFlood` | `NoHistoryAnnounced` | *violation* |
| `account` | `MCLegacySync` | `LegacyTypeOK`, `HistoryOfOneAccount`, `SessionOfBoundAccount`, `ReadsOwnAccount`, `CredentialsSubmittedOnce`, `NewSessionIsBound`, `LegacyOfOneAccount`, `ChangesReachSnapshot` | three accounts, any order of commands, legacy syncs of two enrolments among them, killed anywhere |
| `cookie_jar` | `MCCookieJar` | `TypeOK`, `SentAsSet`, `LongestPathFirst`, `SavedSessionLoads` | commands that set, replace, remove, outlive, save and lose cookies, with an age that overflows and a directory that no cookie may name, while the clock moves and is set back |
| `reconcile` | `MCReconcile` | `TypeOK`, `ReplayGivesBaseline`, `DifferencesReported` | a sourced record, a group of up to three equal-looking lessons and a subject, over any sequence of pages |

`NoHistoryAnnounced` fails in the violating run; the passing run states the
condition under which the code keeps the promise: no history is announced while
every entry is shown, removals included. Likewise nothing is missed
(`NothingMissedUnlessRemoved`) while the portal only publishes, hidden entries
included; when it also removes, section 7 tells what happens. `HeadIsCurrent` has
the same condition, because a removal brings older items up to the newest page that the
filter rightly does not announce. An item is reported as
reappeared without ever having been gone only after a removal or behind an
empty page: `NoReappearanceBySliding` excludes the plain case. For days,
`DayBudgetPlusOne` is the exact promise the code keeps (section 7).
`RetryAfterKeptWithinWindow` compares with the time that the code made of a
`Retry-After`, that is, after the overflow of `time.Duration`: it says that what was
recorded is kept, not that enough was recorded. `SentAsSet` does measure cookies by
what their headers mean, and excepts those with an age that overflows from what must be
sent (section 7).

Every property of a passing run has a mutant in `PROJECT.json`: an operator in the
module, commented *Mutant of ...*, that differs from the real one as a slip in
the code would (a shared lock, a lost clamp, a missing filter, cookies saved
before the binding). Put in place of the real definition it makes the run fail,
so no property holds by the shape of the model. No specification uses these operators.


## 4. Bounds

Constants that bound the model and have no counterpart in the code:

| Bound | Where | Meaning |
|---|---|---|
| `MaxTime` | `RequestPolicy` | the wall clock sticks there; timers go on |
| `MaxRequests` | `RequestPolicy` | requests of one command |
| `MaxVersion` | `CheckState` | updates of one record on the portal |
| `MaxGeneration` | `CheckState` | no check commits from this generation on; consumers go on |
| `MaxPublished`, `MaxCorrections`, `MaxRemovals` | `TimelineCatchUp` | what the portal does in all |
| `MaxGroup` | `Reconcile` | records of a fallback group on one page |
| `MaxTime`, `MaxNumber` | `CookieJar` | the clock stops there; no cookie is set that would need a greater number |

Constants of the code that are small in the runs: `Budget`, `Pace`, `LockWait`,
`Day`, `DurationLimit` (the width of `time.Duration`, so that a few seconds
overflow it), `MaxEvents`, `MaxConsumers`, `MaxTokens`, `PageSize`, `PageLimit`.

Why they are enough:

- *Policy.* `Day = 4` and `MaxTime = 11` give two whole windows, both of whose
  beginnings can be crossed in either direction; `Pace = 2`
  makes a wait that crosses midnight; clock steps of 5 cross a window's start
  both ways. `Budget = 2` with two processes that make two requests per command,
  in any number of commands, tries to exceed the budget from both. A retry of 9 wraps around at
  `DurationLimit = 8` into the past. Two processes are all that matters to a lock
  and one file: the third would wait like the second. All of the run's properties
  are proved for any constants.
  `policy_liveness` uses one midnight (`Day = 3`, `MaxTime = 6`) and no symmetry.
- *Check state.* Two enrolments give partly read and mixed (new and known)
  requests. `MaxEvents = 3` is below what the two records can change, so that
  the limit is met. Four check generations contain an initial baseline, a success, a
  failure after it and a success after that. With two consumers (run
  `consumers`) one enrolment is enough, since consumers see event numbers only;
  two events, one batch of each limit. `MaxTokens` is as large as `MaxEvents` there, so
  that the token limit, which stops delivery for good, is not met; that is the subject
  of `token_limit`. All but `EventuallyDelivered` is proved for any
  enrolments, consumers and limits.
- *Timeline.* Two places a page, three pages and seven entries let an item
  slide over one and over two page boundaries during a read, exceed the page limit,
  and come back with the removal of a newer one. `timeline_progress` has two
  pages and four items, so that a catch-up needs every page the limit allows.
  The properties of the run `timeline`, and `HeadIsCurrent`, are proved for pages of any
  size, any page limit and any number of items, corrections and removals;
  `HeadIsCurrent` also for hidden entries and interrupted checks, which
  `timeline_progress` leaves out for `CatchesUp`.
- *Accounts.* Three accounts: the bound one, an older session's, and another one.
  The reachable states do not grow with more, and all invariants are proved, for
  any number of enrolments and versions as well. Two enrolments and two versions
  let a sync leave one out, change one and keep the other; any number of syncs
  follow each other.
- *Cookies.* Two units of time, of which each may be set back any number of times:
  a cookie ends one unit after it was set, at a fixed time, or never. With
  `DurationLimit = 3` an age of 7 wraps around to 1, so that the jar loses a cookie
  that the portal means to last. (An age of 4, which wraps around to -2, gives the
  same result in its place; both together take longer than five minutes.) The headers
  give three cookies, one of the host and two of the parent domain, whose path is that
  of the request: `/`, or `/;`, which no cookie may name. There are removals, and
  two domains that are refused. Three numbers are as many as the
  cookies; `Restore` gives numbers out again, so that any number of commands fits.
  All four properties are proved for any host, headers, paths, times and numbers.
- *Reconcile.* Groups do not affect each other, so one of each kind is enough. With
  two looks and up to three lessons a group can gain and lose a copy, swap its
  looks, and keep its number while it changes. There is no bound on the checks. All
  three properties are proved for any number of groups, looks and lessons.

Symmetry is declared for processes, enrolments, records, consumers, accounts,
groups and versions, in the runs of safety properties only; no action or property
names one of them.
No run sets `CHECK_DEADLOCK FALSE`.


## 5. Fairness

- `RequestPolicy!FairSpec`: weak fairness of `Tick` (time passes) and of each
  process's `Progress` (the operating system runs it). A process may still die at
  any time, and is not obliged to start a command. There is no fairness of the
  lock: a poll that always comes too late ends with `LockTimeout`.
- `CheckState!FairSpec`: weak fairness of the running check's steps (a command
  ends: every wait in it has a deadline, and `CommandEnds` shows it for the
  lease and the pace), and strong fairness of `Consumes(c)`: a consumer that
  keeps calling eventually reads and acknowledges while no check holds the lease.
  Strong, because checks take the lease again and again. It is what the
  documents ask of a consumer, and delivery cannot be promised without it. Output
  may be lost any number of times, only not always.
- `TimelineCatchUp!UninterruptedSpec`: weak fairness of the check's steps and no
  interrupts. Nothing in the code can make progress while each of its
  reads is cut off; the claim is that *finished* reads catch up, whatever earlier ones
  met. The portal stops publishing because of its bound.


## 6. What is proved

TLAPS checks these for every value of the constants that satisfies the named
assumptions. The proofs cover `Spec`, that is, every interleaving.

`RequestPolicyProofs`, from `ProcsAssumption` (nobody is not a process),
`ConfigAssumption` (budget and pace are natural numbers, the lock wait is
positive: `Config.validate` refuses the rest), `TimeAssumption` (the zero time is
more than a day and a pace in the past) and `EnvironmentAssumption` (types of
what the environment may do; the clock's steps are any integers):

- `TypeCorrect`, `AlwaysCoherent` (`FileCoherent`), `BudgetHolds`
  (`BudgetPerWindow`), `CountedFirst` (`CountedBeforeSent`), `OnlyGrows`
  (`RecordOnlyGrows`).

None of these is inductive. The inductive invariant `Inv` is the conjunction of

- `TypeOK`;
- `LeaseInv`: a process that has the lease is the holder, so that at most one
  is between load and save;
- `FileInv`: the file is coherent, and its count stays within the budget;
- `PacingInv`: a record kept in memory across the pacing wait is still what the
  file holds, up to the roll that happened before the wait, and still within
  budget. This is what makes *load, wait, save* safe;
- `SendingInv`: a process about to send has its request in the file, in the
  window it remembers;
- `ChargedInv`: the transports charged to the current window are within the
  count, those of every window within the budget, and windows after the current
  one have none. The last part is needed because the wall clock can go back: a
  window is never opened twice, since the persisted window does not move back.

`Initial`, one lemma per action (or group of actions that change the same
variables), `Inductive`, and `InvHolds` follow. `Inv` was also checked with TLC on a
two-process instance of `RequestPolicy` before it was proved.

`AccountBindingProofs`, from `AccountsAssumption` and `CommandAssumption` (the
model values are distinct):

- `TypeCorrect`, `OneAccountHistory`, `NoObsoleteSession`, `OwnAccountOnly`,
  `SubmittedOnce`, `BoundBeforeSaved`: the properties of the run `account` about
  these files, and `FinalBinding`, that a profile never changes its account.

The inductive invariant is `TypeOK`, `UnboundInv` (without a binding, whatever
is there is one account's, only commands without credentials read it, and a login
drops the session before it submits the password), `BoundInv` (files and running command are the bound
account's or nobody's) and `StepInv` (what each step of a login has established:
credentials fit, password posted once, cookies the user's own). Properties about
the files alone are not inductive, because a session becomes dangerous only
through a command that still carries it in memory.

`LegacySyncProofs`, from these and `JobAssumption` (no file and no sync are
neither a snapshot nor a sync):

- `Implements`: `LegacySpec => Spec`. Every step of the composition is a step of
  `AccountBinding` or leaves its variables alone, so that its theorems hold in
  profiles where legacy syncs run. It needs `JobInv`: a sync belongs to a running
  command.
- `LegacyTypeCorrect` (`LegacyTypeOK`).
- `LegacyOneAccount` (`LegacyOfOneAccount`). The snapshots carry no account, so
  the invariant `OwnInv` follows the data to where it came from: before the
  binding, everything in the files, in the running sync, in the session, and in
  the memory of a command without credentials is of one account, and no step
  brings in another (`NoNewTraces`); a command with credentials starts only where
  nothing is stored (`StartsClean`), so that nothing is stored when it binds
  (`Binding`); after that every page is the bound account's (`PageOwner`).
- `ChangesReach` (`ChangesReachSnapshot`). `ChangeInv` says what the reader knows at
  each step of a sync: the snapshot on disk, or, between `latest.json` and
  `changes.json`, the one before (`KnownInv`); that a sync still compares with
  what is on disk when it replaces it (`ComparesInv`); and that a `--current` sync
  has read all that was current before (`CompleteInv`).

The properties of the run `account` are thereby all proved.

`RequestPolicyProofs` goes on to `PolicyHistory`, from the same assumptions:

- `DayBudget` (`DayBudgetPlusOne`), `Paced` (`PacedWithinWindow`), `RetryAfterKept`
  (`RetryAfterKeptWithinWindow`).

The code decides by what the record on disk says and by what a waiting process
remembers of it; the properties are about elapsed time. To `Inv` above, which holds
here too, the invariant adds

- `PaceInv`: the wall clock shows no more time since the last request than has
  elapsed, and a waiting process has at least as long to wait as the pace asks for. The
  clock may be set back (the process waits too long) but a step forward counts as time;
- `OwedInv`: a cooldown still owed is in the record, and no process waits
  beside it, since whoever waits admits its request without looking at it again;
- `DayInv`: the admissions of today are in the count of a window that began today or later,
  but for one: that of a process that waited past midnight. There is never a
  second, because the first that is admitted after midnight rolls the window or belongs
  to the process that holds the lease.

`CheckStateProofs`, from `FiniteAssumption` (enrolments and records are finite
sets), `LimitsAssumption` (bounds and batch limits are natural numbers) and
`NoneAssumption` (absent is not a value):

- `TypeCorrect`, `AlwaysWellFormed`, `StableDelivery` (`StableBatches`), `SingleVerdict`
  (`OneVerdict`), `NoDoubleTransition` (`NoTransitionTwice`), `HistoryReplays`
  (`HistoryReplaysBaselines`), `IndependentCursors` (`CursorsIndependent`), and
  `FeedImplemented` (`ImplementsFeed`): `CheckState` implements `EventFeed`.

The invariant has two halves. `NumberInv` is about who was given what: numbers
in use are of past generations, so that the next generation's are fresh
(`FreshInv`); nothing is written while a check runs but by that check (`CheckInv`:
the baselines it loaded are still the file's, and its id is the next generation's);
what a consumer was given is pending or behind its cursor, and a pending token
belongs to one batch and one consumer (`DeliveryInv`: without it, a token given to
one consumer could acknowledge another's batch). The other half is about content: versions go
forward from the events over the baseline and the running check's reads to the portal
(`VersionInv`), so that no transition comes twice, and an enrolment's events start at its
first baseline (`EnrolledInv`).
A commit appends a list of any length through the recursive function in `Applied`.
Induction theorems being out of reach, each claim about it is proved from the least
index at which it would fail (`LeastElement` in `SelectionProofs`). For the refinement, a
step of the abstract feed is named for every step of the code: a commit
extends the log, a read delivers, an acknowledgement moves the cursor over what
`DeliveryInv` says was delivered, and the rest stutters.

`TimelineCatchUpProofs`, from `TimelineAssumption` (page size and limit are positive,
the portal's bounds natural numbers) and `NoneAssumption`:

- `TypeCorrect`, `NoneAddedTwice` (`AddedOnce`), `NothingSlidesPast`
  (`NothingMissedUnlessRemoved`), `SlidingIsNoReturn` (`NoReappearanceBySliding`),
  `HistoryStaysQuiet` (`NoHistoryUnlessHidden`), `HeadIsKnown` (`HeadIsCurrent`).

What is hard is what a read that took several requests may conclude about a
timeline that moved meanwhile. Beside types and what the files say of each other
(`PortalInv`, `KnownInv`, `AddedInv`, `ReaderInv`), the invariant says

- `MissedInv`: without removals the pages read so far leave no gap from what had been
  published when the read began down to the next page, and hold nothing published since.
  The second part is because a later page shows more than it should, never less, and a
  read with another number of pages is given up, hence entries are pushed on by less
  than a page;
- `SlideInv`: if all entries are shown too, the boundary is the newest page of the last
  check and a read stops on the page that holds it;
- `HistoryInv`: where every entry is shown, unread history lies behind the boundary.
  A read that takes some of it for new must have lost the boundary between two
  pages, so that the timeline was pushed on by more than a page; and what pushed it
  is now on the newest page, or was removed again together with so much else that the
  number of pages fell. Both make `completeStableTimeline` or the page count
  refuse. It holds for any number of removals at any time, which TLC can check
  for one.

`HeadIsCurrent` needs a second invariant, `HeadInv`: while nothing is removed, what is
shown and was among the newest when the last complete read began is in the
boundary, likewise for the first page of the running read; and consumers know each item of
the boundary as the baseline has it. An item of the newest page that a check finds
unchanged must then be one they were told of as it is (`CompleteKeeps`), and
every other one passes the filter and has the last event about it (`CompleteReports`): were
it an addition behind the point of overlap, it would have been in the boundary before.
The other items of a baseline may lie behind the point of overlap and never have been
announced, which is why it is stated of the boundary only.

`CookieJarProofs`, from `HostAssumption` (no public suffix between two domains of the
host that are none), `PathAssumption` (a path begins with a slash, and any
character may follow), `CookieAssumption` (what `net/http` makes of a header; its
Max-Age is any integer), `TimeAssumption` and `NoneAssumption` (no end is not a time):

- `TypeCorrect`, `PortalsOwn` (`SentAsSet`), `LongestFirst` (`LongestPathFirst`),
  `SessionLoads` (`SavedSessionLoads`).

The invariant says of the jar and of what the portal set (`JarInv`), and in the same
words of the file and of what the portal had set when it was written (`FileInv`):
the jar has no cookie but the portal's, each lawful for `loadJar` or of a strange
directory, and ends none later than the portal means to; those whose ages a
`time.Duration` holds it has all, with the very end that was meant, and numbers them in
the order in which they were set (`Agree`). Unless the clock was rewound, so is the
order of their ages, and no cookie is younger than its last use or than now (`Timely`).
Numbers alone do not suffice, because `SentBefore` compares ages first. A cookie once
given an age that overflows may vanish early and return under a new number, hence it
stays out of the claims about completeness and order. `WrappedFacts` is why the
others are exact and why a wrapped age is never longer than the one meant.
`RestoredAgrees` is why a restored jar numbers on safely though numbers are given out
again: the new ones are above all that are in use. `DomainFacts` takes the check
of a domain when a cookie is set to the different check when it is loaded, and
`LongerPathPrecedes` needs no invariant: two paths that match one request are prefixes of it.

`ReconcileProofs`, from `GroupAssumption` (a group has at least one place),
`AnchorsAssumption` (the three kinds of groups are apart) and `NoneAssumption` (absent,
*unclear* and *misled* are not contents):

- `TypeCorrect`, `ReplayCorrect` (`ReplayGivesBaseline`), `DifferencesCorrect`
  (`DifferencesReported`).

Two things are hard. The first is counting: `cancelEqual` strikes out pairs, the
properties speak of how often a look occurs. That nothing is left over on one side exactly
if the other has every look as often is `NothingUnmatched`. That two groups of
equal length leave over either nothing or something on both sides (`BothOrNeither`) is why
a group of unchanged size is never taken for one that only gained or only lost
records; it takes a one-to-one map of the places of one group into the other's (`Partners`).
`SourcedChanges` and `FallbackChanges` then say which changes one group can
give, and `ReplayNone`, `ReplayOne`, `ReplayAmbiguous` and `ReplayAdded` what a
consumer makes of each. The second is that the consumer's knowledge alone is not an
invariant, since what the next change does to it depends on what the code remembers. `Inv` adds

- `SourcedKnown`: of a sourced record the consumer knows what was seen last, also while no
  page shows it; hence *reappeared* must carry that state as its *before*;
- `FallbackKnown`: a group the consumer does not know is unresolved and could not be
  traced, or its records are gone; all others it knows up to order. Were an unresolved key
  ever dropped, the next addition would be replayed over what is not known;
- `SubjectsKnown`: a subject is known, but for one that an overview left out.

`Inv` of `CheckStateProofs`, `TimelineCatchUpProofs`, `CookieJarProofs` and `ReconcileProofs`,
and `HeadInv`, were checked with TLC on small instances before they were proved; so were the assertions of their proofs that
were not evident.

`Selection` defines what filtering loops keep. It stands in for `SelectSeq`, which
the provers know nothing about; `SelectionProofs` has its lemmas (membership,
order, length, no repetition), each from a least counterexample.

Only model-checked:

- all liveness (`CommandEnds`, `EventuallyDelivered`, `CatchesUp`), which is out of reach
  of the installed provers.


## 7. Where code and documents disagree

| Run | What happens |
|---|---|
| `retry_after` | `rollWindow` forgets the whole record at midnight, so a cooldown that reaches past it is forgotten. `README.md:84` says that a valid `Retry-After` is honoured. |
| `token_limit` | The 1,025th acknowledgement is refused for good; nothing drops old tokens. `docs/automation.md:46-47` speaks of the 1,024 *recent* tokens. The consumer can then never advance. |
| `history_flood` | When the newest page is empty and the overlap lies behind it, the stored boundary is empty. The next check reads to the end and announces items older than the first baseline. |

The first needs a cooldown that reaches past midnight UTC, the last a portal that
shows pages without activities.

More consequences have no run of their own:

- For the same reason as in `retry_after`, the first request of a UTC day is not
  paced (`README.md:90` calls the interval the minimum delay between requests).
  `PacedWithinWindow` is what holds.
- A request that waits for its pace across midnight is counted in the old window
  and sent in the new day, which still grants its whole budget: one more than
  the "UTC-day request limit" of `README.md:91`. `DayBudgetPlusOne` shows that it
  is never more.
- A baseline holds only the pages the last check read. An item that slid
  off them and comes back onto them after a newer one is removed is reported
  with the meaning `observed_reappearance`, though it was never gone
  (`diff.go:219`). `NoReappearanceBySliding` is what holds.
- An item removed between two page requests shifts another one onto a page that
  was read already. The newest page has not changed, nor has the number of pages,
  so the check completes without it. `NothingMissedUnlessRemoved` is what holds.
- If the clock is set back past the creation of a saved cookie, the next command
  that sends it saves a last access before its creation (`jar.go:296`), and every
  later load refuses the file as invalid (`session.go:91`) until `session-reset`.
  `SavedSessionLoads` is stated for clocks that were not.
- The default path of a cookie comes from the decoded URL (`jar.go:347`), and
  `page --path` asks for any path (`main.go:640`): a page in a directory whose name
  decodes to a semicolon or a letter outside ASCII could set a cookie that is sent and
  saved, and refused by the next load (`session.go:98`). The model has such paths, and
  `SavedSessionLoads` excepts the cookies set there without a path of their own
  (`StrangePaths`). Together with a clock set back this is all that breaks it.
- A Max-Age is multiplied in 64-bit nanoseconds (`jar.go:514`). Above about 9.2e9
  seconds, 292 years, the product wraps around, often to a time in the past: the jar
  drops at the next request a cookie that the portal meant to last. The model has
  such ages. `SentAsSet` shows that no other cookie is lost, and that the wrapped one
  is not sent longer than it should be.
- `saveJar` has no limit on the size of the file that `loadJar` has. Sizes are not
  modelled.
- A subject that one overview does not list and the next lists with other grades is
  compared with neither (`diff.go:238`): the change is never reported.
  `ReplayGivesBaseline` excepts it.
- A legacy sync that dies between `latest.json` and `changes.json` takes its changes
  with it, and a sync of fewer enrolments forgets the others.
  `docs/automation.md:50-52` promises no catch-up for the legacy interface, and no
  document anything else; `ChangesReachSnapshot` shows that nothing more is lost.


## 8. What is not modelled

- *Removals* in the reconciliation: no caller allows them
  (`AllowGradeRemovals` and `AllowAbsenceRemovals` are never set).
- *Cookies*: values, `Secure`, `HttpOnly`, `SameSite` and quoting are carried through
  and decide nothing with one HTTPS host; IP addresses, punycode and upper case in
  host names do not occur there. The clock is not set back while a command runs.
- *Streams of `--consumer`* in the legacy sync: copies of the one modelled.
  `checks.jsonl` is written last and read by nothing.
- *Parsers*: pure HTML extraction; only the contract of a timeline page, and that a
  page has no two records with one identifier, are used.
- *Status, error classification, guidance, JSON output*: no state.
- *Credential providers*: I/O; a provider is the username it yields.
- *Loss of power*: process crashes are modelled, after which a rename stands. Which of
  the files survive a power loss depends on syncs that some of them lack
  (listed as hazards without a property).
- *Corrupted or hand-edited files*: the runs start from files the program writes.
- *A successful write of a document that another version rejects*: schema
  versions are not modelled.


## 9. Plan

Done in this order: `RequestPolicy` and its proofs, `PolicyHistory`, `CheckState`
with `EventFeed`, `TimelineCatchUp`, `AccountBinding` and its proofs, `CookieJar`,
`Reconcile`, `LegacySync` and its proofs; then the proofs about `CheckState` with the
refinement to `EventFeed`, `PolicyHistory`, `TimelineCatchUp`, `CookieJar` and `Reconcile`. The components
that keep state are modelled; what is left out is listed in section 8.

Every safety property and action property of a passing run is a theorem. Left to TLC
are the liveness properties and the runs of section 7, which show violations. What could be
added: the pure checks of redirects and of page markup, if they grow, as
operators with reference definitions.


## 10. Running the checks

    tlc -workers 2 -config MCPolicyHistory.cfg MCPolicyHistory
    tlapm RequestPolicyProofs.tla

`PROJECT.json` names the module and configuration of every run. The longest run
takes about two minutes; of the proofs, those of `CheckState` and `TimelineCatchUp`
take several minutes each.
