--------------------------- MODULE LegacySyncProofs ---------------------------
(***************************************************************************)
(* Proofs about LegacySync, for any accounts, enrolments and versions.     *)
(*                                                                         *)
(* A sync adds no step to what AccountBinding allows (Implements), so that *)
(* everything proved there holds beside syncs as well.  On top of its      *)
(* invariant Inv, OwnInv says whose data the snapshots and the running     *)
(* sync hold, and ChangeInv what a reader of changes.json may not know     *)
(* yet.                                                                    *)
(***************************************************************************)
EXTENDS LegacySync, AccountBindingProofs

allVars == <<vars, legacyVars>>

\* A sync is a command's.
JobInv == job # None => command # None

-----------------------------------------------------------------------------
(* LegacySync implements AccountBinding. *)

\* What a command that reads begins with.
LEMMA Begins ==
  ASSUME Inv, NEW user \in Accounts \cup {None}, NEW kind \in {"check", "show"},
         StartReading(kind, user)
  PROVE  /\ command' \in Commands /\ command' # None
         /\ command'.user = user /\ command'.kind = kind
         /\ command'.jar = Loaded /\ command'.read = {}
<1> DEFINE c == [kind |-> kind, user |-> user, step |-> "reading",
                 mustLogIn |-> MustLogIn(user), tried |-> FALSE, posts |-> 0,
                 jar |-> Loaded, read |-> {}]
<1>1. Loaded \in Cookies /\ MustLogIn(user) \in BOOLEAN
  BY DEF MustLogIn, Loaded, Cookies, Inv, TypeOK
<1>2. c \in Commands
  BY <1>1 DEF Commands
<1>3. command' = c
  BY DEF StartReading
<1> QED
  BY <1>2, <1>3, CommandAssumption

\* Every step of the composition is one of AccountBinding, or leaves its
\* variables alone.
LEMMA StepImplements == JobInv /\ [LegacyNext]_allVars => [Next]_vars
<1> SUFFICES ASSUME JobInv, [LegacyNext]_allVars PROVE [Next]_vars
  OBVIOUS
<1>1. CASE UNCHANGED allVars
  BY <1>1 DEF allVars, vars
<1>2. ASSUME NEW user \in Accounts \cup {None}, NEW students, StartSync(user, students)
      PROVE  Next
  BY <1>2 DEF StartSync, Next
<1>3. CASE Discover \/ \E s \in Students : ReadStudent(s)
  BY <1>3 DEF Discover, ReadStudent, Next
<1>4. CASE WritePrevious
  <2>1. command # None
    BY <1>4 DEF WritePrevious, Syncing, JobInv
  <2>2. CASE Ends
    BY <1>4, <2>1, <2>2 DEF WritePrevious, Next, Fail
  <2> QED
    BY <1>4, <2>2 DEF WritePrevious, vars, files
<1>5. CASE WriteLatest \/ WriteChanges \/ MoveAside
  BY <1>5 DEF WriteLatest, WriteChanges, MoveAside, vars
<1>6. CASE AccountStep
  BY <1>6 DEF AccountStep
<1> QED
  BY <1>1, <1>2, <1>3, <1>4, <1>5, <1>6 DEF LegacyNext

LEMMA JobInitial == LegacyInit => Inv /\ JobInv
BY Initial DEF LegacyInit, JobInv

LEMMA JobStep == Inv /\ JobInv /\ [LegacyNext]_allVars => Inv' /\ JobInv'
<1> SUFFICES ASSUME Inv, JobInv, [LegacyNext]_allVars PROVE JobInv'
  BY Inductive, StepImplements
<1>1. CASE UNCHANGED allVars
  BY <1>1 DEF JobInv, vars, legacyVars, allVars
<1>2. ASSUME NEW user \in Accounts \cup {None}, NEW students, StartSync(user, students)
      PROVE  JobInv'
  BY <1>2, Begins DEF StartSync, JobInv
<1>3. CASE Discover \/ \E s \in Students : ReadStudent(s)
  BY <1>3 DEF Discover, ReadStudent, JobInv
<1>4. CASE WritePrevious
  BY <1>4 DEF WritePrevious, Syncing, JobInv
<1>5. CASE WriteLatest \/ WriteChanges
  BY <1>5 DEF WriteLatest, WriteChanges, Syncing, JobInv, vars
<1>6. CASE AccountStep
  BY <1>6 DEF AccountStep, JobInv
<1>7. CASE MoveAside
  BY <1>7 DEF MoveAside, JobInv, vars
<1> QED
  BY <1>1, <1>2, <1>3, <1>4, <1>5, <1>6, <1>7 DEF LegacyNext

LEMMA JobHolds == LegacySpec => [](Inv /\ JobInv)
<1>1. LegacySpec => LegacyInit /\ [][LegacyNext]_allVars
  BY PTL DEF LegacySpec, allVars
<1> QED
  BY <1>1, JobInitial, JobStep, PTL

\* A profile in which legacy syncs run behaves like one without them, as far
\* as its binding, session, history and commands go (main.go:654-759).
THEOREM Implements == LegacySpec => Spec
<1>1. LegacySpec => LegacyInit /\ [][LegacyNext]_allVars
  BY PTL DEF LegacySpec, allVars
<1>2. LegacyInit => Init
  BY DEF LegacyInit
<1> QED
  BY <1>1, <1>2, JobHolds, StepImplements, PTL DEF Spec

-----------------------------------------------------------------------------
(* Types. *)

LegacyType ==
  /\ older \in BOOLEAN
  /\ legacy \in PartialSnapshots \cup {None}
  /\ job \in Jobs \cup {None}
  /\ told \in [Students -> Versions \cup {None}]
  /\ cut \subseteq Students

LEMMA SnapshotType ==
  ASSUME NEW snapshot \in PartialSnapshots
  PROVE  /\ DOMAIN snapshot \subseteq Students
         /\ \A s \in DOMAIN snapshot : snapshot[s] \in Entries
         /\ snapshot = [s \in DOMAIN snapshot |-> snapshot[s]]
BY DEF PartialSnapshots

LEMMA NoStudentsType == NoStudents \in PartialSnapshots /\ DOMAIN NoStudents = {}
<1>1. NoStudents \in [{} -> Entries]
  BY DEF NoStudents
<1> QED
  BY <1>1 DEF PartialSnapshots, NoStudents

LEMMA PreviousType == LegacyType => Previous \in PartialSnapshots
BY NoStudentsType DEF LegacyType, Previous

\* One page more makes a snapshot again.
LEMMA SnapshotExtended ==
  ASSUME NEW snapshot \in PartialSnapshots, NEW s \in Students, NEW entry \in Entries
  PROVE  [x \in DOMAIN snapshot \cup {s} |-> IF x = s THEN entry ELSE snapshot[x]]
           \in PartialSnapshots
<1> DEFINE D == DOMAIN snapshot \cup {s}
           f == [x \in D |-> IF x = s THEN entry ELSE snapshot[x]]
<1>1. \A x \in D : (IF x = s THEN entry ELSE snapshot[x]) \in Entries
  BY SnapshotType
<1>2. f \in [D -> Entries]
  BY <1>1
<1>3. D \in SUBSET Students
  BY SnapshotType
<1> HIDE DEF D, f
<1>4. f \in PartialSnapshots
  BY <1>2, <1>3 DEF PartialSnapshots
<1> QED
  BY <1>4 DEF D, f

\* A running sync; its command is one that was not ended by this step.
LEMMA JobType == LegacyType /\ job # None => job \in Jobs
BY DEF LegacyType

LEMMA TypeInitial == LegacyInit => LegacyType
BY DEF LegacyInit, LegacyType

LEMMA TypeStep == LegacyType /\ [LegacyNext]_allVars => LegacyType'
<1> SUFFICES ASSUME LegacyType, [LegacyNext]_allVars PROVE LegacyType'
  OBVIOUS
<1>1. CASE UNCHANGED allVars
  BY <1>1 DEF LegacyType, vars, legacyVars, allVars
<1>2. ASSUME NEW user \in Accounts \cup {None},
             NEW students \in ((SUBSET Students) \ {{}}) \cup {None},
             StartSync(user, students)
      PROVE  LegacyType'
  <2> DEFINE j == [step |-> IF students = None THEN "discovering" ELSE "reading",
                   chosen |-> students, explicit |-> students # None,
                   previous |-> Previous, snapshot |-> NoStudents]
  <2>1. j \in Jobs
    BY PreviousType, NoStudentsType DEF Jobs
  <2>2. job' = j /\ UNCHANGED <<older, legacy, told, cut>>
    BY <1>2 DEF StartSync
  <2> QED
    BY <2>1, <2>2 DEF LegacyType
<1>3. CASE Discover
  <2>1. /\ job \in Jobs
        /\ UNCHANGED <<older, legacy, told, cut>>
    BY <1>3, JobType DEF Discover, Syncing
  <2>2. PICK discovered \in SUBSET Students :
          job' = [job EXCEPT !.chosen = discovered, !.step = "reading"]
    BY <1>3 DEF Discover
  <2>3. job' \in Jobs
    BY <2>1, <2>2 DEF Jobs
  <2> QED
    BY <2>1, <2>3 DEF LegacyType
<1>4. ASSUME NEW s \in Students, ReadStudent(s) PROVE LegacyType'
  <2>1. /\ job \in Jobs
        /\ command.jar \in Accounts
        /\ UNCHANGED <<older, legacy, told, cut>>
    BY <1>4, JobType DEF ReadStudent, Syncing, Served
  <2>2. PICK version \in Versions :
          job' = [job EXCEPT !.snapshot =
                    [x \in DOMAIN @ \cup {s} |->
                       IF x = s
                       THEN [version |-> version, of |-> command.jar,
                             current |-> ~job.explicit]
                       ELSE @[x]]]
    BY <1>4 DEF ReadStudent
  <2> DEFINE entry == [version |-> version, of |-> command.jar, current |-> ~job.explicit]
             snapshot == [x \in DOMAIN job.snapshot \cup {s} |->
                            IF x = s THEN entry ELSE job.snapshot[x]]
  <2>3. entry \in Entries /\ job.snapshot \in PartialSnapshots
    BY <2>1 DEF Entries, Jobs
  <2>4. snapshot \in PartialSnapshots
    BY <2>3, SnapshotExtended
  <2>5. job' = [job EXCEPT !.snapshot = snapshot]
    BY <2>2
  <2> HIDE DEF snapshot
  <2>6. job' \in Jobs
    BY <2>1, <2>4, <2>5 DEF Jobs
  <2> QED
    BY <2>1, <2>6 DEF LegacyType
<1>5. CASE WritePrevious
  <2>1. job \in Jobs
    BY <1>5, JobType DEF WritePrevious, Syncing
  <2>2. job' \in Jobs \cup {None}
    BY <1>5, <2>1 DEF WritePrevious, Jobs
  <2> QED
    BY <1>5, <2>2, PreviousType DEF WritePrevious, LegacyType
<1>6. CASE WriteLatest
  <2>1. job \in Jobs
    BY <1>6, JobType DEF WriteLatest, Syncing
  <2>2. job' \in Jobs /\ job.snapshot \in PartialSnapshots /\ job.previous \in PartialSnapshots
    BY <1>6, <2>1 DEF WriteLatest, Jobs
  <2>3. LeftOut \subseteq Students
    BY <2>2, SnapshotType DEF LeftOut
  <2> QED
    BY <1>6, <2>2, <2>3 DEF WriteLatest, LegacyType
<1>7. CASE WriteChanges
  <2>1. job \in Jobs
    BY <1>7, JobType DEF WriteChanges, Syncing
  <2>2. job' \in Jobs /\ job.snapshot \in PartialSnapshots /\ job.previous \in PartialSnapshots
    BY <1>7, <2>1 DEF WriteChanges, Jobs
  <2>3. ASSUME NEW s \in Students PROVE ToldBy(s) \in Versions \cup {None}
    <3>1. told[s] \in Versions \cup {None}
      BY DEF LegacyType
    <3>2. s \in DOMAIN job.snapshot => job.snapshot[s].version \in Versions
      BY <2>2, SnapshotType DEF Entries
    <3> QED
      BY <3>1, <3>2 DEF ToldBy, DiffFor
  <2> QED
    BY <1>7, <2>2, <2>3 DEF WriteChanges, LegacyType
<1>8. CASE AccountStep
  <2>1. Syncing("changes") => DOMAIN job.snapshot \subseteq Students
    BY JobType, SnapshotType DEF Syncing, Jobs
  <2> QED
    BY <1>8, <2>1 DEF AccountStep, LegacyType
<1>9. CASE MoveAside
  BY <1>9 DEF MoveAside, LegacyType
<1> QED
  BY <1>1, <1>2, <1>3, <1>4, <1>5, <1>6, <1>7, <1>8, <1>9 DEF LegacyNext

\* Every variable keeps its type, of the snapshot files and of the binding.
THEOREM LegacyTypeCorrect == LegacySpec => []LegacyTypeOK
<1>1. LegacySpec => LegacyInit /\ [][LegacyNext]_allVars
  BY PTL DEF LegacySpec, allVars
<1>2. Inv /\ LegacyType => LegacyTypeOK
  BY DEF Inv, LegacyType, LegacyTypeOK
<1> QED
  BY <1>1, <1>2, JobHolds, TypeInitial, TypeStep, PTL

-----------------------------------------------------------------------------
(* Whose data the snapshots are. *)

Owners(snapshot) == {snapshot[s].of : s \in DOMAIN snapshot}

\* Accounts in the snapshot on disk and in the running sync.
Stored ==
  LegacyOwners \cup
    (IF job = None THEN {} ELSE Owners(job.previous) \cup Owners(job.snapshot))

\* Without a binding: the accounts in everything else a profile and a command
\* without credentials hold.
Traces ==
  history \cup (Accounts \cap {session}) \cup
    (IF command # None /\ command.user = None
     THEN (Accounts \cap {command.jar}) \cup command.read ELSE {})

\* All of it is one account's, the bound one's after the binding; before it,
\* a command with credentials runs only where nothing is stored.
OwnInv ==
  /\ binding # None => Stored \subseteq {binding}
  /\ binding = None => \E a \in Accounts : Stored \cup Traces \subseteq {a}
  /\ binding = None /\ command # None /\ command.user # None => Stored = {}

\* A command's credentials stay what it was given.
LEMMA SameUser ==
  ASSUME Inv, [Next]_vars, command # None, command' # None
  PROVE  command'.user = command.user
<1>1. command \in Commands
  BY CommandType
<1> QED
  BY <1>1 DEF Next, vars, StartLogin, StartReading, ResetSession, LogInFirst, Served,
     SessionExpired, ReadFails, BeginLogin, Post, Bind, SaveSession, CommitCheck,
     Finish, Fail, DropStale, files, Commands, Ends

\* A profile that is bound stays bound; it is bound by a command with
\* credentials, which goes on.
LEMMA Binding ==
  ASSUME Inv, [Next]_vars
  PROVE  /\ binding # None => binding' = binding
         /\ binding = None /\ binding' # None =>
              /\ command # None /\ command.user # None /\ command.step = "binding"
              /\ command' # None
<1>1. CASE Bind
  <2>1. command # None /\ command \in Commands
    BY <1>1, CommandType DEF Bind, At
  <2>2. command' \in Commands
    BY <1>1, <2>1 DEF Bind, Commands
  <2> QED
    BY <1>1, <2>1, <2>2, CommandAssumption DEF Bind, At, Inv, BoundInv, StepInv
<1>2. CASE ~Bind
  BY <1>2 DEF Next, vars, StartLogin, StartReading, ResetSession, LogInFirst, Served,
     SessionExpired, ReadFails, BeginLogin, DropStale, Post, SaveSession, CommitCheck,
     Finish, Fail, files
<1> QED
  BY <1>1, <1>2

\* Before a binding no step brings in another account.
LEMMA NoNewTraces ==
  ASSUME Inv, [Next]_vars, binding = None, binding' = None
  PROVE  Traces' \subseteq Traces
<1> USE AccountsAssumption, CommandAssumption
<1>1. ASSUME NEW user \in Accounts, StartLogin(user) PROVE Traces' \subseteq Traces
  <2>1. command'.user = user
    BY <1>1 DEF StartLogin
  <2> QED
    BY <1>1, <2>1 DEF StartLogin, files, Traces
<1>2. ASSUME NEW kind \in {"check", "show"}, NEW user \in Accounts \cup {None},
             StartReading(kind, user)
      PROVE  Traces' \subseteq Traces
  <2>1. command'.jar = Loaded /\ command'.read = {}
    BY <1>2, Begins
  <2> QED
    BY <1>2, <2>1 DEF StartReading, Loaded, files, Traces
<1>3. CASE ResetSession
  BY <1>3 DEF ResetSession, Traces
<1>4. CASE LogInFirst \/ Served \/ SessionExpired \/ ReadFails
  <2>1. command # None /\ command \in Commands /\ command.step = "reading"
    BY <1>4, CommandType DEF LogInFirst, Served, SessionExpired, ReadFails, Reads, At
  <2>2. CASE LogInFirst
    BY <2>1, <2>2 DEF LogInFirst, Commands, Traces, files
  <2>3. CASE Served \/ SessionExpired \/ ReadFails
    <3>1. command.user = None /\ history' = history
      BY <2>1, <2>3 DEF Served, SessionExpired, ReadFails, Reads, Inv, UnboundInv
    <3>2. CASE Served /\ ~Ends
      <4>1. /\ command' = [command EXCEPT !.read = @ \cup {command.jar}]
            /\ command.jar \in Accounts /\ session' = command.jar
        BY <3>2 DEF Served
      <4>2. command'.jar = command.jar /\ command'.read = command.read \cup {command.jar}
        BY <2>1, <4>1 DEF Commands
      <4> QED
        BY <2>1, <3>1, <4>1, <4>2 DEF Traces
    <3>3. command' = None \/ (Served /\ ~Ends)
      BY <2>3, <3>1 DEF Served, SessionExpired, ReadFails, MayLogIn, Ends
    <3>4. session' \in {session, command.jar, Anonymous}
      BY <2>3 DEF Served, SessionExpired, ReadFails
    <3>5. CASE command' = None
      BY <2>1, <3>1, <3>4, <3>5 DEF Traces
    <3> QED
      BY <3>2, <3>3, <3>5
  <2> QED
    BY <1>4, <2>2, <2>3
<1>5. CASE BeginLogin \/ Post \/ Bind \/ SaveSession
  <2>1. /\ command # None /\ command \in Commands
        /\ command.step \in {"login", "posting", "binding", "saving"}
    BY <1>5, CommandType DEF BeginLogin, DropStale, Post, Bind, SaveSession, At
  <2>2. command.user # None
    BY <2>1 DEF Inv, StepInv
  <2>3. command.step # "saving"
    BY <2>1, <2>2 DEF Inv, UnboundInv
  <2>4. BeginLogin \/ Post \/ Bind
    BY <1>5, <2>3 DEF SaveSession, At
  <2>5. history' = history /\ session' \in {session, None}
    BY <2>4 DEF BeginLogin, DropStale, Post, Bind, files
  <2>6. command' # None => command'.user # None
    BY <2>1, <2>2, SameUser
  <2> QED
    BY <2>5, <2>6 DEF Traces
<1>6. CASE CommitCheck
  <2>1. /\ command # None /\ command.step = "reading" /\ ~command.mustLogIn
        /\ command' = None /\ session' = session
        /\ history' = history \cup command.read
    BY <1>6 DEF CommitCheck, Reads, At, Ends
  <2>2. command.user = None
    BY <2>1 DEF Inv, UnboundInv
  <2> QED
    BY <2>1, <2>2 DEF Traces
<1>7. CASE Finish \/ Fail
  BY <1>7 DEF Finish, Fail, Ends, files, Traces
<1>8. CASE UNCHANGED vars
  BY <1>8 DEF vars, Traces
<1> QED
  BY <1>1, <1>2, <1>3, <1>4, <1>5, <1>6, <1>7, <1>8 DEF Next

\* The page of one enrolment comes from an account that is bound, or that a
\* command without credentials already held.
LEMMA PageOwner ==
  ASSUME Inv, Served, command' # None
  PROVE  /\ command.jar \in Accounts /\ binding' = binding
         /\ binding # None => command.jar = binding
         /\ binding = None => command.user = None /\ command.jar \in Traces
<1>1. /\ command # None /\ command.step = "reading" /\ ~command.mustLogIn
      /\ command.jar \in Accounts /\ binding' = binding
  BY DEF Served, Reads, At
<1>2. binding # None => command.jar = binding
  BY <1>1, AccountsAssumption DEF Inv, BoundInv
<1>3. binding = None => command.user = None
  BY <1>1 DEF Inv, UnboundInv
<1> QED
  BY <1>1, <1>2, <1>3 DEF Traces

\* What a step stores comes from what was stored, or from the page it reads.
LEMMA NewOwners ==
  ASSUME LegacyType, JobInv, [LegacyNext]_allVars
  PROVE  \/ Stored' \subseteq Stored
         \/ /\ Served /\ command' # None
            /\ Stored' \subseteq Stored \cup {command.jar}
<1>0. Owners(NoStudents) = {}
  BY NoStudentsType DEF Owners
<1>p. Owners(Previous) = LegacyOwners
  BY <1>0 DEF Previous, LegacyOwners, Owners
<1>1. CASE UNCHANGED allVars
  BY <1>1 DEF Stored, LegacyOwners, vars, legacyVars, allVars
<1>2. ASSUME NEW user \in Accounts \cup {None},
             NEW students \in ((SUBSET Students) \ {{}}) \cup {None},
             StartSync(user, students)
      PROVE  Stored' \subseteq Stored
  <2>1. /\ legacy' = legacy
        /\ job'.previous = Previous /\ job'.snapshot = NoStudents
    BY <1>2 DEF StartSync
  <2>2. LegacyOwners' = LegacyOwners
    BY <2>1 DEF LegacyOwners
  <2> QED
    BY <1>0, <1>p, <2>1, <2>2 DEF Stored
<1>3. CASE Discover
  <2>1. job # None /\ job \in Jobs /\ legacy' = legacy
    BY <1>3, JobType DEF Discover, Syncing
  <2>2. job'.previous = job.previous /\ job'.snapshot = job.snapshot
    BY <1>3, <2>1 DEF Discover, Jobs
  <2>3. LegacyOwners' = LegacyOwners
    BY <2>1 DEF LegacyOwners
  <2> QED
    BY <2>1, <2>2, <2>3 DEF Stored
<1>4. ASSUME NEW s \in Students, ReadStudent(s)
      PROVE  /\ Served /\ command' # None
             /\ Stored' \subseteq Stored \cup {command.jar}
  <2>1. /\ job # None /\ job \in Jobs /\ legacy' = legacy
        /\ Served /\ command' # None
    BY <1>4, JobType DEF ReadStudent, Syncing
  <2>2. PICK version \in Versions :
          job' = [job EXCEPT !.snapshot =
                    [x \in DOMAIN @ \cup {s} |->
                       IF x = s
                       THEN [version |-> version, of |-> command.jar,
                             current |-> ~job.explicit]
                       ELSE @[x]]]
    BY <1>4 DEF ReadStudent
  <2> DEFINE entry == [version |-> version, of |-> command.jar, current |-> ~job.explicit]
             snapshot == [x \in DOMAIN job.snapshot \cup {s} |->
                            IF x = s THEN entry ELSE job.snapshot[x]]
  <2>3. job' = [job EXCEPT !.snapshot = snapshot]
    BY <2>2
  <2>4. Owners(snapshot) \subseteq Owners(job.snapshot) \cup {command.jar}
    BY DEF Owners
  <2> HIDE DEF snapshot
  <2>5. job'.previous = job.previous /\ job'.snapshot = snapshot
    BY <2>1, <2>3 DEF Jobs
  <2>6. LegacyOwners' = LegacyOwners
    BY <2>1 DEF LegacyOwners
  <2> QED
    BY <2>1, <2>4, <2>5, <2>6 DEF Stored
<1>5. CASE WritePrevious
  <2>1. job # None /\ job \in Jobs
    BY <1>5, JobType DEF WritePrevious, Syncing
  <2>2. /\ legacy' = Previous
        /\ job' = None \/ (job'.previous = job.previous /\ job'.snapshot = job.snapshot)
    BY <1>5, <2>1 DEF WritePrevious, Jobs
  <2>3. LegacyOwners' \subseteq LegacyOwners
    BY <1>p, <2>2 DEF LegacyOwners, Owners
  <2> QED
    BY <2>1, <2>2, <2>3 DEF Stored
<1>6. CASE WriteLatest
  <2>1. job # None /\ job \in Jobs /\ legacy' = job.snapshot
    BY <1>6, JobType DEF WriteLatest, Syncing
  <2>2. job'.previous = job.previous /\ job'.snapshot = job.snapshot
    BY <1>6, <2>1 DEF WriteLatest, Jobs
  <2>3. LegacyOwners' \subseteq Owners(job.snapshot)
    BY <2>1 DEF LegacyOwners, Owners
  <2> QED
    BY <2>1, <2>2, <2>3 DEF Stored
<1>7. CASE WriteChanges
  <2>1. job # None /\ job \in Jobs /\ legacy' = legacy
    BY <1>7, JobType DEF WriteChanges, Syncing
  <2>2. job'.previous = job.previous /\ job'.snapshot = job.snapshot
    BY <1>7, <2>1 DEF WriteChanges, Jobs
  <2>3. LegacyOwners' = LegacyOwners
    BY <2>1 DEF LegacyOwners
  <2> QED
    BY <2>1, <2>2, <2>3 DEF Stored
<1>8. CASE AccountStep
  BY <1>8 DEF AccountStep, Stored, LegacyOwners
<1>9. CASE MoveAside
  BY <1>9 DEF MoveAside, Stored, LegacyOwners
<1> QED
  BY <1>1, <1>2, <1>3, <1>4, <1>5, <1>6, <1>7, <1>8, <1>9 DEF LegacyNext

\* A command with credentials begins without a binding only where there is no
\* directory of an older sync.
LEMMA StartsClean ==
  ASSUME Inv, LegacyType, JobInv, [LegacyNext]_allVars, binding = None,
         command = None, command' # None, command'.user # None
  PROVE  Stored' = {}
<1>0. Owners(NoStudents) = {}
  BY NoStudentsType DEF Owners
<1>1. job = None
  BY DEF JobInv
<1>2. CASE AccountStep
  <2>1. legacy = None /\ legacy' = legacy /\ job' = job
    BY <1>1, <1>2 DEF AccountStep, MayStart, Blocked
  <2> QED
    BY <1>1, <2>1 DEF Stored, LegacyOwners
<1>3. ASSUME NEW user \in Accounts \cup {None},
             NEW students \in ((SUBSET Students) \ {{}}) \cup {None},
             StartSync(user, students)
      PROVE  Stored' = {}
  <2>1. command'.user = user
    BY <1>3, Begins DEF StartSync
  <2>2. MustLogIn(user)
    BY <2>1 DEF MustLogIn
  <2>3. /\ legacy = None /\ legacy' = legacy
        /\ job'.previous = NoStudents /\ job'.snapshot = NoStudents
    BY <1>3, <2>2 DEF StartSync, Blocked, Previous
  <2> QED
    BY <1>0, <2>3 DEF Stored, LegacyOwners
<1>4. ~Discover /\ (\A s \in Students : ~ReadStudent(s))
  BY DEF Discover, ReadStudent, Served, Reads, At
<1>5. ~WritePrevious /\ ~WriteLatest /\ ~WriteChanges
  BY <1>1 DEF WritePrevious, WriteLatest, WriteChanges, Syncing
<1>6. ~MoveAside /\ ~UNCHANGED allVars
  BY DEF MoveAside, allVars, vars
<1> QED
  BY <1>2, <1>3, <1>4, <1>5, <1>6 DEF LegacyNext

LEMMA OwnInitial == LegacyInit => OwnInv
<1> SUFFICES ASSUME LegacyInit PROVE OwnInv
  OBVIOUS
<1>1. PICK a \in Accounts : session \in {None, Anonymous, a} /\ history \in {{}, {a}}
  BY DEF LegacyInit, Init
<1>2. Stored = {} /\ Traces \subseteq {a}
  BY <1>1, AccountsAssumption DEF LegacyInit, Init, Stored, LegacyOwners, Traces
<1> QED
  BY <1>2 DEF LegacyInit, Init, OwnInv

LEMMA OwnStep ==
  ASSUME Inv, JobInv, LegacyType, OwnInv, [LegacyNext]_allVars
  PROVE  OwnInv'
<1>1. [Next]_vars
  BY StepImplements
<1>2. CASE binding # None
  <2>1. binding' = binding
    BY <1>1, <1>2, Binding
  <2>2. Stored' \subseteq {binding}
    BY <1>2, NewOwners, PageOwner DEF OwnInv
  <2> QED
    BY <1>2, <2>1, <2>2 DEF OwnInv
<1>3. CASE binding = None /\ binding' # None
  <2>1. command # None /\ command.user # None /\ command.step = "binding"
    BY <1>1, <1>3, Binding
  <2>2. Stored = {} /\ ~Served
    BY <1>3, <2>1 DEF OwnInv, Served, Reads, At
  <2>3. Stored' = {}
    BY <2>2, NewOwners
  <2> QED
    BY <1>3, <2>3 DEF OwnInv
<1>4. CASE binding = None /\ binding' = None
  <2>1. PICK a \in Accounts : Stored \cup Traces \subseteq {a}
    BY <1>4 DEF OwnInv
  <2>2. Traces' \subseteq {a}
    BY <1>1, <1>4, <2>1, NoNewTraces
  <2>3. Stored' \subseteq {a}
    BY <1>4, <2>1, NewOwners, PageOwner
  <2>4. ASSUME command' # None, command'.user # None PROVE Stored' = {}
    <3>1. CASE command = None
      BY <1>4, <2>4, <3>1, StartsClean
    <3>2. CASE command # None
      <4>1. command.user # None
        BY <1>1, <2>4, <3>2, SameUser
      <4>2. Stored = {} /\ ~(Served /\ command' # None)
        BY <1>4, <3>2, <4>1, PageOwner DEF OwnInv
      <4> QED
        BY <4>2, NewOwners
    <3> QED
      BY <3>1, <3>2
  <2> QED
    BY <1>4, <2>2, <2>3, <2>4 DEF OwnInv
<1> QED
  BY <1>2, <1>3, <1>4

\* Snapshots and history are of one account, the bound one once there is a
\* binding, although a sync records no account (main.go:406-431,
\* store.go:110-115).
THEOREM LegacyOneAccount == LegacySpec => []LegacyOfOneAccount
<1>1. LegacySpec => LegacyInit /\ [][LegacyNext]_allVars
  BY PTL DEF LegacySpec, allVars
<1>2. LegacyInit => LegacyType /\ OwnInv
  BY TypeInitial, OwnInitial
<1>3. Inv /\ JobInv /\ LegacyType /\ OwnInv /\ [LegacyNext]_allVars => LegacyType' /\ OwnInv'
  BY TypeStep, OwnStep
<1>4. Inv /\ OwnInv => LegacyOfOneAccount
  <2> SUFFICES ASSUME Inv, OwnInv PROVE LegacyOfOneAccount
    OBVIOUS
  <2> DEFINE owners == LegacyOwners \cup history
  <2>1. binding # None => owners \subseteq {binding}
    BY DEF Inv, BoundInv, OwnInv, Stored
  <2>2. binding = None => \E a \in Accounts : owners \subseteq {a}
    BY DEF OwnInv, Stored, Traces
  <2> QED
    BY <2>1, <2>2 DEF LegacyOfOneAccount
<1> QED
  BY <1>1, <1>2, <1>3, <1>4, JobHolds, PTL

-----------------------------------------------------------------------------
(* What a reader of changes.json knows. *)

\* The reader knows of enrolment s what the snapshot says, or nothing if it is
\* not in it.
Knows(s, snapshot) ==
  told[s] = IF s \in DOMAIN snapshot THEN snapshot[s].version ELSE None

\* A sync compares with the snapshot on disk until it has replaced it.
ComparesInv ==
  job # None /\ job.step \in {"discovering", "reading", "latest"} =>
    job.previous = Previous

\* A --current sync is complete over what was current before.
CompleteInv ==
  job # None =>
    /\ job.step \in {"reading", "latest", "changes"} /\ ~job.explicit =>
         \A s \in DOMAIN job.previous : job.previous[s].current => s \in job.chosen
    /\ job.step \in {"latest", "changes"} => job.chosen = DOMAIN job.snapshot

\* The reader knows the snapshot on disk, or, between the two files, the one
\* before it, of which only what was cut is left out.
KnownInv ==
  /\ ~Syncing("changes") => \A s \in Students : s \in cut \/ Knows(s, Previous)
  /\ Syncing("changes") =>
       /\ legacy = job.snapshot
       /\ \A s \in Students \ cut :
            /\ Knows(s, job.previous)
            /\ s \in DOMAIN job.previous => s \in DOMAIN job.snapshot

ChangeInv == ComparesInv /\ CompleteInv /\ KnownInv

LEMMA ChangeInitial == LegacyInit => ChangeInv
BY NoStudentsType DEF LegacyInit, ChangeInv, ComparesInv, CompleteInv, KnownInv, Knows,
   Syncing, Previous

\* Steps that leave the files and the reader alone, and the sync where it is or
\* before its first write.
LEMMA QuietStep ==
  ASSUME KnownInv, Previous' = Previous, legacy' = legacy, told' = told, cut' = cut,
         ~Syncing("changes"), ~Syncing("changes")'
  PROVE  KnownInv'
BY DEF KnownInv, Knows

LEMMA ChangeStep ==
  ASSUME LegacyType, JobInv, ChangeInv, [LegacyNext]_allVars
  PROVE  ChangeInv'
<1> USE DEF ChangeInv
<1>1. CASE UNCHANGED allVars
  BY <1>1 DEF ComparesInv, CompleteInv, KnownInv, Knows, Syncing, Previous,
     vars, legacyVars, allVars
<1>2. ASSUME NEW user \in Accounts \cup {None},
             NEW students \in ((SUBSET Students) \ {{}}) \cup {None},
             StartSync(user, students)
      PROVE  ChangeInv'
  <2>1. job = None
    BY <1>2 DEF StartSync, StartReading, JobInv
  <2>2. /\ job'.step = IF students = None THEN "discovering" ELSE "reading"
        /\ job'.explicit = (students # None) /\ job'.previous = Previous
        /\ UNCHANGED <<older, legacy, told, cut>>
    BY <1>2 DEF StartSync
  <2>3. Previous' = Previous
    BY <2>2 DEF Previous
  <2>4. ComparesInv' /\ CompleteInv'
    BY <2>2, <2>3 DEF ComparesInv, CompleteInv
  <2>5. KnownInv'
    BY <2>1, <2>2, <2>3, QuietStep DEF Syncing
  <2> QED
    BY <2>4, <2>5
<1>3. CASE Discover
  <2>1. /\ job # None /\ job \in Jobs /\ job.step = "discovering"
        /\ UNCHANGED <<older, legacy, told, cut>>
    BY <1>3, JobType DEF Discover, Syncing
  <2>2. PICK discovered \in SUBSET Students :
          /\ Expected(discovered)
          /\ job' = [job EXCEPT !.chosen = discovered, !.step = "reading"]
    BY <1>3 DEF Discover
  <2>3. /\ job'.step = "reading" /\ job'.chosen = discovered
        /\ job'.previous = job.previous /\ job'.explicit = job.explicit
    BY <2>1, <2>2 DEF Jobs
  <2>4. Previous' = Previous
    BY <2>1 DEF Previous
  <2>5. ComparesInv' /\ CompleteInv'
    BY <2>1, <2>2, <2>3, <2>4 DEF ComparesInv, CompleteInv, Expected
  <2>6. KnownInv'
    BY <2>1, <2>3, <2>4, QuietStep DEF Syncing
  <2> QED
    BY <2>5, <2>6
<1>4. ASSUME NEW s \in Students, ReadStudent(s) PROVE ChangeInv'
  <2>1. /\ job # None /\ job \in Jobs /\ job.step = "reading"
        /\ UNCHANGED <<older, legacy, told, cut>>
    BY <1>4, JobType DEF ReadStudent, Syncing
  <2>2. /\ job'.step = "reading" /\ job'.chosen = job.chosen
        /\ job'.previous = job.previous /\ job'.explicit = job.explicit
    BY <1>4, <2>1 DEF ReadStudent, Jobs
  <2>3. Previous' = Previous
    BY <2>1 DEF Previous
  <2>4. ComparesInv' /\ CompleteInv'
    BY <2>1, <2>2, <2>3 DEF ComparesInv, CompleteInv
  <2>5. KnownInv'
    BY <2>1, <2>2, <2>3, QuietStep DEF Syncing
  <2> QED
    BY <2>4, <2>5
<1>5. CASE WritePrevious
  <2>1. /\ job # None /\ job \in Jobs /\ job.step = "reading"
        /\ job.chosen = DOMAIN job.snapshot
        /\ legacy' = Previous /\ told' = told /\ cut' = cut
    BY <1>5, JobType DEF WritePrevious, Syncing, ReadAll
  <2>2. Previous' = Previous
    BY <2>1 DEF Previous
  <2>3. \/ job' = None
        \/ /\ job'.step = "latest" /\ job'.chosen = job.chosen
           /\ job'.previous = job.previous /\ job'.explicit = job.explicit
           /\ job'.snapshot = job.snapshot
    BY <1>5, <2>1 DEF WritePrevious, Jobs
  <2>4. ComparesInv' /\ CompleteInv'
    BY <2>1, <2>2, <2>3 DEF ComparesInv, CompleteInv
  <2>5. ~Syncing("changes") /\ ~Syncing("changes")'
    BY <2>1, <2>3 DEF Syncing
  <2>6. KnownInv'
    BY <2>1, <2>2, <2>5 DEF KnownInv, Knows
  <2> QED
    BY <2>4, <2>6
<1>6. CASE WriteLatest
  <2>1. /\ job # None /\ job \in Jobs /\ job.step = "latest"
        /\ legacy' = job.snapshot /\ told' = told /\ cut' = cut \cup LeftOut
    BY <1>6, JobType DEF WriteLatest, Syncing
  <2>2. /\ job'.step = "changes" /\ job'.chosen = job.chosen
        /\ job'.previous = job.previous /\ job'.explicit = job.explicit
        /\ job'.snapshot = job.snapshot /\ job' \in Jobs
    BY <1>6, <2>1 DEF WriteLatest, Jobs
  <2>3. ComparesInv' /\ CompleteInv'
    BY <2>1, <2>2 DEF ComparesInv, CompleteInv
  <2>4. job.previous = Previous /\ job.chosen = DOMAIN job.snapshot
    BY <2>1 DEF ComparesInv, CompleteInv
  <2>5. ASSUME NEW s \in Students \ cut'
        PROVE  Knows(s, job.previous) /\ (s \in DOMAIN job.previous => s \in DOMAIN job.snapshot)
    <3>1. s \notin cut /\ s \notin LeftOut
      BY <2>1
    <3>2. Knows(s, job.previous)
      BY <2>1, <2>4, <3>1 DEF KnownInv, Syncing
    <3>3. s \in DOMAIN job.previous => s \in DOMAIN job.snapshot
      BY <2>1, <2>4, <3>1 DEF LeftOut, CompleteInv
    <3> QED
      BY <3>2, <3>3
  <2>6. KnownInv'
    <3>1. Syncing("changes")' /\ legacy' = job'.snapshot
      BY <2>1, <2>2, JobAssumption DEF Syncing
    <3>2. \A s \in Students \ cut' :
            Knows(s, job.previous)' /\ (s \in DOMAIN job'.previous => s \in DOMAIN job'.snapshot)
      BY <2>1, <2>2, <2>5 DEF Knows
    <3> QED
      BY <3>1, <3>2 DEF KnownInv
  <2> QED
    BY <2>3, <2>6
<1>7. CASE WriteChanges
  <2>1. /\ job # None /\ job \in Jobs /\ job.step = "changes" /\ Syncing("changes")
        /\ told' = [s \in Students |-> ToldBy(s)]
        /\ legacy' = legacy /\ cut' = cut
    BY <1>7, JobType DEF WriteChanges, Syncing
  <2>2. job' # None => job'.step = "recording"
    BY <1>7, <2>1 DEF WriteChanges, Jobs
  <2>3. ComparesInv' /\ CompleteInv'
    BY <2>2 DEF ComparesInv, CompleteInv
  <2>4. legacy = job.snapshot /\ legacy # None
    BY <2>1, JobAssumption DEF KnownInv, Jobs
  <2>5. Previous' = job.snapshot
    BY <2>1, <2>4 DEF Previous
  <2>6. ASSUME NEW s \in Students \ cut
        PROVE  ToldBy(s) = IF s \in DOMAIN job.snapshot THEN job.snapshot[s].version ELSE None
    BY <2>1 DEF KnownInv, Knows, ToldBy, DiffFor
  <2>7. KnownInv'
    <3>1. ~Syncing("changes")'
      BY <2>2 DEF Syncing
    <3>2. \A s \in Students : s \in cut' \/ Knows(s, Previous)'
      BY <2>1, <2>5, <2>6 DEF Knows
    <3> QED
      BY <3>1, <3>2 DEF KnownInv
  <2> QED
    BY <2>3, <2>7
<1>8. CASE AccountStep
  <2>1. /\ job' = IF command' = None THEN None ELSE job
        /\ legacy' = legacy /\ told' = told
        /\ cut' = IF Syncing("changes") /\ command' = None
                  THEN cut \cup DOMAIN job.snapshot ELSE cut
    BY <1>8 DEF AccountStep
  <2>2. Previous' = Previous
    BY <2>1 DEF Previous
  <2>3. ComparesInv' /\ CompleteInv'
    BY <2>1, <2>2 DEF ComparesInv, CompleteInv
  <2>4. CASE Syncing("changes") /\ command' = None
    <3>1. legacy = job.snapshot /\ legacy # None
      BY <2>4, JobType, JobAssumption DEF KnownInv, Syncing, Jobs
    <3>2. \A s \in Students : s \in cut' \/ Knows(s, Previous)'
      BY <2>1, <2>2, <2>4, <3>1 DEF KnownInv, Knows, Previous
    <3> QED
      BY <2>1, <2>3, <2>4, <3>2 DEF KnownInv, Syncing
  <2>5. CASE ~Syncing("changes")
    BY <2>1, <2>2, <2>3, <2>5, QuietStep DEF Syncing
  <2>6. CASE Syncing("changes") /\ command' # None
    BY <2>1, <2>3, <2>6 DEF KnownInv, Knows, Syncing
  <2> QED
    BY <2>3, <2>4, <2>5, <2>6
<1>9. CASE MoveAside
  <2>1. /\ job = None /\ job' = None /\ legacy' = None
        /\ told' = [s \in Students |-> None]
    BY <1>9 DEF MoveAside, JobInv
  <2> QED
    BY <2>1, NoStudentsType DEF ComparesInv, CompleteInv, KnownInv, Knows, Syncing, Previous
<1> QED
  BY <1>1, <1>2, <1>3, <1>4, <1>5, <1>6, <1>7, <1>8, <1>9 DEF LegacyNext

\* A reader of every changes.json knows what latest.json says of each
\* enrolment, but for what a died or narrower sync cut (main.go:684-754).
THEOREM ChangesReach == LegacySpec => []ChangesReachSnapshot
<1>1. LegacySpec => LegacyInit /\ [][LegacyNext]_allVars
  BY PTL DEF LegacySpec, allVars
<1>2. LegacyInit => LegacyType /\ ChangeInv
  BY TypeInitial, ChangeInitial
<1>3. LegacyType /\ JobInv /\ ChangeInv /\ [LegacyNext]_allVars => LegacyType' /\ ChangeInv'
  BY TypeStep, ChangeStep
<1>4. LegacyType /\ ChangeInv => ChangesReachSnapshot
  <2> SUFFICES ASSUME LegacyType, ChangeInv, legacy # None, ~Syncing("changes"),
                      NEW s \in DOMAIN legacy
               PROVE  s \in cut \/ told[s] = legacy[s].version
    BY DEF ChangesReachSnapshot
  <2>1. Previous = legacy /\ s \in Students
    BY SnapshotType DEF Previous, LegacyType
  <2> QED
    BY <2>1 DEF ChangeInv, KnownInv, Knows
<1> QED
  BY <1>1, <1>2, <1>3, <1>4, JobHolds, PTL
=============================================================================
