------------------------------ MODULE LegacySync ------------------------------
(***************************************************************************)
(* The older snapshot interface beside the rest of a profile: sync without *)
(* --profile and changes (cmd/ednevnik/main.go), composed with the         *)
(* commands of AccountBinding.                                             *)
(*                                                                         *)
(* A sync is a command that reads some enrolments and then replaces        *)
(* previous.json, latest.json and changes.json one after the other.  It is *)
(* killed, or fails, like any other command.  While its directory exists,  *)
(* or files of versions that had no profiles, the check history counts as  *)
(* invalid: checks, and credentials without a binding, are refused until   *)
(* the user moves the files aside.                                         *)
(*                                                                         *)
(* What one enrolment's pages show is abstracted to a version; how two of  *)
(* them are compared is in module Reconcile.  The streams of --consumer    *)
(* are copies of the one modelled here.                                    *)
(***************************************************************************)
EXTENDS AccountBinding

CONSTANTS
  Students,  \* enrolments
  Versions   \* what the pages of one enrolment may show

ASSUME VersionsAssumption == None \notin Versions

VARIABLES
  older,   \* files of versions without profiles are there
  legacy,  \* latest.json of the schema-v2 directory; None without directory
  job,     \* the running command's sync, or None
  told,    \* history: versions a reader of every changes.json knows
  cut      \* history: enrolments whose changes a sync did not write, because
           \* it died or was not asked for them

legacyVars == <<older, legacy, job, told, cut>>

\* A snapshot maps enrolments to their version, whose page it was, and whether
\* a --current sync found them current.
Entries == [version : Versions, of : Accounts, current : BOOLEAN]
PartialSnapshots == UNION {[students -> Entries] : students \in SUBSET Students}
NoStudents == [s \in {} |-> None]

\* A sync: what it was asked for, what it compares with and what it has read.
Jobs ==
  [step : {"discovering", "reading", "latest", "changes", "recording"},
   chosen : (SUBSET Students) \cup {None}, explicit : BOOLEAN,
   previous : PartialSnapshots, snapshot : PartialSnapshots]

ASSUME JobAssumption == None \notin Jobs /\ None \notin PartialSnapshots

\* legacyStateExists.
Blocked == older \/ legacy # None

-----------------------------------------------------------------------------
(* Reading. *)

\* The snapshot to compare with; an error in reading it is ignored.
Previous == IF legacy = None THEN NoStudents ELSE legacy

\* sync: consumerDir refuses while older files are there; the snapshot to
\* compare with is loaded before anything is read.  With --current the
\* students are not known yet.
StartSync(user, students) ==
  /\ StartReading("show", user)
  /\ ~older
  /\ MustLogIn(user) => ~Blocked
  /\ job' = [step     |-> IF students = None THEN "discovering" ELSE "reading",
             chosen   |-> students,
             explicit |-> students # None,
             previous |-> Previous,
             snapshot |-> NoStudents]
  /\ UNCHANGED <<older, legacy, told, cut>>

Syncing(step) == job # None /\ job.step = step

\* Mutant of Expected: whatever the portal calls current will do.
AnyEnrolment(discovered) == discovered # {}

\* Of the enrolments that were current before, none may be missing.
Expected(discovered) ==
  /\ discovered # {}
  /\ \A s \in DOMAIN job.previous : job.previous[s].current => s \in discovered

\* The family page lists the current enrolments, which may be any.  Without
\* the expected ones the command ends with an error, as it may after any page.
Discover ==
  /\ Syncing("discovering")
  /\ Served
  /\ command' # None
  /\ \E discovered \in SUBSET Students :
       /\ Expected(discovered)
       /\ job' = [job EXCEPT !.chosen = discovered, !.step = "reading"]
  /\ UNCHANGED <<older, legacy, told, cut>>

\* Overview, absences and first timeline page of one enrolment.
ReadStudent(s) ==
  /\ Syncing("reading")
  /\ s \in job.chosen \ DOMAIN job.snapshot
  /\ Served
  /\ command' # None
  /\ \E version \in Versions :
       job' = [job EXCEPT !.snapshot =
                 [x \in DOMAIN @ \cup {s} |->
                    IF x = s
                    THEN [version |-> version, of |-> command.jar,
                          current |-> ~job.explicit]
                    ELSE @[x]]]
  /\ UNCHANGED <<older, legacy, told, cut>>

-----------------------------------------------------------------------------
(* Writing: three files, each replaced by a rename. *)

ReadAll == job.chosen = DOMAIN job.snapshot

\* SaveSnapshot makes the directory first, and may fail then.  Nothing reads
\* previous.json.
WritePrevious ==
  /\ Syncing("reading")
  /\ ReadAll
  /\ legacy' = Previous
  /\ \/ /\ job' = [job EXCEPT !.step = "latest"]
        /\ UNCHANGED command
     \/ /\ job' = None
        /\ Ends
  /\ UNCHANGED <<files, older, told, cut>>

\* Enrolments of the last snapshot that this sync was not asked for.
LeftOut ==
  {s \in DOMAIN job.previous \ DOMAIN job.snapshot :
     job.explicit \/ ~job.previous[s].current}

WriteLatest ==
  /\ Syncing("latest")
  /\ legacy' = job.snapshot
  /\ job' = [job EXCEPT !.step = "changes"]
  /\ cut' = cut \cup LeftOut
  /\ UNCHANGED <<vars, older, told>>

\* Diff: the versions of an enrolment in both snapshots, before and after.
DiffFor(s) == <<job.previous[s].version, job.snapshot[s].version>>

\* A reader follows a change if it starts where the last one ended; an
\* enrolment that was in no snapshot before starts where it is.
ToldBy(s) ==
  IF s \notin DOMAIN job.snapshot THEN told[s]
  ELSE IF s \in DOMAIN job.previous
  THEN IF told[s] = DiffFor(s)[1] THEN DiffFor(s)[2] ELSE told[s]
  ELSE IF told[s] = None THEN job.snapshot[s].version ELSE told[s]

\* changes.json; what follows, the line in checks.jsonl and the output, may
\* fail without a trace.
WriteChanges ==
  /\ Syncing("changes")
  /\ told' = [s \in Students |-> ToldBy(s)]
  /\ job' = [job EXCEPT !.step = "recording"]
  /\ UNCHANGED <<vars, older, legacy, cut>>

-----------------------------------------------------------------------------
(* Everything else. *)

\* Mutant of MayStart: a history that cannot be loaded counts as empty.
MayStartAnyway == TRUE

\* Who needs the check history is refused while it counts as invalid: a check,
\* and credentials without a binding.
MayStart ==
  command = None /\ command' # None =>
    /\ command'.kind = "check" => ~Blocked
    /\ command'.user # None /\ binding = None => ~Blocked

\* Steps of a command as in AccountBinding; a sync ends with its command.
AccountStep ==
  /\ Next
  /\ MayStart
  /\ job' = IF command' = None THEN None ELSE job
  /\ cut' = IF Syncing("changes") /\ command' = None
            THEN cut \cup DOMAIN job.snapshot ELSE cut
  /\ UNCHANGED <<older, legacy, told>>

\* The user archives the files and starts again.
MoveAside ==
  /\ command = None
  /\ Blocked
  /\ older' = FALSE
  /\ legacy' = None
  /\ told' = [s \in Students |-> None]
  /\ cut' = {}
  /\ UNCHANGED <<vars, job>>

LegacyInit ==
  /\ Init
  /\ older \in BOOLEAN
  /\ legacy = None
  /\ job = None
  /\ told = [s \in Students |-> None]
  /\ cut = {}

LegacyNext ==
  \/ \E user \in Accounts \cup {None}, students \in ((SUBSET Students) \ {{}}) \cup {None} :
       StartSync(user, students)
  \/ Discover
  \/ \E s \in Students : ReadStudent(s)
  \/ WritePrevious
  \/ WriteLatest
  \/ WriteChanges
  \/ AccountStep
  \/ MoveAside

LegacySpec == LegacyInit /\ [][LegacyNext]_<<vars, legacyVars>>

-----------------------------------------------------------------------------
(* Properties. *)

\* Every variable has its type, those of AccountBinding included.
LegacyTypeOK ==
  /\ TypeOK
  /\ older \in BOOLEAN
  /\ legacy \in PartialSnapshots \cup {None}
  /\ job \in Jobs \cup {None}
  /\ told \in [Students -> Versions \cup {None}]
  /\ cut \subseteq Students

LegacyOwners == IF legacy = None THEN {} ELSE {legacy[s].of : s \in DOMAIN legacy}

\* The snapshots and the check history are together of one account, the bound
\* one once there is a binding: although sync keeps no record of whose data it
\* stores, another account cannot log in beside it (main.go:406-431,
\* store.go:110-115).
LegacyOfOneAccount ==
  LET owners == LegacyOwners \cup history
  IN  /\ \A a, b \in owners : a = b
      /\ binding # None => owners \subseteq {binding}

\* A reader who looks at changes.json after every sync knows the version of
\* each enrolment in latest.json, unless a sync died between the two files or
\* was asked for other enrolments; a --current sync never leaves out what one
\* before it recorded (main.go:684-686, 703-715, 745-754).
ChangesReachSnapshot ==
  legacy # None /\ ~Syncing("changes") =>
    \A s \in DOMAIN legacy : s \in cut \/ told[s] = legacy[s].version
=============================================================================
