---------------------------- MODULE AccountBinding ----------------------------
(***************************************************************************)
(* Which portal account a profile's files belong to.  A profile keeps      *)
(* three files that are written one after the other and never together:    *)
(* account.json (the binding, cmd/ednevnik/main.go), session.json (the     *)
(* cookies, internal/client) and the check history (module CheckState).    *)
(*                                                                         *)
(* Commands hold the account lease (module RequestPolicy), so one runs at  *)
(* a time; but each may be killed, fail to write, or be refused by the     *)
(* portal between any two of its steps, and the next command, perhaps with *)
(* other credentials or none, starts from the files it left.  Versions     *)
(* before the binding left sessions and histories without one.             *)
(*                                                                         *)
(* The portal is external: it accepts or rejects credentials, and honours  *)
(* a session or no longer does.                                            *)
(***************************************************************************)
EXTENDS Integers, FiniteSets

CONSTANTS
  Accounts,   \* portal accounts, by username
  Anonymous,  \* cookies that are nobody's session
  None        \* no file, no credentials, no command

ASSUME AccountsAssumption ==
  None \notin Accounts /\ Anonymous \notin Accounts /\ None # Anonymous

VARIABLES
  binding,  \* account.json: the username, or None
  session,  \* session.json: whose session its cookies are, or None
  history,  \* the accounts whose data the committed check history holds
  command   \* the running command, or None

vars == <<binding, session, history, command>>
files == <<binding, session, history>>

Cookies == Accounts \cup {Anonymous}

\* The running command: what it was given, how far it is, its cookies, and
\* the accounts whose data it has read.
Commands ==
  [kind : {"login", "check", "show"}, user : Accounts \cup {None},
   step : {"reading", "login", "posting", "binding", "saving"},
   mustLogIn : BOOLEAN, tried : BOOLEAN, posts : Nat,
   jar : Cookies, read : SUBSET Accounts]

ASSUME CommandAssumption == None \notin Commands

Ends == command' = None

-----------------------------------------------------------------------------
(* validateCredentialAccount. *)

\* Mutant of Acceptable: any credentials fit a bound profile.
AcceptableIfUnbound(user) == binding = None => history = {}

\* Mutant of Acceptable: the history is not looked at.
AcceptableByBinding(user) == binding # None => binding = user

\* Credentials fit the binding; without one they fit an empty history only.
Acceptable(user) ==
  IF binding # None THEN binding = user ELSE history = {}

\* Mutant of MustLogIn: an existing session will do.
MustNotLogIn(user) == FALSE

\* run: credentials that are not bound yet must prove themselves first.
MustLogIn(user) == user # None /\ binding = None

-----------------------------------------------------------------------------
(* The commands' beginnings. *)

\* Mutant of Loaded: a missing file is not expected.
LoadedAsIs == session

\* loadJar: without a file the jar is empty.
Loaded == IF session = None THEN Anonymous ELSE session

\* login starts with no cookies.
StartLogin(user) ==
  /\ command = None
  /\ Acceptable(user)
  /\ command' = [kind |-> "login", user |-> user, step |-> "login",
                 mustLogIn |-> FALSE, tried |-> FALSE, posts |-> 0,
                 jar |-> Anonymous, read |-> {}]
  /\ UNCHANGED files

\* A command that reads from the portal: with a credential provider, or with
\* the session only.
StartReading(kind, user) ==
  /\ command = None
  /\ user # None => Acceptable(user)
  /\ command' = [kind |-> kind, user |-> user, step |-> "reading",
                 mustLogIn |-> MustLogIn(user), tried |-> FALSE, posts |-> 0,
                 jar |-> Loaded, read |-> {}]
  /\ UNCHANGED files

\* session-reset removes the cookies only.
ResetSession ==
  /\ command = None
  /\ session' = None
  /\ UNCHANGED <<binding, history, command>>

-----------------------------------------------------------------------------
(* app.get and Client.Get: the cookies are saved after every read, whether  *)
(* or not it succeeded; if that fails the command fails.                    *)

At(step) == command # None /\ command.step = step

Reads == At("reading") /\ ~command.mustLogIn

\* The command must prove its credentials before its first read.
LogInFirst ==
  /\ At("reading")
  /\ command.mustLogIn
  /\ command' = [command EXCEPT !.step = "login", !.tried = TRUE]
  /\ UNCHANGED files

\* The portal honours the session.
Served ==
  /\ Reads
  /\ command.jar \in Accounts
  /\ \/ /\ session' = command.jar
        /\ command' = [command EXCEPT !.read = @ \cup {command.jar}]
     \/ /\ UNCHANGED session
        /\ Ends
  /\ UNCHANGED <<binding, history>>

\* Mutant of MayLogIn: without the memory of an earlier attempt.
MayLogInAgain == command.user # None

MayLogIn == command.user # None /\ ~command.tried

\* The portal sends the client to its login page, and may replace the cookies.
SessionExpired ==
  /\ Reads
  /\ \E jar \in {command.jar, Anonymous} :
       \/ /\ session' = jar
          /\ MayLogIn
          /\ command' = [command EXCEPT !.jar = jar, !.step = "login", !.tried = TRUE]
       \/ /\ session' = jar
          /\ ~MayLogIn
          /\ Ends
       \/ /\ UNCHANGED session
          /\ Ends
  /\ UNCHANGED <<binding, history>>

\* Any other failure to read; the cookies are saved all the same.
ReadFails ==
  /\ Reads
  /\ session' \in {session, command.jar, Anonymous}
  /\ Ends
  /\ UNCHANGED <<binding, history>>

-----------------------------------------------------------------------------
(* loginAndBind and LoginWithCommit. *)

\* Mutant of DropStale: the session stays.
KeepStale == At("login") /\ UNCHANGED session

\* Without a binding nothing tells whose session the file holds: remove it.
DropStale ==
  /\ At("login")
  /\ session' = IF binding = None THEN None ELSE session

\* The credentials fit, a stale session is removed, and a fresh jar is made.
BeginLogin ==
  /\ DropStale
  /\ Acceptable(command.user)
  /\ command' = [command EXCEPT !.step = "posting", !.jar = Anonymous]
  /\ UNCHANGED <<binding, history>>

\* GET /login and POST /login; the portal accepts the credentials.
Post ==
  /\ At("posting")
  /\ command' = [command EXCEPT !.step = "binding", !.posts = @ + 1,
                                !.jar = command.user]
  /\ UNCHANGED files

\* Mutant of Bind: the login does not commit.
BindNothing ==
  /\ At("binding")
  /\ command' = [command EXCEPT !.step = "saving"]
  /\ UNCHANGED files

\* The verified account is bound before its cookies are saved.
Bind ==
  /\ At("binding")
  /\ binding' = command.user
  /\ command' = [command EXCEPT !.step = "saving"]
  /\ UNCHANGED <<session, history>>

\* The cookies of the new session are saved; login is done, other commands
\* go on to read.
SaveSession ==
  /\ At("saving")
  /\ session' = command.jar
  /\ command' = IF command.kind = "login" THEN None
                ELSE [command EXCEPT !.step = "reading", !.mustLogIn = FALSE]
  /\ UNCHANGED <<binding, history>>

-----------------------------------------------------------------------------
(* The commands' ends. *)

\* A check that has read everything commits it.
CommitCheck ==
  /\ Reads
  /\ command.kind = "check"
  /\ command.read # {}
  /\ history' = history \cup command.read
  /\ Ends
  /\ UNCHANGED <<binding, session>>

Finish ==
  /\ Reads
  /\ Ends
  /\ UNCHANGED files

\* The command is killed, its file write fails, or during a login the portal
\* rejects the credentials or does not answer.
Fail ==
  /\ command # None
  /\ Ends
  /\ UNCHANGED files

-----------------------------------------------------------------------------

\* A new profile, or one that an earlier version used for one account.
Init ==
  /\ binding = None
  /\ \E a \in Accounts :
       /\ session \in {None, Anonymous, a}
       /\ history \in {{}, {a}}
  /\ command = None

Next ==
  \/ \E user \in Accounts : StartLogin(user)
  \/ \E kind \in {"check", "show"}, user \in Accounts \cup {None} :
       StartReading(kind, user)
  \/ ResetSession
  \/ LogInFirst
  \/ Served
  \/ SessionExpired
  \/ ReadFails
  \/ BeginLogin
  \/ Post
  \/ Bind
  \/ SaveSession
  \/ CommitCheck
  \/ Finish
  \/ Fail

Spec == Init /\ [][Next]_vars

-----------------------------------------------------------------------------
(* Properties. *)

\* Every variable has its type.
TypeOK ==
  /\ binding \in Accounts \cup {None}
  /\ session \in Cookies \cup {None}
  /\ history \subseteq Accounts
  /\ command \in Commands \cup {None}

\* The committed history never mixes two accounts, and it is the bound
\* account's once there is a binding, whatever credentials the commands are
\* given and wherever they are killed (main.go:406-431).
HistoryOfOneAccount ==
  /\ \A a, b \in history : a = b
  /\ binding # None => history \subseteq {binding}

\* A bound profile never holds another account's session: a session that was
\* there before the binding cannot be used after it, even if the login is
\* interrupted between its two writes (main.go:445-453, and the test
\* TestFreshBindingSaveFailureCannotReuseObsoleteSession).
SessionOfBoundAccount ==
  binding # None => session \in {None, Anonymous, binding}

\* A command that was given credentials never reads another account's data,
\* whatever session it found (main.go:260-262, 365-380).
ReadsOwnAccount ==
  command # None /\ command.user # None => command.read \subseteq {command.user}

\* A command submits its credentials at most once, so that an expired or
\* refused session cannot lock the account on the portal
\* (main.go:365-403, and the test TestRecoveryDoesNotTryCredentialsTwice).
CredentialsSubmittedOnce ==
  command # None => command.posts <= 1

\* No step leaves a session of an account that it did not find and that is
\* not bound: the binding is durable first (client.go:111-169).
NewSessionIsBound ==
  [][session' \in Accounts /\ session' # session => binding = session']_vars

\* A profile never changes its account (main.go:412-417).
BindingIsFinal ==
  [][binding # None => binding' = binding]_binding
=============================================================================
