------------------------- MODULE AccountBindingProofs -------------------------
(***************************************************************************)
(* Proofs about AccountBinding, for any set of accounts.                   *)
(*                                                                         *)
(* The invariant says what each file may hold before there is a binding    *)
(* (UnboundInv: at most what one earlier account left, and nothing that a  *)
(* command with credentials has read) and after (BoundInv: the bound       *)
(* account's only), at every step of the running command (StepInv).        *)
(***************************************************************************)
EXTENDS AccountBinding, TLAPS

\* Before the binding: what an earlier version left is one account's, only
\* commands without credentials read it, and a login drops the session first.
UnboundInv ==
  binding = None =>
    /\ \E a \in Accounts :
         /\ session \in {None, Anonymous, a}
         /\ history \subseteq {a}
         /\ command # None /\ command.user = None =>
              /\ command.jar \in {Anonymous, a}
              /\ command.jar # Anonymous => session = command.jar
              /\ command.read \subseteq {a}
    /\ command # None /\ command.user # None =>
         /\ history = {}
         /\ command.read = {}
         /\ command.step = "reading" => command.mustLogIn
         /\ command.step \in {"posting", "binding"} => session = None
         /\ command.step # "saving"

\* After it everything is the bound account's.
BoundInv ==
  binding # None =>
    /\ session \in {None, Anonymous, binding}
    /\ history \subseteq {binding}
    /\ command # None =>
         /\ command.user \in {None, binding}
         /\ command.jar \in {Anonymous, binding}
         /\ command.read \subseteq {binding}

\* How far the command is, and whether it has submitted its credentials.
StepInv ==
  command # None =>
    /\ command.user = None => command.step = "reading" /\ ~command.mustLogIn
    /\ command.step = "reading" =>
         /\ command.posts \in {0, 1}
         /\ ~command.tried => command.posts = 0
         /\ command.mustLogIn => ~command.tried
    /\ command.step # "reading" /\ command.kind # "login" => command.tried
    /\ command.step \in {"login", "posting"} => command.posts = 0
    /\ command.step \in {"binding", "saving"} =>
         command.posts = 1 /\ command.jar = command.user

Inv == TypeOK /\ UnboundInv /\ BoundInv /\ StepInv

-----------------------------------------------------------------------------

LEMMA Initial == Init => Inv
BY AccountsAssumption DEF Init, Inv, TypeOK, UnboundInv, BoundInv, StepInv, Cookies

\* A step that ends the command and changes at most the session, to cookies
\* that the command could hold.
LEMMA EndStep ==
  ASSUME Inv, command # None, Ends, UNCHANGED <<binding, history>>,
         session' \in {session, Anonymous, command.jar},
         session' # session => command.step = "reading" /\ ~command.mustLogIn
  PROVE  Inv'
<1> USE AccountsAssumption
<1>1. command \in Commands /\ command' = None
  BY DEF Inv, TypeOK, Ends
<1>2. TypeOK'
  BY <1>1 DEF Inv, TypeOK, Commands, Cookies
<1>3. UnboundInv'
  BY <1>1 DEF Inv, UnboundInv, TypeOK
<1>4. BoundInv'
  BY <1>1 DEF Inv, BoundInv, TypeOK
<1>5. StepInv'
  BY <1>1 DEF StepInv
<1> QED
  BY <1>2, <1>3, <1>4, <1>5 DEF Inv

\* A step that neither begins nor ends a command keeps the command's type.
LEMMA CommandType == command # None /\ Inv => command \in Commands
BY DEF Inv, TypeOK

\* Two steps of a command change several of its fields at once.
LEMMA ToLogin ==
  ASSUME NEW c \in Commands, NEW jar \in Cookies
  PROVE  [c EXCEPT !.jar = jar, !.step = "login", !.tried = TRUE] \in Commands
BY DEF Commands

LEMMA ToReading ==
  ASSUME NEW c \in Commands
  PROVE  [c EXCEPT !.step = "reading", !.mustLogIn = FALSE] \in Commands
BY DEF Commands

LEMMA StartKeepsInv ==
  ASSUME Inv,
         \/ \E user \in Accounts : StartLogin(user)
         \/ \E kind \in {"check", "show"}, user \in Accounts \cup {None} :
              StartReading(kind, user)
         \/ ResetSession
  PROVE  Inv'
<1> USE AccountsAssumption, CommandAssumption
<1>1. ASSUME NEW user \in Accounts, StartLogin(user) PROVE Inv'
  <2> DEFINE c == [kind |-> "login", user |-> user, step |-> "login",
                   mustLogIn |-> FALSE, tried |-> FALSE, posts |-> 0,
                   jar |-> Anonymous, read |-> {}]
  <2>0. c \in Commands
    BY DEF Commands, Cookies
  <2>1. command' \in Commands /\ command' # None
    BY <1>1, <2>0 DEF StartLogin
  <2>2. TypeOK'
    BY <1>1, <2>1 DEF Inv, TypeOK, StartLogin, files
  <2>3. UnboundInv' /\ BoundInv' /\ StepInv'
    BY <1>1, <2>1 DEF Inv, UnboundInv, BoundInv, StepInv, StartLogin, Acceptable, files
  <2> QED
    BY <2>2, <2>3 DEF Inv
<1>2. ASSUME NEW kind \in {"check", "show"}, NEW user \in Accounts \cup {None},
             StartReading(kind, user)
      PROVE  Inv'
  <2> DEFINE c == [kind |-> kind, user |-> user, step |-> "reading",
                   mustLogIn |-> MustLogIn(user), tried |-> FALSE, posts |-> 0,
                   jar |-> Loaded, read |-> {}]
  <2>0. Loaded \in Cookies /\ MustLogIn(user) \in BOOLEAN
    BY DEF MustLogIn, Loaded, Cookies, Inv, TypeOK
  <2>a. c \in Commands
    BY <2>0 DEF Commands
  <2>b. command' = c
    BY <1>2 DEF StartReading
  <2>1. command' \in Commands /\ command' # None
    BY <2>a, <2>b
  <2>2. TypeOK'
    BY <1>2, <2>1 DEF Inv, TypeOK, StartReading, files
  <2>3. UnboundInv'
    BY <1>2, <2>1 DEF Inv, UnboundInv, StartReading, Acceptable, MustLogIn, Loaded, files
  <2>4. BoundInv'
    BY <1>2, <2>1 DEF Inv, BoundInv, StartReading, Acceptable, Loaded, files
  <2>5. StepInv'
    BY <2>b, Zenon DEF StepInv, MustLogIn
  <2> QED
    BY <2>2, <2>3, <2>4, <2>5 DEF Inv
<1>3. CASE ResetSession
  BY <1>3 DEF Inv, TypeOK, UnboundInv, BoundInv, StepInv, ResetSession
<1> QED
  BY <1>1, <1>2, <1>3

LEMMA ReadingKeepsInv ==
  ASSUME Inv, LogInFirst \/ Served \/ SessionExpired \/ ReadFails
  PROVE  Inv'
<1> USE AccountsAssumption, CommandAssumption
<1>1. command # None /\ command \in Commands /\ command.step = "reading"
  BY CommandType DEF LogInFirst, Served, SessionExpired, ReadFails, Reads, At
<1>2. CASE LogInFirst
  <2>1. command' \in Commands /\ command' # None
    BY <1>1, <1>2 DEF LogInFirst, Commands
  <2>2. TypeOK'
    BY <1>2, <2>1 DEF Inv, TypeOK, LogInFirst, files
  <2>3. UnboundInv' /\ BoundInv' /\ StepInv'
    BY <1>1, <1>2, <2>1
    DEF Inv, UnboundInv, BoundInv, StepInv, LogInFirst, files, Commands
  <2> QED
    BY <2>2, <2>3 DEF Inv
<1>3. CASE Served
  <2>1. CASE Ends
    BY <1>1, <1>3, <2>1, EndStep DEF Served, Reads
  <2>2. CASE ~Ends
    <3>1. /\ command.jar \in Accounts /\ ~command.mustLogIn
          /\ session' = command.jar
          /\ command' = [command EXCEPT !.read = @ \cup {command.jar}]
          /\ UNCHANGED <<binding, history>>
      BY <1>3, <2>2 DEF Served, Reads
    <3>2. command' \in Commands /\ command' # None
      BY <1>1, <3>1 DEF Commands
    <3>3. TypeOK'
      BY <3>1, <3>2 DEF Inv, TypeOK, Cookies
    <3>4. UnboundInv'
      BY <1>1, <3>1, <3>2 DEF Inv, UnboundInv, Commands
    <3>5. BoundInv'
      BY <1>1, <3>1, <3>2 DEF Inv, BoundInv, Commands
    <3>6. StepInv'
      BY <1>1, <3>1, <3>2 DEF Inv, StepInv, Commands
    <3> QED
      BY <3>3, <3>4, <3>5, <3>6 DEF Inv
  <2> QED
    BY <2>1, <2>2
<1>4. CASE SessionExpired
  <2>1. CASE Ends
    BY <1>1, <1>4, <2>1, EndStep DEF SessionExpired, Reads
  <2>2. CASE ~Ends
    <3> PICK jar \in {command.jar, Anonymous} :
          /\ session' = jar
          /\ command.user # None /\ ~command.tried
          /\ command' = [command EXCEPT !.jar = jar, !.step = "login", !.tried = TRUE]
      BY <1>4, <2>2 DEF SessionExpired, MayLogIn
    <3>1. ~command.mustLogIn /\ UNCHANGED <<binding, history>>
      BY <1>4 DEF SessionExpired, Reads
    <3>2. command' \in Commands /\ command' # None
      <4>1. command \in Commands /\ jar \in Cookies
        BY <1>1 DEF Commands, Cookies
      <4> QED
        BY <4>1, ToLogin
    <3>3. TypeOK'
      BY <1>1, <3>1, <3>2 DEF Inv, TypeOK, Commands, Cookies
    <3>4. binding # None
      BY <1>1, <3>1 DEF Inv, UnboundInv
    <3>5. UnboundInv' /\ BoundInv'
      BY <1>1, <3>1, <3>2, <3>4 DEF Inv, UnboundInv, BoundInv, Commands
    <3>6. StepInv'
      BY <1>1, <3>1, <3>2 DEF Inv, StepInv, Commands
    <3> QED
      BY <3>3, <3>5, <3>6 DEF Inv
  <2> QED
    BY <2>1, <2>2
<1>5. CASE ReadFails
  BY <1>1, <1>5, EndStep DEF ReadFails, Reads
<1> QED
  BY <1>2, <1>3, <1>4, <1>5

LEMMA LoginKeepsInv ==
  ASSUME Inv, BeginLogin \/ Post \/ Bind \/ SaveSession
  PROVE  Inv'
<1> USE AccountsAssumption, CommandAssumption
<1>1. command # None /\ command \in Commands
  BY CommandType DEF BeginLogin, DropStale, Post, Bind, SaveSession, At
<1>2. CASE BeginLogin
  <2>1. /\ command.step = "login"
        /\ session' = IF binding = None THEN None ELSE session
        /\ Acceptable(command.user)
        /\ command' = [command EXCEPT !.step = "posting", !.jar = Anonymous]
        /\ UNCHANGED <<binding, history>>
    BY <1>2 DEF BeginLogin, DropStale, At
  <2>2. command' \in Commands /\ command' # None
    BY <1>1, <2>1 DEF Commands, Cookies
  <2>3. TypeOK'
    BY <2>1, <2>2 DEF Inv, TypeOK
  <2>4. UnboundInv'
    BY <1>1, <2>1, <2>2 DEF Inv, UnboundInv, StepInv, Commands
  <2>5. BoundInv' /\ StepInv'
    BY <1>1, <2>1, <2>2 DEF Inv, BoundInv, StepInv, Commands
  <2> QED
    BY <2>3, <2>4, <2>5 DEF Inv
<1>3. CASE Post
  <2>1. /\ command.step = "posting"
        /\ command' = [command EXCEPT !.step = "binding", !.posts = command.posts + 1,
                                      !.jar = command.user]
        /\ UNCHANGED files
    BY <1>3 DEF Post, At
  <2>2. command.posts = 0 /\ command.user \in Accounts
    BY <1>1, <2>1 DEF Inv, StepInv, Commands
  <2>3. command' = [command EXCEPT !.step = "binding", !.posts = 1, !.jar = command.user]
    BY <2>1, <2>2
  <2>4. command' \in Commands /\ command' # None
    <3>1. [command EXCEPT !.step = "binding", !.posts = 1, !.jar = command.user] \in Commands
      BY <1>1, <2>2 DEF Commands, Cookies
    <3> QED
      BY <2>3, <3>1
  <2>5. TypeOK'
    BY <2>1, <2>4 DEF Inv, TypeOK, files
  <2>6. UnboundInv'
    BY <1>1, <2>1, <2>2, <2>3, <2>4 DEF Inv, UnboundInv, Commands, files
  <2>7. BoundInv' /\ StepInv'
    BY <1>1, <2>1, <2>2, <2>3, <2>4 DEF Inv, BoundInv, StepInv, Commands, files
  <2> QED
    BY <2>5, <2>6, <2>7 DEF Inv
<1>4. CASE Bind
  <2>1. /\ command.step = "binding"
        /\ binding' = command.user
        /\ command' = [command EXCEPT !.step = "saving"]
        /\ UNCHANGED <<session, history>>
    BY <1>4 DEF Bind, At
  <2>2. command.user \in Accounts /\ command.jar = command.user /\ command.posts = 1
    BY <1>1, <2>1 DEF Inv, StepInv, Commands
  <2>3. command' \in Commands /\ command' # None
    BY <1>1, <2>1 DEF Commands
  <2>4. TypeOK' /\ UnboundInv'
    BY <2>1, <2>2, <2>3 DEF Inv, TypeOK, UnboundInv
  <2>5. BoundInv'
    BY <1>1, <2>1, <2>2, <2>3 DEF Inv, BoundInv, UnboundInv, Commands
  <2>6. StepInv'
    BY <1>1, <2>1, <2>2, <2>3 DEF Inv, StepInv, Commands
  <2> QED
    BY <2>4, <2>5, <2>6 DEF Inv
<1>5. CASE SaveSession
  <2>1. /\ command.step = "saving"
        /\ session' = command.jar
        /\ UNCHANGED <<binding, history>>
    BY <1>5 DEF SaveSession, At
  <2>2. command.posts = 1 /\ command.user \in Accounts /\ binding = command.user
        /\ command.jar = binding
    BY <1>1, <2>1 DEF Inv, StepInv, BoundInv, UnboundInv, Commands
  <2>3. command' = None \/ command' = [command EXCEPT !.step = "reading", !.mustLogIn = FALSE]
    BY <1>5 DEF SaveSession
  <2>4. command' \in Commands \cup {None}
    BY <1>1, <2>3, ToReading
  <2>5. TypeOK' /\ UnboundInv'
    BY <2>1, <2>2, <2>4 DEF Inv, TypeOK, UnboundInv, Cookies
  <2>6. BoundInv'
    BY <1>1, <2>1, <2>2, <2>3, <2>4 DEF Inv, BoundInv, Commands
  <2>7. StepInv'
    <3>1. CASE command' = None
      BY <3>1 DEF StepInv
    <3>2. CASE /\ command' = [command EXCEPT !.step = "reading", !.mustLogIn = FALSE]
               /\ command.kind # "login"
      <4>0. command.tried
        BY <1>1, <2>1, <3>2 DEF Inv, StepInv
      <4>1. /\ command'.step = "reading" /\ ~command'.mustLogIn
            /\ command'.posts = 1 /\ command'.user # None /\ command'.tried
        BY <1>1, <2>2, <3>2, <4>0 DEF Commands
      <4> QED
        BY <4>1 DEF StepInv
    <3> QED
      BY <1>5, <3>1, <3>2 DEF SaveSession
  <2> QED
    BY <2>5, <2>6, <2>7 DEF Inv
<1> QED
  BY <1>2, <1>3, <1>4, <1>5

LEMMA EndKeepsInv ==
  ASSUME Inv, CommitCheck \/ Finish \/ Fail
  PROVE  Inv'
<1> USE AccountsAssumption
<1>1. CASE CommitCheck
  <2>1. command # None /\ command \in Commands /\ command.step = "reading"
        /\ ~command.mustLogIn /\ command' = None
        /\ history' = history \cup command.read
        /\ UNCHANGED <<binding, session>>
    BY <1>1, CommandType DEF CommitCheck, Reads, At, Ends
  <2>2. TypeOK'
    BY <2>1 DEF Inv, TypeOK, Commands
  <2>3. UnboundInv' /\ BoundInv' /\ StepInv'
    BY <2>1 DEF Inv, UnboundInv, BoundInv, StepInv
  <2> QED
    BY <2>2, <2>3 DEF Inv
<1>2. CASE Finish \/ Fail
  BY <1>2, EndStep DEF Finish, Fail, Reads, At, files
<1> QED
  BY <1>1, <1>2

LEMMA Inductive == Inv /\ [Next]_vars => Inv'
<1> SUFFICES ASSUME Inv, [Next]_vars PROVE Inv'
  OBVIOUS
<1>1. CASE UNCHANGED vars
  BY <1>1 DEF vars, Inv, TypeOK, UnboundInv, BoundInv, StepInv
<1> QED
  BY <1>1, StartKeepsInv, ReadingKeepsInv, LoginKeepsInv, EndKeepsInv DEF Next

LEMMA InvHolds == Spec => []Inv
BY Initial, Inductive, PTL DEF Spec

-----------------------------------------------------------------------------

\* Every variable keeps its type.
THEOREM TypeCorrect == Spec => []TypeOK
<1>1. Inv => TypeOK
  BY DEF Inv
<1> QED
  BY <1>1, InvHolds, PTL

\* The committed history is one account's, and the bound one's once there is
\* a binding (main.go:406-431).
THEOREM OneAccountHistory == Spec => []HistoryOfOneAccount
<1>1. Inv => HistoryOfOneAccount
  BY DEF Inv, UnboundInv, BoundInv, HistoryOfOneAccount
<1> QED
  BY <1>1, InvHolds, PTL

\* An obsolete session cannot be used after the binding (main.go:445-453).
THEOREM NoObsoleteSession == Spec => []SessionOfBoundAccount
<1>1. Inv => SessionOfBoundAccount
  BY DEF Inv, BoundInv, SessionOfBoundAccount
<1> QED
  BY <1>1, InvHolds, PTL

\* Credentials read their own account only (main.go:260-262, 365-380).
THEOREM OwnAccountOnly == Spec => []ReadsOwnAccount
<1>1. Inv => ReadsOwnAccount
  BY DEF Inv, UnboundInv, BoundInv, ReadsOwnAccount
<1> QED
  BY <1>1, InvHolds, PTL

\* Credentials are submitted at most once by a command (main.go:365-403).
THEOREM SubmittedOnce == Spec => []CredentialsSubmittedOnce
<1>1. Inv => CredentialsSubmittedOnce
  BY CommandType DEF Inv, StepInv, CredentialsSubmittedOnce, Commands
<1> QED
  BY <1>1, InvHolds, PTL
\* A session that a command did not find is bound before it is written
\* (client.go:111-169).
THEOREM BoundBeforeSaved == Spec => NewSessionIsBound
<1> DEFINE Bound == session' \in Accounts /\ session' # session => binding = session'
<1>1. ASSUME Inv, Next PROVE Bound
  <2> SUFFICES ASSUME session' \in Accounts, session' # session
               PROVE  binding = session'
    OBVIOUS
  <2>1. CASE Served \/ SessionExpired \/ ReadFails
    <3>1. /\ command # None /\ command.step = "reading" /\ ~command.mustLogIn
          /\ session' = command.jar
      BY <2>1, AccountsAssumption DEF Served, SessionExpired, ReadFails, Reads, At
    <3> QED
      BY <1>1, <3>1, AccountsAssumption DEF Inv, UnboundInv, BoundInv
  <2>2. CASE SaveSession
    BY <1>1, <2>2, AccountsAssumption
    DEF SaveSession, At, Inv, UnboundInv, BoundInv, StepInv
  <2>3. CASE ResetSession \/ BeginLogin
    BY <2>3, AccountsAssumption DEF ResetSession, BeginLogin, DropStale
  <2> QED
    BY <1>1, <2>1, <2>2, <2>3
    DEF Next, StartLogin, StartReading, LogInFirst, Post, Bind, CommitCheck,
        Finish, Fail, files
<1>2. Inv /\ [Next]_vars => [session' \in Accounts /\ session' # session => binding = session']_vars
  BY <1>1
<1> QED
  BY <1>2, InvHolds, PTL DEF Spec, NewSessionIsBound

\* A profile never changes its account (main.go:412-417).
THEOREM FinalBinding == Spec => BindingIsFinal
<1>1. ASSUME Inv, [Next]_vars, binding # None PROVE binding' = binding
  <2>1. CASE Bind
    BY <1>1, <2>1, CommandType DEF Bind, At, Inv, BoundInv, StepInv
  <2>2. CASE ~Bind
    BY <1>1, <2>2
    DEF Next, vars, StartLogin, StartReading, ResetSession, LogInFirst, Served,
        SessionExpired, ReadFails, BeginLogin, Post, SaveSession, CommitCheck,
        Finish, Fail, files
  <2> QED
    BY <2>1, <2>2
<1>2. Inv /\ [Next]_vars => [binding # None => binding' = binding]_binding
  BY <1>1
<1> QED
  BY <1>2, InvHolds, PTL DEF Spec, BindingIsFinal
=============================================================================
