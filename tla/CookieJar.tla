------------------------------ MODULE CookieJar ------------------------------
(***************************************************************************)
(* The portal's cookies over several commands: the jar each process keeps  *)
(* in memory (internal/client/cookiejar/jar.go, a fork of Go's jar) and    *)
(* session.json, from which the next process restores it                   *)
(* (internal/client/session.go).                                           *)
(*                                                                         *)
(* Commands hold the account lease (module RequestPolicy), so there is one *)
(* jar at a time.  A command saves its jar after every read; it may be     *)
(* killed, or fail to save, at any time.  Between two commands the wall    *)
(* clock may be set back.  (Not while one runs: there Go would compare the *)
(* jar's new cookies by its monotonic clock, the restored by the wall's.)  *)
(*                                                                         *)
(* All requests go to one HTTPS host (checkRedirect refuses others), so    *)
(* that of shouldSend only the path decides.  Host names are sequences of  *)
(* labels, paths sequences of character codes.                             *)
(***************************************************************************)
EXTENDS Integers, Sequences, FiniteSets, SequencesExt, Selection

CONSTANTS
  Host,          \* the portal's host name
  SuffixList,    \* the public suffixes, as far as they matter to Host
  Slash,         \* the code of '/'
  Cookies,       \* the Set-Cookie headers the portal sends
  RequestPaths,  \* paths of requests
  StepsBack,     \* by how much the wall clock is set back
  DurationLimit, \* a time.Duration wraps at this many of the clock's units
  MaxTime,       \* bound: the clock
  MaxNumber,     \* bound: the numbers a jar gives its cookies
  None           \* no attribute, no file, no process, no expiry

VARIABLES
  now,      \* the wall clock
  jar,      \* the running command's jar, or None
  file,     \* the cookies of session.json, or None
  set,      \* history: the cookies the portal has set and not removed, in the
            \* order in which it first set them, with the time each ends and
            \* whether it was ever given an age no time.Duration can hold
  setSaved, \* history: the same when the file was last written
  rewound   \* history: the clock was set back past a saved cookie's creation

vars == <<now, jar, file, set, setSaved, rewound>>

Root == <<Slash>>

IsPath(p) == IsPrefix(Root, p)

\* http.Cookie.Valid: printable ASCII without the semicolon.
ValidPath(p) == Range(p) \subseteq (32 .. 126) \ {59}

-----------------------------------------------------------------------------
(* Domains: domainAndType and jarKey. *)

IsHostName(domain) == domain # <<>> /\ domain \in Seq(Range(domain))

\* publicsuffix.List.PublicSuffix: the longest rule, or the last label.
PublicSuffix(domain) ==
  LET rules == {s \in SuffixList \cup {<<Last(domain)>>} : IsSuffix(s, domain)}
  IN  CHOOSE s \in rules : \A t \in rules : Len(t) <= Len(s)

IsPublicSuffix(domain) == domain = PublicSuffix(domain)

JarKey(domain) ==
  IF IsPublicSuffix(domain) THEN domain
  ELSE LET suffix == PublicSuffix(domain)
       IN  SubSeq(domain, Len(domain) - Len(suffix), Len(domain))

\* Mutant of Refused: a public suffix will do.
RefusedIfForeign(domain) ==
  /\ domain # None
  /\ ~IsSuffix(domain, Host)

\* errIllegalDomain: a public suffix that is not the host itself, or a domain
\* the host is not in.
Refused(domain) ==
  /\ domain # None
  /\ IF IsPublicSuffix(domain) THEN domain # Host ELSE ~IsSuffix(domain, Host)

HostOnly(domain) == domain = None \/ (domain = Host /\ IsPublicSuffix(domain))

\* No public suffix lies between two domains of the host that are none, so the
\* cookies of all of them are stored under the same key.
ASSUME HostAssumption ==
  /\ IsHostName(Host)
  /\ \A i \in DOMAIN Host :
       LET domain == SubSeq(Host, i, Len(Host))
       IN  IsPublicSuffix(domain) \/ JarKey(domain) = JarKey(Host)
\* The path of a request is decoded (%C4%87, %3B), and may have any character.
ASSUME PathAssumption ==
  /\ Slash \in Nat /\ ValidPath(Root)
  /\ \A p \in RequestPaths : p \in Seq(Nat) /\ IsPath(p)
\* What net/http makes of a Set-Cookie header: an empty domain is none, and a
\* path with a character that is not valid is left out.
ASSUME CookieAssumption ==
  \A cookie \in Cookies :
    /\ cookie.domain # None => IsHostName(cookie.domain)
    /\ cookie.path # None => cookie.path \in Seq(Nat) /\ ValidPath(cookie.path)
    /\ cookie.maxAge \in Int
    /\ cookie.expires # None => cookie.expires \in Int
ASSUME TimeAssumption ==
  MaxTime \in Nat \ {0} /\ StepsBack \subseteq Nat /\ DurationLimit \in Nat \ {0}
ASSUME NoneAssumption == None \notin Int

-----------------------------------------------------------------------------
(* Cookies: newEntry and the order in which they are sent. *)

\* defaultPath: the directory of the request's path.
DefaultPath(p) ==
  LET slashes == {i \in DOMAIN p : p[i] = Slash}
      last    == CHOOSE i \in slashes : \A j \in slashes : j <= i
  IN  IF ~IsPath(p) \/ last = 1 THEN Root ELSE SubSeq(p, 1, last - 1)

CookiePath(path, request) ==
  IF path = None \/ ~IsPath(path) THEN DefaultPath(request) ELSE path

Id(cookie, request) ==
  [name   |-> cookie.name,
   domain |-> IF cookie.domain = None THEN Host ELSE cookie.domain,
   path   |-> CookiePath(cookie.path, request)]

\* Max-Age takes precedence over Expires.
Removes(cookie) ==
  \/ cookie.maxAge < 0
  \/ cookie.maxAge = 0 /\ cookie.expires # None /\ cookie.expires <= now

\* A Max-Age as a time.Duration: int64 nanoseconds.
Wrapped(d) == ((d + DurationLimit) % (2 * DurationLimit)) - DurationLimit

\* The absolute end of a persistent cookie; None for a session cookie.
ExpiresAt(cookie) ==
  IF cookie.maxAge > 0 THEN now + Wrapped(cookie.maxAge) ELSE cookie.expires

Expired(entry) == entry.expires # None /\ entry.expires <= now

PathMatch(path, request) ==
  /\ IsPrefix(path, request)
  /\ \/ path = request
     \/ Last(path) = Slash
     \/ request[Len(path) + 1] = Slash

\* strings.Compare.
Precedes(s, t) ==
  \/ IsStrictPrefix(s, t)
  \/ \E i \in DOMAIN s \cap DOMAIN t :
       /\ s[i] < t[i]
       /\ \A k \in 1 .. i - 1 : s[k] = t[k]

\* Mutant of SentBefore: the older cookie first, whatever its path.
SentBeforeByAge(entries, a, b) ==
  \/ entries[a].creation < entries[b].creation
  \/ /\ entries[a].creation = entries[b].creation
     /\ entries[a].seq < entries[b].seq

\* The order of Cookies: by path, descending, then creation, then sequence.
SentBefore(entries, a, b) ==
  \/ Precedes(b.path, a.path)
  \/ /\ a.path = b.path
     /\ \/ entries[a].creation < entries[b].creation
        \/ /\ entries[a].creation = entries[b].creation
           /\ entries[a].seq < entries[b].seq

-----------------------------------------------------------------------------
(* The jar. *)

Empty == [entries |-> <<>>, next |-> 0]

\* Jar.Cookies: expired cookies are dropped, those sent are touched.
Asked(j, request) ==
  LET kept == {id \in DOMAIN j.entries : ~Expired(j.entries[id])}
  IN  [j EXCEPT !.entries =
         [id \in kept |->
            IF PathMatch(id.path, request)
            THEN [@[id] EXCEPT !.lastAccess = now] ELSE @[id]]]

\* Mutant of Stored: a replaced cookie counts as a new one.
StoredAnew(j, id, cookie) ==
  [entries |->
     [i \in DOMAIN j.entries \cup {id} |->
        IF i = id THEN [hostOnly   |-> HostOnly(cookie.domain),
                        expires    |-> ExpiresAt(cookie),
                        creation   |-> now,
                        lastAccess |-> now,
                        seq        |-> j.next]
        ELSE j.entries[i]],
   next |-> j.next + 1]

\* setCookies: a cookie that replaces another keeps its place in the order.
Stored(j, id, cookie) ==
  LET known == id \in DOMAIN j.entries
      entry == [hostOnly   |-> HostOnly(cookie.domain),
                expires    |-> ExpiresAt(cookie),
                creation   |-> IF known THEN j.entries[id].creation ELSE now,
                lastAccess |-> now,
                seq        |-> IF known THEN j.entries[id].seq ELSE j.next]
  IN  [entries |-> [i \in DOMAIN j.entries \cup {id} |->
                      IF i = id THEN entry ELSE j.entries[i]],
       next    |-> IF known THEN j.next ELSE j.next + 1]

Without(j, id) ==
  [j EXCEPT !.entries = [i \in DOMAIN @ \ {id} |-> @[i]]]

\* Mutant of Restored: numbering goes on at the number of cookies.
RestoredFromCount(entries) ==
  [entries |-> entries, next |-> Cardinality(DOMAIN entries)]

\* Restore: numbering goes on after the greatest number in the snapshot.
Restored(entries) ==
  LET used == {entries[id].seq : id \in DOMAIN entries}
  IN  [entries |-> entries,
       next    |-> IF used = {} THEN 0
                   ELSE (CHOOSE n \in used : \A m \in used : m <= n) + 1]

\* What loadJar demands of the file's cookies.
Loads(entries) ==
  /\ \A id \in DOMAIN entries :
       /\ entries[id].hostOnly => id.domain = Host
       /\ IsPath(id.path) /\ ValidPath(id.path)
       /\ entries[id].creation <= entries[id].lastAccess
       /\ IsPublicSuffix(id.domain) => id.domain = Host
       /\ IsSuffix(id.domain, Host)
       /\ JarKey(id.domain) = JarKey(Host)
  /\ \A a, b \in DOMAIN entries : entries[a].seq = entries[b].seq => a = b

-----------------------------------------------------------------------------
(* What the portal set, as its Set-Cookie headers say. *)

\* The end that a header means, whatever a time.Duration makes of it.
MeantEnd(cookie) ==
  IF cookie.maxAge > 0 THEN now + cookie.maxAge ELSE cookie.expires

Overlong(cookie) == cookie.maxAge >= DurationLimit

Remaining(cookies) ==
  Selected(cookies, {i \in DOMAIN cookies : ~Expired(cookies[i])})

WithoutId(cookies, id) ==
  Selected(cookies, {i \in DOMAIN cookies : cookies[i].id # id})

\* A cookie that is set again keeps its place.
With(cookies, id, expires, overlong) ==
  IF \E i \in DOMAIN cookies : cookies[i].id = id
  THEN [i \in DOMAIN cookies |->
          IF cookies[i].id = id
          THEN [cookies[i] EXCEPT !.expires = expires, !.overlong = @ \/ overlong]
          ELSE cookies[i]]
  ELSE Append(cookies, [id |-> id, expires |-> expires, overlong |-> overlong])

-----------------------------------------------------------------------------
(* A command's life. *)

\* loadJar.
Open ==
  /\ jar = None
  /\ file # None => Loads(file)
  /\ jar' = IF file = None THEN Empty ELSE Asked(Restored(file), Root)
  /\ set' = IF file = None THEN <<>> ELSE Remaining(setSaved)
  /\ UNCHANGED <<now, file, setSaved, rewound>>

\* NewFresh and LoginWithCommit: a login inherits no cookies.
OpenFresh ==
  /\ jar' = Empty
  /\ set' = <<>>
  /\ UNCHANGED <<now, file, setSaved, rewound>>

\* A request carries the cookies of its path.
Request(path) ==
  /\ jar # None
  /\ jar' = Asked(jar, path)
  /\ set' = Remaining(set)
  /\ UNCHANGED <<now, file, setSaved, rewound>>

\* The response to a request sets or removes a cookie.
SetCookie(request, cookie) ==
  LET id == Id(cookie, request)
  IN  /\ jar # None
      /\ ~Refused(cookie.domain)
      /\ IF Removes(cookie)
         THEN /\ jar' = Without(jar, id)
              /\ set' = WithoutId(set, id)
         ELSE /\ jar' = Stored(jar, id, cookie)
              /\ set' = With(set, id, MeantEnd(cookie), Overlong(cookie))
      /\ jar'.next <= MaxNumber
      /\ UNCHANGED <<now, file, setSaved, rewound>>

\* saveJar: the snapshot is taken after one more Jar.Cookies.
Save ==
  /\ jar # None
  /\ jar' = Asked(jar, Root)
  /\ file' = jar'.entries
  /\ set' = Remaining(set)
  /\ setSaved' = set'
  /\ UNCHANGED <<now, rewound>>

\* The command ends, by itself, by a failed save or by force.
Close ==
  /\ jar # None
  /\ jar' = None
  /\ set' = <<>>
  /\ UNCHANGED <<now, file, setSaved, rewound>>

ResetSession ==
  /\ jar = None
  /\ file' = None
  /\ setSaved' = <<>>
  /\ rewound' = FALSE
  /\ UNCHANGED <<now, jar, set>>

Tick ==
  /\ now < MaxTime
  /\ now' = now + 1
  /\ UNCHANGED <<jar, file, set, setSaved, rewound>>

SetBack(d) ==
  /\ jar = None
  /\ now > d
  /\ now' = now - d
  /\ rewound' = (rewound \/ (file # None /\ \E id \in DOMAIN file : now' < file[id].creation))
  /\ UNCHANGED <<jar, file, set, setSaved>>

Init ==
  /\ now = 1
  /\ jar = None
  /\ file = None
  /\ set = <<>>
  /\ setSaved = <<>>
  /\ rewound = FALSE

Next ==
  \/ Open
  \/ OpenFresh
  \/ \E path \in RequestPaths : Request(path)
  \/ \E request \in RequestPaths, cookie \in Cookies : SetCookie(request, cookie)
  \/ Save
  \/ Close
  \/ ResetSession
  \/ Tick
  \/ \E d \in StepsBack : SetBack(d)

Spec == Init /\ [][Next]_vars

-----------------------------------------------------------------------------
(* Properties. *)

Ids == {Id(cookie, request) : cookie \in Cookies, request \in RequestPaths}

\* Every variable has its type; a jar numbers its next cookie after all others.
TypeOK ==
  /\ now \in 1 .. MaxTime
  /\ jar # None =>
       /\ DOMAIN jar.entries \subseteq Ids
       /\ \A id \in DOMAIN jar.entries : jar.entries[id].seq \in 0 .. jar.next - 1
  /\ file # None => DOMAIN file \subseteq Ids
  /\ \A cookies \in {set, setSaved} : \A i \in DOMAIN cookies : cookies[i].id \in Ids
  /\ rewound \in BOOLEAN

Sendable(request) ==
  {id \in DOMAIN jar.entries :
     ~Expired(jar.entries[id]) /\ PathMatch(id.path, request)}

Live(i) == ~Expired(set[i])

\* What the portal expects of a request.
Due(request) ==
  {set[i].id : i \in {j \in DOMAIN set : Live(j) /\ PathMatch(set[j].id.path, request)}}

\* A request carries what the portal set and that has not ended, those of one
\* path in the order in which they were first set, however often the jar was
\* saved and restored since: neither the numbers that Restore gives out again
\* nor an end that passed between two commands makes a difference.  A cookie
\* given an age that no time.Duration can hold may be missing, or out of its
\* place when it returns, but is not sent longer than the portal meant.  A
\* clock set back past a cookie's creation disturbs the order only
\* (jar.go:153-177, 370-385, 514, session.go:109-112).
SentAsSet ==
  jar # None =>
    /\ \A path \in RequestPaths :
         /\ Sendable(path) \subseteq Due(path)
         /\ Due(path) \ Sendable(path) \subseteq
              {set[i].id : i \in {j \in DOMAIN set : set[j].overlong}}
    /\ ~rewound =>
         \A i, j \in DOMAIN set :
           /\ i < j /\ Live(i) /\ Live(j) /\ ~set[i].overlong /\ ~set[j].overlong
           /\ set[i].id.path = set[j].id.path
           => SentBefore(jar.entries, set[i].id, set[j].id)

\* The comparison of paths as text sends the longest path first, as the comment
\* on it says: whatever characters the paths have, those that match one request
\* are prefixes of each other (jar.go:309-319).
LongestPathFirst ==
  jar # None =>
    \A path \in RequestPaths : \A a, b \in Sendable(path) :
      Len(a.path) > Len(b.path) => SentBefore(jar.entries, a, b)

\* The directories of requests that no cookie may have as its path: the default
\* path is taken from the decoded URL, and stored unchecked.
StrangePaths == {p \in {DefaultPath(r) : r \in RequestPaths} : ~ValidPath(p)}

\* loadJar accepts what saveJar wrote: what newEntry lets into a jar passes the
\* checks of domain, path, times and numbers that the next command makes before
\* it restores.  Two things break this, and nothing else does: a clock set back
\* past the creation of a cookie, and a cookie without a path of its own that
\* the portal set in a strange directory, as `page --path` may ask for any
\* (jar.go:347, session.go:84-111, 116-124).
SavedSessionLoads ==
  /\ file # None
  /\ ~rewound
  /\ \A id \in DOMAIN file : id.path \notin StrangePaths
  => Loads(file)
=============================================================================
