---------------------------- MODULE CookieJarProofs ----------------------------
(***************************************************************************)
(* Proofs about CookieJar, for any host, headers, request paths, clock     *)
(* steps, limit of a duration and bounds.                                  *)
(*                                                                         *)
(* The jar, the file and what the portal set are three accounts of the     *)
(* same cookies; the invariant says in what they agree, whichever of them  *)
(* was restored from which.                                                *)
(***************************************************************************)
EXTENDS CookieJar, SelectionProofs

-----------------------------------------------------------------------------
(* The inductive invariant. *)

Ends == Int \cup {None}

Entry ==
  [hostOnly   : BOOLEAN,
   expires    : Ends,
   creation   : Nat,
   lastAccess : Nat,
   seq        : Nat]

Contents == UNION {[S -> Entry] : S \in SUBSET Ids}
Jars == [entries : Contents, next : Nat]
Item == [id : Ids, expires : Ends, overlong : BOOLEAN]
SetCookies == Seq(Item)

\* What newEntry makes of a header that it does not refuse, loadJar accepts, but
\* for the directories that no cookie may name.
Lawful(id) ==
  /\ IsPath(id.path)
  /\ ValidPath(id.path) \/ id.path \in StrangePaths
  /\ IsPublicSuffix(id.domain) => id.domain = Host
  /\ IsSuffix(id.domain, Host)
  /\ JarKey(id.domain) = JarKey(Host)

\* A cookie that ends at e has ended when one that ends at t has.
EndsBy(e, t) == t # None => e # None /\ e <= t

\* A jar holds no cookies but the portal's, and none for longer; of those whose
\* age a time.Duration holds it has all, each with its end, and numbers them in
\* their order.
Agree(entries, cookies) ==
  /\ \A id \in DOMAIN entries :
       /\ Lawful(id)
       /\ entries[id].hostOnly => id.domain = Host
       /\ \E i \in DOMAIN cookies : cookies[i].id = id
  /\ \A a, b \in DOMAIN entries : entries[a].seq = entries[b].seq => a = b
  /\ \A i \in DOMAIN cookies :
       /\ cookies[i].id \in DOMAIN entries =>
            EndsBy(entries[cookies[i].id].expires, cookies[i].expires)
       /\ ~cookies[i].overlong =>
            /\ cookies[i].id \in DOMAIN entries
            /\ entries[cookies[i].id].expires = cookies[i].expires
  /\ \A i, j \in DOMAIN cookies :
       i < j /\ ~cookies[i].overlong /\ ~cookies[j].overlong =>
         entries[cookies[i].id].seq < entries[cookies[j].id].seq

\* At the time t no cookie is younger than now or than its last use, and the age
\* of those that the jar has to hold has the order of their numbers.
Timely(entries, cookies, t) ==
  /\ \A id \in DOMAIN entries :
       /\ entries[id].creation <= entries[id].lastAccess
       /\ entries[id].creation <= t
  /\ \A i, j \in DOMAIN cookies :
       i < j /\ ~cookies[i].overlong /\ ~cookies[j].overlong =>
         entries[cookies[i].id].creation <= entries[cookies[j].id].creation

NumberedBelow(entries, n) == \A id \in DOMAIN entries : entries[id].seq < n

\* The next cookie gets a number after those of all others.
Numbered(j) == NumberedBelow(j.entries, j.next)

ClockInv == now \in 1 .. MaxTime /\ rewound \in BOOLEAN

JarInv ==
  /\ set \in SetCookies
  /\ jar # None =>
       /\ jar \in Jars /\ Numbered(jar) /\ Agree(jar.entries, set)
       /\ ~rewound => Timely(jar.entries, set, now)

FileInv ==
  /\ setSaved \in SetCookies
  /\ file # None =>
       /\ file \in Contents /\ Agree(file, setSaved)
       /\ \E n \in Nat : NumberedBelow(file, n)
       /\ ~rewound => Timely(file, setSaved, now)

Inv == ClockInv /\ JarInv /\ FileInv

-----------------------------------------------------------------------------
(* Identifiers. *)

LEMMA RootFacts == Root \in Seq(Nat) /\ IsPath(Root) /\ ValidPath(Root)
<1>1. Root \in Seq(Nat) /\ Len(Root) = 1 /\ Root[1] = Slash
  BY PathAssumption DEF Root
<1>2. IsPath(Root)
  BY <1>1 DEF IsPath, IsPrefix
<1> QED
  BY <1>1, <1>2, PathAssumption

\* A path begins with a slash.
LEMMA PathBegins ==
  ASSUME NEW p \in Seq(Nat)
  PROVE  IsPath(p) <=> Len(p) >= 1 /\ p[1] = Slash
<1>1. Root \in Seq(Nat) /\ Len(Root) = 1 /\ Root[1] = Slash
  BY PathAssumption DEF Root
<1>2. IsPath(p) <=> 1 <= Len(p) /\ SubSeq(Root, 1, 1) = SubSeq(p, 1, 1)
  BY <1>1 DEF IsPath, IsPrefix
<1>3. Len(p) >= 1 => SubSeq(p, 1, 1) = [i \in 1 .. 1 |-> p[i]]
  OBVIOUS
<1>4. SubSeq(Root, 1, 1) = [i \in 1 .. 1 |-> Slash]
  BY <1>1
<1> DEFINE a == [i \in 1 .. 1 |-> p[i]]
           b == [i \in 1 .. 1 |-> Slash]
<1>5. a = b <=> p[1] = Slash
  <2>1. a[1] = p[1] /\ b[1] = Slash
    OBVIOUS
  <2>2. p[1] = Slash => a = b
    OBVIOUS
  <2> QED
    BY <2>1, <2>2
<1> QED
  BY <1>2, <1>3, <1>4, <1>5

\* The default path of a request is the path of a directory above it.
LEMMA DefaultPathFacts ==
  ASSUME NEW p \in RequestPaths
  PROVE  /\ DefaultPath(p) \in Seq(Nat) /\ IsPath(DefaultPath(p))
         /\ ValidPath(DefaultPath(p)) \/ DefaultPath(p) \in StrangePaths
<1> DEFINE slashes == {i \in DOMAIN p : p[i] = Slash}
           last == CHOOSE i \in slashes : \A j \in slashes : j <= i
           d == SubSeq(p, 1, last - 1)
<1>1. p \in Seq(Nat) /\ IsPath(p) /\ Len(p) >= 1 /\ p[1] = Slash
  BY PathAssumption, PathBegins
<1>2. slashes \subseteq 1 .. Len(p) /\ 1 \in slashes
  BY <1>1
<1>3. last \in slashes /\ \A j \in slashes : j <= last
  <2>1. \E i \in slashes : \A j \in slashes : j <= i
    <3>1. slashes \in SUBSET Nat /\ slashes # {} /\ Len(p) \in Nat /\ \A n \in slashes : n <= Len(p)
      BY <1>1, <1>2
    <3> HIDE DEF slashes
    <3> QED
      BY <3>1, GreatestElement
  <2> HIDE DEF slashes
  <2> QED
    BY <2>1
<1>4. DefaultPath(p) = IF last = 1 THEN Root ELSE d
  BY <1>1 DEF DefaultPath
<1>5. last \in 1 .. Len(p)
  BY <1>2, <1>3
<1> HIDE DEF last
<1>6. ASSUME last # 1
      PROVE  d \in Seq(Nat) /\ IsPath(d)
  <2>1. d \in Seq(Nat) /\ Len(d) = last - 1 /\ \A i \in 1 .. last - 1 : d[i] = p[i]
    BY <1>1, <1>5, <1>6
  <2>2. Len(d) >= 1 /\ d[1] = Slash
    BY <1>1, <1>5, <1>6, <2>1
  <2> HIDE DEF d
  <2> QED
    BY <2>1, <2>2, PathBegins
<1>7. ValidPath(DefaultPath(p)) \/ DefaultPath(p) \in StrangePaths
  BY DEF StrangePaths
<1> QED
  BY <1>4, <1>6, <1>7, RootFacts

LEMMA Mirror ==
  ASSUME NEW m \in Nat, NEW i \in 1 .. m
  PROVE  \E k \in 1 .. m : k = m - i + 1 /\ i = m - k + 1
<1>1. m - i + 1 \in 1 .. m /\ m - (m - i + 1) + 1 = i
  OBVIOUS
<1> QED
  BY <1>1

LEMMA SuffixFacts ==
  ASSUME NEW S, NEW s \in Seq(S), NEW T, NEW t \in Seq(T)
  PROVE  IsSuffix(s, t) <=>
           /\ Len(s) <= Len(t)
           /\ \A i \in 1 .. Len(s) : s[i] = t[Len(t) - Len(s) + i]
<1> DEFINE r == [i \in 1 .. Len(s) |-> s[(Len(s) - i) + 1]]
           q == [i \in 1 .. Len(t) |-> t[(Len(t) - i) + 1]]
<1>1. Reverse(s) = r /\ Reverse(t) = q
  BY DEF Reverse
<1>2. r \in Seq(S) /\ Len(r) = Len(s) /\ q \in Seq(T) /\ Len(q) = Len(t)
  OBVIOUS
<1>3. IsSuffix(s, t) <=> Len(s) <= Len(t) /\ SubSeq(r, 1, Len(s)) = SubSeq(q, 1, Len(s))
  BY <1>1, <1>2 DEF IsSuffix, IsPrefix
<1>4. ASSUME Len(s) <= Len(t)
      PROVE  SubSeq(r, 1, Len(s)) = SubSeq(q, 1, Len(s)) <=>
               \A i \in 1 .. Len(s) : s[(Len(s) - i) + 1] = t[(Len(t) - i) + 1]
  <2>1. /\ SubSeq(r, 1, Len(s)) = [i \in 1 .. Len(s) |-> r[i]]
        /\ SubSeq(q, 1, Len(s)) = [i \in 1 .. Len(s) |-> q[i]]
    BY <1>2, <1>4
  <2>2. \A i \in 1 .. Len(s) : r[i] = s[(Len(s) - i) + 1] /\ q[i] = t[(Len(t) - i) + 1]
    BY <1>4
  <2> DEFINE f == [i \in 1 .. Len(s) |-> r[i]]
             g == [i \in 1 .. Len(s) |-> q[i]]
  <2>3. f = g <=> \A i \in 1 .. Len(s) : r[i] = q[i]
    <3>1. \A i \in 1 .. Len(s) : f[i] = r[i] /\ g[i] = q[i]
      OBVIOUS
    <3> HIDE DEF r, q
    <3>2. (\A i \in 1 .. Len(s) : r[i] = q[i]) => f = g
      OBVIOUS
    <3> QED
      BY <3>1, <3>2
  <2>4. SubSeq(r, 1, Len(s)) = SubSeq(q, 1, Len(s)) <=> \A i \in 1 .. Len(s) : r[i] = q[i]
    <3> HIDE DEF r, q
    <3> QED
      BY <2>1, <2>3
  <2> HIDE DEF r, q, f, g
  <2> QED
    BY <2>2, <2>4
<1>5. ASSUME Len(s) <= Len(t)
      PROVE  (\A i \in 1 .. Len(s) : s[(Len(s) - i) + 1] = t[(Len(t) - i) + 1]) <=>
             (\A i \in 1 .. Len(s) : s[i] = t[Len(t) - Len(s) + i])
  <2>1. Len(s) \in Nat /\ Len(t) \in Nat
    OBVIOUS
  <2>2. ASSUME \A i \in 1 .. Len(s) : s[(Len(s) - i) + 1] = t[(Len(t) - i) + 1],
               NEW i \in 1 .. Len(s)
        PROVE  s[i] = t[Len(t) - Len(s) + i]
    <3>1. PICK k \in 1 .. Len(s) : k = Len(s) - i + 1 /\ i = Len(s) - k + 1
      BY <2>1, Mirror
    <3>2. (Len(s) - k) + 1 = i /\ (Len(t) - k) + 1 = Len(t) - Len(s) + i
      BY <2>1, <3>1
    <3> QED
      BY <2>2, <3>2
  <2>3. ASSUME \A i \in 1 .. Len(s) : s[i] = t[Len(t) - Len(s) + i],
               NEW i \in 1 .. Len(s)
        PROVE  s[(Len(s) - i) + 1] = t[(Len(t) - i) + 1]
    <3>1. PICK k \in 1 .. Len(s) : k = Len(s) - i + 1 /\ i = Len(s) - k + 1
      BY <2>1, Mirror
    <3>2. k = (Len(s) - i) + 1 /\ Len(t) - Len(s) + k = (Len(t) - i) + 1
      BY <2>1, <3>1
    <3> QED
      BY <2>3, <3>2
  <2> QED
    BY <2>2, <2>3
<1> QED
  BY <1>3, <1>4, <1>5

\* A domain of the host that is no public suffix has the host's key.
LEMMA DomainFacts ==
  ASSUME NEW domain, IsHostName(domain), ~Refused(domain), domain # None
  PROVE  /\ IsPublicSuffix(domain) => domain = Host
         /\ IsSuffix(domain, Host)
         /\ JarKey(domain) = JarKey(Host)
<1>1. /\ domain \in Seq(Range(domain)) /\ domain # <<>>
      /\ Host \in Seq(Range(Host)) /\ Host # <<>>
  BY HostAssumption DEF IsHostName
<1>2. IsPublicSuffix(domain) => domain = Host
  BY DEF Refused
<1>3. ~IsPublicSuffix(domain) => IsSuffix(domain, Host)
  BY DEF Refused
<1>4. IsSuffix(Host, Host)
  <2>1. \A i \in 1 .. Len(Host) : Host[i] = Host[Len(Host) - Len(Host) + i]
    <3>1. Len(Host) \in Nat
      BY <1>1
    <3> QED
      BY <3>1
  <2> QED
    BY <1>1, <2>1, SuffixFacts
<1>5. ASSUME ~IsPublicSuffix(domain)
      PROVE  JarKey(domain) = JarKey(Host)
  <2> DEFINE i == Len(Host) - Len(domain) + 1
             s == SubSeq(Host, i, Len(Host))
  <2>1. /\ Len(domain) \in Nat /\ Len(Host) \in Nat
        /\ Len(domain) >= 1 /\ Len(domain) <= Len(Host)
        /\ \A k \in 1 .. Len(domain) : domain[k] = Host[Len(Host) - Len(domain) + k]
    BY <1>1, <1>3, <1>5, SuffixFacts
  <2>2. i \in DOMAIN Host
    BY <1>1, <2>1
  <2>3. s = [k \in 1 .. Len(domain) |-> Host[Len(Host) - Len(domain) + k]]
    <3>1. Len(Host) - i + 1 = Len(domain)
      BY <2>1
    <3>2. s = [k \in 1 .. Len(Host) - i + 1 |-> Host[i + k - 1]]
      BY <1>1, <2>1
    <3>3. \A k \in 1 .. Len(domain) : i + k - 1 = Len(Host) - Len(domain) + k
      BY <2>1
    <3> HIDE DEF i, s
    <3> QED
      BY <3>1, <3>2, <3>3
  <2>4. domain = [k \in 1 .. Len(domain) |-> domain[k]]
    BY <1>1
  <2>5. s = domain
    BY <2>1, <2>3, <2>4
  <2>6. IsPublicSuffix(s) \/ JarKey(s) = JarKey(Host)
    <3> HIDE DEF i
    <3> QED
      BY <2>2, HostAssumption
  <2> HIDE DEF s
  <2> QED
    BY <1>5, <2>5, <2>6
<1> QED
  BY <1>2, <1>3, <1>4, <1>5

LEMMA IdFacts ==
  ASSUME NEW cookie \in Cookies, NEW request \in RequestPaths
  PROVE  /\ Id(cookie, request) \in Ids
         /\ Id(cookie, request).path \in Seq(Nat)
         /\ ~Refused(cookie.domain) => Lawful(Id(cookie, request))
         /\ HostOnly(cookie.domain) => Id(cookie, request).domain = Host
<1> DEFINE id == Id(cookie, request)
<1>1. id \in Ids
  BY DEF Ids
<1>2. /\ id.path = CookiePath(cookie.path, request)
      /\ id.domain = IF cookie.domain = None THEN Host ELSE cookie.domain
  BY DEF Id
<1>3. /\ id.path \in Seq(Nat) /\ IsPath(id.path)
      /\ ValidPath(id.path) \/ id.path \in StrangePaths
  BY <1>2, DefaultPathFacts, CookieAssumption DEF CookiePath
<1>4. ASSUME cookie.domain = None
      PROVE  /\ IsPublicSuffix(id.domain) => id.domain = Host
             /\ IsSuffix(id.domain, Host)
             /\ JarKey(id.domain) = JarKey(Host)
  <2>1. Host \in Seq(Range(Host)) /\ Len(Host) \in Nat
    BY HostAssumption DEF IsHostName
  <2>2. \A i \in 1 .. Len(Host) : Host[i] = Host[Len(Host) - Len(Host) + i]
    BY <2>1
  <2>3. IsSuffix(Host, Host)
    BY <2>1, <2>2, SuffixFacts
  <2> QED
    BY <1>2, <1>4, <2>3
<1>5. ASSUME cookie.domain # None, ~Refused(cookie.domain)
      PROVE  /\ IsPublicSuffix(id.domain) => id.domain = Host
             /\ IsSuffix(id.domain, Host)
             /\ JarKey(id.domain) = JarKey(Host)
  <2>1. IsHostName(cookie.domain) /\ id.domain = cookie.domain
    BY <1>2, <1>5, CookieAssumption
  <2> QED
    BY <1>5, <2>1, DomainFacts
<1>6. HostOnly(cookie.domain) => id.domain = Host
  BY <1>2 DEF HostOnly
<1> HIDE DEF id
<1>7. ~Refused(cookie.domain) => Lawful(id)
  BY <1>3, <1>4, <1>5 DEF Lawful
<1> QED
  BY <1>1, <1>3, <1>6, <1>7 DEF id

LEMMA PathsOfIds ==
  ASSUME NEW id \in Ids
  PROVE  id.path \in Seq(Nat)
<1>1. PICK cookie \in Cookies, request \in RequestPaths : id = Id(cookie, request)
  BY DEF Ids
<1> QED
  BY <1>1, IdFacts

\* Of two paths that match one request, the longer extends the shorter.
LEMMA LongerPathPrecedes ==
  ASSUME NEW p \in Seq(Nat), NEW q \in Seq(Nat), NEW request \in Seq(Nat),
         PathMatch(p, request), PathMatch(q, request), Len(q) < Len(p)
  PROVE  Precedes(q, p)
<1>1. /\ Len(p) \in Nat /\ Len(q) \in Nat /\ Len(request) \in Nat
      /\ Len(p) <= Len(request) /\ Len(q) <= Len(request)
      /\ SubSeq(p, 1, Len(p)) = SubSeq(request, 1, Len(p))
      /\ SubSeq(q, 1, Len(q)) = SubSeq(request, 1, Len(q))
  BY DEF PathMatch, IsPrefix
<1>2. \A i \in 1 .. Len(p) : p[i] = request[i]
  <2>1. \A i \in 1 .. Len(p) : SubSeq(p, 1, Len(p))[i] = p[i] /\ SubSeq(request, 1, Len(p))[i] = request[i]
    BY <1>1
  <2> QED
    BY <1>1, <2>1
<1>3. \A i \in 1 .. Len(q) : q[i] = request[i]
  <2>1. \A i \in 1 .. Len(q) : SubSeq(q, 1, Len(q))[i] = q[i] /\ SubSeq(request, 1, Len(q))[i] = request[i]
    BY <1>1
  <2> QED
    BY <1>1, <2>1
<1>4. /\ SubSeq(q, 1, Len(q)) = [i \in 1 .. Len(q) |-> q[i]]
      /\ SubSeq(p, 1, Len(q)) = [i \in 1 .. Len(q) |-> p[i]]
  BY <1>1
<1>5. \A i \in 1 .. Len(q) : q[i] = p[i]
  BY <1>1, <1>2, <1>3
<1>6. IsPrefix(q, p)
  BY <1>1, <1>4, <1>5 DEF IsPrefix
<1> QED
  BY <1>6 DEF Precedes, IsStrictPrefix

-----------------------------------------------------------------------------
(* Contents. *)

LEMMA ContentsFacts ==
  ASSUME NEW entries
  PROVE  entries \in Contents <=>
           /\ entries = [id \in DOMAIN entries |-> entries[id]]
           /\ DOMAIN entries \subseteq Ids
           /\ \A id \in DOMAIN entries : entries[id] \in Entry
<1>1. ASSUME entries \in Contents
      PROVE  /\ entries = [id \in DOMAIN entries |-> entries[id]]
             /\ DOMAIN entries \subseteq Ids
             /\ \A id \in DOMAIN entries : entries[id] \in Entry
  <2>1. PICK S \in SUBSET Ids : entries \in [S -> Entry]
    BY <1>1 DEF Contents
  <2> QED
    BY <2>1
<1>2. ASSUME /\ entries = [id \in DOMAIN entries |-> entries[id]]
             /\ DOMAIN entries \subseteq Ids
             /\ \A id \in DOMAIN entries : entries[id] \in Entry
      PROVE  entries \in Contents
  <2>1. entries \in [DOMAIN entries -> Entry] /\ DOMAIN entries \in SUBSET Ids
    BY <1>2
  <2> QED
    BY <2>1 DEF Contents
<1> QED
  BY <1>1, <1>2

LEMMA JarFacts ==
  ASSUME NEW j \in Jars
  PROVE  /\ j = [entries |-> j.entries, next |-> j.next]
         /\ j.entries \in Contents /\ j.next \in Nat
         /\ DOMAIN j.entries \subseteq Ids
         /\ \A id \in DOMAIN j.entries : j.entries[id] \in Entry
<1>1. /\ j = [entries |-> j.entries, next |-> j.next]
      /\ j.entries \in Contents /\ j.next \in Nat
  BY DEF Jars
<1> QED
  BY <1>1, ContentsFacts

LEMMA EmptyFacts ==
  /\ Empty \in Jars /\ Numbered(Empty) /\ Agree(Empty.entries, <<>>)
  /\ Timely(Empty.entries, <<>>, now)
  /\ <<>> \in SetCookies
<1>1. Empty.entries = <<>> /\ Empty.next = 0 /\ DOMAIN <<>> = {}
  BY DEF Empty
<1>2. <<>> \in Contents
  <2>1. <<>> = [id \in DOMAIN <<>> |-> <<>>[id]]
    OBVIOUS
  <2> QED
    BY <1>1, <2>1, ContentsFacts
<1>3. Empty \in Jars
  BY <1>2 DEF Empty, Jars
<1>4. Numbered(Empty) /\ Agree(Empty.entries, <<>>) /\ Timely(Empty.entries, <<>>, now)
  BY <1>1 DEF Numbered, NumberedBelow, Agree, Timely
<1> QED
  BY <1>3, <1>4 DEF SetCookies

LEMMA ItemFacts ==
  ASSUME NEW cookies \in SetCookies, NEW i \in DOMAIN cookies
  PROVE  cookies[i].id \in Ids /\ cookies[i].expires \in Ends /\ cookies[i].overlong \in BOOLEAN
<1>1. cookies[i] \in Item
  BY DEF SetCookies
<1> QED
  BY <1>1 DEF Item

LEMMA EndsByFacts ==
  ASSUME NEW e \in Ends, NEW t \in Ends, EndsBy(e, t), now \in Nat, t # None, t <= now
  PROVE  e # None /\ e <= now
BY DEF Ends, EndsBy

\* entries are those of the others that are kept, with another last use.
Keeps(entries, others) ==
  /\ DOMAIN entries \subseteq DOMAIN others
  /\ \A id \in DOMAIN entries :
       /\ entries[id].hostOnly = others[id].hostOnly
       /\ entries[id].expires = others[id].expires
       /\ entries[id].creation = others[id].creation
       /\ entries[id].seq = others[id].seq

\* If a jar loses what its history loses, and no more of the cookies that it has
\* to hold, they go on to agree.
LEMMA KeepsAgrees ==
  ASSUME NEW others \in Contents, NEW cookies \in SetCookies, Agree(others, cookies),
         NEW entries \in Contents, Keeps(entries, others), NEW chosen,
         \A i \in DOMAIN cookies : cookies[i].id \in DOMAIN entries => i \in chosen,
         \A i \in DOMAIN cookies :
           i \in chosen /\ ~cookies[i].overlong => cookies[i].id \in DOMAIN entries
  PROVE  /\ Selected(cookies, chosen) \in SetCookies
         /\ Agree(entries, Selected(cookies, chosen))
         /\ \A t : /\ Timely(others, cookies, t)
                   /\ \A id \in DOMAIN entries : entries[id].creation <= entries[id].lastAccess
                   => Timely(entries, Selected(cookies, chosen), t)
<1> DEFINE kept == Selected(cookies, chosen)
<1>1. Len(cookies) \in Nat /\ DOMAIN cookies = 1 .. Len(cookies)
  BY DEF SetCookies
<1>2. kept \in SetCookies
  BY SelectedFacts DEF SetCookies
<1>3. PICK at : Selects(at, kept, cookies, chosen, Len(cookies))
  BY SelectedFacts DEF SetCookies
<1> HIDE DEF kept
<1>4. /\ \A k \in DOMAIN kept :
           at[k] \in DOMAIN cookies /\ at[k] \in chosen /\ kept[k] = cookies[at[k]]
      /\ \A k, l \in DOMAIN kept : k < l => at[k] < at[l]
      /\ \A i \in DOMAIN cookies : i \in chosen => \E k \in DOMAIN kept : at[k] = i
  BY <1>1, <1>3 DEF Selects
<1>5. \A k \in DOMAIN kept :
        /\ ~kept[k].overlong => kept[k].id \in DOMAIN entries
        /\ kept[k].id = cookies[at[k]].id
        /\ kept[k].expires = cookies[at[k]].expires
        /\ kept[k].overlong = cookies[at[k]].overlong
  BY <1>4
<1>6. \A id \in DOMAIN entries : \E k \in DOMAIN kept : kept[k].id = id
  <2> SUFFICES ASSUME NEW id \in DOMAIN entries
               PROVE  \E k \in DOMAIN kept : kept[k].id = id
    OBVIOUS
  <2>1. PICK i \in DOMAIN cookies : cookies[i].id = id
    BY DEF Keeps, Agree
  <2>2. PICK k \in DOMAIN kept : at[k] = i
    BY <1>4, <2>1
  <2> QED
    BY <1>5, <2>1, <2>2
<1>7. Agree(entries, kept)
  <2>1. ASSUME NEW id \in DOMAIN entries
        PROVE  Lawful(id) /\ (entries[id].hostOnly => id.domain = Host)
    BY <2>1 DEF Agree, Keeps
  <2>2. ASSUME NEW a \in DOMAIN entries, NEW b \in DOMAIN entries,
               entries[a].seq = entries[b].seq
        PROVE  a = b
    BY <2>2 DEF Agree, Keeps
  <2>3. ASSUME NEW k \in DOMAIN kept, kept[k].id \in DOMAIN entries
        PROVE  EndsBy(entries[kept[k].id].expires, kept[k].expires)
    BY <1>4, <1>5, <2>3 DEF Agree, Keeps
  <2>4. ASSUME NEW k \in DOMAIN kept, ~kept[k].overlong
        PROVE  entries[kept[k].id].expires = kept[k].expires
    BY <1>4, <1>5, <2>4 DEF Agree, Keeps
  <2>5. ASSUME NEW k \in DOMAIN kept, NEW l \in DOMAIN kept, k < l,
               ~kept[k].overlong, ~kept[l].overlong
        PROVE  entries[kept[k].id].seq < entries[kept[l].id].seq
    <3>1. at[k] < at[l] /\ at[k] \in DOMAIN cookies /\ at[l] \in DOMAIN cookies
      BY <1>4, <2>5
    <3>2. others[kept[k].id].seq < others[kept[l].id].seq
      BY <1>5, <2>5, <3>1 DEF Agree
    <3> QED
      BY <1>5, <2>5, <3>2 DEF Keeps
  <2> QED
    BY <1>5, <1>6, <2>1, <2>2, <2>3, <2>4, <2>5 DEF Agree
<1>8. ASSUME NEW t, Timely(others, cookies, t),
             \A id \in DOMAIN entries : entries[id].creation <= entries[id].lastAccess
      PROVE  Timely(entries, kept, t)
  <2>1. \A id \in DOMAIN entries : entries[id].creation <= t
    BY <1>8 DEF Timely, Keeps
  <2>2. ASSUME NEW k \in DOMAIN kept, NEW l \in DOMAIN kept, k < l,
               ~kept[k].overlong, ~kept[l].overlong
        PROVE  entries[kept[k].id].creation <= entries[kept[l].id].creation
    <3>1. at[k] < at[l] /\ at[k] \in DOMAIN cookies /\ at[l] \in DOMAIN cookies
      BY <1>4, <2>2
    <3>2. others[kept[k].id].creation <= others[kept[l].id].creation
      BY <1>5, <1>8, <2>2, <3>1 DEF Timely
    <3> QED
      BY <1>5, <2>2, <3>2 DEF Keeps
  <2> QED
    BY <1>8, <2>1, <2>2 DEF Timely
<1> QED
  BY <1>2, <1>7, <1>8 DEF kept

\* The cookies of a path of the jar, looked up or not.
Looked(j, request, kept) ==
  [id \in kept |->
     IF PathMatch(id.path, request)
     THEN [j.entries[id] EXCEPT !.lastAccess = now] ELSE j.entries[id]]

\* A look drops what has ended, from the jar as from its history.
LEMMA AskedAgrees ==
  ASSUME now \in Nat,
         NEW j \in Jars, NEW cookies \in SetCookies, Agree(j.entries, cookies), NEW request
  PROVE  /\ Asked(j, request) \in Jars
         /\ Asked(j, request).next = j.next
         /\ DOMAIN Asked(j, request).entries
              = {id \in DOMAIN j.entries : ~Expired(j.entries[id])}
         /\ Keeps(Asked(j, request).entries, j.entries)
         /\ Remaining(cookies) \in SetCookies
         /\ Agree(Asked(j, request).entries, Remaining(cookies))
         /\ Timely(j.entries, cookies, now) =>
              Timely(Asked(j, request).entries, Remaining(cookies), now)
<1> DEFINE kept == {id \in DOMAIN j.entries : ~Expired(j.entries[id])}
           e == Looked(j, request, kept)
           chosen == {i \in DOMAIN cookies : ~Expired(cookies[i])}
<1>1. /\ j = [entries |-> j.entries, next |-> j.next]
      /\ j.entries \in Contents /\ j.next \in Nat
      /\ DOMAIN j.entries \subseteq Ids
      /\ \A id \in DOMAIN j.entries : j.entries[id] \in Entry
  BY JarFacts
<1>2. Asked(j, request) = [entries |-> e, next |-> j.next]
  <2>1. Asked(j, request) = [j EXCEPT !.entries = e]
    BY DEF Asked, Looked
  <2> HIDE DEF e
  <2> QED
    BY <1>1, <2>1
<1>3. kept \subseteq DOMAIN j.entries /\ DOMAIN e = kept
  BY DEF Looked
<1>4. ASSUME NEW id \in kept
      PROVE  /\ e[id] \in Entry
             /\ e[id].hostOnly = j.entries[id].hostOnly
             /\ e[id].expires = j.entries[id].expires
             /\ e[id].creation = j.entries[id].creation
             /\ e[id].seq = j.entries[id].seq
             /\ e[id].lastAccess \in {now, j.entries[id].lastAccess}
  <2>1. e[id] \in {j.entries[id], [j.entries[id] EXCEPT !.lastAccess = now]}
    BY DEF Looked
  <2>2. j.entries[id] \in Entry
    BY <1>1, <1>3
  <2> HIDE DEF e, kept
  <2> QED
    BY <2>1, <2>2 DEF Entry
<1>5. e \in Contents
  <2>1. e = [id \in DOMAIN e |-> e[id]]
    BY DEF Looked
  <2> HIDE DEF e, kept
  <2> QED
    BY <1>1, <1>3, <1>4, <2>1, ContentsFacts
<1>6. Keeps(e, j.entries)
  <2> HIDE DEF e, kept
  <2> QED
    BY <1>3, <1>4 DEF Keeps
<1>7. ASSUME NEW i \in DOMAIN cookies, cookies[i].id \in DOMAIN e
      PROVE  i \in chosen
  <2>1. EndsBy(j.entries[cookies[i].id].expires, cookies[i].expires)
    BY <1>3, <1>7 DEF Agree
  <2>2. ~Expired(j.entries[cookies[i].id])
    BY <1>3, <1>7
  <2>3. cookies[i].expires \in Ends /\ j.entries[cookies[i].id].expires \in Ends
    BY <1>1, <1>3, <1>7, ItemFacts DEF Entry
  <2>4. ~Expired(cookies[i])
    BY <2>1, <2>2, <2>3, EndsByFacts DEF Expired
  <2> QED
    BY <2>4
<1>11. \A i \in DOMAIN cookies :
         i \in chosen /\ ~cookies[i].overlong => cookies[i].id \in DOMAIN e
  BY <1>3 DEF Agree, Expired
<1> HIDE DEF e
<1>8. /\ Selected(cookies, chosen) \in SetCookies
      /\ Agree(e, Selected(cookies, chosen))
      /\ \A t : /\ Timely(j.entries, cookies, t)
                /\ \A id \in DOMAIN e : e[id].creation <= e[id].lastAccess
                => Timely(e, Selected(cookies, chosen), t)
  <2> HIDE DEF chosen
  <2> QED
    BY <1>1, <1>5, <1>6, <1>7, <1>11, KeepsAgrees
<1>9. Timely(j.entries, cookies, now) =>
        \A id \in DOMAIN e : e[id].creation <= e[id].lastAccess
  <2> HIDE DEF kept
  <2> QED
    BY <1>3, <1>4 DEF Timely
<1>10. Remaining(cookies) = Selected(cookies, chosen)
  BY DEF Remaining
<1> HIDE DEF chosen
<1> QED
  BY <1>1, <1>2, <1>3, <1>5, <1>6, <1>8, <1>9, <1>10 DEF Jars

\* So does a removal.
LEMMA WithoutAgrees ==
  ASSUME NEW j \in Jars, NEW cookies \in SetCookies, Agree(j.entries, cookies), NEW gone
  PROVE  /\ Without(j, gone) \in Jars
         /\ Without(j, gone).next = j.next
         /\ Keeps(Without(j, gone).entries, j.entries)
         /\ WithoutId(cookies, gone) \in SetCookies
         /\ Agree(Without(j, gone).entries, WithoutId(cookies, gone))
         /\ \A t : Timely(j.entries, cookies, t) =>
              Timely(Without(j, gone).entries, WithoutId(cookies, gone), t)
<1> DEFINE kept == DOMAIN j.entries \ {gone}
           e == [id \in kept |-> j.entries[id]]
           chosen == {i \in DOMAIN cookies : cookies[i].id # gone}
<1>1. /\ j = [entries |-> j.entries, next |-> j.next]
      /\ j.entries \in Contents /\ j.next \in Nat
      /\ DOMAIN j.entries \subseteq Ids
      /\ \A id \in DOMAIN j.entries : j.entries[id] \in Entry
  BY JarFacts
<1>2. Without(j, gone) = [entries |-> e, next |-> j.next]
  <2>1. Without(j, gone) = [j EXCEPT !.entries = e]
    BY DEF Without
  <2> HIDE DEF e
  <2> QED
    BY <1>1, <2>1
<1>3. /\ kept \subseteq DOMAIN j.entries /\ DOMAIN e = kept
      /\ \A id \in kept : e[id] = j.entries[id]
      /\ e = [id \in DOMAIN e |-> e[id]]
  OBVIOUS
<1>4. \A i \in DOMAIN cookies :
        /\ cookies[i].id \in DOMAIN e => i \in chosen
        /\ i \in chosen /\ ~cookies[i].overlong => cookies[i].id \in DOMAIN e
  BY DEF Agree
<1> HIDE DEF e, kept
<1>5. e \in Contents
  BY <1>1, <1>3, ContentsFacts
<1>6. Keeps(e, j.entries)
  BY <1>3 DEF Keeps
<1>7. /\ Selected(cookies, chosen) \in SetCookies
      /\ Agree(e, Selected(cookies, chosen))
      /\ \A t : /\ Timely(j.entries, cookies, t)
                /\ \A id \in DOMAIN e : e[id].creation <= e[id].lastAccess
                => Timely(e, Selected(cookies, chosen), t)
  <2> HIDE DEF chosen
  <2> QED
    BY <1>1, <1>4, <1>5, <1>6, KeepsAgrees
<1>8. \A t : Timely(j.entries, cookies, t) =>
        \A id \in DOMAIN e : e[id].creation <= e[id].lastAccess
  BY <1>3 DEF Timely
<1>9. WithoutId(cookies, gone) = Selected(cookies, chosen)
  BY DEF WithoutId
<1> HIDE DEF chosen
<1> QED
  BY <1>1, <1>2, <1>5, <1>6, <1>7, <1>8, <1>9 DEF Jars

SetAgain(c, ends, long) == [c EXCEPT !.expires = ends, !.overlong = @ \/ long]

LEMMA SetAgainFacts ==
  ASSUME NEW c \in Item, NEW ends \in Ends, NEW long \in BOOLEAN
  PROVE  /\ SetAgain(c, ends, long) \in Item
         /\ SetAgain(c, ends, long).id = c.id
         /\ SetAgain(c, ends, long).expires = ends
         /\ SetAgain(c, ends, long).overlong = (c.overlong \/ long)
<1>1. /\ c = [id |-> c.id, expires |-> c.expires, overlong |-> c.overlong]
      /\ c.id \in Ids /\ c.overlong \in BOOLEAN
  BY DEF Item
<1>2. (c.overlong \/ long) \in BOOLEAN
  BY <1>1
<1> QED
  BY <1>1, <1>2 DEF Item, SetAgain

\* What With does to the history of a cookie that is set again, or is new.
LEMMA WithFacts ==
  ASSUME NEW cookies \in SetCookies, NEW id \in Ids, NEW ends \in Ends,
         NEW long \in BOOLEAN
  PROVE  /\ With(cookies, id, ends, long) \in SetCookies
         /\ (\E i \in DOMAIN cookies : cookies[i].id = id) =>
              /\ DOMAIN With(cookies, id, ends, long) = DOMAIN cookies
              /\ \A i \in DOMAIN cookies :
                   /\ With(cookies, id, ends, long)[i].id = cookies[i].id
                   /\ With(cookies, id, ends, long)[i].expires =
                        IF cookies[i].id = id THEN ends ELSE cookies[i].expires
                   /\ With(cookies, id, ends, long)[i].overlong =
                        (cookies[i].overlong \/ (cookies[i].id = id /\ long))
         /\ ~(\E i \in DOMAIN cookies : cookies[i].id = id) =>
              /\ DOMAIN With(cookies, id, ends, long) = 1 .. Len(cookies) + 1
              /\ \A i \in DOMAIN cookies : With(cookies, id, ends, long)[i] = cookies[i]
              /\ With(cookies, id, ends, long)[Len(cookies) + 1].id = id
              /\ With(cookies, id, ends, long)[Len(cookies) + 1].expires = ends
              /\ With(cookies, id, ends, long)[Len(cookies) + 1].overlong = long
<1> DEFINE again == [i \in DOMAIN cookies |->
                       IF cookies[i].id = id THEN SetAgain(cookies[i], ends, long)
                       ELSE cookies[i]]
           new == [id |-> id, expires |-> ends, overlong |-> long]
<1>1. /\ cookies \in Seq(Item) /\ Len(cookies) \in Nat /\ DOMAIN cookies = 1 .. Len(cookies)
      /\ \A i \in DOMAIN cookies : cookies[i] \in Item
  BY DEF SetCookies
<1>2. CASE \E i \in DOMAIN cookies : cookies[i].id = id
  <2>1. With(cookies, id, ends, long) = again
    BY <1>2 DEF With, SetAgain
  <2>2. DOMAIN again = DOMAIN cookies
    OBVIOUS
  <2>3. ASSUME NEW i \in DOMAIN cookies
        PROVE  /\ again[i] \in Item
               /\ again[i].id = cookies[i].id
               /\ again[i].expires = IF cookies[i].id = id THEN ends ELSE cookies[i].expires
               /\ again[i].overlong = (cookies[i].overlong \/ (cookies[i].id = id /\ long))
    <3>1. cookies[i] \in Item
      BY <1>1
    <3>2. cookies[i].id = id => again[i] = SetAgain(cookies[i], ends, long)
      OBVIOUS
    <3>3. cookies[i].id # id => again[i] = cookies[i]
      OBVIOUS
    <3> HIDE DEF again
    <3>4. CASE cookies[i].id = id
      BY <3>1, <3>2, <3>4, SetAgainFacts
    <3>5. CASE cookies[i].id # id
      <4>1. cookies[i].overlong \in BOOLEAN
        BY <3>1 DEF Item
      <4> QED
        BY <3>1, <3>3, <3>5, <4>1
    <3> QED
      BY <3>4, <3>5
  <2>4. again \in Seq(Item)
    <3>1. again = [i \in 1 .. Len(cookies) |-> again[i]]
      BY <1>1
    <3> HIDE DEF again
    <3> QED
      BY <1>1, <2>3, <3>1
  <2> HIDE DEF again
  <2> QED
    BY <1>2, <2>1, <2>2, <2>3, <2>4 DEF SetCookies
<1>3. CASE ~ \E i \in DOMAIN cookies : cookies[i].id = id
  <2>1. With(cookies, id, ends, long) = Append(cookies, new)
    BY <1>3 DEF With
  <2>2. new \in Item /\ new.id = id /\ new.expires = ends /\ new.overlong = long
    BY DEF Item
  <2> HIDE DEF new
  <2>3. /\ Append(cookies, new) \in Seq(Item)
        /\ DOMAIN Append(cookies, new) = 1 .. Len(cookies) + 1
        /\ \A i \in DOMAIN cookies : Append(cookies, new)[i] = cookies[i]
        /\ Append(cookies, new)[Len(cookies) + 1] = new
    BY <1>1, <2>2
  <2> QED
    BY <1>3, <2>1, <2>2, <2>3 DEF SetCookies
<1> QED
  BY <1>2, <1>3

\* A duration is no longer than the age it was made of.
LEMMA WrappedFacts ==
  ASSUME NEW d \in Nat
  PROVE  /\ Wrapped(d) \in Int /\ Wrapped(d) <= d
         /\ ~(d >= DurationLimit) => Wrapped(d) = d
<1> DEFINE a == d + DurationLimit
           m == 2 * DurationLimit
<1>1. DurationLimit \in Nat /\ a \in Nat /\ m \in Nat \ {0}
  BY TimeAssumption
<1>2. Wrapped(d) = (a % m) - DurationLimit
  BY DEF Wrapped
<1>3. ~(d >= DurationLimit) => a \in 0 .. m - 1
  BY TimeAssumption
<1>4. a = d + DurationLimit
  OBVIOUS
<1> HIDE DEF a, m
<1>5. a % m \in 0 .. m - 1 /\ a % m <= a
  BY <1>1
<1>6. a \in 0 .. m - 1 => a % m = a
  BY <1>1
<1> DEFINE r == a % m
<1>7. r \in Int /\ r <= a /\ (a \in 0 .. m - 1 => r = a) /\ Wrapped(d) = r - DurationLimit
  BY <1>1, <1>2, <1>5, <1>6
<1> HIDE DEF r
<1> QED
  BY <1>1, <1>3, <1>4, <1>7

\* The jar ends no cookie later than the header means, and one whose age a
\* time.Duration holds when it means.
LEMMA EndsFacts ==
  ASSUME now \in Nat, NEW cookie \in Cookies
  PROVE  /\ ExpiresAt(cookie) \in Ends /\ MeantEnd(cookie) \in Ends
         /\ Overlong(cookie) \in BOOLEAN
         /\ EndsBy(ExpiresAt(cookie), MeantEnd(cookie))
         /\ ~Overlong(cookie) => ExpiresAt(cookie) = MeantEnd(cookie)
<1>1. cookie.maxAge \in Int /\ cookie.expires \in Ends
  BY CookieAssumption DEF Ends
<1>2. CASE cookie.maxAge > 0
  <2> DEFINE w == Wrapped(cookie.maxAge)
  <2>1. cookie.maxAge \in Nat
    BY <1>1, <1>2
  <2>2. w \in Int /\ w <= cookie.maxAge /\ (~(cookie.maxAge >= DurationLimit) => w = cookie.maxAge)
    BY <2>1, WrappedFacts
  <2>3. ExpiresAt(cookie) = now + w /\ MeantEnd(cookie) = now + cookie.maxAge
    BY <1>2 DEF ExpiresAt, MeantEnd
  <2> HIDE DEF w
  <2>4. now + w \in Int /\ now + cookie.maxAge \in Int /\ now + w <= now + cookie.maxAge
    BY <2>1, <2>2
  <2> QED
    BY <2>2, <2>3, <2>4, NoneAssumption DEF Ends, EndsBy, Overlong
<1>3. CASE ~(cookie.maxAge > 0)
  <2>1. ExpiresAt(cookie) = cookie.expires /\ MeantEnd(cookie) = cookie.expires
    BY <1>3 DEF ExpiresAt, MeantEnd
  <2> QED
    BY <1>1, <2>1 DEF Ends, EndsBy, Overlong
<1> QED
  BY <1>2, <1>3

\* A cookie that is set again keeps its place and its age, a new one is the
\* last and the youngest.
LEMMA StoredAgrees ==
  ASSUME now \in Nat,
         NEW cookie \in Cookies, NEW request \in RequestPaths, ~Refused(cookie.domain),
         NEW j \in Jars, NEW cookies \in SetCookies, Agree(j.entries, cookies), Numbered(j),
         NEW id, id = Id(cookie, request),
         NEW w, w = With(cookies, id, MeantEnd(cookie), Overlong(cookie))
  PROVE  /\ Stored(j, id, cookie) \in Jars
         /\ Numbered(Stored(j, id, cookie))
         /\ w \in SetCookies
         /\ Agree(Stored(j, id, cookie).entries, w)
         /\ Timely(j.entries, cookies, now) => Timely(Stored(j, id, cookie).entries, w, now)
<1> DEFINE ends == ExpiresAt(cookie)
           meant == MeantEnd(cookie)
           long == Overlong(cookie)
           known == id \in DOMAIN j.entries
           new == [hostOnly   |-> HostOnly(cookie.domain),
                   expires    |-> ends,
                   creation   |-> IF known THEN j.entries[id].creation ELSE now,
                   lastAccess |-> now,
                   seq        |-> IF known THEN j.entries[id].seq ELSE j.next]
           e == [i \in DOMAIN j.entries \cup {id} |-> IF i = id THEN new ELSE j.entries[i]]
           next == IF known THEN j.next ELSE j.next + 1
<1>1. /\ j.entries \in Contents /\ j.next \in Nat
      /\ DOMAIN j.entries \subseteq Ids
      /\ \A i \in DOMAIN j.entries : j.entries[i] \in Entry
  BY JarFacts
<1>2. /\ id \in Ids /\ Lawful(id)
      /\ HostOnly(cookie.domain) => id.domain = Host
      /\ HostOnly(cookie.domain) \in BOOLEAN
  BY IdFacts DEF HostOnly
<1>3. /\ ends \in Ends /\ meant \in Ends /\ long \in BOOLEAN
      /\ EndsBy(ends, meant)
      /\ ~long => ends = meant
  BY EndsFacts
<1>4. Stored(j, id, cookie) = [entries |-> e, next |-> next]
  BY DEF Stored
<1>5. w = With(cookies, id, meant, long)
  OBVIOUS
<1> HIDE DEF ends, meant, long
<1>6. /\ new \in Entry
      /\ new.hostOnly => id.domain = Host
      /\ new.expires = ends /\ new.lastAccess = now
      /\ known => new.creation = j.entries[id].creation /\ new.seq = j.entries[id].seq
      /\ ~known => new.creation = now /\ new.seq = j.next
  <2>1. known => j.entries[id].creation \in Nat /\ j.entries[id].seq \in Nat
    BY <1>1 DEF Entry
  <2> QED
    BY <1>1, <1>2, <1>3, <2>1 DEF Entry
<1> HIDE DEF new
<1>7. /\ DOMAIN e = DOMAIN j.entries \cup {id}
      /\ e[id] = new
      /\ \A i \in DOMAIN j.entries : i # id => e[i] = j.entries[i]
      /\ e = [i \in DOMAIN e |-> e[i]]
  OBVIOUS
<1> HIDE DEF e
<1>8. e \in Contents
  <2>1. DOMAIN e \subseteq Ids /\ \A i \in DOMAIN e : e[i] \in Entry
    BY <1>1, <1>2, <1>6, <1>7
  <2> QED
    BY <1>7, <2>1, ContentsFacts
<1>9. next \in Nat /\ next >= j.next /\ (~known => next = j.next + 1)
  BY <1>1
<1>10. \A i \in DOMAIN j.entries : j.entries[i].seq \in Nat /\ j.entries[i].seq < j.next
  BY <1>1 DEF Numbered, NumberedBelow, Entry
<1>11. NumberedBelow(e, next)
  <2> SUFFICES ASSUME NEW i \in DOMAIN e
               PROVE  e[i].seq < next
    BY DEF NumberedBelow
  <2>1. CASE i \in DOMAIN j.entries
    <3>1. e[i].seq = j.entries[i].seq
      BY <1>6, <1>7, <2>1
    <3> HIDE DEF next
    <3> QED
      BY <1>1, <1>9, <1>10, <2>1, <3>1
  <2>2. CASE i \notin DOMAIN j.entries
    BY <1>1, <1>6, <1>7, <1>9, <2>2
  <2> QED
    BY <2>1, <2>2
<1> HIDE DEF next
<1>12. /\ \A i \in DOMAIN j.entries :
            /\ e[i].seq = j.entries[i].seq /\ e[i].creation = j.entries[i].creation
            /\ e[i].lastAccess \in {now, j.entries[i].lastAccess}
       /\ ~known => e[id].seq = j.next /\ e[id].creation = now /\ e[id].lastAccess = now
  BY <1>6, <1>7
<1>13. \A i \in DOMAIN e : Lawful(i) /\ (e[i].hostOnly => i.domain = Host)
  BY <1>2, <1>6, <1>7 DEF Agree
<1>14. \A a, b \in DOMAIN e : e[a].seq = e[b].seq => a = b
  <2> SUFFICES ASSUME NEW a \in DOMAIN e, NEW b \in DOMAIN e, e[a].seq = e[b].seq
               PROVE  a = b
    OBVIOUS
  <2>1. CASE a \in DOMAIN j.entries /\ b \in DOMAIN j.entries
    BY <1>12, <2>1 DEF Agree
  <2>2. CASE a \notin DOMAIN j.entries \/ b \notin DOMAIN j.entries
    <3>1. \A i \in DOMAIN e : i \notin DOMAIN j.entries => i = id /\ ~known
      BY <1>7
    <3>2. \A i \in DOMAIN j.entries : e[i].seq # j.next
      BY <1>1, <1>10, <1>12
    <3> QED
      BY <1>12, <2>2, <3>1, <3>2
  <2> QED
    BY <2>1, <2>2
<1>15. \A i \in DOMAIN e : e[i].creation \in Nat
  BY <1>8, ContentsFacts DEF Entry
<1>16. Timely(j.entries, cookies, now) =>
         \A i \in DOMAIN e : e[i].creation <= e[i].lastAccess /\ e[i].creation <= now
  <2> SUFFICES ASSUME Timely(j.entries, cookies, now), NEW i \in DOMAIN e
               PROVE  e[i].creation <= e[i].lastAccess /\ e[i].creation <= now
    OBVIOUS
  <2>1. CASE i \in DOMAIN j.entries
    BY <1>12, <2>1 DEF Timely
  <2>2. CASE i \notin DOMAIN j.entries
    BY <1>7, <1>12, <2>2
  <2> QED
    BY <2>1, <2>2
<1>17. /\ \A i \in DOMAIN cookies :
            ~cookies[i].overlong => cookies[i].id \in DOMAIN j.entries
       /\ \A i, k \in DOMAIN cookies :
            i < k /\ ~cookies[i].overlong /\ ~cookies[k].overlong =>
              /\ e[cookies[i].id].seq < e[cookies[k].id].seq
              /\ Timely(j.entries, cookies, now) =>
                   e[cookies[i].id].creation <= e[cookies[k].id].creation
  BY <1>12 DEF Agree, Timely
<1>18. \A i \in DOMAIN cookies :
         /\ cookies[i].id # id /\ cookies[i].id \in DOMAIN e =>
              EndsBy(e[cookies[i].id].expires, cookies[i].expires)
         /\ cookies[i].id # id /\ ~cookies[i].overlong =>
              e[cookies[i].id].expires = cookies[i].expires
  BY <1>7 DEF Agree
<1>19. CASE \E i \in DOMAIN cookies : cookies[i].id = id
  <2>1. /\ w \in SetCookies /\ DOMAIN w = DOMAIN cookies
        /\ \A i \in DOMAIN cookies :
             /\ w[i].id = cookies[i].id
             /\ w[i].expires = IF cookies[i].id = id THEN meant ELSE cookies[i].expires
             /\ w[i].overlong = (cookies[i].overlong \/ (cookies[i].id = id /\ long))
    BY <1>2, <1>3, <1>5, <1>19, WithFacts
  <2>2. \A i \in DOMAIN w : ~w[i].overlong => ~cookies[i].overlong /\ (w[i].id = id => ~long)
    BY <2>1
  <2>3. Agree(e, w)
    <3>1. \A i \in DOMAIN e : \E k \in DOMAIN w : w[k].id = i
      <4> SUFFICES ASSUME NEW i \in DOMAIN e
                   PROVE  \E k \in DOMAIN w : w[k].id = i
        OBVIOUS
      <4>1. PICK k \in DOMAIN cookies : cookies[k].id = i
        BY <1>7, <1>19 DEF Agree
      <4> QED
        BY <2>1, <4>1
    <3>2. ASSUME NEW i \in DOMAIN w, w[i].id \in DOMAIN e
          PROVE  EndsBy(e[w[i].id].expires, w[i].expires)
      <4>1. CASE w[i].id = id
        BY <1>3, <1>6, <1>7, <2>1, <4>1
      <4>2. CASE w[i].id # id
        BY <1>18, <2>1, <3>2, <4>2
      <4> QED
        BY <4>1, <4>2
    <3>3. ASSUME NEW i \in DOMAIN w, ~w[i].overlong
          PROVE  w[i].id \in DOMAIN e /\ e[w[i].id].expires = w[i].expires
      <4>1. ~cookies[i].overlong /\ i \in DOMAIN cookies /\ w[i].id = cookies[i].id
        BY <2>1, <2>2, <3>3
      <4>2. w[i].id \in DOMAIN e
        BY <1>7, <1>17, <4>1
      <4>3. CASE w[i].id = id
        BY <1>3, <1>6, <1>7, <2>1, <2>2, <3>3, <4>2, <4>3
      <4>4. CASE w[i].id # id
        BY <1>18, <2>1, <4>1, <4>2, <4>4
      <4> QED
        BY <4>3, <4>4
    <3>4. ASSUME NEW i \in DOMAIN w, NEW k \in DOMAIN w, i < k, ~w[i].overlong, ~w[k].overlong
          PROVE  e[w[i].id].seq < e[w[k].id].seq
      BY <1>17, <2>1, <2>2, <3>4
    <3> QED
      BY <1>13, <1>14, <3>1, <3>2, <3>3, <3>4 DEF Agree
  <2>4. ASSUME Timely(j.entries, cookies, now)
        PROVE  Timely(e, w, now)
    <3>1. ASSUME NEW i \in DOMAIN w, NEW k \in DOMAIN w, i < k, ~w[i].overlong, ~w[k].overlong
          PROVE  e[w[i].id].creation <= e[w[k].id].creation
      BY <1>17, <2>1, <2>2, <2>4, <3>1
    <3> QED
      BY <1>16, <2>4, <3>1 DEF Timely
  <2> QED
    BY <1>4, <1>8, <1>9, <1>11, <2>1, <2>3, <2>4 DEF Jars, Numbered
<1>20. CASE ~ \E i \in DOMAIN cookies : cookies[i].id = id
  <2> DEFINE n == Len(cookies) + 1
  <2>1. /\ w \in SetCookies /\ DOMAIN w = 1 .. n
        /\ \A i \in DOMAIN cookies : w[i] = cookies[i]
        /\ w[n].id = id /\ w[n].expires = meant /\ w[n].overlong = long
    <3>1. /\ DOMAIN With(cookies, id, meant, long) = 1 .. n
          /\ \A i \in DOMAIN cookies : With(cookies, id, meant, long)[i] = cookies[i]
          /\ With(cookies, id, meant, long)[n].id = id
          /\ With(cookies, id, meant, long)[n].expires = meant
          /\ With(cookies, id, meant, long)[n].overlong = long
      BY <1>2, <1>3, <1>20, WithFacts
    <3>2. With(cookies, id, meant, long) \in SetCookies
      BY <1>2, <1>3, WithFacts
    <3> QED
      BY <1>5, <3>1, <3>2
  <2>2. DOMAIN cookies = 1 .. Len(cookies) /\ Len(cookies) \in Nat
    BY DEF SetCookies
  <2>3. /\ n \in DOMAIN w
        /\ \A i \in DOMAIN w : i # n => i \in DOMAIN cookies
        /\ \A i \in DOMAIN w : ~(n < i)
        /\ DOMAIN cookies \subseteq DOMAIN w
    BY <2>1, <2>2
  <2> HIDE DEF n
  <2>4. ~known
    BY <1>20 DEF Agree
  <2>5. /\ e[w[n].id] = new /\ w[n].id \in DOMAIN e
        /\ e[w[n].id].seq = j.next /\ e[w[n].id].creation = now
    BY <1>7, <1>12, <2>1, <2>4
  <2>6. \A i \in DOMAIN w : i # n =>
          /\ i \in DOMAIN cookies /\ w[i] = cookies[i] /\ w[i].id # id
          /\ ~w[i].overlong => w[i].id \in DOMAIN j.entries
    BY <1>17, <1>20, <2>1, <2>3
  <2>7. Agree(e, w)
    <3>1. \A i \in DOMAIN e : \E k \in DOMAIN w : w[k].id = i
      <4> SUFFICES ASSUME NEW i \in DOMAIN e
                   PROVE  \E k \in DOMAIN w : w[k].id = i
        OBVIOUS
      <4>1. CASE i = id
        BY <2>1, <2>3, <4>1
      <4>2. CASE i # id
        <5>1. PICK k \in DOMAIN cookies : cookies[k].id = i
          BY <1>7, <4>2 DEF Agree
        <5> QED
          BY <2>1, <2>3, <5>1
      <4> QED
        BY <4>1, <4>2
    <3>2. ASSUME NEW i \in DOMAIN w, w[i].id \in DOMAIN e
          PROVE  EndsBy(e[w[i].id].expires, w[i].expires)
      <4>1. CASE i = n
        BY <1>3, <1>6, <2>1, <2>5, <4>1
      <4>2. CASE i # n
        BY <1>18, <2>6, <3>2, <4>2
      <4> QED
        BY <4>1, <4>2
    <3>3. ASSUME NEW i \in DOMAIN w, ~w[i].overlong
          PROVE  w[i].id \in DOMAIN e /\ e[w[i].id].expires = w[i].expires
      <4>1. CASE i = n
        BY <1>3, <1>6, <2>1, <2>5, <3>3, <4>1
      <4>2. CASE i # n
        BY <1>7, <1>18, <2>6, <3>3, <4>2
      <4> QED
        BY <4>1, <4>2
    <3>4. ASSUME NEW i \in DOMAIN w, NEW k \in DOMAIN w, i < k, ~w[i].overlong, ~w[k].overlong
          PROVE  e[w[i].id].seq < e[w[k].id].seq
      <4>1. i # n
        BY <2>3, <3>4
      <4>2. CASE k = n
        BY <1>10, <1>12, <2>5, <2>6, <3>4, <4>1, <4>2
      <4>3. CASE k # n
        BY <1>17, <2>6, <3>4, <4>1, <4>3
      <4> QED
        BY <4>2, <4>3
    <3> QED
      BY <1>13, <1>14, <3>1, <3>2, <3>3, <3>4 DEF Agree
  <2>8. ASSUME Timely(j.entries, cookies, now)
        PROVE  Timely(e, w, now)
    <3>1. ASSUME NEW i \in DOMAIN w, NEW k \in DOMAIN w, i < k, ~w[i].overlong, ~w[k].overlong
          PROVE  e[w[i].id].creation <= e[w[k].id].creation
      <4>1. i # n
        BY <2>3, <3>1
      <4>2. CASE k = n
        BY <1>7, <1>16, <2>5, <2>6, <2>8, <3>1, <4>1, <4>2
      <4>3. CASE k # n
        BY <1>17, <2>6, <2>8, <3>1, <4>1, <4>3
      <4> QED
        BY <4>2, <4>3
    <3> QED
      BY <1>16, <2>8, <3>1 DEF Timely
  <2> QED
    BY <1>4, <1>8, <1>9, <1>11, <2>1, <2>7, <2>8 DEF Jars, Numbered
<1> QED
  BY <1>19, <1>20

\* Restore continues after the greatest number of the snapshot.
LEMMA RestoredAgrees ==
  ASSUME NEW entries \in Contents, NEW n \in Nat, NumberedBelow(entries, n)
  PROVE  /\ Restored(entries) \in Jars
         /\ Restored(entries).entries = entries
         /\ Numbered(Restored(entries))
<1> DEFINE used == {entries[id].seq : id \in DOMAIN entries}
           greatest == CHOOSE g \in used : \A m \in used : m <= g
           next == IF used = {} THEN 0 ELSE greatest + 1
<1>1. Restored(entries) = [entries |-> entries, next |-> next]
  BY DEF Restored
<1>2. \A id \in DOMAIN entries : entries[id] \in Entry
  BY ContentsFacts
<1>3. \A id \in DOMAIN entries : entries[id].seq \in Nat /\ entries[id].seq \in used
  BY <1>2 DEF Entry
<1>4. used \in SUBSET Nat
  BY <1>3
<1>5. \A m \in used : m <= n
  BY <1>3 DEF NumberedBelow
<1> HIDE DEF used
<1>6. ASSUME used # {}
      PROVE  greatest \in used /\ \A m \in used : m <= greatest
  <2>1. \E g \in used : \A m \in used : m <= g
    BY <1>4, <1>5, <1>6, GreatestElement
  <2> QED
    BY <2>1
<1> HIDE DEF greatest
<1>7. next \in Nat /\ \A m \in used : m < next
  <2>1. CASE used = {}
    BY <2>1
  <2>2. CASE used # {}
    <3>1. greatest \in Nat /\ next = greatest + 1
      BY <1>4, <1>6, <2>2
    <3>2. ASSUME NEW m \in used
          PROVE  m < next
      <4>1. m \in Nat /\ m <= greatest
        BY <1>4, <1>6, <2>2
      <4> QED
        BY <3>1, <4>1
    <3> QED
      BY <3>1, <3>2
  <2> QED
    BY <2>1, <2>2
<1> HIDE DEF next
<1> QED
  BY <1>1, <1>3, <1>7 DEF Jars, Numbered, NumberedBelow

-----------------------------------------------------------------------------
(* The invariant holds. *)

LEMMA Initial == Init => Inv
<1> SUFFICES ASSUME Init PROVE Inv
  OBVIOUS
<1>1. ClockInv
  <2>1. now \in 1 .. MaxTime
    BY TimeAssumption DEF Init
  <2>2. rewound \in BOOLEAN
    BY DEF Init
  <2> QED
    BY <2>1, <2>2 DEF ClockInv
<1>2. JarInv /\ FileInv
  BY EmptyFacts DEF Init, JarInv, FileInv
<1> QED
  BY <1>1, <1>2 DEF Inv

LEMMA OpenStep ==
  ASSUME Inv, Open
  PROVE  Inv'
<1> now \in Nat
  BY DEF Inv, ClockInv
<1>1. ClockInv' /\ FileInv'
  BY DEF Inv, ClockInv, FileInv, Open
<1>2. CASE file = None
  <2>1. jar' = Empty /\ set' = <<>> /\ now' = now /\ rewound' = rewound
    BY <1>2 DEF Open
  <2>2. JarInv'
    BY <2>1, EmptyFacts DEF JarInv
  <2> QED
    BY <1>1, <2>2 DEF Inv
<1>3. CASE file # None
  <2>1. /\ jar' = Asked(Restored(file), Root) /\ set' = Remaining(setSaved)
        /\ now' = now /\ rewound' = rewound
    BY <1>3 DEF Open
  <2>2. /\ file \in Contents /\ setSaved \in SetCookies /\ Agree(file, setSaved)
        /\ \E n \in Nat : NumberedBelow(file, n)
        /\ ~rewound => Timely(file, setSaved, now)
    BY <1>3 DEF Inv, FileInv
  <2>3. /\ Restored(file) \in Jars /\ Restored(file).entries = file
        /\ Numbered(Restored(file))
    BY <2>2, RestoredAgrees
  <2>4. /\ jar' \in Jars /\ set' \in SetCookies
        /\ jar'.next = Restored(file).next
        /\ Keeps(jar'.entries, Restored(file).entries)
        /\ Agree(jar'.entries, set')
        /\ ~rewound' => Timely(jar'.entries, set', now')
    BY <2>1, <2>2, <2>3, AskedAgrees
  <2>5. Numbered(jar')
    BY <2>3, <2>4 DEF Numbered, NumberedBelow, Keeps
  <2>6. JarInv'
    BY <2>4, <2>5 DEF JarInv
  <2> QED
    BY <1>1, <2>6 DEF Inv
<1> QED
  BY <1>2, <1>3

\* A look keeps what holds of the jar.
LEMMA LookStep ==
  ASSUME Inv, jar # None, NEW path,
         jar' = Asked(jar, path), set' = Remaining(set), now' = now, rewound' = rewound
  PROVE  /\ JarInv'
         /\ jar'.entries \in Contents /\ Agree(jar'.entries, set') /\ set' \in SetCookies
         /\ \E n \in Nat : NumberedBelow(jar'.entries, n)
         /\ ~rewound' => Timely(jar'.entries, set', now')
<1> now \in Nat
  BY DEF Inv, ClockInv
<1>1. /\ jar \in Jars /\ set \in SetCookies /\ Agree(jar.entries, set) /\ Numbered(jar)
      /\ ~rewound => Timely(jar.entries, set, now)
  BY DEF Inv, JarInv
<1>2. /\ jar' \in Jars /\ set' \in SetCookies
      /\ jar'.next = jar.next
      /\ Keeps(jar'.entries, jar.entries)
      /\ Agree(jar'.entries, set')
      /\ ~rewound' => Timely(jar'.entries, set', now')
  BY <1>1, AskedAgrees
<1>3. Numbered(jar')
  BY <1>1, <1>2 DEF Numbered, NumberedBelow, Keeps
<1>4. jar'.entries \in Contents /\ jar'.next \in Nat /\ NumberedBelow(jar'.entries, jar'.next)
  BY <1>2, <1>3 DEF Jars, Numbered
<1> QED
  BY <1>2, <1>3, <1>4 DEF JarInv

LEMMA SetCookieStep ==
  ASSUME Inv, NEW request \in RequestPaths, NEW cookie \in Cookies, SetCookie(request, cookie)
  PROVE  Inv'
<1> DEFINE id == Id(cookie, request)
<1> now \in Nat
  BY DEF Inv, ClockInv
<1>1. /\ jar # None /\ ~Refused(cookie.domain) /\ now' = now /\ rewound' = rewound
      /\ \/ jar' = Without(jar, id) /\ set' = WithoutId(set, id)
         \/ /\ jar' = Stored(jar, id, cookie)
            /\ set' = With(set, id, MeantEnd(cookie), Overlong(cookie))
  BY DEF SetCookie
<1>2. /\ jar \in Jars /\ set \in SetCookies /\ Agree(jar.entries, set) /\ Numbered(jar)
      /\ ~rewound => Timely(jar.entries, set, now)
  BY <1>1 DEF Inv, JarInv
<1>3. ClockInv' /\ FileInv'
  BY DEF Inv, ClockInv, FileInv, SetCookie
<1>4. /\ jar' \in Jars /\ set' \in SetCookies /\ Agree(jar'.entries, set')
      /\ Numbered(jar')
      /\ ~rewound' => Timely(jar'.entries, set', now')
  <2>1. CASE jar' = Without(jar, id) /\ set' = WithoutId(set, id)
    <3> HIDE DEF id
    <3>1. /\ jar' \in Jars /\ jar'.next = jar.next /\ Keeps(jar'.entries, jar.entries)
          /\ set' \in SetCookies /\ Agree(jar'.entries, set')
          /\ \A t : Timely(jar.entries, set, t) => Timely(jar'.entries, set', t)
      BY <1>2, <2>1, WithoutAgrees
    <3>2. Numbered(jar')
      BY <1>2, <3>1 DEF Numbered, NumberedBelow, Keeps
    <3> QED
      BY <1>1, <1>2, <3>1, <3>2
  <2>2. CASE /\ jar' = Stored(jar, id, cookie)
             /\ set' = With(set, id, MeantEnd(cookie), Overlong(cookie))
    <3>1. id = Id(cookie, request)
      OBVIOUS
    <3> HIDE DEF id
    <3> QED
      BY <1>1, <1>2, <2>2, <3>1, StoredAgrees
  <2> QED
    BY <1>1, <2>1, <2>2
<1>5. JarInv'
  BY <1>4 DEF JarInv
<1> QED
  BY <1>3, <1>5 DEF Inv

LEMMA ClockStep ==
  ASSUME Inv, Tick \/ \E d \in StepsBack : SetBack(d)
  PROVE  Inv'
<1>1. CASE Tick
  <2>1. /\ now \in Nat /\ now' = now + 1
        /\ UNCHANGED <<jar, file, set, setSaved, rewound>>
    BY <1>1 DEF Tick, Inv, ClockInv
  <2>2. ClockInv'
    BY <1>1, TimeAssumption DEF Inv, ClockInv, Tick
  <2>3. \A entries \in Contents : \A cookies :
          Timely(entries, cookies, now) => Timely(entries, cookies, now')
    <3> SUFFICES ASSUME NEW entries \in Contents, NEW cookies, Timely(entries, cookies, now)
                 PROVE  Timely(entries, cookies, now')
      OBVIOUS
    <3>1. \A id \in DOMAIN entries : entries[id].creation \in Nat
      BY ContentsFacts DEF Entry
    <3> QED
      BY <2>1, <3>1 DEF Timely
  <2>4. JarInv'
    BY <2>1, <2>3 DEF Inv, JarInv, Jars
  <2>5. FileInv'
    BY <2>1, <2>3 DEF Inv, FileInv
  <2> QED
    BY <2>2, <2>4, <2>5 DEF Inv
<1>2. ASSUME NEW d \in StepsBack, SetBack(d)
      PROVE  Inv'
  <2>1. /\ jar = None /\ now' = now - d /\ now > d
        /\ rewound' = (rewound \/ (file # None /\ \E id \in DOMAIN file : now' < file[id].creation))
        /\ UNCHANGED <<jar, file, set, setSaved>>
    BY <1>2 DEF SetBack
  <2>2. now \in 1 .. MaxTime /\ d \in Nat /\ MaxTime \in Nat
    BY TimeAssumption DEF Inv, ClockInv
  <2>3. ClockInv'
    <3>1. now' \in 1 .. MaxTime
      BY <2>1, <2>2
    <3>2. rewound' \in BOOLEAN
      BY <2>1 DEF Inv, ClockInv
    <3> QED
      BY <3>1, <3>2 DEF ClockInv
  <2>4. JarInv'
    BY <2>1 DEF Inv, JarInv
  <2>5. ASSUME file # None, ~rewound'
        PROVE  Timely(file, setSaved, now')
    <3>1. ~rewound /\ \A id \in DOMAIN file : ~(now' < file[id].creation)
      BY <2>1, <2>5
    <3>2. file \in Contents /\ Timely(file, setSaved, now)
      BY <2>5, <3>1 DEF Inv, FileInv
    <3>3. \A id \in DOMAIN file : file[id].creation \in Nat
      BY <3>2, ContentsFacts DEF Entry
    <3>4. now' \in Nat
      BY <2>1, <2>2
    <3>5. \A id \in DOMAIN file : file[id].creation <= now'
      BY <3>1, <3>3, <3>4
    <3> QED
      BY <3>2, <3>5 DEF Timely
  <2>6. FileInv'
    BY <2>1, <2>5 DEF Inv, FileInv
  <2> QED
    BY <2>3, <2>4, <2>6 DEF Inv
<1> QED
  BY <1>1, <1>2

LEMMA Inductive == Inv /\ [Next]_vars => Inv'
<1> SUFFICES ASSUME Inv, [Next]_vars
             PROVE  Inv'
  OBVIOUS
<1>1. CASE OpenFresh
  <2>1. jar' = Empty /\ set' = <<>> /\ UNCHANGED <<now, file, setSaved, rewound>>
    BY <1>1 DEF OpenFresh
  <2>2. JarInv'
    BY <2>1, EmptyFacts DEF JarInv
  <2>3. ClockInv' /\ FileInv'
    BY <2>1 DEF Inv, ClockInv, FileInv
  <2> QED
    BY <2>2, <2>3 DEF Inv
<1>2. ASSUME NEW path \in RequestPaths, Request(path)
      PROVE  Inv'
  <2>1. /\ jar # None /\ jar' = Asked(jar, path) /\ set' = Remaining(set)
        /\ UNCHANGED <<now, file, setSaved, rewound>>
    BY <1>2 DEF Request
  <2>2. JarInv'
    BY <2>1, LookStep
  <2>3. ClockInv' /\ FileInv'
    BY <2>1 DEF Inv, ClockInv, FileInv
  <2> QED
    BY <2>2, <2>3 DEF Inv
<1>3. CASE Save
  <2>1. /\ jar # None /\ jar' = Asked(jar, Root) /\ set' = Remaining(set)
        /\ file' = jar'.entries /\ setSaved' = set' /\ now' = now /\ rewound' = rewound
    BY <1>3 DEF Save
  <2>2. /\ JarInv'
        /\ jar'.entries \in Contents /\ Agree(jar'.entries, set') /\ set' \in SetCookies
        /\ \E n \in Nat : NumberedBelow(jar'.entries, n)
        /\ ~rewound' => Timely(jar'.entries, set', now')
    BY <2>1, LookStep
  <2>3. FileInv'
    BY <2>1, <2>2 DEF FileInv
  <2>4. ClockInv'
    BY <2>1 DEF Inv, ClockInv
  <2> QED
    BY <2>2, <2>3, <2>4 DEF Inv
<1>4. CASE Close
  <2>1. JarInv'
    BY <1>4, EmptyFacts DEF JarInv, Close
  <2>2. ClockInv' /\ FileInv'
    BY <1>4 DEF Inv, ClockInv, FileInv, Close
  <2> QED
    BY <2>1, <2>2 DEF Inv
<1>5. CASE ResetSession
  <2>1. FileInv'
    BY <1>5, EmptyFacts DEF FileInv, ResetSession
  <2>2. JarInv' /\ ClockInv'
    BY <1>5 DEF Inv, JarInv, ClockInv, ResetSession
  <2> QED
    BY <2>1, <2>2 DEF Inv
<1>6. CASE UNCHANGED vars
  BY <1>6 DEF vars, Inv, ClockInv, JarInv, FileInv
<1> QED
  BY <1>1, <1>2, <1>3, <1>4, <1>5, <1>6, OpenStep, SetCookieStep, ClockStep DEF Next

LEMMA InvHolds == Spec => []Inv
BY Initial, Inductive, PTL DEF Spec

\* Every variable keeps its type, and a jar numbers its next cookie after all
\* others, restored or not (jar.go:153-177, 370-385).
THEOREM TypeCorrect == Spec => []TypeOK
<1>1. Inv => TypeOK
  <2> SUFFICES ASSUME Inv PROVE TypeOK
    OBVIOUS
  <2>1. now \in 1 .. MaxTime /\ rewound \in BOOLEAN
    BY DEF Inv, ClockInv
  <2>2. ASSUME jar # None
        PROVE  /\ DOMAIN jar.entries \subseteq Ids
               /\ \A id \in DOMAIN jar.entries : jar.entries[id].seq \in 0 .. jar.next - 1
    <3>1. jar \in Jars /\ Numbered(jar)
      BY <2>2 DEF Inv, JarInv
    <3>2. ASSUME NEW id \in DOMAIN jar.entries
          PROVE  jar.entries[id].seq \in 0 .. jar.next - 1
      <4>1. jar.entries[id].seq \in Nat /\ jar.next \in Nat
        BY <3>1, JarFacts DEF Entry
      <4>2. jar.entries[id].seq < jar.next
        BY <3>1 DEF Numbered, NumberedBelow
      <4> QED
        BY <4>1, <4>2
    <3> QED
      BY <3>1, <3>2, JarFacts
  <2>3. file # None => DOMAIN file \subseteq Ids
    BY ContentsFacts DEF Inv, FileInv
  <2>4. ASSUME NEW cookies \in {set, setSaved}, NEW i \in DOMAIN cookies
        PROVE  cookies[i].id \in Ids
    <3>1. cookies \in SetCookies
      BY DEF Inv, JarInv, FileInv
    <3> QED
      BY <3>1, ItemFacts
  <2> QED
    BY <2>1, <2>2, <2>3, <2>4 DEF TypeOK
<1> QED
  BY <1>1, InvHolds, PTL

\* A request carries what the portal set and that has not ended, and the cookies
\* of one path in the order in which they were first set, through any number of
\* commands that save, restore and number them anew.  For any Max-Age nothing is
\* sent longer than its header means; what may be missing, or out of its place,
\* was given an age that no time.Duration holds (jar.go:153-177, 309-319,
\* 370-385, 514).
THEOREM PortalsOwn == Spec => []SentAsSet
<1>1. Inv => SentAsSet
  <2> SUFFICES ASSUME Inv, jar # None
               PROVE  SentAsSet
    BY DEF SentAsSet
  <2>1. /\ Agree(jar.entries, set) /\ jar \in Jars /\ set \in SetCookies
        /\ ~rewound => Timely(jar.entries, set, now)
        /\ now \in Nat
    BY DEF Inv, JarInv, ClockInv
  <2>2. ASSUME NEW path \in RequestPaths
        PROVE  Sendable(path) \subseteq Due(path)
    <3> SUFFICES ASSUME NEW id \in Sendable(path)
                 PROVE  id \in Due(path)
      OBVIOUS
    <3>1. id \in DOMAIN jar.entries /\ ~Expired(jar.entries[id]) /\ PathMatch(id.path, path)
      BY DEF Sendable
    <3>2. PICK i \in DOMAIN set : set[i].id = id
      BY <2>1, <3>1 DEF Agree
    <3>3. EndsBy(jar.entries[id].expires, set[i].expires)
      BY <2>1, <3>1, <3>2 DEF Agree
    <3>4. jar.entries[id].expires \in Ends /\ set[i].expires \in Ends
      BY <2>1, <3>1, JarFacts, ItemFacts DEF Entry
    <3>5. Live(i)
      BY <2>1, <3>1, <3>3, <3>4, EndsByFacts DEF Live, Expired
    <3> QED
      BY <3>1, <3>2, <3>5 DEF Due
  <2>3. ASSUME NEW path \in RequestPaths
        PROVE  Due(path) \ Sendable(path) \subseteq
                 {set[i].id : i \in {j \in DOMAIN set : set[j].overlong}}
    <3> DEFINE long == {j \in DOMAIN set : set[j].overlong}
    <3> SUFFICES ASSUME NEW id \in Due(path), id \notin Sendable(path)
                 PROVE  id \in {set[i].id : i \in long}
      OBVIOUS
    <3>1. PICK i \in DOMAIN set : Live(i) /\ PathMatch(id.path, path) /\ set[i].id = id
      BY DEF Due
    <3>2. ASSUME ~set[i].overlong
          PROVE  FALSE
      <4>1. id \in DOMAIN jar.entries /\ jar.entries[id].expires = set[i].expires
        BY <2>1, <3>1, <3>2 DEF Agree
      <4>2. ~Expired(jar.entries[id])
        BY <3>1, <4>1 DEF Live, Expired
      <4> QED
        BY <3>1, <4>1, <4>2 DEF Sendable
    <3>3. i \in long
      BY <3>2
    <3> HIDE DEF long
    <3> QED
      BY <3>1, <3>3
  <2>4. ASSUME ~rewound, NEW i \in DOMAIN set, NEW j \in DOMAIN set, i < j,
               ~set[i].overlong, ~set[j].overlong, set[i].id.path = set[j].id.path
        PROVE  SentBefore(jar.entries, set[i].id, set[j].id)
    <3> DEFINE a == jar.entries[set[i].id]
               b == jar.entries[set[j].id]
    <3>1. a \in Entry /\ b \in Entry
      <4>1. set[i].id \in DOMAIN jar.entries /\ set[j].id \in DOMAIN jar.entries
        BY <2>1, <2>4 DEF Agree
      <4> QED
        BY <2>1, <4>1, JarFacts
    <3>2. a.creation <= b.creation /\ a.seq < b.seq
      BY <2>1, <2>4 DEF Agree, Timely
    <3>3. a.creation \in Nat /\ b.creation \in Nat
      BY <3>1 DEF Entry
    <3>4. a.creation < b.creation \/ a.creation = b.creation
      <4> HIDE DEF a, b
      <4> QED
        BY <3>2, <3>3
    <3> QED
      BY <2>4, <3>2, <3>4 DEF SentBefore
  <2> QED
    BY <2>2, <2>3, <2>4 DEF SentAsSet
<1> QED
  BY <1>1, InvHolds, PTL

\* Of the cookies of one request that with the longer path goes first, whatever
\* characters the paths are made of (jar.go:309-319).
THEOREM LongestFirst == Spec => []LongestPathFirst
<1>1. Inv => LongestPathFirst
  <2> SUFFICES ASSUME Inv, jar # None, NEW path \in RequestPaths,
                      NEW a \in Sendable(path), NEW b \in Sendable(path),
                      Len(a.path) > Len(b.path)
               PROVE  SentBefore(jar.entries, a, b)
    BY DEF LongestPathFirst
  <2>1. /\ a \in DOMAIN jar.entries /\ b \in DOMAIN jar.entries
        /\ PathMatch(a.path, path) /\ PathMatch(b.path, path)
    BY DEF Sendable
  <2>2. a \in Ids /\ b \in Ids
    BY <2>1, JarFacts DEF Inv, JarInv
  <2>3. a.path \in Seq(Nat) /\ b.path \in Seq(Nat) /\ path \in Seq(Nat)
    BY <2>2, PathsOfIds, PathAssumption
  <2>4. Len(b.path) < Len(a.path)
    BY <2>3
  <2>5. Precedes(b.path, a.path)
    BY <2>1, <2>3, <2>4, LongerPathPrecedes
  <2> QED
    BY <2>5 DEF SentBefore
<1> QED
  BY <1>1, InvHolds, PTL

\* The next command can load what the last one saved, for any headers of the
\* portal, any request paths and any number of commands, unless the clock was set
\* back past the creation of a saved cookie or a cookie was set, without a path of
\* its own, in a directory that no cookie may name (jar.go:347, session.go:84-111,
\* 116-124).
THEOREM SessionLoads == Spec => []SavedSessionLoads
<1>1. Inv => SavedSessionLoads
  <2> SUFFICES ASSUME Inv, file # None, ~rewound,
                      \A id \in DOMAIN file : id.path \notin StrangePaths
               PROVE  Loads(file)
    BY DEF SavedSessionLoads
  <2>1. Agree(file, setSaved) /\ Timely(file, setSaved, now)
    BY DEF Inv, FileInv
  <2> QED
    BY <2>1 DEF Agree, Timely, Lawful, Loads
<1> QED
  BY <1>1, InvHolds, PTL
=============================================================================
