----------------------------- MODULE MCCookieJar -----------------------------
(* An instance of CookieJar for TLC. *)
EXTENDS CookieJar

PortalHost == <<"moj", "esdnevnik", "rs">>
PublicSuffixes == {<<"rs">>, <<"co", "rs">>}

\* '/' is 47 and ';' is 59.  The default paths are "/" and, of a directory that
\* no cookie may name, "/;".
RequestedPaths == {<<47>>, <<47, 59, 47, 33>>}

OneStepBack == {1}

Attributes(domain, path, ages, ends) ==
  [name : {"session"}, domain : {domain}, path : {path}, maxAge : ages, expires : ends]

\* A cookie whose age wraps from 7 to 1 and that is missing when it ends, one
\* that ends at 2, a session cookie and removals; of the host, of its domain, and
\* of domains that are refused.
Headers ==
  UNION {Attributes(None, <<47>>, {7}, {None}),
         Attributes(None, <<47>>, {0}, {2}),
         Attributes(<<"esdnevnik", "rs">>, None, {-1, 0}, {None}),
         Attributes(<<"rs">>, None, {0}, {None}),
         Attributes(<<"other", "rs">>, None, {0}, {None})}
=============================================================================
