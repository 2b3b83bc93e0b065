--------------------------- MODULE MCHttpTransfer ---------------------------
(* A finite instance of HttpTransfer: an origin with two URLs, another origin, a   *)
(* host whose name resolves to public and private addresses by turns, and a URL    *)
(* that is not allowed.                                                            *)
EXTENDS HttpTransfer

MCUrls == {"a", "a2", "b", "inside", "outside"}
MCOrigin == [u \in MCUrls |-> IF u = "a2" THEN "a" ELSE u]
MCAllowed == MCUrls \ {"outside"}
MCLookups ==
  [u \in MCUrls |-> IF u = "inside" THEN {{}, {"public"}, {"private"}, {"public", "private"}}
                    ELSE {{"public"}}]
MCHookUrls == {"outside"}
MCNames == {"authorization", "x-key"}
MCSensitive == {"authorization"}

\* A key injected for the first origin, a bearer token in place of a placeholder there,
\* and a token injected for the other origin.
MCRules ==
  <<[urls |-> {"a", "a2"}, name |-> "x-key", placeholder |-> None, secret |-> "key"],
    [urls |-> {"a", "a2"}, name |-> "authorization", placeholder |-> "holder",
     secret |-> "token"],
    [urls |-> {"inside"}, name |-> "authorization", placeholder |-> None,
     secret |-> "inner"]>>

Line(tool, url, authorization, maxTime) ==
  [tool |-> tool, url |-> url, maxTime |-> maxTime, follow |-> tool = "curl",
   headers |-> [n \in MCNames |-> IF n = "authorization" THEN authorization ELSE Absent],
   post |-> authorization = Own, fail |-> FALSE, compressed |-> FALSE,
   connectTimeout |-> FALSE]

MCCommands ==
  {Line("curl", "a", "holder", 0), Line("curl", "b", Own, None), Line("http", "a", Own, None),
   [Line("wget", "inside", "holder", 3) EXCEPT !.connectTimeout = TRUE],
   [Line("curl", "a2", Own, None) EXCEPT !.fail = TRUE, !.compressed = TRUE]}

MCClients == [handler : BOOLEAN, blockPrivate : BOOLEAN, timeout : {1}]

=============================================================================
