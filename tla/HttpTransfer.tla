---------------------------- MODULE HttpTransfer ----------------------------
(***************************************************************************)
(* One network command of a script: what curl, wget and http do around     *)
(* HttpClient (network/client.rs, network/allowlist.rs, credential.rs,     *)
(* builtins/curl.rs, builtins/http.rs).  A request is checked, goes through *)
(* the before_http hooks, is checked again and is sent; curl -L sends the  *)
(* next one when the answer is a redirect.  The names of hosts are looked  *)
(* up at each check and once more to connect, and may resolve differently  *)
(* every time.  Servers, resolvers and the host's hooks are the            *)
(* environment: they answer anything, late or never.                       *)
(***************************************************************************)
EXTENDS Naturals, Sequences

CONSTANTS Urls, Origin, Allowed,   \* Origin[u]; what NetworkAllowlist.check lets through
          Lookups,                 \* Lookups[u]: the results a lookup of u's host may have
          HookUrls,                \* what a before_http hook of the host may rewrite to
          Names, Sensitive,        \* header names; SENSITIVE_HEADERS of curl.rs
          Own, Absent,             \* a header value of the script; no such header
          Rules,                   \* credential rules, in the order they were added
          Commands,                \* the command lines of an instance
          Clients,                 \* the configurations of HttpClient
          MaxResponse, MaxRedirects, DefaultTimeout, MaxTimeout,
          None

Addresses == {"public", "private"}
Secrets == {Rules[i].secret : i \in DOMAIN Rules}
Placeholders == {Rules[i].placeholder : i \in DOMAIN Rules} \ {None}
Values == {Own, Absent} \union Placeholders \union Secrets
Headers == [Names -> Values]
Tools == {"curl", "wget", "http"}
Statuses == {"ok", "error", "see_other", "temporary"}
Stages == {"idle", "check", "hooks", "recheck", "send", "wait", "body", "answered"}
Verdicts == {"done", "denied", "cancelled", "timeout", "too_large", "failed",
             "redirects", "http_error"}

ASSUME UrlsAssumption ==
  /\ Allowed \subseteq Urls
  /\ HookUrls \subseteq Urls
  /\ Origin \in [Urls -> Urls]
  /\ Lookups \in [Urls -> SUBSET SUBSET Addresses]
  /\ \A u \in Urls : Lookups[u] # {}
ASSUME HeadersAssumption ==
  /\ Sensitive \subseteq Names
  /\ Len(Rules) \in Nat /\ DOMAIN Rules = 1 .. Len(Rules)
  /\ \A i \in DOMAIN Rules : Rules[i].urls \subseteq Urls /\ Rules[i].name \in Names
  /\ Secrets \intersect ({Own, Absent, None} \union Placeholders) = {}
  /\ Absent \notin {Own} \union Placeholders
ASSUME CommandsAssumption ==
  \A c \in Commands :
    /\ c.tool \in Tools /\ c.url \in Urls /\ c.headers \in Headers
    /\ \A n \in Names : c.headers[n] \notin Secrets
    /\ c.maxTime \in Nat \union {None}
    /\ {c.follow, c.post, c.fail, c.compressed, c.connectTimeout} \subseteq BOOLEAN
    /\ c.tool # "curl" => ~c.follow /\ ~c.fail /\ ~c.compressed
ASSUME BoundsAssumption ==
  /\ MaxResponse \in Nat /\ MaxRedirects \in Nat
  /\ DefaultTimeout \in Nat \ {0} /\ MaxTimeout \in Nat \ {0}
  /\ \A c \in Clients : /\ {c.handler, c.blockPrivate} \subseteq BOOLEAN
                        /\ c.timeout \in Nat \ {0}

VARIABLES client,    \* HttpClient: handler, block_private_ips, default_timeout
          command,   \* the arguments of the command that runs
          curl,      \* current_url, current_method, current_headers, redirect_count
          stage,     \* which await the command is at
          request,   \* the request and what the hooks made of it so far, how many rules
                     \* it went through, and the address it went to
          answer,    \* status and Location of the response
          received,  \* bytes of the body so far
          waited,    \* time since the request was sent
          outcome    \* how the last command ended, and the bytes it had for output

vars == <<client, command, curl, stage, request, answer, received, waited, outcome>>

Event(url, headers) ==
  [url |-> url, headers |-> headers, rules |-> 0, rewritten |-> FALSE, address |-> None]
NoRequest == Event(None, [n \in Names |-> Absent])
NoAnswer == [status |-> "ok", location |-> None]

----------------------------------------------------------------------------
(* What the code computes.                                                 *)

\* check_allowlist and check_private_ip: a lookup that fails finds nothing, and passes.
Denied(url, found) ==
  url \notin Allowed \/ (client.blockPrivate /\ "private" \in found)

\* The resolver of the reqwest client drops private addresses when it connects.
Dialable(found) == IF client.blockPrivate THEN found \ {"private"} ELSE found

\* One credential rule of the hook of CredentialPolicy: overwrite, or put the secret in
\* place of the placeholder in the credential's own header.
Applied(headers, url, rule) ==
  IF /\ url \in rule.urls
     /\ rule.placeholder # None => headers[rule.name] = rule.placeholder
  THEN [headers EXCEPT ![rule.name] = rule.secret]
  ELSE headers

\* The headers of the next hop: sensitive ones only stay with their origin.
Stripped(headers, from, to) ==
  IF Origin[from] = Origin[to] THEN headers
  ELSE [n \in Names |-> IF n \in Sensitive THEN Absent ELSE headers[n]]

\* Mutants of the definitions below, each a plausible slip.
HeadersOfTheCommand(to) == Stripped(command.headers, curl.url, to)
ChunkTooLong(n) == n > MaxResponse
SameRedirect == 1
UrlOfTheCommand == curl.url

HopHeaders(to) == Stripped(curl.headers, curl.url, to)

\* clamp_timeout, and which timeout a request gets.
Clamped(t) == IF t < 1 THEN 1 ELSE IF t > MaxTimeout THEN MaxTimeout ELSE t

RequestTimeout ==
  IF command.tool = "http" THEN client.timeout
  ELSE IF command.maxTime # None THEN Clamped(command.maxTime)
  ELSE IF client.handler \/ command.connectTimeout THEN DefaultTimeout
  ELSE client.timeout

\* read_body_with_limit: does another chunk of n bytes pass the limit?
TooLong(n) == received + n > MaxResponse

NextRedirect == curl.redirects + 1

\* Which URL a check looks at: what curl asks for, and after the hooks what they made of it.
CheckedUrl == IF stage = "check" THEN curl.url ELSE request.url

----------------------------------------------------------------------------
(* The steps of a command.                                                 *)

Init ==
  /\ client \in Clients
  /\ command = [tool |-> "curl"] /\ curl = [redirects |-> 0]
  /\ stage = "idle" /\ request = NoRequest /\ answer = NoAnswer
  /\ received = 0 /\ waited = 0
  /\ outcome = [verdict |-> "done", bytes |-> 0]

\* The command ends; its locals are gone.
Ends(verdict, bytes) ==
  /\ outcome' = [verdict |-> verdict, bytes |-> bytes]
  /\ stage' = "idle" /\ request' = NoRequest /\ answer' = NoAnswer
  /\ received' = 0 /\ waited' = 0
  /\ command' = [tool |-> "curl"] /\ curl' = [redirects |-> 0]
  /\ UNCHANGED client

Starts ==
  /\ stage = "idle"
  /\ \E c \in Commands :
       /\ command' = c
       /\ curl' = [url |-> c.url, post |-> c.post, headers |-> c.headers, redirects |-> 0]
  /\ stage' = "check"
  /\ UNCHANGED <<client, request, answer, received, waited, outcome>>

\* enforce_url_security, before the hooks and again after them.
Checks ==
  /\ stage \in {"check", "recheck"}
  /\ \E found \in Lookups[CheckedUrl] :
       IF Denied(CheckedUrl, found) THEN Ends("denied", 0)
       ELSE /\ IF stage = "check"
                 THEN stage' = "hooks" /\ request' = Event(curl.url, curl.headers)
                 ELSE stage' = "send" /\ UNCHANGED request
            /\ UNCHANGED <<client, command, curl, answer, received, waited, outcome>>

\* The credential hook runs first: one step for each rule of its loop.
CredentialHook ==
  /\ stage = "hooks" /\ request.rules < Len(Rules)
  /\ request' = [request EXCEPT
                   !.rules = @ + 1,
                   !.headers = Applied(@, request.url, Rules[request.rules + 1])]
  /\ UNCHANGED <<client, command, curl, stage, answer, received, waited, outcome>>

\* fire_before_http: a hook of the host may then let the request pass, rewrite its URL or
\* cancel it.
HooksContinue ==
  /\ stage = "hooks" /\ request.rules = Len(Rules)
  /\ \E url \in {request.url} \union HookUrls :
       request' = [request EXCEPT !.url = url, !.rewritten = url # request.url]
  /\ stage' = "recheck"
  /\ UNCHANGED <<client, command, curl, answer, received, waited, outcome>>

HookCancels == stage = "hooks" /\ request.rules = Len(Rules) /\ Ends("cancelled", 0)

\* The request leaves, through the handler of the host or a connection of reqwest.
Sends ==
  /\ stage = "send"
  /\ \/ /\ client.handler
        /\ stage' = "wait" /\ waited' = 0
        /\ UNCHANGED <<client, command, curl, request, answer, received, outcome>>
     \/ /\ ~client.handler
        /\ \E found \in Lookups[request.url] :
             \/ /\ Dialable(found) = {}
                /\ Ends("failed", 0)
             \/ \E a \in Dialable(found) :
                  /\ request' = [request EXCEPT !.address = a]
                  /\ stage' = "wait" /\ waited' = 0
                  /\ UNCHANGED <<client, command, curl, answer, received, outcome>>

\* A handler answers with the whole body, which is measured then.
HandlerAnswers ==
  /\ stage = "wait" /\ client.handler
  /\ \E status \in Statuses, location \in Urls \union {None}, n \in 0 .. MaxResponse + 1 :
       IF TooLong(n) THEN Ends("too_large", 0)
       ELSE /\ answer' = [status |-> status, location |-> location]
            /\ received' = n
            /\ stage' = "answered"
            /\ UNCHANGED <<client, command, curl, request, waited, outcome>>

\* A server answers with its head; a Content-Length above the limit ends the request.
HeadArrives ==
  /\ stage = "wait" /\ ~client.handler
  /\ \E status \in Statuses, location \in Urls \union {None} :
       answer' = [status |-> status, location |-> location]
  /\ stage' = "body"
  /\ UNCHANGED <<client, command, curl, request, received, waited, outcome>>

DeclaredTooLong == stage = "wait" /\ ~client.handler /\ Ends("too_large", 0)

\* The body streams in; it may stop before it is complete.
ChunkArrives ==
  /\ stage = "body"
  /\ \E n \in 1 .. MaxResponse + 1 :
       IF TooLong(n) THEN Ends("too_large", 0)
       ELSE /\ received' = received + n
            /\ UNCHANGED <<client, command, curl, stage, request, answer, waited, outcome>>

BodyEnds ==
  /\ stage = "body"
  /\ stage' = "answered"
  /\ UNCHANGED <<client, command, curl, request, answer, received, waited, outcome>>

TransferFails == stage \in {"wait", "body"} /\ Ends("failed", 0)

Tick ==
  /\ stage \in {"wait", "body"} /\ waited < RequestTimeout
  /\ waited' = waited + 1
  /\ UNCHANGED <<client, command, curl, stage, request, answer, received, outcome>>

\* A timeout while the body streams is an error like any other (client.rs:624).
TimesOut ==
  /\ stage \in {"wait", "body"} /\ waited >= RequestTimeout
  /\ Ends(IF stage = "wait" /\ command.tool # "http" THEN "timeout" ELSE "failed", 0)

IsRedirect == command.follow /\ answer.status \in {"see_other", "temporary"}

\* curl -L goes on with the Location of the answer.
Follows ==
  /\ stage = "answered" /\ IsRedirect
  /\ NextRedirect <= MaxRedirects /\ answer.location # None
  /\ curl' = [url |-> answer.location, headers |-> HopHeaders(answer.location),
              post |-> curl.post /\ answer.status # "see_other", redirects |-> NextRedirect]
  /\ stage' = "check" /\ request' = NoRequest /\ answer' = NoAnswer
  /\ received' = 0 /\ waited' = 0
  /\ UNCHANGED <<client, command, outcome>>

TooManyRedirects ==
  /\ stage = "answered" /\ IsRedirect /\ NextRedirect > MaxRedirects
  /\ Ends("redirects", 0)

\* The last answer: -f, --compressed with its own limit, and the output.
Finishes ==
  /\ stage = "answered"
  /\ IsRedirect => NextRedirect <= MaxRedirects /\ answer.location = None
  /\ IF command.fail /\ answer.status = "error" THEN Ends("http_error", 0)
     ELSE \/ Ends("done", received)
          \/ /\ command.compressed
             /\ \E n \in 0 .. MaxResponse + 1 :
                  IF n > MaxResponse THEN Ends("failed", 0) ELSE Ends("done", n)

ClientSteps == \/ Checks \/ CredentialHook \/ HooksContinue \/ Sends \/ Tick \/ TimesOut
               \/ Follows \/ TooManyRedirects \/ Finishes
Environment == \/ Starts \/ HookCancels \/ HandlerAnswers \/ HeadArrives \/ DeclaredTooLong
               \/ ChunkArrives \/ BodyEnds \/ TransferFails
Next == ClientSteps \/ Environment

Spec == Init /\ [][Next]_vars

\* The executor polls the command and time passes; nothing is asked of servers.
FairSpec == Spec /\ WF_vars(ClientSteps)

----------------------------------------------------------------------------
(* What the client promises.                                               *)

\* Types.  The body never passes max_response_bytes, however it is split into chunks, and
\* neither does what the command has for output after decompression.
TypeOK ==
  /\ client \in Clients
  /\ stage \in Stages
  /\ stage = "idle" \/ command \in Commands
  /\ stage # "idle" => /\ curl.url \in Urls /\ curl.headers \in Headers
                       /\ curl.post \in BOOLEAN
  /\ curl.redirects \in 0 .. MaxRedirects
  /\ request \in [url : Urls \union {None}, headers : Headers, rules : 0 .. Len(Rules),
                  rewritten : BOOLEAN, address : Addresses \union {None}]
  /\ answer.status \in Statuses /\ answer.location \in Urls \union {None}
  /\ received \in 0 .. MaxResponse
  /\ waited \in Nat
  /\ outcome.verdict \in Verdicts /\ outcome.bytes \in 0 .. MaxResponse

\* No request leaves for a URL outside the allowlist, on no hop and whatever a hook made of
\* it, and no connection of the client itself is made to a private address when those are
\* blocked, although the name may resolve differently after the check (client.rs:40).
RequestsAreAllowed ==
  stage = "wait" =>
    /\ request.url \in Allowed
    /\ client.blockPrivate /\ ~client.handler => request.address = "public"

InjectedLater(i, url) ==
  \E j \in DOMAIN Rules : /\ j > i /\ Rules[j].name = Rules[i].name
                          /\ url \in Rules[j].urls /\ Rules[j].placeholder = None

\* A request that no hook of the host rewrote carries a secret only to URLs of a rule that
\* has it, also after redirects that started where the secret was due; and an injected
\* header replaces whatever the script set (specs/credential-injection.md).
CredentialsFollowTheRules ==
  stage = "wait" /\ ~request.rewritten =>
    /\ \A n \in Names :
         request.headers[n] \in Secrets =>
           \E i \in DOMAIN Rules : /\ Rules[i].secret = request.headers[n]
                                  /\ Rules[i].name = n /\ request.url \in Rules[i].urls
    /\ \A i \in DOMAIN Rules :
         Rules[i].placeholder = None /\ request.url \in Rules[i].urls =>
           request.headers[Rules[i].name] = Rules[i].secret \/ InjectedLater(i, request.url)

\* What the script itself put into a sensitive header only goes to the origin the command
\* names, however the redirects lead away from it and between other origins (curl.rs:532).
SensitiveHeadersStay ==
  stage = "wait" /\ ~request.rewritten =>
    \A n \in Sensitive :
      request.headers[n] \in {Own} \union Placeholders =>
        Origin[request.url] = Origin[command.url]

\* Neither the host's secrets nor the script's own go where they do not belong, on the first
\* request and on every hop after it.
SecretsStayWhereDue == CredentialsFollowTheRules /\ SensitiveHeadersStay

\* Every command ends, against servers that redirect for ever, stream for ever or never
\* answer.
TransferEnds == stage # "idle" ~> stage = "idle"

=============================================================================
