------------------------- MODULE HttpTransferProofs -------------------------
(* Theorems about HttpTransfer: whatever URLs, lookups, hooks, rules and   *)
(* clients there are, types and the size limit hold, what is dialled is    *)
(* allowed, and secrets go where they are due.                             *)
EXTENDS HttpTransfer, TLAPS

RequestType ==
  [url : Urls \union {None}, headers : Headers, rules : 0 .. Len(Rules),
   rewritten : BOOLEAN, address : Addresses \union {None}]

\* The event of an await is a request.
LEMMA EventType ==
  ASSUME NEW url \in Urls \union {None}, NEW headers \in Headers
  PROVE  Event(url, headers) \in RequestType
<1>1. 0 \in 0 .. Len(Rules)
  BY HeadersAssumption
<1> QED BY <1>1 DEF Event, RequestType

LEMMA NoRequestType == NoRequest \in RequestType
<1>1. [n \in Names |-> Absent] \in Headers
  BY DEF Headers, Values
<1> QED BY <1>1, EventType DEF NoRequest

\* A rule leaves headers, and a later origin sees fewer of them.
LEMMA HeadersType ==
  ASSUME NEW headers \in Headers
  PROVE  /\ \A i \in DOMAIN Rules : \A url : Applied(headers, url, Rules[i]) \in Headers
         /\ \A from, to : Stripped(headers, from, to) \in Headers
<1>1. ASSUME NEW i \in DOMAIN Rules, NEW url
      PROVE  Applied(headers, url, Rules[i]) \in Headers
  <2>1. Rules[i].secret \in Values
    BY DEF Values, Secrets
  <2> QED BY <2>1 DEF Applied, Headers
<1>2. ASSUME NEW from, NEW to
      PROVE  Stripped(headers, from, to) \in Headers
  <2>1. Absent \in Values
    BY DEF Values
  <2> QED BY <2>1 DEF Stripped, Headers
<1> QED BY <1>1, <1>2

\* Ending a command leaves nothing behind but its outcome.
LEMMA EndsType ==
  ASSUME TypeOK, NEW verdict \in Verdicts, NEW bytes \in 0 .. MaxResponse,
         Ends(verdict, bytes)
  PROVE  TypeOK'
<1>1. request' \in RequestType
  BY NoRequestType DEF Ends
<1> QED BY <1>1, BoundsAssumption DEF Ends, TypeOK, RequestType, Stages, NoAnswer, Statuses

LEMMA TypeStep ==
  ASSUME TypeOK, stage = "send" => request.url \in Urls, [Next]_vars
  PROVE  TypeOK'
<1> USE DEF RequestType
<1>a. 0 \in 0 .. MaxResponse /\ MaxResponse \in Nat /\ MaxRedirects \in Nat
  BY BoundsAssumption
<1>b. {"done", "denied", "cancelled", "timeout", "too_large", "failed", "redirects", "http_error"}
        \subseteq Verdicts
  BY DEF Verdicts
<1>c. \A v \in Verdicts : Ends(v, 0) => TypeOK'
  BY <1>a, EndsType
<1>1. CASE Starts
  <2>1. PICK c \in Commands :
          /\ command' = c
          /\ curl' = [url |-> c.url, post |-> c.post, headers |-> c.headers, redirects |-> 0]
    BY <1>1 DEF Starts
  <2>2. c.url \in Urls /\ c.headers \in Headers /\ c.post \in BOOLEAN
    BY CommandsAssumption
  <2> QED BY <1>1, <1>a, <2>1, <2>2 DEF Starts, TypeOK, Stages
<1>2. CASE Checks
  <2>1. CASE Ends("denied", 0)
    BY <1>b, <1>c, <2>1
  <2>2. CASE /\ \/ stage' = "hooks" /\ request' = Event(curl.url, curl.headers)
                \/ stage' = "send" /\ UNCHANGED request
             /\ UNCHANGED <<client, command, curl, answer, received, waited, outcome>>
    <3>1. stage # "idle" /\ curl.url \in Urls /\ curl.headers \in Headers
      BY <1>2 DEF Checks, TypeOK
    <3>2. request' \in RequestType
      BY <2>2, <3>1, EventType DEF TypeOK
    <3> QED BY <2>2, <3>1, <3>2 DEF TypeOK, Stages
  <2> QED BY <1>2, <2>1, <2>2 DEF Checks
<1>3. CASE CredentialHook
  <2>1. /\ request \in RequestType /\ request.rules + 1 \in DOMAIN Rules
        /\ request.rules + 1 \in 0 .. Len(Rules) /\ stage # "idle"
    BY <1>3, HeadersAssumption DEF CredentialHook, TypeOK
  <2>2. Applied(request.headers, request.url, Rules[request.rules + 1]) \in Headers
    BY <2>1, HeadersType
  <2>3. request' \in RequestType
    BY <1>3, <2>1, <2>2 DEF CredentialHook
  <2> QED BY <1>3, <2>3 DEF CredentialHook, TypeOK
<1>4. CASE HooksContinue
  <2>1. request' \in RequestType
    BY <1>4, UrlsAssumption DEF HooksContinue, TypeOK
  <2> QED BY <1>4, <2>1 DEF HooksContinue, TypeOK, Stages
<1>5. CASE HookCancels
  BY <1>5, <1>b, <1>c DEF HookCancels
<1>6. CASE Sends
  <2>1. CASE stage' = "wait" /\ waited' = 0
             /\ UNCHANGED <<client, command, curl, request, answer, received, outcome>>
    BY <1>6, <2>1 DEF Sends, TypeOK, Stages
  <2>2. CASE Ends("failed", 0)
    BY <1>b, <1>c, <2>2
  <2>3. ASSUME NEW found \in Lookups[request.url], NEW a \in Dialable(found),
               request' = [request EXCEPT !.address = a], stage' = "wait", waited' = 0,
               UNCHANGED <<client, command, curl, answer, received, outcome>>
        PROVE  TypeOK'
    <3>1. request.url \in Urls
      BY <1>6 DEF Sends
    <3>2. a \in Addresses
      BY <2>3, <3>1, UrlsAssumption DEF Dialable
    <3>3. request' \in RequestType
      BY <2>3, <3>2 DEF TypeOK
    <3> QED BY <1>6, <2>3, <3>3 DEF Sends, TypeOK, Stages
  <2> QED BY <1>6, <2>1, <2>2, <2>3 DEF Sends
<1>7. CASE HandlerAnswers
  <2>1. PICK status \in Statuses, location \in Urls \union {None}, n \in 0 .. MaxResponse + 1 :
          IF TooLong(n) THEN Ends("too_large", 0)
          ELSE /\ answer' = [status |-> status, location |-> location]
               /\ received' = n /\ stage' = "answered"
               /\ UNCHANGED <<client, command, curl, request, waited, outcome>>
    BY <1>7 DEF HandlerAnswers
  <2>2. CASE TooLong(n)
    BY <1>b, <1>c, <2>1, <2>2
  <2>3. CASE ~TooLong(n)
    <3>1. n \in 0 .. MaxResponse
      BY <1>a, <2>3 DEF TooLong, TypeOK
    <3> QED BY <1>7, <2>1, <2>3, <3>1 DEF HandlerAnswers, TypeOK, Stages
  <2> QED BY <2>2, <2>3
<1>8. CASE HeadArrives
  BY <1>8 DEF HeadArrives, TypeOK, Stages
<1>9. CASE DeclaredTooLong
  BY <1>9, <1>b, <1>c DEF DeclaredTooLong
<1>10. CASE TransferFails
  BY <1>10, <1>b, <1>c DEF TransferFails
<1>11. CASE ChunkArrives
  <2>1. PICK n \in 1 .. MaxResponse + 1 :
          IF TooLong(n) THEN Ends("too_large", 0)
          ELSE /\ received' = received + n
               /\ UNCHANGED <<client, command, curl, stage, request, answer, waited, outcome>>
    BY <1>11 DEF ChunkArrives
  <2>2. CASE TooLong(n)
    BY <1>b, <1>c, <2>1, <2>2
  <2>3. CASE ~TooLong(n)
    <3>1. received + n \in 0 .. MaxResponse
      BY <1>a, <2>3 DEF TooLong, TypeOK
    <3> QED BY <2>1, <2>3, <3>1 DEF TypeOK
  <2> QED BY <2>2, <2>3
<1>12. CASE BodyEnds
  BY <1>12 DEF BodyEnds, TypeOK, Stages
<1>13. CASE Tick
  <2>1. waited' \in Nat
    BY <1>13 DEF Tick, TypeOK
  <2> QED BY <1>13, <2>1 DEF Tick, TypeOK
<1>14. CASE TimesOut
  BY <1>14, <1>b, <1>c DEF TimesOut
<1>15. CASE Follows
  <2>1. /\ curl.redirects + 1 \in 0 .. MaxRedirects /\ answer.location \in Urls
        /\ stage # "idle"
    BY <1>15, <1>a DEF Follows, TypeOK, NextRedirect
  <2>2. HopHeaders(answer.location) \in Headers
    BY <2>1, HeadersType DEF TypeOK, HopHeaders
  <2>3. request' \in RequestType
    BY <1>15, NoRequestType DEF Follows
  <2>4. (curl.post /\ answer.status # "see_other") \in BOOLEAN
    OBVIOUS
  <2>5. /\ curl'.url \in Urls /\ curl'.headers \in Headers /\ curl'.post \in BOOLEAN
        /\ curl'.redirects \in 0 .. MaxRedirects
    BY <1>15, <2>1, <2>2, <2>4 DEF Follows, NextRedirect
  <2> QED BY <1>15, <1>a, <2>1, <2>3, <2>5 DEF Follows, TypeOK, Stages, NoAnswer, Statuses
<1>16. CASE TooManyRedirects
  BY <1>16, <1>b, <1>c DEF TooManyRedirects
<1>17. CASE Finishes
  <2>1. CASE Ends("http_error", 0) \/ Ends("failed", 0)
    BY <1>b, <1>c, <2>1
  <2>2. CASE Ends("done", received)
    BY <1>b, <2>2, EndsType DEF TypeOK
  <2>3. ASSUME NEW n \in 0 .. MaxResponse + 1, ~(n > MaxResponse), Ends("done", n)
        PROVE  TypeOK'
    <3>1. n \in 0 .. MaxResponse
      BY <1>a, <2>3
    <3> QED BY <1>b, <2>3, <3>1, EndsType
  <2> QED BY <1>17, <2>1, <2>2, <2>3 DEF Finishes
<1>18. CASE UNCHANGED vars
  BY <1>18 DEF vars, TypeOK
<1> QED BY <1>1, <1>2, <1>3, <1>4, <1>5, <1>6, <1>7, <1>8, <1>9, <1>10, <1>11, <1>12, <1>13,
           <1>14, <1>15, <1>16, <1>17, <1>18 DEF Next, ClientSteps, Environment

----------------------------------------------------------------------------
(* What is dialled.                                                        *)

\* Once the second check has passed, the URL of the request is allowed, and stays so until
\* the request is sent; a connection is only made to an address the resolver left.
RequestInv ==
  /\ stage \in {"send", "wait"} => request.url \in Allowed
  /\ stage = "wait" /\ client.blockPrivate /\ ~client.handler => request.address = "public"

\* Ending a command leaves nothing to check.
LEMMA EndsInv ==
  ASSUME NEW verdict, NEW bytes, Ends(verdict, bytes)
  PROVE  RequestInv'
BY DEF Ends, RequestInv, NoRequest

\* A connection takes one of the addresses that the resolver left.
LEMMA AddressTaken ==
  ASSUME TypeOK, NEW a, request' = [request EXCEPT !.address = a]
  PROVE  request'.url = request.url /\ request'.address = a
BY DEF TypeOK

\* No step of a command breaks the invariant.
LEMMA NextInv ==
  ASSUME TypeOK, RequestInv, [Next]_vars
  PROVE  RequestInv'
<1>1. CASE Starts
  BY <1>1 DEF Starts, RequestInv
<1>2. CASE Checks
  <2>1. PICK found \in Lookups[CheckedUrl] :
          IF Denied(CheckedUrl, found) THEN Ends("denied", 0)
          ELSE /\ IF stage = "check"
                    THEN stage' = "hooks" /\ request' = Event(curl.url, curl.headers)
                    ELSE stage' = "send" /\ UNCHANGED request
               /\ UNCHANGED <<client, command, curl, answer, received, waited, outcome>>
    BY <1>2 DEF Checks
  <2>2. CASE Denied(CheckedUrl, found)
    BY <2>1, <2>2, EndsInv
  <2>3. CASE ~Denied(CheckedUrl, found)
    <3>1. stage = "recheck" => request.url \in Allowed
      BY <2>3 DEF Denied, CheckedUrl
    <3> QED BY <1>2, <2>1, <2>3, <3>1 DEF Checks, RequestInv
  <2> QED BY <2>2, <2>3
<1>3. CASE CredentialHook \/ HooksContinue
  BY <1>3 DEF CredentialHook, HooksContinue, RequestInv
<1>4. CASE HookCancels
  BY <1>4, EndsInv DEF HookCancels
<1>5. CASE Sends
  <2>1. CASE client.handler /\ stage' = "wait" /\ UNCHANGED <<client, request>>
    BY <1>5, <2>1 DEF Sends, RequestInv
  <2>2. CASE ~client.handler /\ Ends("failed", 0)
    BY <2>2, EndsInv
  <2>3. ASSUME NEW found \in Lookups[request.url], NEW a \in Dialable(found), UNCHANGED client,
               request' = [request EXCEPT !.address = a], found \subseteq Addresses
        PROVE  RequestInv'
    <3>1. client.blockPrivate => a = "public"
      BY <2>3 DEF Dialable, Addresses
    <3>2. request.url \in Allowed
      BY <1>5 DEF Sends, RequestInv
    <3> QED BY <2>3, <3>1, <3>2, AddressTaken DEF RequestInv
  <2>4. request.url \in Allowed
    BY <1>5 DEF Sends, RequestInv
  <2>5. \A found \in Lookups[request.url] : found \subseteq Addresses
    BY <2>4, UrlsAssumption
  <2> QED BY <1>5, <2>1, <2>2, <2>3, <2>5 DEF Sends
<1>6. CASE HandlerAnswers
  <2>1. PICK n \in 0 .. MaxResponse + 1 :
          \/ Ends("too_large", 0)
          \/ stage' = "answered" /\ UNCHANGED <<client, request>>
    BY <1>6 DEF HandlerAnswers
  <2> QED BY <2>1, EndsInv DEF RequestInv
<1>7. CASE HeadArrives
  BY <1>7 DEF HeadArrives, RequestInv
<1>8. CASE DeclaredTooLong \/ TransferFails
  BY <1>8, EndsInv DEF DeclaredTooLong, TransferFails
<1>9. CASE ChunkArrives
  <2>1. PICK n \in 1 .. MaxResponse + 1 :
          Ends("too_large", 0) \/ UNCHANGED <<client, request, stage>>
    BY <1>9 DEF ChunkArrives
  <2> QED BY <2>1, EndsInv DEF RequestInv
<1>10. CASE BodyEnds
  BY <1>10 DEF BodyEnds, RequestInv
<1>11. CASE Tick
  BY <1>11 DEF Tick, RequestInv
<1>12. CASE TimesOut
  BY <1>12, EndsInv DEF TimesOut
<1>13. CASE Follows
  BY <1>13 DEF Follows, RequestInv, NoRequest
<1>14. CASE TooManyRedirects
  BY <1>14, EndsInv DEF TooManyRedirects
<1>15. CASE Finishes
  BY <1>15, EndsInv DEF Finishes
<1>16. CASE UNCHANGED vars
  BY <1>16 DEF vars, RequestInv
<1> QED BY <1>1, <1>2, <1>3, <1>4, <1>5, <1>6, <1>7, <1>8, <1>9, <1>10, <1>11, <1>12, <1>13,
           <1>14, <1>15, <1>16 DEF Next, ClientSteps, Environment

LEMMA RequestInvariant == Spec => [](TypeOK /\ RequestInv)
<1>1. Init => TypeOK /\ RequestInv
  <2> SUFFICES ASSUME Init
               PROVE  TypeOK /\ RequestInv
    OBVIOUS
  <2>1. request \in RequestType
    BY NoRequestType DEF Init
  <2> QED BY <2>1, BoundsAssumption
          DEF Init, TypeOK, RequestInv, RequestType, Stages, NoAnswer, Statuses, Verdicts
<1>2. TypeOK /\ RequestInv /\ [Next]_vars => (TypeOK /\ RequestInv)'
  BY NextInv, TypeStep, UrlsAssumption DEF RequestInv
<1> QED BY <1>1, <1>2, PTL DEF Spec

\* Types, and the size limit: however the body is split into chunks, and whatever is
\* decompressed, no more than max_response_bytes is received or becomes output.
THEOREM TypeCorrect == Spec => []TypeOK
BY RequestInvariant, PTL

\* No request leaves for a URL outside the allowlist and no connection is made to a private
\* address that is blocked, on no hop, whatever hooks and resolvers do.
THEOREM RequestsTheorem == Spec => []RequestsAreAllowed
<1>1. RequestInv => RequestsAreAllowed
  BY DEF RequestInv, RequestsAreAllowed
<1> QED BY <1>1, RequestInvariant, PTL

----------------------------------------------------------------------------
(* Where secrets go.                                                       *)

\* What the first k rules have made of the headers base: a secret is there by one of these
\* rules, everything else is still the script's, and of the rules that inject a header the
\* last one won.
InEffect(k, headers, base, url) ==
  /\ \A n \in Names : headers[n] \in Secrets =>
       \E i \in DOMAIN Rules : /\ i <= k /\ Rules[i].secret = headers[n]
                              /\ Rules[i].name = n /\ url \in Rules[i].urls
  /\ \A n \in Names : headers[n] \notin Secrets => headers[n] = base[n]
  /\ \A i \in DOMAIN Rules :
       i <= k /\ Rules[i].placeholder = None /\ url \in Rules[i].urls =>
         \/ headers[Rules[i].name] = Rules[i].secret
         \/ \E j \in DOMAIN Rules : /\ j > i /\ j <= k /\ Rules[j].name = Rules[i].name
                                    /\ url \in Rules[j].urls /\ Rules[j].placeholder = None

\* curl itself never holds a secret of the host, and a sensitive header of the script is
\* gone once a hop has left the origin of the command.
HopInv ==
  stage # "idle" =>
    \A n \in Names :
      /\ curl.headers[n] \notin Secrets
      /\ n \in Sensitive /\ curl.headers[n] # Absent =>
           Origin[curl.url] = Origin[command.url]

RulesInv ==
  /\ stage = "hooks" => ~request.rewritten
  /\ stage \in {"hooks", "recheck", "send", "wait"} /\ ~request.rewritten =>
       /\ request.url = curl.url
       /\ InEffect(request.rules, request.headers, curl.headers, curl.url)
       /\ stage # "hooks" => request.rules = Len(Rules)

SecretsInv == HopInv /\ RulesInv

\* A placeholder is not a secret, so a placeholder rule leaves what an earlier rule injected.
LEMMA RuleInEffect ==
  ASSUME NEW k \in Nat, k + 1 \in DOMAIN Rules, NEW headers \in Headers, NEW base,
         NEW url, InEffect(k, headers, base, url)
  PROVE  InEffect(k + 1, Applied(headers, url, Rules[k + 1]), base, url)
<1> DEFINE rule == Rules[k + 1]
           later == Applied(headers, url, rule)
<1> SUFFICES InEffect(k + 1, later, base, url)
  OBVIOUS
<1>a. DOMAIN Rules \subseteq Nat
  BY HeadersAssumption
<1>b. \A i \in DOMAIN Rules :
        /\ Rules[i].name \in Names /\ Rules[i].secret \in Secrets
        /\ Rules[i].placeholder # None => Rules[i].placeholder \notin Secrets
  BY HeadersAssumption DEF Secrets, Placeholders
<1>1. CASE later = headers
  <2>1. rule.placeholder = None /\ url \in rule.urls => headers[rule.name] = rule.secret
    <3>1. headers[rule.name] = later[rule.name]
      BY <1>1
    <3> QED BY <1>b, <3>1 DEF Applied, Headers
  <2>2. \A i \in DOMAIN Rules : i <= k + 1 => i <= k \/ i = k + 1
    BY <1>a
  <2>3. \A i \in DOMAIN Rules : i <= k => i <= k + 1
    BY <1>a
  <2> HIDE DEF later
  <2>4. ASSUME NEW i \in DOMAIN Rules, i <= k + 1, Rules[i].placeholder = None,
               url \in Rules[i].urls
        PROVE  \/ headers[Rules[i].name] = Rules[i].secret
               \/ \E j \in DOMAIN Rules :
                    /\ j > i /\ j <= k + 1 /\ Rules[j].name = Rules[i].name
                    /\ url \in Rules[j].urls /\ Rules[j].placeholder = None
    BY <2>1, <2>2, <2>3, <2>4, Zenon DEF InEffect
  <2>5. \A n \in Names : headers[n] \in Secrets =>
          \E i \in DOMAIN Rules : /\ i <= k + 1 /\ Rules[i].secret = headers[n]
                                 /\ Rules[i].name = n /\ url \in Rules[i].urls
    BY <2>3, Zenon DEF InEffect
  <2>6. InEffect(k + 1, headers, base, url)
    BY <2>4, <2>5, Zenon DEF InEffect
  <2> QED BY <1>1, <2>6
<1>2. CASE /\ later = [headers EXCEPT ![rule.name] = rule.secret]
           /\ url \in rule.urls
           /\ rule.placeholder # None => headers[rule.name] = rule.placeholder
  <2>1. /\ later[rule.name] = rule.secret
        /\ \A n \in Names : n # rule.name => later[n] = headers[n]
    BY <1>2, <1>b DEF Headers
  <2> HIDE DEF later
  <2>2. ASSUME NEW n \in Names, later[n] \in Secrets
        PROVE  \E i \in DOMAIN Rules : /\ i <= k + 1 /\ Rules[i].secret = later[n]
                                      /\ Rules[i].name = n /\ url \in Rules[i].urls
    <3>1. CASE n = rule.name
      <4>1. k + 1 <= k + 1
        OBVIOUS
      <4> QED BY <1>2, <2>1, <3>1, <4>1
    <3>2. CASE n # rule.name
      <4>1. PICK i \in DOMAIN Rules : /\ i <= k /\ Rules[i].secret = headers[n]
                                      /\ Rules[i].name = n /\ url \in Rules[i].urls
        BY <2>1, <2>2, <3>2 DEF InEffect
      <4>2. i <= k + 1
        BY <1>a, <4>1
      <4> QED BY <2>1, <3>2, <4>1, <4>2
    <3> QED BY <3>1, <3>2
  <2>3. ASSUME NEW n \in Names, later[n] \notin Secrets
        PROVE  later[n] = base[n]
    <3>1. n # rule.name
      BY <1>b, <2>1, <2>3
    <3> QED BY <2>1, <2>3, <3>1 DEF InEffect
  <2>4. ASSUME NEW i \in DOMAIN Rules, i <= k + 1, Rules[i].placeholder = None,
               url \in Rules[i].urls
        PROVE  \/ later[Rules[i].name] = Rules[i].secret
               \/ \E j \in DOMAIN Rules :
                    /\ j > i /\ j <= k + 1 /\ Rules[j].name = Rules[i].name
                    /\ url \in Rules[j].urls /\ Rules[j].placeholder = None
    <3>1. CASE i = k + 1
      BY <2>1, <3>1
    <3>2. CASE i # k + 1
      <4>1. i <= k /\ k + 1 > i /\ k + 1 <= k + 1
        BY <1>a, <2>4, <3>2
      <4>2. CASE headers[Rules[i].name] = Rules[i].secret
        <5>1. CASE Rules[i].name # rule.name
          BY <1>b, <2>1, <4>2, <5>1
        <5>2. CASE Rules[i].name = rule.name
          <6>1. rule.placeholder = None
            BY <1>2, <1>b, <4>2, <5>2
          <6> QED BY <1>2, <4>1, <5>2, <6>1
        <5> QED BY <5>1, <5>2
      <4>3. ASSUME NEW j \in DOMAIN Rules, j > i, j <= k, Rules[j].name = Rules[i].name,
                   url \in Rules[j].urls, Rules[j].placeholder = None
            PROVE  \E m \in DOMAIN Rules :
                     /\ m > i /\ m <= k + 1 /\ Rules[m].name = Rules[i].name
                     /\ url \in Rules[m].urls /\ Rules[m].placeholder = None
        <5>1. j <= k + 1
          BY <1>a, <4>3
        <5> QED BY <4>3, <5>1
      <4>4. \/ headers[Rules[i].name] = Rules[i].secret
            \/ \E j \in DOMAIN Rules :
                 /\ j > i /\ j <= k /\ Rules[j].name = Rules[i].name
                 /\ url \in Rules[j].urls /\ Rules[j].placeholder = None
        BY <2>4, <4>1, Zenon DEF InEffect
      <4> QED BY <4>2, <4>3, <4>4, Zenon
    <3> QED BY <3>1, <3>2
  <2> QED BY <2>2, <2>3, <2>4, Zenon DEF InEffect
<1> QED BY <1>1, <1>2 DEF Applied

\* Before the first rule the headers are the script's.
LEMMA NothingInEffect ==
  ASSUME NEW headers, NEW url, \A n \in Names : headers[n] \notin Secrets
  PROVE  InEffect(0, headers, headers, url)
<1>1. \A i \in DOMAIN Rules : ~(i <= 0)
  BY HeadersAssumption
<1> QED BY <1>1 DEF InEffect

LEMMA SecretsStep ==
  ASSUME TypeOK, SecretsInv, stage = "send" => request.url \in Urls, [Next]_vars
  PROVE  SecretsInv'
<1>a. ASSUME NEW verdict, NEW bytes, Ends(verdict, bytes)
      PROVE  SecretsInv'
  BY <1>a DEF Ends, SecretsInv, HopInv, RulesInv, NoRequest, Event
<1>b. ASSUME UNCHANGED <<command, curl>>, stage # "idle"
      PROVE  HopInv'
  BY <1>b DEF SecretsInv, HopInv
<1>c. ASSUME UNCHANGED <<command, curl, request>>, stage # "idle",
             stage' \in {"body", "answered", stage}
      PROVE  SecretsInv'
  BY <1>b, <1>c DEF SecretsInv, RulesInv
<1>1. CASE Starts
  <2>1. PICK c \in Commands :
          /\ command' = c
          /\ curl' = [url |-> c.url, post |-> c.post, headers |-> c.headers, redirects |-> 0]
    BY <1>1 DEF Starts
  <2>2. HopInv'
    BY <2>1, CommandsAssumption DEF HopInv
  <2> QED BY <1>1, <2>2 DEF Starts, SecretsInv, RulesInv
<1>2. CASE Checks
  <2>1. CASE Ends("denied", 0)
    BY <1>a, <2>1
  <2>2. CASE /\ stage = "check" /\ stage' = "hooks"
             /\ request' = Event(curl.url, curl.headers) /\ UNCHANGED <<command, curl>>
    <3>1. /\ request'.url = curl.url /\ request'.headers = curl.headers
          /\ request'.rules = 0 /\ ~request'.rewritten
      BY <2>2 DEF Event
    <3>2. \A n \in Names : curl.headers[n] \notin Secrets
      BY <2>2 DEF SecretsInv, HopInv
    <3>3. InEffect(0, curl.headers, curl.headers, curl.url)
      BY <3>2, NothingInEffect
    <3>4. HopInv' /\ UNCHANGED curl
      BY <1>b, <2>2
    <3>5. RulesInv'
      BY <2>2, <3>1, <3>3, <3>4 DEF RulesInv
    <3> QED BY <3>4, <3>5 DEF SecretsInv
  <2>3. CASE stage = "recheck" /\ stage' = "send" /\ UNCHANGED <<command, curl, request>>
    BY <1>b, <2>3 DEF SecretsInv, RulesInv
  <2> QED BY <1>2, <2>1, <2>2, <2>3 DEF Checks
<1>3. CASE CredentialHook
  <2> DEFINE k == request.rules
             later == Applied(request.headers, request.url, Rules[k + 1])
  <2>1. /\ stage = "hooks" /\ stage' = "hooks" /\ UNCHANGED <<command, curl>>
        /\ request' = [request EXCEPT !.rules = k + 1, !.headers = later]
        /\ k < Len(Rules)
    BY <1>3 DEF CredentialHook
  <2>2. k \in Nat /\ k + 1 \in DOMAIN Rules /\ request.headers \in Headers
    BY <2>1, HeadersAssumption DEF TypeOK
  <2>3. /\ request'.url = request.url /\ request'.headers = later
        /\ request'.rules = k + 1 /\ request'.rewritten = request.rewritten
    BY <2>1 DEF TypeOK
  <2>4. /\ ~request.rewritten /\ request.url = curl.url
        /\ InEffect(k, request.headers, curl.headers, curl.url)
    BY <2>1 DEF SecretsInv, RulesInv
  <2>5. InEffect(k + 1, later, curl.headers, curl.url)
    BY <2>2, <2>4, RuleInEffect
  <2> HIDE DEF k, later
  <2> QED BY <1>b, <2>1, <2>3, <2>4, <2>5 DEF SecretsInv, RulesInv
<1>4. CASE HooksContinue
  <2>1. PICK url \in {request.url} \union HookUrls :
          request' = [request EXCEPT !.url = url, !.rewritten = url # request.url]
    BY <1>4 DEF HooksContinue
  <2>2. /\ request'.url = url /\ request'.headers = request.headers
        /\ request'.rules = request.rules /\ request'.rewritten = (url # request.url)
    BY <2>1 DEF TypeOK
  <2>3. /\ stage = "hooks" /\ request.rules = Len(Rules) /\ stage' = "recheck"
        /\ UNCHANGED <<command, curl>>
    BY <1>4 DEF HooksContinue
  <2> QED BY <1>b, <2>2, <2>3 DEF SecretsInv, RulesInv
<1>5. CASE HookCancels
  BY <1>5, <1>a DEF HookCancels
<1>6. CASE Sends
  <2>1. CASE Ends("failed", 0)
    BY <1>a, <2>1
  <2>2. CASE /\ UNCHANGED <<command, curl>> /\ stage' = "wait"
             /\ \/ UNCHANGED request
                \/ \E a : request' = [request EXCEPT !.address = a]
    <3>1. /\ request'.url = request.url /\ request'.headers = request.headers
          /\ request'.rules = request.rules /\ request'.rewritten = request.rewritten
      BY <2>2 DEF TypeOK
    <3>2. stage = "send"
      BY <1>6 DEF Sends
    <3> QED BY <1>b, <2>2, <3>1, <3>2 DEF SecretsInv, RulesInv
  <2> QED BY <1>6, <2>1, <2>2 DEF Sends
<1>7. CASE HandlerAnswers
  BY <1>7, <1>a, <1>c DEF HandlerAnswers
<1>8. CASE HeadArrives
  BY <1>8, <1>c DEF HeadArrives
<1>9. CASE DeclaredTooLong \/ TransferFails
  BY <1>9, <1>a DEF DeclaredTooLong, TransferFails
<1>10. CASE ChunkArrives
  BY <1>10, <1>a, <1>c DEF ChunkArrives
<1>11. CASE BodyEnds
  BY <1>11, <1>c DEF BodyEnds
<1>12. CASE Tick
  BY <1>12, <1>c DEF Tick
<1>13. CASE TimesOut
  BY <1>13, <1>a DEF TimesOut
<1>14. CASE Follows
  <2> DEFINE to == answer.location
  <2>1. /\ curl'.url = to /\ curl'.headers = Stripped(curl.headers, curl.url, to)
        /\ command' = command /\ stage' = "check" /\ stage # "idle"
    BY <1>14 DEF Follows, HopHeaders
  <2>2. ASSUME NEW n \in Names
        PROVE  \/ curl'.headers[n] = Absent
               \/ /\ curl'.headers[n] = curl.headers[n]
                  /\ n \in Sensitive => Origin[to] = Origin[curl.url]
    BY <2>1 DEF Stripped
  <2>3. Absent \notin Secrets
    BY HeadersAssumption
  <2>4. HopInv'
    BY <2>1, <2>2, <2>3 DEF SecretsInv, HopInv
  <2> QED BY <2>1, <2>4 DEF SecretsInv, RulesInv
<1>15. CASE TooManyRedirects
  BY <1>15, <1>a DEF TooManyRedirects
<1>16. CASE Finishes
  BY <1>16, <1>a DEF Finishes
<1>17. CASE UNCHANGED vars
  BY <1>17 DEF vars, SecretsInv, HopInv, RulesInv
<1> QED BY <1>1, <1>2, <1>3, <1>4, <1>5, <1>6, <1>7, <1>8, <1>9, <1>10, <1>11, <1>12, <1>13,
           <1>14, <1>15, <1>16, <1>17 DEF Next, ClientSteps, Environment

LEMMA SecretsFromInv ==
  ASSUME TypeOK, SecretsInv
  PROVE  SecretsStayWhereDue
<1> SUFFICES ASSUME stage = "wait", ~request.rewritten
             PROVE  SecretsStayWhereDue
  BY DEF SecretsStayWhereDue, CredentialsFollowTheRules, SensitiveHeadersStay
<1>1. /\ request.url = curl.url /\ request.rules = Len(Rules)
      /\ InEffect(Len(Rules), request.headers, curl.headers, request.url)
  BY DEF SecretsInv, RulesInv
<1>2. \A i \in DOMAIN Rules : i <= Len(Rules)
  BY HeadersAssumption
<1>3. CredentialsFollowTheRules
  BY <1>1, <1>2 DEF InEffect, CredentialsFollowTheRules, InjectedLater
<1>4. ASSUME NEW n \in Sensitive, request.headers[n] \in {Own} \union Placeholders
      PROVE  Origin[request.url] = Origin[command.url]
  <2>1. request.headers[n] \notin Secrets /\ request.headers[n] # Absent /\ n \in Names
    BY <1>4, HeadersAssumption
  <2>2. curl.headers[n] = request.headers[n]
    BY <1>1, <2>1 DEF InEffect
  <2> QED BY <1>1, <2>1, <2>2 DEF SecretsInv, HopInv
<1> QED BY <1>3, <1>4 DEF SecretsStayWhereDue, SensitiveHeadersStay

\* For every set of credential rules, whatever their order, and every chain of redirects:
\* a request that no hook rewrote carries a secret only where a rule has it, an injected
\* header replaces the script's, and what the script put into a sensitive header only goes
\* to the origin the command names.
THEOREM SecretsTheorem == Spec => []SecretsStayWhereDue
<1>1. Init => SecretsInv
  BY DEF Init, SecretsInv, HopInv, RulesInv
<1>2. TypeOK /\ RequestInv /\ SecretsInv /\ [Next]_vars => SecretsInv'
  BY SecretsStep, UrlsAssumption DEF RequestInv
<1> QED BY <1>1, <1>2, SecretsFromInv, RequestInvariant, PTL DEF Spec

=============================================================================
