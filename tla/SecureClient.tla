---------------------------- MODULE SecureClient ----------------------------
(***************************************************************************)
(* The HTTP client every gatherer fetches through                          *)
(* (scovant_core/security/client.py, pinned_transport.py and the guard of  *)
(* url_safety.py): one fetch at a time, a redirect loop driven by hand,    *)
(* two lookups of a host's name on the way to a connection (the request    *)
(* hook's and the pinned transport's), a scan-wide deadline, a byte limit, *)
(* a request log and a cookie jar that must stay empty.                    *)
(*                                                                         *)
(* The name service, the servers and the clock are the environment: every  *)
(* lookup may answer differently, every response is chosen when it         *)
(* arrives.  A URL is abstracted to its scheme (which fixes the port), its *)
(* host and whether it carries credentials; a host is a name or an address *)
(* literal; a body is a number of units of the byte limit.                 *)
(***************************************************************************)
EXTENDS Naturals, Sequences

CONSTANTS
    Names,          \* host names
    Unencodable,    \* the names the resolver refuses to encode (UnicodeError)
    Addresses,      \* IP addresses, as lookup answers and as literal hosts
    Public,         \* those assert_public_address accepts
    V4,             \* those that are IPv4
    Answers,        \* the address sets a lookup can return
    Urls,           \* the URLs of the site's links and redirects
    Policies,       \* records [pinned, private_hosts]: transport and exemption
    MaxRedirects,   \* policy.max_redirects
    Limit,          \* policy.limit_for(kind)
    Budget,         \* policy.total_budget_seconds
    Sizes,          \* the sizes of response bodies
    MaxTime,        \* bound: the clock stops here
    MaxFetches      \* bound: fetches of one client

Url == [scheme : STRING, host : Names \cup Addresses, userinfo : BOOLEAN]

ASSUME UrlAssumption == Urls \subseteq Url

ASSUME AddressAssumption ==
    /\ Public \subseteq Addresses /\ V4 \subseteq Addresses
    /\ Names \cap Addresses = {} /\ Unencodable \subseteq Names
    /\ Answers \subseteq (SUBSET Addresses) \ {{}}

ASSUME PolicyAssumption ==
    Policies \subseteq [pinned : BOOLEAN, private_hosts : SUBSET (Names \cup Addresses)]

ASSUME BoundAssumption ==
    /\ MaxRedirects \in Nat /\ Limit \in Nat /\ Budget \in Nat
    /\ Sizes \subseteq Nat /\ MaxTime \in Nat /\ MaxFetches \in Nat

VARIABLES
    policy,         \* SecurityPolicy and the kind of transport
    clock,          \* time since the client was made
    cache,          \* PinnedTransport._cache: endpoint -> address
    requests,       \* the request log
    jar,            \* hosts with a cookie in the jar
    fetches,        \* fetches so far
    stage,          \* where the running fetch is, "idle" between fetches
    url, current, chain,    \* of the running fetch
    logged_before,  \* length of the log when it began
    response,       \* the response of the current hop: location, size
    total, truncated,       \* the body read so far
    outcome,        \* how the last fetch ended: kind and cause
    connections,    \* history: endpoint and address of every request sent
    lateSends       \* history: requests sent after the budget was spent

hop == <<current, chain, response>>
body == <<total, truncated>>
history == <<connections, lateSends>>
vars == <<policy, clock, cache, requests, jar, fetches, stage, url, hop, logged_before,
          body, outcome, history>>

None == "none"
NoUrl == [scheme |-> None, host |-> None, userinfo |-> FALSE]
NoResponse == [location |-> NoUrl, size |-> 0]
Pending == [kind |-> "pending", cause |-> "pending"]

-----------------------------------------------------------------------------
Exempt(host) == host \in policy.private_hosts

\* The literal check: no name is resolved.
RefusedHost(host) == host = "localhost" \/ host \in Addresses \ Public

\* PinnedTransport keys its cache by host and port; the scheme fixes the port.
Endpoint(u) == <<u.host, u.scheme>>

Late == clock > Budget

Log(status) == requests' = Append(requests, [url |-> current, status |-> status])

\* Mutant of End: no finally clears the jar.
EndKeepingCookies(kind, cause) ==
    /\ stage' = "idle"
    /\ outcome' = [kind |-> kind, cause |-> cause]
    /\ UNCHANGED <<policy, clock, cache, jar, fetches, url, logged_before, history>>

\* fetch returns or raises; its finally clears the jar.
End(kind, cause) ==
    /\ stage' = "idle"
    /\ outcome' = [kind |-> kind, cause |-> cause]
    /\ jar' = {}
    /\ UNCHANGED <<policy, clock, cache, fetches, url, logged_before, history>>

\* An httpx.RequestError: the hop is logged without a status.
HopFails(kind, cause) ==
    /\ End(kind, cause)
    /\ Log(None)
    /\ UNCHANGED <<hop, body>>

\* A FetchError (or an exception fetch does not catch) leaves the log alone.
FetchFails(kind, cause) ==
    /\ End(kind, cause)
    /\ UNCHANGED <<requests, hop, body>>

Advance(from, to) ==
    /\ stage = from
    /\ stage' = to
    /\ UNCHANGED <<policy, clock, fetches, url, logged_before, outcome>>

-----------------------------------------------------------------------------
Init ==
    /\ policy \in Policies
    /\ clock = 0 /\ cache = <<>> /\ requests = <<>> /\ jar = {} /\ fetches = 0
    /\ stage = "idle"
    /\ url = NoUrl /\ current = NoUrl /\ chain = <<>> /\ logged_before = 0
    /\ response = NoResponse /\ total = 0 /\ truncated = FALSE
    /\ outcome = Pending /\ connections = {} /\ lateSends = 0

Tick ==
    /\ clock < MaxTime
    /\ clock' = clock + 1
    /\ UNCHANGED <<policy, cache, requests, jar, fetches, stage, url, hop, logged_before, body,
                   outcome, history>>

Fetch(u) ==
    /\ stage = "idle" /\ fetches < MaxFetches
    /\ stage' = "hop" /\ fetches' = fetches + 1
    /\ url' = u /\ current' = u /\ chain' = <<>> /\ response' = NoResponse
    /\ logged_before' = Len(requests)
    /\ total' = 0 /\ truncated' = FALSE /\ outcome' = Pending
    /\ UNCHANGED <<policy, clock, cache, requests, jar, history>>

\* _precheck of the hop's URL.  Exempt hosts skip all but the scheme.
Acceptable(u) ==
    /\ u.scheme \in {"http", "https"}
    /\ Exempt(u.host) \/ ~(u.userinfo \/ RefusedHost(u.host))

Precheck ==
    /\ stage = "hop"
    /\ ~Acceptable(current)
    /\ FetchFails("security", "url")

\* _check_deadline, then the request is on its way to the guard hook.
BudgetSpent ==
    /\ stage = "hop"
    /\ Acceptable(current) /\ Late
    /\ FetchFails("timeout", "budget")

\* Mutant of Request: no deadline check before a hop.
RequestAnyTime ==
    /\ Acceptable(current)
    /\ Advance("hop", "guard")
    /\ UNCHANGED <<cache, requests, jar, hop, body, history>>

Request ==
    /\ Acceptable(current) /\ ~Late
    /\ Advance("hop", "guard")
    /\ UNCHANGED <<cache, requests, jar, hop, body, history>>

\* _guard_hook: the name is resolved and every address checked.
GuardPasses ==
    /\ \/ Exempt(current.host)
       \/ current.host \in Addresses
       \/ current.host \in Names \ Unencodable /\ \E a \in Answers : a \subseteq Public
    /\ Advance("guard", "connect")
    /\ UNCHANGED <<cache, requests, jar, hop, body, history>>

GuardBlocks ==
    /\ stage = "guard" /\ ~Exempt(current.host) /\ current.host \in Names \ Unencodable
    /\ \/ (\E a \in Answers : ~(a \subseteq Public)) /\ HopFails("security", "guard")
       \/ HopFails("network", "unresolvable")

\* The resolver raises UnicodeError, which neither the guard nor the transport
\* nor fetch catches.
Escapes ==
    /\ \/ stage = "guard" /\ ~Exempt(current.host)
       \/ stage = "connect" /\ policy.pinned
    /\ current.host \in Unencodable
    /\ FetchFails("escaped", "lookup")

Send(address) ==
    /\ Advance("connect", "respond")
    /\ connections' = connections \cup {[endpoint |-> Endpoint(current), address |-> address]}
    /\ lateSends' = IF Late THEN lateSends + 1 ELSE lateSends
    /\ UNCHANGED <<requests, jar, hop, body>>

\* A transport the caller supplied, or an address literal (which Precheck has
\* put through the transport's own test already): nothing to resolve.
ConnectDirect ==
    /\ current.host \in Addresses \/ ~policy.pinned
    /\ Send(IF current.host \in Addresses THEN current.host ELSE None)
    /\ UNCHANGED cache

Pinning == stage = "connect" /\ policy.pinned /\ current.host \in Names

\* _pin: an endpoint resolved before keeps its address.
ConnectCached ==
    /\ Pinning
    /\ Endpoint(current) \in DOMAIN cache
    /\ Send(cache[Endpoint(current)])
    /\ UNCHANGED cache

\* (v4 or addresses)[0]
Preferred(a) == IF a \cap V4 # {} THEN a \cap V4 ELSE a

\* Mutant of ConnectResolved: the transport trusts the guard's lookup.
ConnectUnvetted ==
    /\ Pinning
    /\ Endpoint(current) \notin DOMAIN cache /\ current.host \notin Unencodable
    /\ \E a \in Answers :
          /\ \E address \in Preferred(a) :
                /\ cache' = [e \in DOMAIN cache \cup {Endpoint(current)} |->
                                IF e = Endpoint(current) THEN address ELSE cache[e]]
                /\ Send(address)

\* Mutant of ConnectResolved: every request resolves again.
ConnectUncached ==
    /\ Pinning
    /\ current.host \notin Unencodable
    /\ \E a \in Answers :
          /\ Exempt(current.host) \/ a \subseteq Public
          /\ \E address \in Preferred(a) :
                /\ cache' = [e \in DOMAIN cache \cup {Endpoint(current)} |->
                                IF e = Endpoint(current) THEN address ELSE cache[e]]
                /\ Send(address)

ConnectResolved ==
    /\ Pinning
    /\ Endpoint(current) \notin DOMAIN cache /\ current.host \notin Unencodable
    /\ \E a \in Answers :
          /\ Exempt(current.host) \/ a \subseteq Public
          /\ \E address \in Preferred(a) :
                /\ cache' = [e \in DOMAIN cache \cup {Endpoint(current)} |->
                                IF e \in DOMAIN cache THEN cache[e] ELSE address]
                /\ Send(address)

\* The lookup fails or names an address that is not public: a ConnectError.
PinFails ==
    /\ Pinning
    /\ Endpoint(current) \notin DOMAIN cache /\ current.host \notin Unencodable
    /\ HopFails("network", "pin")

\* The server answers the request that was sent, with or without a cookie.
Respond(location, size) ==
    /\ Advance("respond", IF location = NoUrl THEN "body" ELSE "redirect")
    /\ response' = [location |-> location, size |-> size]
    /\ jar' \in {jar, jar \cup {current.host}}
    /\ UNCHANGED <<cache, requests, current, chain, body, history>>

\* Mutant of ServerFails: no timeout on reading a body.
ServerFailsUntimedBody(kind) ==
    /\ stage \in {"respond", "body"} /\ ~truncated
    /\ kind = "timeout" => stage = "respond"
    /\ HopFails(kind, "server")

\* A connection that breaks, or a server silent for longer than the client's
\* timeouts, before or while the body is read.
ServerFails(kind) ==
    /\ stage \in {"respond", "body"} /\ ~truncated
    /\ HopFails(kind, "server")

\* Mutant of Redirect: only final responses are logged.
RedirectUnlogged ==
    /\ stage = "redirect"
    /\ UNCHANGED requests
    /\ chain' = Append(chain, current)
    /\ UNCHANGED <<body, response>>
    /\ \/ /\ Len(chain') > MaxRedirects
          /\ End("network", "redirects")
          /\ UNCHANGED current
       \/ /\ Len(chain') <= MaxRedirects
          /\ Advance("redirect", "hop")
          /\ current' = response.location
          /\ jar' = {}
          /\ UNCHANGED <<cache, history>>

\* An intermediate response: logged, its cookies dropped, its body not read.
Redirect ==
    /\ stage = "redirect"
    /\ Log("redirect")
    /\ chain' = Append(chain, current)
    /\ UNCHANGED <<body, response>>
    /\ \/ /\ Len(chain') > MaxRedirects
          /\ End("network", "redirects")
          /\ UNCHANGED current
       \/ /\ Len(chain') <= MaxRedirects
          /\ Advance("redirect", "hop")
          /\ current' = response.location
          /\ jar' = {}
          /\ UNCHANGED <<cache, history>>

Reading == stage = "body" /\ ~truncated /\ total < response.size

\* Mutant of Chunk: a body of exactly the limit counts as cut.
ChunkAtLimit(n) ==
    /\ Reading /\ ~Late
    /\ total + n <= response.size
    /\ truncated' = (total + n >= Limit)
    /\ total' = IF total + n > Limit THEN Limit ELSE total + n
    /\ UNCHANGED <<policy, clock, cache, requests, jar, fetches, stage, url, hop, logged_before,
                   outcome, history>>

\* A chunk of n units arrives in time and is kept up to the limit.
Chunk(n) ==
    /\ Reading /\ ~Late
    /\ total + n <= response.size
    /\ truncated' = (total + n > Limit)
    /\ total' = IF total + n > Limit THEN Limit ELSE total + n
    /\ UNCHANGED <<policy, clock, cache, requests, jar, fetches, stage, url, hop, logged_before,
                   outcome, history>>

ChunkLate ==
    /\ Reading /\ Late
    /\ FetchFails("timeout", "body")

Complete ==
    /\ stage = "body" /\ ~Reading
    /\ Log("final")
    /\ End("ok", None)
    /\ UNCHANGED <<hop, body>>

ClientStep ==
    \/ Precheck \/ BudgetSpent \/ Request \/ GuardPasses \/ GuardBlocks \/ Escapes
    \/ ConnectDirect \/ ConnectCached \/ ConnectResolved \/ PinFails
    \/ \E u \in Urls : Respond(u, 0)
    \/ \E s \in Sizes : Respond(NoUrl, s)
    \/ \E k \in {"network", "timeout"} : ServerFails(k)
    \/ Redirect \/ ChunkLate \/ Complete
    \/ \E n \in Sizes \ {0} : Chunk(n)

Next == Tick \/ ClientStep \/ \E u \in Urls : Fetch(u)

\* A thread that runs getaddrinfo, which no timeout of the client reaches.
LookingUp ==
    \/ stage = "guard" /\ ~Exempt(current.host) /\ current.host \in Names
    \/ Pinning /\ Endpoint(current) \notin DOMAIN cache

\* What the client does without anybody's help, its timeouts among it.
OwnStep ==
    \/ stage \notin {"respond", "body"} /\ ~LookingUp /\ ClientStep
    \/ ServerFails("timeout") \/ ChunkLate \/ Complete

\* Name lookups, answers and chunks are the environment's: none need ever come.
Spec == Init /\ [][Next]_vars /\ WF_vars(OwnStep)
-----------------------------------------------------------------------------
(* Properties *)

Over == stage = "idle" /\ outcome # Pending

\* A request is only ever sent to a public address, whatever the lookups said
\* on the way, unless its own host is the exempt entry host; in particular a
\* redirect hop or a link on another host never is exempt.
ConnectionsVetted ==
    \A c \in connections :
        \/ c.address \in Public \cup {None}
        \/ Exempt(c.endpoint[1])

\* An endpoint is pinned for the life of the client: two requests to it never
\* reach different addresses, whatever the name service answers in between.
OneAddressPerEndpoint ==
    \A c, d \in connections : c.endpoint = d.endpoint => c.address = d.address

\* A success followed at most MaxRedirects redirects, and a fetch gives up on
\* the redirect after that, never earlier or later.
RedirectsBounded ==
    Over =>
        /\ Len(chain) <= MaxRedirects + 1
        /\ outcome.cause = "redirects" <=> Len(chain) = MaxRedirects + 1

\* Read back from the log, a successful fetch is its redirect chain and the
\* final URL, in order.  _downgrade_probe relies on it to find the first hop.
LogIsTheChain ==
    Over /\ outcome.kind = "ok" =>
        /\ [i \in 1..(Len(requests) - logged_before) |-> requests[logged_before + i].url]
               = Append(chain, current)
        /\ Append(chain, current)[1] = url
        /\ \A i \in 1..Len(chain) : requests[logged_before + i].status = "redirect"

\* No request carries a cookie of an earlier hop or an earlier fetch.
NoCookieForwarded == stage \in {"idle", "hop", "guard", "connect", "respond"} => jar = {}

\* Once the time budget is spent at most the request already past its deadline
\* check is sent, in the whole scan.
BudgetBoundsSends == lateSends <= 1

\* A body is kept up to the limit, and flagged exactly when some of it was
\* dropped: a body of exactly the limit is complete.
TruncationExact ==
    Over /\ outcome.kind = "ok" =>
        /\ truncated <=> response.size > Limit
        /\ total = IF response.size > Limit THEN Limit ELSE response.size

\* Both limits of a fetch are exact, at the limit and one beyond it, however a
\* body is cut into chunks and whatever way out the fetch takes.
LimitsExact == RedirectsBounded /\ TruncationExact

\* Every fetch ends, whatever servers withhold, unless a name lookup hangs: the
\* guard and the transport call getaddrinfo without a bound (integrity_probe.py
\* says of it that it "ignores socket timeouts").
FetchEnds == stage # "idle" ~> (stage = "idle" \/ []LookingUp)

\* "PinnedTransport resolves each host exactly once": every request to a host
\* reaches the same address.
OneAddressPerHost ==
    \A c, d \in connections : c.endpoint[1] = d.endpoint[1] => c.address = d.address
=============================================================================
