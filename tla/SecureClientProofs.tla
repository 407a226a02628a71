------------------------- MODULE SecureClientProofs -------------------------
(***************************************************************************)
(* Proofs about the HTTP client for any names, addresses, lookup answers,  *)
(* policies and limits: where requests go, what they carry, how many are   *)
(* sent and what is kept of a body.                                        *)
(***************************************************************************)
EXTENDS SecureClient, SequenceTheorems, TLAPS

\* A URL on its way to a connection has passed Precheck; a pinned address is
\* public unless it is the exempt host's.
Vetted ==
    /\ stage \in {"guard", "connect"} => Acceptable(current)
    /\ \A e \in DOMAIN cache : cache[e] \in Public \/ Exempt(e[1])
    /\ ConnectionsVetted

\* Where a request goes is decided by its endpoint and the pins.
Pinned ==
    \A c \in connections :
        /\ c.endpoint[1] \in Addresses => c.address = c.endpoint[1]
        /\ c.endpoint[1] \notin Addresses =>
              IF policy.pinned
              THEN c.endpoint \in DOMAIN cache /\ c.address = cache[c.endpoint]
              ELSE c.address = None

\* The one late request is the last: nothing passes the deadline check again.
Spent ==
    /\ clock \in Nat /\ lateSends \in {0, 1}
    /\ lateSends = 1 => Late /\ stage \notin {"guard", "connect"}

\* A running fetch has followed at most MaxRedirects redirects.
Redirecting ==
    /\ chain \in Seq(Urls) /\ current \in Urls \cup {NoUrl}
    /\ stage # "idle" => Len(chain) <= MaxRedirects /\ current \in Urls
    /\ stage = "redirect" => response.location \in Urls
    /\ RedirectsBounded

\* What has been read of the body so far.
Measured ==
    /\ total \in Nat /\ response.size \in Nat
    /\ stage \notin {"idle", "body"} => total = 0 /\ ~truncated
    /\ stage = "body" =>
          IF truncated THEN response.size > Limit /\ total = Limit
          ELSE total <= response.size /\ total <= Limit
    /\ TruncationExact

Entries == [url : Urls \cup {NoUrl}, status : {None, "redirect", "final"}]

\* While a fetch runs, the log since its start is its chain of redirects.
Logged ==
    /\ requests \in Seq(Entries)
    /\ logged_before \in Nat /\ logged_before <= Len(requests)
    /\ stage # "idle" =>
          /\ Len(requests) = logged_before + Len(chain)
          /\ \A i \in 1..Len(chain) :
                requests[logged_before + i] = [url |-> chain[i], status |-> "redirect"]
          /\ url = IF Len(chain) = 0 THEN current ELSE chain[1]
    /\ LogIsTheChain

IInv == Logged /\ Vetted /\ Pinned /\ NoCookieForwarded /\ Spent /\ Redirecting /\ Measured
-----------------------------------------------------------------------------
\* A hop is checked again before it is connected.
LEMMA NextVetted ==
  ASSUME Vetted, [Next]_vars
  PROVE  Vetted'
<1> USE DEF Vetted, ConnectionsVetted, Exempt, Acceptable, RefusedHost, Endpoint, Advance, End, hop, body, history
<1>1. CASE UNCHANGED vars
  BY <1>1 DEF vars
<1>2. CASE Tick
  BY <1>2 DEF Tick
<1>3. ASSUME NEW u \in Urls, Fetch(u) PROVE Vetted'
  BY <1>3 DEF Fetch
<1>4. CASE Precheck
  BY <1>4 DEF Precheck, FetchFails
<1>5. CASE BudgetSpent
  BY <1>5 DEF BudgetSpent, FetchFails
<1>6. CASE Request
  BY <1>6 DEF Request
<1>7. CASE GuardPasses
  BY <1>7 DEF GuardPasses
<1>8. CASE GuardBlocks
  BY <1>8 DEF GuardBlocks, HopFails, Log
<1>9. CASE Escapes
  BY <1>9 DEF Escapes, FetchFails
<1>10. CASE ConnectDirect
  BY <1>10 DEF ConnectDirect, Send
<1>11. CASE ConnectCached
  BY <1>11 DEF ConnectCached, Send, Pinning
<1>12. CASE ConnectResolved
  <2>1. PICK a \in Answers :
           /\ Exempt(current.host) \/ a \subseteq Public
           /\ \E address \in Preferred(a) :
                 /\ cache' = [e \in DOMAIN cache \cup {Endpoint(current)} |->
                                 IF e \in DOMAIN cache THEN cache[e] ELSE address]
                 /\ Send(address)
    BY <1>12 DEF ConnectResolved
  <2>2. PICK address \in Preferred(a) :
           /\ cache' = [e \in DOMAIN cache \cup {Endpoint(current)} |->
                           IF e \in DOMAIN cache THEN cache[e] ELSE address]
           /\ Send(address)
    BY <2>1
  <2>3. address \in Public \/ Exempt(current.host)
    BY <2>1, <2>2 DEF Preferred
  <2>4. \A e \in DOMAIN cache' : cache'[e] \in Public \/ Exempt(e[1])
    BY <2>2, <2>3
  <2>5. QED
    BY <2>2, <2>3, <2>4 DEF Send
<1>13. CASE PinFails
  BY <1>13 DEF PinFails, HopFails, Log, Pinning
<1>14. ASSUME NEW l \in Urls \cup {NoUrl}, NEW s \in Nat, Respond(l, s) PROVE Vetted'
  BY <1>14 DEF Respond
<1>15. ASSUME NEW k, ServerFails(k) PROVE Vetted'
  BY <1>15 DEF ServerFails, HopFails, Log
<1>16. CASE Redirect
  BY <1>16 DEF Redirect, Log
<1>17. CASE ChunkLate
  BY <1>17 DEF ChunkLate, FetchFails, Reading
<1>18. CASE Complete
  BY <1>18 DEF Complete, Log, Reading
<1>19. ASSUME NEW n \in Nat, Chunk(n) PROVE Vetted'
  BY <1>19 DEF Chunk, Reading
<1>20. QED
  BY <1>1, <1>2, <1>3, <1>4, <1>5, <1>6, <1>7, <1>8, <1>9, <1>10,
     <1>11, <1>12, <1>13, <1>14, <1>15, <1>16, <1>17, <1>18, <1>19, BoundAssumption DEF Next, ClientStep

\* A step that sends nothing leaves the pins alone.
LEMMA PinnedWithoutSend ==
  ASSUME Pinned, UNCHANGED <<connections, cache, policy>>
  PROVE  Pinned'
BY DEF Pinned

\* A pin is never replaced.
LEMMA NextPinned ==
  ASSUME Pinned, [Next]_vars
  PROVE  Pinned'
<1> USE DEF Advance, End, hop, body, history
<1>1. CASE UNCHANGED vars \/ Tick
  BY <1>1, PinnedWithoutSend DEF vars, Tick
<1>2. ASSUME NEW u \in Urls, Fetch(u) PROVE Pinned'
  BY <1>2, PinnedWithoutSend DEF Fetch
<1>3. CASE Precheck \/ BudgetSpent \/ Escapes \/ ChunkLate
  BY <1>3, PinnedWithoutSend DEF Precheck, BudgetSpent, Escapes, ChunkLate, FetchFails
<1>4. CASE GuardBlocks \/ PinFails
  BY <1>4, PinnedWithoutSend DEF GuardBlocks, PinFails, HopFails
<1>5. ASSUME NEW k \in {"network", "timeout"}, ServerFails(k) PROVE Pinned'
  BY <1>5, PinnedWithoutSend DEF ServerFails, HopFails
<1>6. CASE Request \/ GuardPasses
  BY <1>6, PinnedWithoutSend DEF Request, GuardPasses
<1>7. ASSUME NEW l \in Urls \cup {NoUrl}, NEW s \in Nat, Respond(l, s) PROVE Pinned'
  BY <1>7, PinnedWithoutSend DEF Respond
<1>8. CASE Redirect \/ Complete
  BY <1>8, PinnedWithoutSend DEF Redirect, Complete
<1>9. ASSUME NEW n \in Nat, Chunk(n) PROVE Pinned'
  BY <1>9, PinnedWithoutSend DEF Chunk
<1>10. CASE ConnectDirect
  BY <1>10 DEF ConnectDirect, Send, Pinned, Endpoint
<1>11. CASE ConnectCached
  <2>1. /\ current.host \notin Addresses /\ policy.pinned
        /\ Endpoint(current) \in DOMAIN cache /\ Endpoint(current)[1] = current.host
    BY <1>11, AddressAssumption DEF ConnectCached, Pinning, Endpoint
  <2>2. /\ cache' = cache /\ policy' = policy
        /\ connections' = connections
              \cup {[endpoint |-> Endpoint(current), address |-> cache[Endpoint(current)]]}
    BY <1>11 DEF ConnectCached, Send
  <2>3. QED
    BY <2>1, <2>2 DEF Pinned
<1>12. CASE ConnectResolved
  <2>1. /\ current.host \notin Addresses /\ policy.pinned
        /\ Endpoint(current) \notin DOMAIN cache /\ Endpoint(current)[1] = current.host
    BY <1>12, AddressAssumption DEF ConnectResolved, Pinning, Endpoint
  <2>2. PICK address :
           /\ cache' = [e \in DOMAIN cache \cup {Endpoint(current)} |->
                           IF e \in DOMAIN cache THEN cache[e] ELSE address]
           /\ Send(address)
    BY <1>12 DEF ConnectResolved
  <2>3. /\ policy' = policy
        /\ connections' = connections
              \cup {[endpoint |-> Endpoint(current), address |-> address]}
    BY <2>2 DEF Send
  <2>4. \A e \in DOMAIN cache : e \in DOMAIN cache' /\ cache'[e] = cache[e]
    BY <2>2
  <2>5. Endpoint(current) \in DOMAIN cache' /\ cache'[Endpoint(current)] = address
    BY <2>1, <2>2
  <2>6. QED
    BY <2>1, <2>3, <2>4, <2>5 DEF Pinned
<1>13. QED
  BY <1>1, <1>2, <1>3, <1>4, <1>5, <1>6, <1>7, <1>8, <1>9, <1>10, <1>11, <1>12, BoundAssumption
     DEF Next, ClientStep

\* Every way out of a hop empties the jar.
LEMMA NextNoCookie ==
  ASSUME NoCookieForwarded, [Next]_vars
  PROVE  NoCookieForwarded'
<1> USE DEF NoCookieForwarded, Advance, End, hop, body, history
<1>1. CASE UNCHANGED vars
  BY <1>1 DEF vars
<1>2. CASE Tick
  BY <1>2 DEF Tick
<1>3. ASSUME NEW u \in Urls, Fetch(u) PROVE NoCookieForwarded'
  BY <1>3 DEF Fetch
<1>4. CASE Precheck
  BY <1>4 DEF Precheck, FetchFails
<1>5. CASE BudgetSpent
  BY <1>5 DEF BudgetSpent, FetchFails
<1>6. CASE Request
  BY <1>6 DEF Request
<1>7. CASE GuardPasses
  BY <1>7 DEF GuardPasses
<1>8. CASE GuardBlocks
  BY <1>8 DEF GuardBlocks, HopFails, Log
<1>9. CASE Escapes
  BY <1>9 DEF Escapes, FetchFails
<1>10. CASE ConnectDirect
  BY <1>10 DEF ConnectDirect, Send
<1>11. CASE ConnectCached
  BY <1>11 DEF ConnectCached, Send, Pinning
<1>12. CASE ConnectResolved
  BY <1>12 DEF ConnectResolved, Send, Pinning
<1>13. CASE PinFails
  BY <1>13 DEF PinFails, HopFails, Log, Pinning
<1>14. ASSUME NEW l \in Urls \cup {NoUrl}, NEW s \in Nat, Respond(l, s) PROVE NoCookieForwarded'
  BY <1>14 DEF Respond
<1>15. ASSUME NEW k, ServerFails(k) PROVE NoCookieForwarded'
  BY <1>15 DEF ServerFails, HopFails, Log
<1>16. CASE Redirect
  BY <1>16 DEF Redirect, Log
<1>17. CASE ChunkLate
  BY <1>17 DEF ChunkLate, FetchFails, Reading
<1>18. CASE Complete
  BY <1>18 DEF Complete, Log, Reading
<1>19. ASSUME NEW n \in Nat, Chunk(n) PROVE NoCookieForwarded'
  BY <1>19 DEF Chunk, Reading
<1>20. QED
  BY <1>1, <1>2, <1>3, <1>4, <1>5, <1>6, <1>7, <1>8, <1>9, <1>10,
     <1>11, <1>12, <1>13, <1>14, <1>15, <1>16, <1>17, <1>18, <1>19, BoundAssumption DEF Next, ClientStep

\* A spent budget stays spent.
LEMMA NextSpent ==
  ASSUME Spent, [Next]_vars
  PROVE  Spent'
<1> USE DEF Spent, Late, Advance, End, hop, body, history
<1>1. CASE UNCHANGED vars
  BY <1>1 DEF vars
<1>2. CASE Tick
  BY <1>2, BoundAssumption DEF Tick
<1>3. ASSUME NEW u \in Urls, Fetch(u) PROVE Spent'
  BY <1>3 DEF Fetch
<1>4. CASE Precheck
  BY <1>4 DEF Precheck, FetchFails
<1>5. CASE BudgetSpent
  BY <1>5 DEF BudgetSpent, FetchFails
<1>6. CASE Request
  BY <1>6 DEF Request
<1>7. CASE GuardPasses
  BY <1>7 DEF GuardPasses
<1>8. CASE GuardBlocks
  BY <1>8 DEF GuardBlocks, HopFails, Log
<1>9. CASE Escapes
  BY <1>9 DEF Escapes, FetchFails
<1>10. CASE ConnectDirect
  BY <1>10 DEF ConnectDirect, Send
<1>11. CASE ConnectCached
  BY <1>11 DEF ConnectCached, Send, Pinning
<1>12. CASE ConnectResolved
  BY <1>12 DEF ConnectResolved, Send, Pinning
<1>13. CASE PinFails
  BY <1>13 DEF PinFails, HopFails, Log, Pinning
<1>14. ASSUME NEW l \in Urls \cup {NoUrl}, NEW s \in Nat, Respond(l, s) PROVE Spent'
  BY <1>14 DEF Respond
<1>15. ASSUME NEW k, ServerFails(k) PROVE Spent'
  BY <1>15 DEF ServerFails, HopFails, Log
<1>16. CASE Redirect
  BY <1>16 DEF Redirect, Log
<1>17. CASE ChunkLate
  BY <1>17 DEF ChunkLate, FetchFails, Reading
<1>18. CASE Complete
  BY <1>18 DEF Complete, Log, Reading
<1>19. ASSUME NEW n \in Nat, Chunk(n) PROVE Spent'
  BY <1>19 DEF Chunk, Reading
<1>20. QED
  BY <1>1, <1>2, <1>3, <1>4, <1>5, <1>6, <1>7, <1>8, <1>9, <1>10,
     <1>11, <1>12, <1>13, <1>14, <1>15, <1>16, <1>17, <1>18, <1>19, BoundAssumption DEF Next, ClientStep

\* A fetch that ends for another reason has not run out of redirects.
LEMMA RedirectsOfEnded ==
  ASSUME Redirecting, stage # "idle", stage' = "idle", UNCHANGED <<chain, current>>,
         outcome'.cause # "redirects"
  PROVE  Redirecting'
<1>1. Len(chain) \in Nat /\ Len(chain) <= MaxRedirects /\ MaxRedirects \in Nat
  BY BoundAssumption, LenProperties DEF Redirecting
<1>2. RedirectsBounded'
  BY <1>1 DEF RedirectsBounded, Over
<1>3. QED
  BY <1>2 DEF Redirecting

\* Between two redirects the chain stands still.
LEMMA RedirectsOfRunning ==
  ASSUME Redirecting, stage # "idle", stage' \notin {"idle", "redirect"}, UNCHANGED <<chain, current>>
  PROVE  Redirecting'
BY DEF Redirecting, RedirectsBounded, Over

\* Each redirect is counted.
LEMMA NextRedirecting ==
  ASSUME Redirecting, [Next]_vars
  PROVE  Redirecting'
<1> USE DEF Advance, End, hop, body, history
<1>1. CASE UNCHANGED vars
  BY <1>1 DEF vars, Redirecting, RedirectsBounded, Over
<1>2. CASE Tick
  BY <1>2 DEF Tick, Redirecting, RedirectsBounded, Over
<1>3. ASSUME NEW u \in Urls, Fetch(u) PROVE Redirecting'
  <2>1. chain' = <<>> /\ Len(chain') = 0 /\ chain' \in Seq(Urls) /\ MaxRedirects \in Nat
    BY <1>3, BoundAssumption DEF Fetch
  <2>2. stage' = "hop" /\ current' = u
    BY <1>3 DEF Fetch
  <2>3. RedirectsBounded'
    BY <2>2 DEF RedirectsBounded, Over
  <2>4. QED
    BY <2>1, <2>2, <2>3 DEF Redirecting
<1>4. CASE Precheck \/ BudgetSpent \/ Escapes \/ ChunkLate
  BY <1>4, RedirectsOfEnded
     DEF Precheck, BudgetSpent, Escapes, ChunkLate, Reading, FetchFails
<1>5. CASE GuardBlocks \/ PinFails
  BY <1>5, RedirectsOfEnded DEF GuardBlocks, PinFails, Pinning, HopFails
<1>6. ASSUME NEW k \in {"network", "timeout"}, ServerFails(k) PROVE Redirecting'
  BY <1>6, RedirectsOfEnded DEF ServerFails, HopFails
<1>7. CASE Complete
  BY <1>7, RedirectsOfEnded DEF Complete, None
<1>8. CASE Request \/ GuardPasses
  BY <1>8, RedirectsOfRunning DEF Request, GuardPasses
<1>9. CASE ConnectDirect \/ ConnectCached \/ ConnectResolved
  BY <1>9, RedirectsOfRunning
     DEF ConnectDirect, ConnectCached, ConnectResolved, Send
<1>10. ASSUME NEW l \in Urls \cup {NoUrl}, NEW s \in Nat, Respond(l, s) PROVE Redirecting'
  BY <1>10 DEF Respond, Redirecting, RedirectsBounded, Over
<1>11. ASSUME NEW n \in Nat, Chunk(n) PROVE Redirecting'
  BY <1>11, RedirectsOfRunning DEF Chunk, Reading
<1>12. CASE Redirect
  <2>1. /\ chain \in Seq(Urls) /\ current \in Urls /\ response.location \in Urls
        /\ Len(chain) <= MaxRedirects /\ Len(chain) \in Nat /\ MaxRedirects \in Nat
    BY <1>12, BoundAssumption, LenProperties DEF Redirect, Redirecting
  <2>2. chain' \in Seq(Urls) /\ Len(chain') = Len(chain) + 1
    BY <1>12, <2>1 DEF Redirect
  <2>3. CASE Len(chain') > MaxRedirects
    <3>1. /\ stage' = "idle" /\ outcome'.cause = "redirects" /\ current' = current
      BY <1>12, <2>1, <2>2, <2>3 DEF Redirect
    <3>2. Len(chain') = MaxRedirects + 1
      BY <2>1, <2>2, <2>3
    <3>3. RedirectsBounded'
      BY <2>1, <3>1, <3>2 DEF RedirectsBounded, Over
    <3>4. QED
      BY <2>1, <2>2, <3>1, <3>3 DEF Redirecting
  <2>4. CASE Len(chain') <= MaxRedirects
    <3>1. /\ stage' = "hop" /\ current' = response.location
      BY <1>12, <2>1, <2>2, <2>4 DEF Redirect
    <3>2. QED
      BY <2>1, <2>2, <2>4, <3>1 DEF Redirecting, RedirectsBounded, Over
  <2>5. QED
    BY <2>1, <2>2, <2>3, <2>4
<1>13. QED
  BY <1>1, <1>2, <1>3, <1>4, <1>5, <1>6, <1>7, <1>8, <1>9, <1>10, <1>11, <1>12, BoundAssumption
     DEF Next, ClientStep

\* A fetch that ends without success has no body to answer for.
LEMMA MeasureOfFailed ==
  ASSUME Measured, stage' = "idle", outcome'.kind # "ok", UNCHANGED <<body, response>>
  PROVE  Measured'
BY DEF Measured, TruncationExact, Over, body

\* Before the body nothing is read.
LEMMA MeasureOfHop ==
  ASSUME Measured, stage \notin {"idle", "body"}, stage' \notin {"idle", "body"},
         UNCHANGED <<body, response>>
  PROVE  Measured'
BY DEF Measured, TruncationExact, Over, body

\* Chunks add up to the body or to the limit.
LEMMA NextMeasured ==
  ASSUME Measured, [Next]_vars
  PROVE  Measured'
<1> USE DEF Advance, End, hop, body, history
<1>1. CASE UNCHANGED vars
  BY <1>1 DEF vars, Measured, TruncationExact, Over
<1>2. CASE Tick
  BY <1>2 DEF Tick, Measured, TruncationExact, Over
<1>3. ASSUME NEW u \in Urls, Fetch(u) PROVE Measured'
  BY <1>3 DEF Fetch, Measured, TruncationExact, Over, NoResponse
<1>4. CASE Precheck \/ BudgetSpent \/ Escapes \/ ChunkLate
  BY <1>4, MeasureOfFailed DEF Precheck, BudgetSpent, Escapes, ChunkLate, FetchFails
<1>5. CASE GuardBlocks \/ PinFails
  BY <1>5, MeasureOfFailed DEF GuardBlocks, PinFails, HopFails
<1>6. ASSUME NEW k \in {"network", "timeout"}, ServerFails(k) PROVE Measured'
  BY <1>6, MeasureOfFailed DEF ServerFails, HopFails
<1>7. CASE Request \/ GuardPasses
  BY <1>7, MeasureOfHop DEF Request, GuardPasses
<1>8. CASE ConnectDirect \/ ConnectCached \/ ConnectResolved
  BY <1>8, MeasureOfHop
     DEF ConnectDirect, ConnectCached, ConnectResolved, Send
<1>9. ASSUME NEW l \in Urls \cup {NoUrl}, NEW s \in Nat, Respond(l, s) PROVE Measured'
  <2>1. total' = 0 /\ ~truncated' /\ response'.size = s /\ stage' \in {"redirect", "body"}
    BY <1>9 DEF Respond, Measured
  <2>2. TruncationExact'
    BY <2>1 DEF TruncationExact, Over
  <2>3. QED
    BY <2>1, <2>2, BoundAssumption DEF Measured
<1>10. CASE Redirect
  BY <1>10, MeasureOfFailed, MeasureOfHop DEF Redirect
<1>11. CASE Complete
  <2>1. /\ total \in Nat /\ response.size \in Nat /\ Limit \in Nat
        /\ total' = total /\ truncated' = truncated /\ response' = response /\ stage' = "idle"
    BY <1>11, BoundAssumption DEF Complete, Measured
  <2>2. IF truncated THEN response.size > Limit /\ total = Limit
        ELSE total = response.size /\ total <= Limit
    BY <1>11, <2>1 DEF Complete, Reading, Measured
  <2>3. TruncationExact'
    BY <2>1, <2>2 DEF TruncationExact
  <2>4. QED
    BY <2>1, <2>3 DEF Measured
<1>12. ASSUME NEW n \in Nat, Chunk(n) PROVE Measured'
  <2>1. /\ total \in Nat /\ response.size \in Nat /\ Limit \in Nat
        /\ total + n <= response.size
        /\ stage = "body" /\ stage' = "body" /\ response' = response
    BY <1>12, BoundAssumption DEF Chunk, Reading, Measured
  <2>2. /\ truncated' <=> total + n > Limit
        /\ total' = IF total + n > Limit THEN Limit ELSE total + n
    BY <1>12 DEF Chunk
  <2>3. total' \in Nat
    BY <2>1, <2>2
  <2>4. IF truncated' THEN response'.size > Limit /\ total' = Limit
        ELSE total' <= response'.size /\ total' <= Limit
    BY <2>1, <2>2
  <2>5. TruncationExact'
    BY <2>1 DEF TruncationExact, Over
  <2>6. QED
    BY <2>1, <2>3, <2>4, <2>5 DEF Measured
<1>13. QED
  BY <1>1, <1>2, <1>3, <1>4, <1>5, <1>6, <1>7, <1>8, <1>9, <1>10, <1>11, <1>12, BoundAssumption
     DEF Next, ClientStep

\* Within a hop nothing is logged.
LEMMA LogOfHop ==
  ASSUME Logged, stage # "idle", stage' # "idle",
         UNCHANGED <<requests, chain, current, url, logged_before>>
  PROVE  Logged'
BY DEF Logged, LogIsTheChain, Over

\* A hop is logged after what was logged before it.
LEMMA LogAppends ==
  ASSUME Redirecting, Logged, NEW status \in {None, "redirect", "final"}, Log(status)
  PROVE  /\ requests' \in Seq(Entries) /\ Len(requests') = Len(requests) + 1
         /\ requests'[Len(requests) + 1] = [url |-> current, status |-> status]
         /\ \A i \in 1..Len(requests) : requests'[i] = requests[i]
<1> DEFINE entry == [url |-> current, status |-> status]
<1>1. entry \in Entries
  BY DEF Redirecting, Entries
<1>2. requests \in Seq(Entries) /\ requests' = Append(requests, entry)
  BY DEF Logged, Log
<1> HIDE DEF entry
<1>3. /\ requests' \in Seq(Entries) /\ Len(requests') = Len(requests) + 1
      /\ requests'[Len(requests) + 1] = entry
      /\ \A i \in 1..Len(requests) : requests'[i] = requests[i]
  BY <1>1, <1>2
<1>4. QED
  BY <1>3 DEF entry

\* A fetch that ends without success may have logged the hop it failed on.
LEMMA LogOfFailed ==
  ASSUME Redirecting, Logged, stage' = "idle", outcome'.kind # "ok",
         UNCHANGED logged_before,
         requests' = requests \/ Log(None) \/ Log("redirect")
  PROVE  Logged'
<1>1. requests' \in Seq(Entries) /\ Len(requests) <= Len(requests')
  <2>1. CASE requests' = requests
    BY <2>1 DEF Logged
  <2>2. CASE Log(None) \/ Log("redirect")
    BY <2>2, LogAppends DEF Logged
  <2>3. QED
    BY <2>1, <2>2
<1>2. LogIsTheChain'
  BY DEF LogIsTheChain
<1>3. QED
  BY <1>1, <1>2 DEF Logged

\* The log is written hop by hop, on every way out of one.
LEMMA NextLogged ==
  ASSUME Redirecting, Logged, [Next]_vars
  PROVE  Logged'
<1> USE DEF Advance, End, hop, body, history
<1>1. CASE UNCHANGED vars
  BY <1>1 DEF vars, Logged, LogIsTheChain, Over
<1>2. CASE Tick
  BY <1>2 DEF Tick, Logged, LogIsTheChain, Over
<1>3. ASSUME NEW u \in Urls, Fetch(u) PROVE Logged'
  BY <1>3 DEF Fetch, Logged, LogIsTheChain, Over
<1>4. CASE Precheck \/ BudgetSpent \/ Escapes \/ ChunkLate
  BY <1>4, LogOfFailed DEF Precheck, BudgetSpent, Escapes, ChunkLate, FetchFails
<1>5. CASE GuardBlocks \/ PinFails
  BY <1>5, LogOfFailed DEF GuardBlocks, PinFails, HopFails
<1>6. ASSUME NEW k \in {"network", "timeout"}, ServerFails(k) PROVE Logged'
  BY <1>6, LogOfFailed DEF ServerFails, HopFails
<1>7. CASE Request \/ GuardPasses
  BY <1>7, LogOfHop DEF Request, GuardPasses
<1>8. CASE ConnectDirect \/ ConnectCached \/ ConnectResolved
  BY <1>8, LogOfHop DEF ConnectDirect, ConnectCached, ConnectResolved, Send
<1>9. ASSUME NEW l \in Urls \cup {NoUrl}, NEW s \in Nat, Respond(l, s) PROVE Logged'
  BY <1>9, LogOfHop DEF Respond
<1>10. CASE Redirect
  <2>1. CASE Len(chain') > MaxRedirects
    <3>1. /\ stage' = "idle" /\ outcome'.kind # "ok" /\ UNCHANGED logged_before
          /\ Log("redirect")
      BY <1>10, <2>1, BoundAssumption DEF Redirect, Redirecting
    <3>2. QED
      BY <3>1, LogOfFailed
  <2>2. CASE Len(chain') <= MaxRedirects
    <3>1. /\ stage = "redirect" /\ stage' = "hop" /\ Log("redirect")
          /\ chain' = Append(chain, current)
          /\ url' = url /\ logged_before' = logged_before
      BY <1>10, <2>2, BoundAssumption DEF Redirect, Redirecting
    <3>2. /\ chain \in Seq(Urls) /\ current \in Urls /\ requests \in Seq(Entries)
          /\ logged_before \in Nat
      BY <3>1 DEF Redirecting, Logged
    <3>3. /\ requests' \in Seq(Entries) /\ Len(requests') = Len(requests) + 1
          /\ requests'[Len(requests) + 1] = [url |-> current, status |-> "redirect"]
          /\ \A i \in 1..Len(requests) : requests'[i] = requests[i]
      BY <3>1, LogAppends
    <3>4. /\ Len(chain') = Len(chain) + 1 /\ chain'[Len(chain) + 1] = current
          /\ \A i \in 1..Len(chain) : chain'[i] = chain[i]
      BY <3>1, <3>2
    <3>5. Len(requests) = logged_before + Len(chain)
      BY <3>1 DEF Logged
    <3>6. \A i \in 1..Len(chain') :
             requests'[logged_before + i] = [url |-> chain'[i], status |-> "redirect"]
      <4> SUFFICES ASSUME NEW i \in 1..(Len(chain) + 1)
                   PROVE  requests'[logged_before + i] = [url |-> chain'[i], status |-> "redirect"]
        BY <3>4
      <4>1. CASE i = Len(chain) + 1
        BY <4>1, <3>2, <3>3, <3>4, <3>5
      <4>2. CASE i \in 1..Len(chain)
        <5>1. logged_before + i \in 1..Len(requests)
          BY <4>2, <3>2, <3>5
        <5>2. requests[logged_before + i] = [url |-> chain[i], status |-> "redirect"]
          BY <4>2, <3>1 DEF Logged
        <5>3. QED
          BY <4>2, <5>1, <5>2, <3>3, <3>4
      <4>3. QED
        BY <4>1, <4>2, <3>2
    <3>7. url = chain'[1]
      BY <3>1, <3>2, <3>4 DEF Logged
    <3>8. LogIsTheChain'
      BY <3>1 DEF LogIsTheChain, Over
    <3>9. QED
      BY <3>1, <3>2, <3>3, <3>4, <3>5, <3>6, <3>7, <3>8 DEF Logged
  <2>3. QED
    BY <1>10, <2>1, <2>2, BoundAssumption DEF Redirect, Redirecting
<1>11. CASE Complete
  <2>1. /\ stage = "body" /\ stage' = "idle" /\ Log("final") /\ chain' = chain
        /\ current' = current /\ url' = url /\ logged_before' = logged_before
    BY <1>11 DEF Complete
  <2>2. /\ chain \in Seq(Urls) /\ current \in Urls /\ requests \in Seq(Entries)
        /\ logged_before \in Nat /\ Len(requests) = logged_before + Len(chain)
    BY <2>1 DEF Redirecting, Logged
  <2>3. /\ requests' \in Seq(Entries) /\ Len(requests') = Len(requests) + 1
        /\ requests'[Len(requests) + 1] = [url |-> current, status |-> "final"]
        /\ \A i \in 1..Len(requests) : requests'[i] = requests[i]
    BY <2>1, LogAppends
  <2>4. ASSUME NEW i \in 1..Len(chain)
        PROVE  /\ requests'[logged_before + i].url = chain[i]
               /\ requests'[logged_before + i].status = "redirect"
    <3>1. logged_before + i \in 1..Len(requests)
      BY <2>2
    <3>2. requests[logged_before + i] = [url |-> chain[i], status |-> "redirect"]
      BY <2>1 DEF Logged
    <3>3. QED
      BY <2>3, <3>1, <3>2
  <2>5. [i \in 1..(Len(requests') - logged_before) |-> requests'[logged_before + i].url]
           = Append(chain, current)
    <3>1. Len(requests') - logged_before = Len(chain) + 1
      BY <2>2, <2>3
    <3>2. ASSUME NEW i \in 1..(Len(chain) + 1)
          PROVE  requests'[logged_before + i].url = Append(chain, current)[i]
      <4>1. CASE i = Len(chain) + 1
        <5>1. logged_before + i = Len(requests) + 1
          BY <4>1, <2>2
        <5>2. Append(chain, current)[i] = current
          BY <4>1, <2>2
        <5>3. requests'[logged_before + i].url = current
          BY <5>1, <2>3
        <5>4. QED
          BY <5>2, <5>3
      <4>2. CASE i \in 1..Len(chain)
        BY <4>2, <2>2, <2>4
      <4>3. QED
        BY <4>1, <4>2, <2>2
    <3>3. Append(chain, current) = [i \in 1..(Len(chain) + 1) |-> Append(chain, current)[i]]
      <4>1. Append(chain, current) \in Seq(Urls) /\ Len(Append(chain, current)) = Len(chain) + 1
        BY <2>2
      <4>2. \A s \in Seq(Urls) : s = [i \in 1..Len(s) |-> s[i]]
        OBVIOUS
      <4>3. QED
        BY <4>1, <4>2
    <3>4. QED
      BY <3>1, <3>2, <3>3
  <2>6. Append(chain, current)[1] = url
    <3>1. url = IF Len(chain) = 0 THEN current ELSE chain[1]
      BY <2>1 DEF Logged
    <3>2. QED
      BY <2>2, <3>1
  <2>7. LogIsTheChain'
    <3>1. \A i \in 1..Len(chain) : requests'[logged_before + i].status = "redirect"
      BY <2>4
    <3>2. QED
      BY <2>1, <2>5, <2>6, <3>1 DEF LogIsTheChain
  <2>8. QED
    BY <2>1, <2>2, <2>3, <2>7 DEF Logged
<1>12. ASSUME NEW n \in Nat, Chunk(n) PROVE Logged'
  BY <1>12, LogOfHop DEF Chunk, Reading
<1>13. QED
  BY <1>1, <1>2, <1>3, <1>4, <1>5, <1>6, <1>7, <1>8, <1>9, <1>10, <1>11, <1>12, BoundAssumption
     DEF Next, ClientStep

-----------------------------------------------------------------------------
\* The conjunction of these is an invariant of the client.
THEOREM Invariance == Spec => []IInv
<1>1. Init => IInv
  <2> SUFFICES ASSUME Init PROVE IInv
    OBVIOUS
  <2> USE DEF Init
  <2>1. DOMAIN cache = {}
    OBVIOUS
  <2>2. Vetted /\ Pinned
    BY <2>1 DEF Vetted, ConnectionsVetted, Pinned
  <2>3. NoCookieForwarded /\ Spent
    BY DEF NoCookieForwarded, Spent
  <2>4. Redirecting
    BY DEF Redirecting, RedirectsBounded, Over, Pending
  <2>5. Measured
    BY DEF Measured, TruncationExact, Over, Pending, NoResponse
  <2>6. Logged
    BY DEF Logged, LogIsTheChain, Over, Pending
  <2>7. QED
    BY <2>2, <2>3, <2>4, <2>5, <2>6 DEF IInv
<1>2. IInv /\ [Next]_vars => IInv'
  BY NextVetted, NextPinned, NextNoCookie, NextSpent, NextRedirecting, NextMeasured, NextLogged
     DEF IInv
<1>3. QED
  BY <1>1, <1>2, PTL DEF Spec

\* Requests reach public addresses or the exempt host, whatever lookups answer.
THEOREM RequestsVetted == Spec => []ConnectionsVetted
<1>1. IInv => ConnectionsVetted
  BY DEF IInv, Vetted
<1>2. QED
  BY <1>1, Invariance, PTL

\* Two requests to an endpoint reach the same address.
THEOREM EndpointsPinned == Spec => []OneAddressPerEndpoint
<1>1. IInv => OneAddressPerEndpoint
  BY DEF IInv, Pinned, OneAddressPerEndpoint
<1>2. QED
  BY <1>1, Invariance, PTL

\* Read back from the log, a successful fetch is its redirects and its end.
THEOREM LogReadsBack == Spec => []LogIsTheChain
<1>1. IInv => LogIsTheChain
  BY DEF IInv, Logged
<1>2. QED
  BY <1>1, Invariance, PTL

\* No hop and no fetch inherits a cookie.
THEOREM CookiesDropped == Spec => []NoCookieForwarded
<1>1. IInv => NoCookieForwarded
  BY DEF IInv
<1>2. QED
  BY <1>1, Invariance, PTL

\* At most one request of a scan is sent after its budget.
THEOREM BudgetKept == Spec => []BudgetBoundsSends
<1>1. IInv => BudgetBoundsSends
  BY DEF IInv, Spent, BudgetBoundsSends
<1>2. QED
  BY <1>1, Invariance, PTL

\* A fetch gives up on exactly the redirect after MaxRedirects, and a body is
\* cut exactly when it is longer than the limit.
THEOREM LimitsKept == Spec => []LimitsExact
<1>1. IInv => RedirectsBounded
  BY DEF IInv, Redirecting
<1>2. IInv => TruncationExact
  BY DEF IInv, Measured
<1>3. IInv => LimitsExact
  BY <1>1, <1>2 DEF LimitsExact
<1>4. QED
  BY <1>3, Invariance, PTL
=============================================================================
