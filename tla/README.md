# scovant-core: verification development

TLA+ models of Scovant Core, a passive scanner that fetches the public documents of a web site,
runs a registry of checks over them and rates how ready the site is for AI agents. The models are
translated from `src/src/scovant_core/` (paths below are relative to it), model-checked with TLC
on small instances and, but for liveness and the properties section 7 lists, proved with TLAPS
for every value of their constants.

Contents: 1 the system; 2 the modules; 3 what each run checks; 4 bounds; 5 fairness; 6 what is
proved; 7 only model-checked; 8 disagreements found; 9 observations without a run; 10 not
modelled; 11 what is left.

## 1. The system

A scan is one call of `engine.scan`. It runs in one thread:

    options -> [select checks] -> entry fetch -> profile -> checks in order -> snapshot
            -> Technical Readiness pass -> client.close() -> report

Everything a phase wants to know about the site it asks the *evidence store* for, by name. The
store runs the *gatherer* registered under that name, once; gatherers ask the store for other
evidence in turn, and fetch through the *HTTP client*. Technical Readiness evaluates a *rule
library* over the gathered documents and *scores* it. Around the scan are three front ends: the
command line, a GitHub Action that reads the command line's report, and an MCP server that runs
scans for an agent.

| component | state it keeps | operations | hard behaviour | what makes it correct |
|---|---|---|---|---|
| Evidence store (`evidence.py`) | `_data`, `errors`, and the Python call stack of nested gatherers | `get`, `try_get`, `gathered` | re-entrancy; failure remembered and propagated; passive reads | each gatherer runs once; availability and content independent of order; failures have a cause; answers are final; requests unwind |
| Gatherers (`gatherers/`) | none of their own | one function each, requests then fetches | the request graph must stay acyclic; a failure takes down what requires it | ranks exist (an assumption TLC evaluates) |
| Scan engine (`engine.py`, `profiles.py`, `checks/base.py`) | options, profile, results, snapshot, readiness | `scan` and its phases | one part of many failing; selection narrowed; the Technical pass sharing store and budget | verdicts independent of each other; every gatherer run and every failure accounted to who asked; no failure but the entry gatherer's and the profile detector's costs the report; the rating ignores the selection; nothing gathered after close |
| Checks (`checks/`) | none | `evaluate` | requests that depend on what was found | each status follows from its own evidence |
| HTTP client (`security/client.py`, `pinned_transport.py`, `url_safety.py`, `policy.py`) | pin cache, cookie jar, request log, deadline | `fetch`, `try_fetch`, `close` | two lookups that may disagree; redirects; cookies; deadline; byte limit; exceptions leaving a hop by different ways | connections reach vetted addresses, one per endpoint; limits exact; log is the chain; no cookie carried |
| Sitemap reading (`gatherers/sitemap.py`, `sitemap_urls.py`) | the record so far, the first miss | `check_sitemap`, `gather_sitemap` | a document located by one request and read by another; candidates that answer, miss or are refused; an index whose child decides | absence and invalidity rest on answers; entries are those of the last document read |
| Page selection (`gatherers/pages.py`) | picks and records so far | `select_pages`, `gather_pages` | three sources of candidates, several limits, many spellings of one page, URLs the parser rejects | entry first, no page twice, on the site, within the limits, no entry of the window left out below them |
| Reference integrity probe (`analysis/integrity_probe.py`, `gatherers/reference_integrity.py`) | lookup budget, abandoned resolver threads | extraction, DNS and registry lookups, verdict | a lookup that outlives its timeout; throttled or redirecting registries; a mixture of settled and unsettled references | only evidence convicts; the budget counts every lookup; the probe ends though lookups hang |
| Rule library (`rules/`, `capabilities.py`) | a locked cache in `conform.py` | pure predicates | evidence that is missing, inert or behind a wall; cache shared by threads, keyed by object identity | a loss is never a verdict; each rule reads its own object |
| Technical Readiness (`r2/`) | outcomes per rule and page | `technical_report` | incomplete evidence, shared root causes, caps, rounding | repairs never lower the rating; losses lower coverage, are named and accounted for |
| Command line (`cli.py`), Action (`action.py`, `action.yml`), contribution (`contribute.py`) | one run's exit code | gates, report, one POST; guard, outputs, gate | precedence of three gates, applied in two processes; a missing rating; a report that cannot be written | the two decide alike; no number never passes a numeric gate; only comparable scans are contributed |
| MCP server (`mcp_server.py`) | `_SCAN_LOCK`, `_REPORTS` | `scan_site`, `get_core_score`, `get_finding`, `list_checks`, `explain_check` | tool calls on worker threads; ring trimmed outside the lock | one scan at a time; lock always given back; ring is the tail of the reports |
| Report renderers (`report/`), parsers (`parsers/`), npm launcher | none | formatting, parsing, process start | | |

Interactions: store and gatherers call each other recursively; engine and checks call the store;
gatherers call the client; the client calls the guard, the transport and the name service; the
Technical pass turns the store's documents into evidence for the rules; command line and Action
read the report it ends in; the MCP server's threads share the lock and the ring and call `scan`,
which shares nothing between scans but the rule library's cache.

## 2. Modules and how they correspond to the code

### EvidenceStore
The store of one scan. `data` is `_data`, `errors` is `errors`, `stack` is the Python call stack
between a phase of the scan and the innermost gatherer, each frame with the request it is at and
the evidence it could read. `Program[n]` lists what gatherer `n` asks for, in order and mode.
A gatherer's own fetching and parsing is one bit, `sound[n]`: does its code return or raise.

| action | code |
|---|---|
| `Call`, `Nest` | a miss in `get`/`try_get` that calls the registered function (evidence.py:46-48) |
| `Hit`, `Missing`, `Peek` | the answers without a call (42-43, 54-68) |
| `Propagate`, `Raise` | the `except Exception` that records the error, whether it was an `EvidenceUnavailable` of a required gatherer or the gatherer's own (49-51) |
| `Return` | the function's result is stored (48, 52) |

`fate` is a specification variable that no action changes or reads: whether evidence is obtainable
at all, the solution of `Obtainable`. `RankAssumption` says the request graph is acyclic, so there
is exactly one.

### Gatherers, Checks
The request programs, one definition per gatherer and per way a check uses the store, read off
the `store.get / try_get / gathered` calls of each function. `machine_text` and
CORE-OPERABILITY-011 are the ones that peek with `gathered`.

### EvidenceLedger
The abstract specification: a piece of evidence gets one verdict for the whole scan, available
only on top of available evidence, unavailable only for a recorded reason. No stack and no
requests. `EvidenceStore!ImplementsLedger` is the refinement, with `verdict` read off `data` and
`errors` and `Required[n]` the evidence `n` asks for with `get`.

### ScanEngine
EXTENDS EvidenceStore: the store's steps are steps of the scan (`GathererStep`), and the phases
(`Start`, `EntryDone`, `ProfileDone`, the check actions, `Snapshot`, `TechnicalDone`, `Close`,
`Report`) take their turn when the stack is empty. `TaskCall`, `TaskAnswer` and `TaskUnavailable`
are the three ways a phase's request can go. `profiles.apply_profile` runs outside every handler
(engine.py:147): with `--profile auto` it reads `@type` off whatever is nested in a page's JSON-LD,
and a nested `@graph` with a member that is no object makes it raise (profiles.py:23-24;
html.py:96-99 filters the outer level only). The part "profile" of a scan stands for such a page
(`DetectorChokes`), and `ProfileRaises` leads to "undetected": the client is closed by the
`finally`, and the scan has no report. `early` stands for the checks that may return after
their first request. Time is a budget of networked gatherers: one that finishes after the budget
is spent returns evidence in which no request was answered (`answered` lists the others).

### SecureClient
One fetch at a time through `fetch`: `Precheck`, deadline (`BudgetSpent`/`Request`), guard hook
(`GuardPasses`/`GuardBlocks`/`Escapes`), transport (`ConnectDirect`, `ConnectCached`,
`ConnectResolved`, `PinFails`), the server's answer (`Respond`, `ServerFails`), `Redirect`, and
the body loop (`Chunk`, `ChunkLate`, `Complete`). `End` is the `finally` that clears the jar.
Name answers, servers and the clock are the environment; a lookup in the guard and the one in
the transport choose independently. A URL is its scheme, host and whether it carries
credentials; the port is abstracted into the scheme, so explicit ports are not distinguished.

### SitemapReading, PageSample, ReferenceProbe, Sampling
The gatherers that bound how much of the outside a scan looks at, and their composition: the
sitemap is read and the sample taken while the profile is detected, the probe runs for a check
afterwards.

`SitemapReading`: `Locate` is one turn of the loop of `check_sitemap` (a candidate is asked; it
validates, or the next one is asked, or the last one was reached and a miss is reported); `Probe`,
`Read` and `ReadChild` are the three ways `gather_sitemap` goes on: the standard address once more
for its status, the document found once more for its entries, the first child of an index. A
server is, for each URL, the set of answers a request of it can get, so it need not answer twice
alike. An answer is a status, a root element and its locations; a body cut off at the cap is one
that does not parse. `requests` records what was asked, for the properties only.

`PageSample` extends it and samples from the entries it recorded (none of a gatherer that failed):
`Select` is `select_pages` whole (`Add` is its inner `add`, with canonical form,
origin and room; `AddFirst` the search for the first product-like or documentation-like
candidate; the fill from the sitemap window). A URL is a name, and what the code reads off its
text (canonical form, origin, path pattern, whether `urlsplit` raises) is given by constants.
`Fetch` records one pick, `FinishPages` returns.

`ReferenceProbe`: `extract_references` in the order of its patterns; `Exhaust`, `StartLookup`,
`TakeAnswer`, `TimeOut`, `AskRegistry` are the branches of the loop over references and of
`_resolve_domain`; `Resolve` is a resolver thread finishing, waited for or abandoned; `Judge` is
the decision table of CORE-OPERABILITY-007. `truth` is what the world holds under each name. What
lookups and registries can answer is `Resolutions` and `Answers`.

### RuleBase, RulesDomain, RulesPage, RuleOutcomes, Score, Readiness
The Technical Readiness pass, from the store's documents to the report block, as pure operators:

- `RuleBase`: the rule contract (`evaluate` and `measure` as one record) and `capabilities.py`.
- `RulesDomain`, `RulesPage`: every rule of the library, one operator each, named after its class.
  A document or page keeps the facts the rules tell apart; text predicates (what makes a text
  long, a price readable, a bot named) are facts of the page.
- `RuleOutcomes`: the public manifest, the verdict of every rule over the sampled pages and the
  domain (`r2/evaluate.py`, `r2/technical.py`), and what Technical Readiness makes of it.
- `Score`: `score_r2`: root-cause clusters, category scores, coverage, status, rating, grade and
  badge, exact in 120ths.
- `Readiness`: `r2/adapter.py`, which replaces a document that could not be fetched by an inert
  block and names the probe, and `r2/readiness.py`, which rates the evidence and says what was not
  measured and why.

### Technical
A site that is scanned again and again while it changes. Between two scans the owner changes one
fact (`Edit`) or the scanner loses one piece of evidence (`Lose`, `LosePage`, `Refuse`: a gatherer
that raised, no response, 503, a wall in the place of a page, a truncated robots.txt, a missing
tokenizer). `Scan` publishes the report of what is there. Then `scovant scan` runs on the report:
`Invoke` (refusals, exit code), `WriteReport`, `Contribute`; and after it a job of the Action with
the same thresholds: `JobScan` (guard and ungated scan), `JobOutputs`, `JobGate`. The properties
compare a report with the one before it, and the two exit codes with each other.

### McpServer
One tool call per worker thread, `pc[t]` the line it is at. `lock` is `_SCAN_LOCK`, `ring` the
keys of `_REPORTS`. `RefuseArguments` is the whole of a call that is refused for its arguments,
before the lock is looked at. The store, the length test and the eviction are separate steps because the
code does them after releasing the lock. Scan ids are numbered in the order scans start.

### ConformCache
`_remembered` under threads: the two locked sections are the steps `Lookup` and `Insert`, the pass
between them is `Build`. `at[o]` is `id(o)`; the host creates and drops objects and the runtime
collects those nobody refers to (`Referenced`: the host, a running call, or the cache), after which
another object may live at their identity. A non-object argument is answered without the cache
and is left out; that a host must not mutate an object between rule calls is assumed, as the code's
documentation does.

### MC modules and proofs
`MCSharedState` puts `McpServer` and `ConformCache` side by side: the module-level state of one
process. Neither part reads what the other writes, so it explores one of them at a time.
`MCEvidenceStore`, `MCScanEngine`, `MCSecureClient`, `MCMcpServer` (for the run `mcp_ring`),
`MCTechnical` and `MCSampling` give the constants of the other runs values; `EvidenceStoreProofs`, `ScanEngineProofs`,
`SecureClientProofs`, `McpServerProofs`, `ConformCacheProofs`, `SamplingProofs` and
`TechnicalProofs` hold the theorems; `Induction` holds the lemmas about induction, recursive
functions and sums over finite sets that they cite. An operator whose comment begins "Mutant of X" is a plausible
bug in X: put in its place, a property of a run must fail.

## 3. Runs

| run | asks |
|---|---|
| `store` | every order of requests to seven real gatherers, every subset failing: `AtMostOnce`, `OrderIndependent`, `FailureExplained`, `ReadsDetermined` (a gatherer that never peeks reads the same evidence whenever it runs), `Stable`, `Answered`, and the refinement of the ledger |
| `scan` | whole scans over sixteen gatherers and seven checks: `VerdictsIndependent`, `ResultsMatchSelection`, `GatheringAccounted` (every gatherer that ran and every failure in the report is accounted to whoever asked), `RatingIgnoresSelection`, `AbortsExplained` (a scan ends without a report only when its entry gatherer raised or its profile detector did, and each only where it can), `NoGatherAfterClose`, `ScanEnds` (the scan ends, or is for ever in a gatherer's own code) |
| `scan_budget` | the same with a budget that covers entry, profile and Technical pass but not the checks too: finds `RatingIgnoresSelection` violated |
| `scan_abort` | with gatherers failing only: finds `NeverAborts` violated by a failed entry gatherer (the profile detector's raise, `ProfileRaises`, is the other way out, and `AbortsExplained` says there is no third) |
| `client` | two fetches of one client against an arbitrary name service, servers and clock: `ConnectionsVetted`, `OneAddressPerEndpoint`, `LogIsTheChain`, `NoCookieForwarded`, `BudgetBoundsSends`, `LimitsExact` (redirect and byte limits cut exactly where they say), `FetchEnds` |
| `client_hosts` | finds `OneAddressPerHost` violated: http and https of one host |
| `shared_state` | the state threads of one process share. Three worker threads: `SingleFlight`, `RingKeepsTheLatest` (the ring is the tail, in order, of the reports stored, at most as much too long as reports are being stored, no id twice), `CallsAnswered` (a call is answered unless a scan it is in runs for ever: none waits for another's). Two threads over objects that come and go at two identities: `OwnCopy`, `CacheIsSound` (keys still are their objects' identities, one entry per object and kind, bounded) |
| `mcp_ring` | finds `KeepsLastReports` violated by two threads trimming at once |
| `sampling` | a server that answers any request of its sitemap any way, with and without a declared address; every page sample of nine sitemaps under 36 combinations of links and options; and the reference probe against lookups that hang, fail or answer late and registries that throttle or redirect: `SitemapRecordFounded` (absent, invalid, valid and entries each rest on what was answered), `SampleIsSound` (the entry first, no page twice, on the site, at most `max_pages` beyond the entry, and no entry of the window left out while there is room below both caps), `OnlyEvidenceConvicts`, `BudgetIsKept`, `VerdictNeedsEvidence`, `ProbeEnds` |
| `sampling_max_pages` | finds `MaxPagesBeyondEntry` violated: the entry page is counted against `--max-pages` |
| `technical` | thirteen sites rescanned after one edit, one loss, or an edit and a loss, and every command line on the first scan: `RepairNeverLowers` (if no rule got worse and some were repaired, neither rating nor status nor any category falls), `LossIsNeverAVerdict`, `LossNeverRaisesCoverage`, `LossIsNamed`, `GapsAccounted` (the weight missing from the coverage is that of the listed rules), `GatesAgree`, `NeverGreenWithoutEvidence`, `ContributedScansAreComparable` |
| `technical_refusal` | finds `RefusalIsNeverAVerdict` violated by a sitemap answered with 503 |

## 4. Bounds

- `store`: the seven gatherers of `MCNames` include a chain of three required requests (pages over
  http; sitemap_urls over robots_txt over http), a diamond over http, a `try_get` and seven
  `gathered` requests, four of which name evidence the instance does not register. All 2^7 failure
  patterns and all orders of calls are explored. Sequences of calls end when everything is settled.
- `scan`: at most one part fails (every gatherer, check, the profile detector and the Technical
  pass in turn; `scan_abort`: every gatherer);
  selections: all, a category, one check, an exclusion from an inclusion, an empty selection;
  profile explicit or detected; Technical pass on or off; two refused requests. `Budget = 16`
  lets every networked gatherer finish; `scan_budget` uses 14, which is fewer than the 15
  networked gatherers of the instance.
- `client`: one redirect permitted, byte limit 2 with bodies of 0 to 3 units (below, at and above
  the limit), the clock stops at 1 with a budget of 0, two fetches, addresses that are public IPv4,
  public IPv6 and not public, four policies. `MaxTime` and `MaxFetches` bound the run; the others
  are the policy's own limits made small. Two fetches are what cookies, pins and the log can be
  carried between.
- `shared_state`, the server: three threads, `RING_SIZE` 1, `MaxCalls = 4`, so three threads can all be trimming while
  a fourth call comes; `mcp_ring` uses a ring of two, in which losing one report too many shows.
- `shared_state`, the cache: two threads, three objects at two identities (so an identity is handed on while the
  third object waits for one), both kinds, a cache of two entries (so entries are evicted).
- `sampling`: `SitemapWindow` 3 and `SampleCap` 4 with `max_pages` 1, 2 and 5 put each limit below,
  at and above the others; the URLs include two spellings of one page, an off-site product and a
  text `urlsplit` rejects. `MaxEntries` 4 cuts one sitemap of five. The moody server has ten answers
  for each of the declared and the standard addresses (no answer, a refusal, 404, a page, a broken,
  a foreign and a sound document, an index with children, with an unreadable child and without) and
  six for a child; it may answer each request anew, so a located document can be gone, throttled or
  another one when it is read. `Budget` 2 and `MaxReferences` 3 with up to seven mentions of four
  references (and one uninteresting host) make the budget run out before, at and after the last
  reference. `MCInit` varies the server, the site and the probe one at a time: sitemap
  and sample meet in nine sitemaps of a steady server, and the probe shares no state with either.
- `technical`: a shop with and without a host, one with several rules of one root cause failing, a
  blog with a cycle of five pages, two SaaS sites, one of unknown type, a site with many defects,
  one behind walls, one with no evidence, one partly lost, and three that were not reached.
  `MaxChanges` 2 and `EditChanges` 1: one fact changed, one loss, or a loss after a change, which
  is what a comparison of two reports needs. `GateChanges` 0: the command line and the Action read
  the report of an initial site; their theorems (section 6) hold for every site.

Deadlock is not checked where the system may stop: a settled store, a finished scan or probe, a
client nobody calls, a server whose calls are used up, a site that changes no more.

## 5. Fairness

Only steps of the code's own threads are fair, and of those only the ones that do not wait for the
outside. Name lookups are the reason: `getaddrinfo` ignores timeouts (integrity_probe.py:53-59 says
so, and runs it in a thread it can abandon), while the guard and the transport call it without
one; and a server's answer is bounded read by read (client.py:78), not as a whole. So nothing says
that a fetch, a gatherer or a scan ends, and the liveness properties excuse exactly those waits.

- EvidenceStore: weak fairness of the steps of `get` and `try_get` (`Requesting`). A gatherer's own
  code (`InOwnCode`), which fetches, is not fair: `Answered` says that a request is answered
  unless a gatherer runs for ever. Nothing forces a caller to ask, so `Call` is not fair either.
- ScanEngine: weak fairness of every step outside a gatherer's own code (`~AtNetwork`): one thread
  runs the scan and waits for no other. `ScanEnds` excuses only being at the network for ever.
- SecureClient: weak fairness of `OwnStep`, which leaves out the lookups of guard and transport
  (`LookingUp`); a request that was sent is answered or times out, by the client's timeouts.
  `FetchEnds` excuses only a lookup for ever. `Tick` and `Fetch` are not fair.
- McpServer: weak fairness of each thread's `Proceed` except while it is scanning. The lock is taken
  without blocking, so no strong fairness is needed; clients are not forced to call. `CallsAnswered`
  excuses only the call whose own scan runs for ever.
- Sampling: weak fairness of `ProbeOwnStep`, what the probe does without the network, the timeout of
  a lookup among it. Resolver threads (`Resolve`) are not fair, nor are the fetches of sitemap and
  sample and the questions to a registry (`AtRegistry`), which go through the client. `ProbeEnds`
  says that a probe that was begun ends though no resolver thread ever does, and excuses only a
  registry for ever.
- ConformCache and Technical state safety only; nothing forces a host to call or a site to change.

## 6. Proved

All theorems hold for every value of the constants that satisfies the named assumptions.

**EvidenceStoreProofs**, from `ProgramAssumption` (programs are sequences of requests) and
`RankAssumption` (the request graph is acyclic), for any set of gatherers. The inductive invariant
`IInv` strengthens the checked properties with the facts about the call stack they depend on:
frames descend strictly in rank (so a gatherer is never on the stack twice: the heart of
`RunsAtMostOnce`), a running gatherer is not settled, `runs` counts exactly settled and running
gatherers, and a running gatherer past a `get` has that evidence. From it: `TypeCorrect`,
`RunsAtMostOnce`, `AvailabilityDetermined` (`OrderIndependent`), `FailuresExplained`,
`AnswersStable` (`Stable`) and `StoreImplementsLedger` (every step maps to a step of the ledger or
a stutter). `GatherersReadTheSame` (`ReadsDetermined`) needs one thing more: a running gatherer
that never peeks has read exactly what can be gathered of the requests it has passed.

**ScanEngineProofs**, from the store's assumptions, `RequestsAssumption` (the phases ask as
gatherers do) and `RegistryAssumption`, for any registry, selection, failures and budget.
`ScanImplementsStore`: every step of a scan is a step of the store or leaves it alone, so the
store's invariant holds in a scan (`ScanKeepsTheStore`). `ScanInv` adds what a phase knows: what it
has seen is what can be gathered of what it has asked for (`SeenExactly`), a gatherer runs only
for the request the phase is at, the entry page is settled before anything else, the results so
far are the selected checks so far. From it: `VerdictsOwn` (`VerdictsIndependent`), `SelectionRun`
(`ResultsMatchSelection`), `AbortExplained` (`AbortsExplained`: a report is missing only where the entry gatherer
raised, or where the profile was to be detected, the detector raised and the sample was there to
raise over; where there is a report the entry was gathered), `NothingAfterClose`
(`NoGatherAfterClose`).

`GatheringIsAccounted` (`GatheringAccounted`) needs `GatherersAssumption` (finitely many gatherers)
besides. What a phase can set going is the closure of its requests under the request graph, a
recursive function; `ClosureUnfolds`, `ClosureLeast` and `ClosureFixed` show that it is the least
set that contains them and is closed, by `Recursion` and `SetInduction`. `DemandInv` says that what
has run was demanded by the phases so far, and, at the end of a phase, that all it demands has run,
so that the report can be split into what was gathered for whom. `RatingOwn`
(`RatingIgnoresSelection`) has two hypotheses on the constants, both true of `scan` and the first
false of `scan_budget`, which violates the property: `BudgetCovers` (the time budget covers every
gatherer that sends requests) and `RatingAsks` (the Technical pass never peeks: `adapter.py` only
uses `try_get`).

**SecureClientProofs**, from the constants' assumptions, for any names, addresses, lookup answers,
policies and limits: `RequestsVetted` (`ConnectionsVetted`), `EndpointsPinned`
(`OneAddressPerEndpoint`), `CookiesDropped` (`NoCookieForwarded`), `BudgetKept`
(`BudgetBoundsSends`), `LimitsKept` (`LimitsExact`) and `LogReadsBack` (`LogIsTheChain`). Each
strengthening says what the property needs of the stages before it: a URL between guard and
connection has passed `_precheck`; every pin is public or the exempt host's; every connection is
the one its endpoint's pin dictates; after a late request the fetch is past its deadline check, and
time does not run back; before the body nothing is read; the log from the fetch's first entry on is
the chain of its redirects.

**McpServerProofs**, from `RingAssumption`, for any number of threads, calls and any ring size:
`OneScanAtATime` (`SingleFlight`) and `LatestReportsKept` (`RingKeepsTheLatest`). The invariant
adds the typing of the state and that ids stored or held by two threads differ and never exceed
the number handed out.

**ConformCacheProofs**, from `CacheAssumption`: `TypeCorrect`, `RuleReadsItsOwn` (`OwnCopy`) and
`CacheStaysSound` (`CacheIsSound`). The invariant says that what is referred to exists at an
identity of its own, and that entries are filed under their objects' identities with their objects'
copies. It shows that the `is obj` test of a hit is a second line of defence: with the original
kept in the entry, a matching key implies it.

**SamplingProofs**, on the sitemap: from `SitemapAssumption` (the kinds of the constants, and that
an address is standard), for any server, declarations and cap: `SitemapInvariance`. The invariant
says of every stage what has been lost so far, which is nothing: until a document is found no
answer that validates was passed over, every request without an answer is on record as a miss, and
every standard address is still queued, answered or missed; what is being read was answered with
200; an index being followed is not what settles that a sound sitemap was seen.
`ScanReadsTheSitemap` and `SitemapFounded` (`SitemapRecordFounded`) carry this over to the scan.

On the page sample: from `SampleAssumption` (what the command line accepts as `max_pages`, and that
the cap leaves room for the three pages taken first), `SampleSound` (`SampleIsSound`) for any
site, window and cap. The picks so far always stand (`Fine`: entry first and once, on the site, no
page twice, at most `max_pages` beyond the entry), and one more turn of the fill leaves its entry out only if the
page is picked already, is off the site, or there is no room (`FilledTo`, `FillOne`). The fill is a recursive function over the window; `Recursion` (module Induction)
gives its equation and `SetInduction` the step from one entry to the next (`SelectionStands`).
`SampleInvariance` carries it through the fetches: what selection read does not change afterwards.

On the probe: from `BudgetAssumption` and `ExtractionAssumption`, for any documents, truths,
timeouts and budget: `ScanRunsTheProbe` (the composition implements the probe on its own, so what
holds of the probe holds in the scan), `EvidenceConvicts` (`OnlyEvidenceConvicts`),
`LookupsBudgeted` (`BudgetIsKept`) and `VerdictFounded` (`VerdictNeedsEvidence`). The invariant
says that lookups and statuses go in step, that a resolver thread only ever tells the truth, late or
not, and that the lookups started are the budget spent.

**TechnicalProofs**, on the decisions: from `OptionsAssumption` (what argparse accepts),
`ActionDecidesAlike` (`GatesAgree`) and `UnreachedIsNeverGreen`, for every site, report, command
line and findings; the report stays opaque. Two facts carry the argument: nothing changes the site
once the command line was started, and a scan without thresholds has an exit code of its own only
when the site was not reached, and then the one thresholds would not change (`UngatedExit`).

On the report: `EveryGapIsListed` (`GapsAccounted`), for every site, host, type and grouping. The
report that is judged is the one of the site (`ReportInvariance`). Which rules are counted is
finite and their codes differ (`FiniteRules`, `DisjointCodes`), every rule's outcome is a verdict,
`NA`, `ERROR` or `NOT_MEASURED` with a reason (`OutcomesRateable`: rule by rule in the domain, by
the counts of pages for page rules), and a rule is on the list exactly when it is applicable, an
element of the score of its own, and without a verdict. Then both sides are sums of `weight` over
the same two disjoint sets (`SumUnion`).

On what follows from the number: `RatingIsEarned` (a rating is in 0..100 and is given only where
the covered weight reaches `evidence_min_coverage`, OK only where it reaches
`canonical_min_coverage`; category scores are in 0..10000), `NeverGreen`
(`NeverGreenWithoutEvidence`) and `ContributedComparable` (`ContributedScansAreComparable`).
Failed pages never outnumber the measured ones (`OutcomesCountable`), so a verdict is worth at most
a whole (`ValueRange`), a category score is a quotient of sums of which the lower bounds the upper
(`CategoryRange`), and so is the rating (`RatingRange`). `EvidenceInv` keeps with every site that it
has an entry outcome and finitely many pages (`WellFormed`), with the command line that it judges
this report, and with the job that it ends at once where the site was not reached. The hypotheses
are `SitesAssumption` on the initial sites and `EditsKeepSites`: an edit of a site leaves a site,
which TLC evaluates for the edits of the runs (`EditsAreSites` in MCTechnical). Losses are shown to
leave one (`LossesKeepSites`).

On two reports: `RepairsOnlyRaise` and `RepairsNeverLower` (`RepairNeverLowers`), for every site,
host and grouping. Between two scans of a site of one type whose rules all became better, the
elements of the score correspond: an element's cause may gain rules, which pass, and its heaviest
member then (`Successor`) weighs and is worth at least the same (`Succeeds`), no two elements have
one successor (`SuccessorsDiffer`), and an element that is no successor is worth a whole
(`NewcomerIsWhole`). So the gains of a category grow by a whole of all the weight it gains
(`FollowersWeigh`, `FollowersGain`), its score does not fall (`CategoryRises`), a category that was not
rated before has all its points (`NewCategoryIsFull`), the rating is a mean to which only full
points are added (`RatingRises`), and the covered weight grows by what the applicable weight grows
(`CoverageRises`, `StatusRises`). `RepairInv` says that the last report is one of a site of the
present site's type and grouping. The hypotheses: `EditsKeepSites`; `EditsKeepTerms` (an edit keeps
type and grouping, evaluated by TLC for the edits of the runs: `EditsAreOfOneType`);
`GroupsAssumption` (r2/manifest.py refuses a group across categories, for this very reason); and
that a capability which begins to apply weighs no more than the measured rules of its group
(`LightNewcomers`, a premise of `RepairsOnlyRaise` about the two reports). Without the last the
claim is false of `score_r2`: a heavier member that begins to apply and passes makes its cluster's
worst value count with its own weight. The shipped manifest has no groups, and `RepairsNeverLower`
asks only that a group's rules weigh the same (`EvenGroups`). The groups of the run `technical` are
not all even, so there the run says more than this theorem, and the first one what it rests on.

**Induction**. The library's induction theorems take a predicate as a parameter, which the
installed provers cannot instantiate. A set can stand for the predicate: `SetInduction` (a set with
0 and the successor of every member contains the naturals) and `FiniteInduction` follow from the
well-foundedness of `<` on the naturals, for which the library has a statement about sets
(`WFMin`). `Recursion` shows by gluing together the functions on initial segments that a recursive
function on the naturals satisfies its equation; from it come `SumUnfolds` (the fold of `Functions`
takes out one element), `SumTakeOut` (any element), `SumUnion`, `SumBounded`, `SumAtLeast`,
`SumSame`, `SumNat` and `SumImage` (the sum over the image of an injection).

## 7. Only model-checked

- Liveness (`Answered`, `ScanEnds`, `FetchEnds`, `CallsAnswered`, `ProbeEnds`): out
  of the prover's reach.
- `LossIsNeverAVerdict`, `LossNeverRaisesCoverage`, `LossIsNamed`: they need each rule's reading of
  each kind of loss, which is finite data that TLC enumerates.
- That an owner's edits leave sites of the same type (`EditsKeepSites`, `EditsKeepTerms`) is a
  hypothesis; see section 6.

## 8. Disagreements between the code and what is said about it

1. `NeverAborts` (engine.py:204): the report reads the entry evidence with `get`, outside any
   handler. When the entry gatherer itself raises, the finished scan is lost, although
   evidence.py:49 says a gathering failure never aborts the scan. One way: a host name the
   resolver cannot encode raises `UnicodeError`, which neither the guard nor `fetch` catches
   (`Escapes` in SecureClient). The profile detector's raise (engine.py:147, `ProfileRaises`) ends a
   scan without a report too; it is no gathering failure, and section 9 has it.
2. `RatingIgnoresSelection` (engine.py:155): the Technical pass shares the scan's time budget and
   comes last, so a wide selection can cost the rating evidence that a narrow one leaves it.
3. `OneAddressPerHost` (pinned_transport.py:42): pins are kept by host and port, while client.py:4
   and docs/security.md say each host is resolved exactly once.
4. `KeepsLastReports` (mcp_server.py:97): two threads trimming the ring at once evict one report
   too many, so fewer than the documented last 8 remain.
5. `RefusalIsNeverAVerdict` (gatherers/sitemap.py:76): a sitemap answered with 503 leaves the same
   record as a site without one, so `SITEMAP_MISSING_OR_INVALID` fails where docs/r2.md:70 says a
   document answered with 429 or 5xx is `NOT_MEASURED`. The agent discovery documents are read the
   same way, which the documentation says of them.
6. `MaxPagesBeyondEntry` (gatherers/pages.py:130): the list the limit is compared with holds the
   entry page already, and the fill from the sitemap stops at the smaller of `max_pages` and 4 of
   that list (pages.py:146). cli.py:160 says `--max-pages` counts pages beyond the entry URL
   (default 5); tests/test_gatherers_core.py:115-121 counts as the code does.

## 9. Observations without a run

Met while modelling; the models follow the code.

- `contribute.py`, `send`: a 2xx answer whose JSON body is no object raises outside the handler, so
  a finished, written scan exits with 5, although README.md and docs/security.md say that a
  contribution never changes the exit code (`ExitAfter`; `GatesAgree` leaves exit 5 out).
- docs/r2.md:6 lists the reasons a rule can be not measured for; a sitemap or agent discovery
  document with `fetch_status` "error", and a single page that was not parsed, get the generic
  `not_measured` (the exceptions in `LossIsNamed`).
- docs/r2.md:64 says missing evidence lowers coverage. When a loss withdraws the only evidence of a
  capability, the rules gated by it become inapplicable and coverage can rise (the premise of
  `LossNeverRaisesCoverage`).
- The experimental crawl graph rules can newly fire when a page drops out of the sample, since its
  links are gone (left out of `LossIsNeverAVerdict`).
- UCP_CHECKOUT_MISSING and AGENT_PAYMENTS_ABSENT evaluate only commerce, booking and restaurant
  sites, whatever the capabilities say.
- integrity_probe.py:73 treats EAI_NODATA like a name that does not exist, while the docstring says
  only NXDOMAIN is evidence: a domain without an address is BROKEN (`addressless`).
- `profiles.apply_profile` can raise on a page's JSON-LD (section 2, ScanEngine), and nothing between
  it and the caller of `scan` catches that: one odd document costs the whole report.
- A scan that hangs in a name lookup keeps the MCP server's lock: every later scan of that process
  is refused as busy (`CallsAnswered` says no more than that the refusals come).
- The second request of a located sitemap overrules the first: a throttled answer (429 or 503 with a
  body that is no XML) turns a sitemap found valid into an invalid one, where docs/r2.md:70 says a
  refusal is never read as a verdict (`SitemapRecordFounded` is about consistent servers there).
- check_sitemap takes a root element of any namespace, `_entries` only the sitemap protocol's: a
  sitemap in another namespace is located as valid and read as invalid (the root "foreign").
- Every 200 answer takes over `url`: a broken sitemap followed by a page at the next address is read
  at that address and reported absent (`Locate`, `Read`).
- Of an index whose first child is an index too, the child's own children become page candidates
  (`ReadChild` takes the locations whatever the child's root is).
- A location of an index that `urlsplit` rejects ends the whole gatherer (`ReadChild`, "failed").
- A sitemap location that `urlsplit` rejects raises in `select_pages`, so the whole page sample
  fails (`Malformed`), while other readers of URLs skip such a location.
- Only the first product-like and the first documentation-like candidate is tried, even when it is
  off the site (`AddFirst`).
- A picked page that redirects to another host is parsed as a page of the site.
- Lookups do not look at the scan's deadline, and abandoned resolver threads are joined when the
  interpreter exits.

## 10. Not modelled

Parsers (text and markup, no state: what they yield is the input of the modelled rules); report
renderers (formatting of a finished report, no decision); the npm launcher (process plumbing);
the documentation generators (`docs.py`) and the curated crosswalk from checks to rules
(`crosswalk.py`): text and a table, no part of a scan. Inside modelled parts: the wording of
messages and evidence, what gatherers extract from pages beyond the facts the rules read,
documents whose first bytes decide against their root element (an XML comment before the root
element makes `is_soft_200_html` call a sitemap a page), `probe_adapter` and `try_fetch`, which
rewrap `fetch`'s outcome, the decision tables of the checks other than CORE-OPERABILITY-007 (stateless,
one document each), the answers of the read-only MCP tools, and the Action's summary and
annotations.

## 11. What is left

1. Request programs of the remaining checks in `Checks`.
2. What a loss does, for every site: `LossIsNeverAVerdict` and `LossIsNamed` from one lemma per rule
   and kind of loss, `LossNeverRaisesCoverage` from the first and the sums over rules.
