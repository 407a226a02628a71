-------------------------- MODULE TechnicalProofs --------------------------
(* What the report of a scan is worth and what is decided from it, proved    *)
(* for every site, manifest, command line and set of findings.               *)
(*                                                                           *)
(* The command line and the Action decide alike: for this what a rating is   *)
(* made of does not matter, both decisions are the same function of the same *)
(* report, once it is known that nothing changes the site between them.      *)
(*                                                                           *)
(* Then the report is opened: which rules are counted and how much each      *)
(* weighs, what a rule's outcome can be on any evidence, that the weight not *)
(* covered is the weight of the rules listed as not measured, and that a     *)
(* number is published only where enough was measured, between 0 and 100.    *)
(* The sums over the rules are taken apart with the lemmas of Induction.     *)
(* With that the decisions on numberless and unreached sites follow.         *)
(*                                                                           *)
(* Last, two reports are compared.  From each element of the score a better  *)
(* scan has a successor of the same weight, worth no less, and what is new   *)
(* among its elements is worth a whole: so no quotient of sums falls.        *)
EXTENDS Technical, Induction, TLAPS

Unreached == {"security", "network", "timeout"}

Running == {"decided", "contributing"}

(* A run of the command line has the fields its phase needs.                 *)
CliTyped ==
  /\ cli.phase \in {"idle", "exited"} \cup Running
  /\ cli.phase # "idle" =>
       {"phase", "exit", "written", "sent"} \subseteq DOMAIN cli /\ cli.written \in BOOLEAN

(* Nothing happens to the site once the command line was started.            *)
SiteFrozen == cli.phase # "idle" => pending = "none"

Decision == exit_code(cli.o, cli.technical, cli.found)

(* Until something breaks the run, the exit code is the decision.            *)
ExitIsDecision ==
  cli.phase \in Running \/ (cli.phase = "exited" /\ cli.written) =>
    cli.o \in CommandLines /\ (cli.exit = Decision \/ cli.exit = INTERNAL)

JobFollows ==
  /\ job.phase \in {"idle", "outputs", "gate", "ended"}
  /\ job.phase # "idle" =>
       /\ cli.phase = "exited" /\ cli.written
       /\ {"phase", "context", "exit", "outputs"} \subseteq DOMAIN job
  /\ job.phase \in {"outputs", "gate"} => site.entry \notin Unreached
  /\ job.phase = "ended" /\ ~JobRefused(job.context) => job.exit = Decision

CliInv == CliTyped /\ SiteFrozen /\ ExitIsDecision /\ JobFollows
-----------------------------------------------------------------------------
(* A scan without thresholds has an exit code of its own only for an         *)
(* unreached site, and then it is the one thresholds would not change.       *)
LEMMA UngatedExit ==
  ASSUME NEW o \in CommandLines, NEW technical, NEW found
  PROVE  LET code == exit_code(Ungated(o), technical, found)
         IN IF site.entry \in Unreached
              THEN code >= 2 /\ code = exit_code(o, technical, found)
              ELSE ~(code >= 2) /\ exit_code(o, technical, found) = threshold_exit_code(o, technical, found)
<1> DEFINE u == Ungated(o)
<1>1. /\ u.min_score = -1 /\ u.require_canonical = FALSE
      /\ u.fail_on = "never" /\ u.fail_on_security = "never"
  BY DEF CommandLines, Ungated
<1> HIDE DEF u
<1>2. ~technical_gate_failure(u, technical)
  BY <1>1 DEF technical_gate_failure
<1>3. ~readiness_failure(u, found) /\ ~security_failure(u, found)
  BY <1>1 DEF readiness_failure, security_failure
<1>4. threshold_exit_code(u, technical, found) = OK
  BY <1>2, <1>3 DEF threshold_exit_code
<1>5. CASE site.entry \in Unreached
  BY <1>5 DEF Unreached, exit_code, SECURITY, NETWORK, u
<1>6. CASE site.entry \notin Unreached
  BY <1>4, <1>6 DEF Unreached, exit_code, OK, u
<1>7. QED
  BY <1>5, <1>6

LEMMA CliInit == Init => CliInv
  BY DEF Init, NotInvoked, CliInv, CliTyped, SiteFrozen, ExitIsDecision, JobFollows, Running

LEMMA CliNext == CliInv /\ [Next]_vars => CliInv'
<1> SUFFICES ASSUME CliInv, [Next]_vars PROVE CliInv'
  OBVIOUS
<1> USE DEF CliInv
<1>1. ASSUME UNCHANGED <<site, cli, job>>, pending' = "none" \/ cli.phase = "idle" \/ pending' = pending
      PROVE  CliInv'
  <2>1. Decision' = Decision
    BY <1>1 DEF Decision, exit_code
  <2>2. QED
    BY <1>1, <2>1 DEF CliTyped, SiteFrozen, ExitIsDecision, JobFollows
<1>2. CASE Edit \/ Lose \/ LosePage \/ Refuse
  <2>1. cli.phase = "idle" /\ UNCHANGED <<cli, job>>
    BY <1>2 DEF Edit, Lose, LosePage, Refuse, Between
  <2>2. job.phase = "idle"
    BY <2>1 DEF JobFollows
  <2>3. QED
    BY <2>1, <2>2 DEF CliTyped, SiteFrozen, ExitIsDecision, JobFollows, Running
<1>3. CASE Scan
  BY <1>1, <1>3 DEF Scan
<1>4. CASE Invoke
  <2>1. /\ pending = "none" /\ cli.phase = "idle" /\ UNCHANGED <<site, pending, job>>
        /\ job.phase = "idle"
    BY <1>4 DEF Invoke, JobFollows
  <2>2. PICK o \in CliOptions, found \in Diagnostics, computed \in BOOLEAN :
          LET technical == [computed |-> computed, status |-> report.status, rating |-> report.rating]
          IN cli' = IF Refused(o)
                      THEN [phase |-> "exited", o |-> o, exit |-> INVALID_INPUT, written |-> FALSE,
                            sent |-> "nothing"]
                      ELSE [phase |-> "decided", o |-> o, technical |-> technical, found |-> found,
                            exit |-> exit_code(o, technical, found), written |-> FALSE,
                            sent |-> "nothing"]
    BY <1>4 DEF Invoke
  <2>3. o \in CommandLines
    BY OptionsAssumption
  <2>4. CASE Refused(o)
    <3>1. cli' = [phase |-> "exited", o |-> o, exit |-> INVALID_INPUT, written |-> FALSE,
                  sent |-> "nothing"]
      BY <2>2, <2>4
    <3>2. QED
      BY <2>1, <3>1 DEF CliTyped, SiteFrozen, ExitIsDecision, JobFollows, Running
  <2>5. CASE ~Refused(o)
    <3> DEFINE technical == [computed |-> computed, status |-> report.status, rating |-> report.rating]
               code == exit_code(o, technical, found)
    <3>1. cli' = [phase |-> "decided", o |-> o, technical |-> technical, found |-> found,
                  exit |-> code, written |-> FALSE, sent |-> "nothing"]
      BY <2>2, <2>5
    <3>2. exit_code(o, technical, found)' = exit_code(o, technical', found)
      BY <2>1 DEF exit_code
    <3>3. Decision' = code
      BY <2>1, <3>1 DEF Decision, exit_code
    <3> HIDE DEF technical, code
    <3>4. QED
      BY <2>1, <2>3, <3>1, <3>3 DEF CliTyped, SiteFrozen, ExitIsDecision, JobFollows, Running
  <2>6. QED
    BY <2>4, <2>5
<1>5. CASE WriteReport
  <2>1. /\ cli.phase = "decided" /\ UNCHANGED <<site, pending, job>>
        /\ job.phase = "idle" /\ pending = "none"
    BY <1>5 DEF WriteReport, JobFollows, SiteFrozen
  <2>2. {"phase", "exit", "written", "sent"} \subseteq DOMAIN cli
    BY <2>1 DEF CliTyped
  <2>3. PICK phase \in {"contributing", "exited"} :
          \/ cli' = [cli EXCEPT !.written = TRUE, !.phase = phase]
          \/ cli' = [cli EXCEPT !.exit = INTERNAL, !.phase = "exited"]
    BY <1>5 DEF WriteReport
  <2>4. /\ cli'.o = cli.o /\ cli'.technical = cli.technical /\ cli'.found = cli.found
        /\ cli'.exit \in {cli.exit, INTERNAL} /\ cli'.phase \in {"contributing", "exited"}
        /\ cli'.written \in {cli.written, TRUE}
        /\ DOMAIN cli' = DOMAIN cli
    <3>1. CASE cli' = [cli EXCEPT !.written = TRUE, !.phase = phase]
      BY <2>2, <3>1
    <3>2. CASE cli' = [cli EXCEPT !.exit = INTERNAL, !.phase = "exited"]
      BY <2>2, <3>2
    <3>3. QED
      BY <2>3, <3>1, <3>2
  <2>5. Decision' = Decision
    BY <2>1, <2>4 DEF Decision, exit_code
  <2>6. CliTyped' /\ SiteFrozen' /\ JobFollows'
    <3>1. cli'.written \in BOOLEAN
      BY <2>1, <2>4 DEF CliTyped
    <3>2. QED
      BY <2>1, <2>2, <2>4, <3>1 DEF CliTyped, SiteFrozen, JobFollows, Running
  <2>7. ExitIsDecision'
    BY <2>1, <2>4, <2>5 DEF ExitIsDecision, Running
  <2>8. QED
    BY <2>6, <2>7
<1>6. CASE Contribute
  <2>1. /\ cli.phase = "contributing" /\ UNCHANGED <<site, pending, job>>
        /\ job.phase = "idle" /\ pending = "none"
    BY <1>6 DEF Contribute, JobFollows, SiteFrozen
  <2>2. {"phase", "exit", "written", "sent"} \subseteq DOMAIN cli
    BY <2>1 DEF CliTyped
  <2>3. PICK reply \in Replies :
          cli' = [cli EXCEPT !.sent = reply, !.exit = ExitAfter(reply, @), !.phase = "exited"]
    BY <1>6 DEF Contribute
  <2>4. /\ cli'.o = cli.o /\ cli'.technical = cli.technical /\ cli'.found = cli.found
        /\ cli'.exit \in {cli.exit, INTERNAL} /\ cli'.phase = "exited"
        /\ cli'.written = cli.written
        /\ DOMAIN cli' = DOMAIN cli
    BY <2>2, <2>3 DEF ExitAfter
  <2>5. Decision' = Decision
    BY <2>1, <2>4 DEF Decision, exit_code
  <2>6. QED
    BY <2>1, <2>2, <2>4, <2>5 DEF CliTyped, SiteFrozen, ExitIsDecision, JobFollows, Running
<1>7. CASE JobScan
  <2>1. /\ cli.phase = "exited" /\ cli.written /\ job.phase = "idle"
        /\ UNCHANGED <<site, pending, cli>> /\ pending = "none"
    BY <1>7 DEF JobScan, SiteFrozen
  <2> DEFINE code(c) == IF JobRefused(c) THEN INVALID_INPUT
                        ELSE exit_code(Ungated(cli.o), cli.technical, cli.found)
  <2>2. PICK c \in JobContexts :
          job' = [phase |-> IF code(c) >= 2 THEN "ended" ELSE "outputs", context |-> c,
                  exit |-> code(c), outputs |-> FALSE]
    BY <1>7 DEF JobScan
  <2>3. cli.o \in CommandLines
    BY <2>1 DEF ExitIsDecision
  <2>4. Decision' = Decision
    BY <2>1 DEF Decision, exit_code
  <2>5. ~JobRefused(c) =>
          IF site.entry \in Unreached THEN code(c) >= 2 /\ code(c) = Decision ELSE ~(code(c) >= 2)
    BY <2>3, UngatedExit DEF Decision
  <2>6. JobRefused(c) => code(c) >= 2
    BY DEF INVALID_INPUT
  <2> HIDE DEF code
  <2>7. /\ job'.phase = (IF code(c) >= 2 THEN "ended" ELSE "outputs")
        /\ job'.context = c /\ job'.exit = code(c)
        /\ {"phase", "context", "exit", "outputs"} \subseteq DOMAIN job'
    BY <2>2
  <2>8. JobRefused(job'.context) <=> JobRefused(c)
    BY <2>7
  <2>9. JobFollows'
    BY <2>1, <2>4, <2>5, <2>6, <2>7, <2>8 DEF JobFollows, JobRefused, Fork
  <2>10. QED
    BY <2>1, <2>4, <2>9 DEF CliTyped, SiteFrozen, ExitIsDecision, Running
<1>8. CASE JobOutputs \/ JobGate
  <2>1. /\ job.phase \in {"outputs", "gate"}
        /\ UNCHANGED <<site, pending, cli>>
    BY <1>8 DEF JobOutputs, JobGate
  <2>2. /\ cli.phase = "exited" /\ cli.written /\ site.entry \notin Unreached
        /\ {"phase", "context", "exit", "outputs"} \subseteq DOMAIN job
    BY <2>1 DEF JobFollows
  <2>3. Decision' = Decision
    BY <2>1 DEF Decision, exit_code
  <2>4. Decision = threshold_exit_code(cli.o, cli.technical, cli.found)
    BY <2>2, UngatedExit DEF ExitIsDecision, Decision
  <2>5. CASE JobOutputs
    <3>1. job' = [job EXCEPT !.outputs = TRUE, !.phase = "gate"]
      BY <2>5 DEF JobOutputs
    <3>2. /\ job'.phase = "gate"
          /\ {"phase", "context", "exit", "outputs"} \subseteq DOMAIN job'
      BY <2>2, <3>1
    <3>3. QED
      BY <2>1, <2>2, <2>3, <3>2 DEF CliTyped, SiteFrozen, ExitIsDecision, JobFollows, Running
  <2>6. CASE JobGate
    <3>1. job' = [job EXCEPT !.exit = threshold_exit_code(cli.o, cli.technical, cli.found),
                             !.phase = "ended"]
      BY <2>6 DEF JobGate, GateArguments
    <3>2. /\ job'.phase = "ended" /\ job'.exit = Decision
          /\ {"phase", "context", "exit", "outputs"} \subseteq DOMAIN job'
      BY <2>2, <2>4, <3>1
    <3>3. QED
      BY <2>1, <2>2, <2>3, <3>2 DEF CliTyped, SiteFrozen, ExitIsDecision, JobFollows, Running
  <2>7. QED
    BY <1>8, <2>5, <2>6
<1>9. CASE UNCHANGED vars
  BY <1>1, <1>9 DEF vars
<1>10. QED
  BY <1>2, <1>3, <1>4, <1>5, <1>6, <1>7, <1>8, <1>9 DEF Next

(* What every state of a gated run satisfies.                                *)
THEOREM CliInvariance == Spec => []CliInv
  BY CliInit, CliNext, PTL DEF Spec

(* The Action that applies the thresholds to the outputs of a scan without   *)
(* thresholds ends with the exit code of the command line that was given the *)
(* thresholds itself, for every site, report, command line and findings.     *)
THEOREM ActionDecidesAlike == Spec => []GatesAgree
<1>1. CliInv => GatesAgree
  BY DEF CliInv, ExitIsDecision, JobFollows, GatesAgree, Running
<1>2. QED
  BY <1>1, CliInvariance, PTL

(* A site that was not reached never gives an exit code of success where a   *)
(* report was written, whatever the thresholds.                              *)
THEOREM UnreachedIsNeverGreen ==
  Spec => [](cli.phase = "exited" /\ cli.written /\ site.entry \in Unreached => cli.exit # OK)
<1>1. CliInv => (cli.phase = "exited" /\ cli.written /\ site.entry \in Unreached => cli.exit # OK)
  BY DEF CliInv, ExitIsDecision, Decision, exit_code, Unreached, OK, SECURITY, NETWORK, INTERNAL
<1>2. QED
  BY <1>1, CliInvariance, PTL
-----------------------------------------------------------------------------
(* The manifest: which rules are counted, and with which weights.            *)

(* A handful of things is a finite set.                                      *)
LEMMA Few == \A a, b, c, d, e, f, g, h : IsFiniteSet({a, b, c, d, e, f, g, h})
<1> SUFFICES ASSUME NEW a, NEW b, NEW c, NEW d, NEW e, NEW f, NEW g, NEW h
             PROVE  IsFiniteSet({a, b, c, d, e, f, g, h})
  OBVIOUS
<1>1. IsFiniteSet({a})
  BY FS_Singleton
<1>2. IsFiniteSet({a} \cup {b})
  BY <1>1, FS_AddElement
<1>3. IsFiniteSet(({a} \cup {b}) \cup {c})
  BY <1>2, FS_AddElement
<1>4. IsFiniteSet((({a} \cup {b}) \cup {c}) \cup {d})
  BY <1>3, FS_AddElement
<1>5. IsFiniteSet({e})
  BY FS_Singleton
<1>6. IsFiniteSet({e} \cup {f})
  BY <1>5, FS_AddElement
<1>7. IsFiniteSet(({e} \cup {f}) \cup {g})
  BY <1>6, FS_AddElement
<1>8. IsFiniteSet((({e} \cup {f}) \cup {g}) \cup {h})
  BY <1>7, FS_AddElement
<1>9. IsFiniteSet(((({a} \cup {b}) \cup {c}) \cup {d}) \cup ((({e} \cup {f}) \cup {g}) \cup {h}))
  BY <1>4, <1>8, FS_Union
<1>10. {a, b, c, d, e, f, g, h} = ((({a} \cup {b}) \cup {c}) \cup {d}) \cup ((({e} \cup {f}) \cup {g}) \cup {h})
  OBVIOUS
<1>11. QED
  BY <1>9, <1>10

(* The values of a function on a finite set are finitely many.               *)
LEMMA FinitelyManyValues ==
  ASSUME NEW S, IsFiniteSet(S), NEW f
  PROVE  IsFiniteSet({f[x] : x \in S})
<1> DEFINE T == {f[x] : x \in S}
           g == [x \in S |-> f[x]]
<1>1. g \in Surjection(S, T)
  BY DEF Surjection
<1>2. QED
  BY <1>1, FS_Surjection

(* The codes of the library, eight to a set.                                 *)
AgentCodes ==
  {"MCP_ENDPOINT_ABSENT", "MCP_DISCOVERY_INVALID", "AGENT_INTERFACE_DISCOVERY_ABSENT",
   "SERVER-CARD-004", "SERVER-CARD-005", "AGENT-META-001", "AGENT-META-004", "AGENT-META-008"}
ToolCodes ==
  {"MCP-AUTH-001", "MCP-OBS-001", "TOOL-RISK-001", "WEBMCP-001", "WEBMCP-002", "WEBMCP-003",
   "WEBMCP-004", "WEBMCP-005"}
CommerceCodes ==
  {"UCP_PROFILE_ABSENT", "UCP_PROFILE_INVALID", "UCP_SIGNING_KEYS_INVALID",
   "UCP_CHECKOUT_MISSING", "AGENT_PAYMENTS_ABSENT", "LLMS-SUPPLY-002", "LLMS-SUPPLY-006",
   "LLMS-SUPPLY-008"}
FormatCodes ==
  {"MARKDOWN_FOR_AGENTS_ABSENT", "LLMS_TXT_MISSING_OR_INVALID", "LINK_HEADERS_ABSENT",
   "CONTENT-NEG-002", "CONTENT-NEG-004", "MACHINE-REP-004", "MACHINE-REP-005",
   "SITEMAP_MISSING_OR_INVALID"}
CrawlCodes ==
  {"AI_CRAWLER_BLOCKED", "AI-BOT-POLICY-001", "CONTENT_SIGNALS_ABSENT", "CONTENT-SIGNAL-001",
   "CRAWL-GRAPH-001", "CRAWL-GRAPH-002", "CRAWL-GRAPH-005", "AI_CRAWLER_BLOCKED"}
ProductCodes ==
  {"PRICE_MISSING_INVALID", "MISSING_AVAILABILITY", "MISSING_PRODUCT_SCHEMA",
   "MISSING_OFFER_DATA", "VARIANT_INFO_MISSING", "PRICE_MISMATCH",
   "INCONSISTENT_STRUCTURED_DATA", "DUPLICATE_CONFLICTING_ENTITIES"}
PageCodes ==
  {"HEADING_HIERARCHY_POOR", "PAGE_TOKEN_BLOAT", "SEMANTIC_HTML_ABSENT",
   "MISSING_RETURNS_POLICY", "SHIPPING_INFO_UNAVAILABLE", "MISSING_OG_META_FOR_CITATION",
   "CITABILITY_WEAK", "JS_ONLY_CRITICAL_CONTENT"}
DomainCodes == AgentCodes \cup ToolCodes \cup CommerceCodes \cup FormatCodes \cup CrawlCodes
OnPageCodes == ProductCodes \cup PageCodes \cup {"BLOCKED_CRAWLABILITY"}

Maturities == {"required", "experimental"}
Severities == {"critical", "high", "medium", "low", "info"}

RuleOf(scope, codes) ==
  [code : codes, scope : {scope}, category : CATEGORIES, maturity : Maturities,
   severity : Severities]

(* Which rules there are.                                                    *)
LEMMA DomainRulesOf == DomainRules \subseteq RuleOf("domain", DomainCodes)
  BY DEF DomainRules, Family, RuleOf, DomainCodes, AgentCodes, ToolCodes, CommerceCodes,
         FormatCodes, CrawlCodes, CATEGORIES, Maturities, Severities

(* The same of the rules of a page.                                          *)
LEMMA PageRulesOf == PageRules \subseteq RuleOf("page", OnPageCodes)
  BY DEF PageRules, Family, RuleOf, OnPageCodes, ProductCodes, PageCodes, CATEGORIES, Maturities,
         Severities

(* A code belongs to one scope, and the gate is no rule.                     *)
LEMMA DisjointCodes == DomainCodes \cap OnPageCodes = {} /\ GATE_ROBOTS \notin DomainCodes \cup OnPageCodes
  BY DEF DomainCodes, AgentCodes, ToolCodes, CommerceCodes, FormatCodes, CrawlCodes, OnPageCodes,
         ProductCodes, PageCodes, GATE_ROBOTS

(* There are finitely many codes.                                            *)
LEMMA FiniteCodes == IsFiniteSet(DomainCodes) /\ IsFiniteSet(OnPageCodes)
<1>1. /\ IsFiniteSet(AgentCodes) /\ IsFiniteSet(ToolCodes) /\ IsFiniteSet(CommerceCodes)
      /\ IsFiniteSet(FormatCodes) /\ IsFiniteSet(CrawlCodes)
      /\ IsFiniteSet(ProductCodes) /\ IsFiniteSet(PageCodes)
  BY Few, Zenon DEF AgentCodes, ToolCodes, CommerceCodes, FormatCodes, CrawlCodes, ProductCodes, PageCodes
<1>2. IsFiniteSet(AgentCodes \cup ToolCodes)
  BY <1>1, FS_Union
<1>3. IsFiniteSet(AgentCodes \cup ToolCodes \cup CommerceCodes)
  BY <1>1, <1>2, FS_Union
<1>4. IsFiniteSet(AgentCodes \cup ToolCodes \cup CommerceCodes \cup FormatCodes)
  BY <1>1, <1>3, FS_Union
<1>5. IsFiniteSet(DomainCodes)
  BY <1>1, <1>4, FS_Union DEF DomainCodes
<1>6. IsFiniteSet(ProductCodes \cup PageCodes)
  BY <1>1, FS_Union
<1>7. IsFiniteSet(OnPageCodes)
  BY <1>6, FS_AddElement DEF OnPageCodes
<1>8. QED
  BY <1>5, <1>7

(* There are finitely many rules of finitely many codes.                     *)
LEMMA FiniteRulesOf ==
  ASSUME NEW scope, NEW codes, IsFiniteSet(codes)
  PROVE  IsFiniteSet(RuleOf(scope, codes))
<1> DEFINE A == codes \X CATEGORIES
           B == A \X Maturities
           P == B \X Severities
           g == [q \in P |-> [code |-> q[1][1][1], scope |-> scope, category |-> q[1][1][2],
                              maturity |-> q[1][2], severity |-> q[2]]]
<1>1. {"discoverability", "structured", "consistency", "actionability", "trust", "ucp",
       "citability", "citability"} = CATEGORIES
  BY DEF CATEGORIES
<1>2. IsFiniteSet(CATEGORIES)
  BY <1>1, Few
<1>3. IsFiniteSet({"required"}) /\ IsFiniteSet({"critical"})
  BY FS_Singleton
<1>4. IsFiniteSet({"required"} \cup {"experimental"})
  BY <1>3, FS_AddElement
<1>5. {"required"} \cup {"experimental"} = Maturities
  BY DEF Maturities
<1>6. IsFiniteSet(Maturities)
  BY <1>4, <1>5
<1>7. {"critical", "high", "medium", "low", "info", "info", "info", "info"} = Severities
  BY DEF Severities
<1>8. IsFiniteSet(Severities)
  BY <1>7, Few
<1>9. IsFiniteSet(A)
  BY <1>2, FS_Product
<1>10. IsFiniteSet(B)
  BY <1>6, <1>9, FS_Product
<1>11. IsFiniteSet(P)
  BY <1>8, <1>10, FS_Product
<1> HIDE DEF P, g
<1>12. IsFiniteSet({g[q] : q \in P})
  BY <1>11, FinitelyManyValues
<1>13. RuleOf(scope, codes) \subseteq {g[q] : q \in P}
  <2> SUFFICES ASSUME NEW r \in RuleOf(scope, codes) PROVE r \in {g[q] : q \in P}
    OBVIOUS
  <2> DEFINE q == <<<<<<r.code, r.category>>, r.maturity>>, r.severity>>
  <2>1. q \in P
    BY DEF RuleOf, P
  <2>2. r = [code |-> r.code, scope |-> scope, category |-> r.category, maturity |-> r.maturity,
             severity |-> r.severity]
    BY DEF RuleOf
  <2>3. g[q] = r
    BY <2>1, <2>2 DEF g
  <2>4. QED
    BY <2>1, <2>3
<1>14. QED
  BY <1>12, <1>13, FS_Subset

(* The library has finitely many rules.                                      *)
LEMMA FiniteRules == IsFiniteSet(RULES)
<1>1. IsFiniteSet(DomainRules) /\ IsFiniteSet(PageRules)
  BY FiniteCodes, FiniteRulesOf, DomainRulesOf, PageRulesOf, FS_Subset
<1>2. QED
  BY <1>1, FS_Union DEF RULES

(* A row of the manifest: a rule with its group and effect, or the gate.     *)
Row(s) ==
  \/ s = GATE_ROBOTS_SPEC
  \/ \E r \in RULES : /\ s.code = r.code /\ s.scope = r.scope /\ s.category = r.category
                      /\ s.severity = r.severity /\ s.effect \in {"diagnostic", "weighted"}

(* The counted rows are finitely many.                                       *)
LEMMA CountedRows == IsFiniteSet(Counted(Manifest)) /\ \A s \in Counted(Manifest) : Row(s)
<1> DEFINE f == [r \in RULES |-> rule_spec(r, IF r.code \in DOMAIN Groups THEN Groups[r.code] ELSE "")]
<1>1. /\ Manifest = {f[r] : r \in RULES} \cup {GATE_ROBOTS_SPEC}
      /\ \A r \in RULES : Row(f[r])
  BY DEF Manifest, technical_manifest, Row, rule_spec
<1> HIDE DEF f
<1>2. IsFiniteSet({f[r] : r \in RULES})
  BY FiniteRules, FinitelyManyValues
<1>3. IsFiniteSet(Manifest)
  BY <1>1, <1>2, FS_AddElement
<1>4. Counted(Manifest) \subseteq Manifest
  BY DEF Counted
<1>5. \A s \in Manifest : Row(s)
  BY <1>1 DEF Row
<1>6. QED
  BY <1>3, <1>4, <1>5, FS_Subset

(* What the score reads of a row.                                            *)
LEMMA RowReads ==
  ASSUME NEW s \in Counted(Manifest)
  PROVE  /\ s.code \in DomainCodes \cup OnPageCodes \cup {GATE_ROBOTS}
         /\ s.category \in CATEGORIES
         /\ s.effect \in {"gate", "weighted"}
         /\ s.effect = "gate" => s = GATE_ROBOTS_SPEC
         /\ s.severity \in Severities
         /\ weight(s) \in {2, 6, 14, 25, 40}
<1>1. Row(s) /\ s.effect # "diagnostic"
  BY CountedRows DEF Counted
<1>2. CASE s = GATE_ROBOTS_SPEC
  BY <1>2 DEF GATE_ROBOTS_SPEC, CATEGORIES, Severities, weight, severity_weights
<1>3. CASE s # GATE_ROBOTS_SPEC
  <2>1. PICK r \in RULES : s.code = r.code /\ s.category = r.category /\ s.severity = r.severity
    BY <1>1, <1>3 DEF Row
  <2>2. r.code \in DomainCodes \cup OnPageCodes /\ r.category \in CATEGORIES /\ r.severity \in Severities
    BY DomainRulesOf, PageRulesOf DEF RULES, RuleOf
  <2>3. s.effect = "weighted"
    BY <1>1, <1>3 DEF Row
  <2>4. weight(s) \in {2, 6, 14, 25, 40}
    BY <2>1, <2>2 DEF weight, severity_weights, Severities
  <2>5. QED
    BY <2>1, <2>2, <2>3, <2>4
<1>4. QED
  BY <1>2, <1>3

-----------------------------------------------------------------------------
(* The outcomes: whatever the evidence is, a rule passes, fails or says why  *)
(* it was not measured.                                                      *)

Settled(verdict) == verdict.measure \in Verdicts

(* The answers of measure() in robots_policy.py, discoverability.py,         *)
(* agent_formats.py, machine_rep.py.                                         *)
LEMMA FormatsSettled ==
  ASSUME NEW dom, NEW ctx
  PROVE  /\ Settled(AiCrawlerBlocked(dom, ctx)) /\ Settled(AiBotPolicyDeclared(dom, ctx))
         /\ Settled(ContentSignalsAbsent(dom, ctx)) /\ Settled(ContentSignalSyntax(dom, ctx))
         /\ Settled(SitemapMissingOrInvalid(dom, ctx)) /\ Settled(LlmsTxtMissing(dom, ctx))
         /\ Settled(MarkdownForAgentsAbsent(dom, ctx)) /\ Settled(LinkHeadersAbsent(dom, ctx))
         /\ Settled(ContentNegotiationInconsistent(dom, ctx))
         /\ Settled(ContentNegotiationVaryMissing(dom, ctx))
         /\ Settled(MachineRepIndistinguishableFromHtml(dom, ctx))
         /\ Settled(MachineRepVaryMissingPrefer(dom, ctx))
  BY DEF Settled, Verdicts, Verdict, Then, NAUnless, NMUnless, probe_measured, AiCrawlerBlocked,
         AiBotPolicyDeclared, ContentSignalsAbsent, ContentSignalSyntax, SitemapMissingOrInvalid,
         LlmsTxtMissing, MarkdownForAgentsAbsent, LinkHeadersAbsent, negotiation_measured,
         ContentNegotiationInconsistent, ContentNegotiationVaryMissing, preference_measured,
         MachineRepIndistinguishableFromHtml, MachineRepVaryMissingPrefer

(* ... in mcp.py.                                                            *)
LEMMA McpSettled ==
  ASSUME NEW dom, NEW ctx
  PROVE  /\ Settled(McpEndpointAbsent(dom, ctx)) /\ Settled(McpDiscoveryInvalid(dom, ctx))
         /\ Settled(AgentInterfaceDiscoveryAbsent(dom, ctx))
         /\ Settled(ServerCardInterfaceUnreachable(dom, ctx))
         /\ Settled(ServerCardIdentityMismatch(dom, ctx))
         /\ Settled(AgentMetaPromptInjection(dom, ctx))
         /\ Settled(AgentMetaNameCollision(dom, ctx)) /\ Settled(AgentMetaHiddenChars(dom, ctx))
         /\ Settled(McpObservabilityMissingProtocolVersionHeader(dom, ctx))
         /\ Settled(ToolRiskClassification(dom, ctx))
         /\ Settled(McpOAuthDiscoveryMissing(dom, ctx))
  BY DEF Settled, Verdicts, Verdict, Then, NAUnless, NMUnless, probe_measured, SiteTypeGate,
         Declared, NotSpokenTo, InterfaceMeasured, McpEndpointAbsent, McpDiscoveryInvalid,
         AgentInterfaceDiscoveryAbsent, ServerCardInterfaceUnreachable,
         ServerCardIdentityMismatch, AgentMetaPromptInjection, AgentMetaNameCollision,
         AgentMetaHiddenChars, McpObservabilityMissingProtocolVersionHeader,
         ToolRiskClassification, McpOAuthDiscoveryMissing

(* ... in webmcp.py, ucp.py, supply_chain.py and crawl_graph.py.             *)
LEMMA OthersSettled ==
  ASSUME NEW dom, NEW ctx
  PROVE  /\ Settled(WebMcpCapabilityPresent(dom, ctx)) /\ Settled(WebMcpToolsNotEnumerable(dom, ctx))
         /\ Settled(WebMcpToolMetadataIncomplete(dom, ctx))
         /\ Settled(WebMcpToolMetadataInjection(dom, ctx))
         /\ Settled(WebMcpAnnotationsInconsistent(dom, ctx))
         /\ Settled(UcpProfileAbsent(dom, ctx)) /\ Settled(UcpProfileInvalid(dom, ctx))
         /\ Settled(UcpCheckoutMissing(dom, ctx)) /\ Settled(UcpSigningKeysInvalid(dom, ctx))
         /\ Settled(AgentPaymentsAbsent(dom, ctx))
         /\ Settled(LlmsSupplyDomainResolves(dom, ctx)) /\ Settled(LlmsSupplyRemoteExec(dom, ctx))
         /\ Settled(LlmsSupplyClaimableReference(dom, ctx))
         /\ Settled(CrawlGraphOrphanPages(dom, ctx)) /\ Settled(CrawlGraphDeepPages(dom, ctx))
         /\ Settled(CrawlGraphDeadEndPages(dom, ctx))
  BY DEF Settled, Verdicts, Verdict, Then, NAUnless, NMUnless, probe_measured, Gated,
         webmcp_measured, WebMcpCapabilityPresent, WebMcpToolsNotEnumerable,
         WebMcpToolMetadataIncomplete, WebMcpToolMetadataInjection, WebMcpAnnotationsInconsistent,
         Published, UcpProfileAbsent, UcpProfileInvalid, UcpCheckoutMissing,
         UcpSigningKeysInvalid, AgentPaymentsAbsent, instructions_measured,
         LlmsSupplyDomainResolves, LlmsSupplyRemoteExec, LlmsSupplyClaimableReference,
         CrawlGraphOrphanPages, CrawlGraphDeepPages, CrawlGraphDeadEndPages

(* Every rule of the domain has a verdict.                                   *)
LEMMA DomainSettled ==
  ASSUME NEW code \in DomainCodes, NEW dom, NEW ctx
  PROVE  Settled(DomainVerdict(code, dom, ctx))
  BY FormatsSettled, McpSettled, OthersSettled
  DEF DomainVerdict, DomainCodes, AgentCodes, ToolCodes, CommerceCodes, FormatCodes, CrawlCodes

OutcomeStates == MEASURED_STATES \cup {NA, NOT_MEASURED}

(* The outcome of every rule is a verdict or a reason not to have one.       *)
LEMMA RuleSettled ==
  ASSUME NEW rule \in RULES, NEW dom, NEW ctx, NEW pages
  PROVE  RuleOutcome(rule, dom, ctx, pages).state \in OutcomeStates
<1> DEFINE verdict == DomainVerdict(rule.code, dom, ctx)
           inner == IF rule.scope = "domain"
                      THEN domain_outcome(rule.code, ctx, pages, verdict)
                      ELSE page_outcome(rule.code, ctx, pages, page_verdicts(rule.code, dom, ctx, pages))
<1>1. rule.scope = "domain" => Settled(verdict)
  BY DomainRulesOf, PageRulesOf, DomainSettled DEF RULES, RuleOf
<1> HIDE DEF verdict
<1>2. rule.scope = "domain" =>
        domain_outcome(rule.code, ctx, pages, verdict).state \in OutcomeStates
  BY <1>1 DEF domain_outcome, Outcome, Settled, Verdicts, Measured, OutcomeStates, MEASURED_STATES
<1>3. \A verdicts : page_outcome(rule.code, ctx, pages, verdicts).state \in OutcomeStates
  BY DEF page_outcome, Outcome, OutcomeStates, MEASURED_STATES
<1>4. inner.state \in OutcomeStates
  BY <1>2, <1>3
<1> HIDE DEF inner
<1>5. outcome_from_row(rule.code, inner).state \in OutcomeStates
  BY <1>4 DEF outcome_from_row, Outcome, OutcomeStates
<1>6. QED
  BY <1>5 DEF RuleOutcome, inner, verdict

(* The rule of a code.                                                       *)
LEMMA ScopeOfCode ==
  ASSUME NEW r \in RULES
  PROVE  /\ r.code \in DOMAIN ScopeOf
         /\ ScopeOf[r.code] \in RULES /\ ScopeOf[r.code].code = r.code
         /\ ScopeOf[r.code].scope = r.scope
<1>1. /\ r.code \in DOMAIN ScopeOf
      /\ ScopeOf[r.code] = CHOOSE q \in RULES : q.code = r.code
  BY DEF ScopeOf
<1>2. ScopeOf[r.code] \in RULES /\ ScopeOf[r.code].code = r.code
  BY <1>1
<1>3. \A q \in RULES : q.code = r.code => q.scope = r.scope
  BY DomainRulesOf, PageRulesOf, DisjointCodes DEF RULES, RuleOf
<1>4. QED
  BY <1>1, <1>2, <1>3

(* A counted rule has an outcome, one of a page rule has counted its pages.  *)
PagesCounted(o) == o.measured \in Nat /\ o.measured > 0 /\ o.failed \in 0..o.measured

Rateable(outcomes) ==
  \A s \in Counted(Manifest) :
    /\ s.code \in DOMAIN outcomes
    /\ outcomes[s.code].state \in OutcomeStates

Countable(outcomes) ==
  \A s \in Counted(Manifest) :
    s.scope = "page" /\ outcomes[s.code].state \in MEASURED_STATES => PagesCounted(outcomes[s.code])

(* Every scan has an outcome for every counted row.                          *)
LEMMA OutcomesRateable ==
  ASSUME NEW dom, NEW ctx, NEW pages
  PROVE  Rateable(technical_outcomes(rule_rows(dom, ctx, pages)))
<1> DEFINE rows == rule_rows(dom, ctx, pages)
           outcomes == technical_outcomes(rows)
<1>1. /\ DOMAIN rows = DOMAIN ScopeOf
      /\ \A c \in DOMAIN ScopeOf : rows[c] = RuleOutcome(ScopeOf[c], dom, ctx, pages)
  BY DEF rule_rows
<1> HIDE DEF rows
<1>2. /\ DOMAIN outcomes = DOMAIN rows \cup {GATE_ROBOTS}
      /\ outcomes[GATE_ROBOTS] = derived_gate(rows["AI_CRAWLER_BLOCKED"])
      /\ \A c \in DOMAIN rows : c # GATE_ROBOTS => outcomes[c] = rows[c]
  BY DEF technical_outcomes
<1> HIDE DEF outcomes
<1>3. outcomes[GATE_ROBOTS].state \in OutcomeStates
  <2>1. \A source : derived_gate(source).state \in OutcomeStates
    BY DEF derived_gate, Outcome, OutcomeStates
  <2>2. QED
    BY <1>2, <2>1
<1>4. ASSUME NEW s \in Counted(Manifest)
      PROVE  s.code \in DOMAIN outcomes /\ outcomes[s.code].state \in OutcomeStates
  <2>1. CASE s = GATE_ROBOTS_SPEC
    BY <1>2, <1>3, <2>1 DEF GATE_ROBOTS_SPEC
  <2>2. CASE s # GATE_ROBOTS_SPEC
    <3>1. PICK r \in RULES : s.code = r.code
      BY <2>2, CountedRows DEF Row
    <3>2. r.code # GATE_ROBOTS
      BY DomainRulesOf, PageRulesOf, DisjointCodes DEF RULES, RuleOf
    <3>3. /\ r.code \in DOMAIN ScopeOf /\ ScopeOf[r.code] \in RULES
      BY ScopeOfCode
    <3>4. outcomes[r.code] = RuleOutcome(ScopeOf[r.code], dom, ctx, pages) /\ r.code \in DOMAIN outcomes
      BY <1>1, <1>2, <3>2, <3>3
    <3>5. outcomes[r.code].state \in OutcomeStates
      BY <3>3, <3>4, RuleSettled
    <3>6. QED
      BY <3>1, <3>4, <3>5
  <2>3. QED
    BY <2>1, <2>2
<1>5. QED
  BY <1>4 DEF Rateable, outcomes, rows

-----------------------------------------------------------------------------
(* The score: what it is made of.                                            *)

RowsOf(outcomes, profile) == [s \in Counted(Manifest) |-> Found(s, outcomes, profile)]
ApplicableOf(row, key) == {s \in Elements(row, key) : row[s].state # NA}
MeasuredOf(row, key) == {s \in ApplicableOf(row, key) : row[s].state \in MEASURED_STATES}
ScoredOf(row, key, c) == {s \in MeasuredOf(row, key) : s.category = c /\ s.effect = "weighted"}
RatedOf(row, key, profile) ==
  {c \in CATEGORIES : category_applies(c, profile) /\ ScoredOf(row, key, c) # {}}
ScoreOf(row, key, profile) ==
  [c \in RatedOf(row, key, profile) |-> category_score(ScoredOf(row, key, c), row, key)]
RatingOf(row, key, profile) ==
  (SumFunction([c \in RatedOf(row, key, profile) |-> category_weights[c] * ScoreOf(row, key, profile)[c]])
     \div SumFunctionOnSet(category_weights, RatedOf(row, key, profile)) + 50) \div 100

CoveredOf(row, key, percent) ==
  100 * Weights(MeasuredOf(row, key)) >= percent * Weights(ApplicableOf(row, key))
Insufficient(row, key, profile) ==
  \/ Weights(ApplicableOf(row, key)) = 0
  \/ ~CoveredOf(row, key, evidence_min_coverage)
  \/ RatedOf(row, key, profile) = {}

GatesOf(row) == {s.group : s \in {t \in DOMAIN row : t.effect = "gate" /\ row[t].state = FAIL}}

(* The fields of a score.                                                    *)
LEMMA ScoreParts ==
  ASSUME NEW outcomes, NEW key, NEW profile
  PROVE  LET row == RowsOf(outcomes, profile)
             res == score_r2(outcomes, key, profile, Manifest)
         IN /\ res.measured_w = Weights(MeasuredOf(row, key))
            /\ res.applicable_w = Weights(ApplicableOf(row, key))
            /\ res.categories = ScoreOf(row, key, profile)
            /\ res.gates = GatesOf(row)
            /\ IF Insufficient(row, key, profile)
                 THEN res.status = "INSUFFICIENT_EVIDENCE" /\ res.rating = -1
                 ELSE /\ res.status \in {"DEGRADED", "OK"} /\ res.rating = RatingOf(row, key, profile)
                      /\ res.status = "OK" => CoveredOf(row, key, canonical_min_coverage)
                      /\ (CoveredOf(row, key, canonical_min_coverage)
                           /\ \A s \in ApplicableOf(row, key) : row[s].state # ERROR) => res.status = "OK"
<1> DEFINE row == RowsOf(outcomes, profile)
           applicable == ApplicableOf(row, key)
           measured == MeasuredOf(row, key)
           rated == RatedOf(row, key, profile)
           hits == GatesOf(row)
           deduplicated == {s.code : s \in DOMAIN row \ Elements(row, key)}
           unknown == {s.code : s \in {t \in DOMAIN row : t.code \notin DOMAIN outcomes}}
           Rec(status, number, grade, badge) ==
             [status |-> status, rating |-> number, grade |-> grade, badge |-> badge,
              measured_w |-> Weights(measured), applicable_w |-> Weights(applicable),
              categories |-> ScoreOf(row, key, profile),
              gates |-> hits, deduplicated |-> deduplicated, unknown |-> unknown]
           degraded == ~CoveredOf(row, key, canonical_min_coverage) \/ \E s \in applicable : row[s].state = ERROR
           number == RatingOf(row, key, profile)
           badge == IF \E g \in hits \cap DOMAIN GATES : GATES[g] = "badge_block"
                      THEN "none" ELSE BadgeOf(number)
           res == score_r2(outcomes, key, profile, Manifest)
<1>1. res = IF Insufficient(row, key, profile) THEN Rec("INSUFFICIENT_EVIDENCE", -1, "none", "none")
            ELSE IF degraded THEN Rec("DEGRADED", number, "none", "none")
            ELSE Rec("OK", number, GradeOf(number), badge)
  BY ZenonT(60) DEF score_r2, Insufficient, CoveredOf, RatingOf, ScoreOf, RatedOf, ScoredOf, MeasuredOf, ApplicableOf,
         RowsOf, GatesOf
<1> HIDE DEF hits, deduplicated, unknown, degraded, number, badge, row, applicable, measured
<1>2. QED
  <2>1. \A st, nb, gr, bd : LET r == Rec(st, nb, gr, bd) IN
          /\ r.measured_w = Weights(measured) /\ r.applicable_w = Weights(applicable)
          /\ r.categories = ScoreOf(row, key, profile) /\ r.status = st /\ r.rating = nb
          /\ r.gates = hits
    OBVIOUS
  <2> HIDE DEF Rec
  <2>0. /\ ~degraded => CoveredOf(row, key, canonical_min_coverage)
        /\ (CoveredOf(row, key, canonical_min_coverage)
             /\ \A s \in applicable : row[s].state # ERROR) => ~degraded
    BY DEF degraded
  <2>2. /\ res.measured_w = Weights(measured) /\ res.applicable_w = Weights(applicable)
        /\ res.categories = ScoreOf(row, key, profile) /\ res.gates = hits
        /\ IF Insufficient(row, key, profile)
             THEN res.status = "INSUFFICIENT_EVIDENCE" /\ res.rating = -1
             ELSE /\ res.status \in {"DEGRADED", "OK"} /\ res.rating = number
                  /\ res.status = "OK" => CoveredOf(row, key, canonical_min_coverage)
                  /\ (CoveredOf(row, key, canonical_min_coverage)
                       /\ \A s \in applicable : row[s].state # ERROR) => res.status = "OK"
    BY <1>1, <2>1, <2>0
  <2>3. QED
    BY <2>2 DEF row, applicable, measured, number, hits

(* The report of a site rates the outcomes of its rules.                     *)
LEMMA ReportParts ==
  ASSUME NEW s
  PROVE  \E dom, ctx :
           LET ev == evidence_from_store(s.store, s.host, s.type, s.tokenizer)
               outcomes == technical_outcomes(rule_rows(dom, ctx, KeptPages(s.store.pages, s.tokenizer)))
               res == score_r2(outcomes, s.host.evidence_key, s.type, Manifest)
           IN /\ Report(s).outcomes = outcomes
              /\ Report(s).status = res.status /\ Report(s).rating = res.rating
              /\ Report(s).measured_w = res.measured_w /\ Report(s).applicable_w = res.applicable_w
              /\ Report(s).categories = res.categories /\ Report(s).gates = res.gates
              /\ {n.rule : n \in Report(s).not_measured} =
                   {r.code : r \in {t \in Counted(Manifest) : outcomes[t.code].state \in {NOT_MEASURED, UNKNOWN}}}
<1> DEFINE ev == evidence_from_store(s.store, s.host, s.type, s.tokenizer)
           ctx == [site_category |-> s.type, defaulted |-> ev.defaulted,
                   capabilities |-> derive_capabilities(s.type, ev.pages, ev.domain)]
           dom == ev.domain
           pages == KeptPages(s.store.pages, s.tokenizer)
           outcomes == technical_outcomes(rule_rows(dom, ctx, pages))
           res == score_r2(outcomes, s.host.evidence_key, s.type, Manifest)
           unmeasured == {t \in Counted(Manifest) : outcomes[t.code].state \in {NOT_MEASURED, UNKNOWN}}
           reason(t) == reason_of(t.code, outcomes[t.code], ctx.defaulted, s.tokenizer)
           listed == {[rule |-> t.code, reason |-> reason(t)] : t \in unmeasured}
           caps == ctx.capabilities
<1>1. ev.pages = pages
  BY DEF evidence_from_store
<1>2. ctx.site_category = s.type
  OBVIOUS
<1>3. Report(s) = report_block(caps, outcomes, res, ctx.defaulted, s.tokenizer, Manifest)
  BY <1>1, <1>2, Zenon DEF Report, technical_report, technical_readiness, RatedOutcomes
<1> HIDE DEF ctx, ev, res, outcomes, caps
<1>4. /\ Report(s).outcomes = outcomes
      /\ Report(s).status = res.status /\ Report(s).rating = res.rating
      /\ Report(s).measured_w = res.measured_w /\ Report(s).applicable_w = res.applicable_w
      /\ Report(s).categories = res.categories /\ Report(s).gates = res.gates
      /\ Report(s).not_measured = listed
  <2> DEFINE numberless == res.status = "INSUFFICIENT_EVIDENCE"
             badge == IF numberless \/ res.badge = "none" THEN "none" ELSE "estimated"
             evidence == IF numberless THEN "NOT_MEASURED" ELSE "ESTIMATED"
  <2>1. Report(s) =
          [status |-> res.status, rating |-> res.rating, grade |-> res.grade, gates |-> res.gates,
           badge |-> badge, evidence_state |-> evidence,
           measured_w |-> res.measured_w, applicable_w |-> res.applicable_w,
           categories |-> res.categories, deduplicated |-> res.deduplicated,
           capabilities |-> caps, outcomes |-> outcomes, not_measured |-> listed]
    BY <1>3, Zenon DEF report_block
  <2> HIDE DEF badge, evidence, listed
  <2>2. QED
    BY <2>1
<1>5. {n.rule : n \in listed} = {r.code : r \in unmeasured}
  <2> DEFINE entry == [t \in unmeasured |-> [rule |-> t.code, reason |-> reason(t)]]
  <2>1. listed = {entry[t] : t \in unmeasured}
    BY Zenon
  <2>2. \A t \in unmeasured : entry[t].rule = t.code
    OBVIOUS
  <2> HIDE DEF entry, listed, unmeasured
  <2>3. QED
    BY <2>1, <2>2
<1>6. QED
  BY <1>4, <1>5, ZenonT(60) DEF res, outcomes

-----------------------------------------------------------------------------
(* The gaps of a report.                                                     *)

WeightOf == [s \in Counted(Manifest) |-> weight(s)]

(* The weights of counted rows add up.                                       *)
LEMMA WeightsAdd ==
  ASSUME NEW S \in SUBSET Counted(Manifest)
  PROVE  /\ Numbers(WeightOf, S) /\ Weights(S) = SumFunctionOnSet(WeightOf, S)
         /\ Weights(S) \in Nat
         /\ S # {} => Weights(S) > 0
<1> DEFINE f == [s \in S |-> weight(s)]
<1>1. IsFiniteSet(S)
  BY CountedRows, FS_Subset
<1>2. \A s \in S : f[s] = WeightOf[s] /\ WeightOf[s] \in Nat /\ WeightOf[s] > 0
  BY RowReads DEF WeightOf
<1>3. DOMAIN f = S
  OBVIOUS
<1>4. Weights(S) = SumFunctionOnSet(f, S)
  BY <1>3, Zenon DEF Weights, SumFunction
<1> HIDE DEF f
<1>5. Numbers(f, S) /\ Numbers(WeightOf, S)
  BY <1>1, <1>2 DEF Numbers
<1>6. Weights(S) = SumFunctionOnSet(WeightOf, S)
  BY <1>2, <1>4, <1>5, SumSame
<1>7. SumFunctionOnSet(WeightOf, S) \in Nat /\ \A s \in S : SumFunctionOnSet(WeightOf, S) >= WeightOf[s]
  BY <1>2, <1>5, SumNat
<1>8. QED
  BY <1>2, <1>5, <1>6, <1>7

(* A row that was not measured shares its cause with no other.               *)
LEMMA UnmeasuredIsElement ==
  ASSUME NEW row, DOMAIN row = Counted(Manifest), NEW key, NEW s \in Counted(Manifest),
         row[s].state \notin MEASURED_STATES
  PROVE  s \in Elements(row, key)
<1>1. Cluster(s, row, key) = {s}
  BY DEF Cluster, SameCause
<1>2. weight(s) <= weight(s)
  BY RowReads
<1>3. Heaviest({s}) = s
  BY <1>2 DEF Heaviest
<1>4. QED
  BY <1>1, <1>3 DEF Elements

(* What the rows say of a rule.                                              *)
LEMMA RowStates ==
  ASSUME NEW outcomes, Rateable(outcomes), NEW profile, NEW s \in Counted(Manifest)
  PROVE  LET row == RowsOf(outcomes, profile)
         IN /\ row[s].state \in OutcomeStates
            /\ category_applies(s.category, profile) => row[s] = outcomes[s.code]
            /\ ~category_applies(s.category, profile) => row[s].state = NA
<1>1. s.code \in DOMAIN outcomes /\ outcomes[s.code].state \in OutcomeStates
  BY DEF Rateable
<1>2. RowsOf(outcomes, profile)[s] = Found(s, outcomes, profile)
  BY DEF RowsOf
<1>3. category_applies(s.category, profile) => Found(s, outcomes, profile) = outcomes[s.code]
  BY <1>1 DEF Found
<1>4. ~category_applies(s.category, profile) => Found(s, outcomes, profile).state = NA
  BY DEF Found, Outcome
<1>5. QED
  BY <1>1, <1>2, <1>3, <1>4 DEF OutcomeStates

(* What the coverage lacks is the weight of the listed rules.                *)
LEMMA ReportGaps ==
  ASSUME NEW s
  PROVE  LET listed == {t \in Counted(Manifest) : \E n \in Report(s).not_measured : n.rule = t.code}
             counted == {t \in listed : category_applies(t.category, s.type)}
         IN Report(s).applicable_w = Report(s).measured_w + Weights(counted)
<1> DEFINE names == {n.rule : n \in Report(s).not_measured}
           listed == {t \in Counted(Manifest) : \E n \in Report(s).not_measured : n.rule = t.code}
           counted == {t \in listed : category_applies(t.category, s.type)}
           key == s.host.evidence_key
<1>1. PICK outcomes :
        /\ Rateable(outcomes)
        /\ LET res == score_r2(outcomes, key, s.type, Manifest)
           IN Report(s).measured_w = res.measured_w /\ Report(s).applicable_w = res.applicable_w
        /\ names = {r.code : r \in {t \in Counted(Manifest) : outcomes[t.code].state \in {NOT_MEASURED, UNKNOWN}}}
  BY ReportParts, OutcomesRateable
<1> DEFINE row == RowsOf(outcomes, s.type)
           applicable == ApplicableOf(row, key)
           measured == MeasuredOf(row, key)
<1>2. Report(s).measured_w = Weights(measured) /\ Report(s).applicable_w = Weights(applicable)
  BY <1>1, ScoreParts
<1>3. \A t \in listed : outcomes[t.code].state \in {NOT_MEASURED, UNKNOWN}
  BY <1>1
<1>4. \A t \in Counted(Manifest) : outcomes[t.code].state \in {NOT_MEASURED, UNKNOWN} => t \in listed
  BY <1>1
<1>5. DOMAIN row = Counted(Manifest)
  BY DEF RowsOf
<1> HIDE DEF names, listed, row
<1>6. listed \subseteq Counted(Manifest)
  BY DEF listed
<1>7. \A t \in Counted(Manifest) :
        /\ row[t].state \in OutcomeStates
        /\ category_applies(t.category, s.type) => row[t] = outcomes[t.code]
        /\ ~category_applies(t.category, s.type) => row[t].state = NA
  BY <1>1, RowStates DEF row
<1>8. Elements(row, key) \subseteq Counted(Manifest)
  BY <1>5 DEF Elements
<1>9. \A t \in Counted(Manifest) : outcomes[t.code].state \in OutcomeStates
  BY <1>1 DEF Rateable
<1>10. applicable \ measured \subseteq counted
  <2> SUFFICES ASSUME NEW t \in applicable, t \notin measured PROVE t \in counted
    OBVIOUS
  <2>1. t \in Counted(Manifest) /\ row[t].state # NA /\ row[t].state \notin MEASURED_STATES
    BY <1>8 DEF ApplicableOf, MeasuredOf
  <2>2. category_applies(t.category, s.type) /\ outcomes[t.code].state = NOT_MEASURED
    BY <1>7, <2>1 DEF OutcomeStates
  <2>3. QED
    BY <1>4, <2>1, <2>2
<1>11. counted \subseteq applicable \ measured
  <2> SUFFICES ASSUME NEW t \in counted PROVE t \in applicable /\ t \notin measured
    OBVIOUS
  <2>1. t \in Counted(Manifest) /\ outcomes[t.code].state = NOT_MEASURED /\ row[t] = outcomes[t.code]
    BY <1>3, <1>6, <1>7, <1>9 DEF OutcomeStates, MEASURED_STATES, UNKNOWN, PASS, WARN, FAIL, NA, NOT_MEASURED
  <2>2. row[t].state \notin MEASURED_STATES /\ row[t].state # NA
    BY <2>1 DEF MEASURED_STATES, PASS, WARN, FAIL, NA, NOT_MEASURED
  <2>3. t \in Elements(row, key)
    BY <1>5, <2>1, <2>2, UnmeasuredIsElement
  <2>4. QED
    BY <2>2, <2>3 DEF ApplicableOf, MeasuredOf
<1>12. applicable = measured \cup counted /\ measured \cap counted = {}
  <2>1. measured \subseteq applicable
    BY DEF MeasuredOf
  <2>2. QED
    BY <1>10, <1>11, <2>1
<1>13. applicable \subseteq Counted(Manifest)
  BY <1>8 DEF ApplicableOf
<1> HIDE DEF applicable, measured, counted
<1>14. Numbers(WeightOf, measured \cup counted)
  BY <1>12, <1>13, WeightsAdd
<1>15. SumFunctionOnSet(WeightOf, applicable) =
         SumFunctionOnSet(WeightOf, measured) + SumFunctionOnSet(WeightOf, counted)
  BY <1>12, <1>14, SumUnion
<1>16. measured \subseteq Counted(Manifest) /\ counted \subseteq Counted(Manifest)
  BY <1>12, <1>13
<1>17. Weights(applicable) = Weights(measured) + Weights(counted)
  BY <1>13, <1>15, <1>16, WeightsAdd
<1>18. QED
  BY <1>2, <1>17 DEF counted, listed

(* The report is the one of the site until something happens to the site.    *)
ReportCurrent == pending = "none" => report = Report(site)

LEMMA CurrentNext == CliInv /\ ReportCurrent /\ [Next]_vars => ReportCurrent'
<1> SUFFICES ASSUME CliInv, ReportCurrent, [Next]_vars PROVE ReportCurrent'
  OBVIOUS
<1>1. CASE Edit \/ Lose \/ LosePage \/ Refuse
  <2>1. pending' # "none"
    BY <1>1 DEF Edit, Lose, LosePage, Refuse, Between
  <2>2. QED
    BY <2>1 DEF ReportCurrent
<1>2. CASE Scan
  <2>1. site' = site /\ report' = Report(site)
    BY <1>2 DEF Scan
  <2>2. QED
    BY <2>1 DEF ReportCurrent
<1>3. CASE UNCHANGED <<site, report, pending>>
  BY <1>3 DEF ReportCurrent
<1>4. QED
  BY <1>1, <1>2, <1>3 DEF Next, vars, Invoke, WriteReport, Contribute, JobScan, JobOutputs, JobGate

(* Between two changes of the site its report is the one that is judged.     *)
THEOREM ReportInvariance == Spec => [](CliInv /\ ReportCurrent)
<1>1. Init => CliInv /\ ReportCurrent
  BY CliInit DEF Init, ReportCurrent
<1>2. CliInv /\ ReportCurrent /\ [Next]_vars => (CliInv /\ ReportCurrent)'
  BY CliNext, CurrentNext
<1>3. QED
  BY <1>1, <1>2, PTL DEF Spec

(* "It lowers coverage": for every site, however its evidence was lost and   *)
(* whatever the host groups, the weight between the applicable and the       *)
(* measured rules is exactly the weight of the rules the report lists as not *)
(* measured.                                                                 *)
THEOREM EveryGapIsListed == Spec => []GapsAccounted
<1>1. ReportCurrent => GapsAccounted
  <2> SUFFICES ASSUME ReportCurrent, pending = "none" PROVE GapsAccounted
    BY DEF GapsAccounted
  <2>1. report = Report(site)
    BY DEF ReportCurrent
  <2>2. QED
    BY <2>1, ReportGaps, Zenon DEF GapsAccounted
<1>2. QED
  BY <1>1, ReportInvariance, PTL

-----------------------------------------------------------------------------
(* The rating of a report is a percentage.                                   *)

(* A share of a whole is a share of it after an integer division.            *)
LEMMA DivisionBound ==
  ASSUME NEW a \in Nat, NEW m \in Nat, m > 0, NEW k \in Nat, a <= k * m
  PROVE  a \div m \in 0..k
<1> DEFINE q == a \div m
<1>1. q \in Int /\ m * q <= a /\ a < m * q + m
  OBVIOUS
<1> HIDE DEF q
<1>2. q >= 0
  <2> SUFFICES ASSUME q <= -1 PROVE FALSE
    BY <1>1
  <2>1. m * q <= -m
    BY <1>1
  <2>2. QED
    BY <1>1, <2>1
<1>3. q <= k
  <2> SUFFICES ASSUME q >= k + 1 PROVE FALSE
    BY <1>1
  <2>1. m * q >= m * (k + 1)
    BY <1>1
  <2>2. m * (k + 1) = k * m + m
    OBVIOUS
  <2>3. QED
    BY <1>1, <2>1, <2>2
<1>4. QED
  BY <1>1, <1>2, <1>3 DEF q

(* A verdict is worth at most a whole.                                       *)
LEMMA ValueRange ==
  ASSUME NEW s, NEW o, o.state \in MEASURED_STATES, s.scope = "page" => PagesCounted(o)
  PROVE  value(s, o) \in 0..UNIT
<1> DEFINE v == StateValue(o.state)
<1>1. v \in {0, 60, 120} /\ UNIT = 120
  BY DEF StateValue, UNIT, MEASURED_STATES, PASS, WARN, FAIL
<1> HIDE DEF v
<1>2. CASE s.scope = "page"
  <2> DEFINE k == UNIT - v
             a == o.failed * k
  <2>1. o.measured \in Nat /\ o.measured > 0 /\ o.failed \in Nat /\ o.failed <= o.measured
    BY <1>2 DEF PagesCounted
  <2>2. k \in {0, 60, 120}
    BY <1>1
  <2> HIDE DEF k
  <2>3. a \in Nat /\ a <= k * o.measured
    BY <2>1, <2>2
  <2> HIDE DEF a
  <2>4. k \in Nat
    BY <2>2
  <2>5. a \div o.measured \in 0..k
    BY <2>1, <2>3, <2>4, DivisionBound
  <2>6. value(s, o) = UNIT - a \div o.measured
    BY <1>2 DEF value, v, a, k
  <2>7. QED
    BY <1>1, <2>2, <2>5, <2>6
<1>3. CASE s.scope # "page"
  BY <1>1, <1>3 DEF value, v
<1>4. QED
  BY <1>2, <1>3

(* A measured page rule counted the pages it measured.                       *)
LEMMA PageCounts ==
  ASSUME NEW code, NEW ctx, NEW pages, IsFiniteSet(DOMAIN pages), NEW dom,
         LET o == outcome_from_row(code, page_outcome(code, ctx, pages, page_verdicts(code, dom, ctx, pages)))
         IN o.state \in MEASURED_STATES
  PROVE  PagesCounted(outcome_from_row(code,
                        page_outcome(code, ctx, pages, page_verdicts(code, dom, ctx, pages))))
<1> DEFINE verdict == page_verdicts(code, dom, ctx, pages)
           inner == page_outcome(code, ctx, pages, verdict)
           clean == DOMAIN verdict
           measured == {i \in clean : verdict[i].measure = Measured}
           failed == {i \in measured : verdict[i].fires}
<1>1. clean \subseteq DOMAIN pages
  BY DEF page_verdicts
<1> HIDE DEF verdict
<1>2. measured \subseteq DOMAIN pages /\ failed \subseteq measured
  BY <1>1
<1>3. IsFiniteSet(measured)
  BY <1>2, FS_Subset
<1>4. /\ Cardinality(measured) \in Nat /\ Cardinality(failed) \in Nat
      /\ Cardinality(failed) <= Cardinality(measured)
  BY <1>2, <1>3, FS_Subset, FS_CardinalityType
<1>5. measured # {} => Cardinality(measured) > 0
  BY <1>3, <1>4, FS_EmptySet
<1>6. outcome_from_row(code, inner) = inner /\ inner.state \in MEASURED_STATES
  BY DEF outcome_from_row, Outcome, MEASURED_STATES, PASS, WARN, FAIL, NA, verdict
<1> DEFINE inBand == \A i \in clean : verdict[i].fires => verdict[i].severity = "low"
           state == IF failed = {} THEN PASS
                    ELSE IF code \in LOW_BAND_WARN_CODES /\ inBand THEN WARN ELSE FAIL
           why == IF clean # DOMAIN pages THEN "bot_protection_blocked"
                  ELSE IF pages = <<>> THEN "no_pages_evaluated" ELSE "predicate"
<1>7. inner = IF GateReason(code, ctx.capabilities) # {} THEN Outcome(NA, "capability")
              ELSE IF measured # {}
                THEN [state |-> state, reason |-> "", measured |-> Cardinality(measured),
                      failed |-> Cardinality(failed)]
              ELSE IF clean # {} /\ \A i \in clean : verdict[i].measure = NA
                THEN Outcome(NA, "predicate")
              ELSE Outcome(NOT_MEASURED, why)
  BY Zenon DEF page_outcome
<1> HIDE DEF inner, clean, measured, failed, state, why
<1>8. measured # {} /\ inner.measured = Cardinality(measured) /\ inner.failed = Cardinality(failed)
  <2>1. Outcome(NA, "capability").state \notin MEASURED_STATES
        /\ Outcome(NA, "predicate").state \notin MEASURED_STATES
        /\ Outcome(NOT_MEASURED, why).state \notin MEASURED_STATES
    BY DEF Outcome, MEASURED_STATES, PASS, WARN, FAIL, NA, NOT_MEASURED
  <2>2. GateReason(code, ctx.capabilities) = {} /\ measured # {}
    BY <1>6, <1>7, <2>1
  <2>3. inner = [state |-> state, reason |-> "", measured |-> Cardinality(measured),
                 failed |-> Cardinality(failed)]
    BY <1>7, <2>2
  <2>4. QED
    BY <2>2, <2>3
<1>9. PagesCounted(inner)
  BY <1>4, <1>5, <1>8 DEF PagesCounted
<1>10. QED
  BY <1>6, <1>9 DEF inner, verdict

(* So did every measured page rule of a scan of finitely many pages.         *)
LEMMA OutcomesCountable ==
  ASSUME NEW dom, NEW ctx, NEW pages, IsFiniteSet(DOMAIN pages)
  PROVE  Countable(technical_outcomes(rule_rows(dom, ctx, pages)))
<1> DEFINE rows == rule_rows(dom, ctx, pages)
           outcomes == technical_outcomes(rows)
<1>1. /\ DOMAIN rows = DOMAIN ScopeOf
      /\ \A c \in DOMAIN ScopeOf : rows[c] = RuleOutcome(ScopeOf[c], dom, ctx, pages)
  BY DEF rule_rows
<1> HIDE DEF rows
<1>2. \A c \in DOMAIN rows : c # GATE_ROBOTS => outcomes[c] = rows[c]
  BY DEF technical_outcomes
<1> HIDE DEF outcomes
<1>3. ASSUME NEW s \in Counted(Manifest), s.scope = "page", outcomes[s.code].state \in MEASURED_STATES
      PROVE  PagesCounted(outcomes[s.code])
  <2>1. PICK r \in RULES : s.code = r.code /\ s.scope = r.scope
    BY <1>3, CountedRows DEF Row, GATE_ROBOTS_SPEC
  <2>2. r.code # GATE_ROBOTS
    BY DomainRulesOf, PageRulesOf, DisjointCodes DEF RULES, RuleOf
  <2>3. /\ r.code \in DOMAIN ScopeOf /\ ScopeOf[r.code].code = r.code
        /\ ScopeOf[r.code].scope = "page"
    BY <1>3, <2>1, ScopeOfCode
  <2>4. outcomes[r.code] = RuleOutcome(ScopeOf[r.code], dom, ctx, pages)
    BY <1>1, <1>2, <2>2, <2>3
  <2> DEFINE o == outcome_from_row(r.code,
                    page_outcome(r.code, ctx, pages, page_verdicts(r.code, dom, ctx, pages)))
  <2>5. outcomes[r.code] = o
    BY <2>3, <2>4 DEF RuleOutcome
  <2>6. o.state \in MEASURED_STATES
    BY <1>3, <2>1, <2>5
  <2>7. PagesCounted(o)
    BY <2>6, PageCounts
  <2>8. QED
    BY <2>1, <2>5, <2>7
<1>4. QED
  BY <1>3 DEF Countable, outcomes, rows

(* A row of measured rules is worth something between nothing and a whole.   *)
Worth(row) ==
  /\ DOMAIN row = Counted(Manifest)
  /\ \A t \in Counted(Manifest) : row[t].state \in MEASURED_STATES => value(t, row[t]) \in 0..UNIT

(* The rows of a scan are.                                                   *)
LEMMA RowsWorth ==
  ASSUME NEW outcomes, Rateable(outcomes), Countable(outcomes), NEW profile
  PROVE  Worth(RowsOf(outcomes, profile))
<1> DEFINE row == RowsOf(outcomes, profile)
<1>1. DOMAIN row = Counted(Manifest)
  BY DEF RowsOf
<1>2. ASSUME NEW t \in Counted(Manifest), row[t].state \in MEASURED_STATES
      PROVE  value(t, row[t]) \in 0..UNIT
  <2>1. row[t].state # NA
    BY <1>2 DEF MEASURED_STATES, PASS, WARN, FAIL, NA
  <2>2. row[t] = outcomes[t.code]
    BY <2>1, RowStates
  <2>3. t.scope = "page" => PagesCounted(row[t])
    BY <1>2, <2>2 DEF Countable
  <2>4. QED
    BY <1>2, <2>3, ValueRange
<1>3. QED
  BY <1>1, <1>2 DEF Worth

(* The worst value of a cluster is one of its values.                        *)
LEMMA MergedRange ==
  ASSUME NEW row, Worth(row), NEW key, NEW s \in Counted(Manifest), row[s].state \in MEASURED_STATES
  PROVE  merged_value(s, row, key) \in 0..UNIT
<1> DEFINE cluster == Cluster(s, row, key)
           values == {value(t, row[t]) : t \in cluster}
<1>1. s \in cluster /\ \A t \in cluster : t \in Counted(Manifest) /\ row[t].state \in MEASURED_STATES
  BY DEF Worth, Cluster, SameCause
<1> HIDE DEF cluster
<1>2. values \subseteq 0..UNIT /\ values # {}
  BY <1>1 DEF Worth
<1> HIDE DEF values
<1>3. values \in SUBSET Nat
  BY <1>2 DEF UNIT
<1>4. \E x \in values : \A y \in values : x <= y
  BY <1>2, <1>3, LeastExists
<1>5. Min(values) \in values
  BY <1>4 DEF Min
<1>6. QED
  BY <1>2, <1>5 DEF merged_value, values, cluster

(* The score of a category, its gains in sight.                              *)
LEMMA CategoryScoreIs ==
  \A rows, row, key :
    category_score(rows, row, key) =
      (10000 * (SumFunction([s \in rows |-> weight(s) * merged_value(s, row, key)])
                + UNIT * category_prior_weight))
        \div (UNIT * (Weights(rows) + category_prior_weight))
  BY SMTT(60) DEF category_score

(* The score of a category is between 0 and 100.00.                          *)
LEMMA CategoryRange ==
  ASSUME NEW row, Worth(row), NEW key, NEW rows \in SUBSET Counted(Manifest),
         \A s \in rows : row[s].state \in MEASURED_STATES
  PROVE  category_score(rows, row, key) \in 0..10000
<1> DEFINE gain == [s \in rows |-> weight(s) * merged_value(s, row, key)]
           G == SumFunctionOnSet(gain, rows)
           W == Weights(rows)
           a == 10000 * (G + 120 * 14)
           d == 120 * (W + 14)
<1>1. \A s \in rows : WeightOf[s] = weight(s) /\ weight(s) \in {2, 6, 14, 25, 40}
  BY RowReads DEF WeightOf
<1>2. \A s \in rows : merged_value(s, row, key) \in 0..120
  BY MergedRange DEF UNIT
<1>3. \A s \in rows : gain[s] = weight(s) * merged_value(s, row, key)
  OBVIOUS
<1>4. DOMAIN gain = rows
  OBVIOUS
<1>5. category_score(rows, row, key) = a \div d
  <2>1. SumFunction(gain) = G
    BY <1>4, Zenon DEF SumFunction
  <2>2. category_score(rows, row, key) =
          (10000 * (SumFunction(gain) + UNIT * category_prior_weight)) \div (UNIT * (W + category_prior_weight))
    BY CategoryScoreIs
  <2>3. QED
    BY <2>1, <2>2 DEF UNIT, category_prior_weight
<1> HIDE DEF gain
<1>6. \A s \in rows : gain[s] \in Nat /\ gain[s] <= 120 * WeightOf[s]
  <2> SUFFICES ASSUME NEW s \in rows PROVE gain[s] \in Nat /\ gain[s] <= 120 * WeightOf[s]
    OBVIOUS
  <2> DEFINE m == merged_value(s, row, key)
             w == weight(s)
  <2>1. m \in 0..120 /\ w \in {2, 6, 14, 25, 40} /\ gain[s] = w * m /\ WeightOf[s] = w
    BY <1>1, <1>2, <1>3
  <2> HIDE DEF m, w
  <2>2. QED
    BY <2>1
<1>7. IsFiniteSet(rows)
  BY CountedRows, FS_Subset
<1>8. Numbers(gain, rows)
  BY <1>6, <1>7 DEF Numbers
<1>9. Numbers(WeightOf, rows) /\ W = SumFunctionOnSet(WeightOf, rows) /\ W \in Nat
  BY WeightsAdd
<1>10. G <= 120 * SumFunctionOnSet(WeightOf, rows)
  BY <1>6, <1>8, <1>9, SumBounded
<1>11. G \in Nat
  <2>1. \A s \in rows : gain[s] >= 0
    BY <1>6
  <2>2. QED
    BY <1>8, <2>1, SumNat
<1> HIDE DEF G, W
<1>12. G <= 120 * W
  BY <1>9, <1>10
<1>13. a \in Nat /\ d \in Nat /\ d > 0 /\ a <= 10000 * d
  BY <1>9, <1>11, <1>12
<1> HIDE DEF a, d
<1>14. a \div d \in 0..10000
  BY <1>13, DivisionBound, SMTT(60)
<1>15. QED
  BY <1>5, <1>14

(* Scores of categories are in hundredths of a point, a rating is in points. *)
Scored(categories) == \A c \in DOMAIN categories : categories[c] \in 0..10000
Percentages(row, key, profile) ==
  RatingOf(row, key, profile) \in 0..100 /\ Scored(ScoreOf(row, key, profile))

(* The rating is between 0 and 100.                                          *)
LEMMA RatingRange ==
  ASSUME NEW row, Worth(row), NEW key, NEW profile, RatedOf(row, key, profile) # {}
  PROVE  Percentages(row, key, profile)
<1> DEFINE rated == RatedOf(row, key, profile)
           score == ScoreOf(row, key, profile)
           share == [c \in rated |-> category_weights[c] * score[c]]
           S == SumFunctionOnSet(share, rated)
           W == SumFunctionOnSet(category_weights, rated)
<1>1. ASSUME NEW c \in rated PROVE score[c] \in 0..10000
  <2>1. score[c] = category_score(ScoredOf(row, key, c), row, key)
    BY DEF ScoreOf
  <2>2. /\ ScoredOf(row, key, c) \subseteq Counted(Manifest)
        /\ \A s \in ScoredOf(row, key, c) : row[s].state \in MEASURED_STATES
    BY DEF ScoredOf, MeasuredOf, ApplicableOf, Elements, Worth
  <2>3. QED
    BY <2>1, <2>2, CategoryRange
<1>2. \A c \in rated : category_weights[c] \in 8..18
  BY DEF RatedOf, CATEGORIES, category_weights
<1>3. IsFiniteSet(rated)
  <2>1. {"discoverability", "structured", "consistency", "actionability", "trust", "ucp",
         "citability", "citability"} = CATEGORIES
    BY DEF CATEGORIES
  <2>2. IsFiniteSet(CATEGORIES)
    BY <2>1, Few
  <2>3. rated \subseteq CATEGORIES
    BY DEF RatedOf
  <2>4. QED
    BY <2>2, <2>3, FS_Subset
<1>4. RatingOf(row, key, profile) = (S \div W + 50) \div 100
  <2>1. DOMAIN share = rated
    OBVIOUS
  <2>2. SumFunction(share) = S
    BY <2>1, Zenon DEF SumFunction
  <2>3. QED
    BY <2>2, Zenon DEF RatingOf
<1>5. \A c \in rated : share[c] = category_weights[c] * score[c]
  OBVIOUS
<1> HIDE DEF share, rated, score
<1>6. \A c \in rated : share[c] \in Nat /\ share[c] <= 10000 * category_weights[c]
  <2> SUFFICES ASSUME NEW c \in rated PROVE share[c] \in Nat /\ share[c] <= 10000 * category_weights[c]
    BY SMTT(60)
  <2> DEFINE w == category_weights[c]
             v == score[c]
  <2>1. w \in 8..18 /\ v \in 0..10000 /\ share[c] = w * v
    BY <1>1, <1>2, <1>5
  <2> HIDE DEF w, v
  <2>2. w * v \in Nat /\ w * v <= 10000 * w
    BY <2>1
  <2>3. QED
    BY <2>1, <2>2, SMTT(60) DEF w
<1>7. Numbers(share, rated) /\ Numbers(category_weights, rated)
  BY <1>2, <1>3, <1>6 DEF Numbers
<1>8. S <= 10000 * W
  BY <1>6, <1>7, SumBounded
<1>9. S \in Nat /\ W \in Nat /\ W > 0
  <2>1. \A c \in rated : share[c] >= 0 /\ category_weights[c] >= 8
    BY <1>2, <1>6
  <2>2. S \in Nat
    BY <1>7, <2>1, SumNat
  <2>6. \A c \in rated : category_weights[c] >= 0
    BY <1>2
  <2>7. W \in Nat /\ \A c \in rated : W >= category_weights[c]
    BY <1>7, <2>6, SumNat
  <2>3. PICK c \in rated : TRUE
    BY DEF rated
  <2>4. category_weights[c] \in Int
    BY <1>2
  <2>5. QED
    BY <2>1, <2>2, <2>3, <2>4, <2>7
<1> HIDE DEF S, W
<1> DEFINE q == S \div W
<1>10. q \in 0..10000
  BY <1>8, <1>9, DivisionBound
<1> HIDE DEF q
<1>11. (q + 50) \div 100 \in 0..100
  <2>1. q + 50 \in Nat /\ q + 50 <= 100 * 101
    BY <1>10
  <2>2. (q + 50) \div 100 <= 100 /\ (q + 50) \div 100 >= 0
    BY <1>10, SMTT(60)
  <2>3. QED
    BY <1>10, <2>2
<1>12. RatingOf(row, key, profile) \in 0..100
  BY <1>4, <1>11 DEF q
<1>13. Scored(ScoreOf(row, key, profile))
  BY <1>1 DEF Scored, ScoreOf, rated, score
<1>14. QED
  BY <1>12, <1>13 DEF Percentages

(* The status is backed by the covered weight, the number by the status.     *)
Earned(r) ==
  /\ IF r.status = "INSUFFICIENT_EVIDENCE" THEN r.rating = -1
     ELSE /\ r.status \in {"DEGRADED", "OK"} /\ r.rating \in 0..100 /\ r.applicable_w > 0
          /\ 100 * r.measured_w >= evidence_min_coverage * r.applicable_w
          /\ r.status = "OK" => 100 * r.measured_w >= canonical_min_coverage * r.applicable_w
  /\ r.measured_w \in Nat /\ r.applicable_w \in Nat /\ r.measured_w <= r.applicable_w
  /\ Scored(r.categories)

(* The report of a site with finitely many pages is earned.                  *)
LEMMA ReportEarned ==
  ASSUME NEW s, WellFormed(s)
  PROVE  Earned(Report(s))
<1> DEFINE pages == KeptPages(s.store.pages, s.tokenizer)
<1>0. PICK r, key, profile : r = Report(s) /\ key = s.host.evidence_key /\ profile = s.type
  OBVIOUS
<1>1. IsFiniteSet(DOMAIN pages)
  <2>1. DOMAIN pages \subseteq DOMAIN s.store.pages
    BY DEF KeptPages
  <2>2. QED
    BY <2>1, FS_Subset DEF WellFormed
<1> HIDE DEF pages
<1>2. PICK outcomes :
        /\ Rateable(outcomes) /\ Countable(outcomes)
        /\ LET res == score_r2(outcomes, key, profile, Manifest)
           IN /\ r.status = res.status /\ r.rating = res.rating
              /\ r.measured_w = res.measured_w /\ r.applicable_w = res.applicable_w
              /\ r.categories = res.categories
  BY <1>0, <1>1, ReportParts, OutcomesRateable, OutcomesCountable DEF pages
<1>19. PICK row : row = RowsOf(outcomes, profile)
  OBVIOUS
<1> DEFINE res == score_r2(outcomes, key, profile, Manifest)
           measured == MeasuredOf(row, key)
           applicable == ApplicableOf(row, key)
<1>3. Worth(row)
  BY <1>2, <1>19, RowsWorth
<1>4. /\ r.status = res.status /\ r.rating = res.rating
      /\ r.measured_w = res.measured_w /\ r.applicable_w = res.applicable_w
      /\ r.categories = res.categories
  BY <1>2
<1> HIDE DEF res
<1>5. /\ res.measured_w = Weights(measured) /\ res.applicable_w = Weights(applicable)
      /\ res.categories = ScoreOf(row, key, profile)
      /\ IF Insufficient(row, key, profile)
           THEN res.status = "INSUFFICIENT_EVIDENCE" /\ res.rating = -1
           ELSE /\ res.status \in {"DEGRADED", "OK"} /\ res.rating = RatingOf(row, key, profile)
                /\ res.status = "OK" => CoveredOf(row, key, canonical_min_coverage)
  BY <1>19, ScoreParts DEF res
<1> HIDE DEF measured, applicable
<1>6. r.measured_w = Weights(measured) /\ r.applicable_w = Weights(applicable)
  BY <1>4, <1>5
<1>7. r.categories = ScoreOf(row, key, profile)
  BY <1>4, <1>5
<1>8. Insufficient(row, key, profile) => r.status = "INSUFFICIENT_EVIDENCE" /\ r.rating = -1
  BY <1>4, <1>5
<1>9. ~Insufficient(row, key, profile) => r.status \in {"DEGRADED", "OK"}
  BY <1>4, <1>5
<1>10. ~Insufficient(row, key, profile) => r.rating = RatingOf(row, key, profile)
  BY <1>4, <1>5
<1>11. ~Insufficient(row, key, profile) /\ r.status = "OK" => CoveredOf(row, key, canonical_min_coverage)
  BY <1>4, <1>5
<1>12. measured \subseteq applicable /\ applicable \subseteq Counted(Manifest)
  BY <1>3 DEF MeasuredOf, ApplicableOf, Elements, Worth, measured, applicable
<1>13. /\ Weights(measured) \in Nat /\ Weights(applicable) \in Nat
       /\ Weights(measured) <= Weights(applicable)
  <2>1. measured \subseteq Counted(Manifest) /\ applicable \ measured \subseteq Counted(Manifest)
        /\ measured \cup (applicable \ measured) = applicable /\ measured \cap (applicable \ measured) = {}
    BY <1>12
  <2>2. SumFunctionOnSet(WeightOf, applicable) =
          SumFunctionOnSet(WeightOf, measured) + SumFunctionOnSet(WeightOf, applicable \ measured)
    BY <1>12, <2>1, WeightsAdd, SumUnion
  <2>3. /\ Weights(measured) \in Nat /\ Weights(applicable) \in Nat
        /\ Weights(applicable \ measured) \in Nat
        /\ Weights(applicable) = Weights(measured) + Weights(applicable \ measured)
    BY <1>12, <2>1, <2>2, WeightsAdd
  <2>4. QED
    BY <2>3
<1>14. /\ r.measured_w \in Nat /\ r.applicable_w \in Nat /\ r.measured_w <= r.applicable_w
  BY <1>6, <1>13
<1>15. Scored(r.categories)
  <2>1. RatedOf(row, key, profile) # {} => Percentages(row, key, profile)
    BY <1>3, RatingRange
  <2>2. RatedOf(row, key, profile) = {} => Scored(ScoreOf(row, key, profile))
    BY Zenon DEF Scored, ScoreOf
  <2>3. QED
    BY <1>7, <2>1, <2>2 DEF Percentages
<1>16. CASE Insufficient(row, key, profile)
  <2>1. Earned(r)
    BY <1>8, <1>14, <1>15, <1>16 DEF Earned
  <2>2. QED
    BY <1>0, <2>1
<1>17. CASE ~Insufficient(row, key, profile)
  <2>1. /\ Weights(applicable) # 0 /\ CoveredOf(row, key, evidence_min_coverage)
        /\ RatedOf(row, key, profile) # {}
    BY <1>17 DEF Insufficient, applicable
  <2>2. Percentages(row, key, profile)
    BY <1>3, <2>1, RatingRange
  <2>3. r.rating \in 0..100
    BY <1>10, <1>17, <2>2 DEF Percentages
  <2>4. \A percent : CoveredOf(row, key, percent) => 100 * r.measured_w >= percent * r.applicable_w
    BY <1>6 DEF CoveredOf, measured, applicable
  <2>5. r.applicable_w > 0
    BY <1>6, <1>13, <2>1
  <2>6. Earned(r)
    BY <1>9, <1>11, <1>14, <1>15, <1>17, <2>1, <2>3, <2>4, <2>5 DEF Earned
  <2>7. QED
    BY <1>0, <2>6
<1>18. QED
  BY <1>16, <1>17

-----------------------------------------------------------------------------
(* The evidence behind a decision.                                           *)

(* An edit of a site leaves a site: an outcome of the scan and finitely many *)
(* pages.                                                                    *)
EditsKeepSites == \A s : WellFormed(s) => \A t \in Edits(s) : WellFormed(t)

(* A run of the command line judges the report, and contributes only what    *)
(* may be contributed.                                                       *)
CliJudges ==
  cli.phase # "idle" =>
    \/ Refused(cli.o) /\ cli.phase = "exited" /\ cli.sent = "nothing" /\ cli.written = FALSE
    \/ /\ ~Refused(cli.o)
       /\ cli.technical.status = report.status /\ cli.technical.rating = report.rating
       /\ cli.sent # "nothing" \/ cli.phase = "contributing" => Contributes(cli.o, cli.technical)

(* A job whose scan did not reach the site has ended.                        *)
JobStops ==
  job.phase # "idle" /\ site.entry # "ok" =>
    job.phase = "ended" /\ job.exit # OK /\ job.outputs = FALSE

EvidenceInv == CliInv /\ WellFormed(site) /\ Earned(report) /\ CliJudges /\ JobStops

SameShape(s, t) ==
  /\ DOMAIN t = DOMAIN s /\ t.entry = s.entry
  /\ DOMAIN t.store = DOMAIN s.store /\ DOMAIN t.store.pages = DOMAIN s.store.pages

(* What is lost between two scans leaves a site.                             *)
LEMMA LossesKeepSites ==
  ASSUME WellFormed(site), NEW t \in Losses \cup UnparsedPages \cup Refusals
  PROVE  WellFormed(t)
<1>1. /\ "store" \in DOMAIN site /\ "entry" \in DOMAIN site /\ site.entry \in Entries
      /\ "pages" \in DOMAIN site.store /\ IsFiniteSet(DOMAIN site.store.pages)
  BY DEF WellFormed
<1>0. SameShape(site, t) => WellFormed(t)
  BY <1>1 DEF WellFormed, SameShape
<1>2. ASSUME NEW g, g # "pages", NEW doc, t = [site EXCEPT !.store[g] = doc]
      PROVE  SameShape(site, t)
  <2>1. t.store = [site.store EXCEPT ![g] = doc]
    BY <1>1, <1>2
  <2>2. QED
    BY <1>1, <1>2, <2>1 DEF SameShape
<1>3. ASSUME NEW i \in DOMAIN site.store.pages, NEW page, t = [site EXCEPT !.store.pages[i] = page]
      PROVE  SameShape(site, t)
  <2>1. t.store = [site.store EXCEPT !.pages[i] = page]
    BY <1>1, <1>3
  <2>2. t.store.pages = [site.store.pages EXCEPT ![i] = page]
    BY <1>1, <2>1
  <2>3. QED
    BY <1>1, <1>3, <2>1, <2>2 DEF SameShape
<1>4. ASSUME NEW g, NEW how, g # "pages", t = LostDocument(g, how) PROVE SameShape(site, t)
  <2>1. t = [site EXCEPT !.store[g] = Lost(g, site.store[g], how)]
    BY <1>4 DEF LostDocument
  <2>2. QED
    BY <1>2, <1>4, <2>1
<1>5. CASE t \in Refusals
  BY <1>0, <1>4, <1>5 DEF Refusals
<1>6. CASE t \in UnparsedPages
  <2>1. PICK i \in DOMAIN site.store.pages : t = [site EXCEPT !.store.pages[i].parsed = FALSE]
    BY <1>6 DEF UnparsedPages
  <2>2. t = [site EXCEPT !.store.pages[i] = [site.store.pages[i] EXCEPT !.parsed = FALSE]]
    BY <2>1
  <2>3. QED
    BY <1>0, <1>3, <2>2
<1>7. CASE t \in Losses
  <2>1. CASE \E g \in Documents, how \in {Raised, NoAnswer, 503} : t = LostDocument(g, how)
    BY <1>0, <1>4, <2>1 DEF Documents
  <2>2. CASE \E i \in DOMAIN site.store.pages : t = [site EXCEPT !.store.pages[i] = Challenge(@)]
    BY <1>0, <1>3, <2>2
  <2>3. CASE t = [site EXCEPT !.store.robots_txt.truncated = TRUE]
    <3>1. t = [site EXCEPT !.store["robots_txt"] = [site.store.robots_txt EXCEPT !.truncated = TRUE]]
      BY <2>3
    <3>2. QED
      BY <1>0, <1>2, <3>1
  <2>4. CASE t = [site EXCEPT !.tokenizer = FALSE]
    BY <1>0, <1>1, <2>4 DEF SameShape
  <2>5. QED
    BY <1>7, <2>1, <2>2, <2>3, <2>4 DEF Losses
<1>8. QED
  BY <1>5, <1>6, <1>7

LEMMA EvidenceNext ==
  ASSUME EditsKeepSites, EvidenceInv, [Next]_vars
  PROVE  EvidenceInv'
<1> USE DEF EvidenceInv
<1>1. CliInv'
  BY CliNext
<1>2. WellFormed(site)'
  <2>1. \A t \in Edits(site) \cup Losses \cup UnparsedPages \cup Refusals : WellFormed(t)
    BY LossesKeepSites DEF EditsKeepSites
  <2>2. CASE Edit \/ Lose \/ LosePage \/ Refuse
    <3>1. site' \in Edits(site) \cup Losses \cup UnparsedPages \cup Refusals
      BY <2>2 DEF Edit, Lose, LosePage, Refuse, Between
    <3>2. QED
      BY <2>1, <3>1 DEF WellFormed
  <2>3. CASE UNCHANGED site
    BY <2>3 DEF WellFormed
  <2>4. QED
    BY <2>2, <2>3 DEF Next, vars, Scan, Invoke, WriteReport, Contribute, JobScan, JobOutputs, JobGate
<1>3. Earned(report)'
  <2>1. CASE Scan
    <3>1. report' = Report(site)
      BY <2>1 DEF Scan
    <3>2. Earned(Report(site))
      BY ReportEarned
    <3>3. QED
      BY <3>1, <3>2
  <2>2. CASE UNCHANGED report
    BY <2>2
  <2>3. QED
    BY <2>1, <2>2 DEF Next, vars, Edit, Lose, LosePage, Refuse, Between, Invoke, WriteReport,
                      Contribute, JobScan, JobOutputs, JobGate
<1>4. CASE Edit \/ Lose \/ LosePage \/ Refuse \/ Scan
  <2>1. UNCHANGED <<cli, job>> /\ cli.phase = "idle"
    BY <1>4 DEF Edit, Lose, LosePage, Refuse, Between, Scan, CliInv, CliTyped, SiteFrozen
  <2>2. job.phase = "idle"
    BY <2>1 DEF CliInv, JobFollows
  <2>3. QED
    BY <1>1, <1>2, <1>3, <2>1, <2>2 DEF CliJudges, JobStops
<1>5. CASE UNCHANGED <<site, report, cli>> /\ (JobScan \/ JobOutputs \/ JobGate)
  <2>1. CliJudges'
    <3>1. Contributes(cli.o, cli.technical)' <=> Contributes(cli.o, cli.technical)
      BY <1>5 DEF Contributes
    <3>2. Refused(cli.o)' <=> Refused(cli.o)
      BY <1>5 DEF Refused
    <3>3. QED
      BY <1>5, <3>1, <3>2 DEF CliJudges
  <2>2. JobStops'
    <3>1. CASE JobOutputs \/ JobGate
      <4>1. site.entry \notin Unreached
        BY <3>1 DEF JobOutputs, JobGate, CliInv, JobFollows
      <4>2. site.entry = "ok"
        BY <4>1 DEF WellFormed, Entries, Unreached
      <4>3. QED
        BY <1>5, <4>2 DEF JobStops
    <3>2. CASE JobScan
      <4> DEFINE code(c) == IF JobRefused(c) THEN INVALID_INPUT
                            ELSE exit_code(Ungated(cli.o), cli.technical, cli.found)
      <4>1. PICK c \in JobContexts :
              job' = [phase |-> IF code(c) >= 2 THEN "ended" ELSE "outputs", context |-> c,
                      exit |-> code(c), outputs |-> FALSE]
        BY <3>2 DEF JobScan
      <4>2. cli.o \in CommandLines
        BY <3>2 DEF JobScan, CliInv, ExitIsDecision
      <4>3. site.entry # "ok" => code(c) >= 2
        <5>1. site.entry # "ok" => site.entry \in Unreached
          BY DEF WellFormed, Entries, Unreached
        <5>2. site.entry \in Unreached => exit_code(Ungated(cli.o), cli.technical, cli.found) >= 2
          BY <4>2, UngatedExit
        <5>3. INVALID_INPUT >= 2
          BY DEF INVALID_INPUT
        <5>4. QED
          BY <5>1, <5>2, <5>3
      <4> HIDE DEF code
      <4>4. site.entry # "ok" => job'.phase = "ended" /\ job'.exit # OK /\ job'.outputs = FALSE
        BY <4>1, <4>3 DEF OK
      <4>5. QED
        BY <1>5, <4>4 DEF JobStops
    <3>3. QED
      BY <1>5, <3>1, <3>2
  <2>3. QED
    BY <1>1, <1>2, <1>3, <2>1, <2>2
<1>6. ASSUME UNCHANGED <<site, report, job>>, job.phase = "idle", CliJudges' PROVE EvidenceInv'
  BY <1>1, <1>2, <1>3, <1>6 DEF JobStops
<1>7. CASE Invoke
  <2>1. UNCHANGED <<site, report, job>> /\ job.phase = "idle"
    BY <1>7 DEF Invoke, CliInv, JobFollows
  <2>2. PICK o \in CliOptions, found \in Diagnostics, computed \in BOOLEAN :
          LET technical == [computed |-> computed, status |-> report.status, rating |-> report.rating]
          IN cli' = IF Refused(o)
                      THEN [phase |-> "exited", o |-> o, exit |-> INVALID_INPUT, written |-> FALSE,
                            sent |-> "nothing"]
                      ELSE [phase |-> "decided", o |-> o, technical |-> technical, found |-> found,
                            exit |-> exit_code(o, technical, found), written |-> FALSE,
                            sent |-> "nothing"]
    BY <1>7 DEF Invoke
  <2> DEFINE technical == [computed |-> computed, status |-> report.status, rating |-> report.rating]
             code == exit_code(o, technical, found)
  <2>3. CASE Refused(o)
    <3>1. cli' = [phase |-> "exited", o |-> o, exit |-> INVALID_INPUT, written |-> FALSE,
                  sent |-> "nothing"]
      BY <2>2, <2>3
    <3>2. Refused(cli'.o)
      BY <2>3, <3>1
    <3>3. CliJudges'
      BY <3>1, <3>2 DEF CliJudges, Refused
    <3>4. QED
      BY <1>6, <2>1, <3>3
  <2>4. CASE ~Refused(o)
    <3>1. cli' = [phase |-> "decided", o |-> o, technical |-> technical, found |-> found,
                  exit |-> code, written |-> FALSE, sent |-> "nothing"]
      BY <2>2, <2>4
    <3> HIDE DEF code
    <3>2. /\ cli'.phase = "decided" /\ cli'.sent = "nothing" /\ cli'.o = o
          /\ cli'.technical.status = report.status /\ cli'.technical.rating = report.rating
      BY <3>1
    <3>3. ~Refused(cli'.o)
      BY <2>4, <3>2
    <3>4. CliJudges'
      BY <2>1, <3>2, <3>3 DEF CliJudges, Refused
    <3>5. QED
      BY <1>6, <2>1, <3>4
  <2>5. QED
    BY <2>3, <2>4
<1>8. CASE WriteReport \/ Contribute
  <2>1. /\ cli.phase \in {"decided", "contributing"} /\ UNCHANGED <<site, report, job>>
        /\ job.phase = "idle"
    BY <1>8 DEF WriteReport, Contribute, CliInv, JobFollows
  <2>2. /\ ~Refused(cli.o)
        /\ cli.technical.status = report.status /\ cli.technical.rating = report.rating
        /\ cli.sent # "nothing" \/ cli.phase = "contributing" => Contributes(cli.o, cli.technical)
    BY <2>1 DEF CliJudges
  <2>3. {"phase", "exit", "written", "sent"} \subseteq DOMAIN cli
    BY <2>1 DEF CliInv, CliTyped
  <2>4. /\ cli'.o = cli.o /\ cli'.technical = cli.technical
        /\ cli'.sent # "nothing" \/ cli'.phase = "contributing" => Contributes(cli.o, cli.technical)
        /\ cli'.phase # "idle"
    <3>1. CASE WriteReport
      <4>1. PICK phase \in {"contributing", "exited"} :
              \/ /\ cli' = [cli EXCEPT !.written = TRUE, !.phase = phase]
                 /\ phase = "contributing" => Contributes(cli.o, cli.technical)
              \/ /\ cli' = [cli EXCEPT !.exit = INTERNAL, !.phase = "exited"]
        BY <3>1 DEF WriteReport
      <4>2. CASE /\ cli' = [cli EXCEPT !.written = TRUE, !.phase = phase]
                 /\ phase = "contributing" => Contributes(cli.o, cli.technical)
        BY <2>2, <2>3, <4>1, <4>2
      <4>3. CASE cli' = [cli EXCEPT !.exit = INTERNAL, !.phase = "exited"]
        BY <2>2, <2>3, <4>3
      <4>4. QED
        BY <4>1, <4>2, <4>3
    <3>2. CASE Contribute
      <4>1. cli.phase = "contributing"
        BY <3>2 DEF Contribute
      <4>2. PICK reply \in Replies :
              cli' = [cli EXCEPT !.sent = reply, !.exit = ExitAfter(reply, @), !.phase = "exited"]
        BY <3>2 DEF Contribute
      <4>3. QED
        BY <2>2, <2>3, <4>1, <4>2
    <3>3. QED
      BY <1>8, <3>1, <3>2
  <2>5. Refused(cli.o)' <=> Refused(cli.o)
    BY <2>4 DEF Refused
  <2>6. Contributes(cli.o, cli.technical)' <=> Contributes(cli.o, cli.technical)
    BY <2>1, <2>4 DEF Contributes, scan_scope
  <2>7. CliJudges'
    BY <2>1, <2>2, <2>4, <2>5, <2>6 DEF CliJudges
  <2>8. QED
    BY <1>6, <2>1, <2>7
<1>9. CASE UNCHANGED vars
  <2>1. CliJudges' /\ JobStops'
    BY <1>9 DEF vars, CliJudges, JobStops, Refused, Contributes, scan_scope
  <2>2. QED
    BY <1>1, <1>2, <1>3, <2>1
<1>10. QED
  BY <1>4, <1>5, <1>7, <1>8, <1>9 DEF Next, JobScan, JobOutputs, JobGate

(* What every state satisfies, when edits leave sites.                       *)
THEOREM EvidenceInvariance ==
  ASSUME EditsKeepSites
  PROVE  Spec => []EvidenceInv
<1>1. Init => EvidenceInv
  <2> SUFFICES ASSUME Init PROVE EvidenceInv
    OBVIOUS
  <2>1. WellFormed(site)
    BY SitesAssumption DEF Init
  <2>2. Earned(report)
    BY <2>1, ReportEarned DEF Init
  <2>3. CliInv /\ CliJudges /\ JobStops
    BY CliInit DEF Init, NotInvoked, CliJudges, JobStops
  <2>4. QED
    BY <2>1, <2>2, <2>3 DEF EvidenceInv
<1>2. EvidenceInv /\ [Next]_vars => EvidenceInv'
  BY EvidenceNext
<1>3. QED
  BY <1>1, <1>2, PTL DEF Spec

(* Coverage below 0.60 gives no rating and coverage below 0.85 never OK, the *)
(* table of statuses in docs/r2.md says, and that a rating is in 0..100:     *)
(* for every site and manifest a report has a rating only where that share   *)
(* of the applicable weight was measured, and then the rating is a           *)
(* percentage, as is the score of every rated category.                      *)
THEOREM RatingIsEarned ==
  ASSUME EditsKeepSites
  PROVE  Spec => []Earned(report)
<1>1. EvidenceInv => Earned(report)
  BY DEF EvidenceInv
<1>2. QED
  BY <1>1, EvidenceInvariance, PTL

(* Where a number is asked for and there is none, or the site was not        *)
(* reached, neither the command line nor the job of the Action succeeds, for *)
(* every site, manifest, command line and set of findings.                   *)
THEOREM NeverGreen ==
  ASSUME EditsKeepSites
  PROVE  Spec => []NeverGreenWithoutEvidence
<1>1. EvidenceInv => NeverGreenWithoutEvidence
  <2> SUFFICES ASSUME EvidenceInv PROVE NeverGreenWithoutEvidence
    OBVIOUS
  <2> USE DEF EvidenceInv
  <2>1. ASSUME cli.phase = "exited", cli.written,
               \/ site.entry # "ok"
               \/ cli.o.min_score >= 0 /\ (~cli.technical.computed \/ cli.technical.rating < 0)
        PROVE  cli.exit # OK
    <3>1. cli.o \in CommandLines /\ (cli.exit = Decision \/ cli.exit = INTERNAL)
      BY <2>1 DEF CliInv, ExitIsDecision
    <3>2. ~Refused(cli.o) /\ cli.technical.rating = report.rating
      BY <2>1 DEF CliJudges
    <3>3. report.rating \in Int
      BY DEF Earned
    <3>4. Decision # OK
      <4>1. CASE site.entry # "ok"
        BY <4>1 DEF WellFormed, Entries, Decision, exit_code, OK, SECURITY, NETWORK
      <4>2. CASE site.entry = "ok" /\ cli.o.min_score >= 0 /\ (~cli.technical.computed \/ cli.technical.rating < 0)
        <5>1. cli.o.min_score \in -1..100
          BY <3>1 DEF CommandLines
        <5>2. technical_gate_failure(cli.o, cli.technical)
          BY <3>2, <3>3, <4>2, <5>1 DEF technical_gate_failure
        <5>3. Decision = THRESHOLD
          BY <4>2, <5>2 DEF Decision, exit_code, threshold_exit_code
        <5>4. QED
          BY <5>3 DEF THRESHOLD, OK
      <4>3. QED
        BY <2>1, <4>1, <4>2
    <3>5. QED
      BY <3>1, <3>4 DEF INTERNAL, OK
  <2>2. QED
    BY <2>1 DEF NeverGreenWithoutEvidence, JobStops
<1>2. QED
  BY <1>1, EvidenceInvariance, PTL

(* Only a public site that was reached, scanned canonically and rated OK is  *)
(* contributed, and with a number.                                           *)
THEOREM ContributedComparable ==
  ASSUME EditsKeepSites
  PROVE  Spec => []ContributedScansAreComparable
<1>1. EvidenceInv => ContributedScansAreComparable
  <2> SUFFICES ASSUME EvidenceInv, cli.phase = "exited", cli.sent # "nothing"
               PROVE  /\ ~cli.o.allow_private_networks /\ site.entry = "ok"
                      /\ cli.o.selection = "all" /\ ~cli.o.experimental
                      /\ report.status = "OK" /\ report.rating >= 0
    BY DEF ContributedScansAreComparable
  <2>1. ~Refused(cli.o) /\ cli.technical.status = report.status /\ Contributes(cli.o, cli.technical)
    BY DEF EvidenceInv, CliJudges
  <2>2. cli.o.contribute /\ site.entry = "ok" /\ report.status = "OK"
    BY <2>1 DEF Contributes
  <2>3. cli.o.selection = "all" /\ ~cli.o.experimental
    BY <2>1 DEF Contributes, scan_scope
  <2>4. ~cli.o.allow_private_networks
    BY <2>1, <2>2 DEF Refused
  <2>5. report.rating >= 0
    BY <2>2 DEF EvidenceInv, Earned
  <2>6. QED
    BY <2>2, <2>3, <2>4, <2>5
<1>2. QED
  BY <1>1, EvidenceInvariance, PTL

-----------------------------------------------------------------------------
(* Repairs: from the rows of one scan to the rows of a better one.           *)

Rows(row) == DOMAIN row = Counted(Manifest)

(* The rules that share a cause with a rule share it with each other: they   *)
(* are measured, of one category, and weighed by the heaviest.               *)
LEMMA ClusterIs ==
  ASSUME NEW row, Rows(row), NEW key, NEW s \in Counted(Manifest)
  PROVE  /\ s \in Cluster(s, row, key) /\ Cluster(s, row, key) \subseteq Counted(Manifest)
         /\ \A t \in Cluster(s, row, key) :
              /\ Cluster(t, row, key) = Cluster(s, row, key)
              /\ t.category = s.category /\ t.effect = s.effect
              /\ t = s \/ (row[s].state \in MEASURED_STATES /\ row[t].state \in MEASURED_STATES)
<1>1. s \in Cluster(s, row, key) /\ Cluster(s, row, key) \subseteq Counted(Manifest)
  BY DEF Cluster, Rows
<1>2. ASSUME NEW t \in Counted(Manifest), SameCause(s, t, row, key)
      PROVE  /\ SameCause(t, s, row, key)
             /\ \A u \in Counted(Manifest) : SameCause(s, u, row, key) => SameCause(t, u, row, key)
             /\ \A u \in Counted(Manifest) : SameCause(t, u, row, key) => SameCause(s, u, row, key)
             /\ t.category = s.category /\ t.effect = s.effect
             /\ row[s].state \in MEASURED_STATES /\ row[t].state \in MEASURED_STATES
  <2>1. s.effect = "weighted" /\ t.effect = "weighted"
    BY <1>2 DEF SameCause
  <2>2. t.category = s.category
    BY <1>2, <2>1, GroupsAssumption DEF SameCause, Counted
  <2>3. SameCause(t, s, row, key)
    BY <1>2, <2>1 DEF SameCause
  <2>4. ASSUME NEW u \in Counted(Manifest), SameCause(s, u, row, key) PROVE SameCause(t, u, row, key)
    BY <1>2, <2>1, <2>4 DEF SameCause
  <2>5. ASSUME NEW u \in Counted(Manifest), SameCause(t, u, row, key) PROVE SameCause(s, u, row, key)
    BY <1>2, <2>1, <2>5 DEF SameCause
  <2>6. QED
    BY <1>2, <2>1, <2>2, <2>3, <2>4, <2>5 DEF SameCause
<1>3. ASSUME NEW t \in Cluster(s, row, key), t # s
      PROVE  t \in Counted(Manifest) /\ SameCause(s, t, row, key)
  BY <1>3 DEF Cluster, Rows
<1>4. ASSUME NEW t \in Cluster(s, row, key), t # s
      PROVE  Cluster(t, row, key) = Cluster(s, row, key)
  <2>1. t \in Counted(Manifest) /\ SameCause(s, t, row, key)
    BY <1>3, <1>4
  <2>2. \A u \in Counted(Manifest) : u \in Cluster(t, row, key) <=> u \in Cluster(s, row, key)
    BY <1>2, <2>1 DEF Cluster, Rows
  <2>3. Cluster(t, row, key) \subseteq Counted(Manifest)
    BY DEF Cluster, Rows
  <2>4. QED
    BY <1>1, <2>2, <2>3
<1>5. QED
  BY <1>1, <1>2, <1>3, <1>4

(* The heaviest of some rules is one of them, and no lighter than any.       *)
LEMMA HeaviestIs ==
  ASSUME NEW rules \in SUBSET Counted(Manifest), rules # {}
  PROVE  Heaviest(rules) \in rules /\ \A t \in rules : weight(t) <= weight(Heaviest(rules))
<1> DEFINE lacks == {40 - weight(t) : t \in rules}
<1>1. \A t \in rules : weight(t) \in {2, 6, 14, 25, 40}
  BY RowReads
<1>2. lacks \subseteq Nat /\ lacks # {}
  BY <1>1
<1>3. \E x \in lacks : \A y \in lacks : x <= y
  <2> HIDE DEF lacks
  <2>1. QED
    BY <1>2, LeastExists
<1>4. PICK h \in rules : \A t \in rules : 40 - weight(h) <= 40 - weight(t)
  BY <1>3
<1>5. \A t \in rules : weight(t) <= weight(h)
  BY <1>1, <1>4
<1>6. QED
  BY <1>5 DEF Heaviest

(* The heaviest of a cluster is an element of the score.                     *)
LEMMA HeaviestCounts ==
  ASSUME NEW row, Rows(row), NEW key, NEW s \in Counted(Manifest)
  PROVE  LET h == Heaviest(Cluster(s, row, key))
         IN /\ h \in Cluster(s, row, key) /\ h \in Elements(row, key) /\ h \in Counted(Manifest)
            /\ Cluster(h, row, key) = Cluster(s, row, key)
            /\ \A t \in Cluster(s, row, key) : weight(t) <= weight(h)
<1>1. PICK cluster : cluster = Cluster(s, row, key)
  OBVIOUS
<1>2. cluster \in SUBSET Counted(Manifest) /\ cluster # {}
  BY <1>1, ClusterIs
<1>3. PICK h : h = Heaviest(cluster)
  OBVIOUS
<1>4. h \in cluster /\ \A t \in cluster : weight(t) <= weight(h)
  BY <1>2, <1>3, HeaviestIs
<1>5. Cluster(h, row, key) = cluster /\ h \in Counted(Manifest)
  BY <1>1, <1>2, <1>4, ClusterIs
<1>6. h \in Elements(row, key)
  BY <1>3, <1>5 DEF Elements, Rows
<1>7. QED
  BY <1>1, <1>3, <1>4, <1>5, <1>6

(* Two elements of one cluster are the same.                                 *)
LEMMA OneElement ==
  ASSUME NEW row, Rows(row), NEW key, NEW s \in Elements(row, key), NEW t \in Elements(row, key),
         t \in Cluster(s, row, key)
  PROVE  s = t
<1>1. s \in Counted(Manifest) /\ s = Heaviest(Cluster(s, row, key)) /\ t = Heaviest(Cluster(t, row, key))
  BY DEF Elements, Rows
<1>2. Cluster(t, row, key) = Cluster(s, row, key)
  BY <1>1, ClusterIs
<1>3. QED
  BY <1>1, <1>2

(* The merged value is the worst of the cluster.                             *)
LEMMA MergedIs ==
  ASSUME NEW row, Worth(row), NEW key, NEW s \in Counted(Manifest), row[s].state \in MEASURED_STATES
  PROVE  /\ \A t \in Cluster(s, row, key) : merged_value(s, row, key) <= value(t, row[t])
         /\ \E t \in Cluster(s, row, key) : merged_value(s, row, key) = value(t, row[t])
<1> DEFINE cluster == Cluster(s, row, key)
           values == {value(t, row[t]) : t \in cluster}
<1>1. s \in cluster /\ \A t \in cluster : t \in Counted(Manifest) /\ row[t].state \in MEASURED_STATES
  BY DEF Worth, Cluster, SameCause
<1> HIDE DEF cluster
<1>2. values \subseteq 0..UNIT /\ values # {}
  BY <1>1 DEF Worth
<1>3. values \in SUBSET Nat
  BY <1>2 DEF UNIT
<1>4. \E x \in values : \A y \in values : x <= y
  <2> HIDE DEF values
  <2>1. QED
    BY <1>2, <1>3, LeastExists
<1>5. Min(values) \in values /\ \A y \in values : Min(values) <= y
  <2> HIDE DEF values
  <2>1. QED
    BY <1>4 DEF Min
<1>6. merged_value(s, row, key) = Min(values)
  BY DEF merged_value, cluster
<1>7. QED
  BY <1>5, <1>6 DEF cluster

(* What Better says of the states.                                           *)
LEMMA BetterStates ==
  ASSUME NEW o, NEW p, Better(o, p)
  PROVE  /\ o.state \in MEASURED_STATES => p.state \in MEASURED_STATES
         /\ p.state \in MEASURED_STATES /\ o.state \notin MEASURED_STATES =>
              o.state = NA /\ p.state = PASS
         /\ p.state = FAIL => o.state = FAIL
         /\ o.state = NOT_MEASURED <=> p.state = NOT_MEASURED
  BY DEF Better, MEASURED_STATES, PASS, WARN, FAIL, NA, NOT_MEASURED

(* A rule that passes is worth a whole.                                      *)
LEMMA PassValue ==
  ASSUME NEW s, NEW o, o.state = PASS, s.scope = "page" => PagesCounted(o)
  PROVE  value(s, o) = UNIT
<1>1. UNIT - StateValue(o.state) = 0 /\ StateValue(o.state) = UNIT
  BY DEF StateValue, UNIT, PASS, WARN, FAIL
<1>2. CASE s.scope = "page"
  <2>1. o.measured \in Nat /\ o.measured > 0 /\ o.failed \in Nat
    BY <1>2 DEF PagesCounted
  <2>2. (o.failed * 0) \div o.measured = 0
    BY <2>1
  <2>3. value(s, o) = UNIT - (o.failed * 0) \div o.measured
    BY <1>1, <1>2 DEF value
  <2>4. QED
    BY <2>2, <2>3 DEF UNIT
<1>3. CASE s.scope # "page"
  BY <1>1, <1>3 DEF value
<1>4. QED
  BY <1>2, <1>3

(* A better outcome of a measured rule is worth no less.                     *)
LEMMA BetterValue ==
  ASSUME NEW s, NEW o, NEW p, Better(o, p), o.state \in MEASURED_STATES,
         s.scope = "page" => PagesCounted(o) /\ PagesCounted(p)
  PROVE  value(s, o) <= value(s, p)
<1>1. p.state \in MEASURED_STATES
  BY BetterStates
<1>2. value(s, o) \in 0..UNIT /\ value(s, p) \in 0..UNIT
  BY <1>1, ValueRange
<1>3. CASE p = o
  BY <1>2, <1>3 DEF UNIT
<1>4. CASE p.state = PASS
  <2>1. value(s, p) = UNIT
    BY <1>4, PassValue
  <2>2. QED
    BY <1>2, <2>1 DEF UNIT
<1>5. CASE p # o /\ p.state # PASS
  <2>1. p.state = o.state /\ p.measured = o.measured /\ p.failed <= o.failed
    BY <1>5 DEF Better, MEASURED_STATES, PASS, WARN, FAIL, NA
  <2>2. CASE s.scope = "page"
    <3> DEFINE k == UNIT - StateValue(o.state)
               a == p.failed * k
               b == o.failed * k
    <3>1. k \in {0, 60, 120}
      BY DEF StateValue, UNIT, MEASURED_STATES, PASS, WARN, FAIL
    <3> HIDE DEF k
    <3>2. o.measured \in Nat /\ o.measured > 0 /\ o.failed \in Nat /\ p.failed \in Nat
      BY <2>2 DEF PagesCounted
    <3>3. a \in Nat /\ b \in Nat /\ a <= b
      BY <2>1, <3>1, <3>2
    <3> HIDE DEF a, b
    <3>4. a * o.measured <= b * o.measured
      BY <3>2, <3>3
    <3>5. a \div o.measured <= b \div o.measured
      BY <3>2, <3>3, <3>4, QuotientMonotone
    <3>6. value(s, o) = UNIT - b \div o.measured /\ value(s, p) = UNIT - a \div o.measured
      BY <2>1, <2>2 DEF value, k, a, b
    <3>7. a \div o.measured \in Int /\ b \div o.measured \in Int /\ UNIT \in Int
      BY <3>2, <3>3 DEF UNIT
    <3>8. QED
      BY <3>5, <3>6, <3>7
  <2>3. CASE s.scope # "page"
    BY <1>2, <2>1, <2>3 DEF value, UNIT
  <2>4. QED
    BY <2>2, <2>3
<1>6. QED
  BY <1>3, <1>4, <1>5

(* Rows whose measured page rules counted their pages.                       *)
Counting(row) ==
  /\ Rows(row)
  /\ \A t \in Counted(Manifest) :
       t.scope = "page" /\ row[t].state \in MEASURED_STATES => PagesCounted(row[t])

(* Rows that became better, and a rule that begins to apply does not weigh   *)
(* more than a rule that was measured before and that it shares a cause with.*)
Improves(row, after, key) ==
  /\ Counting(row) /\ Counting(after)
  /\ \A s \in Counted(Manifest) : Better(row[s], after[s])
  /\ \A s, t \in Counted(Manifest) :
       SameCause(s, t, after, key) /\ row[s].state = NA /\ row[t].state \in MEASURED_STATES
         => weight(s) <= weight(t)

(* Counting rows are worth something.                                        *)
LEMMA CountingWorth == \A row : Counting(row) => Worth(row)
  BY ValueRange DEF Counting, Worth, Rows

(* A cluster only gains rules that begin to apply, and pass.                 *)
LEMMA ClusterGrows ==
  ASSUME NEW row, NEW after, NEW key, Improves(row, after, key),
         NEW s \in Counted(Manifest)
  PROVE  \A t \in Cluster(s, after, key) :
           /\ row[s].state \in MEASURED_STATES /\ row[t].state \in MEASURED_STATES =>
                t \in Cluster(s, row, key)
           /\ after[s].state \in MEASURED_STATES /\ row[t].state \notin MEASURED_STATES =>
                row[t].state = NA /\ after[t].state = PASS
<1>1. Rows(row) /\ Rows(after)
  BY DEF Improves, Counting
<1> SUFFICES ASSUME NEW t \in Cluster(s, after, key)
             PROVE  /\ row[s].state \in MEASURED_STATES /\ row[t].state \in MEASURED_STATES =>
                         t \in Cluster(s, row, key)
                    /\ after[s].state \in MEASURED_STATES /\ row[t].state \notin MEASURED_STATES =>
                         row[t].state = NA /\ after[t].state = PASS
  OBVIOUS
<1>2. t \in Counted(Manifest)
  BY <1>1, ClusterIs
<1>3. ASSUME row[s].state \in MEASURED_STATES, row[t].state \in MEASURED_STATES
      PROVE  t \in Cluster(s, row, key)
  BY <1>1, <1>2, <1>3 DEF Cluster, SameCause, Rows
<1>4. ASSUME after[s].state \in MEASURED_STATES, row[t].state \notin MEASURED_STATES
      PROVE  row[t].state = NA /\ after[t].state = PASS
  <2>1. after[t].state \in MEASURED_STATES
    BY <1>1, <1>4, ClusterIs
  <2>2. Better(row[t], after[t])
    BY <1>2 DEF Improves
  <2>3. QED
    BY <1>4, <2>1, <2>2, BetterStates
<1>5. QED
  BY <1>3, <1>4

(* ... and loses none.                                                       *)
LEMMA ClusterKeeps ==
  ASSUME NEW row, NEW after, NEW key, Improves(row, after, key),
         NEW s \in Counted(Manifest)
  PROVE  Cluster(s, row, key) \subseteq Cluster(s, after, key)
<1>1. Rows(row) /\ Rows(after)
  BY DEF Improves, Counting
<1>2. ASSUME NEW t \in Cluster(s, row, key) PROVE t \in Cluster(s, after, key)
  <2>1. t \in Counted(Manifest)
    BY <1>1, ClusterIs
  <2>2. Better(row[t], after[t]) /\ Better(row[s], after[s])
    BY <2>1 DEF Improves
  <2>3. /\ row[t].state \in MEASURED_STATES => after[t].state \in MEASURED_STATES
        /\ row[s].state \in MEASURED_STATES => after[s].state \in MEASURED_STATES
    BY <2>2, BetterStates
  <2>4. QED
    BY <1>1, <1>2, <2>1, <2>3 DEF Cluster, SameCause, Rows
<1>3. QED
  BY <1>2

(* The element that counts after the repairs for one that counted before.    *)
Successor(s, after, key) == Heaviest(Cluster(s, after, key))

LEMMA Succeeds ==
  ASSUME NEW row, NEW after, NEW key, Improves(row, after, key), NEW s \in MeasuredOf(row, key)
  PROVE  LET h == Successor(s, after, key)
         IN /\ h \in MeasuredOf(after, key) /\ weight(h) = weight(s)
            /\ h.category = s.category /\ h.effect = s.effect
            /\ Cluster(h, after, key) = Cluster(s, after, key)
            /\ merged_value(s, row, key) <= merged_value(h, after, key)
<1>1. Rows(row) /\ Rows(after) /\ Worth(row) /\ Worth(after)
  BY CountingWorth DEF Improves, Counting
<1>2. s \in Counted(Manifest) /\ s \in Elements(row, key) /\ row[s].state \in MEASURED_STATES
  BY <1>1 DEF MeasuredOf, ApplicableOf, Elements, Rows
<1>3. Better(row[s], after[s])
  BY <1>2 DEF Improves
<1>4. after[s].state \in MEASURED_STATES
  BY <1>2, <1>3, BetterStates
<1>5. PICK h : h = Successor(s, after, key)
  OBVIOUS
<1>6. /\ h \in Cluster(s, after, key) /\ h \in Elements(after, key) /\ h \in Counted(Manifest)
      /\ Cluster(h, after, key) = Cluster(s, after, key)
      /\ \A t \in Cluster(s, after, key) : weight(t) <= weight(h)
  BY <1>1, <1>2, <1>5, HeaviestCounts DEF Successor
<1>7. after[h].state \in MEASURED_STATES /\ h.category = s.category /\ h.effect = s.effect
  BY <1>1, <1>2, <1>4, <1>6, ClusterIs
<1>8. h \in MeasuredOf(after, key)
  BY <1>6, <1>7 DEF MeasuredOf, ApplicableOf, MEASURED_STATES, PASS, WARN, FAIL, NA
<1>9. s \in Cluster(s, after, key)
  BY <1>1, <1>2, ClusterIs
<1>10. weight(h) = weight(s)
  <2>1. weight(s) <= weight(h) /\ weight(s) \in Int /\ weight(h) \in Int
    BY <1>2, <1>6, <1>9, RowReads
  <2>2. CASE row[h].state \in MEASURED_STATES
    <3>1. h \in Cluster(s, row, key)
      BY <1>2, <1>6, <2>2, ClusterGrows
    <3>2. s = Heaviest(Cluster(s, row, key))
      BY <1>2 DEF Elements
    <3>3. weight(h) <= weight(s)
      BY <1>1, <1>2, <3>1, <3>2, HeaviestCounts
    <3>4. QED
      BY <2>1, <3>3
  <2>3. CASE row[h].state \notin MEASURED_STATES
    <3>1. row[h].state = NA
      BY <1>2, <1>4, <1>6, <2>3, ClusterGrows
    <3>2. h # s
      BY <1>2, <2>3
    <3>3. SameCause(h, s, after, key)
      <4>1. s \in Cluster(h, after, key)
        BY <1>6, <1>9
      <4>2. QED
        BY <3>2, <4>1 DEF Cluster
    <3>4. weight(h) <= weight(s)
      BY <1>2, <1>6, <3>1, <3>3 DEF Improves
    <3>5. QED
      BY <2>1, <3>4
  <2>4. QED
    BY <2>2, <2>3
<1>11. merged_value(s, row, key) <= merged_value(h, after, key)
  <2>1. merged_value(s, row, key) \in 0..UNIT
    BY <1>1, <1>2, MergedRange
  <2>2. PICK t \in Cluster(h, after, key) : merged_value(h, after, key) = value(t, after[t])
    BY <1>1, <1>6, <1>7, MergedIs
  <2>3. t \in Counted(Manifest) /\ t \in Cluster(s, after, key)
    BY <1>1, <1>6, <2>2, ClusterIs
  <2>4. Better(row[t], after[t])
    BY <2>3 DEF Improves
  <2>5. CASE row[t].state \in MEASURED_STATES
    <3>1. t \in Cluster(s, row, key)
      BY <1>2, <2>3, <2>5, ClusterGrows
    <3>2. merged_value(s, row, key) <= value(t, row[t])
      BY <1>1, <1>2, <3>1, MergedIs
    <3>3. after[t].state \in MEASURED_STATES
      BY <2>4, <2>5, BetterStates
    <3>4. t.scope = "page" => PagesCounted(row[t]) /\ PagesCounted(after[t])
      BY <2>3, <2>5, <3>3 DEF Improves, Counting
    <3>5. value(t, row[t]) <= value(t, after[t])
      BY <2>4, <2>5, <3>4, BetterValue
    <3>6. value(t, row[t]) \in 0..UNIT /\ value(t, after[t]) \in 0..UNIT
      BY <1>1, <2>3, <2>5, <3>3 DEF Worth
    <3>7. QED
      BY <2>1, <2>2, <3>2, <3>5, <3>6, SMTT(60) DEF UNIT
  <2>6. CASE row[t].state \notin MEASURED_STATES
    <3>1. after[t].state = PASS
      BY <1>2, <1>4, <2>3, <2>6, ClusterGrows
    <3>2. t.scope = "page" => PagesCounted(after[t])
      BY <2>3, <3>1 DEF Improves, Counting, MEASURED_STATES
    <3>3. value(t, after[t]) = UNIT
      BY <3>1, <3>2, PassValue
    <3>4. QED
      BY <2>1, <2>2, <3>3 DEF UNIT
  <2>7. QED
    BY <2>5, <2>6
<1>12. QED
  BY <1>5, <1>6, <1>7, <1>8, <1>10, <1>11

(* Two elements have different successors.                                   *)
LEMMA SuccessorsDiffer ==
  ASSUME NEW row, NEW after, NEW key, Improves(row, after, key),
         NEW s \in MeasuredOf(row, key), NEW t \in MeasuredOf(row, key),
         Successor(s, after, key) = Successor(t, after, key)
  PROVE  s = t
<1>1. Rows(row) /\ Rows(after)
  BY DEF Improves, Counting
<1>2. /\ s \in Counted(Manifest) /\ s \in Elements(row, key) /\ row[s].state \in MEASURED_STATES
      /\ t \in Counted(Manifest) /\ t \in Elements(row, key) /\ row[t].state \in MEASURED_STATES
  BY <1>1 DEF MeasuredOf, ApplicableOf, Elements, Rows
<1>3. Cluster(s, after, key) = Cluster(t, after, key)
  BY Succeeds
<1>4. t \in Cluster(s, after, key)
  BY <1>1, <1>2, <1>3, ClusterIs
<1>5. t \in Cluster(s, row, key)
  BY <1>2, <1>4, ClusterGrows
<1>6. QED
  BY <1>1, <1>2, <1>5, OneElement

(* An element that is no successor is worth a whole.                         *)
LEMMA NewcomerIsWhole ==
  ASSUME NEW row, NEW after, NEW key, Improves(row, after, key), NEW h \in MeasuredOf(after, key),
         \A s \in MeasuredOf(row, key) : Successor(s, after, key) # h
  PROVE  merged_value(h, after, key) = UNIT
<1>1. Rows(row) /\ Rows(after) /\ Worth(after)
  BY CountingWorth DEF Improves, Counting
<1>2. h \in Counted(Manifest) /\ h \in Elements(after, key) /\ after[h].state \in MEASURED_STATES
  BY <1>1 DEF MeasuredOf, ApplicableOf, Elements, Rows
<1>3. PICK t \in Cluster(h, after, key) : merged_value(h, after, key) = value(t, after[t])
  BY <1>1, <1>2, MergedIs
<1>4. t \in Counted(Manifest) /\ Cluster(t, after, key) = Cluster(h, after, key)
  BY <1>1, <1>2, <1>3, ClusterIs
<1>5. row[t].state \notin MEASURED_STATES
  <2> SUFFICES ASSUME row[t].state \in MEASURED_STATES PROVE FALSE
    OBVIOUS
  <2>1. PICK s : s = Heaviest(Cluster(t, row, key))
    OBVIOUS
  <2>2. s \in Cluster(t, row, key) /\ s \in Elements(row, key) /\ s \in Counted(Manifest)
    BY <1>1, <1>4, <2>1, HeaviestCounts
  <2>3. row[s].state \in MEASURED_STATES
    BY <1>1, <1>4, <2>2, ClusterIs
  <2>4. s \in MeasuredOf(row, key)
    BY <2>2, <2>3 DEF MeasuredOf, ApplicableOf, MEASURED_STATES, PASS, WARN, FAIL, NA
  <2>5. s \in Cluster(t, after, key)
    BY <1>4, <2>2, ClusterKeeps
  <2>6. Cluster(s, after, key) = Cluster(h, after, key)
    BY <1>1, <1>4, <2>5, ClusterIs
  <2>7. Successor(s, after, key) = h
    BY <1>2, <2>6 DEF Successor, Elements
  <2>8. QED
    BY <2>4, <2>7
<1>6. after[t].state = PASS
  BY <1>2, <1>3, <1>5, ClusterGrows
<1>7. t.scope = "page" => PagesCounted(after[t])
  BY <1>4, <1>6 DEF Improves, Counting, MEASURED_STATES
<1>8. QED
  BY <1>3, <1>6, <1>7, PassValue

(* The gain of every rule, were it an element.                               *)
GainOf(row, key) == [s \in Counted(Manifest) |-> weight(s) * merged_value(s, row, key)]

(* Gains of measured rules are numbers, at most a whole of their weight.     *)
LEMMA GainsAdd ==
  ASSUME NEW row, Worth(row), NEW key, NEW S \in SUBSET Counted(Manifest),
         \A s \in S : row[s].state \in MEASURED_STATES
  PROVE  /\ Numbers(GainOf(row, key), S)
         /\ \A s \in S : /\ GainOf(row, key)[s] = weight(s) * merged_value(s, row, key)
                         /\ GainOf(row, key)[s] \in Nat /\ GainOf(row, key)[s] <= 120 * WeightOf[s]
         /\ SumFunctionOnSet(GainOf(row, key), S) \in Nat
         /\ SumFunctionOnSet(GainOf(row, key), S) <= 120 * Weights(S)
<1> DEFINE gain == GainOf(row, key)
<1>1. IsFiniteSet(S)
  BY CountedRows, FS_Subset
<1>2. ASSUME NEW s \in S
      PROVE  /\ gain[s] = weight(s) * merged_value(s, row, key)
             /\ gain[s] \in Nat /\ gain[s] <= 120 * WeightOf[s]
  <2>1. PICK m \in 0..120, w \in {2, 6, 14, 25, 40} : m = merged_value(s, row, key) /\ w = weight(s)
    BY MergedRange, RowReads DEF UNIT
  <2>2. gain[s] = w * m /\ WeightOf[s] = w
    BY <2>1 DEF GainOf, WeightOf
  <2>3. w * m \in Nat /\ w * m <= 120 * w
    BY <2>1
  <2>4. QED
    BY <2>1, <2>2, <2>3
<1> HIDE DEF gain
<1>3. Numbers(gain, S)
  BY <1>1, <1>2 DEF Numbers
<1>4. Numbers(WeightOf, S) /\ Weights(S) = SumFunctionOnSet(WeightOf, S)
  BY WeightsAdd
<1>5. SumFunctionOnSet(gain, S) <= 120 * SumFunctionOnSet(WeightOf, S)
  BY <1>2, <1>3, <1>4, SumBounded
<1>6. SumFunctionOnSet(gain, S) \in Nat
  <2>1. \A s \in S : gain[s] >= 0
    BY <1>2
  <2>2. QED
    BY <1>3, <2>1, SumNat
<1>7. QED
  BY <1>2, <1>3, <1>4, <1>5, <1>6 DEF gain

(* The score of a category as gains over weights.                            *)
LEMMA ScoreOfGains ==
  ASSUME NEW row, Worth(row), NEW key, NEW S \in SUBSET Counted(Manifest),
         \A s \in S : row[s].state \in MEASURED_STATES
  PROVE  category_score(S, row, key) =
           (10000 * (SumFunctionOnSet(GainOf(row, key), S) + 1680)) \div (120 * (Weights(S) + 14))
<1> DEFINE gain == [s \in S |-> weight(s) * merged_value(s, row, key)]
<1>1. DOMAIN gain = S
  OBVIOUS
<1>2. SumFunction(gain) = SumFunctionOnSet(gain, S)
  BY <1>1, Zenon DEF SumFunction
<1>3. category_score(S, row, key) =
        (10000 * (SumFunction(gain) + UNIT * category_prior_weight))
          \div (UNIT * (Weights(S) + category_prior_weight))
  BY CategoryScoreIs
<1>4. \A s \in S : gain[s] = GainOf(row, key)[s]
  BY GainsAdd
<1>5. Numbers(GainOf(row, key), S)
  BY GainsAdd
<1> HIDE DEF gain
<1>6. SumFunctionOnSet(GainOf(row, key), S) = SumFunctionOnSet(gain, S)
  BY <1>4, <1>5, SumSame
<1>7. UNIT * category_prior_weight = 1680 /\ UNIT = 120 /\ category_prior_weight = 14
  BY DEF UNIT, category_prior_weight
<1>8. QED
  BY <1>2, <1>3, <1>6, <1>7

Successors(S, after, key) == {Successor(s, after, key) : s \in S}

(* The elements T of the better rows follow the elements S.                  *)
Follow(T, S, row, after, key) ==
  /\ S \subseteq MeasuredOf(row, key) /\ T \subseteq MeasuredOf(after, key)
  /\ \A s \in S : Successor(s, after, key) \in T

(* They weigh at least as much: as those and the newcomers among them ...    *)
Outweighs(T, S, image) ==
  /\ S \subseteq Counted(Manifest) /\ T \subseteq Counted(Manifest) /\ image \subseteq T
  /\ Weights(S) \in Nat /\ Weights(T) \in Nat /\ Weights(S) <= Weights(T)
  /\ Weights(T) = Weights(S) + Weights(T \ image)

LEMMA FollowersWeigh ==
  ASSUME NEW row, NEW after, NEW key, Improves(row, after, key),
         NEW S, NEW T, Follow(T, S, row, after, key)
  PROVE  Outweighs(T, S, Successors(S, after, key))
<1> DEFINE f == [s \in S |-> Successor(s, after, key)]
<1>0. PICK image : image = Successors(S, after, key)
  OBVIOUS
<1>1. image = {f[s] : s \in S}
  BY <1>0 DEF Successors
<1>2. S \subseteq Counted(Manifest) /\ T \subseteq Counted(Manifest)
  BY DEF Follow, MeasuredOf, ApplicableOf, Elements, Improves, Counting, Rows
<1>3. \A s \in S : f[s] \in T /\ f[s] \in Counted(Manifest) /\ weight(f[s]) = weight(s)
  BY <1>2, Succeeds DEF Follow
<1>4. \A s, t \in S : f[s] = f[t] => s = t
  BY SuccessorsDiffer DEF Follow
<1> HIDE DEF f
<1>5. Injects(f, S, image)
  BY <1>1, <1>4 DEF Injects
<1>6. image \subseteq T /\ image \subseteq Counted(Manifest)
  BY <1>1, <1>3
<1>7. \A s \in S : WeightOf[s] = WeightOf[f[s]]
  BY <1>2, <1>3, RowReads DEF WeightOf
<1>8. IsFiniteSet(S) /\ Numbers(WeightOf, image)
  BY <1>2, <1>6, CountedRows, WeightsAdd, FS_Subset
<1>9. SumFunctionOnSet(WeightOf, image) = SumFunctionOnSet(WeightOf, S)
  BY <1>5, <1>7, <1>8, SumImage
<1>10. Weights(image) = Weights(S) /\ Weights(S) \in Nat
  BY <1>2, <1>6, <1>9, WeightsAdd
<1>11. PICK rest : rest = T \ image
  OBVIOUS
<1>12. image \cup rest = T /\ image \cap rest = {} /\ rest \subseteq Counted(Manifest)
  BY <1>2, <1>6, <1>11
<1>13. Numbers(WeightOf, image \cup rest)
  BY <1>2, <1>12, WeightsAdd
<1>14. SumFunctionOnSet(WeightOf, T) = SumFunctionOnSet(WeightOf, image) + SumFunctionOnSet(WeightOf, rest)
  BY <1>12, <1>13, SumUnion
<1>15. Weights(T) = Weights(image) + Weights(rest) /\ Weights(rest) \in Nat
  BY <1>2, <1>6, <1>12, <1>14, WeightsAdd
<1>16. Weights(T) = Weights(S) + Weights(rest) /\ Weights(T) \in Nat /\ Weights(S) <= Weights(T)
  BY <1>10, <1>15
<1>17. Outweighs(T, S, image)
  BY <1>2, <1>6, <1>10, <1>11, <1>16 DEF Outweighs
<1>18. QED
  BY <1>0, <1>17

(* ... and gain what those gained, and a whole for every newcomer.           *)
LEMMA FollowersGain ==
  ASSUME NEW row, NEW after, NEW key, Improves(row, after, key),
         NEW S, NEW T, Follow(T, S, row, after, key),
         \A h \in T : (\A s \in S : Successor(s, after, key) # h) => merged_value(h, after, key) = UNIT
  PROVE  SumFunctionOnSet(GainOf(row, key), S) + 120 * (Weights(T) - Weights(S))
           <= SumFunctionOnSet(GainOf(after, key), T)
<1> DEFINE f == [s \in S |-> Successor(s, after, key)]
<1>0. PICK image : image = Successors(S, after, key)
  OBVIOUS
<1>1. PICK g, G : g = GainOf(row, key) /\ G = GainOf(after, key)
  OBVIOUS
<1>2. /\ S \subseteq Counted(Manifest) /\ T \subseteq Counted(Manifest) /\ image \subseteq T
      /\ Weights(T) = Weights(S) + Weights(T \ image) /\ Weights(S) \in Nat /\ Weights(T) \in Nat
  <2>1. Outweighs(T, S, Successors(S, after, key))
    BY FollowersWeigh
  <2>2. Outweighs(T, S, image)
    BY <1>0, <2>1
  <2>3. QED
    BY <2>2 DEF Outweighs
<1>3. Worth(row) /\ Worth(after)
  BY CountingWorth DEF Improves
<1>4. (\A s \in S : row[s].state \in MEASURED_STATES) /\ (\A h \in T : after[h].state \in MEASURED_STATES)
  BY DEF Follow, MeasuredOf
<1>5. Numbers(g, S) /\ \A s \in S : g[s] = weight(s) * merged_value(s, row, key)
  BY <1>1, <1>2, <1>3, <1>4, GainsAdd
<1>6. Numbers(G, T) /\ \A h \in T : G[h] = weight(h) * merged_value(h, after, key)
  BY <1>1, <1>2, <1>3, <1>4, GainsAdd
<1>7. \A s, t \in S : f[s] = f[t] => s = t
  BY SuccessorsDiffer DEF Follow
<1>22. image = {f[s] : s \in S}
  BY <1>0 DEF Successors
<1>23. image = {Successor(s, after, key) : s \in S}
  BY <1>0 DEF Successors
<1>8. ASSUME NEW s \in S PROVE f[s] \in T /\ g[s] <= G[f[s]]
  <2>1. PICK h : h = f[s]
    OBVIOUS
  <2>2. h \in T /\ h = Successor(s, after, key) /\ s \in MeasuredOf(row, key)
    BY <2>1 DEF Follow
  <2>3. weight(h) = weight(s) /\ merged_value(s, row, key) <= merged_value(h, after, key)
    BY <2>2, Succeeds
  <2>4. merged_value(s, row, key) \in 0..120 /\ merged_value(h, after, key) \in 0..120
    BY <1>2, <1>3, <1>4, <2>2, MergedRange DEF UNIT
  <2>5. weight(s) \in {2, 6, 14, 25, 40}
    BY <1>2, RowReads
  <2>6. weight(s) * merged_value(s, row, key) <= weight(s) * merged_value(h, after, key)
    BY <2>3, <2>4, <2>5, SMTT(60)
  <2>7. QED
    BY <1>5, <1>6, <2>1, <2>2, <2>3, <2>6
<1> HIDE DEF f
<1> DEFINE a == [s \in S |-> G[f[s]]]
<1>9. \A s \in S : G[f[s]] \in Int /\ a[s] = G[f[s]] /\ g[s] <= 1 * a[s] /\ a[s] \in Int /\ g[s] \in Int
  BY <1>5, <1>6, <1>8 DEF Numbers
<1> HIDE DEF a
<1>10. IsFiniteSet(S)
  BY <1>5 DEF Numbers
<1>11. SumFunctionOnSet(G, image) = SumFunctionOnSet(a, S)
  <2>1. Injects(f, S, image)
    BY <1>7, <1>22 DEF Injects
  <2>2. Numbers(G, image)
    BY <1>2, <1>6, FS_Subset DEF Numbers
  <2>3. \A s \in S : a[s] = G[f[s]]
    BY <1>9
  <2>4. QED
    BY <1>10, <2>1, <2>2, <2>3, SumImage
<1>12. SumFunctionOnSet(g, S) <= 1 * SumFunctionOnSet(a, S) /\ SumFunctionOnSet(a, S) \in Int
       /\ SumFunctionOnSet(g, S) \in Int
  <2>1. Numbers(a, S)
    BY <1>9, <1>10 DEF Numbers
  <2>2. SumFunctionOnSet(g, S) <= 1 * SumFunctionOnSet(a, S)
    BY <1>5, <1>9, <2>1, SumBounded
  <2>3. SumFunctionOnSet(a, S) \in Int /\ SumFunctionOnSet(g, S) \in Int
    BY <1>5, <2>1, SumFirst
  <2>4. QED
    BY <2>2, <2>3
<1>13. PICK rest : rest = T \ image
  OBVIOUS
<1>14. \A h \in rest : merged_value(h, after, key) = 120
  <2> SUFFICES ASSUME NEW h \in rest PROVE merged_value(h, after, key) = 120
    OBVIOUS
  <2>1. h \in T /\ h \notin image
    BY <1>13
  <2>2. \A s \in S : Successor(s, after, key) # h
    BY <1>23, <2>1
  <2>3. QED
    BY <2>1, <2>2 DEF UNIT
<1>15. image \cup rest = T /\ image \cap rest = {} /\ rest \subseteq Counted(Manifest) /\ rest \subseteq T
  BY <1>2, <1>13
<1>16. SumFunctionOnSet(G, T) = SumFunctionOnSet(G, image) + SumFunctionOnSet(G, rest)
  BY <1>6, <1>15, SumUnion
<1>17. 120 * SumFunctionOnSet(WeightOf, rest) <= SumFunctionOnSet(G, rest)
  <2>1. Numbers(WeightOf, rest) /\ Numbers(G, rest)
    BY <1>6, <1>15, WeightsAdd, FS_Subset DEF Numbers
  <2>2. \A h \in rest : 120 * WeightOf[h] <= G[h]
    <3> SUFFICES ASSUME NEW h \in rest PROVE 120 * WeightOf[h] <= G[h]
      OBVIOUS
    <3>1. h \in T /\ h \in Counted(Manifest) /\ merged_value(h, after, key) = 120
      BY <1>14, <1>15
    <3>2. G[h] = weight(h) * 120 /\ WeightOf[h] = weight(h) /\ weight(h) \in {2, 6, 14, 25, 40}
      BY <1>6, <3>1, RowReads DEF WeightOf
    <3>3. QED
      BY <3>2
  <2>3. QED
    BY <2>1, <2>2, SumAtLeast
<1>18. SumFunctionOnSet(WeightOf, rest) = Weights(rest) /\ Weights(rest) \in Nat
  BY <1>15, WeightsAdd
<1>19. SumFunctionOnSet(G, rest) \in Int /\ SumFunctionOnSet(G, image) \in Int
  <2>1. Numbers(G, rest) /\ Numbers(G, image)
    BY <1>2, <1>6, <1>15, FS_Subset DEF Numbers
  <2>2. QED
    BY <2>1, SumFirst
<1>20. Weights(T) - Weights(S) = Weights(rest)
  BY <1>2, <1>13, <1>18
<1>21. QED
  BY <1>1, <1>11, <1>12, <1>16, <1>17, <1>18, <1>19, <1>20

(* A share grows when as much is added to the part as to the whole.          *)
LEMMA ShareGrows ==
  ASSUME NEW a \in Nat, NEW b \in Nat, NEW x \in Nat, NEW c \in Nat, a <= b, a + x <= c
  PROVE  (10000 * a) * (b + x) <= (10000 * c) * b
<1>1. a * x <= b * x
  OBVIOUS
<1>2. (a + x) * b <= c * b
  OBVIOUS
<1>3. a * (b + x) = a * b + a * x /\ (a + x) * b = a * b + b * x
  OBVIOUS
<1> DEFINE l == a * (b + x)
           r == c * b
<1>4. l \in Nat /\ r \in Nat /\ l <= r
  BY <1>1, <1>2, <1>3
<1>5. (10000 * a) * (b + x) = 10000 * l /\ (10000 * c) * b = 10000 * r
  OBVIOUS
<1> HIDE DEF l, r
<1>6. QED
  BY <1>4, <1>5

(* The elements of a category, before and after.                             *)
LEMMA ScoredFollow ==
  ASSUME NEW row, NEW after, NEW key, Improves(row, after, key), NEW c
  PROVE  LET S == ScoredOf(row, key, c)
             T == ScoredOf(after, key, c)
         IN /\ Follow(T, S, row, after, key)
            /\ S \in SUBSET Counted(Manifest) /\ T \in SUBSET Counted(Manifest)
            /\ \A s \in S : row[s].state \in MEASURED_STATES
            /\ \A h \in T : after[h].state \in MEASURED_STATES
            /\ \A h \in T : (\A s \in S : Successor(s, after, key) # h) =>
                  merged_value(h, after, key) = UNIT
<1> DEFINE S == ScoredOf(row, key, c)
           T == ScoredOf(after, key, c)
<1>1. \A s \in MeasuredOf(row, key) :
        /\ Successor(s, after, key) \in MeasuredOf(after, key)
        /\ Successor(s, after, key).category = s.category
        /\ Successor(s, after, key).effect = s.effect
  BY Succeeds
<1>2. Follow(T, S, row, after, key)
  BY <1>1 DEF Follow, ScoredOf
<1>3. ASSUME NEW h \in T, \A s \in S : Successor(s, after, key) # h
      PROVE  merged_value(h, after, key) = UNIT
  <2>1. h \in MeasuredOf(after, key) /\ h.category = c /\ h.effect = "weighted"
    BY DEF ScoredOf
  <2>2. \A s \in MeasuredOf(row, key) : Successor(s, after, key) # h
    BY <1>1, <1>3, <2>1 DEF ScoredOf
  <2>3. QED
    BY <2>1, <2>2, NewcomerIsWhole
<1>4. /\ S \in SUBSET Counted(Manifest) /\ T \in SUBSET Counted(Manifest)
      /\ \A s \in S : row[s].state \in MEASURED_STATES
      /\ \A h \in T : after[h].state \in MEASURED_STATES
  BY DEF ScoredOf, MeasuredOf, ApplicableOf, Elements, Improves, Counting, Rows
<1>5. QED
  BY <1>2, <1>3, <1>4

(* The score of a category does not fall.                                    *)
LEMMA CategoryRises ==
  ASSUME NEW row, NEW after, NEW key, Improves(row, after, key), NEW c
  PROVE  category_score(ScoredOf(row, key, c), row, key)
           <= category_score(ScoredOf(after, key, c), after, key)
<1>1. PICK S, T : S = ScoredOf(row, key, c) /\ T = ScoredOf(after, key, c)
  OBVIOUS
<1>2. /\ Follow(T, S, row, after, key)
      /\ S \in SUBSET Counted(Manifest) /\ T \in SUBSET Counted(Manifest)
      /\ \A s \in S : row[s].state \in MEASURED_STATES
      /\ \A h \in T : after[h].state \in MEASURED_STATES
  BY <1>1, ScoredFollow
<1>3. \A h \in T : (\A s \in S : Successor(s, after, key) # h) => merged_value(h, after, key) = UNIT
  BY <1>1, ScoredFollow
<1>4. Worth(row) /\ Worth(after)
  BY CountingWorth DEF Improves
<1>5. PICK g, h : g = SumFunctionOnSet(GainOf(row, key), S) /\ h = SumFunctionOnSet(GainOf(after, key), T)
  OBVIOUS
<1>6. g \in Nat /\ g <= 120 * Weights(S) /\ h \in Nat
  BY <1>2, <1>4, <1>5, GainsAdd
<1>7. g + 120 * (Weights(T) - Weights(S)) <= h
  BY <1>2, <1>3, <1>5, FollowersGain
<1>9. Weights(S) \in Nat /\ Weights(T) \in Nat /\ Weights(S) <= Weights(T)
  BY <1>2, FollowersWeigh DEF Outweighs
<1>10. PICK v, w : v = Weights(S) /\ w = Weights(T)
  OBVIOUS
<1>11. PICK a, b, x, y : a = g + 1680 /\ b = 120 * (v + 14) /\ x = 120 * (w - v) /\ y = h + 1680
  OBVIOUS
<1>12. a \in Nat /\ b \in Nat /\ x \in Nat /\ y \in Nat /\ a <= b /\ a + x <= y /\ b > 0
  BY <1>6, <1>7, <1>9, <1>10, <1>11
<1>13. (10000 * a) * (b + x) <= (10000 * y) * b
  BY <1>12, ShareGrows
<1>14. 10000 * a \in Nat /\ 10000 * y \in Nat /\ b + x \in Nat /\ b + x > 0
  BY <1>12
<1>15. (10000 * a) \div b <= (10000 * y) \div (b + x)
  BY <1>12, <1>13, <1>14, QuotientMonotone
<1>16. b + x = 120 * (w + 14)
  BY <1>9, <1>10, <1>11
<1>17. category_score(S, row, key) = (10000 * a) \div b
  BY <1>2, <1>4, <1>5, <1>10, <1>11, ScoreOfGains
<1>18. category_score(T, after, key) = (10000 * y) \div (b + x)
  BY <1>2, <1>4, <1>5, <1>10, <1>11, <1>16, ScoreOfGains
<1>19. QED
  BY <1>1, <1>15, <1>17, <1>18

(* A category that was not rated before is rated with all its points.        *)
LEMMA NewCategoryIsFull ==
  ASSUME NEW row, NEW after, NEW key, Improves(row, after, key), NEW c,
         ScoredOf(row, key, c) = {}
  PROVE  category_score(ScoredOf(after, key, c), after, key) = 10000
<1>1. PICK T : T = ScoredOf(after, key, c)
  OBVIOUS
<1>2. /\ T \in SUBSET Counted(Manifest) /\ \A h \in T : after[h].state \in MEASURED_STATES
      /\ \A h \in T : merged_value(h, after, key) = UNIT
  BY <1>1, ScoredFollow
<1>3. Worth(after)
  BY CountingWorth DEF Improves
<1>4. PICK g : g = SumFunctionOnSet(GainOf(after, key), T)
  OBVIOUS
<1>5. /\ g \in Nat /\ Numbers(GainOf(after, key), T)
      /\ \A h \in T : GainOf(after, key)[h] = weight(h) * merged_value(h, after, key)
  BY <1>2, <1>3, <1>4, GainsAdd
<1>6. Numbers(WeightOf, T) /\ Weights(T) = SumFunctionOnSet(WeightOf, T) /\ Weights(T) \in Nat
  BY <1>2, WeightsAdd
<1>7. \A h \in T : 120 * WeightOf[h] <= GainOf(after, key)[h]
  <2> SUFFICES ASSUME NEW h \in T PROVE 120 * WeightOf[h] <= GainOf(after, key)[h]
    OBVIOUS
  <2>1. GainOf(after, key)[h] = weight(h) * 120
    BY <1>2, <1>5 DEF UNIT
  <2>2. WeightOf[h] = weight(h) /\ weight(h) \in {2, 6, 14, 25, 40}
    BY <1>2, RowReads DEF WeightOf
  <2>3. QED
    BY <2>1, <2>2
<1>8. 120 * Weights(T) <= g
  BY <1>4, <1>5, <1>6, <1>7, SumAtLeast
<1>9. PICK a, d : a = 10000 * (g + 1680) /\ d = 120 * (Weights(T) + 14)
  OBVIOUS
<1>10. a \in Nat /\ d \in Nat /\ d > 0 /\ 10000 * d <= a * 1
  BY <1>5, <1>6, <1>8, <1>9
<1>11. 10000 \div 1 <= a \div d
  BY <1>10, QuotientMonotone
<1>12. category_score(T, after, key) = a \div d
  BY <1>2, <1>3, <1>4, <1>9, ScoreOfGains, SMTT(60)
<1>13. category_score(T, after, key) \in 0..10000
  BY <1>2, <1>3, CategoryRange, SMTT(60)
<1>14. PICK q : q = a \div d
  OBVIOUS
<1>15. 10000 <= q
  BY <1>11, <1>14
<1>16. q \in 0..10000
  BY <1>12, <1>13, <1>14
<1>17. q = 10000
  BY <1>15, <1>16
<1>18. QED
  BY <1>1, <1>12, <1>14, <1>17

(* Categories that are rated stay rated, and their scores do not fall.       *)
LEMMA CategoriesRise ==
  ASSUME NEW row, NEW after, NEW key, Improves(row, after, key), NEW profile
  PROVE  /\ RatedOf(row, key, profile) \subseteq RatedOf(after, key, profile)
         /\ \A c \in RatedOf(row, key, profile) :
              ScoreOf(row, key, profile)[c] <= ScoreOf(after, key, profile)[c]
         /\ \A c \in RatedOf(after, key, profile) \ RatedOf(row, key, profile) :
              ScoreOf(after, key, profile)[c] = 10000
<1>1. ASSUME NEW c \in RatedOf(row, key, profile) PROVE c \in RatedOf(after, key, profile)
  <2>1. PICK s : s \in ScoredOf(row, key, c)
    BY DEF RatedOf
  <2>2. Successor(s, after, key) \in ScoredOf(after, key, c)
    BY <2>1, ScoredFollow DEF Follow
  <2>3. QED
    BY <2>2 DEF RatedOf
<1>2. ASSUME NEW c \in RatedOf(row, key, profile)
      PROVE  ScoreOf(row, key, profile)[c] <= ScoreOf(after, key, profile)[c]
  <2>1. ScoreOf(row, key, profile)[c] = category_score(ScoredOf(row, key, c), row, key)
    BY DEF ScoreOf
  <2>2. ScoreOf(after, key, profile)[c] = category_score(ScoredOf(after, key, c), after, key)
    BY <1>1 DEF ScoreOf
  <2>3. QED
    BY <2>1, <2>2, CategoryRises
<1>3. ASSUME NEW c \in RatedOf(after, key, profile), c \notin RatedOf(row, key, profile)
      PROVE  ScoreOf(after, key, profile)[c] = 10000
  <2>1. ScoredOf(row, key, c) = {}
    BY <1>3 DEF RatedOf
  <2>2. ScoreOf(after, key, profile)[c] = category_score(ScoredOf(after, key, c), after, key)
    BY <1>3 DEF ScoreOf
  <2>3. QED
    BY <2>1, <2>2, NewCategoryIsFull
<1>4. QED
  BY <1>1, <1>2, <1>3

(* Rows that became better cover at least as much.                           *)
LEMMA CoverageRises ==
  ASSUME NEW row, NEW after, NEW key, Improves(row, after, key),
         \A s \in Counted(Manifest) : row[s].state \in OutcomeStates /\ after[s].state \in OutcomeStates
  PROVE  /\ Weights(MeasuredOf(row, key)) <= Weights(MeasuredOf(after, key))
         /\ \E gap \in Nat :
              /\ Weights(ApplicableOf(row, key)) = Weights(MeasuredOf(row, key)) + gap
              /\ Weights(ApplicableOf(after, key)) = Weights(MeasuredOf(after, key)) + gap
<1>1. Rows(row) /\ Rows(after)
  BY DEF Improves, Counting
<1>2. PICK S, T : S = MeasuredOf(row, key) /\ T = MeasuredOf(after, key)
  OBVIOUS
<1>3. Follow(T, S, row, after, key)
  BY <1>2, Succeeds DEF Follow
<1>4. /\ S \subseteq Counted(Manifest) /\ T \subseteq Counted(Manifest)
      /\ Weights(S) \in Nat /\ Weights(T) \in Nat /\ Weights(S) <= Weights(T)
  BY <1>2, <1>3, FollowersWeigh DEF Outweighs
<1>5. PICK open : open = {s \in Counted(Manifest) : row[s].state = NOT_MEASURED}
  OBVIOUS
<1>6. open = {s \in Counted(Manifest) : after[s].state = NOT_MEASURED}
  <2>1. \A s \in Counted(Manifest) : row[s].state = NOT_MEASURED <=> after[s].state = NOT_MEASURED
    BY BetterStates DEF Improves
  <2>2. QED
    BY <1>5, <2>1
<1>7. ASSUME NEW r, Rows(r), \A s \in Counted(Manifest) : r[s].state \in OutcomeStates,
             open = {s \in Counted(Manifest) : r[s].state = NOT_MEASURED}
      PROVE  Weights(ApplicableOf(r, key)) = Weights(MeasuredOf(r, key)) + Weights(open)
  <2>1. PICK A, M : A = ApplicableOf(r, key) /\ M = MeasuredOf(r, key)
    OBVIOUS
  <2>2. \A s \in open : s \in Elements(r, key)
    BY <1>7, UnmeasuredIsElement DEF Rows, MEASURED_STATES, PASS, WARN, FAIL, NOT_MEASURED
  <2>3. Elements(r, key) \subseteq Counted(Manifest)
    BY <1>7 DEF Elements, Rows
  <2>4. \A s \in Counted(Manifest) :
          s \in A <=> s \in M \/ s \in open
    BY <1>7, <2>1, <2>2, <2>3
       DEF ApplicableOf, MeasuredOf, OutcomeStates, MEASURED_STATES, PASS, WARN, FAIL, NA, NOT_MEASURED
  <2>5. A \subseteq Counted(Manifest) /\ M \subseteq Counted(Manifest) /\ open \subseteq Counted(Manifest)
    BY <1>7, <2>1, <2>3 DEF ApplicableOf, MeasuredOf
  <2>6. A = M \cup open
    BY <2>4, <2>5
  <2>7. M \cap open = {}
    BY <1>7, <2>1 DEF MeasuredOf, MEASURED_STATES, PASS, WARN, FAIL, NOT_MEASURED
  <2>8. Numbers(WeightOf, M \cup open)
    BY <2>5, <2>6, WeightsAdd
  <2>9. SumFunctionOnSet(WeightOf, A) = SumFunctionOnSet(WeightOf, M) + SumFunctionOnSet(WeightOf, open)
    BY <2>6, <2>7, <2>8, SumUnion
  <2>10. QED
    BY <2>1, <2>5, <2>9, WeightsAdd
<1>8. Weights(open) \in Nat
  <2>1. open \in SUBSET Counted(Manifest)
    BY <1>5
  <2>2. QED
    BY <2>1, WeightsAdd
<1>9. /\ Weights(ApplicableOf(row, key)) = Weights(S) + Weights(open)
      /\ Weights(ApplicableOf(after, key)) = Weights(T) + Weights(open)
  BY <1>1, <1>2, <1>5, <1>6, <1>7
<1>10. QED
  BY <1>2, <1>4, <1>8, <1>9

(* A mean rises when to its parts, none of which is above 10000, parts of    *)
(* 10000 are added.                                                          *)
LEMMA MeanRises ==
  ASSUME NEW a \in Nat, NEW d \in Nat, d > 0, a <= 10000 * d,
         NEW e \in Nat, NEW b \in Nat, a + 10000 * e <= b
  PROVE  (a \div d + 50) \div 100 <= (b \div (d + e) + 50) \div 100
<1>1. a * e <= (10000 * d) * e
  OBVIOUS
<1>2. (a + 10000 * e) * d <= b * d
  OBVIOUS
<1>3. a * (d + e) = a * d + a * e /\ (a + 10000 * e) * d = a * d + (10000 * d) * e
  OBVIOUS
<1>4. a * (d + e) <= b * d
  <2> DEFINE l == a * (d + e)
             x == a * d
             y == a * e
             z == (10000 * d) * e
             r == b * d
             k == (a + 10000 * e) * d
  <2>1. /\ l \in Nat /\ x \in Nat /\ y \in Nat /\ z \in Nat /\ r \in Nat /\ k \in Nat
        /\ y <= z /\ k <= r /\ l = x + y /\ k = x + z
    BY <1>1, <1>2, <1>3
  <2> HIDE DEF l, x, y, z, r, k
  <2>2. l <= r
    BY <2>1
  <2>3. QED
    BY <2>2 DEF l, r
<1>5. d + e \in Nat /\ d + e > 0
  OBVIOUS
<1>6. PICK n, q, r : n = d + e /\ q = a \div d /\ r = b \div n
  OBVIOUS
<1>7. q <= r
  BY <1>4, <1>5, <1>6, QuotientMonotone
<1>8. q \in Nat /\ r \in Nat
  <2>1. \A k \in Nat, m \in Nat : m > 0 => k \div m \in Nat
    <3> SUFFICES ASSUME NEW k \in Nat, NEW m \in Nat, m > 0 PROVE k \div m \in Nat
      OBVIOUS
    <3>1. 0 * m <= k * 1
      OBVIOUS
    <3>2. k <= k * m
      OBVIOUS
    <3>3. QED
      BY <3>2, DivisionBound
  <2>2. QED
    BY <1>5, <1>6, <2>1
<1>9. (q + 50) * 100 <= (r + 50) * 100
  BY <1>7, <1>8
<1>10. (q + 50) \div 100 <= (r + 50) \div 100
  BY <1>8, <1>9, QuotientMonotone
<1>11. QED
  BY <1>6, <1>10

(* What a rating is the mean of.                                             *)
ShareOf(row, key, profile) ==
  [c \in CATEGORIES |-> category_weights[c] * ScoreOf(row, key, profile)[c]]

LEMMA RatingIs ==
  ASSUME NEW row, Worth(row), NEW key, NEW profile, RatedOf(row, key, profile) # {}
  PROVE  LET rated == RatedOf(row, key, profile)
             a == SumFunctionOnSet(ShareOf(row, key, profile), rated)
             d == SumFunctionOnSet(category_weights, rated)
         IN /\ RatingOf(row, key, profile) = (a \div d + 50) \div 100
            /\ Numbers(ShareOf(row, key, profile), rated) /\ Numbers(category_weights, rated)
            /\ a \in Nat /\ d \in Nat /\ d > 0 /\ a <= 10000 * d
<1> DEFINE rated == RatedOf(row, key, profile)
           score == ScoreOf(row, key, profile)
           share == [c \in rated |-> category_weights[c] * score[c]]
           shares == ShareOf(row, key, profile)
           a == SumFunctionOnSet(shares, rated)
           d == SumFunctionOnSet(category_weights, rated)
<1>1. \A c \in rated : score[c] \in 0..10000
  BY RatingRange DEF Percentages, Scored, ScoreOf
<1>2. rated \subseteq CATEGORIES /\ IsFiniteSet(rated)
  <2>1. {"discoverability", "structured", "consistency", "actionability", "trust", "ucp",
         "citability", "citability"} = CATEGORIES
    BY DEF CATEGORIES
  <2>2. IsFiniteSet(CATEGORIES)
    BY <2>1, Few
  <2>3. rated \subseteq CATEGORIES
    BY DEF RatedOf
  <2>4. QED
    BY <2>2, <2>3, FS_Subset
<1>3. \A c \in rated : category_weights[c] \in 8..18
  BY <1>2 DEF CATEGORIES, category_weights
<1>4. RatingOf(row, key, profile) = (SumFunctionOnSet(share, rated) \div d + 50) \div 100
  <2>1. DOMAIN share = rated
    OBVIOUS
  <2>2. SumFunction(share) = SumFunctionOnSet(share, rated)
    BY <2>1, Zenon DEF SumFunction
  <2>3. QED
    BY <2>2, Zenon DEF RatingOf
<1>5. \A c \in rated : share[c] = shares[c] /\ shares[c] = category_weights[c] * score[c]
  BY <1>2 DEF ShareOf
<1>10. rated # {}
  OBVIOUS
<1> HIDE DEF share, shares, rated, score
<1>6. \A c \in rated : shares[c] \in Nat /\ shares[c] <= 10000 * category_weights[c]
  <2> SUFFICES ASSUME NEW c \in rated PROVE shares[c] \in Nat /\ shares[c] <= 10000 * category_weights[c]
    OBVIOUS
  <2> DEFINE w == category_weights[c]
             v == score[c]
  <2>1. w \in 8..18
    BY <1>3, SMTT(60)
  <2>2. v \in 0..10000
    BY <1>1
  <2>3. shares[c] = w * v
    BY <1>5
  <2> HIDE DEF w, v
  <2>4. w * v \in Nat /\ w * v <= 10000 * w
    BY <2>1, <2>2
  <2>5. QED
    BY <2>3, <2>4 DEF w
<1>7. Numbers(shares, rated) /\ Numbers(category_weights, rated) /\ Numbers(share, rated)
  BY <1>2, <1>3, <1>5, <1>6 DEF Numbers
<1>8. SumFunctionOnSet(share, rated) = a
  BY <1>5, <1>7, SumSame
<1>9. a <= 10000 * d
  BY <1>6, <1>7, SumBounded
<1>11. a \in Nat /\ d \in Nat /\ d > 0
  <2>1. \A c \in rated : shares[c] >= 0 /\ category_weights[c] >= 0
    BY <1>3, <1>6
  <2>2. a \in Nat /\ d \in Nat /\ \A c \in rated : d >= category_weights[c]
    BY <1>7, <2>1, SumNat
  <2>3. PICK c \in rated : TRUE
    BY <1>10
  <2>4. category_weights[c] \in 8..18 /\ d >= category_weights[c]
    BY <1>3, <2>2
  <2>5. QED
    BY <2>2, <2>4
<1>12. QED
  BY <1>4, <1>7, <1>8, <1>9, <1>11, SMTT(60) DEF shares, rated

(* Each part of it rises.                                                    *)
LEMMA SharesRise ==
  ASSUME NEW row, NEW after, NEW key, Improves(row, after, key), NEW profile
  PROVE  \A c \in RatedOf(row, key, profile) :
           ShareOf(row, key, profile)[c] <= ShareOf(after, key, profile)[c]
<1> SUFFICES ASSUME NEW c \in RatedOf(row, key, profile)
             PROVE  ShareOf(row, key, profile)[c] <= ShareOf(after, key, profile)[c]
  OBVIOUS
<1>1. c \in RatedOf(after, key, profile) /\ c \in CATEGORIES
  BY CategoriesRise DEF RatedOf
<1>2. Worth(row) /\ Worth(after)
  BY CountingWorth DEF Improves
<1>3. Scored(ScoreOf(row, key, profile))
  BY <1>2, RatingRange DEF Percentages
<1>4. Scored(ScoreOf(after, key, profile))
  BY <1>1, <1>2, RatingRange, SMTT(60) DEF Percentages
<1> DEFINE w == category_weights[c]
           x == ScoreOf(row, key, profile)[c]
           y == ScoreOf(after, key, profile)[c]
<1>5. x \in 0..10000
  BY <1>3, SMTT(60) DEF Scored, ScoreOf
<1>6. y \in 0..10000
  BY <1>1, <1>4 DEF Scored, ScoreOf
<1>7. x <= y
  BY CategoriesRise
<1>8. w \in 8..18
  BY <1>1 DEF CATEGORIES, category_weights
<1>9. ShareOf(row, key, profile)[c] = w * x /\ ShareOf(after, key, profile)[c] = w * y
  BY <1>1 DEF ShareOf
<1> HIDE DEF w, x, y
<1>10. w * x <= w * y
  BY <1>5, <1>6, <1>7, <1>8
<1>11. QED
  BY <1>9, <1>10

(* The rating does not fall.                                                 *)
LEMMA RatingRises ==
  ASSUME NEW row, NEW after, NEW key, Improves(row, after, key), NEW profile,
         RatedOf(row, key, profile) # {}
  PROVE  RatingOf(row, key, profile) <= RatingOf(after, key, profile)
<1>1. Worth(row) /\ Worth(after)
  BY CountingWorth DEF Improves
<1>2. PICK R, T, f, g : /\ R = RatedOf(row, key, profile) /\ T = RatedOf(after, key, profile)
                        /\ f = ShareOf(row, key, profile) /\ g = ShareOf(after, key, profile)
  OBVIOUS
<1>3. R # {} /\ R \subseteq T /\ T \subseteq CATEGORIES
  BY <1>2, CategoriesRise DEF RatedOf
<1>4. PICK rest : rest = T \ R
  OBVIOUS
<1>5. R \cup rest = T /\ R \cap rest = {} /\ rest \subseteq T /\ T # {}
  BY <1>3, <1>4
<1>6. PICK a, b, d, n : /\ a = SumFunctionOnSet(f, R) /\ b = SumFunctionOnSet(g, T)
                        /\ d = SumFunctionOnSet(category_weights, R)
                        /\ n = SumFunctionOnSet(category_weights, T)
  OBVIOUS
<1>7. /\ RatingOf(row, key, profile) = (a \div d + 50) \div 100
      /\ Numbers(f, R) /\ a \in Nat /\ d \in Nat /\ d > 0 /\ a <= 10000 * d
  BY <1>1, <1>2, <1>3, <1>6, RatingIs
<1>8. /\ RatingOf(after, key, profile) = (b \div n + 50) \div 100
      /\ Numbers(g, T) /\ Numbers(category_weights, T) /\ b \in Nat /\ n \in Nat
  BY <1>1, <1>2, <1>5, <1>6, RatingIs
<1>9. \A c \in T : category_weights[c] \in 8..18
  BY <1>3 DEF CATEGORIES, category_weights
<1>10. \A c \in R : f[c] <= g[c]
  BY <1>2, SharesRise
<1>11. \A c \in rest : g[c] = 10000 * category_weights[c]
  <2> SUFFICES ASSUME NEW c \in rest PROVE g[c] = 10000 * category_weights[c]
    OBVIOUS
  <2>1. ScoreOf(after, key, profile)[c] = 10000
    BY <1>2, <1>4, CategoriesRise
  <2>2. g[c] = category_weights[c] * 10000 /\ category_weights[c] \in 8..18
    BY <1>2, <1>3, <1>4, <1>9, <2>1 DEF ShareOf
  <2>3. QED
    BY <2>2
<1>12. /\ Numbers(g, R) /\ Numbers(g, rest)
       /\ Numbers(category_weights, rest)
  BY <1>3, <1>5, <1>8, FS_Subset DEF Numbers
<1>13. PICK v, u, e : /\ v = SumFunctionOnSet(g, R) /\ u = SumFunctionOnSet(g, rest)
                      /\ e = SumFunctionOnSet(category_weights, rest)
  OBVIOUS
<1>14. b = v + u /\ n = d + e
  BY <1>5, <1>6, <1>8, <1>13, SumUnion
<1>15. v \in Int /\ u \in Int /\ e \in Nat
  <2>1. \A c \in rest : category_weights[c] >= 0
    BY <1>5, <1>9
  <2>2. QED
    BY <1>12, <1>13, <2>1, SumFirst, SumNat
<1>16. a <= v
  <2>1. \A c \in R : f[c] <= 1 * g[c]
    BY <1>7, <1>10, <1>12 DEF Numbers
  <2>2. a <= 1 * v
    BY <1>6, <1>7, <1>12, <1>13, <2>1, SumBounded
  <2>3. QED
    BY <1>15, <2>2
<1>17. 10000 * e <= u
  <2>1. \A c \in rest : 10000 * category_weights[c] <= g[c]
    BY <1>5, <1>9, <1>11
  <2>2. QED
    BY <1>12, <1>13, <2>1, SumAtLeast
<1>18. a + 10000 * e <= b
  BY <1>7, <1>8, <1>14, <1>15, <1>16, <1>17
<1>19. (a \div d + 50) \div 100 <= (b \div (d + e) + 50) \div 100
  BY <1>7, <1>8, <1>15, <1>18, MeanRises
<1>20. QED
  BY <1>7, <1>8, <1>14, <1>19

(* What is covered stays covered.                                            *)
LEMMA CoveredStays ==
  ASSUME NEW m \in Nat, NEW n \in Nat, NEW gap \in Nat, m <= n,
         NEW p \in {evidence_min_coverage, canonical_min_coverage},
         100 * m >= p * (m + gap)
  PROVE  100 * n >= p * (n + gap)
<1>1. p \in {60, 85}
  BY DEF evidence_min_coverage, canonical_min_coverage
<1>2. QED
  BY <1>1

OutcomesOf(row) == \A s \in Counted(Manifest) : row[s].state \in OutcomeStates

(* The status does not fall.                                                 *)
LEMMA StatusRises ==
  ASSUME NEW row, NEW after, NEW key, Improves(row, after, key), OutcomesOf(row), OutcomesOf(after),
         NEW profile
  PROVE  /\ \A p \in {evidence_min_coverage, canonical_min_coverage} :
              CoveredOf(row, key, p) => CoveredOf(after, key, p)
         /\ ~Insufficient(row, key, profile) => ~Insufficient(after, key, profile)
<1>1. PICK m, n : m = Weights(MeasuredOf(row, key)) /\ n = Weights(MeasuredOf(after, key))
  OBVIOUS
<1>2. PICK gap \in Nat :
        /\ m <= n
        /\ Weights(ApplicableOf(row, key)) = m + gap /\ Weights(ApplicableOf(after, key)) = n + gap
  BY <1>1, CoverageRises DEF OutcomesOf
<1>3. m \in Nat /\ n \in Nat
  <2>1. ASSUME NEW r, Rows(r) PROVE Weights(MeasuredOf(r, key)) \in Nat
    BY <2>1, WeightsAdd DEF MeasuredOf, ApplicableOf, Elements, Rows
  <2>2. QED
    BY <1>1, <2>1 DEF Improves, Counting
<1>4. ASSUME NEW p \in {evidence_min_coverage, canonical_min_coverage}, CoveredOf(row, key, p)
      PROVE  CoveredOf(after, key, p)
  <2>1. 100 * m >= p * (m + gap)
    BY <1>1, <1>2, <1>4 DEF CoveredOf
  <2>2. 100 * n >= p * (n + gap)
    BY <1>2, <1>3, <2>1, CoveredStays
  <2>3. QED
    BY <1>1, <1>2, <2>2 DEF CoveredOf
<1>5. ASSUME ~Insufficient(row, key, profile) PROVE ~Insufficient(after, key, profile)
  <2>1. /\ Weights(ApplicableOf(row, key)) # 0 /\ CoveredOf(row, key, evidence_min_coverage)
        /\ RatedOf(row, key, profile) # {}
    BY <1>5 DEF Insufficient
  <2>2. Weights(ApplicableOf(after, key)) # 0
    BY <1>2, <1>3, <2>1
  <2>3. CoveredOf(after, key, evidence_min_coverage)
    BY <1>4, <2>1
  <2>4. RatedOf(after, key, profile) # {}
    BY <2>1, CategoriesRise
  <2>5. QED
    BY <2>2, <2>3, <2>4 DEF Insufficient
<1>6. QED
  BY <1>4, <1>5

(* A gate that fires fired before.                                           *)
LEMMA GatesShrink ==
  ASSUME NEW row, NEW after, NEW key, Improves(row, after, key)
  PROVE  GatesOf(after) \subseteq GatesOf(row)
<1>1. DOMAIN row = Counted(Manifest) /\ DOMAIN after = Counted(Manifest)
  BY DEF Improves, Counting, Rows
<1>2. \A s \in Counted(Manifest) : after[s].state = FAIL => row[s].state = FAIL
  BY BetterStates DEF Improves
<1>3. QED
  BY <1>1, <1>2 DEF GatesOf

(* Weighted rules of one root cause.                                         *)
SharesGroup(s, t) ==
  s.effect = "weighted" /\ t.effect = "weighted" /\ s.group # "" /\ s.group = t.group

(* A capability that is added weighs no more than the measured rules it      *)
(* shares a group with.                                                      *)
LightNewcomers(before, after) ==
  \A s, t \in Counted(Manifest) :
    /\ SharesGroup(s, t)
    /\ before[s.code].state = NA /\ after[s.code].state = PASS
    /\ before[t.code].state \in MEASURED_STATES
    => weight(s) <= weight(t)

AllBetter(before, after) == \A c \in Rated : Better(before[c], after[c])

(* The outcomes of a site of one type, as rows.                              *)
LEMMA RowsImprove ==
  ASSUME NEW before, NEW after, Rateable(before), Countable(before), Rateable(after),
         Countable(after), AllBetter(before, after), LightNewcomers(before, after),
         NEW profile, NEW key
  PROVE  /\ Improves(RowsOf(before, profile), RowsOf(after, profile), key)
         /\ OutcomesOf(RowsOf(before, profile)) /\ OutcomesOf(RowsOf(after, profile))
<1>1. PICK row, next : row = RowsOf(before, profile) /\ next = RowsOf(after, profile)
  OBVIOUS
<1>2. \A s \in Counted(Manifest) :
        /\ row[s].state \in OutcomeStates
        /\ category_applies(s.category, profile) => row[s] = before[s.code]
        /\ ~category_applies(s.category, profile) => row[s].state = NA
  BY <1>1, RowStates
<1>3. \A s \in Counted(Manifest) :
        /\ next[s].state \in OutcomeStates
        /\ category_applies(s.category, profile) => next[s] = after[s.code]
        /\ ~category_applies(s.category, profile) => next[s].state = NA
  BY <1>1, RowStates
<1>4. Rows(row) /\ Rows(next)
  BY <1>1 DEF RowsOf, Rows
<1>5. NA \notin MEASURED_STATES
  BY DEF NA, MEASURED_STATES, PASS, WARN, FAIL
<1>6. Counting(row)
  BY <1>2, <1>4, <1>5 DEF Counting, Countable
<1>7. Counting(next)
  BY <1>3, <1>4, <1>5 DEF Counting, Countable
<1>8. \A s \in Counted(Manifest) : Better(row[s], next[s])
  <2> SUFFICES ASSUME NEW s \in Counted(Manifest) PROVE Better(row[s], next[s])
    OBVIOUS
  <2>1. CASE category_applies(s.category, profile)
    <3>1. Better(before[s.code], after[s.code])
      BY DEF AllBetter, Rated
    <3>2. QED
      BY <1>2, <1>3, <2>1, <3>1
  <2>2. CASE ~category_applies(s.category, profile)
    <3>1. row[s] = next[s]
      BY <1>1, <2>2 DEF RowsOf, Found
    <3>2. QED
      BY <3>1 DEF Better
  <2>3. QED
    BY <2>1, <2>2
<1>9. ASSUME NEW s \in Counted(Manifest), NEW t \in Counted(Manifest), SameCause(s, t, next, key),
             row[s].state = NA, row[t].state \in MEASURED_STATES
      PROVE  weight(s) <= weight(t)
  <2>1. SharesGroup(s, t) /\ next[s].state \in MEASURED_STATES
    BY <1>9 DEF SameCause, SharesGroup
  <2>2. s.category = t.category
    BY <2>1, GroupsAssumption DEF SharesGroup, Counted
  <2>3. category_applies(s.category, profile)
    BY <1>2, <1>5, <1>9, <2>2
  <2>4. /\ row[s] = before[s.code] /\ row[t] = before[t.code] /\ next[s] = after[s.code]
    BY <1>2, <1>3, <2>2, <2>3
  <2>5. next[s].state = PASS
    BY <1>5, <1>8, <1>9, <2>1, BetterStates
  <2>6. QED
    BY <1>9, <2>1, <2>4, <2>5 DEF LightNewcomers
<1>10. Improves(row, next, key)
  BY <1>6, <1>7, <1>8, <1>9 DEF Improves
<1>11. QED
  BY <1>1, <1>2, <1>3, <1>10 DEF OutcomesOf

(* The report that is published is no worse.                                 *)
Raises(before, after) ==
  /\ after.rating >= before.rating
  /\ StatusRank(after.status) >= StatusRank(before.status)
  /\ \A c \in DOMAIN before.categories :
       c \in DOMAIN after.categories /\ after.categories[c] >= before.categories[c]
  /\ after.gates \subseteq before.gates

(* The scores of the categories are not.                                     *)
LEMMA ScoresRise ==
  ASSUME NEW row, NEW after, NEW key, Improves(row, after, key), NEW profile
  PROVE  \A c \in DOMAIN ScoreOf(row, key, profile) :
           /\ c \in DOMAIN ScoreOf(after, key, profile)
           /\ ScoreOf(after, key, profile)[c] >= ScoreOf(row, key, profile)[c]
<1> SUFFICES ASSUME NEW c \in DOMAIN ScoreOf(row, key, profile)
             PROVE  /\ c \in DOMAIN ScoreOf(after, key, profile)
                    /\ ScoreOf(after, key, profile)[c] >= ScoreOf(row, key, profile)[c]
  OBVIOUS
<1>1. Worth(row) /\ Worth(after)
  BY CountingWorth DEF Improves
<1>2. c \in RatedOf(row, key, profile)
  BY DEF ScoreOf
<1>3. c \in RatedOf(after, key, profile)
  BY <1>2, CategoriesRise
<1>4. c \in DOMAIN ScoreOf(after, key, profile)
  BY <1>3, SMTT(60) DEF ScoreOf
<1> DEFINE x == ScoreOf(row, key, profile)[c]
           y == ScoreOf(after, key, profile)[c]
<1>5. x \in 0..10000
  BY <1>1, <1>2, RatingRange, SMTT(60) DEF Percentages, Scored
<1>6. y \in 0..10000
  BY <1>1, <1>3, <1>4, RatingRange DEF Percentages, Scored
<1>7. x <= y
  BY <1>2, CategoriesRise
<1> HIDE DEF x, y
<1>8. y >= x
  BY <1>5, <1>6, <1>7
<1>9. QED
  BY <1>4, <1>8 DEF x, y

(* Nor is what becomes of better outcomes.                                   *)
LEMMA ScoreRises ==
  ASSUME NEW before, NEW after, Rateable(before), Countable(before), Rateable(after),
         Countable(after), AllBetter(before, after), LightNewcomers(before, after),
         NEW profile, NEW key
  PROVE  Raises(score_r2(before, key, profile, Manifest), score_r2(after, key, profile, Manifest))
<1>1. PICK row, next : row = RowsOf(before, profile) /\ next = RowsOf(after, profile)
  OBVIOUS
<1>2. PICK r, q : /\ r = score_r2(before, key, profile, Manifest)
                  /\ q = score_r2(after, key, profile, Manifest)
  OBVIOUS
<1>3. Improves(row, next, key) /\ OutcomesOf(row) /\ OutcomesOf(next)
  BY <1>1, RowsImprove
<1>4. Worth(row) /\ Worth(next)
  BY <1>3, CountingWorth DEF Improves
<1>5. /\ r.categories = ScoreOf(row, key, profile) /\ r.gates = GatesOf(row)
      /\ IF Insufficient(row, key, profile)
           THEN r.status = "INSUFFICIENT_EVIDENCE" /\ r.rating = -1
           ELSE /\ r.status \in {"DEGRADED", "OK"} /\ r.rating = RatingOf(row, key, profile)
                /\ r.status = "OK" => CoveredOf(row, key, canonical_min_coverage)
  BY <1>1, <1>2, ScoreParts
<1>6. /\ q.categories = ScoreOf(next, key, profile) /\ q.gates = GatesOf(next)
      /\ IF Insufficient(next, key, profile)
           THEN q.status = "INSUFFICIENT_EVIDENCE" /\ q.rating = -1
           ELSE /\ q.status \in {"DEGRADED", "OK"} /\ q.rating = RatingOf(next, key, profile)
                /\ (CoveredOf(next, key, canonical_min_coverage)
                     /\ \A s \in ApplicableOf(next, key) : next[s].state # ERROR) => q.status = "OK"
  BY <1>1, <1>2, ScoreParts
<1>7. q.gates \subseteq r.gates
  BY <1>3, <1>5, <1>6, GatesShrink
<1>8. \A c \in DOMAIN r.categories :
        c \in DOMAIN q.categories /\ q.categories[c] >= r.categories[c]
  BY <1>3, <1>5, <1>6, ScoresRise
<1>9. CASE Insufficient(row, key, profile)
  <2>1. r.rating = -1 /\ StatusRank(r.status) = 0
    BY <1>5, <1>9 DEF StatusRank
  <2>2. q.rating = -1 \/ q.rating \in 0..100
    <3>1. CASE Insufficient(next, key, profile)
      BY <1>6, <3>1
    <3>2. CASE ~Insufficient(next, key, profile)
      BY <1>4, <1>6, <3>2, RatingRange DEF Percentages, Insufficient
    <3>3. QED
      BY <3>1, <3>2
  <2>3. StatusRank(q.status) \in 0..2
    BY <1>6 DEF StatusRank
  <2>4. q.rating >= r.rating /\ StatusRank(q.status) >= StatusRank(r.status)
    BY <2>1, <2>2, <2>3
  <2>5. QED
    BY <1>2, <1>7, <1>8, <2>4 DEF Raises
<1>10. CASE ~Insufficient(row, key, profile)
  <2>1. ~Insufficient(next, key, profile)
    BY <1>3, <1>10, StatusRises
  <2>2. RatingOf(row, key, profile) <= RatingOf(next, key, profile)
    BY <1>3, <1>10, RatingRises DEF Insufficient
  <2>3. RatingOf(row, key, profile) \in 0..100 /\ RatingOf(next, key, profile) \in 0..100
    BY <1>4, <1>10, <2>1, RatingRange DEF Percentages, Insufficient
  <2>4. q.rating >= r.rating
    BY <1>5, <1>6, <1>10, <2>1, <2>2, <2>3
  <2>5. r.status = "OK" => q.status = "OK"
    <3> SUFFICES ASSUME r.status = "OK" PROVE q.status = "OK"
      OBVIOUS
    <3>1. CoveredOf(next, key, canonical_min_coverage)
      BY <1>3, <1>5, <1>10, StatusRises
    <3>2. \A s \in ApplicableOf(next, key) : next[s].state # ERROR
      BY <1>3, <1>4 DEF OutcomesOf, ApplicableOf, Elements, Worth, OutcomeStates, MEASURED_STATES,
                        PASS, WARN, FAIL, NA, NOT_MEASURED, ERROR
    <3>3. QED
      BY <1>6, <2>1, <3>1, <3>2
  <2>6. StatusRank(q.status) >= StatusRank(r.status)
    BY <1>5, <1>6, <1>10, <2>1, <2>5 DEF StatusRank
  <2>7. QED
    BY <1>2, <1>7, <1>8, <2>4, <2>6 DEF Raises
<1>11. QED
  BY <1>9, <1>10

(* What is reported of a site whose rules became better is no worse.         *)
LEMMA RepairReport ==
  ASSUME NEW s, NEW t, WellFormed(s), WellFormed(t), t.type = s.type,
         t.host.evidence_key = s.host.evidence_key,
         AllBetter(Report(s).outcomes, Report(t).outcomes),
         LightNewcomers(Report(s).outcomes, Report(t).outcomes)
  PROVE  Raises(Report(s), Report(t))
<1>0. PICK key, profile : key = s.host.evidence_key /\ profile = s.type
  OBVIOUS
<1>1. ASSUME NEW u, WellFormed(u), u.type = profile, u.host.evidence_key = key
      PROVE  LET outcomes == Report(u).outcomes
                 res == score_r2(outcomes, key, profile, Manifest)
             IN /\ Rateable(outcomes) /\ Countable(outcomes)
                /\ Report(u).status = res.status /\ Report(u).rating = res.rating
                /\ Report(u).categories = res.categories /\ Report(u).gates = res.gates
  <2> DEFINE pages == KeptPages(u.store.pages, u.tokenizer)
  <2>1. IsFiniteSet(DOMAIN pages)
    <3>1. DOMAIN pages \subseteq DOMAIN u.store.pages
      BY DEF KeptPages
    <3>2. QED
      BY <1>1, <3>1, FS_Subset DEF WellFormed
  <2> HIDE DEF pages
  <2>2. PICK outcomes :
          /\ Rateable(outcomes) /\ Countable(outcomes) /\ Report(u).outcomes = outcomes
          /\ LET res == score_r2(outcomes, key, profile, Manifest)
             IN /\ Report(u).status = res.status /\ Report(u).rating = res.rating
                /\ Report(u).categories = res.categories /\ Report(u).gates = res.gates
    BY <1>1, <2>1, ReportParts, OutcomesRateable, OutcomesCountable DEF pages
  <2>3. QED
    BY <2>2
<1>2. PICK before, after : before = Report(s).outcomes /\ after = Report(t).outcomes
  OBVIOUS
<1>3. PICK r, q : /\ r = score_r2(before, key, profile, Manifest)
                  /\ q = score_r2(after, key, profile, Manifest)
  OBVIOUS
<1>4. /\ Rateable(before) /\ Countable(before)
      /\ Report(s).status = r.status /\ Report(s).rating = r.rating
      /\ Report(s).categories = r.categories /\ Report(s).gates = r.gates
  BY <1>0, <1>1, <1>2, <1>3
<1>5. /\ Rateable(after) /\ Countable(after)
      /\ Report(t).status = q.status /\ Report(t).rating = q.rating
      /\ Report(t).categories = q.categories /\ Report(t).gates = q.gates
  BY <1>0, <1>1, <1>2, <1>3
<1>6. Raises(r, q)
  BY <1>2, <1>3, <1>4, <1>5, ScoreRises
<1>7. QED
  BY <1>4, <1>5, <1>6 DEF Raises

(* What is lost between two scans changes neither the type of the site nor   *)
(* what its host says belongs together.                                      *)
LEMMA LossesKeepTerms ==
  ASSUME WellFormed(site), NEW t \in Losses \cup UnparsedPages \cup Refusals
  PROVE  t.type = site.type /\ t.host = site.host
<1>1. {"store", "type", "host"} \subseteq DOMAIN site
  BY DEF WellFormed
<1>2. ASSUME NEW store, t = [site EXCEPT !.store = store]
      PROVE  t.type = site.type /\ t.host = site.host
  BY <1>1, <1>2
<1>3. ASSUME NEW g, NEW how, t = LostDocument(g, how) PROVE \E store : t = [site EXCEPT !.store = store]
  <2>1. t = [site EXCEPT !.store = [site.store EXCEPT ![g] = Lost(g, site.store[g], how)]]
    BY <1>3 DEF LostDocument
  <2>2. QED
    BY <2>1
<1>4. CASE t \in Refusals
  BY <1>2, <1>3, <1>4 DEF Refusals
<1>5. CASE t \in UnparsedPages
  <2>1. PICK i \in DOMAIN site.store.pages : t = [site EXCEPT !.store.pages[i].parsed = FALSE]
    BY <1>5 DEF UnparsedPages
  <2>2. t = [site EXCEPT !.store =
                [site.store EXCEPT !.pages[i] = [site.store.pages[i] EXCEPT !.parsed = FALSE]]]
    BY <2>1
  <2>3. QED
    BY <1>2, <2>2
<1>6. CASE t \in Losses
  <2>1. CASE \E g \in Documents, how \in {Raised, NoAnswer, 503} : t = LostDocument(g, how)
    BY <1>2, <1>3, <2>1
  <2>2. CASE \E i \in DOMAIN site.store.pages : t = [site EXCEPT !.store.pages[i] = Challenge(@)]
    <3>1. PICK i \in DOMAIN site.store.pages : t = [site EXCEPT !.store.pages[i] = Challenge(@)]
      BY <2>2
    <3>2. t = [site EXCEPT !.store = [site.store EXCEPT !.pages[i] = Challenge(site.store.pages[i])]]
      BY <3>1
    <3>3. QED
      BY <1>2, <3>2
  <2>3. CASE t = [site EXCEPT !.store.robots_txt.truncated = TRUE]
    <3>1. t = [site EXCEPT !.store =
                  [site.store EXCEPT !.robots_txt = [site.store.robots_txt EXCEPT !.truncated = TRUE]]]
      BY <2>3
    <3>2. QED
      BY <1>2, <3>1
  <2>4. CASE t = [site EXCEPT !.tokenizer = FALSE]
    BY <1>1, <2>4
  <2>5. QED
    BY <1>6, <2>1, <2>2, <2>3, <2>4 DEF Losses
<1>7. QED
  BY <1>4, <1>5, <1>6

(* An edit of a site leaves the type of the site and what its host says      *)
(* belongs together.                                                         *)
EditsKeepTerms ==
  \A s : WellFormed(s) =>
    \A t \in Edits(s) : t.type = s.type /\ t.host.evidence_key = s.host.evidence_key

(* The report is that of a site of the same type and the same grouping.      *)
ReportedOf(s) ==
  /\ WellFormed(s) /\ report = Report(s)
  /\ site.type = s.type /\ site.host.evidence_key = s.host.evidence_key

RepairInv == WellFormed(site) /\ \E s : ReportedOf(s)

LEMMA RepairInit == Init => RepairInv
  BY SitesAssumption DEF Init, RepairInv, ReportedOf

(* Edits and losses keep the terms of the comparison, a scan renews it.      *)
LEMMA RepairNext ==
  ASSUME EditsKeepSites, EditsKeepTerms
  PROVE  RepairInv /\ [Next]_vars => RepairInv'
<1> SUFFICES ASSUME RepairInv, [Next]_vars PROVE RepairInv'
  OBVIOUS
<1>1. WellFormed(site)
  BY DEF RepairInv
<1>2. PICK s : ReportedOf(s)
  BY DEF RepairInv
<1>3. ASSUME NEW kind, NEW sites, Between(kind, sites),
             \A t \in sites : /\ WellFormed(t) /\ t.type = site.type
                              /\ t.host.evidence_key = site.host.evidence_key
      PROVE  RepairInv'
  <2>1. site' \in sites /\ report' = report
    BY <1>3 DEF Between
  <2>2. WellFormed(site')
    BY <1>3, <2>1
  <2>3. /\ WellFormed(s) /\ report' = Report(s) /\ site'.type = s.type
        /\ site'.host.evidence_key = s.host.evidence_key
    BY <1>2, <1>3, <2>1 DEF ReportedOf
  <2>4. QED
    BY <2>2, <2>3 DEF RepairInv, ReportedOf
<1>4. CASE Edit
  BY <1>1, <1>3, <1>4 DEF Edit, EditsKeepSites, EditsKeepTerms
<1>5. CASE Lose \/ LosePage \/ Refuse
  <2>1. \A t \in Losses \cup UnparsedPages \cup Refusals :
          /\ WellFormed(t) /\ t.type = site.type
          /\ t.host.evidence_key = site.host.evidence_key
    BY <1>1, LossesKeepSites, LossesKeepTerms
  <2>2. CASE Lose
    BY <1>3, <2>1, <2>2 DEF Lose
  <2>3. CASE LosePage
    BY <1>3, <2>1, <2>3 DEF LosePage
  <2>4. CASE Refuse
    BY <1>3, <2>1, <2>4 DEF Refuse
  <2>5. QED
    BY <1>5, <2>2, <2>3, <2>4
<1>6. CASE Scan
  <2>1. site' = site /\ report' = Report(site)
    BY <1>6 DEF Scan
  <2>2. QED
    BY <1>1, <2>1 DEF RepairInv, ReportedOf
<1>7. CASE UNCHANGED <<site, report>>
  BY <1>1, <1>2, <1>7 DEF RepairInv, ReportedOf
<1>8. QED
  BY <1>4, <1>5, <1>6, <1>7
     DEF Next, vars, Invoke, WriteReport, Contribute, JobScan, JobOutputs, JobGate

(* A new report is that of the site.                                         *)
LEMMA NewReport == [Next]_vars /\ report' # report => report' = Report(site)
  BY DEF Next, vars, Edit, Lose, LosePage, Refuse, Between, Scan, Invoke, WriteReport, Contribute,
         JobScan, JobOutputs, JobGate

(* "Fixing any member can therefore only raise the rating": for every site,  *)
(* manifest and host, a report in which no rule got worse has at least the   *)
(* rating, the status and the scores of the one before, and no gate that did *)
(* not fire before, when a capability that was added weighs no more than the *)
(* measured rules of its group.                                              *)
THEOREM RepairsOnlyRaise ==
  ASSUME EditsKeepSites, EditsKeepTerms
  PROVE  Spec => [][ AllBetter(report.outcomes, report'.outcomes)
                       /\ LightNewcomers(report.outcomes, report'.outcomes)
                     => Raises(report, report') ]_report
<1>1. RepairInv /\ [Next]_vars =>
        [ AllBetter(report.outcomes, report'.outcomes)
            /\ LightNewcomers(report.outcomes, report'.outcomes)
          => Raises(report, report') ]_report
  <2> SUFFICES ASSUME RepairInv, [Next]_vars, report' # report,
                      AllBetter(report.outcomes, report'.outcomes),
                      LightNewcomers(report.outcomes, report'.outcomes)
               PROVE  Raises(report, report')
    OBVIOUS
  <2>1. PICK s : ReportedOf(s)
    BY DEF RepairInv
  <2>2. WellFormed(site) /\ report' = Report(site)
    BY NewReport DEF RepairInv
  <2>3. /\ WellFormed(s) /\ report = Report(s) /\ site.type = s.type
        /\ site.host.evidence_key = s.host.evidence_key
    BY <2>1 DEF ReportedOf
  <2>4. QED
    BY <2>2, <2>3, RepairReport
<1>2. QED
  BY <1>1, RepairInit, RepairNext, PTL DEF Spec

(* All rules of a group weigh the same.                                      *)
EvenGroups == \A s, t \in Counted(Manifest) : SharesGroup(s, t) => weight(s) = weight(t)

(* With such groups, as with the shipped manifest, which has none, repairs   *)
(* never lower the rating, the status or a category, and never fire a gate.  *)
THEOREM RepairsNeverLower ==
  ASSUME EditsKeepSites, EditsKeepTerms, EvenGroups
  PROVE  Spec => RepairNeverLowers
<1>1. \A before, after : LightNewcomers(before, after)
  BY RowReads DEF LightNewcomers, EvenGroups
<1>2. [ AllBetter(report.outcomes, report'.outcomes)
          /\ LightNewcomers(report.outcomes, report'.outcomes)
        => Raises(report, report') ]_report
      => [ (\A c \in Rated : Better(report.outcomes[c], report'.outcomes[c]))
             => /\ report'.rating >= report.rating
                /\ StatusRank(report'.status) >= StatusRank(report.status)
                /\ \A c \in DOMAIN report.categories :
                     c \in DOMAIN report'.categories
                       /\ report'.categories[c] >= report.categories[c]
                /\ report'.gates \subseteq report.gates ]_report
  BY <1>1 DEF AllBetter, Raises
<1>3. QED
  BY <1>2, RepairsOnlyRaise, PTL DEF RepairNeverLowers
=============================================================================
