---------------------------- MODULE RuleOutcomes ----------------------------
(* One outcome per rule per scan: the manifest of the public rules and the   *)
(* robots gate (r2/technical.py, r2/manifest.py), the verdict of every rule  *)
(* over the sampled pages and the domain (r2/evaluate.py), and what a        *)
(* verdict becomes when Technical Readiness reads it.                        *)
EXTENDS RulesDomain, RulesPage

PASS == "PASS"
WARN == "WARN"
FAIL == "FAIL"
ERROR == "ERROR"
UNKNOWN == "UNKNOWN"
MEASURED_STATES == {PASS, WARN, FAIL}

-----------------------------------------------------------------------------
(* The manifest.                                                             *)

Family(scope, category, maturity, severity, codes) ==
  {[code |-> c, scope |-> scope, category |-> category, maturity |-> maturity,
    severity |-> severity] : c \in codes}

DomainRules ==
  UNION {
    Family("domain", "actionability", "required", "medium",
           {"MCP_ENDPOINT_ABSENT", "MCP_DISCOVERY_INVALID"}),
    Family("domain", "actionability", "required", "info", {"AGENT_INTERFACE_DISCOVERY_ABSENT"}),
    Family("domain", "actionability", "experimental", "medium",
           {"SERVER-CARD-005", "AGENT-META-001", "AGENT-META-004", "AGENT-META-008",
            "MCP-AUTH-001", "WEBMCP-004"}),
    Family("domain", "actionability", "experimental", "low",
           {"SERVER-CARD-004", "MCP-OBS-001", "WEBMCP-002", "WEBMCP-003", "WEBMCP-005"}),
    Family("domain", "actionability", "experimental", "info", {"TOOL-RISK-001", "WEBMCP-001"}),
    Family("domain", "ucp", "required", "medium",
           {"UCP_PROFILE_ABSENT", "UCP_PROFILE_INVALID", "UCP_SIGNING_KEYS_INVALID"}),
    Family("domain", "ucp", "required", "low", {"UCP_CHECKOUT_MISSING"}),
    Family("domain", "ucp", "required", "info", {"AGENT_PAYMENTS_ABSENT"}),
    Family("domain", "discoverability", "required", "critical", {"AI_CRAWLER_BLOCKED"}),
    Family("domain", "discoverability", "required", "low",
           {"MARKDOWN_FOR_AGENTS_ABSENT", "SITEMAP_MISSING_OR_INVALID"}),
    Family("domain", "discoverability", "required", "info",
           {"LLMS_TXT_MISSING_OR_INVALID", "LINK_HEADERS_ABSENT", "CONTENT_SIGNALS_ABSENT",
            "AI-BOT-POLICY-001"}),
    Family("domain", "discoverability", "experimental", "medium", {"CONTENT-NEG-002"}),
    Family("domain", "discoverability", "experimental", "low",
           {"CONTENT-NEG-004", "CONTENT-SIGNAL-001", "MACHINE-REP-004", "MACHINE-REP-005",
            "CRAWL-GRAPH-001", "CRAWL-GRAPH-002"}),
    Family("domain", "discoverability", "experimental", "info", {"CRAWL-GRAPH-005"}),
    Family("domain", "trust", "experimental", "medium", {"LLMS-SUPPLY-002"}),
    Family("domain", "trust", "experimental", "high", {"LLMS-SUPPLY-006", "LLMS-SUPPLY-008"})}

PageRules ==
  UNION {
    Family("page", "structured", "required", "critical",
           {"PRICE_MISSING_INVALID", "MISSING_AVAILABILITY"}),
    Family("page", "structured", "required", "high",
           {"MISSING_PRODUCT_SCHEMA", "MISSING_OFFER_DATA"}),
    Family("page", "structured", "required", "medium", {"VARIANT_INFO_MISSING"}),
    Family("page", "structured", "required", "low",
           {"HEADING_HIERARCHY_POOR", "PAGE_TOKEN_BLOAT"}),
    Family("page", "structured", "required", "info", {"SEMANTIC_HTML_ABSENT"}),
    Family("page", "consistency", "required", "high", {"PRICE_MISMATCH"}),
    Family("page", "consistency", "required", "medium",
           {"INCONSISTENT_STRUCTURED_DATA", "DUPLICATE_CONFLICTING_ENTITIES"}),
    Family("page", "trust", "required", "medium",
           {"MISSING_RETURNS_POLICY", "SHIPPING_INFO_UNAVAILABLE",
            "MISSING_OG_META_FOR_CITATION"}),
    Family("page", "citability", "required", "low", {"CITABILITY_WEAK"}),
    Family("page", "actionability", "required", "high", {"JS_ONLY_CRITICAL_CONTENT"}),
    Family("page", "discoverability", "required", "high", {"BLOCKED_CRAWLABILITY"})}

RULES == DomainRules \cup PageRules
GATE_ROBOTS == "R2-GATE-ROBOTS-BLOCKS-AGENTS"
MARKER_CODES == {"AI-BOT-POLICY-001", "WEBMCP-001", "TOOL-RISK-001"}
ABSENCE_CODES == {"LLMS_TXT_MISSING_OR_INVALID", "MARKDOWN_FOR_AGENTS_ABSENT",
  "LINK_HEADERS_ABSENT", "CONTENT_SIGNALS_ABSENT", "UCP_PROFILE_ABSENT", "MCP_ENDPOINT_ABSENT",
  "AGENT_INTERFACE_DISCOVERY_ABSENT", "AGENT_PAYMENTS_ABSENT"}
LOW_BAND_WARN_CODES == {"CITABILITY_WEAK", "PAGE_TOKEN_BLOAT"}

rule_spec(rule, group) ==
  [code |-> rule.code, scope |-> rule.scope, category |-> rule.category,
   severity |-> rule.severity, maturity |-> rule.maturity, group |-> group,
   effect |-> IF rule.code \in MARKER_CODES THEN "diagnostic" ELSE "weighted"]

GATE_ROBOTS_SPEC ==
  [code |-> GATE_ROBOTS, scope |-> "domain", category |-> "discoverability",
   severity |-> "critical", maturity |-> "required", group |-> "agent_access_blocked",
   effect |-> "gate"]

(* A host may give weighted rules a root-cause group; the public manifest    *)
(* gives none.                                                               *)
technical_manifest(groups) ==
  {rule_spec(r, IF r.code \in DOMAIN groups THEN groups[r.code] ELSE "") : r \in RULES}
    \cup {GATE_ROBOTS_SPEC}

-----------------------------------------------------------------------------
(* evaluate and measure of every rule.                                       *)

DomainVerdict(code, dom, ctx) ==
  CASE code = "AI_CRAWLER_BLOCKED" -> AiCrawlerBlocked(dom, ctx)
    [] code = "AI-BOT-POLICY-001" -> AiBotPolicyDeclared(dom, ctx)
    [] code = "CONTENT_SIGNALS_ABSENT" -> ContentSignalsAbsent(dom, ctx)
    [] code = "CONTENT-SIGNAL-001" -> ContentSignalSyntax(dom, ctx)
    [] code = "SITEMAP_MISSING_OR_INVALID" -> SitemapMissingOrInvalid(dom, ctx)
    [] code = "LLMS_TXT_MISSING_OR_INVALID" -> LlmsTxtMissing(dom, ctx)
    [] code = "MARKDOWN_FOR_AGENTS_ABSENT" -> MarkdownForAgentsAbsent(dom, ctx)
    [] code = "LINK_HEADERS_ABSENT" -> LinkHeadersAbsent(dom, ctx)
    [] code = "CONTENT-NEG-002" -> ContentNegotiationInconsistent(dom, ctx)
    [] code = "CONTENT-NEG-004" -> ContentNegotiationVaryMissing(dom, ctx)
    [] code = "MACHINE-REP-004" -> MachineRepIndistinguishableFromHtml(dom, ctx)
    [] code = "MACHINE-REP-005" -> MachineRepVaryMissingPrefer(dom, ctx)
    [] code = "MCP_ENDPOINT_ABSENT" -> McpEndpointAbsent(dom, ctx)
    [] code = "MCP_DISCOVERY_INVALID" -> McpDiscoveryInvalid(dom, ctx)
    [] code = "AGENT_INTERFACE_DISCOVERY_ABSENT" -> AgentInterfaceDiscoveryAbsent(dom, ctx)
    [] code = "SERVER-CARD-004" -> ServerCardInterfaceUnreachable(dom, ctx)
    [] code = "SERVER-CARD-005" -> ServerCardIdentityMismatch(dom, ctx)
    [] code = "AGENT-META-001" -> AgentMetaPromptInjection(dom, ctx)
    [] code = "AGENT-META-004" -> AgentMetaNameCollision(dom, ctx)
    [] code = "AGENT-META-008" -> AgentMetaHiddenChars(dom, ctx)
    [] code = "MCP-OBS-001" -> McpObservabilityMissingProtocolVersionHeader(dom, ctx)
    [] code = "TOOL-RISK-001" -> ToolRiskClassification(dom, ctx)
    [] code = "MCP-AUTH-001" -> McpOAuthDiscoveryMissing(dom, ctx)
    [] code = "WEBMCP-001" -> WebMcpCapabilityPresent(dom, ctx)
    [] code = "WEBMCP-002" -> WebMcpToolsNotEnumerable(dom, ctx)
    [] code = "WEBMCP-003" -> WebMcpToolMetadataIncomplete(dom, ctx)
    [] code = "WEBMCP-004" -> WebMcpToolMetadataInjection(dom, ctx)
    [] code = "WEBMCP-005" -> WebMcpAnnotationsInconsistent(dom, ctx)
    [] code = "UCP_PROFILE_ABSENT" -> UcpProfileAbsent(dom, ctx)
    [] code = "UCP_PROFILE_INVALID" -> UcpProfileInvalid(dom, ctx)
    [] code = "UCP_CHECKOUT_MISSING" -> UcpCheckoutMissing(dom, ctx)
    [] code = "UCP_SIGNING_KEYS_INVALID" -> UcpSigningKeysInvalid(dom, ctx)
    [] code = "AGENT_PAYMENTS_ABSENT" -> AgentPaymentsAbsent(dom, ctx)
    [] code = "LLMS-SUPPLY-002" -> LlmsSupplyDomainResolves(dom, ctx)
    [] code = "LLMS-SUPPLY-006" -> LlmsSupplyRemoteExec(dom, ctx)
    [] code = "LLMS-SUPPLY-008" -> LlmsSupplyClaimableReference(dom, ctx)
    [] code = "CRAWL-GRAPH-001" -> CrawlGraphOrphanPages(dom, ctx)
    [] code = "CRAWL-GRAPH-002" -> CrawlGraphDeepPages(dom, ctx)
    [] code = "CRAWL-GRAPH-005" -> CrawlGraphDeadEndPages(dom, ctx)

PageVerdict(code, page, dom, ctx) ==
  CASE code = "MISSING_PRODUCT_SCHEMA" -> MissingProductSchema(page, dom, ctx)
    [] code = "MISSING_OFFER_DATA" -> MissingOfferData(page, dom, ctx)
    [] code = "PRICE_MISSING_INVALID" -> PriceMissingOrInvalid(page, dom, ctx)
    [] code = "MISSING_AVAILABILITY" -> AvailabilityMissing(page, dom, ctx)
    [] code = "VARIANT_INFO_MISSING" -> VariantInfoMissing(page, dom, ctx)
    [] code = "PRICE_MISMATCH" -> PriceMismatch(page, dom, ctx)
    [] code = "INCONSISTENT_STRUCTURED_DATA" -> InconsistentStructuredData(page, dom, ctx)
    [] code = "DUPLICATE_CONFLICTING_ENTITIES" -> DuplicateConflictingEntities(page, dom, ctx)
    [] code = "MISSING_RETURNS_POLICY" -> ReturnPolicyUnavailable(page, dom, ctx)
    [] code = "SHIPPING_INFO_UNAVAILABLE" -> ShippingInfoUnavailable(page, dom, ctx)
    [] code = "MISSING_OG_META_FOR_CITATION" -> MissingOgMeta(page, dom, ctx)
    [] code = "HEADING_HIERARCHY_POOR" -> HeadingHierarchyPoor(page, dom, ctx)
    [] code = "SEMANTIC_HTML_ABSENT" -> SemanticHtmlAbsent(page, dom, ctx)
    [] code = "PAGE_TOKEN_BLOAT" -> PageTokenBloat(page, dom, ctx)
    [] code = "CITABILITY_WEAK" -> LowCitability(page, dom, ctx)
    [] code = "JS_ONLY_CRITICAL_CONTENT" -> JsOnlyCriticalContent(page, dom, ctx)
    [] code = "BLOCKED_CRAWLABILITY" -> BlockedCrawlability(page, dom, ctx)

-----------------------------------------------------------------------------
(* From verdicts to outcomes.  A domain outcome has no page counts: zero.    *)

Outcome(state, reason) == [state |-> state, reason |-> reason, measured |-> 0, failed |-> 0]

domain_outcome(code, ctx, pages, verdict) ==
  IF GateReason(code, ctx.capabilities) # {} THEN Outcome(NA, "capability")
  ELSE IF pages = <<>> THEN Outcome(NOT_MEASURED, "no_pages_evaluated")
  ELSE IF verdict.measure # Measured THEN Outcome(verdict.measure, "predicate")
  ELSE Outcome(IF verdict.fires THEN FAIL ELSE PASS, "")

(* Mutant of page_verdicts: a page behind a bot wall is scored as content.   *)
page_verdicts_ScoresWalls(code, dom, ctx, pages) ==
  [i \in DOMAIN pages |-> PageVerdict(code, pages[i], dom, ctx)]

(* A page behind a bot wall is neither measured nor not applicable.          *)
page_verdicts(code, dom, ctx, pages) ==
  [i \in {j \in DOMAIN pages : ~pages[j].content_blocked} |-> PageVerdict(code, pages[i], dom, ctx)]

(* The band of a graded rule is the worst finding of the clean pages.        *)
page_outcome(code, ctx, pages, verdict) ==
  LET clean == DOMAIN verdict
      measured == {i \in clean : verdict[i].measure = Measured}
      failed == {i \in measured : verdict[i].fires}
      inBand == \A i \in clean : verdict[i].fires => verdict[i].severity = "low"
  IN IF GateReason(code, ctx.capabilities) # {} THEN Outcome(NA, "capability")
     ELSE IF measured # {}
       THEN [state |-> IF failed = {} THEN PASS
                       ELSE IF code \in LOW_BAND_WARN_CODES /\ inBand THEN WARN ELSE FAIL,
             reason |-> "", measured |-> Cardinality(measured), failed |-> Cardinality(failed)]
     ELSE IF clean # {} /\ \A i \in clean : verdict[i].measure = NA
       THEN Outcome(NA, "predicate")
     ELSE Outcome(NOT_MEASURED, IF clean # DOMAIN pages THEN "bot_protection_blocked"
                                ELSE IF pages = <<>> THEN "no_pages_evaluated" ELSE "predicate")

(* A missing optional agent capability is not a defect of the site.          *)
outcome_from_row(code, outcome) ==
  IF code \in ABSENCE_CODES /\ outcome.state \in {FAIL, WARN}
    THEN Outcome(NA, "capability_absent") ELSE outcome

(* A gate has no evidence of its own.                                        *)
derived_gate(source) ==
  Outcome(IF source.state \in MEASURED_STATES THEN source.state ELSE NA, "from the crawler rule")

RuleOutcome(rule, dom, ctx, pages) ==
  outcome_from_row(rule.code,
    IF rule.scope = "domain"
      THEN domain_outcome(rule.code, ctx, pages, DomainVerdict(rule.code, dom, ctx))
      ELSE page_outcome(rule.code, ctx, pages, page_verdicts(rule.code, dom, ctx, pages)))

ScopeOf == [c \in {r.code : r \in RULES} |-> CHOOSE r \in RULES : r.code = c]

rule_rows(dom, ctx, pages) ==
  [c \in DOMAIN ScopeOf |-> RuleOutcome(ScopeOf[c], dom, ctx, pages)]

technical_outcomes(rows) ==
  [c \in DOMAIN rows \cup {GATE_ROBOTS} |->
     IF c = GATE_ROBOTS THEN derived_gate(rows["AI_CRAWLER_BLOCKED"]) ELSE rows[c]]

=============================================================================
