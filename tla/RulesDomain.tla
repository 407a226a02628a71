---------------------------- MODULE RulesDomain ----------------------------
(* The domain-scope rules of the library (rules/*.py): what each one reports *)
(* and when it measured its evidence.  They read the blocks of the domain    *)
(* document `dom`; tools, agents and pages inside a block are records that   *)
(* keep what some rule tells apart, names being model values or strings.     *)
EXTENDS RuleBase

MCP_SITE_TYPES == {"commerce", "saas"}
UCP_APPLICABLE_SITE_TYPES == {"commerce", "booking", "restaurant", "saas"}
UCP_CHECKOUT_SITE_TYPES == {"commerce", "booking", "restaurant"}
DEEP_PAGE_DEPTH == 3
Unreachable == 1000               \* the depth None of a page no link leads to

-----------------------------------------------------------------------------
(* robots.txt, Content-Signal, sitemap (robots_policy.py, discoverability.py) *)

AiCrawlerBlocked(dom, ctx) ==
  Verdict(dom.robots.blocked # {}, probe_measured(dom, ctx, {"robots"}))

(* The policy is declared per AI-bot token: `declared` is the set of tokens. *)
AiBotPolicyDeclared(dom, ctx) ==
  Verdict(dom.ai_bot_policy.declared # {} /\ dom.ai_bot_policy.declared_any,
    Then(probe_measured(dom, ctx, {"ai_bot_policy", "robots"}),
      Then(NMUnless(dom.ai_bot_policy.declared # {}),
           NAUnless(dom.ai_bot_policy.declared_any))))

ContentSignalsAbsent(dom, ctx) ==
  Verdict("content_signals" \in dom.present /\ ~dom.content_signals.present,
          probe_measured(dom, ctx, {"content_signals"}))

ContentSignalSyntax(dom, ctx) ==
  Verdict(dom.content_signals.declared /\ dom.content_signals.syntax_errors,
    Then(probe_measured(dom, ctx, {"content_signals"}), NAUnless(dom.content_signals.declared)))

SitemapMissingOrInvalid(dom, ctx) ==
  Verdict("sitemap" \in dom.present /\ ~dom.sitemap.valid, probe_measured(dom, ctx, {"sitemap"}))

-----------------------------------------------------------------------------
(* Formats for agents (agent_formats.py, machine_rep.py).                    *)

LlmsTxtMissing(dom, ctx) ==
  Verdict(~(dom.llms_txt.exists /\ dom.llms_txt.valid), probe_measured(dom, ctx, {"llms_txt"}))

MarkdownForAgentsAbsent(dom, ctx) ==
  Verdict(~(dom.markdown_agents.negotiation \/ dom.markdown_agents.mirror),
    Then(probe_measured(dom, ctx, {"markdown_agents"}), NMUnless(dom.markdown_agents.status # 0)))

LinkHeadersAbsent(dom, ctx) ==
  Verdict("link_headers" \in dom.present /\ ~dom.link_headers.agent_relevant,
          probe_measured(dom, ctx, {"link_headers"}))

ClaimsMarkdown(md) == md.content_type \in {"text/markdown", "text/plain"}
LooksMarkdown(md) == md.body = "markdown"

negotiation_measured(dom, ctx, require_working) ==
  LET md == dom.markdown_agents
  IN Then(probe_measured(dom, ctx, {"markdown_agents"}),
       Then(NMUnless(md.status # 0),
         Then(NAUnless(md.status = 200),
           Then(NMUnless(md.body # "unread"),
             NAUnless(require_working => LooksMarkdown(md) /\ md.content_type = "text/markdown")))))

ContentNegotiationInconsistent(dom, ctx) ==
  LET md == dom.markdown_agents
  IN Verdict(md.status = 200 /\ md.body # "unread" /\ ClaimsMarkdown(md) # LooksMarkdown(md),
             negotiation_measured(dom, ctx, FALSE))

ContentNegotiationVaryMissing(dom, ctx) ==
  LET md == dom.markdown_agents
  IN Verdict(/\ md.status = 200 /\ LooksMarkdown(md) /\ ClaimsMarkdown(md) /\ md.vary # "accept",
             negotiation_measured(dom, ctx, TRUE))

preference_measured(dom, ctx) ==
  LET mr == dom.machine_rep
  IN Then(probe_measured(dom, ctx, {"machine_rep"}),
       Then(NMUnless(mr.attempted /\ mr.status # 0),
         NAUnless(mr.status = 200 /\ mr.preference_applied)))

PreferenceApplied(mr) == mr.attempted /\ mr.status = 200 /\ mr.preference_applied

MachineRepIndistinguishableFromHtml(dom, ctx) ==
  Verdict(PreferenceApplied(dom.machine_rep) /\ dom.machine_rep.content_type \in {"", "text/html"},
          preference_measured(dom, ctx))

MachineRepVaryMissingPrefer(dom, ctx) ==
  Verdict(PreferenceApplied(dom.machine_rep) /\ dom.machine_rep.vary # "prefer",
          preference_measured(dom, ctx))

-----------------------------------------------------------------------------
(* MCP discovery, handshake and interface (mcp.py).                          *)

SiteTypeGate(dom, ctx, key) ==
  Then(NAUnless(ctx.site_category \in MCP_SITE_TYPES), probe_measured(dom, ctx, {key}))

Declared(dom, ctx) == Then(probe_measured(dom, ctx, {"mcp"}), NAUnless(dom.mcp.exists))

(* Declared, but nobody spoke to it: not measured if an endpoint is known.   *)
NotSpokenTo(mcp) == IF mcp.endpoints THEN NOT_MEASURED ELSE NA

McpEndpointAbsent(dom, ctx) ==
  Verdict(dom.site_type \in MCP_SITE_TYPES /\ ~dom.mcp.exists /\ ~dom.mcp.server_card,
          SiteTypeGate(dom, ctx, "mcp"))

McpDiscoveryInvalid(dom, ctx) ==
  Verdict(dom.mcp.exists /\ dom.mcp.handshake.attempted /\ ~dom.mcp.handshake.ok,
    Then(Declared(dom, ctx),
         IF dom.mcp.handshake.attempted THEN Measured ELSE NotSpokenTo(dom.mcp)))

AgentInterfaceDiscoveryAbsent(dom, ctx) ==
  Verdict(dom.site_type \in MCP_SITE_TYPES /\ ~dom.agent_discovery.any_found,
          SiteTypeGate(dom, ctx, "agent_discovery"))

McpOAuthDiscoveryMissing(dom, ctx) ==
  LET hs == dom.mcp.handshake
      oauth == dom.mcp.oauth
  IN Verdict(hs.attempted /\ hs.auth_required /\ oauth.attempted /\ ~oauth.discovered,
       Then(Declared(dom, ctx),
         IF ~hs.attempted THEN NotSpokenTo(dom.mcp)
         ELSE Then(NAUnless(hs.auth_required), NMUnless(oauth.attempted))))

InterfaceMeasured(dom, ctx, need_ok, need_tools, need_headers) ==
  LET it == dom.mcp.interface
  IN Then(Declared(dom, ctx),
       Then(NMUnless("mcp_interface" \notin ctx.defaulted),
         IF ~it.attempted THEN NotSpokenTo(dom.mcp)
         ELSE Then(NMUnless(need_ok => it.ok),
                Then(NMUnless(need_headers => it.headers # "not recorded"),
                     NAUnless(need_tools => it.tools # <<>>)))))

ServerCardInterfaceUnreachable(dom, ctx) ==
  Verdict(dom.mcp.interface.attempted /\ ~dom.mcp.interface.ok /\ dom.mcp.endpoints,
    Then(InterfaceMeasured(dom, ctx, FALSE, FALSE, FALSE), NAUnless(dom.mcp.endpoints)))

ServerCardIdentityMismatch(dom, ctx) ==
  LET declared == dom.mcp.declared_name
      runtime == dom.mcp.interface.server_name
      named == declared # "" /\ runtime # ""
  IN Verdict(dom.mcp.interface.attempted /\ named /\ declared # runtime,
       Then(InterfaceMeasured(dom, ctx, FALSE, FALSE, FALSE), NAUnless(named)))


AgentMetaPromptInjection(dom, ctx) ==
  LET Injected(t) == t.injected
  IN Verdict(dom.mcp.interface.attempted /\ \E t \in Range(dom.mcp.interface.tools) : Injected(t),
             InterfaceMeasured(dom, ctx, TRUE, FALSE, FALSE))

AgentMetaHiddenChars(dom, ctx) ==
  LET Hidden(t) == t.hidden
  IN Verdict(dom.mcp.interface.attempted /\ \E t \in Range(dom.mcp.interface.tools) : Hidden(t),
             InterfaceMeasured(dom, ctx, TRUE, FALSE, FALSE))

(* Two tools of one name, or a tool named as a method of the protocol.       *)
NameCollision(tools) ==
  \/ \E i, j \in DOMAIN tools : i # j /\ tools[i].name = tools[j].name
  \/ \E i \in DOMAIN tools : tools[i].name = "tools/list"

AgentMetaNameCollision(dom, ctx) ==
  LET it == dom.mcp.interface
  IN Verdict(it.attempted /\ it.ok /\ NameCollision(it.tools),
             InterfaceMeasured(dom, ctx, TRUE, TRUE, FALSE))

McpObservabilityMissingProtocolVersionHeader(dom, ctx) ==
  LET it == dom.mcp.interface
  IN Verdict(it.attempted /\ it.ok /\ it.era # "modern" /\ it.headers = "without version",
       Then(InterfaceMeasured(dom, ctx, TRUE, FALSE, TRUE), NAUnless(it.era # "modern")))

NotableRisks == {"WRITE", "DESTRUCTIVE", "EXTERNAL_SIDE_EFFECT"}

ToolRiskClassification(dom, ctx) ==
  LET it == dom.mcp.interface
      Notable(t) == t.risk \in NotableRisks
  IN Verdict(it.attempted /\ it.ok /\ \E t \in Range(it.tools) : Notable(t),
             InterfaceMeasured(dom, ctx, TRUE, TRUE, FALSE))

-----------------------------------------------------------------------------
(* WebMCP, read by a browser probe (webmcp.py).                              *)

webmcp_measured(dom, ctx, need_present) ==
  LET w == dom.webmcp
  IN Then(probe_measured(dom, ctx, {"webmcp"}),
       Then(NMUnless(w.attempted /\ (w.error => w.present)), NAUnless(need_present => w.present)))

WebMcp(dom) == dom.webmcp.attempted /\ dom.webmcp.present

WebMcpCapabilityPresent(dom, ctx) == Verdict(WebMcp(dom), webmcp_measured(dom, ctx, FALSE))

WebMcpToolsNotEnumerable(dom, ctx) ==
  Verdict(WebMcp(dom) /\ (dom.webmcp.tools = <<>> \/ dom.webmcp.error),
          webmcp_measured(dom, ctx, TRUE))

WebMcpToolMetadataIncomplete(dom, ctx) ==
  LET Incomplete(t) == ~t.has_schema \/ ~t.described
  IN Verdict(WebMcp(dom) /\ \E t \in Range(dom.webmcp.tools) : Incomplete(t), webmcp_measured(dom, ctx, TRUE))

WebMcpToolMetadataInjection(dom, ctx) ==
  LET Suspicious(t) == t.injected \/ t.hidden
  IN Verdict(WebMcp(dom) /\ \E t \in Range(dom.webmcp.tools) : Suspicious(t), webmcp_measured(dom, ctx, TRUE))

annotation_conflict(t) == t.read_only_hint /\ (t.destructive_hint \/ t.risk = "DESTRUCTIVE")

WebMcpAnnotationsInconsistent(dom, ctx) ==
  Verdict(WebMcp(dom) /\ \E t \in Range(dom.webmcp.tools) : annotation_conflict(t),
          webmcp_measured(dom, ctx, TRUE))

-----------------------------------------------------------------------------
(* UCP and agent payments (ucp.py).                                          *)

Published(dom, ctx, need_valid) ==
  Then(probe_measured(dom, ctx, {"ucp"}),
       NAUnless(dom.ucp.exists /\ (need_valid => dom.ucp.valid)))

UcpProfileAbsent(dom, ctx) ==
  Verdict(dom.site_type \in UCP_APPLICABLE_SITE_TYPES /\ ~dom.ucp.exists,
    Then(NAUnless(ctx.site_category \in UCP_APPLICABLE_SITE_TYPES),
         probe_measured(dom, ctx, {"ucp"})))

UcpProfileInvalid(dom, ctx) ==
  Verdict(dom.ucp.exists /\ ~dom.ucp.valid, Published(dom, ctx, FALSE))

UcpCheckoutMissing(dom, ctx) ==
  Verdict(/\ dom.site_type \in UCP_CHECKOUT_SITE_TYPES
          /\ dom.ucp.exists /\ dom.ucp.valid /\ ~dom.ucp.has_checkout,
    Then(Gated("UCP_CHECKOUT_MISSING", ctx), Published(dom, ctx, TRUE)))

UcpSigningKeysInvalid(dom, ctx) ==
  Verdict(dom.ucp.exists /\ dom.ucp.valid /\ ~dom.ucp.signing_keys_valid, Published(dom, ctx, TRUE))

AgentPaymentsAbsent(dom, ctx) ==
  Verdict(/\ dom.site_type \in UCP_CHECKOUT_SITE_TYPES
          /\ dom.ucp.exists /\ ~dom.agent_payments.any_non_ucp,
    Then(Gated("AGENT_PAYMENTS_ABSENT", ctx),
      Then(probe_measured(dom, ctx, {"agent_payments", "ucp"}), NAUnless(dom.ucp.exists))))

-----------------------------------------------------------------------------
(* Instruction supply chain (supply_chain.py): references found in llms.txt, *)
(* with the answer of a registry or of DNS.                                  *)

instructions_measured(dom, ctx) ==
  Then(probe_measured(dom, ctx, {"instruction_integrity"}),
    Then(NMUnless("llms_txt" \notin ctx.defaulted), NAUnless(dom.instruction_integrity.attempted)))

refs(dom) ==
  IF dom.instruction_integrity.attempted THEN dom.instruction_integrity.references ELSE {}

LlmsSupplyDomainResolves(dom, ctx) ==
  LET Dangling(r) == r.status = "BROKEN" /\ r.kind = "domain" /\ ~r.in_install_command
  IN Verdict(\E r \in refs(dom) : Dangling(r), instructions_measured(dom, ctx))

LlmsSupplyRemoteExec(dom, ctx) ==
  Verdict(dom.instruction_integrity.attempted /\ dom.instruction_integrity.remote_exec,
          instructions_measured(dom, ctx))

LlmsSupplyClaimableReference(dom, ctx) ==
  LET Claimable(r) == r.in_install_command /\ r.status \in {"UNCLAIMED", "BROKEN"}
  IN Verdict(\E r \in refs(dom) : Claimable(r), instructions_measured(dom, ctx))

-----------------------------------------------------------------------------
(* The links between the sampled pages (crawl_graph.py).                     *)

Nodes(dom) == DOMAIN dom.crawl_graph.pages
GraphPages(dom) ==
  IF "crawl_graph" \in dom.present THEN Range(dom.crawl_graph.pages) ELSE {}

CrawlGraphOrphanPages(dom, ctx) ==
  LET Orphan(p) == ~p.is_root /\ p.inlinks = 0 /\ p.depth = Unreachable
  IN Verdict(\E p \in GraphPages(dom) : Orphan(p), probe_measured(dom, ctx, {"crawl_graph"}))

CrawlGraphDeepPages(dom, ctx) ==
  LET Deep(p) == p.depth # Unreachable /\ p.depth > DEEP_PAGE_DEPTH
  IN Verdict(\E p \in GraphPages(dom) : Deep(p), probe_measured(dom, ctx, {"crawl_graph"}))

CrawlGraphDeadEndPages(dom, ctx) ==
  LET DeadEnd(p) == ~p.is_root /\ p.outlinks_raw = 0
  IN Verdict(\E p \in GraphPages(dom) : DeadEnd(p), probe_measured(dom, ctx, {"crawl_graph"}))

=============================================================================
