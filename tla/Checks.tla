------------------------------- MODULE Checks -------------------------------
(***************************************************************************)
(* The request programs of representative checks (scovant_core/checks) and *)
(* of the Technical Readiness pass: one check for every distinct way the   *)
(* 69 checks use the evidence store.                                       *)
(***************************************************************************)
EXTENDS Naturals, Sequences
G == INSTANCE Gatherers

AllProfiles == {"content", "commerce", "saas", "api"}

\* CORE-ACCESS-003: one gatherer, which needs the entry page.
AiSearchCrawlerPolicy == <<G!Get("robots_txt")>>

\* CORE-ACCESS-007: the second request only for an on-host, non-self canonical.
CanonicalIntegrity == <<G!Get("pages"), G!Get("machine_links")>>

\* CORE-INTERFACE-001
McpDiscoveryPresence == <<G!Get("mcp_discovery")>>

\* CORE-INTERFACE-005
OpenApiDiscovery == <<G!Get("openapi")>>

\* CORE-INTERFACE-008
UcpProfilePresence == <<G!Get("ucp")>>

\* CORE-OPERABILITY-011: two surfaces only if something else gathered them.
DiscoveryLinkage ==
    <<G!Get("llms"), G!Gathered("openapi"), G!Get("mcp_discovery"), G!Gathered("ucp"),
      G!TryGet("pages"), G!TryGet("machine_links")>>

\* CORE-SECURITY-011: machine_text only when the entry page was read.
HiddenImperative == <<G!Get("http"), G!Get("machine_text")>>

\* evidence_from_store: everything the rating needs, each softly.
evidence_from_store ==
    <<G!TryGet("robots_txt"), G!TryGet("sitemap_urls"), G!TryGet("llms"), G!TryGet("ucp"),
      G!TryGet("mcp_discovery"), G!TryGet("agent_discovery_surface"), G!TryGet("markdown_agents"),
      G!TryGet("link_headers_surface"), G!TryGet("agent_payments_surface"),
      G!TryGet("machine_rep_surface"), G!TryGet("pages")>>

CheckProfiles ==
    [access_003 |-> AllProfiles, access_007 |-> AllProfiles, interface_001 |-> AllProfiles,
     interface_005 |-> {"api", "saas"}, interface_008 |-> {"commerce"},
     operability_011 |-> AllProfiles, security_011 |-> AllProfiles]
=============================================================================
