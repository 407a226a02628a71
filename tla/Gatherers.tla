----------------------------- MODULE Gatherers -----------------------------
(***************************************************************************)
(* The request programs of the registered gatherers                        *)
(* (scovant_core/gatherers): which evidence each asks the store for, in    *)
(* which order and in which mode, before its own fetching and parsing.     *)
(***************************************************************************)
EXTENDS Naturals, Sequences

Get(n) == [mode |-> "get", name |-> n]
TryGet(n) == [mode |-> "try_get", name |-> n]
Gathered(n) == [mode |-> "gathered", name |-> n]

\* Gatherers that need only the entry page.
EntryOnly == <<Get("http")>>

http == <<>>
robots_txt == EntryOnly
llms == EntryOnly
ucp == EntryOnly
openapi == EntryOnly
mcp_discovery == EntryOnly
oauth_metadata == EntryOnly
security_txt == EntryOnly
soft_404 == EntryOnly
contact == EntryOnly
sitemap_urls == <<Get("robots_txt")>>
pages == <<Get("http"), TryGet("sitemap_urls")>>
page_metrics == <<Get("pages")>>
forms == <<Get("pages")>>
policy_pages == <<Get("pages")>>
agent_discovery_surface == <<Get("http"), TryGet("openapi"), TryGet("oauth_metadata")>>
machine_links ==
    <<Get("http"), TryGet("llms"), TryGet("sitemap_urls"), TryGet("llms"), TryGet("openapi"),
      TryGet("mcp_discovery"), TryGet("pages")>>
\* The registry lookups run under --experimental only.
reference_integrity(experimental) ==
    IF experimental THEN <<Get("llms"), Get("mcp_discovery")>> ELSE <<>>
machine_text ==
    <<Gathered("http"), Gathered("llms"), Gathered("markdown"), Gathered("mcp_discovery"),
      Gathered("openapi"), Gathered("agent_discovery_surface"), Gathered("ucp")>>
representations == <<>>
markdown_agents == <<>>
link_headers_surface == <<>>
agent_payments_surface == <<>>
machine_rep_surface == <<TryGet("http")>>

\* The registry of the package, by registered name.
GATHERERS(experimental) ==
    [http |-> http, robots_txt |-> robots_txt, sitemap_urls |-> sitemap_urls, llms |-> llms,
     ucp |-> ucp, mcp_discovery |-> mcp_discovery, openapi |-> openapi,
     oauth_metadata |-> oauth_metadata, security_txt |-> security_txt, soft_404 |-> soft_404,
     contact |-> contact, agent_discovery_surface |-> agent_discovery_surface, pages |-> pages,
     page_metrics |-> page_metrics, forms |-> forms, policy_pages |-> policy_pages,
     machine_links |-> machine_links, machine_text |-> machine_text,
     reference_integrity |-> reference_integrity(experimental),
     representations |-> representations, markdown_agents |-> markdown_agents,
     link_headers_surface |-> link_headers_surface,
     agent_payments_surface |-> agent_payments_surface,
     machine_rep_surface |-> machine_rep_surface]
=============================================================================
