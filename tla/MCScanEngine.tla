---------------------------- MODULE MCScanEngine ----------------------------
(***************************************************************************)
(* A scan over the gatherers the Technical pass and seven checks need.     *)
(***************************************************************************)
EXTENDS ScanEngine
C == INSTANCE Checks

MCChecks == <<"access_003", "access_007", "interface_001", "interface_005", "interface_008",
              "operability_011", "security_011">>

MCCheckProgram ==
    [access_003 |-> C!AiSearchCrawlerPolicy, access_007 |-> C!CanonicalIntegrity,
     interface_001 |-> C!McpDiscoveryPresence, interface_005 |-> C!OpenApiDiscovery,
     interface_008 |-> C!UcpProfilePresence, operability_011 |-> C!DiscoveryLinkage,
     security_011 |-> C!HiddenImperative]

MCAppliesTo == C!CheckProfiles
MCTechnicalProgram == C!evidence_from_store

MCCategory ==
    [access_003 |-> "access", access_007 |-> "access", interface_001 |-> "interfaces",
     interface_005 |-> "interfaces", interface_008 |-> "interfaces",
     operability_011 |-> "operability", security_011 |-> "security"]

MCNames ==
    {"http", "robots_txt", "sitemap_urls", "llms", "ucp", "mcp_discovery", "openapi",
     "oauth_metadata", "agent_discovery_surface", "pages", "machine_links", "machine_text",
     "markdown_agents", "link_headers_surface", "agent_payments_surface", "machine_rep_surface"}

MCNetwork == MCNames \ {"machine_text"}

MCProgram == [n \in MCNames |-> C!G!GATHERERS(FALSE)[n]]

MCRank ==
    [n \in MCNames |->
        CASE n \in {"http", "machine_text", "markdown_agents", "link_headers_surface",
                    "agent_payments_surface"} -> 0
          [] n = "sitemap_urls" -> 2
          [] n \in {"agent_discovery_surface", "pages"} -> 3
          [] n = "machine_links" -> 4
          [] OTHER -> 1]

\* Nothing fails, or one part does.
OneFault ==
    {{}} \cup {{f} : f \in MCNames \cup {MCChecks[i] : i \in 1..Len(MCChecks)}
                              \cup {"profile", "technical"}}

GathererFault == {{n} : n \in MCNames}

Request4(include, exclude, prof, tech) ==
    [include |-> include, exclude |-> exclude, profile |-> prof, technical |-> tech,
     site_type_known |-> TRUE]

\* The default selection, a category, one check, an exclusion from an
\* inclusion, nothing left, and two refused requests.
MCOptions ==
    {Request4(sel[1], sel[2], prof, tech) :
        sel \in {<<{}, {}>>, <<{"security"}, {}>>, <<{"interface_008"}, {}>>,
                 <<{"access", "operability_011"}, {"access_007"}>>, <<{"access_003"}, {"access"}>>},
        prof \in {"auto", "commerce"}, tech \in BOOLEAN}
    \cup {Request4({"acces"}, {}, "auto", TRUE),
          [Request4({}, {}, "auto", TRUE) EXCEPT !.site_type_known = FALSE]}
=============================================================================
