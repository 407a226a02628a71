---------------------------- MODULE MCTechnical ----------------------------
(***************************************************************************)
(* Instances of Technical: a shop, a blog, a SaaS site with a host that     *)
(* speaks to its MCP interface, and degraded and unreached variants.        *)
(***************************************************************************)
EXTENDS Technical

Extractions == {"schema_org", "semantic_signals", "visible_text", "headings", "landmark_tags",
                "policy_links", "og_meta", "metadata"}

\* An ordinary page with nothing wrong.
Plain(url, links) ==
    [url |-> url, parsed |-> TRUE, http_status |-> 200, content_blocked |-> FALSE,
     extracted |-> Extractions, links |-> links, products |-> <<>>, product_data |-> FALSE,
     priced |-> FALSE, add_to_cart |-> FALSE, shipping_schema |-> FALSE, mentions |-> {},
     visible_price |-> NoPrice, text |-> 800, headings |-> <<1, 2>>, landmarks |-> TRUE,
     tokens |-> 1000, content_blocks |-> <<80>>, labeled |-> 1, interactive |-> 1,
     noindex |-> FALSE, returns_link |-> TRUE, shipping_link |-> TRUE, og_title |-> TRUE,
     og_description |-> TRUE]

AnOffer == [price |-> 10, availability |-> TRUE, shipping |-> FALSE]
Shipped == [AnOffer EXCEPT !.shipping = TRUE]
Product(offers) ==
    [offers |-> offers, has_variant |-> TRUE, name |-> "kettle", id |-> "1", product_id |-> ""]

\* What the parsers derive from the Product entities of a page.
WithProducts(page, products) ==
    [page EXCEPT !.products = products, !.product_data = products # <<>>,
                 !.priced = products # <<>> /\ products[1].offers # <<>>,
                 !.shipping_schema = \E i \in DOMAIN products : \E j \in DOMAIN products[i].offers :
                                        products[i].offers[j].shipping]

Sold(url, links) ==
    [WithProducts(Plain(url, links), <<Product(<<AnOffer>>)>>)
        EXCEPT !.add_to_cart = TRUE, !.visible_price = 10]

Answered == [status |-> 200]
Complete(pages) ==
    [robots_txt |-> [status |-> 200, truncated |-> FALSE, blocked |-> {},
        signals |-> [present |-> TRUE, declared |-> TRUE, syntax_errors |-> FALSE]],
     sitemap_urls |-> [status |-> 200, exists |-> TRUE, valid |-> TRUE, fetch_status |-> "ok"],
     llms |-> [status |-> 200, exists |-> TRUE, valid |-> TRUE],
     ucp |-> [status |-> 200, exists |-> TRUE, valid |-> TRUE, has_checkout |-> TRUE,
              signing_keys_valid |-> TRUE],
     mcp_discovery |-> [status |-> 200, exists |-> TRUE, endpoints |-> TRUE,
                        server_card |-> TRUE, declared_name |-> "kettles"],
     agent_discovery_surface |-> [status |-> 200, fetch_status |-> "ok", any_found |-> TRUE],
     markdown_agents |-> [status |-> 200, negotiation |-> TRUE, mirror |-> FALSE,
        body |-> "markdown", content_type |-> "text/markdown", vary |-> "accept"],
     link_headers_surface |-> [status |-> 200, fetch_status |-> "ok", agent_relevant |-> TRUE],
     agent_payments_surface |-> [status |-> 200, fetch_status |-> "ok", any_non_ucp |-> TRUE],
     machine_rep_surface |-> [status |-> 200, attempted |-> TRUE, preference_applied |-> TRUE,
        content_type |-> "text/markdown", vary |-> "prefer"],
     pages |-> pages]

Site(type, store, host) ==
    [store |-> store, host |-> host, type |-> type, tokenizer |-> TRUE, entry |-> "ok"]

\* The root-cause groups of the host's manifest.
Policies == {"MISSING_RETURNS_POLICY", "SHIPPING_INFO_UNAVAILABLE"}
Structure == {"SEMANTIC_HTML_ABSENT", "HEADING_HIERARCHY_POOR", "PAGE_TOKEN_BLOAT"}
MCGroups ==
    [code \in Policies \cup Structure |-> IF code \in Policies THEN "policies" ELSE "structure"]

\* A host that performed the handshake, the browser probe and the lookups.
ATool == [name |-> "search", injected |-> FALSE, hidden |-> FALSE, risk |-> "READ",
          has_schema |-> TRUE, described |-> TRUE, read_only_hint |-> TRUE,
          destructive_hint |-> FALSE]
Host ==
    [supplies |-> {"webmcp", "instruction_integrity", "ai_bot_policy"},
     mcp |-> [handshake |-> [attempted |-> TRUE, ok |-> TRUE, auth_required |-> TRUE],
              oauth |-> [attempted |-> TRUE, discovered |-> TRUE],
              interface |-> [attempted |-> TRUE, ok |-> TRUE, server_name |-> "kettles",
                             tools |-> <<ATool>>, headers |-> "with version", era |-> "legacy"]],
     webmcp |-> [attempted |-> TRUE, present |-> TRUE, error |-> FALSE, tools |-> <<ATool>>],
     instruction_integrity |-> [attempted |-> TRUE, references |-> {}, remote_exec |-> FALSE],
     ai_bot_policy |-> [declared |-> {"GPTBot"}, declared_any |-> TRUE],
     evidence_key |-> MCGroups]

-----------------------------------------------------------------------------
Shop == Site("commerce", Complete(<<Plain(1, {2}), Sold(2, {1, 3}), Sold(3, {1})>>), NoHost)
HostedShop == [Shop EXCEPT !.host = Host]
\* One page of text, without landmarks, and heavy pages.
Sparse ==
    LET Heavy(p) == [p EXCEPT !.tokens = 9000]
    IN [HostedShop EXCEPT !.store.pages =
          <<[Heavy(@[1]) EXCEPT !.landmarks = FALSE], [Heavy(@[2]) EXCEPT !.text = 200],
            [Heavy(@[3]) EXCEPT !.text = 200]>>]
Chain == <<Plain(1, {2}), Plain(2, {3}), Plain(3, {4}), Plain(4, {5}), Plain(5, {1})>>
Blog == Site("blog", [Complete(Chain) EXCEPT !.ucp = [@ EXCEPT !.exists = FALSE, !.valid = FALSE,
                                                        !.has_checkout = FALSE]], NoHost)
Saas == Site("saas", [Complete(<<Plain(1, {2}), Plain(2, {1})>>)
                        EXCEPT !.agent_payments_surface.any_non_ucp = FALSE], Host)
BareSaas == [Saas EXCEPT !.host = NoHost, !.store.ucp.exists = FALSE, !.store.ucp.valid = FALSE,
                         !.store.ucp.has_checkout = FALSE, !.store.llms.exists = FALSE,
                         !.store.llms.valid = FALSE]
Unknown == Site("unknown", Complete(<<Sold(1, {2}), Sold(2, {1})>>), NoHost)

\* A shop whose robots.txt blocks agents and whose pages have many defects.
Poor ==
    [Shop EXCEPT !.store.robots_txt.blocked = {"GPTBot"},
                 !.store.pages[2] = [WithProducts(@, <<Product(<<[AnOffer EXCEPT !.price = NotANumber]>>)>>)
                    EXCEPT !.text = 50, !.returns_link = FALSE, !.noindex = TRUE],
                 !.store.pages[3].shipping_link = FALSE, !.store.pages[3].og_title = FALSE,
                 !.store.sitemap_urls.valid = FALSE]
Walled == [Shop EXCEPT !.store.pages = [i \in 1..3 |-> Challenge(@[i])]]
Silent ==
    [Blog EXCEPT !.store.pages = <<>>, !.store.robots_txt.status = 503]
Patchy == [Shop EXCEPT !.store.robots_txt.truncated = TRUE, !.store.ucp.status = 429]
Unreached == {[Silent EXCEPT !.entry = e] : e \in {"network", "timeout", "security"}}

MCSites == {HostedShop, Sparse, Blog, Saas, BareSaas, Unknown, Poor, Walled, Silent, Patchy} \cup Unreached

-----------------------------------------------------------------------------
\* One fact at a time.
PageEdits(p) ==
    LET ps == p.products
        First(product) == WithProducts(p, <<product>> \o SubSeq(ps, 2, Len(ps)))
        Offer(o) == First([ps[1] EXCEPT !.offers = <<o>>])
    IN {[p EXCEPT !.text = 50], [p EXCEPT !.text = 200], [p EXCEPT !.headings = <<1, 3>>],
        [p EXCEPT !.headings = <<>>], [p EXCEPT !.headings = <<1, 2>>],
        [p EXCEPT !.landmarks = ~@], [p EXCEPT !.tokens = 9000], [p EXCEPT !.tokens = 25000],
        [p EXCEPT !.content_blocks = <<55, 60>>], [p EXCEPT !.content_blocks = <<20>>],
        [p EXCEPT !.content_blocks = <<>>], [p EXCEPT !.noindex = ~@],
        [p EXCEPT !.http_status = 203], [p EXCEPT !.links = {}],
        [p EXCEPT !.returns_link = ~@], [p EXCEPT !.shipping_link = ~@],
        [p EXCEPT !.og_title = ~@], [p EXCEPT !.og_description = ~@],
        [p EXCEPT !.labeled = 0], [p EXCEPT !.interactive = 4],
        [p EXCEPT !.mentions = {"cart"}], [p EXCEPT !.mentions = {"variant"}],
        [p EXCEPT !.add_to_cart = ~@], [p EXCEPT !.visible_price = 12],
        [p EXCEPT !.parsed = TRUE], [p EXCEPT !.content_blocked = FALSE]}
       \cup (IF ps = <<>> THEN {WithProducts(p, <<Product(<<Shipped>>)>>)}
             ELSE {WithProducts(p, <<>>), First(Product(<<>>)), Offer(Shipped), Offer(AnOffer),
                   Offer([AnOffer EXCEPT !.price = NotANumber]), Offer([AnOffer EXCEPT !.price = 12]),
                   Offer([AnOffer EXCEPT !.availability = FALSE]),
                   First([ps[1] EXCEPT !.has_variant = FALSE]),
                   WithProducts(p, <<ps[1], Product(<<[AnOffer EXCEPT !.price = 12]>>)>>),
                   WithProducts(p, <<ps[1], [Product(<<AnOffer>>) EXCEPT !.name = "pan"]>>)})

StoreEdits(s) ==
    {[s EXCEPT !.robots_txt.blocked = IF @ = {} THEN {"GPTBot"} ELSE {}],
     [s EXCEPT !.robots_txt.signals = [present |-> FALSE, declared |-> FALSE, syntax_errors |-> FALSE]],
     [s EXCEPT !.robots_txt.signals.syntax_errors = TRUE],
     [s EXCEPT !.sitemap_urls.valid = ~@],
     [s EXCEPT !.llms.valid = FALSE], [s EXCEPT !.llms = [status |-> 404, exists |-> FALSE, valid |-> FALSE]],
     [s EXCEPT !.ucp = [status |-> 404, exists |-> FALSE, valid |-> FALSE, has_checkout |-> FALSE,
                        signing_keys_valid |-> FALSE]],
     [s EXCEPT !.ucp = [status |-> 200, exists |-> TRUE, valid |-> FALSE, has_checkout |-> FALSE,
                        signing_keys_valid |-> FALSE]],
     [s EXCEPT !.ucp.has_checkout = FALSE], [s EXCEPT !.ucp.signing_keys_valid = FALSE],
     [s EXCEPT !.mcp_discovery = [status |-> 404, exists |-> FALSE, endpoints |-> FALSE,
                                  server_card |-> FALSE, declared_name |-> ""]],
     [s EXCEPT !.mcp_discovery.declared_name = "pans"], [s EXCEPT !.mcp_discovery.endpoints = FALSE],
     [s EXCEPT !.agent_discovery_surface.any_found = FALSE],
     [s EXCEPT !.markdown_agents.negotiation = FALSE, !.markdown_agents.body = "html"],
     [s EXCEPT !.markdown_agents.content_type = "text/html"], [s EXCEPT !.markdown_agents.vary = ""],
     [s EXCEPT !.markdown_agents.negotiation = FALSE, !.markdown_agents.status = 406],
     [s EXCEPT !.link_headers_surface.agent_relevant = FALSE],
     [s EXCEPT !.agent_payments_surface.any_non_ucp = ~@],
     [s EXCEPT !.machine_rep_surface.preference_applied = FALSE],
     [s EXCEPT !.machine_rep_surface.content_type = "text/html"],
     [s EXCEPT !.machine_rep_surface.vary = ""]}
    \cup {[s EXCEPT ![g] = Complete(<<>>)[g]] : g \in DOMAIN s \ {"pages"}}
    \cup UNION {{[s EXCEPT !.pages[i] = p] : p \in PageEdits(s.pages[i])} : i \in DOMAIN s.pages \cap {1, 2}}

HostEdits(h) ==
    LET Tools(ts) == {[h EXCEPT !.mcp.interface.tools = ts], [h EXCEPT !.webmcp.tools = ts]}
    IN IF h.supplies = {} THEN {} ELSE
       {[h EXCEPT !.mcp = NotSpoken],
        [h EXCEPT !.mcp.handshake.ok = FALSE], [h EXCEPT !.mcp.handshake.auth_required = FALSE],
        [h EXCEPT !.mcp.oauth.discovered = FALSE], [h EXCEPT !.mcp.oauth = NotSpoken.oauth],
        [h EXCEPT !.mcp.interface.ok = FALSE, !.mcp.interface.tools = <<>>],
        [h EXCEPT !.mcp.interface.server_name = ""], [h EXCEPT !.mcp.interface.headers = "without version"],
        [h EXCEPT !.mcp.interface.headers = "not recorded"], [h EXCEPT !.mcp.interface.era = "modern"],
        [h EXCEPT !.webmcp.error = TRUE, !.webmcp.tools = <<>>],
        [h EXCEPT !.webmcp.present = FALSE, !.webmcp.tools = <<>>],
        [h EXCEPT !.instruction_integrity.remote_exec = TRUE],
        [h EXCEPT !.instruction_integrity.attempted = FALSE],
        [h EXCEPT !.ai_bot_policy.declared_any = FALSE]}
       \cup {[h EXCEPT !.instruction_integrity.references =
                {[status |-> st, kind |-> "domain", in_install_command |-> install]}] :
                  st \in {"OK", "BROKEN", "UNCLAIMED"}, install \in BOOLEAN}
       \cup UNION {Tools(<<>>), Tools(<<ATool, ATool>>), Tools(<<[ATool EXCEPT !.injected = TRUE]>>),
                   Tools(<<[ATool EXCEPT !.hidden = TRUE]>>), Tools(<<[ATool EXCEPT !.risk = "DESTRUCTIVE"]>>),
                   Tools(<<[ATool EXCEPT !.has_schema = FALSE]>>), Tools(<<[ATool EXCEPT !.name = "tools/list"]>>),
                   Tools(<<[ATool EXCEPT !.destructive_hint = TRUE]>>)}

MCEdits(s) ==
    IF s.entry # "ok" THEN {} ELSE
    {[s EXCEPT !.store = t] : t \in StoreEdits(s.store)} \cup {[s EXCEPT !.host = h] : h \in HostEdits(s.host)}

\* EditsKeepSites (TechnicalProofs) on the sites of the runs.
ASSUME EditsAreSites == \A s \in MCSites : \A t \in MCEdits(s) : WellFormed(t)

\* EditsKeepTerms (TechnicalProofs) on the sites of the runs.
ASSUME EditsAreOfOneType ==
    \A s \in MCSites : \A t \in MCEdits(s) :
        t.type = s.type /\ t.host.evidence_key = s.host.evidence_key

-----------------------------------------------------------------------------
Plainly ==
    [url |-> "public", user_agent |-> "default", contribute |-> FALSE,
     allow_private_networks |-> FALSE, selection |-> "all", experimental |-> FALSE,
     min_score |-> -1, require_canonical |-> FALSE, fail_on |-> "never",
     fail_on_security |-> "never"]

MCCliOptions ==
    {[Plainly EXCEPT !.min_score = m, !.require_canonical = r, !.fail_on = f, !.fail_on_security = q] :
        m \in {-1, 0, 80}, r \in BOOLEAN, f \in {"never", "warn", "fail"}, q \in {"never", "high"}}
    \cup {[Plainly EXCEPT !.contribute = TRUE, !.min_score = m, !.selection = s, !.experimental = e,
                          !.allow_private_networks = p] :
            m \in {-1, 80}, s \in {"all", "some"}, e \in BOOLEAN, p \in BOOLEAN}
    \cup {[Plainly EXCEPT !.url = "not http"], [Plainly EXCEPT !.selection = "unknown id"],
          [Plainly EXCEPT !.user_agent = "names the Cloud crawler"]}

MCDiagnostics ==
    {[readiness |-> {}, security_fails |-> {}], [readiness |-> {WARN}, security_fails |-> {"low"}],
     [readiness |-> {FAIL}, security_fails |-> {"critical"}], [readiness |-> {}, security_fails |-> {"high"}]}

MCJobContexts ==
    {[event |-> "push", head_repo |-> "same", trusted_target |-> FALSE, allow_private_networks |-> FALSE],
     [event |-> "pull_request", head_repo |-> "fork", trusted_target |-> TRUE,
      allow_private_networks |-> TRUE],
     [event |-> "pull_request", head_repo |-> "same", trusted_target |-> TRUE,
      allow_private_networks |-> TRUE]}
=============================================================================
