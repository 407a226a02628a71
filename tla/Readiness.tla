----------------------------- MODULE Readiness -----------------------------
(* From the documents the gatherers published to the Technical Readiness     *)
(* block of the report: r2/adapter.py turns the documents into the evidence  *)
(* the rules read and names the probes that fell back to an inert default,   *)
(* r2/readiness.py rates it and tells what was not measured and why.         *)
(*                                                                           *)
(* A document is a record with the HTTP status of its request, Raised when   *)
(* the gatherer itself raised, NoAnswer when no response came.  Pages carry  *)
(* the number of their URL, the homepage being 1.                            *)
EXTENDS Score

Raised == -1
NoAnswer == 0

(* 429 and 5xx: the site did not answer the question.                        *)
unusable_answer(status) == status = 429 \/ status >= 500

probe_unusable(doc) == doc.status \in {Raised, NoAnswer} \/ unusable_answer(doc.status)

robots_unusable(doc) == probe_unusable(doc) \/ doc.truncated
fetch_errored(doc) == doc.status = Raised \/ doc.fetch_status = "error"
machine_rep_unusable(doc) == probe_unusable(doc) \/ ~doc.attempted

-----------------------------------------------------------------------------
(* The inert blocks: what a parser returns for nothing at all.               *)
InertRobots == [blocked |-> {}]
InertSignals == [present |-> FALSE, declared |-> FALSE, syntax_errors |-> FALSE]
InertSitemap == [exists |-> FALSE, valid |-> FALSE]
InertLlms == [exists |-> FALSE, valid |-> FALSE]
InertUcp == [exists |-> FALSE, valid |-> FALSE, has_checkout |-> FALSE,
             signing_keys_valid |-> FALSE]
InertMcp == [exists |-> FALSE, endpoints |-> FALSE, server_card |-> FALSE, declared_name |-> ""]
InertMarkdown == [negotiation |-> FALSE, mirror |-> FALSE, status |-> NoAnswer,
                  body |-> "unread", content_type |-> "", vary |-> ""]
InertMachineRep == [attempted |-> FALSE, status |-> NoAnswer, preference_applied |-> FALSE,
                    content_type |-> "", vary |-> ""]

(* What a host that speaks to the site adds; the CLI adds nothing.           *)
NotSpoken ==
  [handshake |-> [attempted |-> FALSE, ok |-> FALSE, auth_required |-> FALSE],
   oauth |-> [attempted |-> FALSE, discovered |-> FALSE],
   interface |-> [attempted |-> FALSE, ok |-> FALSE, server_name |-> "", tools |-> <<>>,
                  headers |-> "not recorded", era |-> "legacy"]]
NoHost ==
  [supplies |-> {}, mcp |-> NotSpoken,
   webmcp |-> [attempted |-> FALSE, present |-> FALSE, error |-> FALSE, tools |-> <<>>],
   instruction_integrity |-> [attempted |-> FALSE, references |-> {}, remote_exec |-> FALSE],
   ai_bot_policy |-> [declared |-> {}, declared_any |-> FALSE],
   evidence_key |-> [c \in {} |-> ""]]

-----------------------------------------------------------------------------
(* The graph of the links between the sampled pages, from a root: the final  *)
(* URL of the scan, or the shortest URL when that page is not in the sample. *)
build_crawl_graph(links) ==
  LET sampled == DOMAIN links
      root == IF 1 \in sampled THEN 1 ELSE Min(sampled)
      reached[n \in Nat] ==
        IF n = 0 THEN {root}
        ELSE LET near == reached[n - 1]
             IN near \cup UNION {links[u] \cap sampled : u \in near}
      depth(u) ==
        IF u \in reached[Cardinality(sampled)]
          THEN CHOOSE n \in 0..Cardinality(sampled) :
                 u \in reached[n] /\ \A m \in 0..(n - 1) : u \notin reached[m]
          ELSE Unreachable
  IN [pages |-> [u \in sampled |->
        [is_root |-> u = root, depth |-> depth(u), outlinks_raw |-> Cardinality(links[u]),
         inlinks |-> Cardinality({v \in sampled : u \in links[v]})]]]

(* A gathered page is kept, in its place, when its content could be parsed.  *)
(* The wall of the pages gatherer is a content wall; without the tokenizer   *)
(* no cost.                                                                  *)
KeptPages(gathered, tokenizer) ==
  [i \in {j \in DOMAIN gathered : gathered[j].parsed} |->
     gathered[i] @@ [keys |-> gathered[i].extracted \cup
                          (IF tokenizer THEN {"token_cost"} ELSE {})]]

evidence_from_store(store, host, type, tokenizer) ==
  LET pages == KeptPages(store.pages, tokenizer)
      Lost(name, unusable) == IF unusable THEN name ELSE {}
      defaulted ==
        UNION {Lost({"robots", "content_signals"}, robots_unusable(store.robots_txt)),
               Lost({"sitemap"}, store.sitemap_urls.status = Raised),
               Lost({"llms_txt"}, probe_unusable(store.llms)),
               Lost({"ucp"}, probe_unusable(store.ucp)),
               Lost({"mcp"}, probe_unusable(store.mcp_discovery)),
               Lost({"agent_discovery"}, store.agent_discovery_surface.status = Raised),
               Lost({"markdown_agents"}, probe_unusable(store.markdown_agents)),
               Lost({"link_headers"}, fetch_errored(store.link_headers_surface)),
               Lost({"agent_payments"}, fetch_errored(store.agent_payments_surface)),
               Lost({"machine_rep"}, machine_rep_unusable(store.machine_rep_surface)),
               Lost({"pages"}, pages = <<>>)}
      Block(name, doc, inert) == IF name \in defaulted THEN inert ELSE doc
      urls == {pages[i].url : i \in DOMAIN pages}
      links == [u \in urls |-> (CHOOSE p \in {pages[i] : i \in DOMAIN pages} : p.url = u).links]
  IN [pages |-> pages, defaulted |-> defaulted,
      domain |->
        [present |-> {"robots", "content_signals", "sitemap", "llms_txt", "ucp", "mcp",
                      "agent_discovery", "markdown_agents", "link_headers", "agent_payments",
                      "machine_rep", "crawl_graph"} \cup host.supplies,
         site_type |-> type,
         robots |-> Block("robots", store.robots_txt, InertRobots),
         content_signals |-> Block("content_signals", store.robots_txt.signals, InertSignals),
         sitemap |-> Block("sitemap", store.sitemap_urls, InertSitemap),
         llms_txt |-> Block("llms_txt", store.llms, InertLlms),
         ucp |-> Block("ucp", store.ucp, InertUcp),
         mcp |-> Block("mcp", store.mcp_discovery, InertMcp) @@ host.mcp,
         agent_discovery |-> Block("agent_discovery", store.agent_discovery_surface,
                                   [any_found |-> FALSE]),
         markdown_agents |-> Block("markdown_agents", store.markdown_agents, InertMarkdown),
         link_headers |-> Block("link_headers", store.link_headers_surface,
                                [agent_relevant |-> FALSE]),
         agent_payments |-> Block("agent_payments", store.agent_payments_surface,
                                  [any_non_ucp |-> FALSE]),
         machine_rep |-> Block("machine_rep", store.machine_rep_surface, InertMachineRep),
         webmcp |-> host.webmcp,
         instruction_integrity |-> host.instruction_integrity,
         ai_bot_policy |-> host.ai_bot_policy,
         crawl_graph |-> IF pages = <<>> THEN [pages |-> <<>>] ELSE build_crawl_graph(links)]]

-----------------------------------------------------------------------------
(* Why a rule was not measured.                                              *)

MCP_HANDSHAKE_RULES == {"MCP_DISCOVERY_INVALID", "SERVER-CARD-004", "SERVER-CARD-005",
  "AGENT-META-001", "AGENT-META-004", "AGENT-META-008", "MCP-OBS-001", "TOOL-RISK-001",
  "MCP-AUTH-001"}

PROBE_RULES ==
  [robots |-> {"AI_CRAWLER_BLOCKED", "AI-BOT-POLICY-001"},
   content_signals |-> {"CONTENT_SIGNALS_ABSENT", "CONTENT-SIGNAL-001"},
   sitemap |-> {"SITEMAP_MISSING_OR_INVALID"},
   llms_txt |-> {"LLMS_TXT_MISSING_OR_INVALID"},
   ucp |-> {"UCP_PROFILE_ABSENT", "UCP_PROFILE_INVALID", "UCP_CHECKOUT_MISSING",
            "UCP_SIGNING_KEYS_INVALID", "AGENT_PAYMENTS_ABSENT"},
   mcp |-> {"MCP_ENDPOINT_ABSENT"} \cup MCP_HANDSHAKE_RULES,
   agent_discovery |-> {"AGENT_INTERFACE_DISCOVERY_ABSENT"},
   markdown_agents |-> {"MARKDOWN_FOR_AGENTS_ABSENT", "CONTENT-NEG-002", "CONTENT-NEG-004"},
   link_headers |-> {"LINK_HEADERS_ABSENT"},
   agent_payments |-> {"AGENT_PAYMENTS_ABSENT"},
   machine_rep |-> {"MACHINE-REP-004", "MACHINE-REP-005"},
   pages |-> {}]

NotGathered == {"WEBMCP-001", "WEBMCP-002", "WEBMCP-003", "WEBMCP-004", "WEBMCP-005",
                "LLMS-SUPPLY-002", "LLMS-SUPPLY-006", "LLMS-SUPPLY-008", "AI-BOT-POLICY-001"}

core_evidence(code) ==
  CASE code \in NotGathered -> "not_gathered"
    [] code \in MCP_HANDSHAKE_RULES -> "handshake_required"
    [] code = "PAGE_TOKEN_BLOAT" -> "tokenizer_optional"
    [] OTHER -> "passive"

(* The probes that may be named as the cause; the code names the first.      *)
FailedProbes(code, defaulted) == {p \in defaulted : code \in PROBE_RULES[p]}

(* Mutant of reason_of: the handshake is named before the probe that failed. *)
reason_of_HandshakeFirst(code, outcome, defaulted, tokenizer) ==
  IF outcome.reason = "no_pages_evaluated" /\ "pages" \in defaulted THEN "probe_failed"
  ELSE IF outcome.reason \notin {"predicate", ""} THEN outcome.reason
  ELSE IF core_evidence(code) = "handshake_required" THEN "handshake_not_performed"
  ELSE IF FailedProbes(code, defaulted) # {} THEN "probe_failed"
  ELSE "not_measured"

reason_of(code, outcome, defaulted, tokenizer) ==
  IF outcome.reason = "no_pages_evaluated" /\ "pages" \in defaulted THEN "probe_failed"
  ELSE IF outcome.reason \notin {"predicate", ""} THEN outcome.reason
  ELSE IF FailedProbes(code, defaulted) # {} THEN "probe_failed"
  ELSE IF core_evidence(code) = "handshake_required" THEN "handshake_not_performed"
  ELSE IF core_evidence(code) = "tokenizer_optional" /\ ~tokenizer THEN "tokenizer_unavailable"
  ELSE IF core_evidence(code) = "not_gathered" THEN "not_gathered_by_core"
  ELSE "not_measured"

(* A passive rating never carries the badge of a verified one.               *)
report_block(capabilities, outcomes, res, defaulted, tokenizer, manifest) ==
  LET numberless == res.status = "INSUFFICIENT_EVIDENCE"
      unmeasured == {s \in Counted(manifest) : outcomes[s.code].state \in {NOT_MEASURED, UNKNOWN}}
  IN [status |-> res.status, rating |-> res.rating, grade |-> res.grade, gates |-> res.gates,
      badge |-> IF numberless \/ res.badge = "none" THEN "none" ELSE "estimated",
      evidence_state |-> IF numberless THEN "NOT_MEASURED" ELSE "ESTIMATED",
      measured_w |-> res.measured_w, applicable_w |-> res.applicable_w,
      categories |-> res.categories, deduplicated |-> res.deduplicated,
      capabilities |-> capabilities, outcomes |-> outcomes,
      not_measured |-> {[rule |-> s.code,
                         reason |-> reason_of(s.code, outcomes[s.code], defaulted, tokenizer)]
                        : s \in unmeasured}]

RatedOutcomes(ctx, outcomes, key, tokenizer, manifest) ==
  report_block(ctx.capabilities, outcomes, score_r2(outcomes, key, ctx.site_category, manifest),
               ctx.defaulted, tokenizer, manifest)

technical_readiness(ev, key, type, tokenizer, manifest) ==
  LET ctx == [site_category |-> type, defaulted |-> ev.defaulted,
              capabilities |-> derive_capabilities(type, ev.pages, ev.domain)]
  IN RatedOutcomes(ctx, technical_outcomes(rule_rows(ev.domain, ctx, ev.pages)), key, tokenizer, manifest)

technical_report(store, host, type, tokenizer, manifest) ==
  technical_readiness(evidence_from_store(store, host, type, tokenizer), host.evidence_key, type,
            tokenizer, manifest)

=============================================================================
