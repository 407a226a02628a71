------------------------------ MODULE RuleBase ------------------------------
(* The contract every readiness rule is written against (rules/base.py) and  *)
(* the capability flags that gate ten of the rules (capabilities.py).        *)
(*                                                                           *)
(* A rule answers two questions about the evidence: does it report a         *)
(* finding (evaluate), and did it measure anything (measure).  Here a rule   *)
(* is an operator that returns both answers, and the severity of the         *)
(* finding, as one record.  Text of findings is left out.                    *)
(*                                                                           *)
(* The evidence of the domain is a record of blocks, `present` being the set *)
(* of the blocks a producer supplied; the evidence of a page is a record of  *)
(* extracted facts, `keys` being the set of the extractions that ran.        *)
EXTENDS Naturals, Integers, Sequences, FiniteSets, Functions

Measured == "measured"            \* measure() returned None
NA == "N/A"
NOT_MEASURED == "NOT_MEASURED"
Verdicts == {Measured, NA, NOT_MEASURED}

Verdict(fires, measure) == [fires |-> fires, measure |-> measure, severity |-> "default"]

(* The first verdict that is not "measured" (the early returns of measure).  *)
Then(first, second) == IF first = Measured THEN second ELSE first
NAUnless(condition) == IF condition THEN Measured ELSE NA
NMUnless(condition) == IF condition THEN Measured ELSE NOT_MEASURED

FetchError(block) ==
  /\ "fetch_status" \in DOMAIN block
  /\ block.fetch_status = "error"

(* Mutant of probe_measured: the inert default of a failed probe is read as  *)
(* an answer of the site.                                                    *)
probe_measured_TrustsDefaults(dom, ctx, keys) ==
  NMUnless(\A k \in keys : k \in dom.present /\ ~FetchError(dom[k]))

probe_measured(dom, ctx, keys) ==
  NMUnless(\A k \in keys : /\ k \in dom.present
                           /\ k \notin ctx.defaulted
                           /\ ~FetchError(dom[k]))

-----------------------------------------------------------------------------
(* Capability flags: TRUE, FALSE or not established.                         *)
Yes == "yes"
No == "no"
NotEstablished == "not established"

FLAGS == {"product_catalog", "physical_goods", "transactional_checkout"}

CODE_FLAG ==
  [product_catalog |-> {"MISSING_PRODUCT_SCHEMA", "MISSING_OFFER_DATA", "PRICE_MISSING_INVALID",
                        "MISSING_AVAILABILITY", "VARIANT_INFO_MISSING", "PRICE_MISMATCH"},
   physical_goods |-> {"SHIPPING_INFO_UNAVAILABLE", "MISSING_RETURNS_POLICY"},
   transactional_checkout |-> {"UCP_CHECKOUT_MISSING", "AGENT_PAYMENTS_ABSENT"}]

NonTransacting == {"blog", "news", "docs", "documentation", "media", "portfolio",
                   "education", "real_estate"}

TypeDefault(type, flag) ==
  CASE type = "commerce" -> Yes
    [] type \in {"booking", "restaurant"} ->
         IF flag = "transactional_checkout" THEN Yes ELSE No
    [] type = "saas" -> IF flag = "transactional_checkout" THEN NotEstablished ELSE No
    [] type \in NonTransacting -> No
    [] OTHER -> NotEstablished

(* A page behind a bot wall is no evidence, and on a SaaS site an            *)
(* add-to-cart control sells a subscription: only product data counts there. *)
page_evidence(type, page, flag) ==
  /\ ~page.content_blocked
  /\ CASE flag = "product_catalog" -> page.priced \/ (page.add_to_cart /\ type # "saas")
       [] flag = "physical_goods" -> page.shipping_schema
       [] OTHER -> FALSE

DomainEvidence(dom, flag) ==
  /\ flag = "transactional_checkout"
  /\ dom.ucp.has_checkout \/ dom.agent_payments.any_non_ucp

derive_capabilities(type, pages, dom) ==
  [flag \in FLAGS |->
     IF (\E i \in DOMAIN pages : page_evidence(type, pages[i], flag)) \/ DomainEvidence(dom, flag)
       THEN Yes ELSE TypeDefault(type, flag)]

(* The flag of a gated rule whose site has not shown it: such a rule is N/A. *)
GateReason(code, caps) ==
  {flag \in FLAGS : code \in CODE_FLAG[flag] /\ caps[flag] # Yes}

Gated(code, ctx) == NAUnless(GateReason(code, ctx.capabilities) = {})

=============================================================================
