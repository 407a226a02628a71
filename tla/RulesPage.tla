----------------------------- MODULE RulesPage -----------------------------
(* The page-scope rules of the library: what each one reports on one sampled *)
(* page and when it measured it.  A page keeps the extracted facts the rules *)
(* tell apart; `products` is the sequence of its Product entities, each with *)
(* the sequence of its offers.  A price that is missing or not a number is   *)
(* below zero.                                                               *)
EXTENDS RuleBase, TLC

CITABILITY_TYPES == {"blog", "news", "media", "documentation", "docs", "portfolio", "other"}

PASS_MIN == 65
MEDIUM_BELOW == 50
POOR_BELOW == 35
LOW_TOKENS_DEFAULT == 8000
MEDIUM_TOKENS_DEFAULT == 20000
MIN_CONTENT_CHARS == 300
MIN_VISIBLE_TEXT_CHARS == 100

NoPrice == -2
NotANumber == -1
Numeric(price) == price >= 0

Graded(fires, severity, measure) == [fires |-> fires, measure |-> measure, severity |-> severity]

Has(page, keys) == NMUnless(keys \subseteq page.keys)

-----------------------------------------------------------------------------
(* Product data (structured.py, products.py).                                *)

get_offers(products) == UNION {Range(p.offers) : p \in Range(products)}

AddToCart(page) == page.add_to_cart \/ "cart" \in page.mentions

MissingProductSchema(page, dom, ctx) ==
  Verdict(page.products = <<>>,
    Then(Gated("MISSING_PRODUCT_SCHEMA", ctx),
      Then(Has(page, {"schema_org"}),
        IF page.products # <<>> THEN Measured
        ELSE Then(Has(page, {"semantic_signals"}), NAUnless(AddToCart(page))))))

products_measured(code, page, ctx, need_offers) ==
  LET Offered(p) == p.offers # <<>>
  IN Then(Gated(code, ctx),
       Then(Has(page, {"schema_org"}),
         Then(NAUnless(page.products # <<>>),
              NAUnless(need_offers => \E p \in Range(page.products) : Offered(p)))))

MissingOfferData(page, dom, ctx) ==
  LET Unoffered(p) == p.offers = <<>>
  IN Verdict(\E p \in Range(page.products) : Unoffered(p),
             products_measured("MISSING_OFFER_DATA", page, ctx, FALSE))

is_valid_price(price) == price > 0

PriceMissingOrInvalid(page, dom, ctx) ==
  LET Unpriced(o) == ~is_valid_price(o.price)
  IN Verdict(\E o \in get_offers(page.products) : Unpriced(o),
             products_measured("PRICE_MISSING_INVALID", page, ctx, TRUE))

AvailabilityMissing(page, dom, ctx) ==
  LET Silent(o) == ~o.availability
  IN Verdict(\E o \in get_offers(page.products) : Silent(o),
             products_measured("MISSING_AVAILABILITY", page, ctx, TRUE))

VariantInfoMissing(page, dom, ctx) ==
  LET Undescribed(p) ==
        ~p.has_variant /\ (Len(p.offers) > 1 \/ "variant" \in page.mentions)
  IN Verdict(\E p \in Range(page.products) : Undescribed(p),
       Then(Gated("VARIANT_INFO_MISSING", ctx),
         Then(Has(page, {"schema_org", "visible_text"}), NAUnless(page.products # <<>>))))

-----------------------------------------------------------------------------
(* Agreement between the data and the text (consistency.py).                 *)

schema_offer_price(page) ==
  IF page.products # <<>> /\ page.products[1].offers # <<>>
    THEN page.products[1].offers[1].price ELSE NoPrice

PriceMismatch(page, dom, ctx) ==
  LET comparable == Numeric(page.visible_price) /\ Numeric(schema_offer_price(page))
  IN Verdict(comparable /\ page.visible_price # schema_offer_price(page),
       Then(Gated("PRICE_MISMATCH", ctx),
         Then(Has(page, {"schema_org", "visible_text"}), NAUnless(comparable))))

two_products_measured(page) ==
  Then(Has(page, {"schema_org"}), NAUnless(Len(page.products) >= 2))

(* The first numeric price of each product, where it has one.                *)
FirstPrice(offers) ==
  LET numeric == {j \in DOMAIN offers : Numeric(offers[j].price)}
  IN IF numeric = {} THEN NoPrice
     ELSE offers[CHOOSE j \in numeric : \A k \in numeric : j <= k].price

FirstPrices(page) ==
  {FirstPrice(page.products[i].offers) : i \in DOMAIN page.products} \ {NoPrice}

InconsistentStructuredData(page, dom, ctx) ==
  Verdict(Len(page.products) >= 2 /\ Cardinality(FirstPrices(page)) > 1,
          two_products_measured(page))

DuplicateConflictingEntities(page, dom, ctx) ==
  LET Differ(Field(_)) ==
        \E i, j \in DOMAIN page.products :
          LET a == Field(page.products[i])
              b == Field(page.products[j])
          IN a # "" /\ b # "" /\ a # b
      Name(p) == p.name
      Id(p) == p.id
      ProductId(p) == p.product_id
  IN Verdict(Differ(Name) \/ Differ(Id) \/ Differ(ProductId), two_products_measured(page))

-----------------------------------------------------------------------------
(* Trust (trust.py).                                                         *)

policy_measured(code, page, ctx, schema_too) ==
  Then(Gated(code, ctx),
       Has(page, {"policy_links"} \cup (IF schema_too THEN {"schema_org"} ELSE {})))

ReturnPolicyUnavailable(page, dom, ctx) ==
  Verdict(~page.returns_link, policy_measured("MISSING_RETURNS_POLICY", page, ctx, FALSE))

ShippingInfoUnavailable(page, dom, ctx) ==
  LET Ships(o) == o.shipping
  IN Verdict(~page.shipping_link /\ ~\E o \in get_offers(page.products) : Ships(o),
             policy_measured("SHIPPING_INFO_UNAVAILABLE", page, ctx, TRUE))

MissingOgMeta(page, dom, ctx) ==
  Verdict("og_meta" \in page.keys /\ ~(page.og_title /\ page.og_description),
          Has(page, {"og_meta"}))

-----------------------------------------------------------------------------
(* Structure of the page (page_structure.py, token_bloat.py, citability.py,  *)
(* js_content.py, crawlability.py).                                          *)

LongText(page) == page.text >= MIN_CONTENT_CHARS

(* No h1, several, or a level that is skipped on the way down.               *)
HeadingHierarchyPoor(page, dom, ctx) ==
  LET h1 == {i \in DOMAIN page.headings : page.headings[i] = 1}
      skips == \E i \in 1..(Len(page.headings) - 1) : page.headings[i + 1] > page.headings[i] + 1
  IN Verdict(LongText(page) /\ (Cardinality(h1) # 1 \/ skips),
       Then(Has(page, {"visible_text", "headings"}), NAUnless(LongText(page))))

SemanticHtmlAbsent(page, dom, ctx) ==
  Verdict(LongText(page) /\ "landmark_tags" \in page.keys /\ ~page.landmarks,
    Then(Has(page, {"visible_text", "landmark_tags"}), NAUnless(LongText(page))))

PageTokenBloat(page, dom, ctx) ==
  LET counted == "token_cost" \in page.keys
  IN Graded(counted /\ page.tokens >= LOW_TOKENS_DEFAULT,
            IF page.tokens >= MEDIUM_TOKENS_DEFAULT THEN "medium" ELSE "low",
            NMUnless(counted))

(* The mean of the five best blocks of the page, in tenths of a point.       *)
page_citability(blocks) ==
  LET best == SortSeq(blocks, LAMBDA a, b : a > b)
      n == IF Len(best) < 5 THEN Len(best) ELSE 5
      sum[i \in 0..n] == IF i = 0 THEN 0 ELSE sum[i - 1] + best[i]
  IN (10 * sum[n] + n \div 2) \div n

citability_band(score) ==
  IF score < 10 * POOR_BELOW THEN "high"
  ELSE IF score < 10 * MEDIUM_BELOW THEN "medium" ELSE "low"

LowCitability(page, dom, ctx) ==
  LET blocks == page.content_blocks
      score == page_citability(blocks)
  IN Graded(/\ dom.site_type \in CITABILITY_TYPES
            /\ blocks # <<>> /\ score < 10 * PASS_MIN,
            IF blocks = <<>> THEN "low" ELSE citability_band(score),
            Then(NAUnless(ctx.site_category \in CITABILITY_TYPES), NMUnless(blocks # <<>>)))

(* An empty shell, a product nobody can put in a cart, or fewer than three   *)
(* labelled controls in ten.                                                 *)
JsOnlyCriticalContent(page, dom, ctx) ==
  Verdict(\/ page.text < MIN_VISIBLE_TEXT_CHARS
          \/ page.product_data /\ ~page.add_to_cart
          \/ page.interactive > 0 /\ 10 * page.labeled < 3 * page.interactive,
          Has(page, {"visible_text", "semantic_signals"}))

(* evaluate() reads the page without its fetch status, measure() with it.    *)
BlockedCrawlability(page, dom, ctx) ==
  Verdict(page.noindex, Then(Has(page, {"metadata"}), NMUnless(page.http_status = 200)))

=============================================================================
