----------------------------- MODULE MCSampling -----------------------------
(***************************************************************************)
(* Site names with the spellings and shapes selection tells apart, and     *)
(* documents that name two domains, two packages and one ignored host.     *)
(***************************************************************************)
EXTENDS Sampling

MCUrl ==
    {"home", "home?utm", "shop", "shop2", "othershop", "docs", "about", "faq", "team", "broken[",
     "relative", "declared", "sitemap.xml", "sitemap_index.xml", "child"}

MCCanon == [u \in MCUrl |-> IF u = "home?utm" THEN "home" ELSE u]

Site(links, html, profile, max_pages) ==
    [links |-> links, html |-> html, profile |-> profile, max_pages |-> max_pages]

MCSites ==
    {Site(links, html, profile, n) :
        links \in {<<>>, <<"home">>, <<"about", "shop", "docs">>},
        html \in BOOLEAN, profile \in {"auto", "commerce"}, n \in {1, 2, 5}}

Answer200(root, locs) == [status |-> 200, root |-> root, locs |-> locs]
Bare(status) == [status |-> status, root |-> "broken", locs |-> <<>>]
NotFound == Bare(404)

MCSitemaps ==
    {<<>>, <<"home">>, <<"home?utm", "shop", "docs", "about">>, <<"about", "faq", "team", "shop">>,
     <<"othershop", "shop2", "shop", "faq">>, <<"docs", "about", "about", "faq">>,
     <<"about", "faq", "docs", "broken[">>, <<"shop", "broken[">>,
     <<"about", "faq", "team", "othershop", "shop">>}

\* A server of one sitemap, or one that has every answer for every address.
Steady(locs) ==
    [u \in MCUrl |-> IF u = "sitemap.xml" THEN {Answer200("urlset", locs)} ELSE {NotFound}]
Moody ==
    [u \in MCUrl |->
        {NotFound, Bare(NoAnswer), Bare(Refused), Answer200("html", <<>>), Answer200("urlset", <<"shop", "docs">>)}
        \cup IF u = "child" THEN {Bare(503)}
             ELSE {Answer200("broken", <<>>), Answer200("foreign", <<>>), Answer200("sitemapindex", <<"child", "faq">>),
                   Answer200("sitemapindex", <<"broken[">>), Answer200("sitemapindex", <<>>)}]

MCServers == {Steady(locs) : locs \in MCSitemaps} \cup {Moody}
MCDeclarations == {<<>>, <<"relative">>, <<"declared">>}
MCFallbacks == <<"sitemap.xml", "sitemap_index.xml">>

Mention(form, kind, name) == [form |-> form, kind |-> kind, name |-> name]
NpmLeft == Mention("npm", "package_npm", "left")
YarnLeft == Mention("yarn", "package_npm", "left")
PipRight == Mention("pip", "package_pypi", "right")
UrlDocs == Mention("url", "domain", "docs.dev")
BareDocs == Mention("bare", "domain", "docs.dev")
BareTool == Mention("bare", "domain", "tool.dev")
UrlOwn == Mention("url", "domain", "own.dev")

MCMentions == {NpmLeft, YarnLeft, PipRight, UrlDocs, BareDocs, BareTool, UrlOwn}
Longest == <<UrlOwn, BareTool, UrlDocs, NpmLeft, YarnLeft, PipRight, BareDocs>>
MCTexts ==
    {<<>>, <<UrlOwn>>, <<BareTool, NpmLeft>>, <<BareDocs, UrlDocs, BareTool>>, <<YarnLeft, PipRight, NpmLeft>>, Longest}

OneSite == Site(<<>>, FALSE, "auto", 1)

\* All at once only multiplies the cases: the sitemap of a moody server, the
\* page sample and the probe are explored one at a time.
NoReferences ==
    /\ refs = <<>> /\ options = [experimental |-> FALSE, remote_exec |-> FALSE]
    /\ \A r \in References : truth[r] = "exists"

MCInit ==
    /\ SamplingInit
    /\ \/ server = Moody /\ site = OneSite /\ NoReferences
       \/ server # Moody /\ queue = CandidatesOf(<<>>) /\ NoReferences
       \/ server = Steady(<<>>) /\ queue = CandidatesOf(<<>>) /\ site = OneSite

MCSpec == MCInit /\ [][SamplingNext]_samplingVars /\ WF_samplingVars(ProbeOwnStep)
=============================================================================
