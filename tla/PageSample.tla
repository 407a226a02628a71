----------------------------- MODULE PageSample -----------------------------
(***************************************************************************)
(* The pages a scan reads beside the entry page (gatherers/pages.py):      *)
(* which of the sitemap's and the entry page's URLs are picked, and what   *)
(* is recorded of each.  A URL is a name; what the code reads off its text *)
(* (canonical form, origin, path pattern) are the constants.               *)
(***************************************************************************)
EXTENDS SitemapReading

CONSTANTS
    Canon,          \* Canon[u]: the canonical form two spellings share
    OnSite,         \* the URLs of the entry page's scheme, host and port
    Productish,     \* the URLs whose path names a product, shop or pricing page
    Docsish,        \* the URLs whose path names documentation
    EntryUrl,       \* the final URL of the entry page
    Sites,          \* the [links, html, profile, max_pages] explored
    SitemapWindow,  \* how many sitemap entries are considered (20)
    SampleCap       \* how many pages sitemap entries may fill up to (4)

\* The command line refuses a max_pages below one; the entry page, a product
\* page and a documentation page fit under the cap.
ASSUME SampleAssumption ==
    /\ OnSite \subseteq Url /\ EntryUrl \in OnSite
    /\ SitemapWindow \in Nat /\ SampleCap \in Nat /\ SampleCap >= 3
    /\ \A s \in Sites : s.links \in Seq(Url) /\ s.html \in BOOLEAN /\ s.max_pages \in Nat \ {0}

VARIABLES
    site,           \* what the entry page said, and the options
    selection,      \* the picks; empty before selection and when it raised
    pages,          \* the records, in the order of the picks
    sampling        \* "select", "fetch", "done" or "failed"

sampleVars == <<site, selection, pages, sampling>>

Outcomes == {"content", "empty", "non_2xx", "throttled", "error"}
Limit == IF site.max_pages < SampleCap THEN site.max_pages ELSE SampleCap

SampleInit ==
    /\ site \in Sites
    /\ selection = <<>> /\ pages = <<>>
    /\ sampling = "select"

-----------------------------------------------------------------------------
(* Selection.  An exception inside it is the empty sequence. *)

EntryLinks == IF site.html THEN site.links ELSE <<>>
Candidates == SitemapEntries \o EntryLinks

\* Mutant of Add: pages are told apart by their spelling.
Add_BySpelling(picks, url, reason) ==
    IF picks = <<>> \/ url \in Malformed THEN <<>>
    ELSE IF \/ \E i \in DOMAIN picks : picks[i].url = url
            \/ url \notin OnSite
            \/ Len(picks) >= site.max_pages
         THEN picks
         ELSE Append(picks, [url |-> url, reason |-> reason])

Add(picks, url, reason) ==
    IF picks = <<>> \/ url \in Malformed THEN <<>>
    ELSE IF \/ \E i \in DOMAIN picks : Canon[picks[i].url] = Canon[url]
            \/ url \notin OnSite
            \/ Len(picks) >= site.max_pages
         THEN picks
         ELSE Append(picks, [url |-> url, reason |-> reason])

\* The search stops at the first match, whether or not it is added.
AddFirst(picks, wanted, reason) ==
    LET k == SelectInSeq(Candidates, LAMBDA u : u \in wanted \cup Malformed)
    IN  IF k = 0 THEN picks ELSE Add(picks, Candidates[k], reason)

Window == SubSeq(SitemapEntries, 1, IF Len(SitemapEntries) < SitemapWindow THEN Len(SitemapEntries) ELSE SitemapWindow)

select_pages ==
    LET entry == <<[url |-> EntryUrl, reason |-> "entry"]>>
        product == AddFirst(entry, Productish, "product_or_pricing")
        docs == IF site.profile \in {"api", "auto"} THEN AddFirst(product, Docsish, "docs_or_api") ELSE product
        filled[k \in 0..Len(Window)] ==
            IF k = 0 THEN docs
            ELSE LET p == filled[k - 1] IN IF Len(p) >= Limit THEN p ELSE Add(p, Window[k], "sitemap")
    IN  filled[Len(Window)]

\* The sitemap is read first.
Select ==
    /\ sampling = "select" /\ reading \in {"done", "failed"}
    /\ selection' = select_pages
    /\ sampling' = IF selection' = <<>> THEN "failed" ELSE "fetch"
    /\ UNCHANGED <<site, pages>>

\* The record of one answer: only a 2xx answer with a body is parsed.
PageRecord(url, outcome) ==
    [url |-> url, parsed |-> outcome = "content", error |-> outcome = "error",
     retry_after |-> outcome = "throttled"]

\* The next pick: the entry page was fetched by another gatherer.
Fetch ==
    /\ sampling = "fetch" /\ Len(pages) < Len(selection)
    /\ LET pick == selection[Len(pages) + 1] IN
       \E outcome \in Outcomes :
          /\ pick.reason = "entry" => outcome # "error" /\ (site.html <=> outcome # "empty")
          /\ pages' = Append(pages, PageRecord(pick.url, outcome))
    /\ UNCHANGED <<site, selection, sampling>>

FinishPages ==
    /\ sampling = "fetch" /\ Len(pages) = Len(selection)
    /\ sampling' = "done"
    /\ UNCHANGED <<site, selection, pages>>

SampleNext == Select \/ Fetch \/ FinishPages

-----------------------------------------------------------------------------
PicksAreDistinct ==
    \A i, j \in DOMAIN selection : Canon[selection[i].url] = Canon[selection[j].url] => i = j

PicksStayOnSite == \A i \in DOMAIN selection : selection[i].url \in OnSite

WindowIsRead ==
    \A k \in DOMAIN Window :
        Window[k] \in OnSite => \E i \in DOMAIN selection : Canon[selection[i].url] = Canon[Window[k]]

\* Below both caps no entry of the window goes unread.
WindowIsUsed == Len(selection) < Limit => WindowIsRead

RecordsFollowPicks ==
    /\ \A i \in DOMAIN pages : pages[i].url = selection[i].url
    /\ sampling = "done" => Len(pages) = Len(selection)

\* The sample begins with the entry page, names no page twice however it is
\* spelt, stays on the site, has at most max_pages pages beyond the entry page,
\* leaves no sitemap entry out below both caps, and has one record per pick.
\* (The behaviour of select_pages and gather_pages, gatherers/pages.py: a page
\* sampled twice would be reported twice.)
SampleIsSound ==
    selection # <<>> =>
        /\ selection[1].reason = "entry"
        /\ \A i \in DOMAIN selection : selection[i].reason = "entry" => i = 1
        /\ PicksAreDistinct
        /\ PicksStayOnSite
        /\ Len(selection) - 1 <= site.max_pages
        /\ WindowIsUsed
        /\ RecordsFollowPicks

\* "max pages to sample beyond the entry URL" (the help of --max-pages,
\* cli.py): with fewer than that beside the entry page, select_pages leaves no
\* sitemap entry of its window that is on the site out.
MaxPagesBeyondEntry ==
    selection # <<>> /\ Len(selection) - 1 < site.max_pages => WindowIsRead
=============================================================================
