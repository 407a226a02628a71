--------------------------- MODULE SitemapReading ---------------------------
(***************************************************************************)
(* How a scan finds and reads the sitemap (gatherers/sitemap.py,           *)
(* check_sitemap, and gatherers/sitemap_urls.py).  Candidates are asked    *)
(* one after the other until one validates; the document found is then     *)
(* fetched again to be read, and of an index its first child too.  Nothing *)
(* makes the server answer the second request as it answered the first.    *)
(***************************************************************************)
EXTENDS Naturals, Sequences, SequencesExt

CONSTANTS
    Url,            \* the URLs robots.txt, a sitemap and an entry page can name
    Declarations,   \* the Sitemap: values of robots.txt that are explored
    Unrequestable,  \* the URLs no request can be made of (relative, not http)
    Fallbacks,      \* the standard addresses, in order
    Malformed,      \* the http(s) texts urlsplit() raises ValueError on
    Servers,        \* the servers explored: server[u] is the set of answers
                    \* a request of u can get
    MaxEntries      \* MAX_ENTRIES

\* An answer has a status (or none: nobody answered, or the client refused to
\* ask), the root element of its body, and the locations in it.
NoAnswer == 0
Refused == 1
Roots == {"urlset", "sitemapindex", "foreign", "html", "broken"}
Reply == [status : Nat, root : Roots, locs : Seq(Url)]

requestable(values) == SelectSeq(values, LAMBDA u : u \notin Unrequestable)

ASSUME SitemapAssumption ==
    /\ \A values \in Declarations : requestable(values) \in Seq(Url)
    /\ Fallbacks \in Seq(Url) /\ Fallbacks # <<>>
    /\ Servers \subseteq [Url -> SUBSET Reply]
    /\ MaxEntries \in Nat \ {0}

VARIABLES
    server,         \* who answers
    queue,          \* the candidates not asked yet
    missed,         \* did a candidate get no answer (first_error)?
    requests,       \* specification variable: what was asked, and the answers
    record,         \* the evidence, as far as it got
    reading         \* "locate", "read", "child", "probe", "done" or "failed"

sitemapVars == <<server, queue, missed, requests, record, reading>>

Answered(answer) == answer.status \notin {NoAnswer, Refused}

\* check_sitemap strips any namespace off the root element, so the urlset of
\* another namespace ("foreign") validates; _entries does not.
Validates(answer) == answer.status = 200 /\ answer.root \in {"urlset", "sitemapindex", "foreign"}
Parses(answer) == answer.root \notin {"broken", "html"}
Soft200(answer) == answer.status = 200 /\ answer.root = "html"
Locations(answer) == IF answer.root \in {"urlset", "sitemapindex"} THEN answer.locs ELSE <<>>

NoRecord ==
    [exists |-> FALSE, valid |-> FALSE, url |-> "none", fetch_status |-> "ok",
     entries |-> <<>>, served_as_html |-> FALSE]

CandidatesOf(declared) ==
    [i \in DOMAIN declared |-> [url |-> declared[i], declared |-> TRUE]]
        \o [i \in DOMAIN Fallbacks |-> [url |-> Fallbacks[i], declared |-> FALSE]]

SitemapInit ==
    /\ server \in Servers
    /\ \E values \in Declarations : queue = CandidatesOf(requestable(values))
    /\ missed = FALSE
    /\ requests = <<>>
    /\ record = NoRecord
    /\ reading = "locate"

-----------------------------------------------------------------------------
Request(url, answer) == requests' = Append(requests, [url |-> url, answer |-> answer])

\* Mutant of Unanswered: what the client refuses to send is never a miss.
Unanswered_IgnoresRefusals(candidate, answer) == answer.status = NoAnswer

\* A declared value the client refuses is the site's own mistake.
Unanswered(candidate, answer) ==
    answer.status = NoAnswer \/ (answer.status = Refused /\ ~candidate.declared)

\* One candidate of check_sitemap: it validates, or the next one is asked;
\* after the last one a miss is reported.
Locate ==
    /\ reading = "locate"
    /\ \E answer \in server[Head(queue).url] :
          LET located == IF answer.status = 200
                         THEN [record EXCEPT !.exists = TRUE, !.url = Head(queue).url, !.valid = Validates(answer)]
                         ELSE record
              over == Tail(queue) = <<>> /\ ~Validates(answer)
          IN  /\ Request(Head(queue).url, answer)
              /\ missed' = (missed \/ Unanswered(Head(queue), answer))
              /\ record' = [located EXCEPT !.fetch_status = IF over /\ missed' THEN "error" ELSE "ok"]
              /\ reading' = IF ~over /\ ~Validates(answer) THEN "locate"
                            ELSE IF located.exists THEN "read" ELSE "probe"
    /\ queue' = Tail(queue)
    /\ UNCHANGED server

\* Nothing was found: the standard address once more, for its status.
Probe ==
    /\ reading = "probe"
    /\ \E answer \in server[Fallbacks[1]] :
          /\ Request(Fallbacks[1], answer)
          /\ record' = [record EXCEPT !.served_as_html = Soft200(answer)]
    /\ reading' = "done"
    /\ UNCHANGED <<server, queue, missed>>

Entries(answer) ==
    LET all == Locations(answer)
    IN  SubSeq(all, 1, IF Len(all) < MaxEntries THEN Len(all) ELSE MaxEntries)

\* What reading the document that was found makes of the record.
ReadRecord(answer) ==
    IF ~Answered(answer) THEN record
    ELSE IF Soft200(answer)
         THEN [record EXCEPT !.exists = FALSE, !.url = "none", !.valid = FALSE, !.served_as_html = TRUE]
    ELSE IF ~Parses(answer) THEN [record EXCEPT !.valid = FALSE]
    ELSE [record EXCEPT !.valid = answer.root \in {"urlset", "sitemapindex"}, !.entries = Entries(answer)]

\* The document found is fetched again; of an index only the first child is
\* followed, whose answer then decides.
Read ==
    /\ reading = "read"
    /\ \E answer \in server[record.url] :
          /\ Request(record.url, answer)
          /\ record' = ReadRecord(answer)
          /\ reading' = IF answer.root = "sitemapindex" /\ Answered(answer) /\ answer.locs # <<>>
                        THEN "child" ELSE "done"
    /\ UNCHANGED <<server, queue, missed>>

FirstChild == record.entries[1]

\* The child is read whatever its status; one that does not parse makes the
\* index invalid, and a location urlsplit() rejects ends the gatherer.
ReadChild ==
    /\ reading = "child"
    /\ IF FirstChild \in Malformed
       THEN reading' = "failed" /\ UNCHANGED <<requests, record>>
       ELSE /\ \E answer \in server[FirstChild] :
                  /\ Request(FirstChild, answer)
                  /\ record' = IF ~Answered(answer) THEN [record EXCEPT !.entries = <<>>]
                               ELSE IF ~Parses(answer) THEN [record EXCEPT !.valid = FALSE, !.entries = <<>>]
                               ELSE [record EXCEPT !.entries = Entries(answer)]
            /\ reading' = "done"
    /\ UNCHANGED <<server, queue, missed>>

SitemapNext == Locate \/ Probe \/ Read \/ ReadChild

SitemapSpec == SitemapInit /\ [][SitemapNext]_sitemapVars

\* The entries, as the page sample gets them: none of a gatherer that failed.
SitemapEntries == IF reading = "failed" THEN <<>> ELSE record.entries

-----------------------------------------------------------------------------
Asked == {requests[i] : i \in DOMAIN requests}

\* The server answered no two requests of one address differently.
Consistent == \A r, s \in Asked : r.url = s.url => r.answer = s.answer

\* A sitemap that validates and whose reading can only confirm it.
Sound(answer) == Validates(answer) /\ answer.root # "foreign" /\ (answer.root = "sitemapindex" => answer.locs = <<>>)

\* What the record says rests on what was answered.  A sitemap is called valid
\* only if a request got one, and its entries are those of the last document
\* read; and of a server that does not change its answers, a sitemap is called
\* absent only if every address was asked and answered, unless it was declared
\* and could not be asked at all, and invalid only if no sound one was seen.
\* (sitemap.py: "the absence of a valid sitemap is only established when every
\* candidate answered".)
SitemapRecordFounded ==
    reading = "done" =>
        /\ record.valid => \E r \in Asked : r.answer.root \in {"urlset", "sitemapindex", "foreign"}
        /\ record.entries # <<>> =>
              record.valid /\ IsPrefix(record.entries, Last(requests).answer.locs)
        /\ Consistent /\ ~record.exists /\ record.fetch_status = "ok" =>
              /\ queue = <<>>
              /\ \A i \in DOMAIN Fallbacks :
                    \E r \in Asked : r.url = Fallbacks[i] /\ Answered(r.answer)
              /\ \A r \in Asked : r.answer.status # NoAnswer /\ ~Validates(r.answer)
        /\ Consistent /\ ~record.valid => \A r \in Asked : ~Sound(r.answer)
=============================================================================
