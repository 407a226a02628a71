----------------------------- MODULE Technical -----------------------------
(* A site that is scanned again and again while it changes, and what the     *)
(* command line and the GitHub Action make of the report.                    *)
(*                                                                           *)
(* Between two scans one thing happens: the owner of the site (or the host   *)
(* that speaks to it) changes one fact, or the scanner loses one piece of    *)
(* evidence.  The report of a scan is the Technical Readiness block of       *)
(* module Readiness.  After a scan `scovant scan` (cli.py) decides its exit  *)
(* code, writes the report and may contribute it (contribute.py); a job of   *)
(* the Action (action.yml, action.py) then applies the same thresholds.      *)
EXTENDS Readiness

CONSTANTS
  Sites,             \* the sites of the initial states
  Edits(_),          \* Edits(site): the sites that differ from it in one fact
  Groups,            \* the root-cause groups the manifest gives to some rules
  MaxChanges,        \* bound: changes between the first and the last scan
  EditChanges,       \* bound: changes before an edit, later ones being losses
  GateChanges,       \* bound: changes before the command line is followed
  CliOptions,        \* the command lines that are tried
  Diagnostics,       \* what the diagnostic checks may have found
  JobContexts        \* event, trust and inputs of the Action's job

ASSUME BoundsAssumption ==
  MaxChanges \in Nat /\ EditChanges \in 0..MaxChanges /\ GateChanges \in 0..MaxChanges

(* What argparse accepts; a threshold below zero is one that was not given.  *)
CommandLines ==
  [url : {"public", "not http", "with credentials"},
   user_agent : {"default", "names the Cloud crawler"}, contribute : BOOLEAN,
   allow_private_networks : BOOLEAN, selection : {"all", "some", "unknown id"},
   experimental : BOOLEAN, min_score : -1..100, require_canonical : BOOLEAN,
   fail_on : {"never", "warn", "fail"},
   fail_on_security : {"never", "medium", "high", "critical"}]

ASSUME OptionsAssumption == CliOptions \subseteq CommandLines

(* A scan ends in a document or in one of three errors, and samples finitely *)
(* many pages.                                                               *)
Entries == {"ok", "security", "network", "timeout"}
WellFormed(s) ==
  /\ {"store", "entry", "type", "host"} \subseteq DOMAIN s /\ s.entry \in Entries
  /\ "pages" \in DOMAIN s.store /\ IsFiniteSet(DOMAIN s.store.pages)

ASSUME SitesAssumption == \A s \in Sites : WellFormed(s)

VARIABLES
  site,              \* the evidence the next scan will gather
  report,            \* readiness.technical of the last scan
  pending,           \* what happened since that scan: "none", "edit", "loss", "page" or "refusal"
  changes,           \* how many changes there were
  cli,               \* the run of the command line on the last scan
  job                \* the run of the Action with the same thresholds

vars == <<site, report, pending, changes, cli, job>>

Manifest == technical_manifest(Groups)
Report(s) == technical_report(s.store, s.host, s.type, s.tokenizer, Manifest)

(* A manifest with a group that spans two categories is refused.             *)
ASSUME GroupsAssumption ==
  \A s, t \in Manifest :
    s.effect = "weighted" /\ t.effect = "weighted" /\ s.group # "" /\ s.group = t.group
      => s.category = t.category

NotInvoked == [phase |-> "idle"]

Init ==
  /\ site \in Sites
  /\ report = Report(site)
  /\ pending = "none"
  /\ changes = 0
  /\ cli = NotInvoked
  /\ job = NotInvoked

-----------------------------------------------------------------------------
(* What happens between two scans.                                           *)

Documents == DOMAIN site.store \ {"pages"}

(* What a gatherer publishes when it raised, when no response came, or when  *)
(* the site answered with a server error.  Four of them keep no status of    *)
(* their own, and two of these do not tell an error from a "there is none".  *)
Lost(g, doc, how) ==
  LET silent == IF how = NoAnswer THEN "error" ELSE "ok"
  IN CASE how = Raised -> [doc EXCEPT !.status = Raised]
       [] g = "sitemap_urls" ->
            [doc EXCEPT !.exists = FALSE, !.valid = FALSE, !.fetch_status = silent]
       [] g = "agent_discovery_surface" ->
            [doc EXCEPT !.any_found = FALSE, !.fetch_status = silent]
       [] g = "link_headers_surface" ->
            [doc EXCEPT !.agent_relevant = FALSE, !.fetch_status = "error"]
       [] g = "agent_payments_surface" ->
            [doc EXCEPT !.any_non_ucp = FALSE, !.fetch_status = "error"]
       [] OTHER -> [doc EXCEPT !.status = how]

(* A wall answers in the place of the page: what is parsed is the challenge. *)
Challenge(page) ==
  [page EXCEPT !.content_blocked = TRUE, !.links = {}, !.products = <<>>, !.product_data = FALSE,
               !.priced = FALSE, !.shipping_schema = FALSE,
               !.add_to_cart = FALSE, !.visible_price = NoPrice, !.text = 50, !.headings = <<>>,
               !.landmarks = FALSE, !.content_blocks = <<>>, !.noindex = TRUE,
               !.returns_link = FALSE, !.shipping_link = FALSE, !.og_title = FALSE,
               !.og_description = FALSE]

LostDocument(g, how) == [site EXCEPT !.store[g] = Lost(g, @, how)]

(* These two read a server error as an answer of the site.                   *)
Refusals == {LostDocument(g, 503) : g \in {"sitemap_urls", "agent_discovery_surface"}}

Losses ==
  ({LostDocument(g, how) : g \in Documents, how \in {Raised, NoAnswer, 503}} \ Refusals)
    \cup {[site EXCEPT !.store.pages[i] = Challenge(@)] : i \in DOMAIN site.store.pages}
    \cup {[site EXCEPT !.store.robots_txt.truncated = TRUE], [site EXCEPT !.tokenizer = FALSE]}

UnparsedPages == {[site EXCEPT !.store.pages[i].parsed = FALSE] : i \in DOMAIN site.store.pages}

Between(kind, sites) ==
  /\ pending = "none" /\ cli.phase = "idle" /\ changes < MaxChanges
  /\ \E s \in sites \ {site} : site' = s
  /\ pending' = kind
  /\ changes' = changes + 1
  /\ UNCHANGED <<report, cli, job>>

Edit == changes < EditChanges /\ Between("edit", Edits(site))
Lose == Between("loss", Losses)
LosePage == Between("page", UnparsedPages)
Refuse == Between("refusal", Refusals)

Scan ==
  /\ pending # "none"
  /\ report' = Report(site)
  /\ pending' = "none"
  /\ UNCHANGED <<site, changes, cli, job>>

-----------------------------------------------------------------------------
(* scovant scan: exit codes 0..6.                                            *)

OK == 0
THRESHOLD == 1
INVALID_INPUT == 2
NETWORK == 3
SECURITY == 4
INTERNAL == 5
SECURITY_GATE == 6

SeverityRank(severity) ==
  CASE severity = "critical" -> 3 [] severity = "high" -> 2 [] severity = "medium" -> 1 [] OTHER -> 0

Refused(o) ==
  \/ o.url \in {"not http", "with credentials"}
  \/ o.user_agent = "names the Cloud crawler"
  \/ o.contribute /\ o.allow_private_networks
  \/ o.selection = "unknown id"

(* The pass of Technical Readiness may itself raise: then there is no block. *)
technical_gate_failure(o, technical) ==
  \/ o.require_canonical /\ (~technical.computed \/ technical.status # "OK")
  \/ o.min_score >= 0 /\ (~technical.computed \/ technical.rating < o.min_score)

readiness_failure(o, found) ==
  \/ o.fail_on \in {"fail", "warn"} /\ FAIL \in found.readiness
  \/ o.fail_on = "warn" /\ WARN \in found.readiness

security_failure(o, found) ==
  /\ o.fail_on_security # "never"
  /\ \E s \in found.security_fails : SeverityRank(s) >= SeverityRank(o.fail_on_security)

(* Mutant of threshold_exit_code: the number is compared only if there is    *)
(* one, and the security gate is asked first.                                *)
threshold_exit_code_SecurityFirst(o, technical, found) ==
  IF security_failure(o, found) THEN SECURITY_GATE
  ELSE IF technical.computed /\ technical_gate_failure(o, technical) THEN THRESHOLD
  ELSE IF readiness_failure(o, found) THEN THRESHOLD ELSE OK

threshold_exit_code(o, technical, found) ==
  IF technical_gate_failure(o, technical) \/ readiness_failure(o, found) THEN THRESHOLD
  ELSE IF security_failure(o, found) THEN SECURITY_GATE ELSE OK

exit_code(o, technical, found) ==
  IF site.entry = "security" THEN SECURITY
  ELSE IF site.entry \in {"network", "timeout"} THEN NETWORK
  ELSE threshold_exit_code(o, technical, found)

Invoke ==
  /\ pending = "none" /\ cli.phase = "idle" /\ changes <= GateChanges
  /\ \E o \in CliOptions, found \in Diagnostics, computed \in BOOLEAN :
       LET technical == [computed |-> computed, status |-> report.status, rating |-> report.rating]
       IN cli' = IF Refused(o)
                   THEN [phase |-> "exited", o |-> o, exit |-> INVALID_INPUT, written |-> FALSE,
                         sent |-> "nothing"]
                   ELSE [phase |-> "decided", o |-> o, technical |-> technical, found |-> found,
                         exit |-> exit_code(o, technical, found), written |-> FALSE,
                         sent |-> "nothing"]
  /\ UNCHANGED <<site, report, pending, changes, job>>

scan_scope(o) == IF o.selection = "all" /\ ~o.experimental THEN "CANONICAL" ELSE "CUSTOM"

(* Mutant of Contributes: a partial scan is contributed too.                 *)
Contributes_AnyScope(o, technical) ==
  o.contribute /\ site.entry = "ok" /\ technical.computed /\ technical.status = "OK"

Contributes(o, technical) ==
  /\ o.contribute /\ site.entry = "ok"
  /\ scan_scope(o) = "CANONICAL"
  /\ technical.computed /\ technical.status = "OK"

(* The report goes to the terminal or to --output; a file that cannot be     *)
(* written ends the run, as does any other exception.                        *)
WriteReport ==
  /\ cli.phase = "decided"
  /\ \/ cli' = [cli EXCEPT !.written = TRUE,
                           !.phase = IF Contributes(cli.o, cli.technical) THEN "contributing"
                                     ELSE "exited"]
     \/ cli' = [cli EXCEPT !.exit = INTERNAL, !.phase = "exited"]
  /\ UNCHANGED <<site, report, pending, changes, job>>

Replies == {"no response", "503", "rejected", "accepted", "deduplicated", "not an object"}

(* send() catches what the request raises; a 2xx body that is valid JSON but *)
(* no object is asked for its fields outside of that.                        *)
ExitAfter(reply, exit) == IF reply = "not an object" THEN INTERNAL ELSE exit

Contribute ==
  /\ cli.phase = "contributing"
  /\ \E reply \in Replies :
       cli' = [cli EXCEPT !.sent = reply, !.exit = ExitAfter(reply, @), !.phase = "exited"]
  /\ UNCHANGED <<site, report, pending, changes, job>>

-----------------------------------------------------------------------------
(* The Action: guard, a scan without thresholds, outputs and summary, gate.  *)

Fork(c) ==
  /\ c.event \in {"pull_request", "pull_request_target"}
  /\ c.head_repo # "same"

JobRefused(c) == c.allow_private_networks /\ (~c.trusted_target \/ Fork(c))

(* Mutant of Ungated: the security threshold is given to the scan step.      *)
Ungated_KeepsSecurity(o) ==
  [o EXCEPT !.min_score = -1, !.require_canonical = FALSE, !.fail_on = "never",
            !.contribute = FALSE]

(* The scan step passes no threshold and never contributes.                  *)
Ungated(o) ==
  [o EXCEPT !.min_score = -1, !.require_canonical = FALSE, !.fail_on = "never",
            !.fail_on_security = "never", !.contribute = FALSE]

(* The job of the same thresholds on the same report.                        *)
JobScan ==
  /\ cli.phase = "exited" /\ cli.written /\ job.phase = "idle"
  /\ \E c \in JobContexts :
       LET code == IF JobRefused(c) THEN INVALID_INPUT
                   ELSE exit_code(Ungated(cli.o), cli.technical, cli.found)
       IN job' = [phase |-> IF code >= 2 THEN "ended" ELSE "outputs", context |-> c,
                  exit |-> code, outputs |-> FALSE]
  /\ UNCHANGED <<site, report, pending, changes, cli>>

JobOutputs ==
  /\ job.phase = "outputs"
  /\ job' = [job EXCEPT !.outputs = TRUE, !.phase = "gate"]
  /\ UNCHANGED <<site, report, pending, changes, cli>>

(* An empty minimum score or severity is no gate, as on the command line     *)
(* without it.  An empty fail-on is a usage error of argparse and not among  *)
(* the inputs here.                                                          *)
GateArguments(o) == o

JobGate ==
  /\ job.phase = "gate"
  /\ job' = [job EXCEPT !.exit = threshold_exit_code(GateArguments(cli.o), cli.technical, cli.found),
                        !.phase = "ended"]
  /\ UNCHANGED <<site, report, pending, changes, cli>>

Next ==
  \/ Edit \/ Lose \/ LosePage \/ Refuse \/ Scan
  \/ Invoke \/ WriteReport \/ Contribute
  \/ JobScan \/ JobOutputs \/ JobGate

Spec == Init /\ [][Next]_vars

-----------------------------------------------------------------------------
(* Properties: see MCTechnical for the instances.                            *)

Rated == {s.code : s \in Counted(Manifest)}
CrawlGraphRules == {"CRAWL-GRAPH-001", "CRAWL-GRAPH-002", "CRAWL-GRAPH-005"}
Loss == pending \in {"loss", "page"} /\ pending' = "none"

(* Nothing got worse and something may have been repaired: a rule that fired *)
(* does not any more, on the same pages, or a missing optional capability is *)
(* now there.                                                                *)
Better(before, after) ==
  \/ after = before
  \/ before.state = NA /\ after.state = PASS
  \/ /\ {before.state, after.state} \subseteq MEASURED_STATES
     /\ after.measured = before.measured /\ after.failed <= before.failed
     /\ after.state = PASS \/ after.state = before.state
     /\ before.state = PASS => after.state = PASS

StatusRank(status) ==
  CASE status = "OK" -> 2 [] status = "DEGRADED" -> 1 [] status = "INSUFFICIENT_EVIDENCE" -> 0

(* "Fixing any member can therefore only raise the rating" (docs/r2.md,      *)
(* r2/score.py): whatever else is on the site, repairs never lower the       *)
(* rating, the status or the score of a category, and never fire a gate.     *)
RepairNeverLowers ==
  [][ (\A c \in Rated : Better(report.outcomes[c], report'.outcomes[c]))
        => /\ report'.rating >= report.rating
           /\ StatusRank(report'.status) >= StatusRank(report.status)
           /\ \A c \in DOMAIN report.categories :
                c \in DOMAIN report'.categories
                  /\ report'.categories[c] >= report.categories[c]
           /\ report'.gates \subseteq report.gates ]_report

(* "Missing evidence is never counted as a failure" (docs/r2.md): after a    *)
(* probe, a page or the tokenizer is lost no rule has a verdict, or a failed *)
(* page, that it did not have before.  The experimental rules of the crawl   *)
(* graph are left out: a link that is not sampled any more can orphan pages. *)
LossIsNeverAVerdict ==
  [][ Loss => \A c \in DOMAIN report.outcomes \ CrawlGraphRules :
        LET before == report.outcomes[c]
            after == report'.outcomes[c]
        IN after.state \in MEASURED_STATES =>
             /\ before.state \in MEASURED_STATES
             /\ after.failed <= before.failed /\ after.measured <= before.measured
             /\ after.measured = before.measured => after.state = before.state ]_report

(* "A document answered with status 429 or 5xx (or a truncated robots.txt)   *)
(* is NOT_MEASURED, never read as allow-all or absent" (docs/r2.md).         *)
RefusalIsNeverAVerdict ==
  [][ pending = "refusal" /\ pending' = "none" => \A c \in Rated :
        report'.outcomes[c].state = FAIL => report.outcomes[c].state = FAIL ]_report

(* "... it lowers coverage": a loss never raises the covered share of the    *)
(* applicable weight, unless it withdrew the only evidence for a capability  *)
(* and with it the rules gated by that capability.                           *)
LossNeverRaisesCoverage ==
  [][ Loss /\ report'.capabilities = report.capabilities =>
        report'.measured_w * report.applicable_w <= report.measured_w * report'.applicable_w
    ]_report

(* A rule that was rated before a loss and is not any more is listed as not  *)
(* measured with the lost evidence as its reason, never with a generic one   *)
(* (but for the two documents that report the missing answer themselves, and *)
(* for a page that drops out of a sample of several).                        *)
LossIsNamed ==
  [][ /\ Loss
      /\ pending = "page" => \A i \in DOMAIN site.store.pages : ~site.store.pages[i].parsed
      => \A n \in report'.not_measured :
        report.outcomes[n.rule].state \in MEASURED_STATES =>
          \/ n.reason \in {"probe_failed", "bot_protection_blocked", "tokenizer_unavailable"}
          \/ n.rule = "SITEMAP_MISSING_OR_INVALID" /\ FetchError(site.store.sitemap_urls)
          \/ n.rule = "AGENT_INTERFACE_DISCOVERY_ABSENT"
             /\ FetchError(site.store.agent_discovery_surface)
    ]_report

(* The weight missing from the coverage is the weight of the listed rules:   *)
(* the report hides no gap and lists none that is not there.                 *)
GapsAccounted ==
  LET listed == {s \in Counted(Manifest) : \E n \in report.not_measured : n.rule = s.code}
      counted == {s \in listed : category_applies(s.category, site.type)}
  IN pending = "none" => report.applicable_w = report.measured_w + Weights(counted)

(* The Action decides as the command line decided with the same thresholds,  *)
(* whatever the order of the gates, unless its own guard refused the job or  *)
(* the contribution, which the Action never makes, broke the run.            *)
GatesAgree ==
  job.phase = "ended" /\ ~JobRefused(job.context) /\ cli.exit # INTERNAL
    => job.exit = cli.exit

(* A scan that never reached the site, or whose rating has no number, is     *)
(* never green where a number is asked for, on the desk or in the Action,    *)
(* and an unreachable site publishes no outputs.                             *)
NeverGreenWithoutEvidence ==
  /\ cli.phase = "exited" /\ cli.written /\ (site.entry # "ok" \/
       (cli.o.min_score >= 0 /\ (~cli.technical.computed \/ cli.technical.rating < 0)))
       => cli.exit # OK
  /\ job.phase # "idle" /\ site.entry # "ok" => job.phase = "ended" /\ job.exit # OK /\ ~job.outputs

(* Only a public site, reached, scanned canonically and rated OK is ever     *)
(* contributed.                                                              *)
ContributedScansAreComparable ==
  cli.phase = "exited" /\ cli.sent # "nothing" =>
    /\ ~cli.o.allow_private_networks /\ site.entry = "ok"
    /\ cli.o.selection = "all" /\ ~cli.o.experimental
    /\ report.status = "OK" /\ report.rating >= 0

=============================================================================
