--------------------------- MODULE ReferenceProbe ---------------------------
(***************************************************************************)
(* Reference integrity: the packages and domains that llms.txt and the MCP *)
(* server descriptions name are looked up, under a budget, and judged      *)
(* (gatherers/reference_integrity.py, analysis/instruction_integrity.py,   *)
(* analysis/integrity_probe.py, checks/operability/core_operability_007).  *)
(* A domain is resolved in a thread of its own that the scan stops waiting *)
(* for after a timeout; the thread runs on.                                *)
(***************************************************************************)
EXTENDS Naturals, Sequences, FiniteSets, SequencesExt

CONSTANTS
    Mentions,       \* what a document can name: [form, kind, name] records
    Texts,          \* the documents explored: sequences of mentions
    Uninteresting,  \* infrastructure, reserved and own hosts
    Budget,         \* LOOKUP_BUDGET
    MaxReferences   \* MAX_REFERENCES

ASSUME BudgetAssumption == Budget \in Nat
VARIABLES
    options,        \* [experimental, remote_exec]: the flag, and whether the
                    \* documents pipe a download into a shell
    refs,           \* the references extracted from the documents, in order
    truth,          \* truth[r]: what the world holds under this name
    lookup,         \* lookup[i]: the lookup of refs[i], as its thread or the
                    \* registry left it; "none" when there was none
    waiting,        \* is the scan waiting for a resolver thread?
    found,          \* result["references"]: the statuses so far, in order
    spent,          \* lookups paid for
    budget_exhausted,
    verdict         \* the outcome of the check; "none" while the probe runs

probeVars == <<options, refs, truth, lookup, waiting, found, spent, budget_exhausted, verdict>>
world == <<options, refs, truth>>

-----------------------------------------------------------------------------
(* Extraction: install commands, then URLs, then bare host names. *)

Wanted(m) == m.kind = "domain" => m.name \notin Uninteresting

Reference(m) == [kind |-> m.kind, name |-> m.name]
References == {Reference(m) : m \in {x \in Mentions : Wanted(x)}}

Matches(t, form) == SelectSeq(t, LAMBDA m : m.form = form /\ Wanted(m))

\* Each reference once, in the order the patterns are tried, up to
\* MaxReferences of them.
extract_references(t) ==
    LET all == Matches(t, "npm") \o Matches(t, "yarn") \o Matches(t, "pip") \o Matches(t, "url") \o Matches(t, "bare")
        first == {i \in DOMAIN all : \A j \in 1..(i - 1) : Reference(all[j]) # Reference(all[i])}
        order == SetToSortSeq(first, <)
    IN  [k \in 1..(IF Len(order) < MaxReferences THEN Len(order) ELSE MaxReferences) |-> Reference(all[order[k]])]

ASSUME ExtractionAssumption == \A t \in Texts : extract_references(t) \in Seq(References)

Done == Len(found) = Len(refs)
Current == refs[Len(found) + 1]
Answer == lookup[Len(found) + 1]      \* while the scan waits for it

-----------------------------------------------------------------------------
(* The outside.  A name exists, is free, or (a domain) has no address. *)

Truths(r) == IF r.kind = "domain" THEN {"exists", "free", "addressless"} ELSE {"exists", "free"}

\* What getaddrinfo can come to: an outage is possible whatever is true.
Resolutions(t) ==
    {"again", "failed"} \cup
    CASE t = "exists" -> {"addresses"}
      [] t = "free" -> {"noname"}
      [] t = "addressless" -> {"nodata"}

\* What the registry GET can come to: the registry's own word, a refusal to
\* answer, another host's word after a redirect, or no answer.
Answers(t) ==
    {[host |-> "registry", status |-> s] : s \in {IF t = "exists" THEN 200 ELSE 404, 429, 503}}
    \cup {[host |-> "other", status |-> s] : s \in {200, 404}}
    \cup {[host |-> "nobody", status |-> 0]}

ProbeInit ==
    /\ options \in [experimental : BOOLEAN, remote_exec : BOOLEAN]
    /\ \E t \in Texts : refs = extract_references(t)
    /\ truth \in [References -> {"exists", "free", "addressless"}]
    /\ \A r \in References : truth[r] \in Truths(r)
    /\ lookup = <<>>
    /\ waiting = FALSE
    /\ found = <<>> /\ spent = 0 /\ budget_exhausted = FALSE
    /\ verdict = "none"

-----------------------------------------------------------------------------
(* Classification *)

domain_resolution(answer) ==
    IF answer = "addresses" THEN "exists"
    ELSE IF answer \in {"noname", "nodata"} THEN "missing" ELSE "unchecked"

\* Mutant of fetched: whoever a redirect led to is believed.
fetched_FromAnyone(answer) ==
    IF answer.host # "nobody" THEN answer.status ELSE 0

\* The status the wrapper of the guarded client passes on (0: None).
fetched(answer) ==
    IF answer.host = "registry" THEN answer.status ELSE 0

package_resolution(answer) ==
    IF fetched(answer) = 404 THEN "missing"
    ELSE IF fetched(answer) \in 200..299 THEN "exists" ELSE "unchecked"

classify_reference(r, resolution) ==
    IF resolution = "unchecked" THEN "UNCHECKED"
    ELSE IF resolution = "exists" THEN "VALID"
    ELSE IF r.kind = "domain" THEN "BROKEN" ELSE "UNCLAIMED"

\* The current reference is settled and the loop moves on.
Settle(resolution) == found' = Append(found, classify_reference(Current, resolution))

-----------------------------------------------------------------------------
(* The probe *)

Probing == options.experimental /\ verdict = "none" /\ ~waiting /\ ~Done

\* Mutant of BudgetLeft: one lookup too many.
BudgetLeft_OffByOne == spent <= Budget

BudgetLeft == spent < Budget

\* The budget is spent: the reference stays unchecked.
Exhaust ==
    /\ Probing /\ ~BudgetLeft
    /\ budget_exhausted' = TRUE
    /\ lookup' = Append(lookup, "none")
    /\ Settle("unchecked")
    /\ UNCHANGED <<world, waiting, spent, verdict>>

\* A resolver thread is started and waited for.
StartLookup ==
    /\ Probing /\ BudgetLeft /\ Current.kind = "domain"
    /\ spent' = spent + 1
    /\ lookup' = Append(lookup, "running")
    /\ waiting' = TRUE
    /\ UNCHANGED <<world, found, budget_exhausted, verdict>>

\* A resolver thread finishes, waited for or not.
Resolve(i) ==
    /\ lookup[i] = "running"
    /\ \E answer \in Resolutions(truth[refs[i]]) : lookup' = [lookup EXCEPT ![i] = answer]
    /\ UNCHANGED <<world, waiting, found, spent, budget_exhausted, verdict>>

\* The answer arrived within the timeout.
TakeAnswer ==
    /\ waiting /\ Answer # "running"
    /\ waiting' = FALSE
    /\ Settle(domain_resolution(Answer))
    /\ UNCHANGED <<world, lookup, spent, budget_exhausted, verdict>>

\* Mutant of TimeOut: leaving the executor joins its thread.
TimeOut_Joins ==
    /\ waiting /\ FALSE
    /\ UNCHANGED probeVars

\* It did not; the thread is left to finish on its own.
TimeOut ==
    /\ waiting /\ Answer = "running"
    /\ waiting' = FALSE
    /\ Settle("unchecked")
    /\ UNCHANGED <<world, lookup, spent, budget_exhausted, verdict>>

\* A registry is asked, synchronously.
AskRegistry ==
    /\ Probing /\ BudgetLeft /\ Current.kind # "domain"
    /\ spent' = spent + 1
    /\ \E answer \in Answers(truth[Current]) :
          /\ lookup' = Append(lookup, answer.host)
          /\ Settle(package_resolution(answer))
    /\ UNCHANGED <<world, waiting, budget_exhausted, verdict>>

\* A registry is being asked, through a client whose own lookups have no timeout.
AtRegistry == Probing /\ BudgetLeft /\ Current.kind # "domain"

Reported(status) == \E i \in DOMAIN found : found[i] = status

\* Mutant of MachineReferenceIntegrity: whatever was not convicted passes.
MachineReferenceIntegrity_Presumes ==
    IF ~options.experimental THEN "N/A"
    ELSE IF refs = <<>> /\ ~options.remote_exec THEN "N/A"
    ELSE IF Reported("BROKEN") THEN "FAIL"
    ELSE IF Reported("UNCLAIMED") \/ options.remote_exec THEN "WARN"
    ELSE "PASS"

\* The verdict.  The record of a probe that was attempted and failed in its
\* extraction, which only matches patterns in text, is left out: ERROR as well.
MachineReferenceIntegrity ==
    IF ~options.experimental THEN "N/A"
    ELSE IF refs = <<>> /\ ~options.remote_exec THEN "N/A"
    ELSE IF Reported("BROKEN") THEN "FAIL"
    ELSE IF Reported("UNCLAIMED") \/ options.remote_exec THEN "WARN"
    ELSE IF Reported("VALID") THEN "PASS"
    ELSE "ERROR"

\* The check reads the evidence: after the last reference, or at once when
\* the probe is off.
Judge ==
    /\ verdict = "none" /\ ~waiting /\ (options.experimental => Done)
    /\ verdict' = MachineReferenceIntegrity
    /\ UNCHANGED <<world, lookup, waiting, found, spent, budget_exhausted>>

ProbeStep == Exhaust \/ StartLookup \/ TakeAnswer \/ TimeOut \/ AskRegistry \/ Judge
ProbeNext == ProbeStep \/ \E i \in DOMAIN lookup : Resolve(i)
ProbeSpec == ProbeInit /\ [][ProbeNext]_probeVars

-----------------------------------------------------------------------------
\* A reference is reported as existing only when it exists and as missing
\* only when there is nothing to reach under its name, whatever times out,
\* answers late, is throttled or redirected.  (integrity_probe.py: "a
\* definitive 404 from a package registry is evidence, while a timeout is
\* not".)
OnlyEvidenceConvicts ==
    \A i \in DOMAIN found :
        /\ found[i] = "VALID" => truth[refs[i]] = "exists"
        /\ found[i] = "BROKEN" => refs[i].kind = "domain" /\ truth[refs[i]] # "exists"
        /\ found[i] = "UNCLAIMED" => refs[i].kind # "domain" /\ truth[refs[i]] = "free"

LookedUp == {i \in DOMAIN lookup : lookup[i] # "none"}

\* Every unit of the budget is one lookup started, strays included; no more
\* are started than the budget allows, none without the experimental flag,
\* and the budget is called exhausted exactly when a reference went without.
\* (LOOKUP_BUDGET in integrity_probe.py: a "hard budget per scan".)
BudgetIsKept ==
    /\ spent = Cardinality(LookedUp)
    /\ spent <= Budget
    /\ ~options.experimental => spent = 0
    /\ budget_exhausted <=> \E i \in DOMAIN found : i \notin LookedUp

\* The check fails a site only over a domain that cannot be reached, warns
\* only over a free package name or a remote-execution instruction, and
\* passes only over a reference seen to exist; nothing but outages is an
\* error.  (core_operability_007.py: "UNCHECKED alone can never surface as a
\* finding".)
VerdictNeedsEvidence ==
    LET named == {refs[i] : i \in DOMAIN refs} IN
    /\ verdict = "FAIL" => \E r \in named : r.kind = "domain" /\ truth[r] # "exists"
    /\ verdict = "WARN" => options.remote_exec \/ \E r \in named : r.kind # "domain" /\ truth[r] = "free"
    /\ verdict = "PASS" => ~options.remote_exec /\ \E r \in named : truth[r] = "exists"
    /\ verdict = "ERROR" => named # {} /\ \A i \in DOMAIN found : found[i] = "UNCHECKED"
    /\ verdict = "N/A" => spent = 0
=============================================================================
