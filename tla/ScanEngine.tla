----------------------------- MODULE ScanEngine -----------------------------
(***************************************************************************)
(* One scan (scovant_core/engine.py, scan): the entry fetch, profile       *)
(* detection, the selected checks in registry order, the snapshot of what  *)
(* the selection gathered, the Technical Readiness pass, the close of the  *)
(* HTTP client and the report.  Every phase asks the evidence store        *)
(* (module EvidenceStore) through the same three requests a gatherer has.  *)
(*                                                                         *)
(* Time is abstracted to a budget of gatherers: each networked gatherer    *)
(* costs one unit of it, and one that finishes after the budget is spent   *)
(* returns evidence in which no request was answered.                      *)
(***************************************************************************)
EXTENDS EvidenceStore, FiniteSets

CONSTANTS
    CHECKS,             \* the check ids in registry order
    CheckProgram,       \* CheckProgram[c]: the requests of check c, in order
    Category,           \* Category[c]
    Profiles,           \* the profiles a scan can resolve to
    AppliesTo,          \* AppliesTo[c]: the profiles check c evaluates on
    Brief,              \* checks that may return after their first request
    TechnicalProgram,   \* the requests of the Technical Readiness pass
    Experimental,       \* options.experimental
    Options,            \* the option records scans are started with
    Faults,             \* the combinations of parts that raise in one scan
    Network,            \* the gatherers that send requests
    Budget              \* how many of those fit in the time budget

Ids == {CHECKS[i] : i \in 1..Len(CHECKS)}

\* A phase asks the way a gatherer does: get and try_get for registered names.
IsProgram(program) ==
    /\ Len(program) \in Nat
    /\ \A i \in 1..Len(program) :
          /\ program[i].mode \in Modes
          /\ program[i].mode # "gathered" => program[i].name \in Names

\* A check that may return after its first request has one.
ASSUME RequestsAssumption ==
    /\ {"http", "pages", "openapi"} \subseteq Names
    /\ IsProgram(TechnicalProgram)
    /\ \A c \in Ids : IsProgram(CheckProgram[c]) /\ (c \in Brief => Len(CheckProgram[c]) > 0)

ASSUME RegistryAssumption == CHECKS \in Seq(Ids)

\* GATHERERS is a dict: finitely many names, some of which send requests.
ASSUME GatherersAssumption ==
    IsFiniteSet(Names) /\ Network \subseteq Names /\ Budget \in Nat

Tokens == Ids \cup {Category[c] : c \in Ids}

VARIABLES
    options,        \* the options of this scan
    faults,         \* gatherers, checks, detector and passes whose own code raises
    early,          \* the brief checks that return after their first request
    detected,       \* the profile the evidence points at
    phase,          \* where scan() is
    check,          \* index of the check that is running
    tpc,            \* the current phase's (check's) program counter
    seen,           \* the evidence the current phase (check) could read
    profile,        \* ctx.resolved_profile
    results,        \* results: what each check that ran came to
    checkRead,      \* what each check could read
    selection_errors, robots_evidence,      \* snapshot before the Technical pass
    readiness,      \* "off", "computed" or "failed" (technical_error)
    rated,          \* the evidence the rating was computed from
    technical_gather_errors,
    spent,          \* time units used
    answered        \* evidence whose requests were sent within the budget

scanWorld == <<options, faults, early, detected>>
progress == <<phase, tpc, seen>>
checking == <<check, results, checkRead>>
snapshot == <<selection_errors, robots_evidence>>
technical == <<readiness, rated, technical_gather_errors>>
engine == <<progress, profile, checking, snapshot, technical>>
time == <<spent, answered>>
scanVars == <<vars, scanWorld, engine, time>>

-----------------------------------------------------------------------------
(* Selection *)

validate_selectors(o) == o.include \cup o.exclude \subseteq Tokens

Match(c, sel) == c \in sel \/ Category[c] \in sel

IncludeFiltered(o) == {c \in Ids : o.include = {} \/ Match(c, o.include)}

\* Mutant of Selected: an inclusion overrides the exclusion.
SelectedIncludeWins(o) ==
    {c \in IncludeFiltered(o) : o.include # {} \/ ~(o.exclude # {} /\ Match(c, o.exclude))}

Selected(o) == {c \in IncludeFiltered(o) : ~(o.exclude # {} /\ Match(c, o.exclude))}

scan_scope(o) == IF o.include # {} \/ o.exclude # {} \/ Experimental THEN "CUSTOM" ELSE "CANONICAL"

-----------------------------------------------------------------------------
\* Mutant of EntryProgram: the entry page is left to the checks.
NoEntryProgram ==
    <<>>

EntryProgram == <<[mode |-> "try_get", name |-> "http"]>>
ProfileProgram == <<[mode |-> "try_get", name |-> "pages"], [mode |-> "try_get", name |-> "openapi"]>>
ReportProgram == <<[mode |-> "get", name |-> "http"]>>

CurrentCheck == CHECKS[check]

Applicable(c) == profile \in AppliesTo[c]

\* What a check requests: nothing when it is not selected or not applicable.
CheckRequests(c) ==
    IF c \notin Selected(options) \/ ~Applicable(c) THEN <<>>
    ELSE IF c \in early THEN <<CheckProgram[c][1]>>
    ELSE CheckProgram[c]

\* The requests of the phase (in phase "checks", of the running check).
Task ==
    IF phase = "entry" THEN EntryProgram
    ELSE IF phase = "profile" THEN ProfileProgram
    ELSE IF phase = "checks" /\ check <= Len(CHECKS) THEN CheckRequests(CurrentCheck)
    ELSE IF phase = "technical" THEN TechnicalProgram
    ELSE IF phase = "report" THEN ReportProgram
    ELSE <<>>

\* The solution of Obtainable, computed along the acyclic request graph.
CanGather[n \in Names] == sound[n] /\ \A d \in Asks(n, "get") : CanGather[d]

ScanInit ==
    /\ options \in Options
    /\ faults \in Faults
    /\ sound = [n \in Names |-> n \notin faults]
    /\ fate = [n \in Names |-> CanGather[n]]
    /\ fate \in [Names -> BOOLEAN] /\ Obtainable(fate)     \* which it is
    /\ data = <<>> /\ errors = <<>> /\ stack = <<>>
    /\ runs = [n \in Names |-> 0]
    /\ early \in {{}, Brief}
    /\ detected \in Profiles
    /\ phase = "start"
    /\ check = 1 /\ tpc = 1 /\ seen = {}
    /\ profile = options.profile
    /\ results = <<>> /\ checkRead = <<>>
    /\ selection_errors = {} /\ robots_evidence = FALSE
    /\ readiness = "off" /\ rated = {} /\ technical_gather_errors = {}
    /\ spent = 0 /\ answered = {}

-----------------------------------------------------------------------------
(* Requests of the running phase *)

Idle == stack = <<>>

\* _types raises on a page with a nested JSON-LD @graph that holds a non-object;
\* evidence of pages that nobody answered for has no such page in it.
DetectorChokes ==
    /\ phase = "profile" /\ Idle
    /\ "profile" \in faults /\ "pages" \in seen
    /\ {"http", "pages"} \cap answered # {}

TaskRequesting == Idle /\ ~DetectorChokes /\ tpc <= Len(Task)
TaskRequest == Task[tpc]
TaskOver == Idle /\ tpc > Len(Task)

\* scan() itself goes on, the store and the clock stand still.
Enter(p) ==
    /\ phase' = p /\ tpc' = 1 /\ seen' = {}
    /\ UNCHANGED <<vars, scanWorld, time>>

\* The phase asks for evidence nobody asked for yet.
TaskCall ==
    /\ TaskRequesting
    /\ TaskRequest.mode # "gathered"
    /\ Call(TaskRequest.name)
    /\ UNCHANGED <<scanWorld, engine, time>>

\* Mutant of TaskAnswer: the Technical pass reads only what is there.
TaskAnswerPassiveRating ==
    /\ TaskRequesting
    /\ \/ TaskRequest.name \in DOMAIN data
       \/ TaskRequest.mode = "try_get" /\ TaskRequest.name \in DOMAIN errors
       \/ TaskRequest.mode = "gathered" \/ phase = "technical"
    /\ tpc' = tpc + 1
    /\ seen' = seen \cup (DOMAIN data \cap {TaskRequest.name})
    /\ UNCHANGED <<vars, scanWorld, time, phase, profile, checking, snapshot, technical>>

\* The store answers the phase from its tables.
TaskAnswer ==
    /\ TaskRequesting
    /\ \/ TaskRequest.name \in DOMAIN data
       \/ TaskRequest.mode = "try_get" /\ TaskRequest.name \in DOMAIN errors
       \/ TaskRequest.mode = "gathered"
    /\ tpc' = tpc + 1
    /\ seen' = seen \cup (DOMAIN data \cap {TaskRequest.name})
    /\ UNCHANGED <<vars, scanWorld, time, phase, profile, checking, snapshot, technical>>

\* Mutant of TaskUnavailable: a failed try_get fails the check.
TaskUnavailableSoftly ==
    /\ TaskRequesting
    /\ TaskRequest.mode \in {"get", "try_get"}
    /\ TaskRequest.name \in DOMAIN errors

TaskUnavailable ==
    /\ TaskRequesting
    /\ TaskRequest.mode = "get"
    /\ TaskRequest.name \in DOMAIN errors

\* A gatherer makes one step; a networked one uses up time when it is done.
GathererStep ==
    /\ Step
    /\ UNCHANGED <<scanWorld, engine>>
    /\ LET finishing == stack' = Callers
           networked == Top.name \in Network
           inTime == spent < Budget
       IN  /\ spent' = IF finishing /\ networked /\ inTime THEN spent + 1 ELSE spent
           /\ answered' = IF finishing /\ (~networked \/ inTime)
                          THEN answered \cup {Top.name} ELSE answered

-----------------------------------------------------------------------------
(* Phases *)

\* UnknownSelector, or ValueError for an unknown site type: before any I/O.
Acceptable(o) == validate_selectors(o) /\ o.site_type_known

Start ==
    /\ phase = "start"
    /\ Enter(IF Acceptable(options) THEN "entry" ELSE "rejected")
    /\ UNCHANGED <<profile, checking, snapshot, technical>>

\* An explicit profile skips the detector and its requests.
EntryDone ==
    /\ phase = "entry" /\ TaskOver
    /\ Enter(IF options.profile = "auto" THEN "profile" ELSE "checks")
    /\ UNCHANGED <<profile, checking, snapshot, technical>>

\* resolve_profile: without pages only the OpenAPI signal is left, without
\* both the profile is "content".
ProfileDone ==
    /\ phase = "profile" /\ TaskOver /\ ~DetectorChokes
    /\ profile' = IF "pages" \in seen \/ ("openapi" \in seen /\ detected = "api")
                  THEN detected ELSE "content"
    /\ Enter("checks")
    /\ UNCHANGED <<checking, snapshot, technical>>

\* apply_profile is called outside every handler: the client is closed, there is
\* no report, and the exception leaves scan().
ProfileRaises ==
    /\ DetectorChokes
    /\ Enter("undetected")
    /\ UNCHANGED <<profile, checking, snapshot, technical>>

\* The running check comes to a result and the next one is up.
Conclude(status) ==
    /\ results' = Extend(results, CurrentCheck, status)
    /\ checkRead' = Extend(checkRead, CurrentCheck, seen)
    /\ check' = check + 1
    /\ Enter("checks")
    /\ UNCHANGED <<profile, snapshot, technical>>

Checking == phase = "checks" /\ check <= Len(CHECKS)
RunningCheck == Checking /\ CurrentCheck \in Selected(options)

SkipCheck ==
    /\ Checking
    /\ CurrentCheck \notin Selected(options)
    /\ check' = check + 1
    /\ Enter("checks")
    /\ UNCHANGED <<profile, results, checkRead, snapshot, technical>>

CheckNotApplicable ==
    RunningCheck /\ ~Applicable(CurrentCheck) /\ Conclude("NOT_APPLICABLE")

\* Mutant of CheckUnavailable: EvidenceUnavailable leaves the check.
CheckUnavailableAborts ==
    /\ RunningCheck /\ Applicable(CurrentCheck) /\ TaskUnavailable
    /\ Enter("aborted")
    /\ UNCHANGED <<profile, checking, snapshot, technical>>

\* Mutant of CheckUnavailable: the check is run again until its evidence is there.
CheckUnavailableRetries ==
    /\ RunningCheck /\ Applicable(CurrentCheck) /\ TaskUnavailable
    /\ Enter("checks")
    /\ UNCHANGED <<profile, checking, snapshot, technical>>

CheckUnavailable ==
    RunningCheck /\ Applicable(CurrentCheck) /\ TaskUnavailable /\ Conclude("gather_error")

CheckEvaluated ==
    /\ RunningCheck /\ Applicable(CurrentCheck) /\ TaskOver
    /\ Conclude(IF CurrentCheck \in faults THEN "bug" ELSE "evaluated")

\* results are complete: dict(store.errors), store.gathered("robots_txt").
Snapshot ==
    /\ phase = "checks" /\ check > Len(CHECKS)
    /\ selection_errors' = DOMAIN errors
    /\ robots_evidence' = ("robots_txt" \in DOMAIN data)
    /\ Enter(IF options.technical THEN "technical" ELSE "close")
    /\ UNCHANGED <<profile, checking, technical>>

\* Mutant of TechnicalDone: the selection metrics are read after the Technical pass.
TechnicalDoneResnapshots ==
    /\ phase = "technical" /\ TaskOver
    /\ readiness' = IF "technical" \in faults THEN "failed" ELSE "computed"
    /\ rated' = IF "technical" \in faults THEN {} ELSE seen \cap answered
    /\ technical_gather_errors' = DOMAIN errors \ selection_errors
    /\ selection_errors' = DOMAIN errors
    /\ Enter("close")
    /\ UNCHANGED <<profile, checking, robots_evidence>>

\* technical_report returned, or raised and was degraded to technical_error.
TechnicalDone ==
    /\ phase = "technical" /\ TaskOver
    /\ readiness' = IF "technical" \in faults THEN "failed" ELSE "computed"
    /\ rated' = IF "technical" \in faults THEN {} ELSE seen \cap answered
    /\ technical_gather_errors' = DOMAIN errors \ selection_errors
    /\ Enter("close")
    /\ UNCHANGED <<profile, checking, snapshot>>

\* finally: client.close()
Close ==
    /\ phase = "close"
    /\ Enter("report")
    /\ UNCHANGED <<profile, checking, snapshot, technical>>

\* store.get("http") after the client is closed; EvidenceUnavailable escapes.
Report ==
    /\ phase = "report"
    /\ \/ TaskUnavailable /\ Enter("aborted")
       \/ TaskOver /\ Enter("reported")
    /\ UNCHANGED <<profile, checking, snapshot, technical>>

ScanNext ==
    \/ GathererStep \/ TaskCall \/ TaskAnswer
    \/ Start \/ EntryDone \/ ProfileDone \/ ProfileRaises
    \/ SkipCheck \/ CheckNotApplicable \/ CheckUnavailable \/ CheckEvaluated
    \/ Snapshot \/ TechnicalDone \/ Close \/ Report

\* The innermost gatherer is sending its own requests.
AtNetwork == InOwnCode /\ Top.name \in Network

\* scan() is one thread that is never waiting for another.  Nothing in it bounds
\* how long a gatherer's own requests take: a name lookup may hang for ever.
ScanSpec == ScanInit /\ [][ScanNext]_scanVars /\ WF_scanVars(~AtNetwork /\ ScanNext)
-----------------------------------------------------------------------------
(* What a scan should gather, from the request programs alone *)

\* The requests of a program that are reached: a get of evidence that cannot
\* be gathered ends it.
Reached(program) ==
    {program[i].name : i \in {j \in 1..Len(program) :
        /\ program[j].mode # "gathered"
        /\ \A k \in 1..(j - 1) : program[k].mode = "get" => fate[program[k].name]}}

\* Everything gathered because of the given requests, in rounds of nesting.
Closure(roots) ==
    LET Round[k \in Nat] ==
            IF k = 0 THEN roots
            ELSE LET outer == Round[k - 1]
                 IN  outer \cup UNION {Reached(Program[n]) : n \in outer}
    IN  Round[Cardinality(Names)]

SelectionDemand ==
    Closure(Reached(EntryProgram)
            \cup (IF options.profile = "auto" THEN Reached(ProfileProgram) ELSE {})
            \cup UNION {Reached(CheckRequests(c)) : c \in Ids})

TotalDemand ==
    SelectionDemand \cup (IF options.technical THEN Closure(Reached(TechnicalProgram)) ELSE {})

Lost(S) == {n \in S : ~fate[n]}

Over == phase \in {"reported", "aborted", "undetected", "rejected"}
Scanned == phase \in {"reported", "aborted"}

-----------------------------------------------------------------------------
(* Properties *)

Requested(c) == {CheckRequests(c)[i] : i \in 1..Len(CheckRequests(c))}

\* What a check has to come to.
Verdict(c) ==
    IF ~Applicable(c) THEN "NOT_APPLICABLE"
    ELSE IF \E r \in Requested(c) : r.mode = "get" /\ ~fate[r.name] THEN "gather_error"
    ELSE IF c \in faults THEN "bug"
    ELSE "evaluated"

\* The verdict of a check depends on its own evidence and profile alone, not on
\* which other checks ran before it, failed, or were selected; and so does what
\* it read, unless it asks for what others happened to gather.
VerdictsIndependent ==
    \A c \in DOMAIN results :
        /\ results[c] = Verdict(c)
        /\ results[c] = "evaluated" /\ (\A r \in Requested(c) : r.mode # "gathered") =>
              checkRead[c] = {n \in {r.name : r \in Requested(c)} : fate[n]}

\* A scan that starts runs exactly the selected checks, and the selection is
\* the one the provenance block describes (include, then exclude).
ResultsMatchSelection ==
    Scanned =>
        /\ DOMAIN results = Selected(options)
        /\ DOMAIN results = IncludeFiltered(options) \ {c \in Ids : Match(c, options.exclude)}
        /\ scan_scope(options) = "CANONICAL" => DOMAIN results = Ids

\* gather_errors and ai_crawler_policy are what the selection alone asks for.
MetricsDescribeSelection ==
    Scanned =>
        /\ selection_errors = Lost(SelectionDemand)
        /\ robots_evidence <=> "robots_txt" \in SelectionDemand \ Lost(SelectionDemand)

TechnicalErrorsDisclosed ==
    Scanned /\ options.technical =>
        technical_gather_errors = Lost(TotalDemand) \ Lost(SelectionDemand)

GathersOnDemand == Scanned => {n \in Names : runs[n] > 0} = TotalDemand

\* Every gatherer that ran, and every failure in the report, is accounted to
\* whoever asked for it: the metrics describe the selection whether the
\* Technical pass ran or not, a failure only that pass met is reported once, as
\* such, and a passive read (gathered) never causes a fetch.
GatheringAccounted == MetricsDescribeSelection /\ TechnicalErrorsDisclosed /\ GathersOnDemand

\* The rating is computed from the same evidence under every selection.
RatingIgnoresSelection ==
    readiness = "computed" => rated = {n \in Reached(TechnicalProgram) : fate[n]}

\* "A check bug or a gathering failure never aborts the scan": a scan ends without
\* a report only when the entry gatherer's own code failed, or when the profile
\* had to be detected and the detector choked on pages that were gathered.  No
\* other failure, of whatever check, gatherer or pass, keeps the report back.
AbortsExplained ==
    /\ phase = "aborted" => ~fate["http"]
    /\ phase = "undetected" =>
          options.profile = "auto" /\ "profile" \in faults /\ fate["pages"]
    /\ phase = "reported" => fate["http"]

\* scan() ends in a report or in a refusal of its options.
NeverAborts == phase \notin {"aborted", "undetected"}

\* Nothing is fetched outside the client's lifetime, or for refused options.
NoGatherAfterClose ==
    [][(phase \in {"start", "rejected", "report", "reported", "aborted", "undetected"})
          => UNCHANGED runs]_scanVars

\* Every scan comes to an end, whatever fails, unless one gatherer hangs in its
\* own requests: nothing the scan does between them goes on for ever.
ScanEnds == <>Over \/ <>[]AtNetwork
=============================================================================
