-------------------------- MODULE ScanEngineProofs --------------------------
(***************************************************************************)
(* Proofs about whole scans, for every set of gatherers and checks, every  *)
(* selection, any combination of failures and any time budget.             *)
(*                                                                         *)
(* The phases of a scan drive the evidence store, so the store's invariant *)
(* (EvidenceStoreProofs) holds in a scan as soon as every step of a scan   *)
(* is a step of the store or leaves it alone.  What a phase knows of its   *)
(* own requests (SeenExactly) then decides what a check comes to.          *)
(*                                                                         *)
(* What a whole scan gathers is Closure, the least set of gatherers that   *)
(* contains its roots and all that its members reach.  The tables always   *)
(* lie between two of those: all who ran are Wanted (OnlyWanted), and what *)
(* is settled is complete (Worked), so a phase that is served has settled  *)
(* exactly its closure.                                                    *)
(***************************************************************************)
EXTENDS ScanEngine, EvidenceStoreProofs, Induction

Before == {"start", "rejected", "entry", "profile", "undetected"}
After == {"technical", "close", "report", "reported", "aborted"}

EngineTyped ==
    /\ phase \in Before \cup {"checks"} \cup After
    /\ tpc \in Nat \ {0}
    /\ check \in 1..(Len(CHECKS) + 1)
    /\ early \subseteq Brief
    /\ phase \in Before => check = 1
    /\ phase \in After => check = Len(CHECKS) + 1

\* A gatherer runs only because the phase is waiting for one of its requests.
WorksForTask == stack # <<>> => phase # "report" /\ tpc <= Len(Task)

\* The entry page is settled before anything else is asked for.
EntryFetched ==
    \/ phase \in {"start", "rejected"} \/ (phase = "entry" /\ tpc = 1)
    \/ "http" \in Settled

\* Why a scan has no report, with what the detector's part of it rests on.
AbortReason == AbortsExplained /\ (phase = "profile" => options.profile = "auto")

\* What the phase has read is what can be gathered of what it asked for.
SeenExactly ==
    /\ \A i \in 1..Len(Task) : i < tpc =>
          /\ Task[i].mode = "get" => fate[Task[i].name]
          /\ Task[i].mode # "gathered" => (Task[i].name \in seen <=> fate[Task[i].name])
    /\ \A n \in seen : fate[n] /\ \E i \in 1..Len(Task) : Task[i].name = n

ResultsSoFar ==
    /\ DOMAIN results = {CHECKS[i] : i \in 1..(check - 1)} \cap Selected(options)
    /\ DOMAIN checkRead = DOMAIN results

EngineInv ==
    /\ EngineTyped
    /\ WorksForTask
    /\ EntryFetched
    /\ AbortReason
    /\ SeenExactly
    /\ ResultsSoFar
    /\ VerdictsIndependent

ScanInv == IInv /\ EngineInv
-----------------------------------------------------------------------------
\* Every phase asks as a gatherer does.
LEMMA TaskIsProgram ==
    ASSUME EngineTyped
    PROVE  IsProgram(Task) /\ Len(Task) \in Nat
PROOF
  <1>1. IsProgram(EntryProgram) /\ IsProgram(ProfileProgram) /\ IsProgram(ReportProgram)
    BY RequestsAssumption DEF IsProgram, EntryProgram, ProfileProgram, ReportProgram, Modes
  <1>2. IsProgram(<<>>)
    BY DEF IsProgram
  <1>3. ASSUME NEW c \in Ids PROVE IsProgram(CheckRequests(c))
    <2>1. IsProgram(CheckProgram[c])
      BY RequestsAssumption
    <2>2. ASSUME c \in early PROVE IsProgram(<<CheckProgram[c][1]>>)
      <3>1. 1 \in 1..Len(CheckProgram[c])
        BY <2>1, <2>2, RequestsAssumption DEF EngineTyped, IsProgram
      <3>. DEFINE r == CheckProgram[c][1]
      <3>2. r.mode \in Modes /\ (r.mode # "gathered" => r.name \in Names)
        BY <2>1, <3>1 DEF IsProgram
      <3>. HIDE DEF r
      <3>3. IsProgram(<<r>>)
        BY <3>2 DEF IsProgram
      <3>. QED
        BY <3>3 DEF r
    <2>. QED
      BY <1>2, <2>1, <2>2 DEF CheckRequests
  <1>4. ASSUME phase = "checks", check <= Len(CHECKS) PROVE IsProgram(CheckRequests(CurrentCheck))
    <2>1. CurrentCheck \in Ids
      BY <1>4, RegistryAssumption DEF EngineTyped, CurrentCheck, Ids
    <2>. QED
      BY <1>3, <2>1
  <1>5. IsProgram(Task)
    BY <1>1, <1>2, <1>4, RequestsAssumption DEF Task
  <1>. QED
    BY <1>5 DEF IsProgram

\* The phase's request names a registered gatherer, or peeks.
LEMMA TaskRequestTyped ==
    ASSUME EngineTyped, TaskRequesting
    PROVE  /\ tpc \in 1..Len(Task)
           /\ TaskRequest.mode \in Modes
           /\ TaskRequest.mode # "gathered" => TaskRequest.name \in Names
PROOF
  <1>1. tpc \in 1..Len(Task)
    BY TaskIsProgram DEF EngineTyped, TaskRequesting
  <1>. QED
    BY <1>1, TaskIsProgram DEF IsProgram, TaskRequest

\* The phases that ask for nothing.
LEMMA NoTask ==
    ASSUME EngineTyped, WorksForTask, tpc > Len(Task) \/ Task = <<>> \/ phase = "report"
    PROVE  stack = <<>>
PROOF
  <1>1. Task = <<>> => Len(Task) = 0
    OBVIOUS
  <1>2. tpc \in Nat /\ tpc >= 1 /\ Len(Task) \in Nat
    BY TaskIsProgram DEF EngineTyped
  <1>. QED
    BY <1>1, <1>2 DEF WorksForTask

\* What a check asks and what it has to come to depend on the scan's options,
\* its profile and the fate of the evidence alone.
LEMMA SameVerdicts ==
    ASSUME UNCHANGED <<fate, options, faults, early, profile>>
    PROVE  \A c : /\ CheckRequests(c)' = CheckRequests(c)
                  /\ Requested(c)' = Requested(c)
                  /\ Verdict(c)' = Verdict(c)
                  /\ Applicable(c)' = Applicable(c)
PROOF
  <1>1. \A c : Applicable(c)' = Applicable(c)
    BY DEF Applicable
  <1>2. \A c : CheckRequests(c)' = CheckRequests(c)
    BY <1>1 DEF CheckRequests
  <1>3. \A c : Requested(c)' = Requested(c)
    BY <1>2 DEF Requested
  <1>. QED
    BY <1>1, <1>2, <1>3 DEF Verdict

-----------------------------------------------------------------------------
\* A step of the scan is a step of its store, or none.
LEMMA ScanStepsStore ==
    ASSUME EngineTyped, [ScanNext]_scanVars
    PROVE  [Next]_vars
PROOF
  <1>1. CASE GathererStep
    BY <1>1 DEF GathererStep, Next
  <1>2. CASE TaskCall
    <2>1. TaskRequest.name \in Names /\ Call(TaskRequest.name)
      BY <1>2, TaskRequestTyped DEF TaskCall
    <2>. QED
      BY <2>1 DEF Next
  <1>3. CASE TaskAnswer
    BY <1>3 DEF TaskAnswer
  <1>4. CASE \/ Start \/ EntryDone \/ ProfileDone \/ ProfileRaises \/ SkipCheck \/ CheckNotApplicable
             \/ CheckUnavailable \/ CheckEvaluated \/ Snapshot \/ TechnicalDone \/ Close \/ Report
    BY <1>4 DEF Start, EntryDone, ProfileDone, ProfileRaises, SkipCheck, CheckNotApplicable, CheckUnavailable,
                CheckEvaluated, Snapshot, TechnicalDone, Close, Report, Conclude, Enter
  <1>5. CASE UNCHANGED scanVars
    BY <1>5 DEF scanVars
  <1>. QED
    BY <1>1, <1>2, <1>3, <1>4, <1>5 DEF ScanNext

\* What is settled stays settled, and what can be gathered is fixed.
LEMMA StoreGrows ==
    ASSUME IInv, IInv', [Next]_vars
    PROVE  /\ DOMAIN data \subseteq DOMAIN data' /\ DOMAIN errors \subseteq DOMAIN errors'
           /\ Settled \subseteq Settled'
           /\ fate' = fate
PROOF
  <1>1. DOMAIN data \subseteq DOMAIN data' /\ DOMAIN errors \subseteq DOMAIN errors'
    BY TableStep DEF Extend
  <1>2. fate' = fate
    BY DEF Next, Step, Call, Nest, Hit, Missing, Peek, Propagate, Return, Raise, Run, Answer, Fail,
           world, vars
  <1>. QED
    BY <1>1, <1>2 DEF Settled

-----------------------------------------------------------------------------
\* While a request of the phase is worked on only the store moves.
LEMMA WorkKeeps ==
    ASSUME ScanInv, IInv', [Next]_vars, GathererStep \/ TaskCall
    PROVE  EngineInv'
PROOF
  <1>. USE DEF ScanInv, EngineInv
  <1>1. /\ UNCHANGED <<options, faults, early, detected, phase, tpc, seen, check, results, checkRead, profile>>
        /\ fate' = fate /\ Settled \subseteq Settled' /\ DOMAIN errors \subseteq DOMAIN errors'
    BY StoreGrows DEF GathererStep, TaskCall, scanWorld, engine, progress, checking
  <1>2. \A c : CheckRequests(c)' = CheckRequests(c) /\ Requested(c)' = Requested(c)
               /\ Verdict(c)' = Verdict(c) /\ Applicable(c)' = Applicable(c)
    BY <1>1, SameVerdicts
  <1>3. Task' = Task
    BY <1>1, <1>2 DEF Task, CurrentCheck
  <1>4. WorksForTask'
    <2>1. CASE GathererStep
      <3>1. stack # <<>>
        BY <2>1 DEF GathererStep, Step, Nest, Hit, Missing, Peek, Propagate, Return, Raise, Requesting
      <3>. QED
        BY <3>1, <1>1, <1>3 DEF WorksForTask
    <2>2. CASE TaskCall
      <3>1. /\ TaskRequesting /\ TaskRequest.name \notin Settled
        BY <2>2 DEF TaskCall, Call, Run
      <3>2. phase # "report"
        <4>. SUFFICES ASSUME phase = "report" PROVE FALSE
          OBVIOUS
        <4>1. Task = ReportProgram
          BY DEF Task
        <4>2. tpc = 1 /\ TaskRequest.name = "http"
          BY <3>1, <4>1 DEF TaskRequesting, TaskRequest, ReportProgram, EngineTyped
        <4>. QED
          BY <3>1, <4>2 DEF EntryFetched
      <3>. QED
        BY <3>1, <3>2, <1>1, <1>3 DEF WorksForTask, TaskRequesting
    <2>. QED
      BY <2>1, <2>2
  <1>5. SeenExactly'
    BY <1>1, <1>3 DEF SeenExactly
  <1>6. VerdictsIndependent'
    BY <1>1, <1>2 DEF VerdictsIndependent
  <1>. QED
    BY <1>1, <1>4, <1>5, <1>6 DEF EngineTyped, EntryFetched, AbortReason, AbortsExplained, ResultsSoFar

\* The store's answer tells the phase what can be gathered.
LEMMA AnswerKeepsScan ==
    ASSUME ScanInv, TaskAnswer
    PROVE  EngineInv'
PROOF
  <1>. USE DEF ScanInv, EngineInv
  <1>1. /\ UNCHANGED <<options, faults, early, detected, phase, check, results, checkRead, profile>>
        /\ UNCHANGED <<fate, data, errors, stack>>
        /\ tpc' = tpc + 1 /\ seen' = seen \cup (DOMAIN data \cap {TaskRequest.name})
        /\ TaskRequesting
    BY DEF TaskAnswer, vars, scanWorld, checking
  <1>2. \A c : CheckRequests(c)' = CheckRequests(c) /\ Requested(c)' = Requested(c)
               /\ Verdict(c)' = Verdict(c) /\ Applicable(c)' = Applicable(c)
    BY <1>1, SameVerdicts
  <1>3. Task' = Task /\ Settled' = Settled
    BY <1>1, <1>2 DEF Task, CurrentCheck, Settled
  <1>4. /\ tpc \in 1..Len(Task) /\ Len(Task) \in Nat
        /\ TaskRequest = Task[tpc] /\ TaskRequest.mode \in Modes
    BY <1>1, TaskRequestTyped, TaskIsProgram DEF TaskRequest
  <1>5. TaskRequest.mode # "gathered" => (TaskRequest.name \in DOMAIN data <=> fate[TaskRequest.name])
    BY DEF TaskAnswer, IInv, OrderIndependent
  <1>6. TaskRequest.mode = "get" => fate[TaskRequest.name]
    BY DEF TaskAnswer, IInv, OrderIndependent
  <1>7. SeenExactly'
    <2>1. ASSUME NEW i \in 1..Len(Task), i < tpc + 1
          PROVE  /\ Task[i].mode = "get" => fate[Task[i].name]
                 /\ Task[i].mode # "gathered" => (Task[i].name \in seen' <=> fate[Task[i].name])
      <3>1. CASE i = tpc
        <4>1. Task[i].mode # "gathered" /\ Task[i].name \in seen => fate[Task[i].name]
          BY DEF SeenExactly
        <4>. QED
          BY <3>1, <4>1, <1>1, <1>4, <1>5, <1>6
      <3>2. CASE i < tpc
        <4>1. \A n \in DOMAIN data : fate[n]
          BY DEF IInv, OrderIndependent
        <4>. QED
          BY <3>2, <4>1, <1>1 DEF SeenExactly
      <3>. QED
        BY <2>1, <3>1, <3>2, <1>4
    <2>2. \A n \in seen' : fate[n] /\ \E i \in 1..Len(Task) : Task[i].name = n
      <3>1. \A n \in DOMAIN data : fate[n]
        BY DEF IInv, OrderIndependent
      <3>. QED
        BY <3>1, <1>1, <1>4 DEF SeenExactly
    <2>. QED
      BY <2>1, <2>2, <1>1, <1>3 DEF SeenExactly
  <1>8. EntryFetched'
    <2>1. CASE phase = "entry"
      <3>1. Task = EntryProgram
        BY <2>1 DEF Task
      <3>2. tpc = 1 /\ TaskRequest.name = "http" /\ TaskRequest.mode = "try_get"
        BY <3>1, <1>4 DEF EntryProgram
      <3>3. "http" \in Settled
        BY <3>2 DEF TaskAnswer, Settled
      <3>. QED
        BY <3>3, <1>3 DEF EntryFetched
    <2>2. CASE phase # "entry"
      BY <2>2, <1>1, <1>3 DEF EntryFetched
    <2>. QED
      BY <2>1, <2>2
  <1>9. VerdictsIndependent'
    BY <1>1, <1>2 DEF VerdictsIndependent
  <1>10. WorksForTask' 
    <2>1. stack = <<>>
      BY <1>1 DEF TaskRequesting, Idle
    <2>. QED
      BY <2>1, <1>1 DEF WorksForTask
  <1>11. EngineTyped'
    BY <1>1 DEF EngineTyped
  <1>. QED
    BY <1>1, <1>7, <1>8, <1>9, <1>10, <1>11 DEF AbortReason, AbortsExplained, ResultsSoFar

-----------------------------------------------------------------------------
\* scan() going on to a phase, or to the next check, starts it afresh.
LEMMA EnterKeeps ==
    ASSUME ScanInv, NEW p, Enter(p), stack = <<>>,
           p \in {"entry", "rejected"} \/ "http" \in Settled
    PROVE  /\ WorksForTask' /\ EntryFetched' /\ SeenExactly'
           /\ phase' = p /\ tpc' \in Nat \ {0}
           /\ UNCHANGED <<fate, errors, data, options, faults, early>>
PROOF
  <1>1. /\ phase' = p /\ tpc' = 1 /\ seen' = {}
        /\ UNCHANGED <<stack, data, errors, fate, options, faults, early>>
    BY DEF Enter, vars, scanWorld
  <1>2. Settled' = Settled
    BY <1>1 DEF Settled
  <1>. QED
    BY <1>1, <1>2 DEF WorksForTask, EntryFetched, SeenExactly

\* Going on with the results as they are, outside the checks.
LEMMA PhaseKeeps ==
    ASSUME ScanInv, NEW p \in Before \cup {"checks"} \cup After, Enter(p), stack = <<>>,
           p \in {"entry", "rejected"} \/ "http" \in Settled,
           UNCHANGED checking,
           profile' = profile \/ phase \in Before,
           p \in Before => check = 1,
           p \in After => check = Len(CHECKS) + 1,
           p = "aborted" => ~fate["http"],
           p = "undetected" => options.profile = "auto" /\ "profile" \in faults /\ fate["pages"],
           p = "reported" => fate["http"],
           p = "profile" => options.profile = "auto"
    PROVE  EngineInv'
PROOF
  <1>. USE DEF ScanInv, EngineInv
  <1>1. /\ WorksForTask' /\ EntryFetched' /\ SeenExactly'
        /\ phase' = p /\ tpc' \in Nat \ {0}
        /\ UNCHANGED <<fate, errors, data, options, faults, early>>
        /\ UNCHANGED <<check, results, checkRead>>
    BY EnterKeeps DEF checking
  <1>2. EngineTyped'
    BY <1>1 DEF EngineTyped
  <1>3. VerdictsIndependent'
    <2>1. CASE profile' = profile
      <3>1. \A c : Requested(c)' = Requested(c) /\ Verdict(c)' = Verdict(c)
        BY <2>1, <1>1, SameVerdicts
      <3>. QED
        BY <3>1, <1>1 DEF VerdictsIndependent
    <2>2. CASE phase \in Before
      <3>1. check = 1
        BY <2>2 DEF EngineTyped
      <3>2. DOMAIN results = {}
        BY <3>1 DEF ResultsSoFar
      <3>. QED
        BY <3>2, <1>1 DEF VerdictsIndependent
    <2>. QED
      BY <2>1, <2>2
  <1>. QED
    BY <1>1, <1>2, <1>3 DEF AbortReason, AbortsExplained, ResultsSoFar

\* A check that comes to what it has to come to keeps the invariant.
LEMMA ConcludeKeeps ==
    ASSUME ScanInv, RunningCheck, stack = <<>>, Conclude(Verdict(CurrentCheck)),
           Verdict(CurrentCheck) = "evaluated" /\ (\A r \in Requested(CurrentCheck) : r.mode # "gathered")
             => seen = {n \in {r.name : r \in Requested(CurrentCheck)} : fate[n]}
    PROVE  EngineInv'
PROOF
  <1>. USE DEF ScanInv, EngineInv
  <1>1. /\ phase = "checks" /\ check \in 1..Len(CHECKS) /\ Len(CHECKS) \in Nat
        /\ CurrentCheck \in Selected(options)
        /\ check' = check + 1 /\ profile' = profile
        /\ results' = Extend(results, CurrentCheck, Verdict(CurrentCheck))
        /\ checkRead' = Extend(checkRead, CurrentCheck, seen)
        /\ Enter("checks")
    BY RegistryAssumption DEF RunningCheck, Checking, Conclude, EngineTyped
  <1>2. "http" \in Settled
    BY <1>1 DEF EntryFetched
  <1>3. /\ WorksForTask' /\ EntryFetched' /\ SeenExactly'
        /\ phase' = "checks" /\ tpc' \in Nat \ {0}
        /\ UNCHANGED <<fate, errors, data, options, faults, early>>
    BY <1>1, <1>2, EnterKeeps
  <1>4. EngineTyped' /\ AbortReason'
    BY <1>1, <1>3 DEF EngineTyped, AbortReason, AbortsExplained, Before, After
  <1>5. ResultsSoFar'
    <2>1. 1..(check' - 1) = 1..(check - 1) \cup {check}
      BY <1>1
    <2>2. /\ DOMAIN results' = DOMAIN results \cup {CurrentCheck}
          /\ DOMAIN checkRead' = DOMAIN checkRead \cup {CurrentCheck}
      BY <1>1 DEF Extend
    <2>. QED
      BY <2>1, <2>2, <1>1, <1>3 DEF ResultsSoFar, CurrentCheck
  <1>6. VerdictsIndependent'
    <2>1. \A c : Requested(c)' = Requested(c) /\ Verdict(c)' = Verdict(c)
      BY <1>1, <1>3, SameVerdicts
    <2>. SUFFICES ASSUME NEW c \in DOMAIN results'
                  PROVE  /\ results'[c] = Verdict(c)
                         /\ results'[c] = "evaluated" /\ (\A r \in Requested(c) : r.mode # "gathered") =>
                               checkRead'[c] = {n \in {r.name : r \in Requested(c)} : fate[n]}
      BY <2>1, <1>3 DEF VerdictsIndependent
    <2>2. CASE c = CurrentCheck
      <3>1. results'[c] = Verdict(c) /\ checkRead'[c] = seen
        BY <2>2, <1>1 DEF Extend
      <3>. QED
        BY <3>1, <2>2
    <2>3. CASE c # CurrentCheck
      <3>1. c \in DOMAIN results /\ results'[c] = results[c]
        BY <2>3, <1>1 DEF Extend
      <3>2. checkRead'[c] = checkRead[c]
        BY <2>3, <1>1, <3>1 DEF Extend, ResultsSoFar
      <3>. QED
        BY <3>1, <3>2 DEF VerdictsIndependent
    <2>. QED
      BY <2>2, <2>3
  <1>. QED
    BY <1>3, <1>4, <1>5, <1>6

-----------------------------------------------------------------------------
\* The request a failed get was for is one of the check's, and settles it.
LEMMA UnavailableVerdict ==
    ASSUME ScanInv, RunningCheck, Applicable(CurrentCheck), TaskUnavailable
    PROVE  Verdict(CurrentCheck) = "gather_error"
PROOF
  <1>. USE DEF ScanInv, EngineInv
  <1>1. TaskRequesting /\ TaskRequest.mode = "get" /\ ~fate[TaskRequest.name]
    BY DEF TaskUnavailable, IInv, OrderIndependent
  <1>2. Task = CheckRequests(CurrentCheck)
    BY DEF Task, RunningCheck, Checking
  <1>3. tpc \in 1..Len(Task)
    BY <1>1, TaskRequestTyped
  <1>4. TaskRequest \in Requested(CurrentCheck)
    BY <1>2, <1>3 DEF TaskRequest, Requested
  <1>. QED
    BY <1>1, <1>4 DEF Verdict

\* A check that is through its requests has read what can be gathered of them,
\* and has everything it required.
LEMMA EvaluatedVerdict ==
    ASSUME ScanInv, RunningCheck, Applicable(CurrentCheck), TaskOver
    PROVE  /\ Verdict(CurrentCheck) = (IF CurrentCheck \in faults THEN "bug" ELSE "evaluated")
           /\ (\A r \in Requested(CurrentCheck) : r.mode # "gathered")
                => seen = {n \in {r.name : r \in Requested(CurrentCheck)} : fate[n]}
PROOF
  <1>. USE DEF ScanInv, EngineInv
  <1>1. Task = CheckRequests(CurrentCheck)
    BY DEF Task, RunningCheck, Checking
  <1>2. \A i \in 1..Len(Task) : i < tpc
    BY TaskIsProgram DEF TaskOver, EngineTyped
  <1>3. \A r \in Requested(CurrentCheck) : \E i \in 1..Len(Task) : r = Task[i]
    BY <1>1 DEF Requested
  <1>4. \A i \in 1..Len(Task) : Task[i] \in Requested(CurrentCheck)
    BY <1>1 DEF Requested
  <1>5. \A r \in Requested(CurrentCheck) :
            /\ r.mode = "get" => fate[r.name]
            /\ r.mode # "gathered" => (r.name \in seen <=> fate[r.name])
    BY <1>2, <1>3 DEF SeenExactly
  <1>6. Verdict(CurrentCheck) = (IF CurrentCheck \in faults THEN "bug" ELSE "evaluated")
    BY <1>5 DEF Verdict
  <1>7. \A n \in seen : fate[n] /\ \E r \in Requested(CurrentCheck) : r.name = n
    BY <1>4 DEF SeenExactly
  <1>8. ASSUME \A r \in Requested(CurrentCheck) : r.mode # "gathered"
        PROVE  seen = {n \in {r.name : r \in Requested(CurrentCheck)} : fate[n]}
    <2>1. \A r \in Requested(CurrentCheck) : r.name \in seen <=> fate[r.name]
      BY <1>5, <1>8
    <2>. QED
      BY <2>1, <1>7
  <1>. QED
    BY <1>6, <1>8

LEMMA ScanNextKeeps ==
    ASSUME ScanInv, IInv', [ScanNext]_scanVars
    PROVE  EngineInv'
PROOF
  <1>. USE DEF ScanInv, EngineInv
  <1>1. [Next]_vars
    BY ScanStepsStore
  <1>2. Len(CHECKS) \in Nat
    BY RegistryAssumption
  <1>3. CASE GathererStep \/ TaskCall
    BY <1>1, <1>3, WorkKeeps
  <1>4. CASE TaskAnswer
    BY <1>4, AnswerKeepsScan
  <1>5. CASE Start
    <2>1. stack = <<>>
      <3>1. Task = <<>>
        BY <1>5 DEF Start, Task
      <3>. QED
        BY <3>1, NoTask
    <2>2. phase = "start" /\ profile' = profile /\ UNCHANGED checking
      BY <1>5 DEF Start
    <2>3. check = 1
      BY <2>2 DEF EngineTyped, Before
    <2>4. PICK p \in {"entry", "rejected"} : Enter(p)
      BY <1>5 DEF Start
    <2>5. /\ p \in Before \cup {"checks"} \cup After
          /\ p \notin {"profile", "undetected"} /\ p \notin After
      BY <2>4 DEF Before, After
    <2>. QED
      BY <2>1, <2>2, <2>3, <2>4, <2>5, PhaseKeeps
  <1>6. CASE EntryDone
    <2>1. stack = <<>> /\ phase = "entry" /\ UNCHANGED <<profile, checking>> /\ tpc > Len(Task)
          /\ \E p \in {"profile", "checks"} : Enter(p) /\ (p = "profile" => options.profile = "auto")
      BY <1>6 DEF EntryDone, TaskOver, Idle
    <2>2. "http" \in Settled
      <3>1. Len(Task) = 1
        BY <2>1 DEF Task, EntryProgram
      <3>. QED
        BY <2>1, <3>1 DEF EntryFetched, EngineTyped
    <2>. QED
      BY <2>1, <2>2, PhaseKeeps DEF EngineTyped, Before, After
  <1>7. CASE ProfileDone
    <2>1. stack = <<>> /\ phase = "profile" /\ UNCHANGED checking /\ Enter("checks")
      BY <1>7 DEF ProfileDone, TaskOver, Idle
    <2>2. "http" \in Settled
      BY <2>1 DEF EntryFetched
    <2>. QED
      BY <2>1, <2>2, PhaseKeeps DEF EngineTyped, Before, After
  <1>17. CASE ProfileRaises
    <2>1. /\ stack = <<>> /\ phase = "profile" /\ UNCHANGED <<profile, checking>> /\ Enter("undetected")
          /\ "profile" \in faults /\ "pages" \in seen
      BY <1>17 DEF ProfileRaises, DetectorChokes, Idle
    <2>2. /\ "http" \in Settled /\ check = 1
          /\ fate["pages"] /\ options.profile = "auto"
      BY <2>1 DEF EntryFetched, SeenExactly, AbortReason, EngineTyped, Before
    <2>. QED
      BY <2>1, <2>2, PhaseKeeps DEF EngineTyped, Before, After
  <1>8. CASE SkipCheck
    <2>1. /\ phase = "checks" /\ check \in 1..Len(CHECKS) /\ CurrentCheck \notin Selected(options)
          /\ check' = check + 1 /\ Enter("checks") /\ UNCHANGED <<profile, results, checkRead>>
      BY <1>2, <1>8 DEF SkipCheck, Checking, EngineTyped
    <2>2. stack = <<>>
      <3>1. Task = <<>>
        BY <2>1 DEF Task, CheckRequests
      <3>. QED
        BY <3>1, NoTask
    <2>3. "http" \in Settled
      BY <2>1 DEF EntryFetched
    <2>4. /\ WorksForTask' /\ EntryFetched' /\ SeenExactly'
          /\ phase' = "checks" /\ tpc' \in Nat \ {0}
          /\ UNCHANGED <<fate, errors, data, options, faults, early>>
      BY <2>1, <2>2, <2>3, EnterKeeps
    <2>5. EngineTyped' /\ AbortReason'
      BY <2>1, <2>4, <1>2 DEF EngineTyped, AbortReason, AbortsExplained, Before, After
    <2>6. ResultsSoFar'
      <3>1. 1..(check' - 1) = 1..(check - 1) \cup {check}
        BY <2>1
      <3>. QED
        BY <3>1, <2>1, <2>4 DEF ResultsSoFar, CurrentCheck
    <2>7. VerdictsIndependent'
      <3>1. \A c : Requested(c)' = Requested(c) /\ Verdict(c)' = Verdict(c)
        BY <2>1, <2>4, SameVerdicts
      <3>. QED
        BY <3>1, <2>1, <2>4 DEF VerdictsIndependent
    <2>. QED
      BY <2>4, <2>5, <2>6, <2>7
  <1>9. CASE CheckNotApplicable
    <2>1. RunningCheck /\ ~Applicable(CurrentCheck) /\ Conclude("NOT_APPLICABLE")
      BY <1>9 DEF CheckNotApplicable
    <2>2. stack = <<>>
      <3>1. Task = <<>>
        BY <2>1 DEF Task, CheckRequests, RunningCheck, Checking
      <3>. QED
        BY <3>1, NoTask
    <2>3. Verdict(CurrentCheck) = "NOT_APPLICABLE"
      BY <2>1 DEF Verdict
    <2>. QED
      BY <2>1, <2>2, <2>3, ConcludeKeeps
  <1>10. CASE CheckUnavailable
    <2>1. RunningCheck /\ Applicable(CurrentCheck) /\ TaskUnavailable /\ Conclude("gather_error")
      BY <1>10 DEF CheckUnavailable
    <2>2. stack = <<>>
      BY <2>1 DEF TaskUnavailable, TaskRequesting, Idle
    <2>3. Verdict(CurrentCheck) = "gather_error"
      BY <2>1, UnavailableVerdict
    <2>. QED
      BY <2>1, <2>2, <2>3, ConcludeKeeps
  <1>11. CASE CheckEvaluated
    <2>1. /\ RunningCheck /\ Applicable(CurrentCheck) /\ TaskOver
          /\ Conclude(IF CurrentCheck \in faults THEN "bug" ELSE "evaluated")
      BY <1>11 DEF CheckEvaluated
    <2>2. stack = <<>>
      BY <2>1 DEF TaskOver, Idle
    <2>3. /\ Verdict(CurrentCheck) = (IF CurrentCheck \in faults THEN "bug" ELSE "evaluated")
          /\ (\A r \in Requested(CurrentCheck) : r.mode # "gathered")
                => seen = {n \in {r.name : r \in Requested(CurrentCheck)} : fate[n]}
      BY <2>1, EvaluatedVerdict
    <2>. QED
      BY <2>1, <2>2, <2>3, ConcludeKeeps
  <1>12. CASE Snapshot
    <2>1. /\ phase = "checks" /\ check > Len(CHECKS) /\ UNCHANGED <<profile, checking>>
          /\ \E p \in {"technical", "close"} : Enter(p)
      BY <1>12 DEF Snapshot
    <2>2. stack = <<>>
      <3>1. Task = <<>>
        BY <2>1, <1>2 DEF Task, EngineTyped
      <3>. QED
        BY <3>1, NoTask
    <2>3. check = Len(CHECKS) + 1 /\ "http" \in Settled
      BY <2>1, <1>2 DEF EngineTyped, EntryFetched
    <2>. QED
      BY <2>1, <2>2, <2>3, PhaseKeeps DEF Before, After
  <1>13. CASE TechnicalDone
    <2>1. phase = "technical" /\ stack = <<>> /\ UNCHANGED <<profile, checking>> /\ Enter("close")
      BY <1>13 DEF TechnicalDone, TaskOver, Idle
    <2>2. check = Len(CHECKS) + 1 /\ "http" \in Settled
      BY <2>1 DEF EngineTyped, EntryFetched, After
    <2>. QED
      BY <2>1, <2>2, PhaseKeeps DEF Before, After
  <1>14. CASE Close
    <2>1. phase = "close" /\ UNCHANGED <<profile, checking>> /\ Enter("report")
      BY <1>14 DEF Close
    <2>2. stack = <<>>
      <3>1. Task = <<>>
        BY <2>1 DEF Task
      <3>. QED
        BY <3>1, NoTask
    <2>3. check = Len(CHECKS) + 1 /\ "http" \in Settled
      BY <2>1 DEF EngineTyped, EntryFetched, After
    <2>. QED
      BY <2>1, <2>2, <2>3, PhaseKeeps DEF Before, After
  <1>15. CASE Report
    <2>1. phase = "report" /\ UNCHANGED <<profile, checking>>
      BY <1>15 DEF Report
    <2>2. stack = <<>>
      BY <2>1, NoTask
    <2>3. check = Len(CHECKS) + 1 /\ "http" \in Settled
      BY <2>1 DEF EngineTyped, EntryFetched, After
    <2>4. CASE TaskUnavailable /\ Enter("aborted")
      <3>1. TaskRequest.name = "http"
        <4>1. Task = ReportProgram
          BY <2>1 DEF Task
        <4>2. tpc = 1
          BY <2>4, <4>1 DEF TaskUnavailable, TaskRequesting, ReportProgram, EngineTyped
        <4>. QED
          BY <4>1, <4>2 DEF TaskRequest, ReportProgram
      <3>2. ~fate["http"]
        BY <2>4, <3>1 DEF TaskUnavailable, IInv, OrderIndependent
      <3>. QED
        BY <2>1, <2>2, <2>3, <2>4, <3>2, PhaseKeeps DEF Before, After
    <2>5. CASE TaskOver /\ Enter("reported")
      <3>1. Task = ReportProgram /\ Len(Task) = 1 /\ tpc > 1
        BY <2>1, <2>5 DEF Task, TaskOver, ReportProgram
      <3>2. fate["http"]
        BY <3>1 DEF SeenExactly, ReportProgram
      <3>. QED
        BY <2>1, <2>2, <2>3, <2>5, <3>2, PhaseKeeps DEF Before, After
    <2>. QED
      BY <1>15, <2>4, <2>5 DEF Report
  <1>16. CASE UNCHANGED scanVars
    <2>1. UNCHANGED <<sound, data, errors, stack, runs, fate, options, faults, early, phase, check, tpc, seen,
                      profile, results, checkRead>>
      BY <1>16 DEF scanVars, vars, scanWorld, engine, progress, checking
    <2>2. \A c : CheckRequests(c)' = CheckRequests(c) /\ Requested(c)' = Requested(c)
                 /\ Verdict(c)' = Verdict(c) /\ Applicable(c)' = Applicable(c)
      BY <2>1, SameVerdicts
    <2>3. Task' = Task /\ Settled' = Settled
      BY <2>1, <2>2 DEF Task, CurrentCheck, Settled
    <2>. QED
      BY <2>1, <2>2, <2>3 DEF EngineTyped, WorksForTask, EntryFetched, AbortReason, AbortsExplained, SeenExactly,
                              ResultsSoFar, VerdictsIndependent
  <1>. QED
    BY <1>3, <1>4, <1>5, <1>6, <1>7, <1>8, <1>9, <1>10, <1>11, <1>12, <1>13, <1>14, <1>15, <1>16, <1>17
       DEF ScanNext

-----------------------------------------------------------------------------
LEMMA InitScan == ScanInit => ScanInv
PROOF
  <1>. SUFFICES ASSUME ScanInit PROVE ScanInv
    OBVIOUS
  <1>1. sound \in [Names -> BOOLEAN]
    BY DEF ScanInit
  <1>2. Init
    BY <1>1 DEF ScanInit, Init
  <1>3. IInv
    BY <1>2, InitIInv
  <1>4. stack = <<>> /\ Task = <<>> /\ Len(Task) = 0
    BY DEF ScanInit, Task
  <1>5. EngineTyped
    <2>1. Len(CHECKS) \in Nat
      BY RegistryAssumption
    <2>. QED
      BY <2>1 DEF ScanInit, EngineTyped, Before, After
  <1>6. WorksForTask /\ EntryFetched /\ AbortReason /\ SeenExactly
    BY <1>4 DEF ScanInit, WorksForTask, EntryFetched, AbortReason, AbortsExplained, SeenExactly
  <1>7. DOMAIN results = {} /\ DOMAIN checkRead = {} /\ check = 1
    BY DEF ScanInit
  <1>8. ResultsSoFar /\ VerdictsIndependent
    BY <1>7 DEF ResultsSoFar, VerdictsIndependent
  <1>. QED
    BY <1>3, <1>5, <1>6, <1>8 DEF ScanInv, EngineInv

LEMMA NextScan == ScanInv /\ [ScanNext]_scanVars => ScanInv'
PROOF
  <1>. SUFFICES ASSUME ScanInv, [ScanNext]_scanVars PROVE ScanInv'
    OBVIOUS
  <1>1. [Next]_vars
    BY ScanStepsStore DEF ScanInv, EngineInv
  <1>2. IInv'
    BY <1>1, NextIInv DEF ScanInv
  <1>. QED
    BY <1>2, ScanNextKeeps DEF ScanInv

\* What every state of every scan satisfies.
THEOREM ScanInvariance == ScanSpec => []ScanInv
PROOF BY InitScan, NextScan, PTL DEF ScanSpec

\* A scan implements the evidence store: seen from the store, every step of a
\* scan is a step of the store or leaves it alone.
THEOREM ScanImplementsStore == ScanSpec => Init /\ [][Next]_vars
PROOF
  <1>1. ScanInit => Init
    <2>1. ScanInit => sound \in [Names -> BOOLEAN]
      BY DEF ScanInit
    <2>. QED
      BY <2>1 DEF ScanInit, Init
  <1>2. ScanInv /\ [ScanNext]_scanVars => [Next]_vars
    BY ScanStepsStore DEF ScanInv, EngineInv
  <1>. QED
    BY <1>1, <1>2, ScanInvariance, PTL DEF ScanSpec

\* The phases use the store as its clients may: in a scan each gatherer runs at
\* most once, whatever the phases ask, and every failure has its cause.
THEOREM ScanKeepsTheStore == ScanSpec => [](AtMostOnce /\ OrderIndependent /\ FailureExplained)
PROOF
  <1>1. ScanInv => AtMostOnce /\ OrderIndependent /\ FailureExplained
    BY DEF ScanInv, IInv, Counted, AtMostOnce
  <1>. QED
    BY <1>1, ScanInvariance, PTL

\* What a check comes to is decided by its own evidence and the profile, not
\* by the checks that ran before it or were left out.
THEOREM VerdictsOwn == ScanSpec => []VerdictsIndependent
PROOF
  <1>1. ScanInv => VerdictsIndependent
    BY DEF ScanInv, EngineInv
  <1>. QED
    BY <1>1, ScanInvariance, PTL

\* A scan that comes to its end has run the selected checks and no others.
THEOREM SelectionRun == ScanSpec => []ResultsMatchSelection
PROOF
  <1>1. ScanInv => ResultsMatchSelection
    <2>. SUFFICES ASSUME ScanInv, Scanned PROVE ResultsMatchSelection
      BY DEF ResultsMatchSelection
    <2>1. check = Len(CHECKS) + 1 /\ Len(CHECKS) \in Nat
      BY RegistryAssumption DEF ScanInv, EngineInv, EngineTyped, Scanned, After
    <2>2. 1..(check - 1) = 1..Len(CHECKS)
      BY <2>1
    <2>3. DOMAIN results = Ids \cap Selected(options)
      BY <2>2 DEF ScanInv, EngineInv, ResultsSoFar, Ids
    <2>4. DOMAIN results = Selected(options)
      BY <2>3 DEF Selected, IncludeFiltered
    <2>5. Selected(options) = IncludeFiltered(options) \ {c \in Ids : Match(c, options.exclude)}
      <3>1. options.exclude = {} => \A c \in Ids : ~Match(c, options.exclude)
        BY DEF Match
      <3>. QED
        BY <3>1 DEF Selected, IncludeFiltered
    <2>6. scan_scope(options) = "CANONICAL" => Selected(options) = Ids
      BY DEF scan_scope, Selected, IncludeFiltered
    <2>. QED
      BY <2>4, <2>5, <2>6 DEF ResultsMatchSelection
  <1>. QED
    BY <1>1, ScanInvariance, PTL

\* A scan that ends without a report could not gather its entry page, or had to
\* detect its profile and the detector choked on pages that were gathered; every
\* other failure, in any number and any combination, ends in a report.
THEOREM AbortExplained == ScanSpec => []AbortsExplained
PROOF
  <1>1. ScanInv => AbortsExplained
    BY DEF ScanInv, EngineInv, AbortReason
  <1>. QED
    BY <1>1, ScanInvariance, PTL

\* Nothing runs before the options are accepted or once the client is closed:
\* what the report still asks for has long been answered.
THEOREM NothingAfterClose == ScanSpec => NoGatherAfterClose
PROOF
  <1>1. ASSUME ScanInv, [ScanNext]_scanVars,
               phase \in {"start", "rejected", "report", "reported", "aborted", "undetected"}
        PROVE  UNCHANGED runs
    <2>1. phase # "report" => Task = <<>> /\ Len(Task) = 0
      BY <1>1 DEF Task
    <2>2. stack = <<>>
      BY <1>1, <2>1, NoTask DEF ScanInv, EngineInv
    <2>3. ~GathererStep
      BY <2>2 DEF GathererStep, Step, Nest, Hit, Missing, Peek, Propagate, Return, Raise, Requesting
    <2>4. ~TaskCall
      <3>1. SUFFICES ASSUME TaskCall PROVE FALSE
        OBVIOUS
      <3>2. tpc \in 1..Len(Task)
        BY <1>1, <3>1, TaskRequestTyped DEF TaskCall, ScanInv, EngineInv
      <3>3. phase = "report" /\ Task = ReportProgram
        BY <2>1, <3>2 DEF Task
      <3>4. tpc = 1
        BY <3>2, <3>3 DEF ReportProgram
      <3>5. TaskRequest.name = "http"
        BY <3>3, <3>4 DEF TaskRequest, ReportProgram
      <3>6. "http" \in Settled
        BY <1>1, <3>3 DEF ScanInv, EngineInv, EntryFetched
      <3>. QED
        BY <3>1, <3>5, <3>6 DEF TaskCall, Call, Run
    <2>. QED
      BY <1>1, <2>3, <2>4 DEF ScanNext, scanVars, vars, Enter, TaskAnswer, Start, EntryDone, ProfileDone,
           ProfileRaises, SkipCheck, CheckNotApplicable, CheckUnavailable, CheckEvaluated, Conclude,
           Snapshot, TechnicalDone, Close, Report
  <1>2. ScanInv /\ [ScanNext]_scanVars =>
          [(phase \in {"start", "rejected", "report", "reported", "aborted", "undetected"})
             => UNCHANGED runs]_scanVars
    BY <1>1
  <1>. QED
    BY <1>2, ScanInvariance, PTL DEF ScanSpec, NoGatherAfterClose
-----------------------------------------------------------------------------
(* What is gathered because of a set of requests.                            *)

\* What the gatherers of D reach is in D.
Complete(D) == \A n \in D : Reached(Program[n]) \subseteq D

LeastComplete(C, roots) ==
    /\ roots \subseteq C /\ C \subseteq Names /\ Complete(C)
    /\ \A D : roots \subseteq D /\ Complete(D) => C \subseteq D

ClosureIsLeast == \A roots \in SUBSET Names : LeastComplete(Closure(roots), roots)

LEMMA ReachedNames == \A n \in Names : Reached(Program[n]) \subseteq Names
PROOF
  BY ProgramAssumption DEF Reached

\* The rounds of Closure exist.
LEMMA ClosureUnfolds ==
    ASSUME NEW roots \in SUBSET Names
    PROVE  \E g \in [Nat -> SUBSET Names] :
              /\ Closure(roots) = g[Cardinality(Names)]
              /\ g[0] = roots
              /\ \A k \in Nat : g[k + 1] = g[k] \cup UNION {Reached(Program[n]) : n \in g[k]}
PROOF
  <1>. DEFINE Wider(s) == s \cup UNION {Reached(Program[n]) : n \in s}
              Round[k \in Nat] ==
                IF k = 0 THEN roots
                ELSE LET outer == Round[k - 1]
                     IN  outer \cup UNION {Reached(Program[n]) : n \in outer}
              R(g) == g = [k \in Nat |-> IF k = 0 THEN roots ELSE Wider(g[k - 1])]
              next == [q \in Nat \X SUBSET Names |-> Wider(q[2])]
  <1>1. Closure(roots) = Round[Cardinality(Names)]
    BY DEF Closure
  <1>2. Round = CHOOSE g : R(g)
    OBVIOUS
  <1>3. \A s \in SUBSET Names : Wider(s) \in SUBSET Names
    BY ReachedNames
  <1>. HIDE DEF Wider, Round
  <1>4. \A k \in Nat, s \in SUBSET Names : next[<<k, s>>] = Wider(s)
    OBVIOUS
  <1>. HIDE DEF next
  <1>5. Stays(SUBSET Names, roots, next)
    BY <1>3, <1>4 DEF Stays
  <1>6. PICK g \in [Nat -> SUBSET Names] : g[0] = roots /\ \A k \in Nat : g[k + 1] = next[<<k, g[k]>>]
    BY <1>5, Recursion
  <1>7. \A k \in Nat : g[k + 1] = Wider(g[k])
    BY <1>4, <1>6
  <1>8. R(g)
    <2>1. \A k \in Nat : g[k] = IF k = 0 THEN roots ELSE Wider(g[k - 1])
      <3>. SUFFICES ASSUME NEW k \in Nat, k # 0 PROVE g[k] = Wider(g[k - 1])
        BY <1>6
      <3>1. k - 1 \in Nat /\ (k - 1) + 1 = k
        OBVIOUS
      <3>. QED
        BY <1>7, <3>1
    <2>. QED
      BY <2>1
  <1>. HIDE DEF R
  <1>9. R(Round)
    BY <1>2, <1>8
  <1>10. Round = [k \in Nat |-> IF k = 0 THEN roots ELSE Wider(Round[k - 1])]
    BY <1>9 DEF R
  <1>11. Round[0] = roots /\ \A k \in Nat : Round[k + 1] = Wider(Round[k])
    <2>1. \A k \in Nat : k + 1 \in Nat /\ k + 1 # 0 /\ (k + 1) - 1 = k
      OBVIOUS
    <2>. QED
      BY <1>10, <2>1
  <1>12. Round \in [Nat -> SUBSET Names]
    <2>. DEFINE S == {k \in Nat : Round[k] \in SUBSET Names}
    <2>1. 0 \in S
      BY <1>11
    <2>2. \A k \in Nat : k \in S => k + 1 \in S
      BY <1>3, <1>11
    <2>. HIDE DEF S
    <2>3. Nat \subseteq S
      BY <2>1, <2>2, SetInduction
    <2>4. \A k \in Nat : Round[k] \in SUBSET Names
      BY <2>3 DEF S
    <2>. QED
      BY <1>10, <2>4
  <1>. QED
    BY <1>1, <1>11, <1>12 DEF Wider

\* What has to be gathered because of the roots: a complete set of gatherers,
\* and no larger than it must be.
LEMMA ClosureLeast == ClosureIsLeast
PROOF
  <1>. SUFFICES ASSUME NEW roots \in SUBSET Names PROVE LeastComplete(Closure(roots), roots)
    BY DEF ClosureIsLeast
  <1>1. PICK g \in [Nat -> SUBSET Names] :
              /\ Closure(roots) = g[Cardinality(Names)]
              /\ g[0] = roots
              /\ \A k \in Nat : g[k + 1] = g[k] \cup UNION {Reached(Program[n]) : n \in g[k]}
    BY ClosureUnfolds
  <1>. DEFINE N == Cardinality(Names)
  <1>2. N \in Nat
    BY GatherersAssumption, FS_CardinalityType
  <1>. HIDE DEF N
  <1>3. ASSUME NEW D, roots \subseteq D, Complete(D)
        PROVE  g[N] \subseteq D
    <2>. DEFINE S == {k \in Nat : g[k] \subseteq D}
    <2>1. 0 \in S
      BY <1>1, <1>3
    <2>2. \A k \in Nat : k \in S => k + 1 \in S
      BY <1>1, <1>3 DEF Complete
    <2>. HIDE DEF S
    <2>3. Nat \subseteq S
      BY <2>1, <2>2, SetInduction
    <2>. QED
      BY <1>2, <2>3 DEF S
  <1>4. roots \subseteq g[N]
    <2>. DEFINE S == {k \in Nat : roots \subseteq g[k]}
    <2>1. 0 \in S
      BY <1>1
    <2>2. \A k \in Nat : k \in S => k + 1 \in S
      BY <1>1
    <2>. HIDE DEF S
    <2>3. Nat \subseteq S
      BY <2>1, <2>2, SetInduction
    <2>. QED
      BY <1>2, <2>3 DEF S
  <1>5. \A k \in Nat : g[k] \subseteq Names /\ IsFiniteSet(g[k]) /\ Cardinality(g[k]) \in Nat
    BY GatherersAssumption, FS_Subset, FS_CardinalityType
  <1>6. Complete(g[N])
    <2>. DEFINE S == {k \in Nat : Complete(g[k]) \/ k <= Cardinality(g[k])}
    <2>1. 0 \in S
      BY <1>5
    <2>2. ASSUME NEW k \in Nat, k \in S
          PROVE  k + 1 \in S
      <3>1. CASE Complete(g[k])
        <4>1. g[k + 1] = g[k]
          BY <1>1, <3>1 DEF Complete
        <4>. QED
          BY <3>1, <4>1
      <3>2. CASE ~Complete(g[k])
        <4>1. g[k] \subseteq g[k + 1] /\ g[k] # g[k + 1]
          BY <1>1, <3>2 DEF Complete
        <4>2. IsFiniteSet(g[k + 1]) /\ Cardinality(g[k + 1]) \in Nat /\ Cardinality(g[k]) \in Nat
          BY <1>5
        <4>3. Cardinality(g[k]) < Cardinality(g[k + 1])
          BY <4>1, <4>2, FS_Subset
        <4>4. k <= Cardinality(g[k])
          BY <2>2, <3>2
        <4>. QED
          BY <4>2, <4>3, <4>4
      <3>. QED
        BY <3>1, <3>2
    <2>. HIDE DEF S
    <2>3. N \in S
      BY <1>2, <2>1, <2>2, SetInduction
    <2>4. CASE N <= Cardinality(g[N])
      <3>1. g[N] = Names
        BY <1>2, <1>5, <2>4, GatherersAssumption, FS_Subset, FS_CardinalityType DEF N
      <3>. QED
        BY <3>1, ReachedNames DEF Complete
    <2>. QED
      BY <2>3, <2>4 DEF S
  <1>7. Closure(roots) = g[N] /\ g[N] \subseteq Names
    BY <1>1, <1>2, <1>5 DEF N
  <1>. QED
    BY <1>3, <1>4, <1>6, <1>7 DEF LeastComplete

LEMMA ClosureFixed ==
    ASSUME fate' = fate
    PROVE  /\ \A program : Reached(program)' = Reached(program)
           /\ \A roots \in SUBSET Names : Closure(roots)' = Closure(roots)
PROOF
  <1>1. ClosureIsLeast /\ ClosureIsLeast'
    BY ClosureLeast, PTL
  <1>2. \A program : Reached(program)' = Reached(program)
    BY DEF Reached
  <1>3. \A D : Complete(D)' <=> Complete(D)
    BY <1>2 DEF Complete
  <1>4. \A roots \in SUBSET Names : Closure(roots)' = Closure(roots)
    BY <1>1, <1>3 DEF ClosureIsLeast, LeastComplete
  <1>. QED
    BY <1>2, <1>4
-----------------------------------------------------------------------------
\* The requests a running gatherer has made are settled, and what a settled
\* one reaches is settled with it.
Worked ==
    /\ \A i \in 1..Len(stack) : \A k \in 1..Len(Program[stack[i].name]) :
          k < stack[i].pc /\ Program[stack[i].name][k].mode # "gathered"
             => Program[stack[i].name][k].name \in Settled
    /\ Complete(Settled)

\* How the stack and the tables move in one step of the store.
Starts(n) ==
    /\ n \in Names \ Settled
    /\ stack' = Append(stack, Entered(n))
    /\ Settled' = Settled
    /\ \/ stack = <<>> /\ Call(n)
       \/ Requesting /\ Request.mode # "gathered" /\ Request.name = n

Advances ==
    /\ Requesting /\ Settled' = Settled
    /\ Request.mode = "gathered" \/ Request.name \in Settled
    /\ Len(stack') = Len(stack)
    /\ \A i \in 1..Len(stack) : /\ stack'[i].name = stack[i].name
                                /\ stack'[i].pc = IF i = Len(stack) THEN stack[i].pc + 1 ELSE stack[i].pc

Ends ==
    /\ stack # <<>> /\ stack' = Callers
    /\ Settled' = Settled \cup {Top.name}
    /\ ~Requesting \/ (Request.mode = "get" /\ Request.name \in DOMAIN errors)

LEMMA StackStep ==
    ASSUME IInv, [Next]_vars
    PROVE  \/ UNCHANGED <<stack, Settled>>
           \/ \E n \in Names : Starts(n)
           \/ Advances
           \/ Ends
PROOF
  <1>1. CASE \E n \in Names : Call(n)
    BY <1>1 DEF Call, Run, Starts, Settled
  <1>2. ASSUME Requesting
        PROVE  /\ Len(stack) \in Nat \ {0} /\ stack \in Seq(Frame)
               /\ Top.name \in Names /\ Top.pc \in 1..Len(Program[Top.name])
               /\ Request.mode # "gathered" => Request.name \in Names
    BY <1>2, RequestTyped, ProgramAssumption DEF IInv, Typed, Request
  <1>3. CASE Nest
    BY <1>2, <1>3 DEF Nest, Run, Starts, Settled
  <1>4. CASE Hit \/ Missing \/ Peek
    <2>1. Requesting /\ Answer /\ (Request.mode = "gathered" \/ Request.name \in Settled)
      BY <1>4 DEF Hit, Missing, Peek, Settled
    <2>2. Settled' = Settled
      BY <2>1 DEF Answer, Settled
    <2>3. stack' = [stack EXCEPT ![Len(stack)].pc = @ + 1,
                                 ![Len(stack)].read = @ \cup (DOMAIN data \cap {Request.name})]
      BY <2>1 DEF Answer
    <2>4. Len(stack') = Len(stack)
      BY <2>3, <2>1, <1>2
    <2>5. \A i \in 1..Len(stack) : stack[i] \in Frame
      BY <2>1, <1>2
    <2>6. ASSUME NEW i \in 1..Len(stack)
          PROVE  /\ stack'[i].name = stack[i].name
                 /\ stack'[i].pc = IF i = Len(stack) THEN stack[i].pc + 1 ELSE stack[i].pc
      BY <2>3, <2>5, <2>1, <1>2 DEF Frame
    <2>. QED
      BY <2>1, <2>2, <2>4, <2>6 DEF Advances
  <1>5. CASE Propagate
    BY <1>5 DEF Propagate, Requesting, Fail, Extend, Settled, Ends
  <1>6. CASE Return \/ Raise
    BY <1>6 DEF Return, Raise, Fail, Extend, Settled, Ends
  <1>7. CASE UNCHANGED vars
    BY <1>7 DEF vars, Settled
  <1>. QED
    BY <1>1, <1>3, <1>4, <1>5, <1>6, <1>7 DEF Next, Step

\* A gatherer that asks for evidence nobody asked for yet reaches it.
LEMMA RequestReached ==
    ASSUME IInv, Requesting, Request.mode # "gathered"
    PROVE  Top.name \in Names /\ Request.name \in Reached(Program[Top.name])
PROOF
  <1>1. /\ Len(stack) \in Nat \ {0} /\ Top = stack[Len(stack)]
        /\ Top.name \in Names /\ Top.pc \in 1..Len(Program[Top.name])
    BY RequestTyped DEF IInv, Top
  <1>2. \A k \in 1..(Top.pc - 1) : Program[Top.name][k].mode = "get" => fate[Program[Top.name][k].name]
    <2>. SUFFICES ASSUME NEW k \in 1..(Top.pc - 1), Program[Top.name][k].mode = "get"
                  PROVE  fate[Program[Top.name][k].name]
      OBVIOUS
    <2>1. Len(stack) \in 1..Len(stack) /\ k \in 1..Len(Program[Top.name]) /\ k < Top.pc
      BY <1>1, ProgramAssumption
    <2>2. Program[Top.name][k].name \in DOMAIN data
      BY <1>1, <2>1 DEF IInv, HasRequired
    <2>. QED
      BY <2>2 DEF IInv, OrderIndependent
  <1>. QED
    BY <1>1, <1>2 DEF Reached, Request

\* Whatever has run is wanted, as long as only what is wanted is called.
LEMMA OnlyWanted ==
    ASSUME IInv, IInv', [Next]_vars, NEW D, Complete(D), Running \cup Settled \subseteq D,
           \A n \in Names : stack = <<>> /\ Call(n) => n \in D
    PROVE  Running' \cup Settled' \subseteq D
PROOF
  <1>0. stack \in Seq(Frame) /\ Len(stack) \in Nat
    BY DEF IInv, Typed
  <1>1. CASE UNCHANGED <<stack, Settled>>
    BY <1>1 DEF Running
  <1>2. ASSUME NEW n \in Names, Starts(n)
        PROVE  Running' \cup Settled' \subseteq D
    <2>1. n \in D
      <3>1. CASE stack = <<>> /\ Call(n)
        BY <3>1
      <3>2. CASE Requesting /\ Request.mode # "gathered" /\ Request.name = n
        <4>1. Top.name \in Names /\ n \in Reached(Program[Top.name])
          BY <3>2, RequestReached
        <4>2. Top.name \in Running
          <5>1. Len(stack) \in 1..Len(stack)
            BY <3>2, <1>0 DEF Requesting
          <5>. QED
            BY <5>1 DEF Running, Top
        <4>. QED
          BY <4>1, <4>2 DEF Complete
      <3>. QED
        BY <1>2, <3>1, <3>2 DEF Starts
    <2>2. Running' \subseteq Running \cup {n}
      <3>1. stack' = Append(stack, Entered(n)) /\ Entered(n).name = n
        BY <1>2 DEF Starts, Entered
      <3>2. /\ Len(stack') = Len(stack) + 1
            /\ \A i \in 1..(Len(stack) + 1) : stack'[i] = IF i = Len(stack) + 1 THEN Entered(n) ELSE stack[i]
        BY <3>1, <1>0
      <3>. QED
        BY <1>0, <3>1, <3>2 DEF Running
    <2>. QED
      BY <1>2, <2>1, <2>2 DEF Starts
  <1>3. CASE Advances
    BY <1>3 DEF Advances, Running
  <1>4. CASE Ends
    <2>1. stack # <<>> /\ Len(stack) \in 1..Len(stack)
      BY <1>4, <1>0 DEF Ends
    <2>2. /\ Len(stack') = Len(stack) - 1
          /\ \A i \in 1..(Len(stack) - 1) : stack'[i] = stack[i]
      BY <1>4, <1>0, FrontOf DEF Ends, Callers
    <2>3. Top.name \in Running
      BY <2>1 DEF Running, Top
    <2>4. Running' \subseteq Running
      BY <1>0, <2>2 DEF Running
    <2>. QED
      BY <1>4, <2>3, <2>4 DEF Ends
  <1>. QED
    BY <1>1, <1>2, <1>3, <1>4, StackStep

LEMMA WorkedKeeps ==
    ASSUME IInv, IInv', [Next]_vars, Worked
    PROVE  Worked'
PROOF
  <1>0. stack \in Seq(Frame) /\ Len(stack) \in Nat /\ \A i \in 1..Len(stack) : stack[i] \in Frame
    BY DEF IInv, Typed
  <1>a. \A i \in 1..Len(stack) : /\ stack[i].name \in Names /\ stack[i].pc \in Nat
                                 /\ Len(Program[stack[i].name]) \in Nat
    BY <1>0, ProgramAssumption DEF Frame
  <1>b. fate' = fate
    BY StoreGrows
  <1>c. \A program : Reached(program)' = Reached(program)
    BY <1>b, ClosureFixed
  <1>1. CASE UNCHANGED <<stack, Settled>>
    BY <1>1, <1>c DEF Worked, Complete
  <1>2. ASSUME NEW n \in Names, Starts(n)
        PROVE  Worked'
    <2>1. stack' = Append(stack, Entered(n)) /\ Entered(n).pc = 1 /\ Settled' = Settled
      BY <1>2 DEF Starts, Entered
    <2>2. /\ Len(stack') = Len(stack) + 1
          /\ \A i \in 1..(Len(stack) + 1) : stack'[i] = IF i = Len(stack) + 1 THEN Entered(n) ELSE stack[i]
      BY <2>1, <1>0
    <2>3. Complete(Settled)'
      BY <2>1, <1>c DEF Worked, Complete
    <2>4. ASSUME NEW i \in 1..Len(stack'), NEW k \in 1..Len(Program[stack'[i].name]), k < stack'[i].pc,
                 Program[stack'[i].name][k].mode # "gathered"
          PROVE  Program[stack'[i].name][k].name \in Settled'
      <3>1. k >= 1
        OBVIOUS
      <3>2. i \in 1..Len(stack) /\ stack'[i] = stack[i]
        BY <1>0, <2>1, <2>2, <2>4, <3>1
      <3>. QED
        BY <2>1, <2>4, <3>2 DEF Worked
    <2>. QED
      BY <2>3, <2>4 DEF Worked
  <1>3. CASE Advances
    <2>1. Complete(Settled)'
      BY <1>3, <1>c DEF Advances, Worked, Complete
    <2>2. ASSUME NEW i \in 1..Len(stack'), NEW k \in 1..Len(Program[stack'[i].name]), k < stack'[i].pc,
                 Program[stack'[i].name][k].mode # "gathered"
          PROVE  Program[stack'[i].name][k].name \in Settled'
      <3>1. /\ i \in 1..Len(stack) /\ stack'[i].name = stack[i].name
            /\ stack'[i].pc = IF i = Len(stack) THEN stack[i].pc + 1 ELSE stack[i].pc
            /\ Settled' = Settled
        BY <1>3 DEF Advances
      <3>2. CASE k < stack[i].pc
        BY <3>1, <3>2, <2>2 DEF Worked
      <3>3. CASE i = Len(stack) /\ k = stack[i].pc
        BY <1>3, <2>2, <3>1, <3>3 DEF Advances, Request, Top
      <3>. QED
        BY <1>a, <2>2, <3>1, <3>2, <3>3
    <2>. QED
      BY <2>1, <2>2 DEF Worked
  <1>4. CASE Ends
    <2>1. stack # <<>> /\ Len(stack) \in 1..Len(stack) /\ Settled' = Settled \cup {Top.name}
      BY <1>4, <1>0 DEF Ends
    <2>2. /\ Len(stack') = Len(stack) - 1
          /\ \A i \in 1..(Len(stack) - 1) : stack'[i] = stack[i]
      BY <1>4, <1>0, FrontOf DEF Ends, Callers
    <2>3. Reached(Program[Top.name]) \subseteq Settled
      <3>. SUFFICES ASSUME NEW k \in 1..Len(Program[Top.name]),
                           Program[Top.name][k].mode # "gathered",
                           \A j \in 1..(k - 1) : Program[Top.name][j].mode = "get" => fate[Program[Top.name][j].name]
                    PROVE  Program[Top.name][k].name \in Settled
        BY DEF Reached
      <3>1. Top = stack[Len(stack)] /\ Top.pc \in Nat /\ Len(Program[Top.name]) \in Nat
        BY <1>a, <2>1 DEF Top
      <3>2. CASE k < Top.pc
        BY <2>1, <3>1, <3>2 DEF Worked
      <3>3. CASE ~(k < Top.pc)
        <4>1. Requesting
          BY <2>1, <3>1, <3>3 DEF Requesting
        <4>2. Request.mode = "get" /\ Request.name \in DOMAIN errors
          BY <1>4, <4>1 DEF Ends
        <4>3. ~fate[Request.name]
          BY <4>2 DEF IInv, OrderIndependent
        <4>4. Top.pc \in 1..Len(Program[Top.name])
          BY <4>1, RequestTyped DEF IInv
        <4>5. Top.pc = k
          BY <3>1, <3>3, <4>2, <4>3, <4>4 DEF Request
        <4>. QED
          BY <4>2, <4>5 DEF Request, Settled
      <3>. QED
        BY <3>2, <3>3
    <2>4. Complete(Settled)'
      BY <2>1, <2>3, <1>c DEF Worked, Complete
    <2>5. ASSUME NEW i \in 1..Len(stack'), NEW k \in 1..Len(Program[stack'[i].name]), k < stack'[i].pc,
                 Program[stack'[i].name][k].mode # "gathered"
          PROVE  Program[stack'[i].name][k].name \in Settled'
      <3>1. i \in 1..Len(stack) /\ stack'[i] = stack[i]
        BY <1>0, <2>2
      <3>. QED
        BY <2>1, <2>5, <3>1 DEF Worked
    <2>. QED
      BY <2>4, <2>5 DEF Worked
  <1>. QED
    BY <1>1, <1>2, <1>3, <1>4, StackStep

-----------------------------------------------------------------------------
(* What has been gathered so far, and because of whom.                       *)

BaseRoots ==
    Reached(EntryProgram) \cup (IF options.profile = "auto" THEN Reached(ProfileProgram) ELSE {})

\* Who may have asked for what is there: before the profile is resolved nobody
\* but scan() itself, before the snapshot nobody but the selection.
Wanted ==
    IF phase \in Before THEN Closure(BaseRoots)
    ELSE IF phase = "checks" THEN SelectionDemand
    ELSE TotalDemand

Finished == {"close", "report", "reported", "aborted"}

\* The phase's requests so far, and those of the phases and checks before it,
\* are settled.
PhasesServed ==
    /\ \A i \in 1..Len(Task) : i < tpc /\ Task[i].mode # "gathered" => Task[i].name \in Settled
    /\ phase \notin {"start", "rejected", "entry"} => Reached(EntryProgram) \subseteq Settled
    /\ phase = "profile" => options.profile = "auto"
    /\ phase \notin Before /\ options.profile = "auto" => Reached(ProfileProgram) \subseteq Settled
    /\ phase \notin Before =>
          \A i \in 1..(check - 1) : Reached(CheckRequests(CHECKS[i])) \subseteq Settled
    /\ phase = "technical" => options.technical
    /\ phase \in Finished /\ options.technical => Reached(TechnicalProgram) \subseteq Settled

\* The snapshot was taken when the selection's demand, and nothing else, was there.
Snapshotted ==
    /\ phase \in After =>
          /\ selection_errors = Lost(SelectionDemand)
          /\ robots_evidence <=> "robots_txt" \in SelectionDemand \ Lost(SelectionDemand)
    /\ phase \in Finished /\ options.technical =>
          technical_gather_errors = Lost(TotalDemand) \ Lost(SelectionDemand)

DemandInv ==
    /\ Worked
    /\ Running \cup Settled \subseteq Wanted
    /\ PhasesServed
    /\ Snapshotted

LEMMA ProgramReaches ==
    ASSUME NEW program, IsProgram(program)
    PROVE  Reached(program) \subseteq Names
PROOF
  BY DEF Reached, IsProgram

\* All roots are gatherers.
LEMMA RootsNamed ==
    ASSUME EngineTyped
    PROVE  /\ BaseRoots \subseteq Names
           /\ Reached(TechnicalProgram) \subseteq Names
           /\ \A c \in Ids : Reached(CheckRequests(c)) \subseteq Names
PROOF
  <1>1. IsProgram(EntryProgram) /\ IsProgram(ProfileProgram) /\ IsProgram(TechnicalProgram)
    BY RequestsAssumption DEF IsProgram, EntryProgram, ProfileProgram, Modes
  <1>2. ASSUME NEW c \in Ids PROVE Reached(CheckRequests(c)) \subseteq Names
    <2>1. IsProgram(CheckProgram[c])
      BY RequestsAssumption
    <2>2. CASE CheckRequests(c) = <<>>
      BY <2>2 DEF Reached
    <2>3. CASE CheckRequests(c) = CheckProgram[c]
      BY <2>1, <2>3, ProgramReaches
    <2>4. CASE c \in early /\ CheckRequests(c) = <<CheckProgram[c][1]>>
      <3>1. 1 \in 1..Len(CheckProgram[c])
        BY <2>1, <2>4, RequestsAssumption DEF EngineTyped, IsProgram
      <3>. DEFINE r == CheckProgram[c][1]
      <3>2. r.mode \in Modes /\ (r.mode # "gathered" => r.name \in Names)
        BY <2>1, <3>1 DEF IsProgram
      <3>. HIDE DEF r
      <3>3. IsProgram(<<r>>)
        BY <3>2 DEF IsProgram
      <3>. QED
        BY <2>4, <3>3, ProgramReaches DEF r
    <2>. QED
      BY <2>2, <2>3, <2>4 DEF CheckRequests
  <1>. QED
    BY <1>1, <1>2, ProgramReaches DEF BaseRoots

\* The demands are complete, and the least that are.
LEMMA DemandsLeast ==
    ASSUME EngineTyped
    PROVE  /\ LeastComplete(Closure(BaseRoots), BaseRoots)
           /\ LeastComplete(SelectionDemand, BaseRoots \cup UNION {Reached(CheckRequests(c)) : c \in Ids})
           /\ LeastComplete(Closure(Reached(TechnicalProgram)), Reached(TechnicalProgram))
           /\ Complete(TotalDemand) /\ TotalDemand \subseteq Names
           /\ Closure(BaseRoots) \subseteq SelectionDemand
           /\ SelectionDemand \subseteq TotalDemand
PROOF
  <1>. DEFINE S == BaseRoots \cup UNION {Reached(CheckRequests(c)) : c \in Ids}
  <1>1. S \in SUBSET Names /\ BaseRoots \in SUBSET Names /\ Reached(TechnicalProgram) \in SUBSET Names
    BY RootsNamed
  <1>2. SelectionDemand = Closure(S)
    BY DEF SelectionDemand, BaseRoots
  <1>3. BaseRoots \subseteq S
    OBVIOUS
  <1>. HIDE DEF S
  <1>4. /\ LeastComplete(Closure(BaseRoots), BaseRoots)
        /\ LeastComplete(SelectionDemand, S)
        /\ LeastComplete(Closure(Reached(TechnicalProgram)), Reached(TechnicalProgram))
    BY <1>1, <1>2, ClosureLeast DEF ClosureIsLeast
  <1>5. Closure(BaseRoots) \subseteq SelectionDemand
    BY <1>3, <1>4 DEF LeastComplete
  <1>6. Complete(TotalDemand) /\ TotalDemand \subseteq Names
    BY <1>4 DEF LeastComplete, Complete, TotalDemand
  <1>. QED
    BY <1>4, <1>5, <1>6 DEF S, TotalDemand

\* The demands depend on the options, the profile and the fate of the evidence.
LEMMA DemandsFixed ==
    ASSUME EngineTyped, UNCHANGED <<fate, options, faults, early, profile>>
    PROVE  /\ BaseRoots' = BaseRoots /\ Closure(BaseRoots)' = Closure(BaseRoots)
           /\ SelectionDemand' = SelectionDemand /\ TotalDemand' = TotalDemand
           /\ \A S : Lost(S)' = Lost(S)
PROOF
  <1>. DEFINE S == BaseRoots \cup UNION {Reached(CheckRequests(c)) : c \in Ids}
  <1>1. S \in SUBSET Names /\ BaseRoots \in SUBSET Names /\ Reached(TechnicalProgram) \in SUBSET Names
    BY RootsNamed
  <1>2. \A program : Reached(program)' = Reached(program)
    BY ClosureFixed
  <1>3. \A c : CheckRequests(c)' = CheckRequests(c)
    BY SameVerdicts
  <1>4. BaseRoots' = BaseRoots
    BY <1>2 DEF BaseRoots
  <1>5. S' = S
    BY <1>2, <1>3, <1>4
  <1>6. SelectionDemand = Closure(S)
    BY DEF SelectionDemand, BaseRoots
  <1>7. SelectionDemand' = Closure(S)'
    BY DEF SelectionDemand, BaseRoots
  <1>8. \A roots \in SUBSET Names : Closure(roots)' = Closure(roots)
    BY ClosureFixed
  <1>9. Reached(TechnicalProgram)' = Reached(TechnicalProgram)
    BY <1>2
  <1>. DEFINE T == Reached(TechnicalProgram)
              B == BaseRoots
  <1>10. TotalDemand = SelectionDemand \cup (IF options.technical THEN Closure(T) ELSE {})
    BY DEF TotalDemand
  <1>11. TotalDemand' = SelectionDemand' \cup (IF options.technical THEN Closure(T)' ELSE {})
    BY DEF TotalDemand
  <1>12. Closure(S)' = Closure(S) /\ Closure(T)' = Closure(T) /\ Closure(B)' = Closure(B)
    BY <1>1, <1>2, <1>4, <1>5, <1>8, <1>9
  <1>. QED
    BY <1>4, <1>6, <1>7, <1>10, <1>11, <1>12 DEF Lost

\* A request of the phase is one it reaches: everything it got before is there.
LEMMA TaskReaches ==
    ASSUME EngineTyped, SeenExactly, TaskRequesting, TaskRequest.mode # "gathered"
    PROVE  TaskRequest.name \in Reached(Task)
PROOF
  <1>1. tpc \in 1..Len(Task) /\ Len(Task) \in Nat
    BY TaskRequestTyped, TaskIsProgram
  <1>2. \A k \in 1..(tpc - 1) : Task[k].mode = "get" => fate[Task[k].name]
    BY <1>1 DEF SeenExactly
  <1>. QED
    BY <1>1, <1>2 DEF Reached, TaskRequest

\* A phase that is through with its requests, or was refused one, has settled
\* all it reaches.
LEMMA TaskServed ==
    ASSUME IInv, EngineTyped, PhasesServed, TaskOver \/ TaskUnavailable
    PROVE  Reached(Task) \subseteq Settled
PROOF
  <1>0. Len(Task) \in Nat /\ tpc \in Nat
    BY TaskIsProgram DEF EngineTyped
  <1>. SUFFICES ASSUME NEW k \in 1..Len(Task), Task[k].mode # "gathered",
                       \A j \in 1..(k - 1) : Task[j].mode = "get" => fate[Task[j].name]
                PROVE  Task[k].name \in Settled
    BY DEF Reached
  <1>1. CASE k < tpc
    BY <1>1 DEF PhasesServed
  <1>2. CASE ~(k < tpc)
    <2>1. TaskUnavailable
      BY <1>0, <1>2 DEF TaskOver
    <2>2. tpc \in 1..Len(Task)
      BY <2>1, TaskRequestTyped DEF TaskUnavailable
    <2>3. Task[tpc].mode = "get" /\ Task[tpc].name \in DOMAIN errors /\ ~fate[Task[tpc].name]
      BY <2>1 DEF TaskUnavailable, TaskRequest, IInv, OrderIndependent
    <2>4. tpc = k
      BY <1>0, <1>2, <2>2, <2>3
    <2>. QED
      BY <2>3, <2>4 DEF Settled
  <1>. QED
    BY <1>1, <1>2

\* Idle, nothing runs.
LEMMA NothingRuns ==
    ASSUME stack = <<>>
    PROVE  Running = {}
PROOF
  <1>1. Len(stack) = 0
    OBVIOUS
  <1>. QED
    BY <1>1 DEF Running

\* While a request is worked on.
LEMMA WorkDemanded ==
    ASSUME ScanInv, DemandInv, ScanInv', [Next]_vars, GathererStep \/ TaskCall
    PROVE  DemandInv'
PROOF
  <1>. USE DEF ScanInv, EngineInv
  <1>1. /\ UNCHANGED <<options, faults, early, phase, tpc, check, profile, selection_errors,
                       robots_evidence, technical_gather_errors>>
        /\ fate' = fate /\ Settled \subseteq Settled'
    BY StoreGrows DEF GathererStep, TaskCall, scanWorld, engine, progress, checking, snapshot, technical
  <1>2. Worked'
    BY WorkedKeeps DEF DemandInv
  <1>3. /\ BaseRoots' = BaseRoots /\ Closure(BaseRoots)' = Closure(BaseRoots)
        /\ SelectionDemand' = SelectionDemand /\ TotalDemand' = TotalDemand
        /\ \A S : Lost(S)' = Lost(S)
    BY <1>1, DemandsFixed
  <1>4. Wanted' = Wanted
    BY <1>1, <1>3 DEF Wanted
  <1>5. /\ \A c : CheckRequests(c)' = CheckRequests(c)
        /\ \A program : Reached(program)' = Reached(program)
    BY <1>1, SameVerdicts, ClosureFixed
  <1>6. Task' = Task
    BY <1>1, <1>5 DEF Task, CurrentCheck
  <1>7. Complete(Wanted)
    BY DemandsLeast DEF Wanted, LeastComplete
  <1>8. ASSUME NEW n \in Names, stack = <<>>, Call(n)
        PROVE  n \in Wanted
    <2>1. TaskCall
      <3>1. ~GathererStep
        BY <1>8 DEF GathererStep, Step, Nest, Hit, Missing, Peek, Propagate, Return, Raise, Requesting
      <3>. QED
        BY <3>1
    <2>2. TaskRequesting /\ TaskRequest.mode # "gathered" /\ Call(TaskRequest.name)
      BY <2>1 DEF TaskCall
    <2>3. TaskRequest.name \in Names
      BY <2>2, TaskRequestTyped
    <2>4. n = TaskRequest.name
      <3>1. stack' = Append(stack, Entered(n)) /\ stack' = Append(stack, Entered(TaskRequest.name))
        BY <1>8, <2>2 DEF Call, Run
      <3>. DEFINE a == Entered(n)
                  b == Entered(TaskRequest.name)
      <3>2. a.name = n /\ b.name = TaskRequest.name
        BY DEF Entered
      <3>. HIDE DEF a, b
      <3>3. stack' = <<a>> /\ stack' = <<b>>
        BY <1>8, <3>1 DEF a, b
      <3>. QED
        BY <3>2, <3>3
    <2>5. TaskRequest.name \in Reached(Task)
      BY <2>2, TaskReaches
    <2>6. Reached(Task) \subseteq Wanted
      <3>1. CASE phase = "entry"
        <4>1. Reached(Task) \subseteq BaseRoots
          BY <3>1 DEF Task, BaseRoots
        <4>. QED
          BY <3>1, <4>1, DemandsLeast DEF LeastComplete, Wanted, Before
      <3>2. CASE phase = "profile"
        <4>1. Reached(Task) \subseteq BaseRoots
          BY <3>2 DEF Task, BaseRoots, DemandInv, PhasesServed
        <4>. QED
          BY <3>2, <4>1, DemandsLeast DEF LeastComplete, Wanted, Before
      <3>3. CASE phase = "checks" /\ check <= Len(CHECKS)
        <4>1. CurrentCheck \in Ids /\ Task = CheckRequests(CurrentCheck)
          BY <3>3, RegistryAssumption DEF EngineTyped, CurrentCheck, Ids, Task
        <4>. QED
          BY <3>3, <4>1, DemandsLeast DEF LeastComplete, Wanted, Before
      <3>4. CASE phase = "technical"
        <4>1. Task = TechnicalProgram /\ options.technical
          BY <3>4 DEF Task, DemandInv, PhasesServed
        <4>. QED
          BY <3>4, <4>1, DemandsLeast DEF LeastComplete, Wanted, Before, TotalDemand
      <3>5. phase # "report"
        <4>. SUFFICES ASSUME phase = "report" PROVE FALSE
          OBVIOUS
        <4>1. Task = ReportProgram /\ tpc \in 1..Len(Task)
          BY <2>2, TaskRequestTyped DEF Task
        <4>2. TaskRequest.name = "http"
          BY <4>1 DEF ReportProgram, TaskRequest
        <4>3. "http" \in Settled
          BY DEF EntryFetched
        <4>. QED
          BY <2>2, <4>2, <4>3 DEF Call, Run
      <3>6. Task # <<>>
        BY <2>5 DEF Reached
      <3>. QED
        BY <3>1, <3>2, <3>3, <3>4, <3>5, <3>6 DEF Task
    <2>. QED
      BY <2>4, <2>5, <2>6
  <1>9. Running' \cup Settled' \subseteq Wanted
    BY <1>7, <1>8, OnlyWanted DEF DemandInv
  <1>10. PhasesServed'
    BY <1>1, <1>5, <1>6 DEF DemandInv, PhasesServed
  <1>11. Snapshotted'
    BY <1>1, <1>3 DEF DemandInv, Snapshotted
  <1>. QED
    BY <1>2, <1>4, <1>9, <1>10, <1>11 DEF DemandInv

\* The store answers a phase: the request was settled.
LEMMA AnswerDemanded ==
    ASSUME ScanInv, DemandInv, TaskAnswer
    PROVE  DemandInv'
PROOF
  <1>. USE DEF ScanInv, EngineInv
  <1>1. /\ UNCHANGED <<options, faults, early, phase, check, profile, selection_errors,
                       robots_evidence, technical_gather_errors>>
        /\ UNCHANGED <<fate, data, errors, stack>> /\ tpc' = tpc + 1
        /\ TaskRequesting
        /\ TaskRequest.mode # "gathered" => TaskRequest.name \in Settled
    BY DEF TaskAnswer, vars, scanWorld, checking, snapshot, technical, Settled
  <1>2. Settled' = Settled /\ Running' = Running
    BY <1>1 DEF Settled, Running
  <1>3. /\ BaseRoots' = BaseRoots /\ Closure(BaseRoots)' = Closure(BaseRoots)
        /\ SelectionDemand' = SelectionDemand /\ TotalDemand' = TotalDemand
        /\ \A S : Lost(S)' = Lost(S)
    BY <1>1, DemandsFixed
  <1>4. Wanted' = Wanted
    BY <1>1, <1>3 DEF Wanted
  <1>5. /\ \A c : CheckRequests(c)' = CheckRequests(c)
        /\ \A program : Reached(program)' = Reached(program)
    BY <1>1, SameVerdicts, ClosureFixed
  <1>6. Task' = Task
    BY <1>1, <1>5 DEF Task, CurrentCheck
  <1>7. Worked'
    BY <1>1, <1>2, <1>5 DEF DemandInv, Worked, Complete
  <1>8. PhasesServed'
    <2>1. tpc \in 1..Len(Task) /\ Len(Task) \in Nat /\ TaskRequest = Task[tpc]
      BY <1>1, TaskRequestTyped, TaskIsProgram DEF TaskRequest
    <2>2. ASSUME NEW i \in 1..Len(Task), i < tpc + 1, Task[i].mode # "gathered"
          PROVE  Task[i].name \in Settled
      <3>1. i < tpc \/ i = tpc
        BY <2>1, <2>2
      <3>. QED
        BY <1>1, <2>1, <2>2, <3>1 DEF DemandInv, PhasesServed
    <2>. QED
      BY <1>1, <1>2, <1>5, <1>6, <2>2 DEF DemandInv, PhasesServed
  <1>9. Snapshotted'
    BY <1>1, <1>3 DEF DemandInv, Snapshotted
  <1>. QED
    BY <1>2, <1>4, <1>7, <1>8, <1>9 DEF DemandInv

\* scan() goes on to a phase, or to the next check.
LEMMA EnterDemanded ==
    ASSUME ScanInv, DemandInv, NEW p, Enter(p), stack = <<>>
    PROVE  /\ Worked' /\ Settled' = Settled /\ Running' = {} /\ Running = {}
           /\ UNCHANGED <<data, errors, fate, options, faults, early>>
           /\ phase' = p /\ tpc' = 1
           /\ \A program : Reached(program)' = Reached(program)
           /\ Settled \subseteq Wanted
PROOF
  <1>1. /\ phase' = p /\ tpc' = 1
        /\ UNCHANGED <<stack, data, errors, fate, options, faults, early>>
    BY DEF Enter, vars, scanWorld
  <1>2. Settled' = Settled /\ Running' = Running
    BY <1>1 DEF Settled, Running
  <1>3. \A program : Reached(program)' = Reached(program)
    BY <1>1, ClosureFixed
  <1>4. Worked'
    BY <1>1, <1>2, <1>3 DEF DemandInv, Worked, Complete
  <1>. QED
    BY <1>1, <1>2, <1>3, <1>4, NothingRuns DEF DemandInv

\* What the demands are when the profile stands.
LEMMA EnterDemands ==
    ASSUME ScanInv, DemandInv, NEW p, Enter(p), stack = <<>>, profile' = profile
    PROVE  /\ BaseRoots' = BaseRoots /\ Closure(BaseRoots)' = Closure(BaseRoots)
           /\ SelectionDemand' = SelectionDemand /\ TotalDemand' = TotalDemand
           /\ \A S : Lost(S)' = Lost(S)
           /\ \A c : CheckRequests(c)' = CheckRequests(c)
PROOF
  <1>1. UNCHANGED <<fate, options, faults, early, profile>>
    BY EnterDemanded
  <1>. QED
    BY <1>1, DemandsFixed, SameVerdicts DEF ScanInv, EngineInv

\* What scan() itself needs belongs to every selection's demand.
SelectionIncludesBase == Closure(BaseRoots) \subseteq SelectionDemand

LEMMA BaseIncluded == EngineTyped => SelectionIncludesBase
PROOF
  BY DemandsLeast DEF SelectionIncludesBase

\* Before the checks.
LEMMA BeforeDemanded ==
    ASSUME ScanInv, ScanInv', DemandInv, Start \/ EntryDone \/ ProfileDone \/ ProfileRaises
    PROVE  DemandInv'
PROOF
  <1>. USE DEF ScanInv, EngineInv
  <1>0. Len(CHECKS) \in Nat /\ phase \in {"start", "entry", "profile"} /\ check = 1 /\ check' = 1
    BY RegistryAssumption DEF Start, EntryDone, ProfileDone, ProfileRaises, DetectorChokes, EngineTyped, Before, checking
  <1>1. PICK p \in {"entry", "rejected", "profile", "checks", "undetected"} : Enter(p)
    BY DEF Start, EntryDone, ProfileDone, ProfileRaises, DetectorChokes
  <1>2. stack = <<>>
    <2>1. phase = "start" => Task = <<>>
      BY DEF Task
    <2>. QED
      BY <2>1, NoTask DEF Start, EntryDone, ProfileDone, ProfileRaises, DetectorChokes, TaskOver, Idle
  <1>3. /\ Worked' /\ Settled' = Settled /\ Running' = {}
        /\ UNCHANGED <<data, errors, fate, options, faults, early>>
        /\ phase' = p /\ tpc' = 1
        /\ \A program : Reached(program)' = Reached(program)
        /\ Settled \subseteq Wanted
    BY <1>1, <1>2, EnterDemanded
  <1>4. Settled \subseteq Closure(BaseRoots)
    BY <1>0, <1>3 DEF Wanted, Before
  <1>5. BaseRoots' = BaseRoots
    BY <1>3 DEF BaseRoots
  <1>6. Closure(BaseRoots)' = Closure(BaseRoots)
    <2>1. BaseRoots \in SUBSET Names
      BY RootsNamed
    <2>2. \A roots \in SUBSET Names : Closure(roots)' = Closure(roots)
      BY <1>3, ClosureFixed
    <2>. QED
      BY <1>5, <2>1, <2>2
  <1>7. Closure(BaseRoots)' \subseteq SelectionDemand'
    <2>1. EngineTyped' => SelectionIncludesBase'
      BY BaseIncluded, PTL
    <2>. QED
      BY <2>1 DEF SelectionIncludesBase
  <1>8. Settled' \subseteq Wanted'
    BY <1>3, <1>4, <1>6, <1>7 DEF Wanted, Before
  <1>9. phase # "start" => p \in {"profile", "checks", "undetected"}
    BY <1>3 DEF EntryDone, ProfileDone, ProfileRaises, DetectorChokes, Start, Enter
  <1>10. phase # "start" => Reached(EntryProgram) \subseteq Settled
    <2>1. CASE phase = "entry"
      <3>1. Task = EntryProgram /\ TaskOver
        BY <2>1 DEF Task, Start, EntryDone, ProfileDone, ProfileRaises, DetectorChokes
      <3>. QED
        BY <3>1, TaskServed DEF DemandInv
    <2>2. CASE phase = "profile"
      BY <2>2 DEF DemandInv, PhasesServed
    <2>. QED
      BY <1>0, <2>1, <2>2
  <1>11. phase = "start" => p \in {"entry", "rejected"}
    BY <1>3 DEF EntryDone, ProfileDone, ProfileRaises, DetectorChokes, Start, Enter
  <1>12. p = "profile" => options.profile = "auto"
    BY <1>3 DEF EntryDone, ProfileDone, ProfileRaises, DetectorChokes, Start, Enter
  <1>13. p = "checks" /\ options.profile = "auto" => Reached(ProfileProgram) \subseteq Settled
    <2>. SUFFICES ASSUME p = "checks", options.profile = "auto"
                  PROVE  Reached(ProfileProgram) \subseteq Settled
      OBVIOUS
    <2>1. phase = "profile" /\ TaskOver
      BY <1>3 DEF EntryDone, ProfileDone, ProfileRaises, DetectorChokes, Start, Enter
    <2>2. Task = ProfileProgram
      BY <2>1 DEF Task
    <2>. QED
      BY <2>1, <2>2, TaskServed DEF DemandInv
  <1>14. PhasesServed'
    <2>1. ASSUME NEW i \in 1..Len(Task'), i < tpc' PROVE FALSE
      BY <1>3, <2>1
    <2>2. 1..(check' - 1) = {}
      BY <1>0
    <2>. QED
      BY <1>3, <1>9, <1>10, <1>11, <1>12, <1>13, <2>1, <2>2 DEF PhasesServed, Before, Finished
  <1>15. Snapshotted'
    BY <1>3 DEF Snapshotted, After, Finished
  <1>. QED
    BY <1>3, <1>8, <1>14, <1>15 DEF DemandInv

\* From check to check.
LEMMA ChecksDemanded ==
    ASSUME ScanInv, DemandInv, stack = <<>>, Checking, Enter("checks"), check' = check + 1,
           profile' = profile, Reached(CheckRequests(CurrentCheck)) \subseteq Settled
    PROVE  DemandInv'
PROOF
  <1>. USE DEF ScanInv, EngineInv
  <1>1. /\ Worked' /\ Settled' = Settled /\ Running' = {}
        /\ UNCHANGED <<data, errors, fate, options, faults, early>>
        /\ phase' = "checks" /\ tpc' = 1
        /\ \A program : Reached(program)' = Reached(program)
        /\ Settled \subseteq Wanted
    BY EnterDemanded
  <1>2. /\ SelectionDemand' = SelectionDemand
        /\ \A c : CheckRequests(c)' = CheckRequests(c)
    BY EnterDemands
  <1>3. phase = "checks" /\ check \in 1..Len(CHECKS) /\ Len(CHECKS) \in Nat
    BY RegistryAssumption DEF Checking, EngineTyped
  <1>4. Settled' \subseteq Wanted'
    BY <1>1, <1>2, <1>3 DEF Wanted, Before
  <1>5. PhasesServed'
    <2>1. ASSUME NEW i \in 1..Len(Task'), i < tpc' PROVE FALSE
      BY <1>1, <2>1
    <2>2. ASSUME NEW i \in 1..(check' - 1)
          PROVE  Reached(CheckRequests(CHECKS[i])) \subseteq Settled
      <3>1. i \in 1..(check - 1) \/ i = check
        BY <1>3, <2>2
      <3>. QED
        BY <1>3, <3>1 DEF DemandInv, PhasesServed, Before, CurrentCheck
    <2>3. \A i \in 1..(check' - 1) : Reached(CheckRequests(CHECKS[i]))' \subseteq Settled'
      BY <1>1, <1>2, <2>2
    <2>. QED
      BY <1>1, <1>3, <2>1, <2>3 DEF DemandInv, PhasesServed, Before, Finished
  <1>6. Snapshotted'
    BY <1>1 DEF Snapshotted, After, Finished
  <1>. QED
    BY <1>1, <1>4, <1>5, <1>6 DEF DemandInv

\* All checks have run: what is settled is what the selection demands.
LEMMA SelectionServed ==
    ASSUME ScanInv, DemandInv, stack = <<>>, phase = "checks", check > Len(CHECKS)
    PROVE  Settled = SelectionDemand
PROOF
  <1>. USE DEF ScanInv, EngineInv
  <1>1. Settled \subseteq SelectionDemand
    BY DEF DemandInv, Wanted, Before
  <1>2. Len(CHECKS) \in Nat /\ check = Len(CHECKS) + 1
    BY RegistryAssumption DEF EngineTyped
  <1>3. BaseRoots \subseteq Settled
    BY DEF DemandInv, PhasesServed, Before, BaseRoots
  <1>4. \A c \in Ids : Reached(CheckRequests(c)) \subseteq Settled
    <2>1. 1..(check - 1) = 1..Len(CHECKS)
      BY <1>2
    <2>. QED
      BY <2>1 DEF DemandInv, PhasesServed, Before, Ids
  <1>5. SelectionDemand \subseteq Settled
    BY <1>3, <1>4, DemandsLeast DEF LeastComplete, DemandInv, Worked
  <1>. QED
    BY <1>1, <1>5

\* Whatever failed is listed.
LEMMA ErrorsLost ==
    ASSUME IInv
    PROVE  DOMAIN errors = Lost(Settled) /\ \A n \in Settled : fate[n] <=> n \in DOMAIN data
PROOF
  BY DEF IInv, OrderIndependent, Settled, Lost

\* The snapshot describes the selection.
LEMMA SnapshotDemanded ==
    ASSUME ScanInv, DemandInv, Snapshot
    PROVE  DemandInv'
PROOF
  <1>. USE DEF ScanInv, EngineInv
  <1>1. /\ phase = "checks" /\ check > Len(CHECKS) /\ profile' = profile /\ check' = check
        /\ selection_errors' = DOMAIN errors
        /\ robots_evidence' = ("robots_txt" \in DOMAIN data)
    BY DEF Snapshot, checking
  <1>2. PICK p \in {"technical", "close"} : Enter(p) /\ (p = "technical" <=> options.technical)
    BY DEF Snapshot
  <1>3. stack = <<>>
    <2>1. Task = <<>>
      BY <1>1, RegistryAssumption DEF Task, EngineTyped
    <2>. QED
      BY <2>1, NoTask
  <1>4. /\ Worked' /\ Settled' = Settled /\ Running' = {}
        /\ UNCHANGED <<data, errors, fate, options, faults, early>>
        /\ phase' = p /\ tpc' = 1
        /\ \A program : Reached(program)' = Reached(program)
    BY <1>2, <1>3, EnterDemanded
  <1>5. /\ SelectionDemand' = SelectionDemand /\ TotalDemand' = TotalDemand
        /\ \A S : Lost(S)' = Lost(S)
        /\ \A c : CheckRequests(c)' = CheckRequests(c)
    BY <1>1, <1>2, <1>3, EnterDemands
  <1>6. Settled = SelectionDemand
    BY <1>1, <1>3, SelectionServed
  <1>7. Settled' \subseteq Wanted'
    BY <1>4, <1>5, <1>6, DemandsLeast DEF Wanted, Before
  <1>8. PhasesServed'
    <2>1. ASSUME NEW i \in 1..Len(Task'), i < tpc' PROVE FALSE
      BY <1>4, <2>1
    <2>2. \A i \in 1..(check' - 1) : Reached(CheckRequests(CHECKS[i]))' \subseteq Settled'
      BY <1>1, <1>4, <1>5 DEF DemandInv, PhasesServed, Before
    <2>. QED
      BY <1>1, <1>2, <1>4, <2>1, <2>2 DEF DemandInv, PhasesServed, Before, Finished
  <1>9. Snapshotted'
    <2>1. DOMAIN errors = Lost(SelectionDemand)
      BY <1>6, ErrorsLost
    <2>2. "robots_txt" \in DOMAIN data <=> "robots_txt" \in SelectionDemand \ Lost(SelectionDemand)
      BY <1>6, ErrorsLost DEF Lost, Settled
    <2>3. p = "close" => ~options.technical
      BY <1>2
    <2>. QED
      BY <1>1, <1>2, <1>4, <1>5, <2>1, <2>2, <2>3 DEF Snapshotted, After, Finished
  <1>. QED
    BY <1>4, <1>7, <1>8, <1>9 DEF DemandInv

\* The Technical pass is through: what is settled is the total demand.
LEMMA TotalServed ==
    ASSUME ScanInv, DemandInv, stack = <<>>, phase \in After,
           options.technical => Reached(TechnicalProgram) \subseteq Settled
    PROVE  Settled = TotalDemand
PROOF
  <1>. USE DEF ScanInv, EngineInv
  <1>1. Settled \subseteq TotalDemand
    BY DEF DemandInv, Wanted, Before, After
  <1>2. Len(CHECKS) \in Nat /\ check = Len(CHECKS) + 1 /\ phase \notin Before
        /\ phase \notin {"start", "rejected", "entry"}
    BY RegistryAssumption DEF EngineTyped, After, Before
  <1>3. BaseRoots \subseteq Settled
    BY <1>2 DEF DemandInv, PhasesServed, BaseRoots
  <1>4. \A c \in Ids : Reached(CheckRequests(c)) \subseteq Settled
    <2>1. 1..(check - 1) = 1..Len(CHECKS)
      BY <1>2
    <2>. QED
      BY <1>2, <2>1 DEF DemandInv, PhasesServed, Ids
  <1>5. Complete(Settled)
    BY DEF DemandInv, Worked
  <1>6. SelectionDemand \subseteq Settled
    BY <1>3, <1>4, <1>5, DemandsLeast DEF LeastComplete
  <1>7. options.technical => Closure(Reached(TechnicalProgram)) \subseteq Settled
    BY <1>5, DemandsLeast DEF LeastComplete
  <1>. QED
    BY <1>1, <1>6, <1>7 DEF TotalDemand

\* From the Technical pass on.
LEMMA AfterDemanded ==
    ASSUME ScanInv, DemandInv, TechnicalDone \/ Close \/ Report
    PROVE  DemandInv'
PROOF
  <1>. USE DEF ScanInv, EngineInv
  <1>1. /\ phase \in {"technical", "close", "report"} /\ profile' = profile /\ check' = check
        /\ selection_errors' = selection_errors /\ robots_evidence' = robots_evidence
        /\ phase = "technical" => technical_gather_errors' = DOMAIN errors \ selection_errors
        /\ phase # "technical" => technical_gather_errors' = technical_gather_errors
    BY DEF TechnicalDone, Close, Report, checking, snapshot, technical
  <1>2. PICK p \in Finished : Enter(p)
    BY DEF TechnicalDone, Close, Report, Finished
  <1>3. stack = <<>>
    <2>1. phase = "close" => Task = <<>>
      BY DEF Task
    <2>2. CASE TechnicalDone
      BY <2>2 DEF TechnicalDone, TaskOver, Idle
    <2>3. CASE Close
      BY <2>1, <2>3, NoTask DEF Close
    <2>4. CASE Report
      BY <2>4, NoTask DEF Report
    <2>. QED
      BY <2>2, <2>3, <2>4
  <1>4. /\ Worked' /\ Settled' = Settled /\ Running' = {}
        /\ UNCHANGED <<data, errors, fate, options, faults, early>>
        /\ phase' = p /\ tpc' = 1
        /\ \A program : Reached(program)' = Reached(program)
        /\ Settled \subseteq Wanted
    BY <1>2, <1>3, EnterDemanded
  <1>5. /\ SelectionDemand' = SelectionDemand /\ TotalDemand' = TotalDemand
        /\ \A S : Lost(S)' = Lost(S)
        /\ \A c : CheckRequests(c)' = CheckRequests(c)
    BY <1>1, <1>2, <1>3, EnterDemands
  <1>6. options.technical => Reached(TechnicalProgram) \subseteq Settled
    <2>1. CASE phase = "technical"
      <3>1. TaskOver /\ Task = TechnicalProgram
        BY <2>1 DEF Task, TechnicalDone, Close, Report
      <3>. QED
        BY <3>1, TaskServed DEF DemandInv
    <2>2. CASE phase # "technical"
      BY <1>1, <2>2 DEF DemandInv, PhasesServed, Finished
    <2>. QED
      BY <2>1, <2>2
  <1>7. Settled = TotalDemand
    BY <1>1, <1>3, <1>6, TotalServed DEF After
  <1>8. Settled' \subseteq Wanted'
    BY <1>4, <1>5, <1>7 DEF Wanted, Before, Finished
  <1>9. PhasesServed'
    <2>1. ASSUME NEW i \in 1..Len(Task'), i < tpc' PROVE FALSE
      BY <1>4, <2>1
    <2>2. phase \notin Before /\ phase \notin {"start", "rejected", "entry"}
      BY <1>1 DEF Before
    <2>3. \A i \in 1..(check' - 1) : Reached(CheckRequests(CHECKS[i]))' \subseteq Settled'
      BY <1>1, <1>4, <1>5, <2>2 DEF DemandInv, PhasesServed
    <2>4. phase' \notin {"profile", "technical"}
      BY <1>4 DEF Finished
    <2>5. Reached(EntryProgram)' \subseteq Settled' /\ Reached(TechnicalProgram)' = Reached(TechnicalProgram)
      BY <1>4, <2>2 DEF DemandInv, PhasesServed
    <2>6. options.profile = "auto" => Reached(ProfileProgram)' \subseteq Settled'
      BY <1>4, <2>2 DEF DemandInv, PhasesServed
    <2>. QED
      BY <1>4, <1>6, <2>1, <2>3, <2>4, <2>5, <2>6 DEF PhasesServed
  <1>10. Snapshotted'
    <2>1. /\ selection_errors = Lost(SelectionDemand)
          /\ robots_evidence <=> "robots_txt" \in SelectionDemand \ Lost(SelectionDemand)
      BY <1>1 DEF DemandInv, Snapshotted, After
    <2>2. phase # "technical" /\ options.technical
            => technical_gather_errors = Lost(TotalDemand) \ Lost(SelectionDemand)
      BY <1>1 DEF DemandInv, Snapshotted, Finished
    <2>3. DOMAIN errors = Lost(TotalDemand)
      BY <1>7, ErrorsLost
    <2>. QED
      BY <1>1, <1>4, <1>5, <2>1, <2>2, <2>3 DEF Snapshotted
  <1>. QED
    BY <1>4, <1>8, <1>9, <1>10 DEF DemandInv

\* Nothing moves.
LEMMA StutterDemanded ==
    ASSUME ScanInv, DemandInv, UNCHANGED scanVars
    PROVE  DemandInv'
PROOF
  <1>. USE DEF ScanInv, EngineInv
  <1>1. UNCHANGED <<data, errors, stack, fate, options, faults, early, phase, check, tpc, profile,
                    selection_errors, robots_evidence, technical_gather_errors>>
    BY DEF scanVars, vars, scanWorld, engine, progress, checking, snapshot, technical
  <1>2. Settled' = Settled /\ Running' = Running
    BY <1>1 DEF Settled, Running
  <1>3. /\ BaseRoots' = BaseRoots /\ Closure(BaseRoots)' = Closure(BaseRoots)
        /\ SelectionDemand' = SelectionDemand /\ TotalDemand' = TotalDemand
        /\ \A S : Lost(S)' = Lost(S)
    BY <1>1, DemandsFixed
  <1>4. /\ \A c : CheckRequests(c)' = CheckRequests(c)
        /\ \A program : Reached(program)' = Reached(program)
    BY <1>1, SameVerdicts, ClosureFixed
  <1>5. Task' = Task
    BY <1>1, <1>4 DEF Task, CurrentCheck
  <1>6. Wanted' = Wanted
    BY <1>1, <1>3 DEF Wanted
  <1>7. Worked'
    BY <1>1, <1>2, <1>4 DEF DemandInv, Worked, Complete
  <1>8. PhasesServed'
    BY <1>1, <1>2, <1>4, <1>5 DEF DemandInv, PhasesServed
  <1>9. Snapshotted'
    BY <1>1, <1>3 DEF DemandInv, Snapshotted
  <1>. QED
    BY <1>2, <1>6, <1>7, <1>8, <1>9 DEF DemandInv

LEMMA NextDemanded == ScanInv /\ ScanInv' /\ DemandInv /\ [ScanNext]_scanVars => DemandInv'
PROOF
  <1>. SUFFICES ASSUME ScanInv, ScanInv', DemandInv, [ScanNext]_scanVars PROVE DemandInv'
    OBVIOUS
  <1>. USE DEF ScanInv, EngineInv
  <1>1. CASE GathererStep \/ TaskCall
    BY <1>1, ScanStepsStore, WorkDemanded
  <1>2. CASE TaskAnswer
    BY <1>2, AnswerDemanded
  <1>3. CASE Start \/ EntryDone \/ ProfileDone \/ ProfileRaises
    BY <1>3, BeforeDemanded
  <1>4. CASE SkipCheck \/ CheckNotApplicable
    <2>1. Checking /\ Enter("checks") /\ check' = check + 1 /\ profile' = profile
      BY <1>4 DEF SkipCheck, CheckNotApplicable, RunningCheck, Conclude
    <2>2. CheckRequests(CurrentCheck) = <<>>
      BY <1>4 DEF SkipCheck, CheckNotApplicable, CheckRequests
    <2>3. Task = <<>>
      BY <2>1, <2>2 DEF Task, Checking
    <2>4. stack = <<>>
      BY <2>3, NoTask
    <2>5. Reached(CheckRequests(CurrentCheck)) \subseteq Settled
      BY <2>2 DEF Reached
    <2>. QED
      BY <2>1, <2>4, <2>5, ChecksDemanded
  <1>5. CASE CheckUnavailable \/ CheckEvaluated
    <2>1. Checking /\ Enter("checks") /\ check' = check + 1 /\ profile' = profile
      BY <1>5 DEF CheckUnavailable, CheckEvaluated, RunningCheck, Conclude
    <2>2. (TaskOver \/ TaskUnavailable) /\ stack = <<>>
      BY <1>5 DEF CheckUnavailable, CheckEvaluated, TaskOver, TaskUnavailable, TaskRequesting, Idle
    <2>3. Task = CheckRequests(CurrentCheck)
      BY <2>1 DEF Task, Checking
    <2>4. Reached(CheckRequests(CurrentCheck)) \subseteq Settled
      BY <2>2, <2>3, TaskServed DEF DemandInv
    <2>. QED
      BY <2>1, <2>2, <2>4, ChecksDemanded
  <1>6. CASE Snapshot
    BY <1>6, SnapshotDemanded
  <1>7. CASE TechnicalDone \/ Close \/ Report
    BY <1>7, AfterDemanded
  <1>8. CASE UNCHANGED scanVars
    BY <1>8, StutterDemanded
  <1>. QED
    BY <1>1, <1>2, <1>3, <1>4, <1>5, <1>6, <1>7, <1>8 DEF ScanNext

LEMMA InitDemanded == ScanInit => DemandInv
PROOF
  <1>. SUFFICES ASSUME ScanInit PROVE DemandInv
    OBVIOUS
  <1>1. Settled = {} /\ stack = <<>> /\ Len(stack) = 0 /\ phase = "start" /\ tpc = 1 /\ Len(Task) = 0
    BY DEF ScanInit, Settled, Task
  <1>2. Running = {}
    BY <1>1, NothingRuns
  <1>3. Worked
    BY <1>1 DEF Worked, Complete
  <1>4. PhasesServed /\ Snapshotted
    BY <1>1 DEF PhasesServed, Snapshotted, Before, After, Finished
  <1>. QED
    BY <1>1, <1>2, <1>3, <1>4 DEF DemandInv

\* Whoever asked for what is there: the invariant of GatheringAccounted.
THEOREM DemandInvariance == ScanSpec => []DemandInv
PROOF BY InitDemanded, NextDemanded, ScanInvariance, PTL DEF ScanSpec

\* The report accounts for every gatherer that ran and every one that failed:
\* the selection's metrics are its own whether or not the Technical pass ran,
\* that pass is charged with what only it met, and nothing ran unasked.
THEOREM GatheringIsAccounted == ScanSpec => []GatheringAccounted
PROOF
  <1>1. ScanInv /\ DemandInv => GatheringAccounted
    <2>. SUFFICES ASSUME ScanInv, DemandInv PROVE GatheringAccounted
      OBVIOUS
    <2>1. MetricsDescribeSelection /\ TechnicalErrorsDisclosed
      BY DEF MetricsDescribeSelection, TechnicalErrorsDisclosed, Scanned, DemandInv, Snapshotted, After, Finished
    <2>2. ASSUME Scanned PROVE {n \in Names : runs[n] > 0} = TotalDemand
      <3>1. phase \in {"reported", "aborted"} /\ Task = <<>>
        BY <2>2 DEF Scanned, Task
      <3>2. stack = <<>>
        BY <3>1, NoTask DEF ScanInv, EngineInv
      <3>3. Settled = TotalDemand
        BY <3>1, <3>2, TotalServed DEF DemandInv, PhasesServed, Finished, After
      <3>4. Running = {}
        BY <3>2, NothingRuns
      <3>5. \A n \in Names : runs[n] > 0 <=> n \in Settled
        <4>1. \A n \in Names : runs[n] \in Nat
          BY DEF ScanInv, IInv, Typed
        <4>2. \A n \in Names : /\ runs[n] <= 1 /\ (runs[n] = 1 => n \in Settled \/ n \in Running)
                               /\ (n \in Settled => runs[n] = 1)
          BY DEF ScanInv, IInv, Counted
        <4>3. ASSUME NEW n \in Names PROVE runs[n] > 0 <=> n \in Settled
          <5>1. /\ runs[n] \in Nat /\ runs[n] <= 1 /\ (runs[n] = 1 => n \in Settled)
                /\ (n \in Settled => runs[n] = 1)
            BY <3>4, <4>1, <4>2
          <5>2. runs[n] = 0 \/ runs[n] = 1
            BY <5>1
          <5>. QED
            BY <5>1, <5>2
        <4>. QED
          BY <4>3
      <3>6. Settled \subseteq Names
        BY DEF ScanInv, IInv, Typed, Settled
      <3>. QED
        BY <3>3, <3>5, <3>6
    <2>. QED
      BY <2>1, <2>2 DEF GatheringAccounted, GathersOnDemand
  <1>. QED
    BY <1>1, ScanInvariance, DemandInvariance, PTL

-----------------------------------------------------------------------------
(* The rating. Every gatherer that sends requests runs once, so a budget for *)
(* as many as there are is never spent before the last one is done.          *)

\* The time budget covers every gatherer that sends requests.
BudgetCovers == Cardinality(Network) <= Budget

\* The Technical pass asks for all it reads (evidence_from_store only uses
\* try_get), it never looks at what others happened to gather.
RatingAsks == \A i \in 1..Len(TechnicalProgram) : TechnicalProgram[i].mode # "gathered"

\* One unit of time for each networked gatherer that is done, each in time.
InTime ==
    /\ spent \in Nat /\ spent <= Cardinality(Network \cap Settled)
    /\ Settled \subseteq answered

RatingInv ==
    /\ InTime
    /\ seen \subseteq DOMAIN data
    /\ RatingIgnoresSelection

\* The budget is not spent while a networked gatherer is still at work.
LEMMA TimeLeft ==
    ASSUME BudgetCovers, InTime, NEW n \in Network, n \notin Settled
    PROVE  /\ spent < Budget
           /\ spent + 1 <= Cardinality(Network \cap (Settled \cup {n}))
PROOF
  <1>. DEFINE done == Network \cap Settled
  <1>1. IsFiniteSet(Network)
    BY GatherersAssumption, FS_Subset
  <1>2. IsFiniteSet(done) /\ Cardinality(done) \in Nat /\ n \notin done /\ done \cup {n} \subseteq Network
    BY <1>1, FS_Subset, FS_CardinalityType
  <1>3. Network \cap (Settled \cup {n}) = done \cup {n}
    OBVIOUS
  <1>4. spent \in Nat /\ spent <= Cardinality(done) /\ Budget \in Nat
    BY GatherersAssumption DEF InTime
  <1>. HIDE DEF done
  <1>5. IsFiniteSet(done \cup {n}) /\ Cardinality(done \cup {n}) = Cardinality(done) + 1
    BY <1>2, FS_AddElement
  <1>6. Cardinality(done \cup {n}) <= Cardinality(Network) /\ Cardinality(Network) \in Nat
    BY <1>1, <1>2, FS_Subset, FS_CardinalityType
  <1>. QED
    BY <1>2, <1>3, <1>4, <1>5, <1>6 DEF BudgetCovers

\* A gatherer that ends is in time.
LEMMA StepInTime ==
    ASSUME BudgetCovers, IInv, InTime, GathererStep
    PROVE  InTime'
PROOF
  <1>1. Step /\ [Next]_vars /\ stack # <<>>
    BY DEF GathererStep, Next, Step, Nest, Hit, Missing, Peek, Propagate, Return, Raise, Requesting
  <1>2. stack \in Seq(Frame) /\ Len(stack) \in Nat \ {0}
    BY <1>1 DEF IInv, Typed
  <1>3. Len(Callers) = Len(stack) - 1
    BY <1>1, <1>2, FrontOf DEF Callers
  <1>. DEFINE finishing == stack' = Callers
              networked == Top.name \in Network
              inTime == spent < Budget
  <1>4. /\ spent' = IF finishing /\ networked /\ inTime THEN spent + 1 ELSE spent
        /\ answered' = IF finishing /\ (~networked \/ inTime)
                       THEN answered \cup {Top.name} ELSE answered
    BY DEF GathererStep
  <1>5. CASE Ends
    <2>1. finishing /\ Settled' = Settled \cup {Top.name}
      BY <1>5 DEF Ends
    <2>2. Top.name \notin Settled
      BY <1>2 DEF IInv, Unsettled, Top
    <2>3. CASE networked
      BY <1>4, <2>1, <2>2, <2>3, TimeLeft DEF InTime
    <2>4. CASE ~networked
      <3>1. Network \cap Settled' = Network \cap Settled
        BY <2>1, <2>4
      <3>. QED
        BY <1>4, <2>1, <2>4, <3>1 DEF InTime
    <2>. QED
      BY <2>3, <2>4
  <1>6. CASE ~Ends
    <2>1. Settled' = Settled /\ Len(stack') \in {Len(stack), Len(stack) + 1}
      <3>1. CASE UNCHANGED <<stack, Settled>>
        BY <3>1
      <3>2. CASE \E n \in Names : Starts(n)
        BY <1>2, <3>2 DEF Starts
      <3>3. CASE Advances
        BY <3>3 DEF Advances
      <3>. QED
        BY <1>1, <1>6, <3>1, <3>2, <3>3, StackStep
    <2>2. ~finishing
      BY <1>2, <1>3, <2>1
    <2>. QED
      BY <1>4, <2>1, <2>2 DEF InTime
  <1>. QED
    BY <1>5, <1>6

LEMMA NextRated ==
    ASSUME BudgetCovers, RatingAsks, ScanInv, ScanInv', RatingInv, [ScanNext]_scanVars
    PROVE  RatingInv'
PROOF
  <1>. USE DEF ScanInv, EngineInv
  <1>1. [Next]_vars
    BY ScanStepsStore
  <1>2. DOMAIN data \subseteq DOMAIN data' /\ fate' = fate
    BY <1>1, StoreGrows
  <1>3. \A program : Reached(program)' = Reached(program)
    BY <1>2, ClosureFixed
  <1>4. CASE GathererStep
    <2>1. InTime'
      BY <1>4, StepInTime DEF RatingInv
    <2>2. UNCHANGED <<seen, readiness, rated>>
      BY <1>4 DEF GathererStep, engine, progress, technical
    <2>. QED
      BY <1>2, <1>3, <2>1, <2>2 DEF RatingInv, RatingIgnoresSelection
  <1>5. CASE TaskCall
    <2>1. UNCHANGED <<data, errors, spent, answered, seen, readiness, rated>>
      BY <1>5 DEF TaskCall, Call, Run, engine, progress, technical, time
    <2>2. Settled' = Settled
      BY <2>1 DEF Settled
    <2>. QED
      BY <1>2, <1>3, <2>1, <2>2 DEF RatingInv, RatingIgnoresSelection, InTime
  <1>6. CASE TaskAnswer
    <2>1. /\ UNCHANGED <<data, errors, spent, answered, readiness, rated>>
          /\ seen' = seen \cup (DOMAIN data \cap {TaskRequest.name})
      BY <1>6 DEF TaskAnswer, vars, time, technical
    <2>2. Settled' = Settled
      BY <2>1 DEF Settled
    <2>. QED
      BY <1>2, <1>3, <2>1, <2>2 DEF RatingInv, RatingIgnoresSelection, InTime
  <1>7. CASE TechnicalDone
    <2>1. /\ UNCHANGED <<data, errors, spent, answered>> /\ seen' = {}
          /\ readiness' = IF "technical" \in faults THEN "failed" ELSE "computed"
          /\ rated' = IF "technical" \in faults THEN {} ELSE seen \cap answered
          /\ phase = "technical" /\ TaskOver
      BY <1>7 DEF TechnicalDone, Enter, vars, time
    <2>2. Settled' = Settled
      BY <2>1 DEF Settled
    <2>3. seen \cap answered = seen
      BY DEF RatingInv, InTime, Settled
    <2>4. Task = TechnicalProgram
      BY <2>1 DEF Task
    <2>5. \A i \in 1..Len(Task) : i < tpc
      BY <2>1, TaskIsProgram DEF TaskOver, EngineTyped
    <2>6. \A i \in 1..Len(Task) : /\ Task[i].mode # "gathered"
                                  /\ Task[i].mode = "get" => fate[Task[i].name]
                                  /\ Task[i].name \in seen <=> fate[Task[i].name]
      BY <2>4, <2>5 DEF RatingAsks, SeenExactly
    <2>7. seen = {n \in Reached(Task) : fate[n]}
      <3>1. \A n \in seen : fate[n] /\ \E i \in 1..Len(Task) : Task[i].name = n
        BY DEF SeenExactly
      <3>2. ASSUME NEW i \in 1..Len(Task) PROVE Task[i].name \in Reached(Task)
        <4>1. 1..(i - 1) \subseteq 1..Len(Task)
          BY TaskIsProgram
        <4>. QED
          BY <2>6, <4>1 DEF Reached
      <3>3. \A n \in Reached(Task) : \E i \in 1..Len(Task) : Task[i].name = n
        BY DEF Reached
      <3>. QED
        BY <2>6, <3>1, <3>2, <3>3
    <2>8. InTime' /\ seen' \subseteq DOMAIN data'
      BY <2>1, <2>2 DEF RatingInv, InTime
    <2>. QED
      BY <1>2, <1>3, <2>1, <2>3, <2>4, <2>7, <2>8 DEF RatingInv, RatingIgnoresSelection
  <1>8. CASE \/ Start \/ EntryDone \/ ProfileDone \/ ProfileRaises \/ SkipCheck \/ CheckNotApplicable
             \/ CheckUnavailable \/ CheckEvaluated \/ Snapshot \/ Close \/ Report
    <2>1. UNCHANGED <<data, errors, spent, answered, readiness, rated>> /\ seen' = {}
      BY <1>8 DEF Start, EntryDone, ProfileDone, ProfileRaises, SkipCheck, CheckNotApplicable, CheckUnavailable,
                  CheckEvaluated, Snapshot, Close, Report, Conclude, Enter, vars, time, technical
    <2>2. Settled' = Settled
      BY <2>1 DEF Settled
    <2>. QED
      BY <1>2, <1>3, <2>1, <2>2 DEF RatingInv, RatingIgnoresSelection, InTime
  <1>9. CASE UNCHANGED scanVars
    <2>1. UNCHANGED <<data, errors, spent, answered, seen, readiness, rated>>
      BY <1>9 DEF scanVars, vars, engine, progress, technical, time
    <2>2. Settled' = Settled
      BY <2>1 DEF Settled
    <2>. QED
      BY <1>2, <1>3, <2>1, <2>2 DEF RatingInv, RatingIgnoresSelection, InTime
  <1>. QED
    BY <1>4, <1>5, <1>6, <1>7, <1>8, <1>9 DEF ScanNext

LEMMA InitRated == ScanInit => RatingInv
PROOF
  <1>. SUFFICES ASSUME ScanInit PROVE RatingInv
    OBVIOUS
  <1>1. Settled = {} /\ spent = 0 /\ seen = {} /\ readiness = "off"
    BY DEF ScanInit, Settled
  <1>2. Network \cap Settled = {}
    BY <1>1
  <1>3. Cardinality(Network \cap Settled) = 0
    BY <1>2, FS_EmptySet
  <1>. QED
    BY <1>1, <1>3 DEF RatingInv, InTime, RatingIgnoresSelection

\* As long as the time budget covers every gatherer that sends requests, the
\* rating is computed from the same evidence under every selection of checks:
\* all the Technical pass asks for that can be gathered.
THEOREM RatingOwn ==
    ASSUME BudgetCovers, RatingAsks
    PROVE  ScanSpec => []RatingIgnoresSelection
PROOF
  <1>1. ScanInv /\ ScanInv' /\ RatingInv /\ [ScanNext]_scanVars => RatingInv'
    BY NextRated
  <1>2. RatingInv => RatingIgnoresSelection
    BY DEF RatingInv
  <1>. QED
    BY <1>1, <1>2, InitRated, ScanInvariance, PTL DEF ScanSpec
=============================================================================
