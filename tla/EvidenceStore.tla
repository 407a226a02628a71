--------------------------- MODULE EvidenceStore ---------------------------
(***************************************************************************)
(* The evidence store of one scan (scovant_core/evidence.py).              *)
(*                                                                         *)
(* A gatherer is a function registered under a name; it may ask the store  *)
(* for other evidence while it runs, so a request nests: the store is a    *)
(* memo table driven by a call stack.  Three kinds of request exist:       *)
(*                                                                         *)
(*   get       the evidence, or EvidenceUnavailable raised into the caller *)
(*   try_get   the evidence, or None                                       *)
(*   gathered  the evidence if it is already there, else None; never runs  *)
(*             anything                                                    *)
(*                                                                         *)
(* What a gatherer does between two requests (fetching, parsing) is        *)
(* abstracted to one bit, sound[n]: whether its own code returns or raises *)
(* once its requests are answered.  The sites of the code make their       *)
(* requests first and fetch afterwards.                                    *)
(***************************************************************************)
EXTENDS Naturals, Sequences

CONSTANTS
    Names,      \* the registered gatherers, the keys of GATHERERS
    Program,    \* Program[n]: the requests gatherer n makes, in order
    Rank        \* a numbering that no get or try_get request climbs

Modes == {"get", "try_get", "gathered"}

\* A gathered request may name evidence nobody registers (it answers None);
\* get and try_get may not (GATHERERS[name] would be a KeyError).
ASSUME ProgramAssumption ==
    \A n \in Names :
        /\ Program[n] \in Seq([mode : Modes, name : STRING])
        /\ \A i \in 1..Len(Program[n]) :
              Program[n][i].mode # "gathered" => Program[n][i].name \in Names

\* The request graph of the gatherers is acyclic.
ASSUME RankAssumption ==
    /\ Rank \in [Names -> Nat]
    /\ \A n \in Names : \A i \in 1..Len(Program[n]) :
          Program[n][i].mode # "gathered" => Rank[Program[n][i].name] < Rank[n]

VARIABLES
    sound,      \* sound[n]: does n's own code return once it has its evidence?
    data,       \* _data: what each finished gatherer returned, abstracted to
                \*        the set of evidence it could read
    errors,     \* errors: why each failed gatherer failed
    stack,      \* the running gatherers, outermost first
    runs,       \* how many times each gatherer's function was called
    fate        \* specification variable: fate[n] is whether n's evidence is
                \*        obtainable at all, the solution of Obtainable below

world == <<sound, fate>>
vars == <<sound, data, errors, stack, runs, fate>>

-----------------------------------------------------------------------------
Settled == DOMAIN data \cup DOMAIN errors

Frame == [name : Names, pc : Nat \ {0}, read : SUBSET Names]

Entered(n) == [name |-> n, pc |-> 1, read |-> {}]

Top == stack[Len(stack)]
Callers == SubSeq(stack, 1, Len(stack) - 1)

Extend(f, n, v) == [x \in DOMAIN f \cup {n} |-> IF x = n THEN v ELSE f[x]]

Asks(n, mode) == {Program[n][i].name : i \in {j \in 1..Len(Program[n]) : Program[n][j].mode = mode}}

\* What can be gathered at all: n's own code is sound and everything it
\* requires with get can be gathered.  Acyclic, so there is one solution.
Obtainable(f) == \A n \in Names : f[n] <=> sound[n] /\ \A d \in Asks(n, "get") : f[d]

-----------------------------------------------------------------------------
Init ==
    /\ sound \in [Names -> BOOLEAN]
    /\ fate \in [Names -> BOOLEAN]
    /\ Obtainable(fate)
    /\ data = <<>>
    /\ errors = <<>>
    /\ stack = <<>>
    /\ runs = [n \in Names |-> 0]

\* Mutant of Run: failed evidence is gathered again.
RunFailedAgain(n) ==
    /\ n \notin DOMAIN data
    /\ stack' = Append(stack, Entered(n))
    /\ runs' = [runs EXCEPT ![n] = @ + 1]
    /\ UNCHANGED <<world, data, errors>>

\* Mutant of Run: the memo table is not consulted.
RunGatheredAgain(n) ==
    /\ n \notin DOMAIN errors
    /\ stack' = Append(stack, Entered(n))
    /\ runs' = [runs EXCEPT ![n] = @ + 1]
    /\ UNCHANGED <<world, data, errors>>

\* fn(self.client, self.ctx, self): n's function starts.
Run(n) ==
    /\ n \notin Settled
    /\ stack' = Append(stack, Entered(n))
    /\ runs' = [runs EXCEPT ![n] = @ + 1]
    /\ UNCHANGED <<world, data, errors>>

\* A check, the profile detector or the Technical pass asks for n.  When n is
\* settled the store answers from its tables and nothing changes.
Call(n) ==
    /\ stack = <<>>
    /\ Run(n)

\* The request the innermost running gatherer is at.
Requesting == stack # <<>> /\ Top.pc <= Len(Program[Top.name])
Request == Program[Top.name][Top.pc]

\* All its requests are answered and the innermost gatherer is in its own code.
InOwnCode == stack # <<>> /\ ~Requesting

\* The request is answered, with the evidence when it is there.
Answer ==
    /\ stack' = [stack EXCEPT ![Len(stack)].pc = @ + 1,
                              ![Len(stack)].read = @ \cup (DOMAIN data \cap {Request.name})]
    /\ UNCHANGED <<world, data, errors, runs>>

\* get or try_get of evidence nobody asked for yet: its gatherer runs now.
Nest ==
    /\ Requesting
    /\ Request.mode # "gathered"
    /\ Run(Request.name)

\* The evidence is there: any request returns it.
Hit ==
    /\ Requesting
    /\ Request.name \in DOMAIN data
    /\ Answer

\* Mutant of Missing: get answers None instead of raising.
MissingForGet ==
    /\ Requesting
    /\ Request.mode # "gathered"
    /\ Request.name \in DOMAIN errors
    /\ Answer

\* try_get swallows EvidenceUnavailable.
Missing ==
    /\ Requesting
    /\ Request.mode = "try_get"
    /\ Request.name \in DOMAIN errors
    /\ Answer

\* Mutant of Peek: try_get does not gather.
PeekForTryGet ==
    /\ Requesting
    /\ Request.mode # "get"
    /\ Request.name \notin DOMAIN data
    /\ Answer

\* gathered never runs anything: absent evidence is None.
Peek ==
    /\ Requesting
    /\ Request.mode = "gathered"
    /\ Request.name \notin DOMAIN data
    /\ Answer

\* Mutant of Fail: a gatherer that raised is called again, until it returns.
FailRetries(kind) ==
    /\ stack' = [stack EXCEPT ![Len(stack)] = Entered(Top.name)]
    /\ UNCHANGED <<world, data, errors, runs>>

\* The innermost gatherer ends in an exception of the given kind: the store
\* records it and raises EvidenceUnavailable to the caller.
Fail(kind) ==
    /\ errors' = Extend(errors, Top.name, kind)
    /\ stack' = Callers
    /\ UNCHANGED <<world, data, runs>>

\* Mutant of Propagate: try_get lets EvidenceUnavailable through.
PropagateTryGet ==
    /\ Requesting
    /\ Request.mode \in {"get", "try_get"}
    /\ Request.name \in DOMAIN errors
    /\ Fail("EvidenceUnavailable")

\* get raised EvidenceUnavailable inside the gatherer, which does not catch it.
Propagate ==
    /\ Requesting
    /\ Request.mode = "get"
    /\ Request.name \in DOMAIN errors
    /\ Fail("EvidenceUnavailable")

Return ==
    /\ stack # <<>> /\ ~Requesting
    /\ sound[Top.name]
    /\ data' = Extend(data, Top.name, Top.read)
    /\ stack' = Callers
    /\ UNCHANGED <<world, errors, runs>>

Raise ==
    /\ stack # <<>> /\ ~Requesting
    /\ ~sound[Top.name]
    /\ Fail("own")

Step == Nest \/ Hit \/ Missing \/ Peek \/ Propagate \/ Return \/ Raise

Next == Step \/ \E n \in Names : Call(n)

\* The scan is one thread, so the store never waits to answer a request.  What
\* a gatherer does in its own code is outside this fairness: it fetches, and
\* nothing in the store bounds how long that takes.
Spec == Init /\ [][Next]_vars /\ WF_vars(Requesting /\ Step)

-----------------------------------------------------------------------------
(* Properties *)

\* Shape of the state: the tables of the store, its call stack and counters.
TypeOK ==
    /\ sound \in [Names -> BOOLEAN]
    /\ fate \in [Names -> BOOLEAN]
    /\ DOMAIN data \subseteq Names /\ DOMAIN errors \subseteq Names
    /\ \A n \in DOMAIN data : data[n] \subseteq Names
    /\ \A n \in DOMAIN errors : errors[n] \in {"own", "EvidenceUnavailable"}
    /\ stack \in Seq(Frame)
    /\ runs \in [Names -> Nat]

\* "Each gatherer runs at most once per scan": not per caller, not again after
\* a failure, and not re-entrantly while it is already running.
AtMostOnce == \A n \in Names : runs[n] <= 1

\* Whether evidence is available does not depend on who asked first or in what
\* order: it is decided by the gatherers' own soundness alone.
OrderIndependent ==
    /\ \A n \in DOMAIN data : fate[n]
    /\ \A n \in DOMAIN errors : ~fate[n]

\* Every recorded failure has a recorded cause: an EvidenceUnavailable leads to
\* failed evidence the gatherer required, and an own failure happened with all
\* required evidence there.
FailureExplained ==
    \A n \in DOMAIN errors :
        IF errors[n] = "own"
        THEN ~sound[n] /\ Asks(n, "get") \subseteq DOMAIN data
        ELSE \E d \in Asks(n, "get") : d \in DOMAIN errors

\* A gatherer that never peeks returns the same evidence whenever it runs: it
\* has read exactly what can be gathered of what it asks for.
ReadsDetermined ==
    \A n \in DOMAIN data :
        Asks(n, "gathered") = {} =>
            data[n] = {d \in Asks(n, "get") \cup Asks(n, "try_get") : fate[d]}

\* What the store has answered stays answered the same way.
Stable ==
    [][ /\ \A n \in DOMAIN data : n \in DOMAIN data' /\ data'[n] = data[n]
        /\ \A n \in DOMAIN errors : n \in DOMAIN errors' /\ errors'[n] = errors[n]
        /\ DOMAIN data' \cap DOMAIN errors' = {} ]_vars

\* Every request is answered, whatever fails: the nesting of gatherers unwinds,
\* and nothing but the own code of one gatherer can hold it up.
Answered == \A n \in Names : runs[n] > 0 ~> (n \in Settled \/ []InOwnCode)

\* The store implements the ledger: evidence settles once, dependencies first.
Ledger == INSTANCE EvidenceLedger WITH
    Required <- [n \in Names |-> Asks(n, "get")],
    verdict <- [n \in Names |-> IF n \in DOMAIN data THEN "available"
                                ELSE IF n \in DOMAIN errors THEN "unavailable" ELSE "unknown"]

ImplementsLedger == Ledger!Spec
=============================================================================
