------------------------ MODULE EvidenceStoreProofs ------------------------
(***************************************************************************)
(* Proofs about the evidence store, for every set of gatherers and every   *)
(* acyclic request graph.                                                  *)
(*                                                                         *)
(* AtMostOnce is not inductive: a gatherer that is already running could   *)
(* be entered again through a cycle of requests.  The invariant therefore  *)
(* carries the reason it cannot: ranks fall strictly along the call stack, *)
(* so a request always leads to a gatherer that is not on it.              *)
(***************************************************************************)
EXTENDS EvidenceStore, SequenceTheorems, TLAPS

Running == {stack[i].name : i \in 1..Len(stack)}

\* Shape of the state, without the call stack's history.
Typed ==
    /\ sound \in [Names -> BOOLEAN]
    /\ fate \in [Names -> BOOLEAN]
    /\ DOMAIN data \subseteq Names
    /\ DOMAIN errors \subseteq Names
    /\ \A n \in DOMAIN data : data[n] \subseteq Names
    /\ \A n \in DOMAIN errors : errors[n] \in {"own", "EvidenceUnavailable"}
    /\ stack \in Seq(Frame)
    /\ runs \in [Names -> Nat]

\* Requests only go down in rank.
Descending ==
    \A i, j \in 1..Len(stack) : i < j => Rank[stack[j].name] < Rank[stack[i].name]

\* A running gatherer has no result yet.
Unsettled == \A i \in 1..Len(stack) : stack[i].name \notin Settled

\* The counter tells whether a gatherer was ever started.
Counted ==
    \A n \in Names :
        /\ runs[n] <= 1
        /\ runs[n] = 1 => n \in Settled \/ n \in Running
        /\ n \in Settled \/ n \in Running => runs[n] = 1

\* A gatherer past a get request has that evidence.
HasRequired ==
    \A i \in 1..Len(stack) : \A k \in 1..Len(Program[stack[i].name]) :
        k < stack[i].pc /\ Program[stack[i].name][k].mode = "get"
            => Program[stack[i].name][k].name \in DOMAIN data

IInv ==
    /\ Typed
    /\ Descending
    /\ Unsettled
    /\ Counted
    /\ HasRequired
    /\ Obtainable(fate)
    /\ OrderIndependent
    /\ FailureExplained
-----------------------------------------------------------------------------
\* The request a running gatherer is at is one of its program's.
LEMMA RequestTyped ==
    ASSUME Typed, Requesting
    PROVE  /\ Len(stack) \in Nat \ {0}
           /\ Top \in Frame
           /\ Top.pc \in 1..Len(Program[Top.name])
           /\ Top.name \in Names
PROOF
  <1>1. stack # <<>> /\ stack \in Seq(Frame)
    BY DEF Requesting, Typed
  <1>2. Len(stack) \in Nat \ {0}
    BY <1>1
  <1>3. Top \in Frame
    BY <1>1, <1>2 DEF Top
  <1>. QED
    BY <1>2, <1>3, ProgramAssumption DEF Frame, Requesting

-----------------------------------------------------------------------------
\* Starting a gatherer that ranks below everything that runs keeps the
\* invariant: it cannot be one of the running ones.
LEMMA RunKeeps ==
    ASSUME IInv, NEW n \in Names, Run(n),
           \A i \in 1..Len(stack) : Rank[n] < Rank[stack[i].name]
    PROVE  IInv'
PROOF
  <1>. USE DEF IInv
  <1>1. stack \in Seq(Frame) /\ Entered(n) \in Frame
    BY DEF Typed, Entered, Frame
  <1>2. /\ stack' = Append(stack, Entered(n))
        /\ stack' \in Seq(Frame)
        /\ Len(stack') = Len(stack) + 1
        /\ Len(stack) \in Nat
        /\ \A i \in 1..Len(stack) : stack'[i] = stack[i]
        /\ stack'[Len(stack) + 1] = Entered(n)
    BY <1>1 DEF Run
  <1>3. UNCHANGED <<sound, fate, data, errors>> /\ n \notin Settled
    BY DEF Run, world
  <1>4. \A i \in 1..Len(stack) : stack[i] \in Frame /\ Rank[stack[i].name] \in Nat
    <2>1. \A i \in 1..Len(stack) : stack[i] \in Frame
      BY <1>1
    <2>. QED
      BY <2>1, RankAssumption DEF Frame
  <1>5. n \notin Running
    BY <1>4, RankAssumption DEF Running
  <1>6. runs' = [runs EXCEPT ![n] = @ + 1]
    BY DEF Run
  <1>7. Typed'
    BY <1>2, <1>3, <1>6 DEF Typed
  <1>8. Descending'
    <2>. SUFFICES ASSUME NEW i \in 1..(Len(stack) + 1), NEW j \in 1..(Len(stack) + 1), i < j
                  PROVE  Rank[stack'[j].name] < Rank[stack'[i].name]
      BY <1>2 DEF Descending
    <2>1. i \in 1..Len(stack)
      BY <1>2
    <2>2. CASE j = Len(stack) + 1
      BY <2>1, <2>2, <1>2 DEF Entered
    <2>3. CASE j \in 1..Len(stack)
      BY <2>1, <2>3, <1>2 DEF Descending
    <2>. QED
      BY <1>2, <2>2, <2>3
  <1>9. Unsettled'
    <2>. SUFFICES ASSUME NEW i \in 1..(Len(stack) + 1)
                  PROVE  stack'[i].name \notin Settled
      BY <1>2, <1>3 DEF Unsettled, Settled
    <2>1. CASE i \in 1..Len(stack)
      BY <2>1, <1>2 DEF Unsettled
    <2>2. CASE i = Len(stack) + 1
      BY <2>2, <1>2, <1>3 DEF Entered
    <2>. QED
      BY <1>2, <2>1, <2>2
  <1>10. Running' = Running \cup {n}
    <2>1. Running' = {stack'[i].name : i \in 1..(Len(stack) + 1)}
      BY <1>2 DEF Running
    <2>2. 1..(Len(stack) + 1) = 1..Len(stack) \cup {Len(stack) + 1}
      BY <1>2
    <2>3. stack'[Len(stack) + 1].name = n
      BY <1>2 DEF Entered
    <2>. QED
      BY <1>2, <2>1, <2>2, <2>3 DEF Running
  <1>11. Counted'
    <2>1. Settled' = Settled
      BY <1>3 DEF Settled
    <2>2. runs[n] = 0
      BY <1>3, <1>5 DEF Counted, Typed
    <2>. QED
      BY <1>6, <1>10, <2>1, <2>2 DEF Counted, Typed
  <1>12. HasRequired'
    <2>. SUFFICES ASSUME NEW i \in 1..(Len(stack) + 1),
                         NEW k \in 1..Len(Program[stack'[i].name]),
                         k < stack'[i].pc,
                         Program[stack'[i].name][k].mode = "get"
                  PROVE  Program[stack'[i].name][k].name \in DOMAIN data
      BY <1>2, <1>3 DEF HasRequired
    <2>1. CASE i \in 1..Len(stack)
      BY <2>1, <1>2 DEF HasRequired
    <2>2. CASE i = Len(stack) + 1
      <3>1. stack'[i].pc = 1 /\ stack'[i].name = n
        BY <2>2, <1>2 DEF Entered
      <3>2. Len(Program[n]) \in Nat
        BY ProgramAssumption
      <3>. QED
        BY <3>1, <3>2
    <2>. QED
      BY <1>2, <2>1, <2>2
  <1>. QED
    BY <1>3, <1>7, <1>8, <1>9, <1>11, <1>12 DEF Obtainable, OrderIndependent, FailureExplained, Asks

-----------------------------------------------------------------------------
\* Answering a request the running gatherer can go on from keeps the
\* invariant: a get request is only answered with the evidence.
LEMMA AnswerKeeps ==
    ASSUME IInv, Requesting, Answer,
           Request.mode = "get" => Request.name \in DOMAIN data
    PROVE  IInv'
PROOF
  <1>1. Typed
    BY DEF IInv
  <1>2. /\ stack \in Seq(Frame)
        /\ Len(stack) \in Nat \ {0}
        /\ Top \in Frame
        /\ Top = stack[Len(stack)]
    BY <1>1, RequestTyped DEF Typed, Top
  <1>3. UNCHANGED <<sound, fate, data, errors, runs>>
    BY DEF Answer, world
  <1>. DEFINE moved == [Top EXCEPT !.pc = @ + 1, !.read = @ \cup (DOMAIN data \cap {Request.name})]
  <1>4. moved \in Frame
    <2>1. Top.read \cup (DOMAIN data \cap {Request.name}) \in SUBSET Names
      BY <1>1, <1>2 DEF Frame, Typed
    <2>2. Top.pc + 1 \in Nat \ {0}
      BY <1>2 DEF Frame
    <2>. QED
      BY <1>2, <2>1, <2>2 DEF Frame
  <1>5. stack' = [stack EXCEPT ![Len(stack)] = moved]
    BY <1>2 DEF Answer
  <1>. HIDE DEF moved
  <1>6. /\ stack' \in Seq(Frame)
        /\ Len(stack') = Len(stack)
        /\ stack'[Len(stack)] = moved
        /\ \A i \in 1..Len(stack) : i # Len(stack) => stack'[i] = stack[i]
    BY <1>2, <1>4, <1>5, ExceptSeq
  <1>7. moved.name = Top.name /\ moved.pc = Top.pc + 1
    BY <1>2 DEF Frame, moved
  <1>8. \A i \in 1..Len(stack) : stack'[i].name = stack[i].name
    BY <1>2, <1>6, <1>7
  <1>9. Typed'
    BY <1>1, <1>3, <1>6 DEF Typed
  <1>10. Settled' = Settled /\ Running' = Running
    BY <1>3, <1>6, <1>8 DEF Settled, Running
  <1>11. Descending' /\ Unsettled' /\ Counted'
    BY <1>3, <1>6, <1>8, <1>10 DEF IInv, Descending, Unsettled, Counted
  <1>12. HasRequired'
    <2>. SUFFICES ASSUME NEW i \in 1..Len(stack),
                         NEW k \in 1..Len(Program[stack[i].name]),
                         k < stack'[i].pc,
                         Program[stack[i].name][k].mode = "get"
                  PROVE  Program[stack[i].name][k].name \in DOMAIN data
      BY <1>3, <1>6, <1>8 DEF HasRequired
    <2>1. CASE k < stack[i].pc
      BY <2>1 DEF IInv, HasRequired
    <2>2. CASE ~(k < stack[i].pc)
      <3>1. i = Len(stack) /\ k < Top.pc + 1
        BY <2>2, <1>2, <1>6, <1>7
      <3>2. k = Top.pc
        BY <3>1, <2>2, <1>2 DEF Frame
      <3>. QED
        BY <3>1, <3>2, <1>2 DEF Request
    <2>. QED
      BY <2>1, <2>2
  <1>. QED
    BY <1>3, <1>9, <1>11, <1>12 DEF IInv, Obtainable, OrderIndependent, FailureExplained, Asks

-----------------------------------------------------------------------------
\* Popping a stack keeps what is under its top.
LEMMA FrontOf ==
    ASSUME NEW S, NEW s \in Seq(S), s # <<>>
    PROVE  /\ SubSeq(s, 1, Len(s) - 1) \in Seq(S)
           /\ Len(SubSeq(s, 1, Len(s) - 1)) = Len(s) - 1
           /\ \A i \in 1..(Len(s) - 1) : SubSeq(s, 1, Len(s) - 1)[i] = s[i]
PROOF
  <1>1. Len(s) \in Nat \ {0}
    OBVIOUS
  <1>2. \A i \in 1..(Len(s) - 1) : i \in 1..Len(s)
    BY <1>1
  <1>3. \A i \in 1..(Len(s) - 1) : s[i] \in S
    BY <1>2
  <1>. DEFINE m == Len(s) - 1
  <1>4. m \in Int /\ 1 \in Int /\ m \in Nat
    BY <1>1
  <1>5. \A i \in 1..m : s[i] \in S
    BY <1>3
  <1>. HIDE DEF m
  <1>6. /\ SubSeq(s, 1, m) \in Seq(S)
        /\ Len(SubSeq(s, 1, m)) = IF 1 <= m THEN m - 1 + 1 ELSE 0
        /\ \A i \in 1..(m - 1 + 1) : SubSeq(s, 1, m)[i] = s[1 + i - 1]
    BY <1>4, <1>5, SubSeqProperties
  <1>7. Len(SubSeq(s, 1, m)) = m
    BY <1>4, <1>6
  <1>8. \A i \in 1..m : SubSeq(s, 1, m)[i] = s[i]
    BY <1>4, <1>6
  <1>. QED
    BY <1>6, <1>7, <1>8 DEF m

-----------------------------------------------------------------------------
\* What the innermost gatherer leaves behind when it ends, however it ends: it
\* is settled, its callers go on where they were.
LEMMA PopKeeps ==
    ASSUME IInv, stack # <<>>, stack' = Callers,
           Settled' = Settled \cup {Top.name},
           DOMAIN data \subseteq DOMAIN data',
           runs' = runs
    PROVE  /\ Top \in Frame
           /\ Top.name \in Names
           /\ Top.name \notin Settled
           /\ stack' \in Seq(Frame)
           /\ Descending'
           /\ Unsettled'
           /\ Counted'
           /\ HasRequired'
PROOF
  <1>1. stack \in Seq(Frame)
    BY DEF IInv, Typed
  <1>2. Len(stack) \in Nat \ {0}
    BY <1>1
  <1>3. /\ stack' \in Seq(Frame)
        /\ Len(stack') = Len(stack) - 1
        /\ \A i \in 1..(Len(stack) - 1) : stack'[i] = stack[i]
    BY <1>1, FrontOf DEF Callers
  <1>4. Top \in Frame /\ Top.name \in Names
    <2>1. Top \in Frame
      BY <1>1, <1>2 DEF Top
    <2>. QED
      BY <2>1 DEF Frame
  <1>5. Top.name \notin Settled
    BY <1>2 DEF IInv, Unsettled, Top
  <1>6. \A i \in 1..(Len(stack) - 1) : stack[i].name # Top.name
    <2>. SUFFICES ASSUME NEW i \in 1..(Len(stack) - 1)
                  PROVE  stack[i].name # Top.name
      OBVIOUS
    <2>1. i \in 1..Len(stack) /\ Len(stack) \in 1..Len(stack) /\ i < Len(stack)
      BY <1>2
    <2>2. Rank[Top.name] < Rank[stack[i].name]
      BY <2>1 DEF IInv, Descending, Top
    <2>3. Rank[Top.name] \in Nat
      BY <1>4, RankAssumption
    <2>. QED
      BY <2>2, <2>3
  <1>7. Descending'
    BY <1>2, <1>3 DEF IInv, Descending
  <1>8. Unsettled'
    BY <1>2, <1>3, <1>6 DEF IInv, Unsettled
  <1>9. Running = Running' \cup {Top.name}
    <2>1. 1..Len(stack) = 1..(Len(stack) - 1) \cup {Len(stack)}
      BY <1>2
    <2>2. Running' = {stack[i].name : i \in 1..(Len(stack) - 1)}
      BY <1>2, <1>3 DEF Running
    <2>. QED
      BY <2>1, <2>2 DEF Running, Top
  <1>10. Counted'
    BY <1>9 DEF IInv, Counted
  <1>11. HasRequired'
    BY <1>2, <1>3 DEF IInv, HasRequired
  <1>. QED
    BY <1>3, <1>4, <1>5, <1>7, <1>8, <1>10, <1>11

-----------------------------------------------------------------------------
\* A gatherer that is through its program has everything it required.
LEMMA PassedAll ==
    ASSUME IInv, stack # <<>>, ~Requesting
    PROVE  Asks(Top.name, "get") \subseteq DOMAIN data
PROOF
  <1>1. stack \in Seq(Frame) /\ Len(stack) \in 1..Len(stack)
    BY DEF IInv, Typed
  <1>2. Top \in Frame /\ Top = stack[Len(stack)]
    BY <1>1 DEF Top
  <1>3. Top.pc \in Nat /\ Top.name \in Names
    BY <1>2 DEF Frame
  <1>4. Len(Program[Top.name]) \in Nat /\ Top.pc > Len(Program[Top.name])
    BY <1>3, ProgramAssumption DEF Requesting
  <1>5. \A k \in 1..Len(Program[Top.name]) : k < Top.pc
    BY <1>3, <1>4
  <1>. QED
    BY <1>1, <1>2, <1>5 DEF IInv, HasRequired, Asks

\* Recording a failure keeps the invariant when the failure has a cause.
LEMMA FailKeeps ==
    ASSUME IInv, stack # <<>>, NEW kind \in {"own", "EvidenceUnavailable"}, Fail(kind),
           ~fate[Top.name],
           kind = "own" => ~sound[Top.name] /\ Asks(Top.name, "get") \subseteq DOMAIN data,
           kind # "own" => \E d \in Asks(Top.name, "get") : d \in DOMAIN errors
    PROVE  IInv'
PROOF
  <1>1. /\ UNCHANGED <<sound, fate, data, runs>>
        /\ stack' = Callers
        /\ errors' = Extend(errors, Top.name, kind)
    BY DEF Fail, world
  <1>2. /\ DOMAIN errors' = DOMAIN errors \cup {Top.name}
        /\ errors'[Top.name] = kind
        /\ \A y \in DOMAIN errors : y # Top.name => errors'[y] = errors[y]
    BY <1>1 DEF Extend
  <1>3. Settled' = Settled \cup {Top.name}
    BY <1>1, <1>2 DEF Settled
  <1>4. /\ Top.name \in Names
        /\ Top.name \notin Settled
        /\ stack' \in Seq(Frame)
        /\ Descending' /\ Unsettled' /\ Counted' /\ HasRequired'
    BY <1>1, <1>3, PopKeeps
  <1>5. Typed'
    BY <1>1, <1>2, <1>4 DEF IInv, Typed
  <1>6. OrderIndependent'
    BY <1>1, <1>2 DEF IInv, OrderIndependent
  <1>7. FailureExplained'
    <2>. SUFFICES ASSUME NEW n \in DOMAIN errors'
                  PROVE  IF errors'[n] = "own"
                         THEN ~sound[n] /\ Asks(n, "get") \subseteq DOMAIN data
                         ELSE \E d \in Asks(n, "get") : d \in DOMAIN errors'
      BY <1>1 DEF FailureExplained, Asks
    <2>1. CASE n = Top.name
      BY <2>1, <1>2
    <2>2. CASE n # Top.name
      BY <2>2, <1>2 DEF IInv, FailureExplained
    <2>. QED
      BY <2>1, <2>2
  <1>8. Obtainable(fate)'
    BY <1>1 DEF IInv, Obtainable, Asks
  <1>. QED
    BY <1>1, <1>4, <1>5, <1>6, <1>7, <1>8 DEF IInv

\* A gatherer that is through its program and sound returns obtainable
\* evidence.
LEMMA ReturnKeeps ==
    ASSUME IInv, Return
    PROVE  IInv'
PROOF
  <1>1. /\ UNCHANGED <<sound, fate, errors, runs>>
        /\ stack' = Callers
        /\ data' = Extend(data, Top.name, Top.read)
        /\ stack # <<>> /\ ~Requesting /\ sound[Top.name]
    BY DEF Return, world
  <1>2. /\ DOMAIN data' = DOMAIN data \cup {Top.name}
        /\ data'[Top.name] = Top.read
        /\ \A y \in DOMAIN data : y # Top.name => data'[y] = data[y]
    BY <1>1 DEF Extend
  <1>3. Settled' = Settled \cup {Top.name}
    BY <1>1, <1>2 DEF Settled
  <1>4. /\ Top \in Frame
        /\ Top.name \in Names
        /\ Top.name \notin Settled
        /\ stack' \in Seq(Frame)
        /\ Descending' /\ Unsettled' /\ Counted' /\ HasRequired'
    BY <1>1, <1>2, <1>3, PopKeeps
  <1>5. Typed'
    <2>1. Top.read \subseteq Names
      BY <1>4 DEF Frame
    <2>. QED
      BY <1>1, <1>2, <1>4, <2>1 DEF IInv, Typed
  <1>6. Asks(Top.name, "get") \subseteq DOMAIN data
    BY <1>1, PassedAll
  <1>7. fate[Top.name]
    BY <1>1, <1>4, <1>6 DEF IInv, Obtainable, OrderIndependent
  <1>8. OrderIndependent'
    BY <1>1, <1>2, <1>7 DEF IInv, OrderIndependent
  <1>9. FailureExplained'
    BY <1>1, <1>2 DEF IInv, FailureExplained, Asks
  <1>10. Obtainable(fate)'
    BY <1>1 DEF IInv, Obtainable, Asks
  <1>. QED
    BY <1>1, <1>4, <1>5, <1>8, <1>9, <1>10 DEF IInv

-----------------------------------------------------------------------------
LEMMA InitIInv == Init => IInv
PROOF
  <1>. SUFFICES ASSUME Init PROVE IInv
    OBVIOUS
  <1>1. DOMAIN data = {} /\ DOMAIN errors = {} /\ stack = <<>> /\ Len(stack) = 0
    BY DEF Init
  <1>2. Settled = {} /\ Running = {}
    BY <1>1 DEF Settled, Running
  <1>3. Typed
    BY <1>1 DEF Init, Typed
  <1>4. Counted
    <2>1. \A n \in Names : runs[n] \in Nat /\ runs[n] = 0
      BY DEF Init
    <2>2. \A n \in Names : n \notin Settled /\ n \notin Running
      BY <1>2
    <2>3. ASSUME NEW n \in Names PROVE runs[n] <= 1 /\ runs[n] # 1
      <3>1. runs[n] = 0
        BY <2>1
      <3>. QED
        BY <3>1
    <2>. QED
      BY <2>2, <2>3 DEF Counted
  <1>5. Obtainable(fate)
    BY DEF Init
  <1>. QED
    BY <1>1, <1>3, <1>4, <1>5 DEF IInv, Descending, Unsettled, HasRequired, OrderIndependent,
                            FailureExplained

LEMMA NextIInv == IInv /\ [Next]_vars => IInv'
PROOF
  <1>. SUFFICES ASSUME IInv, [Next]_vars PROVE IInv'
    OBVIOUS
  <1>1. ASSUME NEW n \in Names, Call(n) PROVE IInv'
    <2>1. Len(stack) = 0 /\ Run(n)
      BY <1>1 DEF Call
    <2>. QED
      BY <2>1, RunKeeps
  <1>2. ASSUME Requesting
        PROVE  /\ Top.name \in Names
               /\ Len(stack) \in Nat \ {0}
               /\ Top.pc \in 1..Len(Program[Top.name])
               /\ Request \in [mode : Modes, name : STRING]
               /\ Request.mode = "get" => Request.name \in Asks(Top.name, "get")
    <2>1. /\ Top.name \in Names /\ Len(stack) \in Nat \ {0}
          /\ Top.pc \in 1..Len(Program[Top.name])
      BY <1>2, RequestTyped DEF IInv
    <2>2. Request \in [mode : Modes, name : STRING]
      <3>1. Program[Top.name] \in Seq([mode : Modes, name : STRING])
        BY <2>1, ProgramAssumption
      <3>. QED
        BY <2>1, <3>1, ElementOfSeq DEF Request
    <2>3. Request.mode = "get" => Request.name \in Asks(Top.name, "get")
      BY <2>1 DEF Request, Asks
    <2>. QED
      BY <2>1, <2>2, <2>3
  <1>3. CASE Nest
    <2>1. Requesting /\ Run(Request.name) /\ Request.mode # "gathered"
      BY <1>3 DEF Nest
    <2>2. Request.name \in Names /\ Rank[Request.name] < Rank[Top.name]
      BY <1>2, <2>1, ProgramAssumption, RankAssumption DEF Request
    <2>3. ASSUME NEW i \in 1..Len(stack) PROVE Rank[Request.name] < Rank[stack[i].name]
      <3>1. Len(stack) \in 1..Len(stack) /\ stack \in Seq(Frame)
        BY <1>2, <2>1 DEF IInv, Typed
      <3>2. stack[i] \in Frame
        BY <3>1
      <3>3. Rank[stack[i].name] \in Nat /\ Rank[Request.name] \in Nat /\ Rank[Top.name] \in Nat
        BY <1>2, <2>1, <2>2, <3>2, RankAssumption DEF Frame
      <3>4. CASE i = Len(stack)
        BY <2>2, <3>4 DEF Top
      <3>5. CASE i < Len(stack)
        <4>1. Rank[Top.name] < Rank[stack[i].name]
          BY <3>1, <3>5 DEF IInv, Descending, Top
        <4>. QED
          BY <2>2, <3>3, <4>1
      <3>. QED
        BY <3>1, <3>4, <3>5
    <2>. QED
      BY <2>1, <2>2, <2>3, RunKeeps
  <1>4. CASE Hit \/ Missing \/ Peek
    <2>1. Requesting /\ Answer
      BY <1>4 DEF Hit, Missing, Peek
    <2>2. Request.mode = "get" => Request.name \in DOMAIN data
      BY <1>4 DEF Hit, Missing, Peek
    <2>. QED
      BY <2>1, <2>2, AnswerKeeps
  <1>5. CASE Propagate
    <2>1. /\ Requesting /\ stack # <<>> /\ Fail("EvidenceUnavailable")
          /\ Request.mode = "get" /\ Request.name \in DOMAIN errors
      BY <1>5 DEF Propagate, Requesting
    <2>2. Request.name \in Asks(Top.name, "get") /\ Top.name \in Names
      BY <1>2, <2>1
    <2>3. ~fate[Top.name]
      BY <2>1, <2>2 DEF IInv, OrderIndependent, Obtainable
    <2>. QED
      BY <2>1, <2>2, <2>3, FailKeeps
  <1>6. CASE Return
    BY <1>6, ReturnKeeps
  <1>7. CASE Raise
    <2>1. stack # <<>> /\ ~Requesting /\ ~sound[Top.name] /\ Fail("own")
      BY <1>7 DEF Raise
    <2>2. Asks(Top.name, "get") \subseteq DOMAIN data
      BY <2>1, PassedAll
    <2>3. Top.name \in Names
      <3>1. stack \in Seq(Frame) /\ Len(stack) \in 1..Len(stack)
        BY <2>1 DEF IInv, Typed
      <3>2. Top \in Frame
        BY <3>1 DEF Top
      <3>. QED
        BY <3>2 DEF Frame
    <2>4. ~fate[Top.name]
      BY <2>1, <2>3 DEF IInv, Obtainable
    <2>. QED
      BY <2>1, <2>2, <2>4, FailKeeps
  <1>8. CASE UNCHANGED vars
    <2>1. UNCHANGED <<Settled, Running>>
      BY <1>8 DEF vars, Settled, Running
    <2>. QED
      BY <1>8, <2>1 DEF vars, IInv, Typed, Descending, Unsettled, Counted, HasRequired,
                        Obtainable, OrderIndependent, FailureExplained, Asks
  <1>. QED
    BY <1>1, <1>3, <1>4, <1>5, <1>6, <1>7, <1>8 DEF Next, Step

\* The strengthened invariant holds in every reachable state.
THEOREM Invariance == Spec => []IInv
PROOF BY InitIInv, NextIInv, PTL DEF Spec

\* The store's state keeps its shape.
THEOREM TypeCorrect == Spec => []TypeOK
PROOF
  <1>1. IInv => TypeOK
    BY DEF IInv, Typed, TypeOK
  <1>. QED
    BY <1>1, Invariance, PTL

\* Each gatherer's function is called at most once in a scan, whatever is
\* asked for, in whatever order and whoever fails.
THEOREM RunsAtMostOnce == Spec => []AtMostOnce
PROOF
  <1>1. IInv => AtMostOnce
    BY DEF IInv, Counted, AtMostOnce
  <1>. QED
    BY <1>1, Invariance, PTL

\* Whether evidence is available is decided by the gatherers' soundness alone,
\* not by who asked first.
THEOREM AvailabilityDetermined == Spec => []OrderIndependent
PROOF
  <1>1. IInv => OrderIndependent
    BY DEF IInv
  <1>. QED
    BY <1>1, Invariance, PTL

\* Every recorded failure has a recorded cause.
THEOREM FailuresExplained == Spec => []FailureExplained
PROOF
  <1>1. IInv => FailureExplained
    BY DEF IInv
  <1>. QED
    BY <1>1, Invariance, PTL

-----------------------------------------------------------------------------
\* What a gatherer that does not peek has read so far, of what it has asked.
AskedBefore(n, pc) == {Program[n][k].name : k \in {j \in 1..Len(Program[n]) : j < pc}}

ReadSoFar(frame, f) ==
    Asks(frame.name, "gathered") = {} =>
        frame.read = {d \in AskedBefore(frame.name, frame.pc) : f[d]}

ReadAll(n, read, f) ==
    Asks(n, "gathered") = {} => read = {d \in Asks(n, "get") \cup Asks(n, "try_get") : f[d]}

ReadsExact ==
    /\ \A i \in 1..Len(stack) : ReadSoFar(stack[i], fate)
    /\ \A n \in DOMAIN data : ReadAll(n, data[n], fate)

\* Answering a request adds what the request names exactly when it can be had.
LEMMA AnswerReads ==
    ASSUME IInv, ReadsExact, Requesting, Answer, Hit \/ Missing \/ Peek
    PROVE  ReadsExact'
PROOF
  <1>0. data' = data /\ fate' = fate
    BY DEF Answer, world
  <1>1. Typed
    BY DEF IInv
  <1>2. /\ stack \in Seq(Frame) /\ Len(stack) \in Nat \ {0}
        /\ Top \in Frame /\ Top = stack[Len(stack)] /\ Len(stack) \in 1..Len(stack)
        /\ Top.pc \in 1..Len(Program[Top.name])
        /\ fate' = fate
    BY <1>1, RequestTyped DEF Typed, Top, Answer, world
  <1>3. /\ Len(stack') = Len(stack)
        /\ stack'[Len(stack)].name = Top.name
        /\ stack'[Len(stack)].pc = Top.pc + 1
        /\ stack'[Len(stack)].read = Top.read \cup (DOMAIN data \cap {Request.name})
        /\ \A i \in 1..Len(stack) : i # Len(stack) => stack'[i] = stack[i]
    BY <1>2 DEF Answer, Frame
  <1>4. AskedBefore(Top.name, Top.pc + 1) = AskedBefore(Top.name, Top.pc) \cup {Request.name}
    <2>1. Top.pc \in Nat /\ Len(Program[Top.name]) \in Nat
      BY <1>2, ProgramAssumption DEF Frame
    <2>2. {j \in 1..Len(Program[Top.name]) : j < Top.pc + 1}
            = {j \in 1..Len(Program[Top.name]) : j < Top.pc} \cup {Top.pc}
      BY <1>2, <2>1
    <2>. QED
      BY <2>2 DEF AskedBefore, Request
  <1>5. ASSUME Asks(Top.name, "gathered") = {}
        PROVE  fate[Request.name] <=> Request.name \in DOMAIN data
    <2>1. Request.mode # "gathered"
      BY <1>2, <1>5 DEF Asks, Request
    <2>. QED
      BY <2>1 DEF Hit, Missing, Peek, IInv, OrderIndependent
  <1>6. ReadSoFar(Top, fate)
    BY <1>2 DEF ReadsExact
  <1>7. ReadSoFar(stack'[Len(stack)], fate)
    <2>. SUFFICES ASSUME Asks(Top.name, "gathered") = {}
                  PROVE  stack'[Len(stack)].read = {d \in AskedBefore(Top.name, Top.pc + 1) : fate[d]}
      BY <1>3 DEF ReadSoFar
    <2>1. Top.read = {d \in AskedBefore(Top.name, Top.pc) : fate[d]}
      BY <1>6 DEF ReadSoFar
    <2>2. fate[Request.name] <=> Request.name \in DOMAIN data
      BY <1>5
    <2>. QED
      BY <1>3, <1>4, <2>1, <2>2
  <1>8. \A i \in 1..Len(stack) : ReadSoFar(stack'[i], fate)
    BY <1>3, <1>7 DEF ReadsExact
  <1>. QED
    BY <1>0, <1>3, <1>8 DEF ReadsExact

\* What a gatherer returns is what it has read when it has asked everything.
LEMMA ReadsStep ==
    ASSUME IInv, ReadsExact, [Next]_vars
    PROVE  ReadsExact'
PROOF
  <1>1. stack \in Seq(Frame) /\ Len(stack) \in Nat
    BY DEF IInv, Typed
  <1>2. fate' = fate
    BY DEF Next, Step, Call, Nest, Hit, Missing, Peek, Propagate, Return, Raise, Run, Answer, Fail,
           world, vars
  <1>3. ASSUME NEW n \in Names, Run(n) PROVE ReadsExact'
    <2>1. /\ Len(stack') = Len(stack) + 1
          /\ \A i \in 1..Len(stack) : stack'[i] = stack[i]
          /\ stack'[Len(stack) + 1] = Entered(n)
          /\ data' = data
      BY <1>1, <1>3 DEF Run, world
    <2>2. ReadSoFar(Entered(n), fate)
      <3>1. AskedBefore(n, 1) = {}
        BY DEF AskedBefore
      <3>. QED
        BY <3>1 DEF ReadSoFar, Entered
    <2>3. \A i \in 1..(Len(stack) + 1) : i \in 1..Len(stack) \/ i = Len(stack) + 1
      BY <1>1
    <2>. QED
      BY <1>2, <2>1, <2>2, <2>3 DEF ReadsExact
  <1>4. CASE \E n \in Names : Call(n)
    BY <1>3, <1>4 DEF Call
  <1>5. CASE Nest
    <2>1. Requesting /\ Request.mode # "gathered" /\ Run(Request.name)
      BY <1>5 DEF Nest
    <2>2. Request.name \in Names
      <3>1. Top.name \in Names /\ Top.pc \in 1..Len(Program[Top.name])
        BY <2>1, RequestTyped DEF IInv
      <3>. QED
        BY <2>1, <3>1, ProgramAssumption DEF Request
    <2>. QED
      BY <1>3, <2>1, <2>2
  <1>6. CASE Hit \/ Missing \/ Peek
    <2>1. Requesting /\ Answer
      BY <1>6 DEF Hit, Missing, Peek
    <2>. QED
      BY <1>6, <2>1, AnswerReads
  <1>7. ASSUME stack # <<>>, stack' = Callers
        PROVE  \A i \in 1..Len(stack') : ReadSoFar(stack'[i], fate')
    <2>1. /\ Len(stack') = Len(stack) - 1
          /\ \A i \in 1..(Len(stack) - 1) : stack'[i] = stack[i]
      BY <1>1, <1>7, FrontOf DEF Callers
    <2>2. \A i \in 1..(Len(stack) - 1) : i \in 1..Len(stack)
      BY <1>1
    <2>. QED
      BY <1>2, <2>1, <2>2 DEF ReadsExact
  <1>8. CASE Propagate \/ Raise
    <2>1. stack # <<>> /\ stack' = Callers /\ data' = data
      BY <1>8 DEF Propagate, Raise, Fail, Requesting
    <2>. QED
      BY <1>2, <1>7, <2>1 DEF ReadsExact
  <1>9. CASE Return
    <2>1. /\ stack # <<>> /\ stack' = Callers /\ ~Requesting
          /\ data' = Extend(data, Top.name, Top.read)
      BY <1>9 DEF Return
    <2>2. Len(stack) \in 1..Len(stack) /\ Top = stack[Len(stack)] /\ Top \in Frame
      BY <1>1, <2>1 DEF Top
    <2>3. Top.pc \in Nat /\ Top.name \in Names
      BY <2>2 DEF Frame
    <2>4. \A j \in 1..Len(Program[Top.name]) : j < Top.pc /\ Program[Top.name][j].mode \in Modes
      <3>1. Program[Top.name] \in Seq([mode : Modes, name : STRING])
        BY <2>3, ProgramAssumption
      <3>2. Len(Program[Top.name]) \in Nat
        BY <3>1
      <3>3. ~(Top.pc <= Len(Program[Top.name]))
        BY <2>1 DEF Requesting
      <3>4. \A j \in 1..Len(Program[Top.name]) : Program[Top.name][j] \in [mode : Modes, name : STRING]
        BY <3>1, ElementOfSeq
      <3>. QED
        BY <2>3, <3>2, <3>3, <3>4
    <2>5. ReadAll(Top.name, Top.read, fate)
      <3>. SUFFICES ASSUME Asks(Top.name, "gathered") = {}
                    PROVE  Top.read = {d \in Asks(Top.name, "get") \cup Asks(Top.name, "try_get") : fate[d]}
        BY DEF ReadAll
      <3>. DEFINE all == 1..Len(Program[Top.name])
                  ask(j) == Program[Top.name][j]
      <3>0. \A j \in all : ask(j).mode \in {"get", "try_get"} /\ j < Top.pc
        BY <2>4 DEF Asks, Modes
      <3>01. {j \in all : j < Top.pc} = all
        BY <3>0
      <3>02. all = {j \in all : ask(j).mode = "get"} \cup {j \in all : ask(j).mode = "try_get"}
        BY <3>0
      <3>1. AskedBefore(Top.name, Top.pc) = Asks(Top.name, "get") \cup Asks(Top.name, "try_get")
        <4>1. AskedBefore(Top.name, Top.pc) = {ask(k).name : k \in all}
          BY <3>01 DEF AskedBefore
        <4>2. Asks(Top.name, "get") = {ask(k).name : k \in {j \in all : ask(j).mode = "get"}}
          BY DEF Asks
        <4>3. Asks(Top.name, "try_get") = {ask(k).name : k \in {j \in all : ask(j).mode = "try_get"}}
          BY DEF Asks
        <4>. QED
          BY <3>02, <4>1, <4>2, <4>3
      <3>2. Top.read = {d \in AskedBefore(Top.name, Top.pc) : fate[d]}
        BY <2>2 DEF ReadsExact, ReadSoFar
      <3>. QED
        BY <3>1, <3>2
    <2>6. /\ DOMAIN data' = DOMAIN data \cup {Top.name}
          /\ data'[Top.name] = Top.read
          /\ \A y \in DOMAIN data : y # Top.name => data'[y] = data[y]
      BY <2>1 DEF Extend
    <2>7. \A n \in DOMAIN data' : ReadAll(n, data'[n], fate')
      BY <1>2, <2>5, <2>6 DEF ReadsExact
    <2>. QED
      BY <1>7, <2>1, <2>7 DEF ReadsExact
  <1>10. CASE UNCHANGED vars
    BY <1>10 DEF vars, ReadsExact
  <1>. QED
    BY <1>4, <1>5, <1>6, <1>8, <1>9, <1>10 DEF Next, Step

\* A gatherer that never peeks returns what can be gathered of what it asks
\* for, whenever it runs and whoever asks.
THEOREM GatherersReadTheSame == Spec => []ReadsDetermined
PROOF
  <1>1. Init => ReadsExact
    <2>. SUFFICES ASSUME Init PROVE ReadsExact
      OBVIOUS
    <2>1. Len(stack) = 0 /\ DOMAIN data = {}
      BY DEF Init
    <2>. QED
      BY <2>1 DEF ReadsExact
  <1>2. IInv /\ ReadsExact /\ [Next]_vars => ReadsExact'
    BY ReadsStep
  <1>3. ReadsExact => ReadsDetermined
    BY DEF ReadsExact, ReadsDetermined, ReadAll
  <1>. QED
    BY <1>1, <1>2, <1>3, Invariance, PTL DEF Spec

-----------------------------------------------------------------------------
\* How one step changes the tables: not at all, one gatherer returned, or one
\* failed with a cause.
LEMMA TableStep ==
    ASSUME IInv, [Next]_vars
    PROVE  /\ sound' = sound
           /\ \/ data' = data /\ errors' = errors
              \/ \E n \in Names \ Settled :
                    /\ data' = Extend(data, n, data'[n]) /\ errors' = errors
                    /\ sound[n] /\ Asks(n, "get") \subseteq DOMAIN data
              \/ \E n \in Names \ Settled :
                    /\ errors' = Extend(errors, n, errors'[n]) /\ data' = data
                    /\ \/ ~sound[n] /\ Asks(n, "get") \subseteq DOMAIN data
                       \/ \E d \in Asks(n, "get") : d \in DOMAIN errors
PROOF
  <1>1. ASSUME stack # <<>>
        PROVE  Top.name \in Names \ Settled
    <2>1. stack \in Seq(Frame) /\ Len(stack) \in 1..Len(stack)
      BY <1>1 DEF IInv, Typed
    <2>2. Top \in Frame /\ Top = stack[Len(stack)]
      BY <2>1 DEF Top
    <2>3. Top.name \in Names
      BY <2>2 DEF Frame
    <2>4. Top.name \notin Settled
      BY <2>1, <2>2 DEF IInv, Unsettled
    <2>. QED
      BY <2>3, <2>4
  <1>2. CASE \E n \in Names : Call(n)
    BY <1>2 DEF Call, Run, world
  <1>3. CASE Nest \/ Hit \/ Missing \/ Peek
    BY <1>3 DEF Nest, Hit, Missing, Peek, Run, Answer, world
  <1>4. CASE Propagate
    <2>1. /\ stack # <<>> /\ sound' = sound /\ data' = data
          /\ errors' = Extend(errors, Top.name, "EvidenceUnavailable")
          /\ Requesting /\ Request.mode = "get" /\ Request.name \in DOMAIN errors
      BY <1>4 DEF Propagate, Requesting, Fail, world
    <2>2. errors'[Top.name] = "EvidenceUnavailable"
      BY <2>1 DEF Extend
    <2>3. Top.pc \in 1..Len(Program[Top.name])
      BY <2>1, RequestTyped DEF IInv
    <2>4. Request.name \in Asks(Top.name, "get")
      BY <2>1, <2>3 DEF Request, Asks
    <2>. QED
      BY <1>1, <2>1, <2>2, <2>4
  <1>5. CASE Return
    <2>1. /\ stack # <<>> /\ sound' = sound /\ errors' = errors /\ ~Requesting
          /\ data' = Extend(data, Top.name, Top.read) /\ sound[Top.name]
      BY <1>5 DEF Return, world
    <2>2. data'[Top.name] = Top.read
      BY <2>1 DEF Extend
    <2>3. Asks(Top.name, "get") \subseteq DOMAIN data
      BY <2>1, PassedAll
    <2>. QED
      BY <1>1, <2>1, <2>2, <2>3
  <1>6. CASE Raise
    <2>1. /\ stack # <<>> /\ sound' = sound /\ data' = data /\ ~Requesting
          /\ errors' = Extend(errors, Top.name, "own") /\ ~sound[Top.name]
      BY <1>6 DEF Raise, Fail, world
    <2>2. errors'[Top.name] = "own"
      BY <2>1 DEF Extend
    <2>3. Asks(Top.name, "get") \subseteq DOMAIN data
      BY <2>1, PassedAll
    <2>. QED
      BY <1>1, <2>1, <2>2, <2>3
  <1>7. CASE UNCHANGED vars
    BY <1>7 DEF vars, world
  <1>. QED
    BY <1>2, <1>3, <1>4, <1>5, <1>6, <1>7 DEF Next, Step

\* An answer, once given, is given the same way to the end of the scan.
THEOREM AnswersStable == Spec => Stable
PROOF
  <1>. DEFINE Keeps ==
        /\ \A n \in DOMAIN data : n \in DOMAIN data' /\ data'[n] = data[n]
        /\ \A n \in DOMAIN errors : n \in DOMAIN errors' /\ errors'[n] = errors[n]
        /\ DOMAIN data' \cap DOMAIN errors' = {}
  <1>1. IInv /\ IInv' /\ [Next]_vars => Keeps
    <2>. SUFFICES ASSUME IInv, IInv', [Next]_vars PROVE Keeps
      OBVIOUS
    <2>1. DOMAIN data' \cap DOMAIN errors' = {}
      BY DEF IInv, OrderIndependent
    <2>2. /\ \A n \in DOMAIN data : n \in DOMAIN data' /\ data'[n] = data[n]
          /\ \A n \in DOMAIN errors : n \in DOMAIN errors' /\ errors'[n] = errors[n]
      BY TableStep DEF Extend, Settled
    <2>. QED
      BY <2>1, <2>2
  <1>2. IInv /\ IInv' /\ [Next]_vars => [Keeps]_vars
    BY <1>1
  <1>. QED
    BY <1>2, Invariance, PTL DEF Spec, Stable

\* The store implements the ledger: one verdict per piece of evidence, given
\* once, dependencies first and never without a cause.
THEOREM StoreImplementsLedger == Spec => ImplementsLedger
PROOF
  <1>. DEFINE verdict == [n \in Names |-> IF n \in DOMAIN data THEN "available"
                                          ELSE IF n \in DOMAIN errors THEN "unavailable" ELSE "unknown"]
  <1>1. Init => Ledger!Init
    BY DEF Init, Ledger!Init
  <1>2. IInv /\ [Next]_vars => [Ledger!Next]_<<sound, verdict>>
    <2>. SUFFICES ASSUME IInv, [Next]_vars
                  PROVE  Ledger!Next \/ UNCHANGED <<sound, verdict>>
      OBVIOUS
    <2>1. sound' = sound /\ \A n \in Names : Asks(n, "get")' = Asks(n, "get")
      BY TableStep DEF Asks
    <2>2. CASE data' = data /\ errors' = errors
      BY <2>1, <2>2
    <2>3. ASSUME NEW n \in Names \ Settled,
                 data' = Extend(data, n, data'[n]), errors' = errors,
                 sound[n], Asks(n, "get") \subseteq DOMAIN data
          PROVE  Ledger!Next
      <3>1. verdict' = [verdict EXCEPT ![n] = "available"] /\ verdict[n] = "unknown"
        BY <2>3 DEF Extend, Settled
      <3>2. \A d \in Asks(n, "get") : verdict[d] = "available"
        BY <2>3 DEF IInv, Typed
      <3>. QED
        BY <2>1, <2>3, <3>1, <3>2 DEF Ledger!Next, Ledger!Gathered
    <2>4. ASSUME NEW n \in Names \ Settled,
                 errors' = Extend(errors, n, errors'[n]), data' = data,
                 \/ ~sound[n] /\ Asks(n, "get") \subseteq DOMAIN data
                 \/ \E d \in Asks(n, "get") : d \in DOMAIN errors
          PROVE  Ledger!Next
      <3>1. verdict' = [verdict EXCEPT ![n] = "unavailable"] /\ verdict[n] = "unknown"
        BY <2>4 DEF Extend, Settled
      <3>2. Asks(n, "get") \subseteq DOMAIN data => \A d \in Asks(n, "get") : verdict[d] = "available"
        BY DEF IInv, Typed
      <3>3. \A d \in DOMAIN errors : verdict[d] = "unavailable"
        BY DEF IInv, Typed, OrderIndependent
      <3>. QED
        BY <2>1, <2>4, <3>1, <3>2, <3>3 DEF Ledger!Next, Ledger!Lost
    <2>. QED
      BY <2>2, <2>3, <2>4, TableStep
  <1>. QED
    BY <1>1, <1>2, Invariance, PTL DEF Spec, ImplementsLedger, Ledger!Spec
=============================================================================
