-------------------------- MODULE McpServerProofs --------------------------
(***************************************************************************)
(* Proofs about the MCP server for any number of threads, any ring size    *)
(* and any number of calls: one scan at a time, a ring that is the tail of *)
(* what was stored, and reports that are never confused.                   *)
(***************************************************************************)
EXTENDS McpServer, SequenceTheorems, FiniteSetTheorems, TLAPS

\* The report a thread is working on, from Acquire to Store.
Working(t) == pc[t] \in {"scanning", "store"}

\* Every scan_id handed out is held by one thread or stored once.
IdsUnique ==
    /\ \A t \in Threads : report[t] <= scans
    /\ \A t \in Threads : Working(t) => report[t] > 0
    /\ \A s, t \in Threads : s # t /\ Working(s) /\ Working(t) => report[s] # report[t]
    /\ \A i \in 1..Len(inserted) : inserted[i] <= scans
    /\ \A t \in Threads : Working(t) => \A i \in 1..Len(inserted) : inserted[i] # report[t]
    /\ \A i, j \in 1..Len(inserted) : i # j => inserted[i] # inserted[j]

\* Shape of the server's state.
Typed ==
    /\ lock \in Threads \cup {Free}
    /\ ring \in Seq(Nat) /\ inserted \in Seq(Nat)
    /\ pc \in [Threads -> Places]
    /\ report \in [Threads -> Nat]
    /\ scans \in Nat /\ calls \in Nat

Bounded == IsFiniteSet(Storing) /\ RingBounded

IInv == Typed /\ SingleFlight /\ RingIsRecent /\ Bounded /\ IdsUnique

-----------------------------------------------------------------------------
\* Every step keeps the variables' shape.
LEMMA NextTyped == ASSUME Typed, [Next]_vars PROVE Typed'
<1> USE DEF Typed, Places
<1>1. CASE UNCHANGED vars
  BY <1>1 DEF vars
<1>2. ASSUME NEW t \in Threads, CallScan(t) PROVE Typed'
  BY <1>2 DEF CallScan, Goto
<1>3. ASSUME NEW t \in Threads, RefuseArguments(t) PROVE Typed'
  BY <1>3 DEF RefuseArguments
<1>4. ASSUME NEW t \in Threads, Busy(t) PROVE Typed'
  BY <1>4 DEF Busy, Goto
<1>5. ASSUME NEW t \in Threads, Acquire(t) PROVE Typed'
  BY <1>5 DEF Acquire, Goto
<1>6. ASSUME NEW t \in Threads, Scanned(t) PROVE Typed'
  BY <1>6 DEF Scanned, Goto
<1>7. ASSUME NEW t \in Threads, ScanRaised(t) PROVE Typed'
  BY <1>7 DEF ScanRaised, Leave, Goto
<1>8. ASSUME NEW t \in Threads, Store(t) PROVE Typed'
  BY <1>8 DEF Store, Goto
<1>9. ASSUME NEW t \in Threads, TestFull(t) PROVE Typed'
  BY <1>9 DEF TestFull, Goto
<1>10. ASSUME NEW t \in Threads, TestFits(t) PROVE Typed'
  BY <1>10 DEF TestFits, Leave, Goto
<1>11. ASSUME NEW t \in Threads, Evict(t) PROVE Typed'
  <2>1. CASE ring = <<>>
    BY <1>11, <2>1 DEF Evict, Leave, Goto
  <2>2. CASE ring # <<>>
    <3>1. ring' \in Seq(Nat)
      BY <1>11, <2>2, HeadTailProperties DEF Evict
    <3>2. QED
      BY <1>11, <2>2, <3>1 DEF Evict, Goto
  <2>3. QED
    BY <2>1, <2>2
<1>12. QED
  BY <1>1, <1>2, <1>3, <1>4, <1>5, <1>6, <1>7, <1>8, <1>9, <1>10, <1>11 DEF Next, Proceed

\* Every step leaves the lock with exactly the scanning thread.
LEMMA NextSingleFlight == ASSUME Typed, SingleFlight, [Next]_vars PROVE SingleFlight'
<1> USE RingAssumption DEF SingleFlight, Typed
<1>1. CASE UNCHANGED vars
  BY <1>1 DEF vars
<1>2. ASSUME NEW t \in Threads, CallScan(t) \/ RefuseArguments(t) \/ Busy(t)
      PROVE SingleFlight'
  BY <1>2 DEF CallScan, RefuseArguments, Busy, Goto
<1>3. ASSUME NEW t \in Threads, Acquire(t) PROVE SingleFlight'
  BY <1>3 DEF Acquire, Goto
<1>4. ASSUME NEW t \in Threads, Scanned(t) \/ ScanRaised(t) PROVE SingleFlight'
  BY <1>4 DEF Scanned, ScanRaised, Leave, Goto
<1>5. ASSUME NEW t \in Threads, Store(t) \/ TestFull(t) \/ TestFits(t) \/ Evict(t)
      PROVE SingleFlight'
  BY <1>5 DEF Store, TestFull, TestFits, Evict, Leave, Goto
<1>6. QED
  BY <1>1, <1>2, <1>3, <1>4, <1>5 DEF Next, Proceed

\* Storing and evicting keep the ring a tail of what was stored.
LEMMA NextRingIsRecent == ASSUME Typed, RingIsRecent, [Next]_vars PROVE RingIsRecent'
<1> USE DEF RingIsRecent, Typed
<1>1. CASE UNCHANGED <<ring, inserted>>
  BY <1>1
<1>2. ASSUME NEW t \in Threads, Store(t) PROVE RingIsRecent'
  <2>1. report[t] \in Nat
    OBVIOUS
  <2>2. /\ Len(ring') = Len(ring) + 1 /\ ring'[Len(ring) + 1] = report[t]
        /\ \A i \in 1..Len(ring) : ring'[i] = ring[i]
    BY <1>2, <2>1, AppendProperties DEF Store
  <2>3. /\ Len(inserted') = Len(inserted) + 1 /\ inserted'[Len(inserted) + 1] = report[t]
        /\ \A i \in 1..Len(inserted) : inserted'[i] = inserted[i]
    BY <1>2, <2>1, AppendProperties DEF Store
  <2>4. Len(ring) \in Nat /\ Len(inserted) \in Nat
    BY LenProperties
  <2>5. ASSUME NEW i \in 1..Len(ring')
        PROVE ring'[i] = inserted'[Len(inserted') - Len(ring') + i]
    <3>1. Len(inserted') - Len(ring') + i = Len(inserted) - Len(ring) + i
      BY <2>2, <2>3, <2>4
    <3>2. CASE i = Len(ring) + 1
      BY <2>2, <2>3, <2>4, <3>1, <3>2
    <3>3. CASE i \in 1..Len(ring)
      <4>1. Len(inserted) - Len(ring) + i \in 1..Len(inserted)
        BY <2>4, <3>3
      <4>2. QED
        BY <2>2, <2>3, <3>1, <3>3, <4>1
    <3>4. QED
      BY <2>2, <2>4, <3>2, <3>3
  <2>6. QED
    BY <2>2, <2>3, <2>4, <2>5
<1>3. ASSUME NEW t \in Threads, Evict(t), ring # <<>> PROVE RingIsRecent'
  <2>1. ring' = Tail(ring) /\ inserted' = inserted
    BY <1>3 DEF Evict
  <2> HIDE DEF RingIsRecent
  <2>2. /\ Len(Tail(ring)) = Len(ring) - 1
        /\ \A i \in 1..Len(Tail(ring)) : Tail(ring)[i] = ring[i + 1]
    BY <1>3, HeadTailProperties, Zenon
  <2>3. Len(ring) \in Nat /\ Len(inserted) \in Nat
    BY LenProperties
  <2>4. \A i \in 1..Len(ring') : ring'[i] = ring[i + 1] /\ i + 1 \in 1..Len(ring)
    BY <2>1, <2>2, <2>3
  <2>5. ASSUME NEW i \in 1..Len(ring')
        PROVE ring'[i] = inserted'[Len(inserted') - Len(ring') + i]
    <3>1. ring[i + 1] = inserted[Len(inserted) - Len(ring) + (i + 1)]
      BY <2>4 DEF RingIsRecent
    <3>2. Len(inserted') - Len(ring') + i = Len(inserted) - Len(ring) + (i + 1)
      <4>1. Len(ring') = Len(ring) - 1 /\ Len(inserted') = Len(inserted)
        BY <2>1, <2>2, Zenon
      <4>2. i \in Nat
        BY <2>3, <4>1
      <4>3. QED
        BY <2>3, <4>1, <4>2
    <3>3. QED
      BY <2>1, <2>4, <3>1, <3>2
  <2>6. Len(ring') <= Len(inserted')
    BY <2>1, <2>2, <2>3 DEF RingIsRecent
  <2>7. QED
    BY <2>5, <2>6 DEF RingIsRecent
<1>4. ASSUME NEW t \in Threads, CallScan(t) \/ RefuseArguments(t) \/ Proceed(t) PROVE RingIsRecent'
  BY <1>1, <1>2, <1>3, <1>4
     DEF CallScan, Proceed, RefuseArguments, Busy, Acquire, Scanned, ScanRaised, TestFull,
         TestFits, Evict
<1>5. QED
  BY <1>1, <1>4 DEF Next, vars

\* The ring grows with the set of storing threads and shrinks before a thread
\* leaves it, unless the ring has its size.
LEMMA NextBounded == ASSUME Typed, Bounded, [Next]_vars PROVE Bounded'
<1> USE RingAssumption DEF Bounded, RingBounded, Typed
<1>1. Len(ring) \in Nat /\ Cardinality(Storing) \in Nat
  BY LenProperties, FS_CardinalityType
<1>2. CASE UNCHANGED <<ring, pc>>
  BY <1>2 DEF Storing
<1>3. ASSUME NEW t \in Threads, pc[t] \notin {"test", "evict"}, UNCHANGED ring,
             NEW place, Goto(t, place), place \notin {"test", "evict"}
      PROVE Bounded'
  <2>1. Storing' = Storing
    BY <1>3 DEF Storing, Goto
  <2>2. QED
    BY <1>3, <2>1
<1>4. ASSUME NEW t \in Threads, Store(t) PROVE Bounded'
  <2>1. Storing' = Storing \cup {t} /\ t \notin Storing
    BY <1>4 DEF Store, Storing, Goto
  <2>2. Cardinality(Storing') = Cardinality(Storing) + 1 /\ IsFiniteSet(Storing')
    BY <2>1, FS_AddElement
  <2>3. Len(ring') = Len(ring) + 1
    BY <1>4, AppendProperties DEF Store
  <2>4. QED
    BY <1>1, <2>2, <2>3
<1>5. ASSUME NEW t \in Threads, TestFull(t) \/ (Evict(t) /\ ring # <<>>) PROVE Bounded'
  <2>1. Storing' = Storing
    BY <1>5 DEF TestFull, Evict, Storing, Goto
  <2>2. Len(ring') <= Len(ring)
    BY <1>1, <1>5, HeadTailProperties DEF TestFull, Evict
  <2>3. Len(ring') \in Nat
    BY <1>5, HeadTailProperties, LenProperties DEF TestFull, Evict
  <2>4. QED
    BY <1>1, <2>1, <2>2, <2>3
<1>6. ASSUME NEW t \in Threads, TestFits(t) \/ (Evict(t) /\ ring = <<>>) PROVE Bounded'
  <2>1. Storing' = Storing \ {t} /\ t \in Storing
    BY <1>6 DEF TestFits, Evict, Leave, Storing, Goto
  <2>2. IsFiniteSet(Storing') /\ Cardinality(Storing') \in Nat
    BY <2>1, FS_RemoveElement, FS_CardinalityType
  <2>3. ring' = ring /\ Len(ring) <= RING_SIZE
    BY <1>6 DEF TestFits, Evict
  <2>4. QED
    BY <1>1, <2>2, <2>3
<1>7. ASSUME NEW t \in Threads, CallScan(t) \/ RefuseArguments(t) \/ Proceed(t) PROVE Bounded'
  <2>1. CASE CallScan(t)
    BY <1>3, <2>1 DEF CallScan
  <2>2. CASE RefuseArguments(t)
    BY <1>2, <2>2 DEF RefuseArguments
  <2>3. CASE Busy(t)
    BY <1>3, <2>3 DEF Busy
  <2>4. CASE Acquire(t)
    BY <1>3, <2>4 DEF Acquire
  <2>5. CASE Scanned(t)
    BY <1>3, <2>5 DEF Scanned
  <2>6. CASE ScanRaised(t)
    BY <1>3, <2>6 DEF ScanRaised, Leave
  <2>7. QED
    BY <1>4, <1>5, <1>6, <1>7, <2>1, <2>2, <2>3, <2>4, <2>5, <2>6 DEF Proceed
<1>8. QED
  BY <1>2, <1>7 DEF Next, vars

\* A scan_id is handed out once and stored at most once.
LEMMA NextIdsUnique == ASSUME Typed, SingleFlight, IdsUnique, [Next]_vars PROVE IdsUnique'
<1> USE DEF IdsUnique, Typed, Working
<1>1. CASE UNCHANGED vars
  BY <1>1 DEF vars
<1>2. ASSUME NEW t \in Threads, CallScan(t) \/ RefuseArguments(t) \/ Busy(t)
      PROVE IdsUnique'
  BY <1>2 DEF CallScan, RefuseArguments, Busy, Goto
<1>3. ASSUME NEW t \in Threads, Acquire(t) PROVE IdsUnique'
  BY <1>3 DEF Acquire, Goto
<1>4. ASSUME NEW t \in Threads, Scanned(t) PROVE IdsUnique'
  BY <1>4 DEF Scanned, Goto
<1>5. ASSUME NEW t \in Threads, ScanRaised(t) PROVE IdsUnique'
  BY <1>5 DEF ScanRaised, Leave, Goto
<1>6. ASSUME NEW t \in Threads, Store(t) PROVE IdsUnique'
  <2>1. /\ Len(inserted') = Len(inserted) + 1
        /\ inserted'[Len(inserted) + 1] = report[t]
        /\ \A i \in 1..Len(inserted) : inserted'[i] = inserted[i]
        /\ report' = report /\ scans' = scans
    BY <1>6 DEF Store
  <2>2. \A s \in Threads : Working(s)' <=> Working(s) /\ s # t
    BY <1>6 DEF Store, Goto
  <2>3. QED
    BY <1>6, <2>1, <2>2 DEF Store
<1>7. ASSUME NEW t \in Threads, TestFull(t) \/ TestFits(t) \/ Evict(t) PROVE IdsUnique'
  <2>1. /\ scans' = scans /\ inserted' = inserted
        /\ \A s \in Threads : report'[s] = report[s] \/ report'[s] = 0
    BY <1>7 DEF TestFull, TestFits, Evict, Leave, Goto
  <2>2. \A s \in Threads : Working(s)' => Working(s) /\ report'[s] = report[s]
    BY <1>7 DEF TestFull, TestFits, Evict, Leave, Goto
  <2>3. \A s \in Threads : report'[s] <= scans'
    <3>1. ASSUME NEW s \in Threads PROVE report'[s] <= scans
      <4>1. scans \in Nat /\ report[s] <= scans
        OBVIOUS
      <4>2. QED
        BY ONLY <2>1, <4>1
    <3>2. QED
      BY <2>1, <3>1
  <2>4. \A s, u \in Threads : s # u /\ Working(s)' /\ Working(u)' => report'[s] # report'[u]
    <3> HIDE DEF Working
    <3> QED
      BY <2>2
  <2>5. \A s \in Threads : Working(s)' =>
          report'[s] > 0 /\ \A i \in 1..Len(inserted') : inserted'[i] # report'[s]
    <3> HIDE DEF Working
    <3> QED
      BY <2>1, <2>2
  <2>6. QED
    BY <2>1, <2>3, <2>4, <2>5
<1>8. QED
  BY <1>1, <1>2, <1>3, <1>4, <1>5, <1>6, <1>7 DEF Next, Proceed

\* The conjunction of these is an invariant of the server.
THEOREM Invariance == Spec => []IInv
<1>1. ASSUME Init PROVE IInv
  <2>1. Typed /\ SingleFlight /\ RingIsRecent /\ IdsUnique
    BY <1>1, RingAssumption
       DEF Init, Typed, SingleFlight, RingIsRecent, IdsUnique, Working, Places
  <2>2. Storing = {} /\ Len(ring) = 0
    BY <1>1 DEF Init, Storing
  <2>3. Bounded
    BY <2>2, FS_EmptySet, RingAssumption DEF Bounded, RingBounded
  <2>4. QED
    BY <2>1, <2>3 DEF IInv
<1>2. IInv /\ [Next]_vars => IInv'
  BY NextTyped, NextSingleFlight, NextRingIsRecent, NextBounded, NextIdsUnique DEF IInv
<1>3. QED
  BY <1>1, <1>2, PTL DEF Spec

\* At most one thread scans, and the lock is held exactly then: no way out of
\* _run_scan leaves it behind.
THEOREM OneScanAtATime == Spec => []SingleFlight
<1>1. IInv => SingleFlight
  BY DEF IInv
<1>2. QED
  BY <1>1, Invariance, PTL

\* The ring is the tail of the reports stored so far, it outgrows its size only
\* by the reports being stored, and no scan_id is stored twice or shared.
THEOREM LatestReportsKept == Spec => []RingKeepsTheLatest
<1>1. IInv => RingIsRecent /\ RingBounded
  BY DEF IInv, Bounded
<1>2. IInv => ReportsDistinct
  BY DEF IInv, ReportsDistinct, IdsUnique, Working
<1>3. QED
  BY <1>1, <1>2, Invariance, PTL DEF RingKeepsTheLatest
=============================================================================
