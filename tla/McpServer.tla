----------------------------- MODULE McpServer -----------------------------
(***************************************************************************)
(* The stdio MCP server (scovant_core/mcp_server.py): tool calls that the  *)
(* SDK runs on worker threads, a lock taken without waiting that lets one  *)
(* scan run at a time, and a ring of the reports of recent scans.  The     *)
(* report is stored after the lock is released, in steps another thread    *)
(* may interleave with: the insertion, the length test and each eviction.  *)
(***************************************************************************)
EXTENDS Naturals, Sequences, FiniteSets

CONSTANTS
    Threads,        \* the SDK's worker threads
    RING_SIZE,      \* _RING_SIZE
    MaxCalls        \* bound: scanning tool calls the client makes

Free == "free"

ASSUME RingAssumption ==
    /\ RING_SIZE \in Nat \ {0} /\ MaxCalls \in Nat
    /\ Free \notin Threads

VARIABLES
    lock,           \* the thread that holds _SCAN_LOCK, or Free
    ring,           \* keys of _REPORTS in insertion order
    pc,             \* pc[t]: where thread t is
    report,         \* report[t]: the scan_id of t's report, 0 while it has none
    calls,          \* scanning tool calls so far
    scans,          \* scans started, the last scan_id handed out
    inserted        \* history: the scan_ids in the order they were inserted

vars == <<lock, ring, pc, report, calls, scans, inserted>>

Goto(t, place) == pc' = [pc EXCEPT ![t] = place]

\* The tool call is over.
Leave(t) == Goto(t, "idle") /\ report' = [report EXCEPT ![t] = 0]

-----------------------------------------------------------------------------
Init ==
    /\ lock = Free /\ ring = <<>> /\ calls = 0 /\ scans = 0 /\ inserted = <<>>
    /\ pc = [t \in Threads |-> "idle"]
    /\ report = [t \in Threads |-> 0]

\* scan_site or get_core_score is called.
CallScan(t) ==
    /\ pc[t] = "idle" /\ calls < MaxCalls
    /\ calls' = calls + 1
    /\ Goto(t, "acquire")
    /\ UNCHANGED <<lock, ring, report, scans, inserted>>

\* A call with an unknown format or profile is refused, the lock not touched.
RefuseArguments(t) ==
    /\ pc[t] = "idle" /\ calls < MaxCalls
    /\ calls' = calls + 1
    /\ UNCHANGED <<lock, ring, pc, report, scans, inserted>>

\* Mutant of Busy: acquire() waits until the lock is free.
BusyWaits(t) ==
    /\ pc[t] = "acquire" /\ lock # Free
    /\ UNCHANGED vars

\* acquire(blocking=False): a second scan is refused, never queued.
Busy(t) ==
    /\ pc[t] = "acquire" /\ lock # Free
    /\ Goto(t, "idle")
    /\ UNCHANGED <<lock, ring, report, calls, scans, inserted>>

\* Mutant of Acquire: the lock is taken without a look.
AcquireHeld(t) ==
    /\ pc[t] = "acquire"
    /\ lock' = t
    /\ scans' = scans + 1
    /\ report' = [report EXCEPT ![t] = scans']
    /\ Goto(t, "scanning")
    /\ UNCHANGED <<ring, calls, inserted>>

Acquire(t) ==
    /\ pc[t] = "acquire" /\ lock = Free
    /\ lock' = t
    /\ scans' = scans + 1
    /\ report' = [report EXCEPT ![t] = scans']
    /\ Goto(t, "scanning")
    /\ UNCHANGED <<ring, calls, inserted>>

\* scan() returned: finally releases the lock, the report is rendered.
Scanned(t) ==
    /\ pc[t] = "scanning"
    /\ lock' = Free
    /\ Goto(t, "store")
    /\ UNCHANGED <<ring, report, calls, scans, inserted>>

\* scan() raised: finally releases the lock, the exception leaves the tool.
ScanRaised(t) ==
    /\ pc[t] = "scanning"
    /\ lock' = Free
    /\ Leave(t)
    /\ UNCHANGED <<ring, calls, scans, inserted>>

\* _REPORTS[scan_id] = data
Store(t) ==
    /\ pc[t] = "store"
    /\ ring' = Append(ring, report[t])
    /\ inserted' = Append(inserted, report[t])
    /\ Goto(t, "test")
    /\ UNCHANGED <<lock, report, calls, scans>>

\* while len(_REPORTS) > _RING_SIZE
TestFull(t) ==
    /\ pc[t] = "test" /\ Len(ring) > RING_SIZE
    /\ Goto(t, "evict")
    /\ UNCHANGED <<lock, ring, report, calls, scans, inserted>>

TestFits(t) ==
    /\ pc[t] = "test" /\ Len(ring) <= RING_SIZE
    /\ Leave(t)
    /\ UNCHANGED <<lock, ring, calls, scans, inserted>>

\* Mutant of Evict: popitem() takes the last item.
EvictNewest(t) ==
    /\ pc[t] = "evict" /\ ring # <<>>
    /\ ring' = SubSeq(ring, 1, Len(ring) - 1)
    /\ Goto(t, "test")
    /\ UNCHANGED <<lock, report, calls, scans, inserted>>

\* _REPORTS.popitem(last=False), which raises KeyError on an empty ring.
Evict(t) ==
    /\ pc[t] = "evict"
    /\ \/ /\ ring # <<>>
          /\ ring' = Tail(ring)
          /\ Goto(t, "test")
          /\ UNCHANGED report
       \/ /\ ring = <<>>
          /\ Leave(t)
          /\ UNCHANGED ring
    /\ UNCHANGED <<lock, calls, scans, inserted>>

Proceed(t) ==
    \/ Busy(t) \/ Acquire(t) \/ Scanned(t) \/ ScanRaised(t)
    \/ Store(t) \/ TestFull(t) \/ TestFits(t) \/ Evict(t)

\* get_finding, list_checks and explain_check read and change nothing.
Next == \E t \in Threads : CallScan(t) \/ RefuseArguments(t) \/ Proceed(t)

\* A thread inside a tool call keeps running, except that a scan may hang (in a
\* name lookup, see SecureClient); clients need not call again.
Spec ==
    /\ Init /\ [][Next]_vars
    /\ \A t \in Threads : WF_vars(pc[t] # "scanning" /\ Proceed(t))
-----------------------------------------------------------------------------
(* Properties *)

Places == {"idle", "acquire", "scanning", "store", "test", "evict"}

\* "Exactly one scan runs at a time", and the lock is held for exactly as long:
\* no refusal, exception or report leaves it behind.
SingleFlight == \A t \in Threads : pc[t] = "scanning" <=> lock = t

\* The ring is the tail of what was stored, in order.
RingIsRecent ==
    /\ Len(ring) <= Len(inserted)
    /\ \A i \in 1..Len(ring) : ring[i] = inserted[Len(inserted) - Len(ring) + i]

Storing == {t \in Threads : pc[t] \in {"test", "evict"}}

\* It outgrows _RING_SIZE only by the reports being stored right now.
RingBounded == Len(ring) <= RING_SIZE + Cardinality(Storing)

\* No scan_id is stored twice, and none that is about to be stored is there.
ReportsDistinct ==
    /\ \A i, j \in 1..Len(inserted) : i # j => inserted[i] # inserted[j]
    /\ \A t \in Threads : pc[t] = "store" => \A i \in 1..Len(inserted) : inserted[i] # report[t]

\* get_finding sees the latest reports, each under its own scan_id, and none
\* lost from their middle, however the threads that store and evict interleave.
RingKeepsTheLatest == RingIsRecent /\ RingBounded /\ ReportsDistinct

\* "The server runs one scan at a time": a call is answered unless its own scan
\* hangs.  A hanging scan of another thread keeps the lock for ever, and the call
\* is then refused; it never waits for that scan.
CallsAnswered ==
    \A t \in Threads : pc[t] # "idle" ~> (pc[t] = "idle" \/ [](pc[t] = "scanning"))

\* "keeps only the last 8 reports": with nobody storing, the ring holds the last
\* RING_SIZE reports, or all of them when there are fewer.
KeepsLastReports ==
    Storing = {} =>
        Len(ring) = IF Len(inserted) < RING_SIZE THEN Len(inserted) ELSE RING_SIZE
=============================================================================
