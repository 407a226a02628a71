--------------------------- MODULE MCSharedState ---------------------------
(***************************************************************************)
(* The module-level state that threads of one process share: the MCP       *)
(* server's scan lock and ring of reports, and the rules' cache of         *)
(* conformed evidence.  Neither reads what the other writes, so that it is *)
(* enough to explore one of them at a time: three threads over a ring of   *)
(* one report, so that all three can be evicting at once; and two threads  *)
(* over three objects, two identities, so that identities are handed on,   *)
(* and a cache of two entries, so that entries are evicted.                *)
(***************************************************************************)
EXTENDS McpServer, ConformCache

\* What a thread was called with before its first call is never read.
Unread == [kind |-> "page", obj |-> CHOOSE o \in Objects : TRUE]

CacheUntouched == ConformInit /\ arg = [t \in Workers |-> Unread]

SharedInit == Init /\ CacheUntouched

SharedNext ==
    \/ CacheUntouched /\ Next /\ UNCHANGED conformVars
    \/ calls = 0 /\ ConformNext /\ UNCHANGED vars

sharedVars == <<vars, conformVars>>

SharedSpec ==
    /\ SharedInit /\ [][SharedNext]_sharedVars
    /\ \A t \in Threads : WF_vars(pc[t] # "scanning" /\ Proceed(t))
=============================================================================
