--------------------------- MODULE EvidenceLedger ---------------------------
(***************************************************************************)
(* What the evidence store promises its readers, with the call stack and   *)
(* the order of requests left out: each piece of evidence gets one verdict *)
(* for the whole scan, "available" only on top of available evidence and   *)
(* "unavailable" only for a reason that is on record.                      *)
(***************************************************************************)
CONSTANTS
    Names,      \* the evidence of the scan
    Required    \* Required[n]: the evidence n cannot do without

VARIABLES
    sound,      \* sound[n]: does n's own gathering succeed?
    verdict     \* what the store answers for each piece of evidence

Verdicts == {"unknown", "available", "unavailable"}

Init ==
    /\ sound \in [Names -> BOOLEAN]
    /\ verdict = [n \in Names |-> "unknown"]

Gathered(n) ==
    /\ verdict[n] = "unknown"
    /\ sound[n]
    /\ \A d \in Required[n] : verdict[d] = "available"
    /\ verdict' = [verdict EXCEPT ![n] = "available"]
    /\ UNCHANGED sound

Lost(n) ==
    /\ verdict[n] = "unknown"
    /\ \/ ~sound[n] /\ \A d \in Required[n] : verdict[d] = "available"
       \/ \E d \in Required[n] : verdict[d] = "unavailable"
    /\ verdict' = [verdict EXCEPT ![n] = "unavailable"]
    /\ UNCHANGED sound

Next == \E n \in Names : Gathered(n) \/ Lost(n)

Spec == Init /\ [][Next]_<<sound, verdict>>
=============================================================================
