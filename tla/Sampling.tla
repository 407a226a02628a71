------------------------------ MODULE Sampling ------------------------------
(***************************************************************************)
(* The gatherers that bound how much of the outside a scan looks at: the   *)
(* page sample with the sitemap it reads first, asked for while the        *)
(* profile is detected, and the reference probe, asked for by a check      *)
(* after that.  The scan goes on when a gatherer raises.                   *)
(***************************************************************************)
EXTENDS PageSample, ReferenceProbe

samplingVars == <<sitemapVars, sampleVars, probeVars>>

SamplingInit == SitemapInit /\ SampleInit /\ ProbeInit

Sampled == sampling \in {"done", "failed"}

\* What the scan itself does; resolver threads run beside it.
ScanStep ==
    \/ SitemapNext /\ UNCHANGED <<sampleVars, probeVars>>
    \/ SampleNext /\ UNCHANGED <<sitemapVars, probeVars>>
    \/ Sampled /\ ProbeStep /\ UNCHANGED <<sitemapVars, sampleVars>>

SamplingNext ==
    \/ ScanStep
    \/ \E i \in DOMAIN lookup : Resolve(i) /\ UNCHANGED <<sitemapVars, sampleVars>>

\* What the probe does without the network, the timeout of a lookup among it.
ProbeOwnStep == Sampled /\ ~AtRegistry /\ ProbeStep /\ UNCHANGED <<sitemapVars, sampleVars>>

\* Fetches, registries and resolver threads are not fair: getaddrinfo may hang.
SamplingSpec == SamplingInit /\ [][SamplingNext]_samplingVars /\ WF_samplingVars(ProbeOwnStep)
-----------------------------------------------------------------------------
\* The probe ends even when no resolver thread ever does, unless a registry is
\* never done answering.  (The comment in _resolve_domain, integrity_probe.py,
\* on not joining the worker.)
ProbeEnds == Sampled ~> (verdict # "none" \/ []AtRegistry)
=============================================================================
