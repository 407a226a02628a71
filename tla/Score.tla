------------------------------- MODULE Score -------------------------------
(* The R2 readiness formula (r2/score.py) under the public policy            *)
(* (r2/policy.py): from one outcome per rule to coverage, status, rating,    *)
(* grade and badge.  Values are exact in 120ths (any sample of up to six     *)
(* pages), category scores are truncated to hundredths of a point.           *)
EXTENDS RuleOutcomes, FiniteSetsExt

CATEGORIES == {"discoverability", "structured", "consistency", "actionability", "trust",
               "ucp", "citability"}

(* PUBLIC_POLICY: weights are in hundredths, thresholds in percent.          *)
category_weights ==
  [discoverability |-> 17, structured |-> 18, consistency |-> 15, actionability |-> 12,
   trust |-> 8, ucp |-> 12, citability |-> 18]
severity_weights == [critical |-> 40, high |-> 25, medium |-> 14, low |-> 6, info |-> 2]
evidence_min_coverage == 60
canonical_min_coverage == 85
category_prior_weight == 14
GATES == [agent_access_blocked |-> "badge_block"]

category_applies(category, profile) ==
  CASE category = "ucp" -> profile \in {"booking", "commerce", "restaurant", "saas"}
    [] category = "citability" -> profile \in CITABILITY_TYPES
    [] OTHER -> TRUE

GradeOf(rating) ==
  IF rating >= 90 THEN "A" ELSE IF rating >= 80 THEN "B" ELSE IF rating >= 60 THEN "C" ELSE "D"
BadgeOf(rating) ==
  IF rating >= 80 THEN "agent_ready" ELSE IF rating >= 60 THEN "agent_compatible" ELSE "none"

-----------------------------------------------------------------------------
UNIT == 120

StateValue(state) == CASE state = PASS -> UNIT [] state = WARN -> UNIT \div 2 [] state = FAIL -> 0

(* A page rule loses only the share of the pages that failed.                *)
value(spec, o) ==
  IF spec.scope = "page"
    THEN UNIT - (o.failed * (UNIT - StateValue(o.state))) \div o.measured
    ELSE StateValue(o.state)

weight(spec) == severity_weights[spec.severity]

(* The counted rows: required rules and gates.  What the category of the     *)
(* rule excludes on this profile is N/A, what has no outcome is UNKNOWN.     *)
Counted(manifest) == {s \in manifest : s.maturity = "required" /\ s.effect # "diagnostic"}

Found(spec, outcomes, profile) ==
  IF ~category_applies(spec.category, profile) THEN Outcome(NA, "category")
  ELSE IF spec.code \in DOMAIN outcomes THEN outcomes[spec.code]
  ELSE Outcome(UNKNOWN, "no outcome")

-----------------------------------------------------------------------------
(* Measured weighted rules of one root cause, one scope and the same         *)
(* evidence count once: the heaviest weight, the worst value.                *)

SameCause(s, t, row, key) ==
  /\ {s.effect, t.effect} = {"weighted"}
  /\ s.group # "" /\ s.group = t.group /\ s.scope = t.scope
  /\ {s.code, t.code} \subseteq DOMAIN key /\ key[s.code] # "" /\ key[s.code] = key[t.code]
  /\ row[s].state \in MEASURED_STATES /\ row[t].state \in MEASURED_STATES

Cluster(s, row, key) == {t \in DOMAIN row : t = s \/ SameCause(s, t, row, key)}

Heaviest(cluster) == CHOOSE h \in cluster : \A t \in cluster : weight(t) <= weight(h)

(* Mutant of Elements: the weight of the worst member counts.                *)
Elements_WorstMember(row, key) ==
  {s \in DOMAIN row :
     LET cluster == Cluster(s, row, key)
     IN cluster = {s} \/ s = CHOOSE h \in cluster : \A t \in cluster :
                               value(h, row[h]) <= value(t, row[t])}

(* The elements of the score: one rule for each cluster.                     *)
Elements(row, key) == {s \in DOMAIN row : s = Heaviest(Cluster(s, row, key))}

merged_value(s, row, key) == Min({value(t, row[t]) : t \in Cluster(s, row, key)})

Weights(rules) == SumFunction([s \in rules |-> weight(s)])

(* The score of a category with something measured, 0..10000.                *)
category_score(rows, row, key) ==
  LET gain == [s \in rows |-> weight(s) * merged_value(s, row, key)]
  IN (10000 * (SumFunction(gain) + UNIT * category_prior_weight))
       \div (UNIT * (Weights(rows) + category_prior_weight))

(* Mutant of score_r2: losing the measurement of a rule leaves the coverage  *)
(* unchanged, because it also leaves the denominator.                        *)
score_r2_IgnoresUnmeasured(outcomes, key, profile, manifest) ==
  LET row == [s \in Counted(manifest) |-> Found(s, outcomes, profile)]
      kept == Elements(row, key)
      measured == {s \in kept : row[s].state \in MEASURED_STATES}
      scored(c) == {s \in measured : s.category = c /\ s.effect = "weighted"}
      rated == {c \in CATEGORIES : category_applies(c, profile) /\ scored(c) # {}}
      score == [c \in rated |-> category_score(scored(c), row, key)]
      share == [c \in rated |-> category_weights[c] * score[c]]
      measured_w == Weights(measured)
      number == (SumFunction(share) \div SumFunctionOnSet(category_weights, rated) + 50) \div 100
      none == [status |-> "INSUFFICIENT_EVIDENCE", rating |-> -1, grade |-> "none",
               badge |-> "none"]
  IN (IF measured = {} \/ rated = {} THEN none
      ELSE [status |-> "OK", rating |-> number, grade |-> GradeOf(number),
            badge |-> BadgeOf(number)])
     @@ [measured_w |-> measured_w, applicable_w |-> measured_w, categories |-> score,
         gates |-> {}, deduplicated |-> {}, unknown |-> {}]

score_r2(outcomes, key, profile, manifest) ==
  LET row == [s \in Counted(manifest) |-> Found(s, outcomes, profile)]
      kept == Elements(row, key)
      applicable == {s \in kept : row[s].state # NA}
      measured == {s \in applicable : row[s].state \in MEASURED_STATES}
      applicable_w == Weights(applicable)
      measured_w == Weights(measured)
      scored(c) == {s \in measured : s.category = c /\ s.effect = "weighted"}
      rated == {c \in CATEGORIES : category_applies(c, profile) /\ scored(c) # {}}
      score == [c \in rated |-> category_score(scored(c), row, key)]
      hits == {s.group : s \in {t \in DOMAIN row : t.effect = "gate" /\ row[t].state = FAIL}}
      share == [c \in rated |-> category_weights[c] * score[c]]
      rating == (SumFunction(share) \div SumFunctionOnSet(category_weights, rated) + 50) \div 100
      Rated(status, number, grade, badge) ==
        [status |-> status, rating |-> number, grade |-> grade, badge |-> badge,
         measured_w |-> measured_w, applicable_w |-> applicable_w, categories |-> score,
         gates |-> hits, deduplicated |-> {s.code : s \in DOMAIN row \ kept},
         unknown |-> {s.code : s \in {t \in DOMAIN row : t.code \notin DOMAIN outcomes}}]
      covered(percent) == 100 * measured_w >= percent * applicable_w
  IN IF applicable_w = 0 \/ ~covered(evidence_min_coverage) \/ rated = {}
       THEN Rated("INSUFFICIENT_EVIDENCE", -1, "none", "none")
     ELSE IF ~covered(canonical_min_coverage) \/ \E s \in applicable : row[s].state = ERROR
       THEN Rated("DEGRADED", rating, "none", "none")
     ELSE Rated("OK", rating, GradeOf(rating),
                IF \E g \in hits \cap DOMAIN GATES : GATES[g] = "badge_block"
                  THEN "none" ELSE BadgeOf(rating))

=============================================================================
