---------------------------- MODULE UsagePricing ----------------------------
(***************************************************************************)
(* What a request costs.  The analytics package has two implementations:   *)
(* the matcher of the pipeline (pricing.ts), which refuses ambiguous rules *)
(* and is what the tests and the documents describe, and the engine's own  *)
(* (engine.ts), which prices the rows that are stored.                     *)
(*                                                                         *)
(* A rule has a pattern per dimension, the price of a request unit and of  *)
(* a million tokens (the five token categories are treated alike: one      *)
(* stands for all), and the window [from, to) in which it is effective.    *)
(* The costs are assumed to stay below the largest safe integer.           *)
(***************************************************************************)
EXTENDS Integers, FiniteSets

CONSTANTS Rules,       \* the rules of the bundled snapshot
          Dimensions,  \* routeId, providerId, modelId, accountIdHash, apiKeyIdHash
          Null,        \* SQL NULL
          Million      \* tokens a token price is for

\* What validateRule and validatePricingRules accept.
IsRule(rule) ==
  /\ rule.dims \in [Dimensions -> STRING]
  /\ rule.unit \in Nat \cup {Null} /\ rule.token \in Nat \cup {Null}
  /\ rule.unit # Null \/ rule.token # Null
  /\ rule.id \in Nat /\ rule.from \in Nat
  /\ rule.to = Null \/ (rule.to \in Nat /\ rule.to > rule.from)

specificityOf(rule) == Cardinality({d \in Dimensions : rule.dims[d] # "*"})
isEffective(rule, at) == rule.from <= at /\ (rule.to = Null \/ at < rule.to)
matchesDimensions(rule, dims) == \A d \in Dimensions : rule.dims[d] \in {"*", dims[d]}

windowsOverlap(l, r) == (r.to = Null \/ l.from < r.to) /\ (l.to = Null \/ r.from < l.to)
dimensionsOverlap(l, r) ==
  \A d \in Dimensions : "*" \in {l.dims[d], r.dims[d]} \/ l.dims[d] = r.dims[d]
validateOverlaps(rules) ==
  \A l, r \in rules : (l # r /\ specificityOf(l) = specificityOf(r))
                        => ~(windowsOverlap(l, r) /\ dimensionsOverlap(l, r))

ASSUME PricingAssumption ==
  /\ IsFiniteSet(Dimensions)
  /\ Null \notin Rules
  /\ \A rule \in Rules : IsRule(rule)
  /\ validateOverlaps(Rules)
  /\ \A l, r \in Rules : l.id = r.id => l = r
  /\ Million \in Nat \ {0}
  /\ Null \notin Int

Candidates(rules, dims, at) == {r \in rules : isEffective(r, at) /\ matchesDimensions(r, dims)}
MostSpecific(rules) == {r \in rules : \A s \in rules : specificityOf(s) <= specificityOf(r)}

\* The first of the most specific: there is no other (UsagePricingProofs).
match(rules, dims, at) ==
  LET best == MostSpecific(Candidates(rules, dims, at))
  IN  IF best = {} THEN Null ELSE CHOOSE r \in best : TRUE

-----------------------------------------------------------------------------
\* One component of a cost: an amount that is Null was not reported.

cost(count, price, per) == (count * price + per \div 2) \div per
component(known, missing, amount) == [known |-> known, missing |-> missing, cost |-> amount]

\* pricing.ts
componentCost(count, price, per) ==
  IF count = Null THEN component(FALSE, price \notin {Null, 0}, 0)
  ELSE IF price = Null THEN component(FALSE, count # 0, 0)
  ELSE component(TRUE, FALSE, cost(count, price, per))

\* engine.ts
add(count, price, per) ==
  IF price # Null /\ count # Null THEN component(TRUE, FALSE, cost(count, price, per))
  ELSE component(FALSE, (price # Null /\ count = Null) \/ (price = Null /\ count \notin {Null, 0}), 0)

Total(rule, unit, token) ==
  LET known == unit.known \/ token.known
      state == IF known THEN IF unit.missing \/ token.missing THEN "partial" ELSE "priced"
               ELSE "unpriced"
  IN  [rule |-> rule.id, state |-> state, known |-> unit.cost + token.cost]
Unpriced == [rule |-> Null, state |-> "unpriced", known |-> 0]

\* pricing.ts, for a row with these dimensions, time, units and tokens.
estimatePricing(rules, dims, at, units, toks) ==
  LET rule == match(rules, dims, at)
  IN  IF rule = Null THEN Unpriced
      ELSE Total(rule, componentCost(units, rule.unit, 1), componentCost(toks, rule.token, Million))

-----------------------------------------------------------------------------
\* engine.ts sorts the candidates and takes the first.

Before(l, r) ==
  \/ specificityOf(l) > specificityOf(r)
  \/ (specificityOf(l) = specificityOf(r) /\ l.from > r.from)
  \/ (specificityOf(l) = specificityOf(r) /\ l.from = r.from /\ l.id < r.id)

applyPricing(rules, dims, at, units, toks) ==
  LET rows == Candidates(rules, dims, at)
      rule == CHOOSE r \in rows : \A s \in rows \ {r} : Before(r, s)
  IN  IF rows = {} THEN Unpriced
      ELSE Total(rule, add(units, rule.unit, 1), add(toks, rule.token, Million))

\* The two disagree on an amount that is not reported and costs nothing.
NoFreeComponent(rules) == \A r \in rules : r.unit # 0 /\ r.token # 0
=============================================================================
