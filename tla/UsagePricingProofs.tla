-------------------------- MODULE UsagePricingProofs --------------------------
(***************************************************************************)
(* Proofs about UsagePricing, for every set of rules that the matcher      *)
(* accepts: the rule that prices a request is unique, the engine's sort    *)
(* finds it, and the two implementations put the same cost on a request.   *)
(***************************************************************************)
EXTENDS UsagePricing, FiniteSetTheorems, WellFoundedInduction, TLAPS

-----------------------------------------------------------------------------
(* The specificity of a rule counts dimensions: there is a most specific one *)
(* in every set of rules that is not empty.                                  *)
LEMMA SpecificityBounded ==
  ASSUME NEW rule \in Rules
  PROVE  specificityOf(rule) \in Nat /\ specificityOf(rule) <= Cardinality(Dimensions)
<1> DEFINE named == {d \in Dimensions : rule.dims[d] # "*"}
<1>1. named \in SUBSET Dimensions /\ IsFiniteSet(Dimensions)
  BY PricingAssumption
<1>2. IsFiniteSet(named) /\ Cardinality(named) <= Cardinality(Dimensions)
  BY <1>1, FS_Subset
<1>3. Cardinality(named) \in Nat
  BY <1>2, FS_CardinalityType
<1>4. QED
  BY <1>2, <1>3 DEF specificityOf

LEMMA MostSpecificExists ==
  ASSUME NEW rules \in SUBSET Rules, rules # {}
  PROVE  MostSpecific(rules) # {}
<1> DEFINE less == OpToRel(<, Nat)
           gap(r) == Cardinality(Dimensions) - specificityOf(r)
           gaps == {gap(r) : r \in rules}
<1>1. Cardinality(Dimensions) \in Nat
  BY PricingAssumption, FS_CardinalityType
<1>2. \A r \in rules : gap(r) \in Nat /\ specificityOf(r) \in Nat
  BY <1>1, SpecificityBounded
<1>3. gaps \subseteq Nat /\ gaps # {}
  BY <1>2
<1>4. IsWellFoundedOn(less, Nat)
  BY NatLessThanWellFounded
<1>5. PICK least \in gaps : \A g \in gaps : ~(<<g, least>> \in less)
  <2> HIDE DEF less, gaps
  <2> QED
    BY <1>3, <1>4, WFMin
<1>6. \A g \in gaps : least <= g
  <2> TAKE g \in gaps
  <2>1. g \in Nat /\ least \in Nat
    BY <1>3
  <2>2. ~(<<g, least>> \in less)
    BY <1>5
  <2>3. ASSUME g < least PROVE <<g, least>> \in less
    <3>1. <<g, least>> \in Nat \X Nat /\ <<g, least>>[1] < <<g, least>>[2]
      BY <2>1, <2>3
    <3>2. QED
      BY <3>1 DEF OpToRel
  <2> HIDE DEF less, gaps
  <2>4. QED
    BY <2>1, <2>2, <2>3
<1>7. PICK r \in rules : least = gap(r)
  OBVIOUS
<1>8. \A s \in rules : specificityOf(s) <= specificityOf(r)
  <2> TAKE s \in rules
  <2>1. gap(r) <= gap(s)
    BY <1>6, <1>7
  <2> QED
    BY <2>1, <1>1, <1>2
<1>9. QED
  BY <1>8 DEF MostSpecific

-----------------------------------------------------------------------------
(* Two rules that both match a request overlap in every dimension and in     *)
(* time.                                                                     *)
LEMMA CandidatesOverlap ==
  ASSUME NEW dims, NEW at \in Int,
         NEW l \in Candidates(Rules, dims, at), NEW r \in Candidates(Rules, dims, at)
  PROVE  windowsOverlap(l, r) /\ dimensionsOverlap(l, r)
<1>1. IsRule(l) /\ IsRule(r)
  BY PricingAssumption DEF Candidates
<1>2. isEffective(l, at) /\ isEffective(r, at)
  BY DEF Candidates
<1>3. windowsOverlap(l, r)
  BY <1>1, <1>2 DEF IsRule, isEffective, windowsOverlap
<1>4. dimensionsOverlap(l, r)
  BY DEF Candidates, matchesDimensions, dimensionsOverlap
<1>5. QED
  BY <1>3, <1>4

(* The rule that the matcher takes for a request is the only most specific   *)
(* one: validateOverlaps leaves no tie for the order of the rules to break.  *)
THEOREM MatchIsUnique ==
  ASSUME NEW dims, NEW at \in Int
  PROVE  \A l, r \in MostSpecific(Candidates(Rules, dims, at)) : l = r
<1> DEFINE rows == Candidates(Rules, dims, at)
<1> SUFFICES ASSUME NEW l \in MostSpecific(rows), NEW r \in MostSpecific(rows), l # r
             PROVE  FALSE
  OBVIOUS
<1>1. l \in rows /\ r \in rows
  BY DEF MostSpecific
<1>2. l \in Rules /\ r \in Rules
  BY <1>1 DEF Candidates
<1>3. specificityOf(l) <= specificityOf(r) /\ specificityOf(r) <= specificityOf(l)
  BY <1>1 DEF MostSpecific
<1>4. specificityOf(l) = specificityOf(r)
  BY <1>2, <1>3, SpecificityBounded
<1>5. windowsOverlap(l, r) /\ dimensionsOverlap(l, r)
  BY <1>1, CandidatesOverlap
<1>6. QED
  BY <1>2, <1>4, <1>5, PricingAssumption DEF validateOverlaps

LEMMA MatchIsMostSpecific ==
  ASSUME NEW dims, NEW at \in Int, Candidates(Rules, dims, at) # {}
  PROVE  match(Rules, dims, at) \in MostSpecific(Candidates(Rules, dims, at))
<1>1. Candidates(Rules, dims, at) \in SUBSET Rules
  BY DEF Candidates
<1>2. MostSpecific(Candidates(Rules, dims, at)) # {}
  BY <1>1, MostSpecificExists
<1>3. QED
  BY <1>2 DEF match

-----------------------------------------------------------------------------
(* The engine sorts the rules that match by specificity, then by the start   *)
(* of their window and their identifier, and takes the first: that is the    *)
(* rule the matcher takes.  The two further keys never decide.               *)
THEOREM EngineTakesTheMatch ==
  ASSUME NEW dims, NEW at \in Int, Candidates(Rules, dims, at) # {}
  PROVE  (CHOOSE r \in Candidates(Rules, dims, at) :
            \A s \in Candidates(Rules, dims, at) \ {r} : Before(r, s)) = match(Rules, dims, at)
<1> DEFINE rows == Candidates(Rules, dims, at)
           best == match(Rules, dims, at)
           First(r) == \A s \in rows \ {r} : Before(r, s)
<1>1. best \in MostSpecific(rows)
  BY MatchIsMostSpecific
<1>2. best \in rows /\ \A s \in rows : specificityOf(s) <= specificityOf(best)
  BY <1>1 DEF MostSpecific
<1>3. \A r \in rows : specificityOf(r) \in Nat
  BY SpecificityBounded DEF Candidates
<1>4. \A s \in rows \ {best} : specificityOf(s) < specificityOf(best)
  <2> SUFFICES ASSUME NEW s \in rows, s # best, specificityOf(s) = specificityOf(best)
               PROVE  FALSE
    <3> HIDE DEF best, rows
    <3> QED
      BY <1>2, <1>3
  <2>1. s \in MostSpecific(rows)
    BY <1>2 DEF MostSpecific
  <2> HIDE DEF best, rows
  <2>2. QED
    BY <1>1, <2>1, MatchIsUnique DEF rows
<1>5. First(best)
  BY <1>2, <1>3, <1>4 DEF Before
<1>6. \A r \in rows : First(r) => r = best
  <2> SUFFICES ASSUME NEW r \in rows, First(r), r # best
               PROVE  FALSE
    OBVIOUS
  <2>1. Before(r, best) /\ specificityOf(r) < specificityOf(best)
    <3> HIDE DEF best, rows
    <3> QED
      BY <1>2, <1>4 DEF First
  <2>2. QED
    <3> HIDE DEF best, rows
    <3> QED
      BY <2>1, <1>2, <1>3 DEF Before
<1>7. QED
  <2> HIDE DEF best, rows, First
  <2>1. (CHOOSE r \in rows : First(r)) = best
    BY <1>2, <1>5, <1>6
  <2>2. QED
    BY <2>1 DEF rows, best, First

LEMMA ComponentsAgree ==
  ASSUME NEW count \in Nat \cup {Null}, NEW price \in Nat \cup {Null}, price # 0, NEW per
  PROVE  add(count, price, per) = componentCost(count, price, per)
<1>1. CASE count = Null
  BY <1>1, PricingAssumption DEF add, componentCost
<1>2. CASE count # Null
  BY <1>2, PricingAssumption DEF add, componentCost
<1>3. QED
  BY <1>1, <1>2

(* The engine stores the cost that the pipeline would compute, whatever the  *)
(* request and the rules, as long as no rule gives a component away for      *)
(* nothing: a count that is not reported is then unknown to the engine and   *)
(* free to the pipeline.                                                     *)
THEOREM PricesAgree ==
  ASSUME NEW dims, NEW at \in Int, NEW units \in Nat \cup {Null}, NEW toks \in Nat \cup {Null},
         NoFreeComponent(Rules)
  PROVE  applyPricing(Rules, dims, at, units, toks) = estimatePricing(Rules, dims, at, units, toks)
<1> DEFINE rows == Candidates(Rules, dims, at)
           best == match(Rules, dims, at)
<1>1. CASE rows = {}
  BY <1>1 DEF applyPricing, estimatePricing, match, MostSpecific
<1>2. CASE rows # {}
  <2>1. best \in Rules /\ best # Null
    BY <1>2, MatchIsMostSpecific, PricingAssumption DEF MostSpecific, Candidates
  <2>2. /\ best.unit \in Nat \cup {Null} /\ best.unit # 0
        /\ best.token \in Nat \cup {Null} /\ best.token # 0
    <3> HIDE DEF best
    <3> QED
      BY <2>1, PricingAssumption DEF IsRule, NoFreeComponent
  <2>3. add(units, best.unit, 1) = componentCost(units, best.unit, 1)
    BY <2>2, ComponentsAgree
  <2>4. add(toks, best.token, Million) = componentCost(toks, best.token, Million)
    BY <2>2, ComponentsAgree
  <2>5. applyPricing(Rules, dims, at, units, toks)
          = Total(best, add(units, best.unit, 1), add(toks, best.token, Million))
    BY <1>2, EngineTakesTheMatch DEF applyPricing
  <2>6. estimatePricing(Rules, dims, at, units, toks)
          = Total(best, componentCost(units, best.unit, 1), componentCost(toks, best.token, Million))
    BY <2>1 DEF estimatePricing
  <2>7. QED
    BY <2>3, <2>4, <2>5, <2>6
<1>3. QED
  BY <1>1, <1>2
=============================================================================
