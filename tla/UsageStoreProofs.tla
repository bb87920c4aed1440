--------------------------- MODULE UsageStoreProofs ---------------------------
(***************************************************************************)
(* Proofs about UsageStore, for every set of observations, readings and    *)
(* letters, every rule set, and every retention and batch limit: the types *)
(* of the tables, the agreement of the rollup tables with the request      *)
(* rows, the refinement of UsageLedger, and the seam between the client    *)
(* and the storage.                                                        *)
(***************************************************************************)
EXTENDS UsageStore, UsagePricingProofs

\* What is ingested bears a natural number of hours.
LEMMA ObservedAt == \A o \in Observations : o.at \in Nat
BY InputAssumption, RetentionAssumption DEF Hours

(* The prices of the ledger are those of the pipeline. *)
LEMMA SameCandidates ==
  \A rules, dims, at : Ledger!Candidates(rules, dims, at) = Candidates(rules, dims, at)
BY DEF Ledger!Candidates, Candidates, Ledger!isEffective, isEffective, Ledger!matchesDimensions, matchesDimensions

LEMMA SameSpecificity == \A rule : Ledger!specificityOf(rule) = specificityOf(rule)
BY DEF Ledger!specificityOf, specificityOf, Ledger!Cardinality, Cardinality

LEMMA SameMatch ==
  \A rules, dims, at : Ledger!match(rules, dims, at) = match(rules, dims, at)
<1> TAKE rules, dims, at
<1>1. Ledger!MostSpecific(Ledger!Candidates(rules, dims, at)) = MostSpecific(Candidates(rules, dims, at))
  BY SameSpecificity, SameCandidates DEF Ledger!MostSpecific, MostSpecific
<1> QED
  BY <1>1, SameCandidates DEF Ledger!match, match

LEMMA SameCost ==
  \A count, price, per : Ledger!componentCost(count, price, per) = componentCost(count, price, per)
BY DEF Ledger!componentCost, componentCost, Ledger!component, component, Ledger!cost, cost

LEMMA SamePrice ==
  ASSUME NEW rules, NEW dims, NEW at, NEW units, NEW toks
  PROVE  Ledger!estimatePricing(rules, dims, at, units, toks) = estimatePricing(rules, dims, at, units, toks)
<1>1. \A rule, unit, token : Ledger!Total(rule, unit, token) = Total(rule, unit, token)
  BY DEF Ledger!Total, Total
<1>2. Ledger!match(rules, dims, at) = match(rules, dims, at)
  BY SameMatch
<1>3. Ledger!Unpriced = Unpriced
  BY DEF Ledger!Unpriced, Unpriced
<1> QED
  BY <1>1, <1>2, <1>3, SameCost, Zenon DEF Ledger!estimatePricing, estimatePricing

-----------------------------------------------------------------------------
(* The join of observations, built one observation at a time.                *)

\* The values known of a field: no two of them differ.
OneKnown(values, unknown) == \A v, w \in values : v = w \/ unknown \in {v, w}

LEMMA AgreedKnown ==
  ASSUME NEW values, NEW unknown, values # {}, OneKnown(values, unknown)
  PROVE  /\ \A v \in values : v \in {unknown, Ledger!Agreed(values, unknown)}
         /\ Ledger!Agreed(values, unknown) \in values
<1>1. CASE values \subseteq {unknown}
  BY <1>1 DEF Ledger!Agreed
<1>2. CASE ~(values \subseteq {unknown})
  <2>1. Ledger!Agreed(values, unknown) \in values /\ Ledger!Agreed(values, unknown) # unknown
    BY <1>2 DEF Ledger!Agreed
  <2> QED
    BY <2>1 DEF OneKnown
<1> QED
  BY <1>1, <1>2

\* A further value replaces the mark of the unknown and nothing else.
LEMMA AgreedAdd ==
  ASSUME NEW values, NEW unknown, values # {}, NEW v, OneKnown(values \cup {v}, unknown)
  PROVE  Ledger!Agreed(values \cup {v}, unknown)
           = IF Ledger!Agreed(values, unknown) = unknown THEN v ELSE Ledger!Agreed(values, unknown)
<1> DEFINE old == Ledger!Agreed(values, unknown)
           new == Ledger!Agreed(values \cup {v}, unknown)
<1>1. OneKnown(values, unknown)
  BY DEF OneKnown
<1>2. /\ \A w \in values : w \in {unknown, old}
      /\ old \in values
  BY <1>1, AgreedKnown
<1>3. /\ \A w \in values \cup {v} : w \in {unknown, new}
      /\ new \in values \cup {v}
  BY AgreedKnown
<1> HIDE DEF old, new
<1> QED
  BY <1>2, <1>3 DEF old, new

(* A request row and what the merge makes of it, field by field. *)
LEMMA RowFields ==
  ASSUME NEW row, NEW req, NEW at, NEW core, NEW seen, NEW who, NEW toks, NEW price,
         row = [req |-> req, at |-> at, core |-> core, seen |-> seen, who |-> who, toks |-> toks, price |-> price]
  PROVE  /\ row.req = req /\ row.at = at /\ row.core = core /\ row.seen = seen
         /\ row.who = who /\ row.toks = toks /\ row.price = price
OBVIOUS
LEMMA PricedRow ==
  ASSUME NEW row, NEW req, NEW at, NEW core, NEW seen, NEW who, NEW toks, NEW price,
         row = [req |-> req, at |-> at, core |-> core, seen |-> seen, who |-> who, toks |-> toks, price |-> price]
  PROVE  Priced(row)
           = [req |-> req, at |-> at, core |-> core, seen |-> seen, who |-> who, toks |-> toks,
              price |-> applyPricing(Rules, Dims(who), at, 1, toks)]
<1>1. Priced(row) = [row EXCEPT !.price = applyPricing(Rules, Dims(who), at, 1, toks)]
  BY DEF Priced
<1> QED
  BY <1>1

(* Observations of one request that can be parts of a row.                   *)
Parts(parts, req) == parts # {} /\ Ledger!Compatible(parts) /\ \A o \in parts : o.req = req

LEMMA PartsKnown ==
  ASSUME NEW parts, NEW req, Parts(parts, req)
  PROVE  OneKnown({p.who : p \in parts}, "") /\ OneKnown({p.toks : p \in parts}, Null)
<1>1. ASSUME NEW p \in parts, NEW q \in parts
      PROVE  (p.who = q.who \/ "" \in {p.who, q.who}) /\ (p.toks = q.toks \/ Null \in {p.toks, q.toks})
  BY DEF Parts, Ledger!Compatible
<1>2. OneKnown({p.who : p \in parts}, "")
  BY <1>1 DEF OneKnown
<1>3. OneKnown({p.toks : p \in parts}, Null)
  BY <1>1 DEF OneKnown
<1> QED
  BY <1>2, <1>3

LEMMA JoinIs ==
  ASSUME NEW parts, NEW req, Parts(parts, req), NEW o \in parts
  PROVE  LET who  == Ledger!Agreed({p.who : p \in parts}, "")
             toks == Ledger!Agreed({p.toks : p \in parts}, Null)
         IN  Ledger!Join(parts)
               = [req |-> req, at |-> o.at, core |-> o.core, seen |-> {p.src : p \in parts},
                  who |-> who, toks |-> toks,
                  price |-> estimatePricing(Rules, Dims(who), o.at, 1, toks)]
<1> DEFINE one == CHOOSE p \in parts : TRUE
<1>1. one \in parts
  OBVIOUS
<1>2. one.req = req /\ one.at = o.at /\ one.core = o.core
  <2> HIDE DEF one
  <2> QED
    BY <1>1 DEF Parts, Ledger!Compatible
<1> QED
  BY <1>2, SamePrice DEF Ledger!Join, Dims

Blank == ""

LEMMA JoinFields ==
  ASSUME NEW parts, NEW req, Parts(parts, req), NEW o \in parts,
         NEW row, row = Ledger!Join(parts)
  PROVE  /\ row.req = req /\ row.at = o.at /\ row.core = o.core
         /\ row.seen = {p.src : p \in parts}
         /\ row.who \in {p.who : p \in parts} /\ o.who \in {Blank, row.who}
         /\ row.toks \in {p.toks : p \in parts} /\ o.toks \in {Null, row.toks}
<1> DEFINE whos  == {p.who : p \in parts}
           tokss == {p.toks : p \in parts}
<1>1. whos # {} /\ tokss # {} /\ o.who \in whos /\ o.toks \in tokss
  OBVIOUS
<1>2. OneKnown(whos, "") /\ OneKnown(tokss, Null)
  BY PartsKnown
<1> HIDE DEF whos, tokss
<1>3. Ledger!Agreed(whos, "") \in whos /\ o.who \in {"", Ledger!Agreed(whos, "")}
  BY <1>1, <1>2, AgreedKnown
<1>4. Ledger!Agreed(tokss, Null) \in tokss /\ o.toks \in {Null, Ledger!Agreed(tokss, Null)}
  BY <1>1, <1>2, AgreedKnown
<1> DEFINE seen == {p.src : p \in parts}
           who  == Ledger!Agreed(whos, "")
           toks == Ledger!Agreed(tokss, Null)
<1>5. \E price : Ledger!Join(parts) = [req |-> req, at |-> o.at, core |-> o.core, seen |-> seen,
                                       who |-> who, toks |-> toks, price |-> price]
  BY JoinIs DEF whos, tokss
<1> HIDE DEF seen, who, toks
<1>6. /\ Ledger!Join(parts).req = req /\ Ledger!Join(parts).at = o.at /\ Ledger!Join(parts).core = o.core
      /\ Ledger!Join(parts).seen = seen
      /\ Ledger!Join(parts).who = who /\ Ledger!Join(parts).toks = toks
  BY <1>5
<1> QED
  BY <1>3, <1>4, <1>6 DEF whos, tokss, seen, who, toks, Blank

LEMMA JoinKeys ==
  ASSUME NEW parts, NEW req, Parts(parts, req), NEW o \in parts
  PROVE  Ledger!Join(parts).req = req /\ Ledger!Join(parts).at = o.at
<1> DEFINE row == Ledger!Join(parts)
<1>1. row = Ledger!Join(parts)
  OBVIOUS
<1> HIDE DEF row
<1>2. row.req = req /\ row.at = o.at
  BY <1>1, JoinFields
<1>3. QED
  BY <1>1, <1>2

(* A row that the store makes or merges is the join of its observations.     *)
LEMMA JoinNew ==
  ASSUME NoFreeComponent(Rules), NEW o \in Observations, Parts({o}, o.req)
  PROVE  Ledger!Join({o}) = Priced(newRequest(o))
<1>1. o.at \in Int /\ o.toks \in Nat \cup {Null}
  BY InputAssumption, ObservedAt
<1>2. {p.who : p \in {o}} = {o.who} /\ {p.toks : p \in {o}} = {o.toks} /\ {p.src : p \in {o}} = {o.src}
  OBVIOUS
<1>3. Ledger!Agreed({o.who}, "") = o.who /\ Ledger!Agreed({o.toks}, Null) = o.toks
  BY DEF Ledger!Agreed
<1>4. applyPricing(Rules, Dims(o.who), o.at, 1, o.toks) = estimatePricing(Rules, Dims(o.who), o.at, 1, o.toks)
  BY <1>1, PricesAgree
<1>5. o \in {o}
  OBVIOUS
<1>6. Ledger!Join({o})
        = [req |-> o.req, at |-> o.at, core |-> o.core, seen |-> {p.src : p \in {o}},
           who |-> Ledger!Agreed({p.who : p \in {o}}, ""), toks |-> Ledger!Agreed({p.toks : p \in {o}}, Null),
           price |-> estimatePricing(Rules, Dims(Ledger!Agreed({p.who : p \in {o}}, "")), o.at, 1,
                                     Ledger!Agreed({p.toks : p \in {o}}, Null))]
  BY <1>5, JoinIs
<1>7. Ledger!Join({o})
        = [req |-> o.req, at |-> o.at, core |-> o.core, seen |-> {o.src}, who |-> o.who, toks |-> o.toks,
           price |-> estimatePricing(Rules, Dims(o.who), o.at, 1, o.toks)]
  BY <1>2, <1>3, <1>6
<1> QED
  BY <1>4, <1>7 DEF Priced, newRequest

LEMMA JoinAdd ==
  ASSUME NoFreeComponent(Rules), NEW req, NEW parts \in SUBSET Observations, Parts(parts, req),
         NEW o \in Observations, Parts(parts \cup {o}, req)
  PROVE  Ledger!Join(parts \cup {o}) = Priced(mergeRequest(Ledger!Join(parts), o))
<1> DEFINE more == parts \cup {o}
           who  == Ledger!Agreed({p.who : p \in parts}, "")
           toks == Ledger!Agreed({p.toks : p \in parts}, Null)
           newwho  == Ledger!Agreed({p.who : p \in more}, "")
           newtoks == Ledger!Agreed({p.toks : p \in more}, Null)
<1>1. PICK p \in parts : TRUE
  BY DEF Parts
<1>2. p.at = o.at /\ p.core = o.core
  BY DEF Parts, Ledger!Compatible
<1>3. Ledger!Join(parts)
        = [req |-> req, at |-> o.at, core |-> o.core, seen |-> {q.src : q \in parts},
           who |-> who, toks |-> toks, price |-> estimatePricing(Rules, Dims(who), o.at, 1, toks)]
  BY <1>2, JoinIs
<1>4. Ledger!Join(more)
        = [req |-> req, at |-> o.at, core |-> o.core, seen |-> {q.src : q \in parts} \cup {o.src},
           who |-> newwho, toks |-> newtoks,
           price |-> estimatePricing(Rules, Dims(newwho), o.at, 1, newtoks)]
  <2>1. o \in more /\ {q.src : q \in more} = {q.src : q \in parts} \cup {o.src}
    OBVIOUS
  <2> QED
    BY <2>1, JoinIs
<1>5. newwho = IF who = "" THEN o.who ELSE who
  <2>1. {q.who : q \in more} = {q.who : q \in parts} \cup {o.who} /\ {q.who : q \in parts} # {}
    BY <1>1
  <2>2. OneKnown({q.who : q \in parts} \cup {o.who}, "")
    BY <2>1, PartsKnown
  <2>3. Ledger!Agreed({q.who : q \in parts} \cup {o.who}, "") = IF who = "" THEN o.who ELSE who
    BY <2>1, <2>2, AgreedAdd
  <2> QED
    BY <2>1, <2>3
<1>6. newtoks = IF toks = Null THEN o.toks ELSE toks
  <2>1. {q.toks : q \in more} = {q.toks : q \in parts} \cup {o.toks} /\ {q.toks : q \in parts} # {}
    BY <1>1
  <2>2. OneKnown({q.toks : q \in parts} \cup {o.toks}, Null)
    BY <2>1, PartsKnown
  <2>3. Ledger!Agreed({q.toks : q \in parts} \cup {o.toks}, Null) = IF toks = Null THEN o.toks ELSE toks
    BY <2>1, <2>2, AgreedAdd
  <2> QED
    BY <2>1, <2>3
<1>7. o.at \in Int /\ newtoks \in Nat \cup {Null}
  <2>1. OneKnown({q.toks : q \in parts}, Null) /\ {q.toks : q \in parts} # {}
    BY <1>1, PartsKnown
  <2>2. toks \in {q.toks : q \in parts}
    BY <2>1, AgreedKnown
  <2> QED
    BY <1>6, <2>2, InputAssumption, ObservedAt
<1>8. applyPricing(Rules, Dims(newwho), o.at, 1, newtoks) = estimatePricing(Rules, Dims(newwho), o.at, 1, newtoks)
  <2> HIDE DEF newwho, newtoks
  <2> QED
    BY <1>7, PricesAgree
<1> HIDE DEF who, toks, newwho, newtoks
<1> DEFINE price == estimatePricing(Rules, Dims(who), o.at, 1, toks)
           newprice == estimatePricing(Rules, Dims(newwho), o.at, 1, newtoks)
           seen == {q.src : q \in parts}
<1> HIDE DEF price, newprice, seen
<1> DEFINE merged == mergeRequest(Ledger!Join(parts), o)
<1>9. merged = [req |-> req, at |-> o.at, core |-> o.core, seen |-> seen \cup {o.src},
                who |-> newwho, toks |-> newtoks, price |-> price]
  <2>1. Ledger!Join(parts) = [req |-> req, at |-> o.at, core |-> o.core, seen |-> seen,
                              who |-> who, toks |-> toks, price |-> price]
    BY <1>3 DEF price, seen
  <2> DEFINE row == Ledger!Join(parts)
             at == o.at
             core == o.core
  <2> HIDE DEF row, at, core
  <2>2. merged = [row EXCEPT !.seen = seen \cup {o.src}, !.who = newwho, !.toks = newtoks]
    <3>1. row.seen = seen /\ row.who = who /\ row.toks = toks
      BY <2>1 DEF row
    <3>2. merged = [row EXCEPT !.seen = row.seen \cup {o.src},
                               !.who = IF row.who = "" THEN o.who ELSE row.who,
                               !.toks = IF row.toks = Null THEN o.toks ELSE row.toks]
      BY DEF row, merged, mergeRequest
    <3> DEFINE w == IF row.who = "" THEN o.who ELSE row.who
               t == IF row.toks = Null THEN o.toks ELSE row.toks
    <3>3. w = newwho /\ t = newtoks
      BY <3>1, <1>5, <1>6
    <3> QED
      BY <3>1, <3>2, <3>3, Zenon
  <2>3. row = [req |-> req, at |-> at, core |-> core, seen |-> seen,
               who |-> who, toks |-> toks, price |-> price]
    BY <2>1 DEF row, at, core
  <2>4. merged = [req |-> req, at |-> at, core |-> core, seen |-> seen \cup {o.src},
                  who |-> newwho, toks |-> newtoks, price |-> price]
    <3> HIDE DEF merged
    <3> QED
      BY <2>2, <2>3
  <2> QED
    BY <2>4 DEF at, core
<1> HIDE DEF merged
<1>10. Priced(merged)
         = [req |-> req, at |-> o.at, core |-> o.core, seen |-> seen \cup {o.src},
            who |-> newwho, toks |-> newtoks, price |-> newprice]
  BY <1>8, <1>9, PricedRow DEF newprice
<1> QED
  BY <1>4, <1>10 DEF newprice, seen, merged

(* What does not conflict with a row can be one of its parts.                *)
LEMMA FitsRow ==
  ASSUME NEW parts, NEW req, Parts(parts, req), NEW o, o.req = req,
         ~Conflicting(Ledger!Join(parts), o)
  PROVE  Parts(parts \cup {o}, req)
<1> DEFINE row == Ledger!Join(parts)
<1>0. row = Ledger!Join(parts)
  OBVIOUS
<1> HIDE DEF row
<1>1. ASSUME NEW p \in parts
      PROVE  /\ row.at = p.at /\ row.core = p.core /\ p.src \in row.seen
             /\ p.who \in {Blank, row.who} /\ p.toks \in {Null, row.toks}
  <2>1. /\ row.at = p.at /\ row.core = p.core /\ row.seen = {q.src : q \in parts}
        /\ p.who \in {Blank, row.who} /\ p.toks \in {Null, row.toks}
    BY <1>0, JoinFields
  <2> QED
    BY <2>1
<1>2. \A p \in parts :
        /\ o.at = p.at /\ o.core = p.core /\ o.src # p.src
        /\ o.who = p.who \/ "" \in {o.who, p.who}
        /\ o.toks = p.toks \/ Null \in {o.toks, p.toks}
  <2> TAKE p \in parts
  <2>1. /\ ~(row.at # o.at \/ row.core # o.core) /\ o.src \notin row.seen
        /\ o.who = row.who \/ "" \in {o.who, row.who}
        /\ o.toks = row.toks \/ Null \in {o.toks, row.toks}
    BY <1>0 DEF Conflicting
  <2>2. QED
    BY <1>1, <2>1 DEF Blank
<1>3. /\ \A p, q \in parts :
           /\ p.at = q.at /\ p.core = q.core /\ (p.src = q.src => p = q)
           /\ p.who = q.who \/ "" \in {p.who, q.who}
           /\ p.toks = q.toks \/ Null \in {p.toks, q.toks}
      /\ parts # {} /\ \A p \in parts : p.req = req
  BY DEF Parts, Ledger!Compatible
<1>4. ASSUME NEW p \in parts \cup {o}, NEW q \in parts \cup {o}
      PROVE  /\ p.at = q.at /\ p.core = q.core /\ (p.src = q.src => p = q)
             /\ p.who = q.who \/ "" \in {p.who, q.who}
             /\ p.toks = q.toks \/ Null \in {p.toks, q.toks}
  <2>1. CASE p \in parts /\ q \in parts
    BY <1>3, <2>1
  <2>2. CASE p = o /\ q \in parts
    BY <1>2, <2>2
  <2>3. CASE p \in parts /\ q = o
    BY <1>2, <2>3
  <2>4. CASE p = o /\ q = o
    BY <2>4
  <2>5. QED
    BY <2>1, <2>2, <2>3, <2>4
<1> QED
  BY <1>3, <1>4, ZenonT(40) DEF Parts, Ledger!Compatible

(* The rows of a set of observations, when one more of them is accepted.     *)
Joined(obs) == \A p \in obs : Parts(Ledger!PartsOf(p.req, obs), p.req)

LEMMA RowOfRequest ==
  ASSUME NEW obs, Joined(obs)
  PROVE  /\ \A p \in obs : Ledger!Join(Ledger!PartsOf(p.req, obs)).req = p.req
         /\ \A row \in Ledger!RowsOf(obs) :
              \E p \in obs : row.req = p.req /\ row = Ledger!Join(Ledger!PartsOf(p.req, obs))
<1>1. ASSUME NEW p \in obs
      PROVE  Ledger!Join(Ledger!PartsOf(p.req, obs)).req = p.req
  <2>1. Parts(Ledger!PartsOf(p.req, obs), p.req) /\ p \in Ledger!PartsOf(p.req, obs)
    BY DEF Joined, Ledger!PartsOf
  <2> QED
    BY <2>1, JoinKeys
<1>2. ASSUME NEW row \in Ledger!RowsOf(obs)
      PROVE  \E p \in obs : row.req = p.req /\ row = Ledger!Join(Ledger!PartsOf(p.req, obs))
  <2>1. PICK r \in {p.req : p \in obs} : row = Ledger!Join(Ledger!PartsOf(r, obs))
    BY Zenon DEF Ledger!RowsOf
  <2>2. PICK p \in obs : r = p.req
    OBVIOUS
  <2>3. Ledger!Join(Ledger!PartsOf(p.req, obs)).req = p.req
    BY <1>1
  <2> QED
    BY <2>1, <2>2, <2>3
<1> QED
  BY <1>1, <1>2

LEMMA RowOfPart ==
  ASSUME NEW obs, Joined(obs), NEW p \in obs, NEW row, row = Ledger!Join(Ledger!PartsOf(p.req, obs))
  PROVE  row \in Ledger!RowsOf(obs) /\ row.req = p.req /\ row.at = p.at
<1>1. Parts(Ledger!PartsOf(p.req, obs), p.req) /\ p \in Ledger!PartsOf(p.req, obs)
  BY DEF Joined, Ledger!PartsOf
<1>2. row.req = p.req /\ row.at = p.at
  BY <1>1, JoinKeys
<1>3. row \in {Ledger!Join(Ledger!PartsOf(r, obs)) : r \in {q.req : q \in obs}}
  OBVIOUS
<1>4. QED
  BY <1>2, <1>3 DEF Ledger!RowsOf

LEMMA RowsOfOne ==
  ASSUME NEW obs, Joined(obs), NEW o
  PROVE  {row \in Ledger!RowsOf(obs) : row.req = o.req}
           = IF Ledger!PartsOf(o.req, obs) = {} THEN {} ELSE {Ledger!Join(Ledger!PartsOf(o.req, obs))}
<1> DEFINE mine == Ledger!PartsOf(o.req, obs)
<1>1. ASSUME NEW row \in Ledger!RowsOf(obs), row.req = o.req
      PROVE  mine # {} /\ row = Ledger!Join(mine)
  <2>1. PICK p \in obs : row.req = p.req /\ row = Ledger!Join(Ledger!PartsOf(p.req, obs))
    BY RowOfRequest
  <2>2. p \in mine
    BY <1>1, <2>1 DEF Ledger!PartsOf
  <2> QED
    BY <1>1, <2>1, <2>2
<1>2. ASSUME NEW p \in mine
      PROVE  Ledger!Join(mine) \in Ledger!RowsOf(obs) /\ Ledger!Join(mine).req = o.req
  <2>1. p \in obs /\ p.req = o.req
    BY DEF Ledger!PartsOf
  <2> QED
    BY <2>1, RowOfRequest DEF Ledger!RowsOf
<1> HIDE DEF mine
<1> QED
  BY <1>1, <1>2 DEF mine

LEMMA RowsAdd ==
  ASSUME NEW obs, Joined(obs), NEW o, Parts(Ledger!PartsOf(o.req, obs) \cup {o}, o.req)
  PROVE  /\ Joined(obs \cup {o})
         /\ Ledger!RowsOf(obs \cup {o})
              = {row \in Ledger!RowsOf(obs) : row.req # o.req}
                  \cup {Ledger!Join(Ledger!PartsOf(o.req, obs) \cup {o})}
<1> DEFINE more == obs \cup {o}
<1>1. Ledger!PartsOf(o.req, more) = Ledger!PartsOf(o.req, obs) \cup {o}
  BY DEF Ledger!PartsOf
<1>2. \A p \in more : p.req # o.req => p \in obs /\ Ledger!PartsOf(p.req, more) = Ledger!PartsOf(p.req, obs)
  BY DEF Ledger!PartsOf
<1>3. Joined(more)
  BY <1>1, <1>2 DEF Joined
<1>4. ASSUME NEW row \in Ledger!RowsOf(more)
      PROVE  \/ row \in Ledger!RowsOf(obs) /\ row.req # o.req
             \/ row = Ledger!Join(Ledger!PartsOf(o.req, obs) \cup {o})
  <2>1. PICK p \in more : row.req = p.req /\ row = Ledger!Join(Ledger!PartsOf(p.req, more))
    BY <1>3, RowOfRequest
  <2>2. CASE p.req = o.req
    BY <2>1, <2>2, <1>1
  <2>3. CASE p.req # o.req
    BY <2>1, <2>3, <1>2 DEF Ledger!RowsOf
  <2> QED
    BY <2>2, <2>3
<1>5. ASSUME NEW row \in Ledger!RowsOf(obs), row.req # o.req
      PROVE  row \in Ledger!RowsOf(more)
  <2>1. PICK p \in obs : row.req = p.req /\ row = Ledger!Join(Ledger!PartsOf(p.req, obs))
    BY RowOfRequest
  <2>2. Ledger!PartsOf(p.req, more) = Ledger!PartsOf(p.req, obs) /\ p \in more
    BY <1>2, <1>5, <2>1
  <2> QED
    BY <2>1, <2>2 DEF Ledger!RowsOf
<1>6. Ledger!Join(Ledger!PartsOf(o.req, obs) \cup {o}) \in Ledger!RowsOf(more)
  BY <1>1 DEF Ledger!RowsOf
<1> QED
  BY <1>3, <1>4, <1>5, <1>6

(* Dropping all the observations of some requests drops their rows.          *)
RowParts(obs, kept) == {p \in obs : \E row \in kept : row.req = p.req}

LEMMA RowsKept ==
  ASSUME NEW obs, Joined(obs), NEW kept, kept \subseteq Ledger!RowsOf(obs)
  PROVE  /\ Joined(RowParts(obs, kept)) /\ Ledger!RowsOf(RowParts(obs, kept)) = kept
         /\ \A p \in obs \ RowParts(obs, kept) : Ledger!PartsOf(p.req, RowParts(obs, kept)) = {}
<1> DEFINE rest == {p \in obs : \E row \in kept : row.req = p.req}
<1>1. \A p \in rest : Ledger!PartsOf(p.req, rest) = Ledger!PartsOf(p.req, obs) /\ p \in obs
  BY DEF Ledger!PartsOf
<1>2. \A p \in obs \ rest : Ledger!PartsOf(p.req, rest) = {}
  BY DEF Ledger!PartsOf
<1>3. Joined(rest)
  BY <1>1 DEF Joined
<1>4. ASSUME NEW row \in kept
      PROVE  row \in Ledger!RowsOf(rest)
  <2>1. PICK p \in obs : row.req = p.req /\ row = Ledger!Join(Ledger!PartsOf(p.req, obs))
    BY RowOfRequest
  <2>2. p \in rest
    BY <2>1
  <2> QED
    BY <2>1, <2>2, <1>1 DEF Ledger!RowsOf
<1>5. ASSUME NEW row \in Ledger!RowsOf(rest)
      PROVE  row \in kept
  <2>1. PICK p \in rest : row = Ledger!Join(Ledger!PartsOf(p.req, rest))
    BY DEF Ledger!RowsOf
  <2>2. p \in obs /\ row = Ledger!Join(Ledger!PartsOf(p.req, obs))
    BY <1>1, <2>1
  <2>3. PICK other \in kept : other.req = p.req
    BY <2>1
  <2>4. PICK q \in obs : other.req = q.req /\ other = Ledger!Join(Ledger!PartsOf(q.req, obs))
    BY RowOfRequest
  <2> QED
    BY <2>2, <2>3, <2>4
<1> QED
  BY <1>2, <1>3, <1>4, <1>5 DEF RowParts

-----------------------------------------------------------------------------
(* The clock, the cutoffs and what a maintenance may delete.                 *)
LEMMA BucketBounds ==
  ASSUME NEW t \in Nat, NEW size \in Nat \ {0}
  PROVE  utcBucket(t, size) \in Nat /\ utcBucket(t, size) <= t
<1>1. t % size \in 0..(size - 1)
  OBVIOUS
<1>2. t % size <= t
  OBVIOUS
<1> QED
  BY <1>1, <1>2 DEF utcBucket

LEMMA RetentionOrder == RawDays * DayLen \in Nat /\ RollupDays * DayLen \in Nat /\ RawDays * DayLen <= RollupDays * DayLen
BY RetentionAssumption

LEMMA Cutoffs ==
  ASSUME now \in Nat
  PROVE  /\ RawCutoff \in Int /\ RollupCutoff \in Int /\ RollupCutoff <= RawCutoff
         /\ RollupCutoff <= now - RollupDays * DayLen
<1> DEFINE rawSpan == RawDays * DayLen
           rollupSpan == RollupDays * DayLen
<1>1. rawSpan \in Nat /\ rollupSpan \in Nat /\ rawSpan <= rollupSpan
  BY RetentionOrder
<1>2. Day(now) \in Nat /\ Day(now) <= now
  BY BucketBounds, RetentionAssumption DEF Day
<1>3. RawCutoff = Day(now) - rawSpan /\ RollupCutoff = Day(now) - rollupSpan
  BY DEF RawCutoff, RollupCutoff
<1> HIDE DEF rawSpan, rollupSpan
<1>4. RollupCutoff <= now - rollupSpan
  BY <1>1, <1>2, <1>3
<1> QED
  BY <1>1, <1>2, <1>3, <1>4 DEF rollupSpan

LEMMA BatchKeeps ==
  ASSUME NEW table, NEW expired, NEW left \in deleteBatches(table, expired)
  PROVE  left \subseteq table /\ table \ left \subseteq expired
<1>1. PICK n : left \in {table \ gone : gone \in kSubset(n, expired)}
  BY DEF deleteBatches
<1>2. \A gone \in kSubset(n, expired) : gone \subseteq expired
  BY DEF kSubset
<1> QED
  BY <1>1, <1>2

-----------------------------------------------------------------------------
(* The invariant of the refinement.  The rows are the joins of the current   *)
(* observations, and an event that was accepted in its time is remembered:   *)
(* its receipt is there, not younger in the event's time than in the         *)
(* receipt's, or the event is outside the retention and refused for that.    *)
Remembered(p) ==
  \/ OutsideRetention(p.at)
  \/ \E r \in receipts : r.kind = Kind(p.src) /\ r.key = p.key /\ p.at <= r.last

StoreInv ==
  /\ now \in Nat /\ horizon \in Nat
  /\ due \subseteq Observations /\ current \subseteq Observations
  /\ Joined(current) /\ raw = Ledger!RowsOf(current)
  /\ \A r \in receipts : r.last \in Nat
  /\ \A p \in due : p.at <= now /\ Remembered(p)

LEMMA InitStoreInv == Init => StoreInv /\ Ledger!Init
BY DEF Init, StoreInv, Joined, Ledger!RowsOf, Ledger!Init

(* A receipt is replaced by one that is as young or younger.                 *)
LEMMA RememberedStep ==
  ASSUME StoreInv, now' = now, NEW p \in due, \A r \in receipts' : r.last \in Nat,
         \A r \in receipts : \/ r \in receipts'
                             \/ r.last < RollupCutoff
                             \/ \E s \in receipts' : s.kind = r.kind /\ s.key = r.key /\ s.last = now
  PROVE  Remembered(p)'
<1> DEFINE age == RollupDays * DayLen
<1>1. age \in Nat /\ now \in Nat /\ p.at \in Nat /\ p.at <= now
  BY RetentionOrder, ObservedAt DEF StoreInv
<1>2. RollupCutoff \in Int /\ RollupCutoff <= now - age
  BY <1>1, Cutoffs
<1>3. CASE OutsideRetention(p.at)
  BY <1>3 DEF Remembered, OutsideRetention
<1>4. ASSUME NEW r \in receipts, r.kind = Kind(p.src), r.key = p.key, p.at <= r.last
      PROVE  Remembered(p)'
  <2>1. r.last \in Nat
    BY DEF StoreInv
  <2>2. CASE r \in receipts'
    BY <1>4, <2>2 DEF Remembered
  <2>3. CASE r.last < RollupCutoff
    <3>1. p.at < now - age
      <4> HIDE DEF age
      <4> QED
        BY <1>1, <1>2, <1>4, <2>1, <2>3
    <3> QED
      BY <3>1 DEF Remembered, OutsideRetention
  <2>4. CASE \E s \in receipts' : s.kind = r.kind /\ s.key = r.key /\ s.last = now
    BY <1>1, <1>4, <2>4 DEF Remembered
  <2> QED
    BY <2>2, <2>3, <2>4
<1> QED
  BY <1>3, <1>4 DEF StoreInv, Remembered

(* The receipts after an event that is known, or new.                        *)
LEMMA ReceiptsAfter ==
  ASSUME StoreInv, NEW kind, NEW src, NEW o,
         KnownEvent(kind, src, o) \/ insertReceipt(kind, o)
  PROVE  /\ \A r \in receipts' : r.last \in Nat
         /\ \A r \in receipts :
              r \in receipts' \/ \E s \in receipts' : s.kind = r.kind /\ s.key = r.key /\ s.last = now
<1> DEFINE new == Receipt(kind, o)
<1>1. new.kind = kind /\ new.key = o.key /\ new.last = now /\ now \in Nat
  BY DEF Receipt, StoreInv
<1>2. \A r \in receipts : r.last \in Nat
  BY DEF StoreInv
<1>3. \/ receipts' = receipts
      \/ receipts' = receipts \cup {new}
      \/ receipts' = (receipts \ ReceiptsOf(kind, o.key)) \cup {new}
  BY DEF KnownEvent, insertReceipt, touchReceipt
<1> HIDE DEF new
<1> QED
  BY <1>1, <1>2, <1>3 DEF ReceiptsOf

(* What leaves the receipts and the rows alone.                              *)
LEMMA RowsUntouched ==
  ASSUME StoreInv, UNCHANGED <<raw, due, current, horizon>>,
         now' \in Nat, now <= now',
         \/ receipts' = receipts
         \/ now' = now /\ (\A r \in receipts' : r.last \in Nat)
            /\ \A p \in due : Remembered(p)'
  PROVE  StoreInv' /\ [Ledger!Next]_(Ledger!vars)
<1>1. Ledger!Tick
  BY DEF Ledger!Tick, StoreInv
<1>2. CASE receipts' = receipts
  <2> DEFINE age == RollupDays * DayLen
  <2>1. age \in Nat
    BY RetentionOrder
  <2>2. ASSUME NEW p \in due
        PROVE  p.at <= now' /\ Remembered(p)'
    <3>1. p.at \in Nat /\ p.at <= now /\ now \in Nat /\ Remembered(p)
      BY ObservedAt DEF StoreInv
    <3>2. OutsideRetention(p.at) => OutsideRetention(p.at)'
      <4>1. p.at < now - age => p.at < now' - age
        <5> HIDE DEF age
        <5> QED
          BY <2>1, <3>1
      <4> QED
        BY <4>1 DEF OutsideRetention
    <3> QED
      BY <1>2, <3>1, <3>2 DEF Remembered
  <2> QED
    BY <1>1, <1>2, <2>2 DEF StoreInv, Ledger!Next
<1>3. CASE now' = now /\ (\A r \in receipts' : r.last \in Nat) /\ \A p \in due : Remembered(p)'
  BY <1>1, <1>3 DEF StoreInv, Ledger!Next
<1> QED
  BY <1>2, <1>3

(* A new event: its row becomes the join of its observations.                *)
LEMMA AcceptStep ==
  ASSUME StoreInv, NoFreeComponent(Rules), NEW o \in Observations, ~OutsideRetention(o.at),
         ReceiptsOf(Kind(o.src), o.key) = {}, insertReceipt(Kind(o.src), o),
         \A row \in raw : row.req = o.req => ~Conflicting(row, o),
         LET previous == {row \in raw : row.req = o.req}
         IN  raw' = (raw \ previous)
                      \cup {Priced(IF previous = {} THEN newRequest(o)
                                   ELSE mergeRequest(CHOOSE row \in previous : TRUE, o))},
         due' = (IF o.at <= now THEN due \cup {o} ELSE due), current' = current \cup {o},
         UNCHANGED <<now, horizon>>
  PROVE  StoreInv' /\ Ledger!Accept(o)
<1> DEFINE mine == Ledger!PartsOf(o.req, current)
           previous == {row \in raw : row.req = o.req}
           age == RollupDays * DayLen
<1>1. Joined(current) /\ raw = Ledger!RowsOf(current) /\ mine \subseteq Observations
  BY DEF StoreInv, Ledger!PartsOf
<1>2. previous = IF mine = {} THEN {} ELSE {Ledger!Join(mine)}
  BY <1>1, RowsOfOne
<1>3. mine # {} => Parts(mine, o.req) /\ ~Conflicting(Ledger!Join(mine), o)
  <2>1. ASSUME mine # {} PROVE Parts(mine, o.req)
    BY <1>1, <2>1 DEF Joined, Ledger!PartsOf
  <2>2. mine # {} => Ledger!Join(mine) \in previous
    BY <1>2
  <2> QED
    BY <2>1, <2>2
<1>4. Parts(mine \cup {o}, o.req)
  <2>1. CASE mine = {}
    BY <2>1 DEF Parts, Ledger!Compatible
  <2>2. CASE mine # {}
    BY <2>2, <1>3, FitsRow
  <2> QED
    BY <2>1, <2>2
<1>5. raw' = (raw \ previous) \cup {Ledger!Join(mine \cup {o})}
  <2>1. CASE mine = {}
    <3>1. Ledger!Join(mine \cup {o}) = Priced(newRequest(o)) /\ previous = {}
      BY <2>1, <1>2, <1>4, JoinNew
    <3> QED
      BY <3>1
  <2>2. CASE mine # {}
    <3>1. Ledger!Join(mine \cup {o}) = Priced(mergeRequest(Ledger!Join(mine), o))
      <4> HIDE DEF mine
      <4> QED
        BY <2>2, <1>1, <1>3, <1>4, JoinAdd
    <3>2. previous = {Ledger!Join(mine)} /\ (CHOOSE row \in previous : TRUE) = Ledger!Join(mine)
      BY <2>2, <1>2
    <3> QED
      BY <3>1, <3>2
  <2> QED
    BY <2>1, <2>2
<1>6. Joined(current') /\ raw' = Ledger!RowsOf(current')
  <2> DEFINE more == current \cup {o}
  <2>1. /\ Joined(more)
        /\ Ledger!RowsOf(more) = {row \in Ledger!RowsOf(current) : row.req # o.req} \cup {Ledger!Join(mine \cup {o})}
    BY <1>1, <1>4, RowsAdd
  <2>2. raw \ previous = {row \in Ledger!RowsOf(current) : row.req # o.req}
    BY <1>1
  <2>3. current' = more
    OBVIOUS
  <2> HIDE DEF more, previous, mine
  <2> QED
    BY <1>5, <2>1, <2>2, <2>3
<1>7. (\A r \in receipts' : r.last \in Nat) /\ \A p \in due : Remembered(p)'
  BY ReceiptsAfter, RememberedStep
<1>8. o.at <= now => Remembered(o)'
  <2> DEFINE r == Receipt(Kind(o.src), o)
  <2>1. r \in receipts' /\ r.kind = Kind(o.src) /\ r.key = o.key /\ r.last = now
    BY DEF insertReceipt, Receipt
  <2> QED
    BY <2>1 DEF Remembered
<1>9. StoreInv'
  <2>1. due' \subseteq Observations /\ \A p \in due' : p \in due \/ (p = o /\ o.at <= now)
    BY DEF StoreInv
  <2> QED
    BY <1>6, <1>7, <1>8, <2>1 DEF StoreInv
<1>10. ASSUME NEW p \in due, p.src = o.src, p.key = o.key
       PROVE  p.at < o.at
  <2>1. OutsideRetention(p.at)
    BY <1>10 DEF StoreInv, Remembered, ReceiptsOf
  <2>2. age \in Nat /\ now \in Nat /\ p.at \in Nat /\ o.at \in Nat
    BY RetentionOrder, ObservedAt DEF StoreInv
  <2>3. p.at < now - age /\ ~(o.at < now - age)
    BY <2>1 DEF OutsideRetention
  <2> HIDE DEF age
  <2> QED
    BY <2>2, <2>3
<1>11. Ledger!Compatible(mine \cup {o})
  BY <1>4 DEF Parts
<1> QED
  BY <1>6, <1>9, <1>10, <1>11 DEF Ledger!Accept

(* Maintenance forgets rows before the horizon, and receipts of events that  *)
(* have left the retention.                                                  *)
LEMMA MaintainStep ==
  ASSUME StoreInv, maintain
  PROVE  StoreInv' /\ Ledger!Forget
<1>1. /\ raw' \subseteq raw /\ \A row \in raw \ raw' : row.at < RawCutoff
      /\ receipts' \subseteq receipts /\ \A r \in receipts \ receipts' : r.last < RollupCutoff
  BY BatchKeeps DEF maintain
<1>2. Joined(current) /\ raw = Ledger!RowsOf(current) /\ current \subseteq Observations
  BY DEF StoreInv
<1>3. current' = {p \in current : \E row \in raw' : row.req = p.req}
  BY DEF maintain
<1>4. /\ Joined(current') /\ raw' = Ledger!RowsOf(current')
      /\ \A p \in current \ current' : Ledger!PartsOf(p.req, current') = {}
  <2>1. current' = RowParts(current, raw')
    BY <1>3 DEF RowParts
  <2> QED
    BY <1>1, <1>2, <2>1, RowsKept
<1>5. RawCutoff \in Int /\ horizon \in Nat
  BY Cutoffs DEF StoreInv
<1>6. horizon' \in Nat /\ horizon' >= horizon /\ horizon' >= RawCutoff
  BY <1>5 DEF maintain
<1>7. ASSUME NEW p \in current \ current'
      PROVE  p.at < horizon'
  <2> DEFINE row == Ledger!Join(Ledger!PartsOf(p.req, current))
  <2>1. row = Ledger!Join(Ledger!PartsOf(p.req, current)) /\ p \in current
    OBVIOUS
  <2> HIDE DEF row
  <2>2. row \in Ledger!RowsOf(current) /\ row.req = p.req /\ row.at = p.at
    BY <1>2, <2>1, RowOfPart
  <2>3. row \in raw
    BY <1>2, <2>2
  <2>4. row \notin raw'
    BY <1>3, <1>7, <2>2
  <2>5. p.at \in Nat
    BY <1>2, ObservedAt
  <2> QED
    BY <1>1, <1>5, <1>6, <2>2, <2>3, <2>4, <2>5
<1>8. (\A r \in receipts' : r.last \in Nat) /\ \A p \in due : Remembered(p)'
  BY <1>1, RememberedStep DEF StoreInv, maintain
<1>9. StoreInv'
  BY <1>3, <1>4, <1>6, <1>8 DEF StoreInv, maintain
<1>10. current' \subseteq current /\ due' = due /\ now' = now
  BY <1>3 DEF maintain
<1> QED
  BY <1>4, <1>6, <1>7, <1>9, <1>10 DEF Ledger!Forget

LEMMA StoreStep ==
  ASSUME StoreInv, NoFreeComponent(Rules), [Next]_vars
  PROVE  StoreInv' /\ [Ledger!Next]_(Ledger!vars)
<1>1. ASSUME NEW o \in Observations, ingestRequest(o)
      PROVE  StoreInv' /\ [Ledger!Next]_(Ledger!vars)
  <2>1. ~OutsideRetention(o.at) /\ now' = now /\ horizon' = horizon
    BY <1>1 DEF ingestRequest
  <2>2. CASE UNCHANGED <<raw, due, current>> /\ (KnownEvent(Kind(o.src), o.src, o) \/ insertReceipt(Kind(o.src), o))
    <3>1. (\A r \in receipts' : r.last \in Nat) /\ \A p \in due : Remembered(p)'
      BY <2>1, <2>2, ReceiptsAfter, RememberedStep
    <3>2. now' \in Nat /\ now <= now'
      BY <2>1 DEF StoreInv
    <3> QED
      BY <2>1, <2>2, <3>1, <3>2, RowsUntouched
  <2>3. CASE /\ ReceiptsOf(Kind(o.src), o.key) = {} /\ insertReceipt(Kind(o.src), o)
             /\ \A row \in raw : row.req = o.req => ~Conflicting(row, o)
             /\ LET previous == {row \in raw : row.req = o.req}
                    stored   == Priced(IF previous = {} THEN newRequest(o)
                                       ELSE mergeRequest(CHOOSE row \in previous : TRUE, o))
                IN  raw' = (raw \ previous) \cup {stored}
             /\ due' = (IF o.at <= now THEN due \cup {o} ELSE due) /\ current' = current \cup {o}
    <3>1. StoreInv' /\ Ledger!Accept(o)
      BY <2>1, <2>3, AcceptStep
    <3> QED
      BY <3>1 DEF Ledger!Next
  <2> QED
    BY <1>1, <2>2, <2>3 DEF ingestRequest
<1>2. ASSUME NEW q \in Readings, ingestSnapshot(q)
      PROVE  StoreInv' /\ [Ledger!Next]_(Ledger!vars)
  <2>1. UNCHANGED <<now, raw, due, current, horizon>>
        /\ (KnownEvent(q.kind, q.kind, q) \/ insertReceipt(q.kind, q))
    BY <1>2 DEF ingestSnapshot, history
  <2>2. (\A r \in receipts' : r.last \in Nat) /\ \A p \in due : Remembered(p)'
    BY <2>1, ReceiptsAfter, RememberedStep
  <2>3. now' \in Nat /\ now <= now'
    BY <2>1 DEF StoreInv
  <2> QED
    BY <2>1, <2>2, <2>3, RowsUntouched
<1>3. ASSUME NEW l \in Letters, ingestDeadLetter(l)
      PROVE  StoreInv' /\ [Ledger!Next]_(Ledger!vars)
  <2>1. UNCHANGED <<now, receipts, raw, due, current, horizon>>
    BY <1>3 DEF ingestDeadLetter, history
  <2>2. now' \in Nat /\ now <= now'
    BY <2>1 DEF StoreInv
  <2> QED
    BY <2>1, <2>2, RowsUntouched
<1>4. CASE maintain
  BY <1>4, MaintainStep DEF Ledger!Next
<1>5. CASE Open \/ Migrate \/ SetVersion \/ AcquireLease \/ Close \/ Crash \/ Tick \/ UNCHANGED vars
  <2>1. UNCHANGED <<receipts, raw, due, current, horizon>>
    BY <1>5 DEF Open, Migrate, SetVersion, AcquireLease, Close, Crash, Tick, tables, history, vars
  <2>2. now' \in Nat /\ now <= now'
    BY <1>5 DEF StoreInv, Open, Migrate, SetVersion, AcquireLease, Close, Crash, Tick, vars
  <2> QED
    BY <2>1, <2>2, RowsUntouched
<1> QED
  BY <1>1, <1>2, <1>3, <1>4, <1>5 DEF Next

(* For every history of observations, readings, deliveries, crashes and      *)
(* maintenance, the store implements the ledger, when no rule of the         *)
(* snapshot gives a component for nothing: on such a rule the engine and the *)
(* pipeline differ (UsagePricing).                                           *)
THEOREM StoreRefinesLedger == NoFreeComponent(Rules) => (Spec => ImplementsLedger)
<1> SUFFICES ASSUME NoFreeComponent(Rules) PROVE Spec => ImplementsLedger
  OBVIOUS
<1>1. StoreInv /\ [Next]_vars => StoreInv' /\ [Ledger!Next]_(Ledger!vars)
  BY StoreStep
<1> QED
  BY <1>1, InitStoreInv, PTL DEF Spec, ImplementsLedger, Ledger!Spec

-----------------------------------------------------------------------------
(* The types of the tables.                                                  *)
Price == [rule : {r.id : r \in Rules} \cup {Null},
          state : {"priced", "partial", "unpriced"}, known : Nat]

LEMMA CostType ==
  ASSUME NEW count \in Nat, NEW price \in Nat, NEW per \in Nat \ {0}
  PROVE  cost(count, price, per) \in Nat
<1> DEFINE rounded == count * price + per \div 2
<1>1. count * price \in Nat /\ per \div 2 \in Nat
  OBVIOUS
<1>2. rounded \in Nat
  BY <1>1
<1> HIDE DEF rounded
<1>3. rounded \div per \in Nat
  BY <1>2
<1> QED
  BY <1>3 DEF cost, rounded

LEMMA AddType ==
  ASSUME NEW count \in Nat \cup {Null}, NEW price \in Nat \cup {Null}, NEW per \in Nat \ {0}
  PROVE  add(count, price, per) \in [known : BOOLEAN, missing : BOOLEAN, cost : Nat]
<1>1. CASE price # Null /\ count # Null
  <2>1. cost(count, price, per) \in Nat
    BY <1>1, CostType
  <2> QED
    BY <1>1, <2>1 DEF add, component
<1>2. CASE ~(price # Null /\ count # Null)
  BY <1>2 DEF add, component
<1> QED
  BY <1>1, <1>2

LEMMA PriceType ==
  ASSUME NEW dims, NEW at \in Int, NEW toks \in Nat \cup {Null}
  PROVE  applyPricing(Rules, dims, at, 1, toks) \in Price
<1> DEFINE rows == Candidates(Rules, dims, at)
           rule == match(Rules, dims, at)
           unit == add(1, rule.unit, 1)
           token == add(toks, rule.token, Million)
<1>1. CASE rows = {}
  BY <1>1 DEF applyPricing, Unpriced, Price
<1>2. CASE rows # {}
  <2>1. rule \in Rules
    BY <1>2, MatchIsMostSpecific DEF MostSpecific, Candidates
  <2>2. rule.unit \in Nat \cup {Null} /\ rule.token \in Nat \cup {Null} /\ Million \in Nat \ {0}
    <3> HIDE DEF rule
    <3> QED
      BY <2>1, PricingAssumption DEF IsRule
  <2>3. /\ unit \in [known : BOOLEAN, missing : BOOLEAN, cost : Nat]
        /\ token \in [known : BOOLEAN, missing : BOOLEAN, cost : Nat]
    <3> HIDE DEF rule
    <3>1. 1 \in Nat \cup {Null} /\ 1 \in Nat \ {0}
      OBVIOUS
    <3>2. unit \in [known : BOOLEAN, missing : BOOLEAN, cost : Nat]
      BY <2>2, <3>1, AddType
    <3>3. token \in [known : BOOLEAN, missing : BOOLEAN, cost : Nat]
      BY <2>2, AddType
    <3> QED
      BY <3>2, <3>3
  <2>4. applyPricing(Rules, dims, at, 1, toks) = Total(rule, unit, token)
    BY <1>2, EngineTakesTheMatch DEF applyPricing
  <2>5. Total(rule, unit, token) \in Price
    <3> HIDE DEF rule, unit, token
    <3> QED
      BY <2>1, <2>3 DEF Total, Price
  <2> QED
    BY <2>4, <2>5
<1> QED
  BY <1>1, <1>2

Whos  == {o.who : o \in Observations}
Tokss == {o.toks : o \in Observations}
LEMMA RowType ==
  RawRow = [req : {o.req : o \in Observations}, at : Hours, core : {o.core : o \in Observations},
            seen : (SUBSET Sources) \ {{}}, who : Whos, toks : Tokss, price : Price]
BY DEF RawRow, Known, Price, Whos, Tokss

LEMMA PricedType ==
  ASSUME NEW r \in RawRow
  PROVE  Priced(r) \in RawRow /\ Priced(r).at = r.at
<1> DEFINE price == applyPricing(Rules, Dims(r.who), r.at, 1, r.toks)
<1>1. r.at \in Int /\ r.toks \in Nat \cup {Null}
  <2>1. r.at \in Hours /\ r.toks \in Tokss
    BY RowType
  <2> QED
    BY <2>1, InputAssumption DEF Hours, Tokss
<1>2. price \in Price
  BY <1>1, PriceType
<1>3. Priced(r) = [r EXCEPT !.price = price]
  BY DEF Priced
<1> HIDE DEF price
<1> QED
  BY <1>2, <1>3, RowType

LEMMA NewType ==
  ASSUME NEW o \in Observations, o.at \in Hours
  PROVE  newRequest(o) \in RawRow /\ newRequest(o).at = o.at
<1>1. o.src \in Sources
  BY InputAssumption
<1>2. Unpriced \in Price
  BY DEF Unpriced, Price
<1> QED
  BY <1>1, <1>2, RowType DEF newRequest, Whos, Tokss

LEMMA MergedType ==
  ASSUME NEW o \in Observations, NEW r \in RawRow
  PROVE  mergeRequest(r, o) \in RawRow /\ mergeRequest(r, o).at = r.at
<1> DEFINE seen == r.seen \cup {o.src}
           who == IF r.who = "" THEN o.who ELSE r.who
           toks == IF r.toks = Null THEN o.toks ELSE r.toks
<1>1. o.src \in Sources /\ r.seen \in SUBSET Sources /\ r.who \in Whos /\ r.toks \in Tokss
  BY InputAssumption, RowType
<1>2. seen \in (SUBSET Sources) \ {{}} /\ who \in Whos /\ toks \in Tokss
  BY <1>1 DEF Whos, Tokss
<1>3. mergeRequest(r, o) = [r EXCEPT !.seen = seen, !.who = who, !.toks = toks]
  BY DEF mergeRequest
<1> HIDE DEF seen, who, toks
<1> QED
  BY <1>2, <1>3, RowType

-----------------------------------------------------------------------------
(* Sums over finite sets.  A fold is a recursive function on the subsets, so *)
(* that what it returns needs an induction over their cardinality: it is     *)
(* done on the least layer where the fact fails.                             *)
LEMMA LeastNat ==
  ASSUME NEW bad \in SUBSET Nat, bad # {}
  PROVE  \E n \in bad : \A m \in bad : n <= m
<1> DEFINE less == OpToRel(<, Nat)
<1>1. IsWellFoundedOn(less, Nat)
  BY NatLessThanWellFounded
<1>2. PICK n \in bad : \A m \in bad : ~(<<m, n>> \in less)
  <2> HIDE DEF less
  <2> QED
    BY <1>1, WFMin
<1>3. \A m \in bad : n <= m
  <2> TAKE m \in bad
  <2>1. m < n => <<m, n>> \in less
    <3> SUFFICES ASSUME m < n PROVE <<m, n>> \in less
      OBVIOUS
    <3>1. <<m, n>> \in Nat \X Nat /\ <<m, n>>[1] < <<m, n>>[2]
      OBVIOUS
    <3> QED
      BY <3>1 DEF OpToRel
  <2> HIDE DEF less
  <2> QED
    BY <1>2, <2>1
<1> QED
  BY <1>3

one(s) == CHOOSE x \in s : TRUE
Layer(set, n) == {s \in SUBSET set : Cardinality(s) <= n}
SumsUpTo(set, w, n) ==
  {g \in [Layer(set, n) -> Nat] :
     \A s \in Layer(set, n) : g[s] = IF s = {} THEN 0 ELSE w[one(s)] + g[s \ {one(s)}]}

LEMMA Smaller ==
  ASSUME NEW set, IsFiniteSet(set), NEW s \in SUBSET set, s # {}
  PROVE  /\ one(s) \in s /\ s \ {one(s)} \in SUBSET set
         /\ Cardinality(s) \in Nat \ {0} /\ Cardinality(s \ {one(s)}) = Cardinality(s) - 1
<1>1. one(s) \in s
  BY DEF one
<1>2. IsFiniteSet(s)
  BY FS_Subset
<1>3. Cardinality(s) \in Nat /\ Cardinality(s) # 0
  BY <1>2, FS_CardinalityType, FS_EmptySet
<1>4. Cardinality(s \ {one(s)}) = Cardinality(s) - 1
  BY <1>1, <1>2, FS_RemoveElement
<1> QED
  BY <1>1, <1>3, <1>4

LEMMA SumsExist ==
  ASSUME NEW set, IsFiniteSet(set), NEW w \in [set -> Nat], NEW n \in Nat
  PROVE  SumsUpTo(set, w, n) # {}
<1> DEFINE bad == {k \in Nat : SumsUpTo(set, w, k) = {}}
<1>1. SumsUpTo(set, w, 0) # {}
  <2> DEFINE g == [s \in Layer(set, 0) |-> 0]
  <2>1. ASSUME NEW s \in Layer(set, 0), s # {} PROVE FALSE
    <3>1. s \in SUBSET set /\ Cardinality(s) <= 0
      BY DEF Layer
    <3>2. Cardinality(s) \in Nat \ {0}
      BY <2>1, <3>1, Smaller
    <3> QED
      BY <3>1, <3>2
  <2>2. g \in SumsUpTo(set, w, 0)
    BY <2>1 DEF SumsUpTo
  <2> QED
    BY <2>2
<1>2. ASSUME NEW k \in Nat, NEW g \in SumsUpTo(set, w, k)
      PROVE  SumsUpTo(set, w, k + 1) # {}
  <2> DEFINE h == [s \in Layer(set, k + 1) |-> IF s = {} THEN 0 ELSE w[one(s)] + g[s \ {one(s)}]]
  <2>1. g \in [Layer(set, k) -> Nat]
        /\ \A s \in Layer(set, k) : g[s] = IF s = {} THEN 0 ELSE w[one(s)] + g[s \ {one(s)}]
    BY DEF SumsUpTo
  <2>2. ASSUME NEW s \in Layer(set, k + 1), s # {}
        PROVE  one(s) \in set /\ s \ {one(s)} \in Layer(set, k) /\ s \ {one(s)} \in Layer(set, k + 1)
    BY <2>2, Smaller DEF Layer
  <2>3. \A s \in Layer(set, k) : s \in Layer(set, k + 1) /\ h[s] = g[s]
    <3> TAKE s \in Layer(set, k)
    <3>1. Cardinality(s) \in Int
      BY FS_Subset, FS_CardinalityType DEF Layer
    <3>2. s \in Layer(set, k + 1)
      BY <3>1 DEF Layer
    <3> QED
      BY <2>1, <3>2
  <2>4. \A s \in Layer(set, k + 1) : h[s] = IF s = {} THEN 0 ELSE w[one(s)] + g[s \ {one(s)}]
    OBVIOUS
  <2>5. h \in [Layer(set, k + 1) -> Nat]
    <3>1. ASSUME NEW s \in Layer(set, k + 1) PROVE h[s] \in Nat
      <4>1. CASE s = {}
        BY <4>1
      <4>2. CASE s # {}
        <5>1. w[one(s)] \in Nat /\ g[s \ {one(s)}] \in Nat
          BY <2>1, <2>2, <4>2
        <5>2. h[s] = w[one(s)] + g[s \ {one(s)}]
          BY <4>2
        <5> HIDE DEF h
        <5> QED
          BY <5>1, <5>2
      <4> QED
        BY <4>1, <4>2
    <3> QED
      BY <3>1
  <2> HIDE DEF h
  <2>6. \A s \in Layer(set, k + 1) : s # {} => h[s \ {one(s)}] = g[s \ {one(s)}]
    BY <2>2, <2>3
  <2>7. h \in SumsUpTo(set, w, k + 1)
    BY <2>4, <2>5, <2>6 DEF SumsUpTo
  <2> QED
    BY <2>7
<1>3. bad = {}
  <2> SUFFICES ASSUME bad # {} PROVE FALSE
    OBVIOUS
  <2>1. PICK k \in bad : \A m \in bad : k <= m
    BY LeastNat
  <2>2. k \in Nat /\ k # 0 /\ k - 1 \in Nat
    BY <1>1, <2>1
  <2>3. k - 1 \notin bad
    BY <2>1, <2>2
  <2>4. SumsUpTo(set, w, k - 1) # {} /\ (k - 1) + 1 = k
    BY <2>2, <2>3
  <2> QED
    BY <1>2, <2>1, <2>2, <2>4
<1> QED
  BY <1>3

Folds(set, w, g) == g = [s \in SUBSET set |-> IF s = {} THEN 0 ELSE w[one(s)] + g[s \ {one(s)}]]

LEMMA FoldExists ==
  ASSUME NEW set, IsFiniteSet(set), NEW w \in [set -> Nat]
  PROVE  \E g : Folds(set, w, g)
<1> DEFINE n == Cardinality(set)
<1>1. n \in Nat /\ Layer(set, n) = SUBSET set
  BY FS_Subset, FS_CardinalityType DEF Layer
<1>2. PICK g : g \in SumsUpTo(set, w, n)
  BY <1>1, SumsExist
<1> QED
  BY <1>1, <1>2 DEF SumsUpTo, Folds

LEMMA FoldIsNat ==
  ASSUME NEW set, IsFiniteSet(set), NEW w \in [set -> Nat], NEW g, Folds(set, w, g)
  PROVE  g[set] \in Nat
<1> DEFINE bad == {Cardinality(s) : s \in {t \in SUBSET set : g[t] \notin Nat}}
<1>1. \A s \in SUBSET set : g[s] = IF s = {} THEN 0 ELSE w[one(s)] + g[s \ {one(s)}]
  BY DEF Folds
<1>2. bad = {}
  <2> SUFFICES ASSUME bad # {} PROVE FALSE
    OBVIOUS
  <2>1. bad \in SUBSET Nat
    BY FS_Subset, FS_CardinalityType
  <2>2. PICK k \in bad : \A m \in bad : k <= m
    BY <2>1, LeastNat
  <2>3. PICK s \in SUBSET set : k = Cardinality(s) /\ g[s] \notin Nat
    OBVIOUS
  <2>4. s # {}
    <3> SUFFICES ASSUME s = {} PROVE FALSE
      OBVIOUS
    <3>1. g[s] = 0
      BY <1>1
    <3> QED
      BY <2>3, <3>1
  <2>5. one(s) \in set /\ s \ {one(s)} \in SUBSET set /\ k \in Nat /\ Cardinality(s \ {one(s)}) = k - 1
    BY <2>3, <2>4, Smaller
  <2>6. g[s \ {one(s)}] \in Nat
    <3>1. k - 1 \notin bad
      BY <2>2, <2>5
    <3> QED
      BY <3>1, <2>5
  <2>7. g[s] = w[one(s)] + g[s \ {one(s)}] /\ w[one(s)] \in Nat
    BY <1>1, <2>4, <2>5
  <2> QED
    BY <2>3, <2>6, <2>7
<1> QED
  BY <1>2

LEMMA KnownSum ==
  ASSUME NEW rows, IsFiniteSet(rows), \A r \in rows : r.price.known \in Nat
  PROVE  MapThenSumSet(LAMBDA r : r.price.known, rows) \in Nat
<1> DEFINE w == [r \in rows |-> r.price.known]
           Eq(g) == g = [s \in SUBSET rows |->
                           IF s = {} THEN 0
                           ELSE LET x == CHOOSE y \in s : TRUE IN x.price.known + g[s \ {x}]]
           it == CHOOSE g : Eq(g)
<1>1. w \in [rows -> Nat]
  OBVIOUS
<1>2. ASSUME NEW g PROVE Eq(g) <=> Folds(rows, w, g)
  <2>1. \A s \in SUBSET rows : s # {} => w[one(s)] = one(s).price.known
    BY Smaller
  <2> HIDE DEF w
  <2> QED
    BY <2>1 DEF Folds, one
<1>3. PICK g : Folds(rows, w, g)
  <2> HIDE DEF w
  <2> QED
    BY <1>1, FoldExists
<1>4. Eq(it)
  <2> HIDE DEF Eq
  <2> QED
    BY <1>2, <1>3
<1>5. it[rows] \in Nat
  <2> HIDE DEF Eq, w, it
  <2> QED
    BY <1>1, <1>2, <1>4, FoldIsNat
<1> QED
  BY <1>5 DEF MapThenSumSet, MapThenFoldSet

LEMMA TokenSum ==
  ASSUME NEW rows, IsFiniteSet(rows), \A r \in rows : r.toks \in Nat \cup {Null}
  PROVE  MapThenSumSet(LAMBDA r : IF r.toks = Null THEN 0 ELSE r.toks, rows) \in Nat
<1> DEFINE w == [r \in rows |-> IF r.toks = Null THEN 0 ELSE r.toks]
           Eq(g) == g = [s \in SUBSET rows |->
                           IF s = {} THEN 0
                           ELSE LET x == CHOOSE y \in s : TRUE IN (IF x.toks = Null THEN 0 ELSE x.toks) + g[s \ {x}]]
           it == CHOOSE g : Eq(g)
<1>1. w \in [rows -> Nat]
  OBVIOUS
<1>2. ASSUME NEW g PROVE Eq(g) <=> Folds(rows, w, g)
  <2>1. \A s \in SUBSET rows : s # {} => w[one(s)] = IF one(s).toks = Null THEN 0 ELSE one(s).toks
    BY Smaller
  <2> HIDE DEF w
  <2> QED
    BY <2>1 DEF Folds, one
<1>3. PICK g : Folds(rows, w, g)
  <2> HIDE DEF w
  <2> QED
    BY <1>1, FoldExists
<1>4. Eq(it)
  <2> HIDE DEF Eq
  <2> QED
    BY <1>2, <1>3
<1>5. it[rows] \in Nat
  <2> HIDE DEF Eq, w, it
  <2> QED
    BY <1>1, <1>2, <1>4, FoldIsNat
<1> QED
  BY <1>5 DEF MapThenSumSet, MapThenFoldSet

LEMMA AggregateType ==
  ASSUME NEW rows \in SUBSET RawRow, IsFiniteSet(rows), NEW size \in Nat \ {0}
  PROVE  Aggregate(rows, size) \subseteq UsageRow
<1> DEFINE group(k) == {r \in rows : utcBucket(r.at, size) = k[1] /\ r.who = k[2]}
           UsageOf(k) == [bucket |-> k[1], who |-> k[2], requests |-> Cardinality(group(k)),
                       tokens |-> MapThenSumSet(LAMBDA r : IF r.toks = Null THEN 0 ELSE r.toks, group(k)),
                       priced |-> Cardinality({r \in group(k) : r.price.state = "priced"}),
                       known  |-> MapThenSumSet(LAMBDA r : r.price.known, group(k))]
<1>1. \A r \in rows : r.at \in Hours /\ r.who \in Whos /\ r.toks \in Nat \cup {Null} /\ r.price.known \in Nat
  <2>1. \A t \in Tokss : t \in Nat \cup {Null}
    BY InputAssumption DEF Tokss
  <2> QED
    BY <2>1, RowType DEF Price
<1>2. ASSUME NEW q \in rows
      PROVE  UsageOf(<<utcBucket(q.at, size), q.who>>) \in UsageRow
  <2> DEFINE k == <<utcBucket(q.at, size), q.who>>
             g == group(k)
  <2>1. k[1] \in Hours /\ k[2] \in Whos
    <3>1. q.at \in Nat /\ q.at <= MaxTime /\ MaxTime \in Nat /\ q.who \in Whos
      BY <1>1, RetentionAssumption DEF Hours
    <3>2. utcBucket(q.at, size) \in Nat /\ utcBucket(q.at, size) <= q.at
      BY <3>1, BucketBounds
    <3>3. utcBucket(q.at, size) \in Hours
      BY <3>1, <3>2 DEF Hours
    <3> QED
      BY <3>1, <3>3
  <2>2. g \subseteq rows /\ IsFiniteSet(g) /\ IsFiniteSet({r \in g : r.price.state = "priced"})
    BY FS_Subset
  <2>3. Cardinality(g) \in Nat /\ Cardinality({r \in g : r.price.state = "priced"}) \in Nat
    BY <2>2, FS_CardinalityType
  <2>4. MapThenSumSet(LAMBDA r : IF r.toks = Null THEN 0 ELSE r.toks, g) \in Nat
    <3> HIDE DEF g
    <3> QED
      BY <1>1, <2>2, TokenSum
  <2>5. MapThenSumSet(LAMBDA r : r.price.known, g) \in Nat
    <3> HIDE DEF g
    <3> QED
      BY <1>1, <2>2, KnownSum
  <2> QED
    BY <2>1, <2>3, <2>4, <2>5 DEF UsageRow, Known, Whos
<1>3. Aggregate(rows, size) = {UsageOf(k) : k \in {<<utcBucket(r.at, size), r.who>> : r \in rows}}
  BY Zenon DEF Aggregate
<1> HIDE DEF UsageOf
<1> QED
  BY <1>2, <1>3

LEMMA RecomputeType ==
  ASSUME NEW table \in SUBSET UsageRow, NEW rows \in SUBSET RawRow, IsFiniteSet(rows),
         NEW size \in Nat \ {0}, NEW buckets
  PROVE  recomputeBuckets(table, rows, size, buckets) \subseteq UsageRow
<1>1. \A b : InBucket(rows, size, b) \in SUBSET RawRow /\ IsFiniteSet(InBucket(rows, size, b))
  BY FS_Subset DEF InBucket
<1>2. \A b : Aggregate(InBucket(rows, size, b), size) \subseteq UsageRow
  BY <1>1, AggregateType
<1> QED
  BY <1>2 DEF recomputeBuckets

-----------------------------------------------------------------------------
(* The type invariant.  The request rows are finitely many, which their sums *)
(* need.                                                                     *)
TypeInv == TypeOK /\ IsFiniteSet(raw)

LEMMA InitTypeInv == Init => TypeInv
BY RetentionAssumption, InputAssumption, FS_EmptySet DEF Init, TypeInv, TypeOK, Hours, CollectorState

\* What every ingestion may do to the receipts, the dead letters and the counters.
LEMMA ReceiptsType ==
  ASSUME TypeInv, NEW kind \in {"gateway_request", "cpa_http_usage"} \cup Kinds,
         NEW src, NEW o \in Observations \cup Readings, KnownEvent(kind, src, o) \/ insertReceipt(kind, o)
  PROVE  receipts' \subseteq ReceiptRow
<1> DEFINE new == Receipt(kind, o)
<1>1. new \in ReceiptRow
  BY DEF Receipt, ReceiptRow, TypeInv, TypeOK
<1>2. \/ receipts' = receipts
      \/ receipts' = receipts \cup {new}
      \/ receipts' = (receipts \ ReceiptsOf(kind, o.key)) \cup {new}
  BY DEF KnownEvent, insertReceipt, touchReceipt
<1>3. receipts \subseteq ReceiptRow
  BY DEF TypeInv, TypeOK
<1> HIDE DEF new
<1> QED
  BY <1>1, <1>2, <1>3

LEMMA LettersType ==
  ASSUME TypeInv, NEW src \in Sources \cup Kinds, NEW o \in Observations \cup Readings \cup Letters,
         NEW at \in Hours, recordDeadLetter(src, o.key, o, at)
  PROVE  dead' \subseteq LetterRow /\ state' \in CollectorState
<1> DEFINE letter == [id |-> state.dead + 1, src |-> src, key |-> o.key, payload |-> o, at |-> at]
<1>1. state \in [committed : Nat, dead : 0..MaxDead] /\ MaxDead \in Nat
  BY InputAssumption DEF TypeInv, TypeOK, CollectorState
<1>2. state.dead < MaxDead /\ dead' = dead \cup {letter} /\ state' = [state EXCEPT !.dead = state.dead + 1]
  BY DEF recordDeadLetter
<1>3. state.dead + 1 \in 1..MaxDead /\ state.dead + 1 \in 0..MaxDead
  BY <1>1, <1>2
<1>4. letter \in LetterRow
  BY <1>3 DEF LetterRow, Kinds
<1>5. state' \in CollectorState
  BY <1>1, <1>2, <1>3 DEF CollectorState
<1> HIDE DEF letter
<1> QED
  BY <1>2, <1>4, <1>5 DEF TypeInv, TypeOK

LEMMA KnownType ==
  ASSUME TypeInv, NEW kind, NEW src \in Sources \cup Kinds, NEW o \in Observations \cup Readings,
         KnownEvent(kind, src, o)
  PROVE  dead' \subseteq LetterRow /\ state' \in CollectorState
<1>1. CASE UNCHANGED <<dead, state>>
  BY <1>1 DEF TypeInv, TypeOK
<1>2. CASE recordDeadLetter(src, o.key, o, now)
  <2>1. now \in Hours
    BY DEF TypeInv, TypeOK
  <2> QED
    BY <1>2, <2>1, LettersType
<1> QED
  BY <1>1, <1>2 DEF KnownEvent

\* The row that an accepted observation leaves.
Stored(o) ==
  LET previous == {row \in raw : row.req = o.req}
  IN  Priced(IF previous = {} THEN newRequest(o) ELSE mergeRequest(CHOOSE row \in previous : TRUE, o))

LEMMA StoredType ==
  ASSUME TypeInv, NEW o \in Observations
  PROVE  Stored(o) \in RawRow
<1> DEFINE previous == {row \in raw : row.req = o.req}
<1>1. o.at \in Hours
  BY InputAssumption
<1>2. CASE previous = {}
  BY <1>1, <1>2, NewType, PricedType DEF Stored
<1>3. CASE previous # {}
  <2>1. (CHOOSE row \in previous : TRUE) \in RawRow
    BY <1>3 DEF TypeInv, TypeOK
  <2>2. mergeRequest(CHOOSE row \in previous : TRUE, o) \in RawRow
    BY <2>1, MergedType
  <2> QED
    BY <1>3, <2>2, PricedType DEF Stored
<1> QED
  BY <1>2, <1>3

LEMMA RequestType ==
  ASSUME TypeInv, NEW o \in Observations, ingestRequest(o)
  PROVE  TypeInv'
<1> DEFINE previous == {row \in raw : row.req = o.req}
           touched == {row.at : row \in previous \cup {Stored(o)}}
<1>1. /\ UNCHANGED <<now, phase, file, snaps, horizon>>
      /\ Kind(o.src) \in {"gateway_request", "cpa_http_usage"} \cup Kinds
      /\ o.src \in Sources \cup Kinds /\ now \in Hours
  BY InputAssumption DEF ingestRequest, Kind, TypeInv, TypeOK
<1>2. KnownEvent(Kind(o.src), o.src, o) \/ insertReceipt(Kind(o.src), o)
  BY DEF ingestRequest
<1>3. receipts' \subseteq ReceiptRow
  BY <1>1, <1>2, ReceiptsType
<1>4. \/ KnownEvent(Kind(o.src), o.src, o)
      \/ recordDeadLetter(o.src, o.key, o, now)
      \/ UNCHANGED dead /\ state' = [state EXCEPT !.committed = @ + 1]
  BY DEF ingestRequest
<1>5. dead' \subseteq LetterRow /\ state' \in CollectorState
  <2>1. CASE UNCHANGED dead /\ state' = [state EXCEPT !.committed = @ + 1]
    BY <2>1 DEF TypeInv, TypeOK, CollectorState
  <2> QED
    BY <1>1, <1>4, <2>1, KnownType, LettersType
<1>6. \/ UNCHANGED <<raw, hourly, daily, due, current>>
      \/ /\ raw' = (raw \ previous) \cup {Stored(o)}
         /\ hourly' = recomputeBuckets(hourly, raw', 1, touched)
         /\ daily' = recomputeBuckets(daily, raw', DayLen, {Day(t) : t \in touched})
         /\ due' = (IF o.at <= now THEN due \cup {o} ELSE due) /\ current' = current \cup {o}
  BY Zenon DEF ingestRequest, Stored
<1>7. /\ raw' \subseteq RawRow /\ IsFiniteSet(raw')
      /\ hourly' \subseteq UsageRow /\ daily' \subseteq UsageRow
      /\ due' \subseteq Observations /\ current' \subseteq Observations
  <2>1. CASE UNCHANGED <<raw, hourly, daily, due, current>>
    BY <2>1 DEF TypeInv, TypeOK
  <2>2. CASE /\ raw' = (raw \ previous) \cup {Stored(o)}
             /\ hourly' = recomputeBuckets(hourly, raw', 1, touched)
             /\ daily' = recomputeBuckets(daily, raw', DayLen, {Day(t) : t \in touched})
             /\ due' = (IF o.at <= now THEN due \cup {o} ELSE due) /\ current' = current \cup {o}
    <3>1. Stored(o) \in RawRow
      BY <1>1, StoredType
    <3>2. raw' \in SUBSET RawRow
      BY <2>2, <3>1 DEF TypeInv, TypeOK
    <3>3. IsFiniteSet(raw \ previous)
      BY FS_Subset DEF TypeInv
    <3>4. IsFiniteSet(raw')
      BY <2>2, <3>3, FS_AddElement
    <3>5. 1 \in Nat \ {0} /\ DayLen \in Nat \ {0} /\ hourly \in SUBSET UsageRow /\ daily \in SUBSET UsageRow
      BY RetentionAssumption DEF TypeInv, TypeOK
    <3>6. hourly' \subseteq UsageRow /\ daily' \subseteq UsageRow
      BY <2>2, <3>2, <3>4, <3>5, RecomputeType
    <3> QED
      BY <2>2, <3>2, <3>4, <3>6 DEF TypeInv, TypeOK
  <2> QED
    BY <1>6, <2>1, <2>2
<1> QED
  BY <1>1, <1>3, <1>5, <1>7 DEF TypeInv, TypeOK

LEMMA SnapshotType ==
  ASSUME TypeInv, NEW q \in Readings, ingestSnapshot(q)
  PROVE  TypeInv'
<1>1. /\ UNCHANGED <<now, phase, file, raw, hourly, daily, due, current, horizon>>
      /\ KnownEvent(q.kind, q.kind, q) \/ insertReceipt(q.kind, q)
      /\ snaps' \subseteq Readings
  BY DEF ingestSnapshot, history, TypeInv, TypeOK
<1>2. q.kind \in {"gateway_request", "cpa_http_usage"} \cup Kinds
      /\ q.kind \in Sources \cup Kinds
  BY InputAssumption DEF Kinds
<1>3. receipts' \subseteq ReceiptRow
  BY <1>1, <1>2, ReceiptsType
<1>4. dead' \subseteq LetterRow /\ state' \in CollectorState
  <2>1. CASE KnownEvent(q.kind, q.kind, q)
    BY <1>2, <2>1, KnownType
  <2>2. CASE UNCHANGED dead /\ state' = [state EXCEPT !.committed = @ + 1]
    BY <2>2 DEF TypeInv, TypeOK, CollectorState
  <2> QED
    BY <2>1, <2>2 DEF ingestSnapshot
<1> QED
  BY <1>1, <1>3, <1>4 DEF TypeInv, TypeOK

LEMMA DeadLetterType ==
  ASSUME TypeInv, NEW l \in Letters, ingestDeadLetter(l)
  PROVE  TypeInv'
<1>1. l.src \in Sources \cup Kinds /\ l.at \in Hours
  BY InputAssumption
<1>2. dead' \subseteq LetterRow /\ state' \in CollectorState
  BY <1>1, LettersType DEF ingestDeadLetter
<1> QED
  BY <1>2 DEF ingestDeadLetter, history, TypeInv, TypeOK

LEMMA MaintainType ==
  ASSUME TypeInv, maintain
  PROVE  TypeInv'
<1>1. /\ raw' \subseteq raw /\ dead' \subseteq dead /\ hourly' \subseteq hourly /\ daily' \subseteq daily
      /\ receipts' \subseteq receipts /\ snaps' \subseteq snaps
  BY BatchKeeps DEF maintain
<1>2. IsFiniteSet(raw')
  BY <1>1, FS_Subset DEF TypeInv
<1>3. horizon' \in Int /\ current' \subseteq current
  <2>1. now \in Nat
    BY RetentionAssumption DEF TypeInv, TypeOK, Hours
  <2>2. RawCutoff \in Int
    BY <2>1, Cutoffs
  <2> QED
    BY <2>2 DEF maintain, TypeInv, TypeOK
<1> QED
  BY <1>1, <1>2, <1>3 DEF maintain, TypeInv, TypeOK

LEMMA OpeningType ==
  ASSUME TypeInv, Open \/ Migrate \/ SetVersion \/ AcquireLease \/ Close \/ Crash \/ Tick \/ UNCHANGED vars
  PROVE  TypeInv'
<1>1. UNCHANGED <<receipts, raw, hourly, daily, snaps, dead, state, due, current, horizon>>
  BY DEF Open, Migrate, SetVersion, AcquireLease, Close, Crash, Tick, tables, history, vars
<1>2. now' \in Hours
  BY RetentionAssumption DEF Open, Migrate, SetVersion, AcquireLease, Close, Crash, Tick, vars, TypeInv, TypeOK, Hours
<1>3. /\ phase' \in {"closed", "migrate", "version", "lease", "open"}
      /\ file' \in [tables : BOOLEAN, ledger : BOOLEAN, version : 0..1, leased : BOOLEAN]
  <2> USE InputAssumption DEF TypeInv, TypeOK
  <2>1. CASE Open
    BY <2>1 DEF Open
  <2>2. CASE Migrate
    BY <2>2 DEF Migrate
  <2>3. CASE SetVersion
    BY <2>3 DEF SetVersion
  <2>4. CASE AcquireLease \/ Close \/ Crash
    BY <2>4 DEF AcquireLease, Close, Crash
  <2>5. CASE Tick \/ UNCHANGED vars
    BY <2>5 DEF Tick, vars
  <2> QED
    BY <2>1, <2>2, <2>3, <2>4, <2>5
<1> QED
  BY <1>1, <1>2, <1>3 DEF TypeInv, TypeOK

LEMMA NextTypeInv == TypeInv /\ [Next]_vars => TypeInv'
<1> SUFFICES ASSUME TypeInv, [Next]_vars PROVE TypeInv'
  OBVIOUS
<1> QED
  BY RequestType, SnapshotType, DeadLetterType, MaintainType, OpeningType DEF Next

(* Every table holds rows of its columns: prices and sums are natural        *)
(* numbers, times are hours, whatever is ingested, merged and purged.        *)
THEOREM StoreTypeOK == Spec => []TypeOK
<1>1. TypeInv => TypeOK
  BY DEF TypeInv
<1> QED
  BY <1>1, InitTypeInv, NextTypeInv, PTL DEF Spec

-----------------------------------------------------------------------------
(* The rollup tables and the request rows.  The invariant is the property    *)
(* for every bucket, those after the last modelled hour included.            *)
Rolled(table, rows, size, b) == {u \in table : u.bucket = b} = Aggregate(InBucket(rows, size, b), size)

RollupInv ==
  \A b \in Nat : b >= horizon => Rolled(hourly, raw, 1, b) /\ Rolled(daily, raw, DayLen, b)

LEMMA AggregateBucket ==
  ASSUME NEW rows, NEW size, NEW b, NEW u \in Aggregate(InBucket(rows, size, b), size)
  PROVE  u.bucket = b
<1> DEFINE mine == InBucket(rows, size, b)
<1>1. PICK k \in {<<utcBucket(r.at, size), r.who>> : r \in mine} : u.bucket = k[1]
  <2> DEFINE group(k) == {r \in mine : utcBucket(r.at, size) = k[1] /\ r.who = k[2]}
             UsageOf(k) == [bucket |-> k[1], who |-> k[2], requests |-> Cardinality(group(k)),
                            tokens |-> MapThenSumSet(LAMBDA r : IF r.toks = Null THEN 0 ELSE r.toks, group(k)),
                            priced |-> Cardinality({r \in group(k) : r.price.state = "priced"}),
                            known  |-> MapThenSumSet(LAMBDA r : r.price.known, group(k))]
  <2>1. Aggregate(mine, size) = {UsageOf(k) : k \in {<<utcBucket(r.at, size), r.who>> : r \in mine}}
    BY Zenon DEF Aggregate
  <2>2. \A k : UsageOf(k).bucket = k[1]
    OBVIOUS
  <2> HIDE DEF UsageOf
  <2> QED
    BY <2>1, <2>2
<1>2. \A r \in mine : utcBucket(r.at, size) = b
  BY DEF InBucket
<1> HIDE DEF mine
<1> QED
  BY <1>1, <1>2

\* The rows of one bucket are computed anew, those of the others stay.
LEMMA Recomputed ==
  ASSUME NEW table, NEW rows, NEW size, NEW buckets, NEW b, b \in buckets \/ Rolled(table, rows, size, b)
  PROVE  Rolled(recomputeBuckets(table, rows, size, buckets), rows, size, b)
<1> DEFINE agg(c) == Aggregate(InBucket(rows, size, c), size)
<1>1. \A c : \A u \in agg(c) : u.bucket = c
  BY AggregateBucket
<1>2. recomputeBuckets(table, rows, size, buckets)
        = {u \in table : u.bucket \notin buckets} \cup UNION {agg(c) : c \in buckets}
  BY DEF recomputeBuckets
<1>3. Rolled(table, rows, size, b) <=> {u \in table : u.bucket = b} = agg(b)
  BY DEF Rolled
<1>4. {u \in recomputeBuckets(table, rows, size, buckets) : u.bucket = b} = agg(b)
  <2> HIDE DEF agg
  <2>1. CASE b \in buckets
    BY <1>1, <1>2, <2>1
  <2>2. CASE b \notin buckets
    BY <1>1, <1>2, <1>3, <2>2
  <2> QED
    BY <2>1, <2>2
<1> QED
  BY <1>4 DEF Rolled

\* A bucket in which no row changes.
LEMMA SameBucket ==
  ASSUME NEW rows, NEW more, NEW size, NEW b,
         \A r \in (rows \ more) \cup (more \ rows) : utcBucket(r.at, size) # b
  PROVE  InBucket(rows, size, b) = InBucket(more, size, b)
BY DEF InBucket

LEMMA HourBucket == \A t \in Int : utcBucket(t, 1) = t
BY DEF utcBucket

LEMMA InitRollup == Init => RollupInv
<1> SUFFICES ASSUME Init, NEW b PROVE Rolled(hourly, raw, 1, b) /\ Rolled(daily, raw, DayLen, b)
  BY DEF RollupInv
<1>1. \A size : Aggregate(InBucket({}, size, b), size) = {}
  BY DEF Aggregate, InBucket
<1> QED
  BY <1>1 DEF Init, Rolled

LEMMA RequestRollup ==
  ASSUME TypeInv, RollupInv, NEW o \in Observations, ingestRequest(o)
  PROVE  RollupInv'
<1> DEFINE previous == {row \in raw : row.req = o.req}
           changed == previous \cup {Stored(o)}
           touched == {row.at : row \in changed}
<1>1. horizon' = horizon
  BY DEF ingestRequest
<1>2. \/ UNCHANGED <<raw, hourly, daily>>
      \/ /\ raw' = (raw \ previous) \cup {Stored(o)}
         /\ hourly' = recomputeBuckets(hourly, raw', 1, touched)
         /\ daily' = recomputeBuckets(daily, raw', DayLen, {Day(t) : t \in touched})
  BY Zenon DEF ingestRequest, Stored
<1>3. CASE UNCHANGED <<raw, hourly, daily>>
  BY <1>1, <1>3 DEF RollupInv, Rolled
<1>4. CASE /\ raw' = (raw \ previous) \cup {Stored(o)}
           /\ hourly' = recomputeBuckets(hourly, raw', 1, touched)
           /\ daily' = recomputeBuckets(daily, raw', DayLen, {Day(t) : t \in touched})
  <2> SUFFICES ASSUME NEW b \in Nat, b >= horizon
               PROVE  Rolled(hourly', raw', 1, b) /\ Rolled(daily', raw', DayLen, b)
    BY <1>1 DEF RollupInv, Rolled
  <2>1. Rolled(hourly, raw, 1, b) /\ Rolled(daily, raw, DayLen, b)
    BY DEF RollupInv
  <2>2. (raw \ raw') \cup (raw' \ raw) \subseteq changed
    BY <1>4
  <2>3. changed \subseteq RawRow
    BY <1>1, StoredType DEF TypeInv, TypeOK
  <2>4. \A row \in changed : row.at \in Int
    BY <2>3, RowType DEF Hours
  <2>5. b \in touched \/ Rolled(hourly, raw', 1, b)
    <3>1. b \notin touched => \A row \in changed : utcBucket(row.at, 1) # b
      BY <2>4, HourBucket
    <3>2. b \notin touched => InBucket(raw, 1, b) = InBucket(raw', 1, b)
      <4> HIDE DEF changed
      <4> QED
        BY <2>2, <3>1, SameBucket
    <3> QED
      BY <2>1, <3>2 DEF Rolled
  <2>6. b \in {Day(t) : t \in touched} \/ Rolled(daily, raw', DayLen, b)
    <3>1. b \notin {Day(t) : t \in touched} => \A row \in changed : utcBucket(row.at, DayLen) # b
      BY DEF Day
    <3>2. b \notin {Day(t) : t \in touched} => InBucket(raw, DayLen, b) = InBucket(raw', DayLen, b)
      <4> HIDE DEF changed
      <4> QED
        BY <2>2, <3>1, SameBucket
    <3> QED
      BY <2>1, <3>2 DEF Rolled
  <2> HIDE DEF touched
  <2> QED
    BY <1>4, <2>5, <2>6, Recomputed
<1> QED
  BY <1>2, <1>3, <1>4

\* Maintenance takes rows, and rows of the tables, from before the horizon.
LEMMA MaintainRollup ==
  ASSUME TypeInv, RollupInv, maintain
  PROVE  RollupInv'
<1>1. /\ raw' \subseteq raw /\ \A row \in raw \ raw' : row.at < RawCutoff
      /\ hourly' \subseteq hourly /\ \A u \in hourly \ hourly' : u.bucket < RollupCutoff
      /\ daily' \subseteq daily /\ \A u \in daily \ daily' : u.bucket < RollupCutoff
  BY BatchKeeps DEF maintain
<1>2. RawCutoff \in Int /\ RollupCutoff \in Int /\ RollupCutoff <= RawCutoff
  <2>1. now \in Nat
    BY RetentionAssumption DEF TypeInv, TypeOK, Hours
  <2> QED
    BY <2>1, Cutoffs
<1>3. horizon \in Int /\ horizon' \in Int /\ horizon' >= horizon /\ horizon' >= RawCutoff
  BY <1>2 DEF maintain, TypeInv, TypeOK
<1> SUFFICES ASSUME NEW b \in Nat, b >= horizon'
             PROVE  Rolled(hourly', raw', 1, b) /\ Rolled(daily', raw', DayLen, b)
  BY DEF RollupInv, Rolled
<1>4. b >= horizon /\ b >= RawCutoff /\ b >= RollupCutoff
  BY <1>2, <1>3
<1>5. ASSUME NEW size \in Nat \ {0}
      PROVE  InBucket(raw, size, b) = InBucket(raw', size, b)
  <2>1. ASSUME NEW row \in (raw \ raw') \cup (raw' \ raw), utcBucket(row.at, size) = b
        PROVE  FALSE
    <3>1. row \in raw /\ row.at < RawCutoff
      BY <1>1, <2>1
    <3>2. row.at \in Nat
      BY <3>1, RowType DEF TypeInv, TypeOK, Hours
    <3>3. b <= row.at
      BY <2>1, <3>2, BucketBounds
    <3> QED
      BY <1>2, <1>4, <3>1, <3>2, <3>3
  <2> QED
    BY <2>1, SameBucket
<1>6. {u \in hourly' : u.bucket = b} = {u \in hourly : u.bucket = b}
  BY <1>1, <1>2, <1>4
<1>7. {u \in daily' : u.bucket = b} = {u \in daily : u.bucket = b}
  BY <1>1, <1>2, <1>4
<1>8. 1 \in Nat \ {0} /\ DayLen \in Nat \ {0}
  BY RetentionAssumption
<1>9. Rolled(hourly, raw, 1, b) /\ Rolled(daily, raw, DayLen, b)
  BY <1>4 DEF RollupInv
<1> QED
  BY <1>5, <1>6, <1>7, <1>8, <1>9 DEF Rolled

LEMMA NextRollup == TypeInv /\ RollupInv /\ [Next]_vars => RollupInv'
<1> SUFFICES ASSUME TypeInv, RollupInv, [Next]_vars PROVE RollupInv'
  OBVIOUS
<1>1. CASE UNCHANGED <<raw, hourly, daily, horizon>>
  BY <1>1 DEF RollupInv, Rolled
<1>2. ASSUME NEW q \in Readings, ingestSnapshot(q)
      PROVE  UNCHANGED <<raw, hourly, daily, horizon>>
  BY <1>2 DEF ingestSnapshot, history
<1>3. ASSUME NEW l \in Letters, ingestDeadLetter(l)
      PROVE  UNCHANGED <<raw, hourly, daily, horizon>>
  BY <1>3 DEF ingestDeadLetter, history
<1>4. CASE Open \/ Migrate \/ SetVersion \/ AcquireLease \/ Close \/ Crash \/ Tick \/ UNCHANGED vars
  BY <1>1, <1>4 DEF Open, Migrate, SetVersion, AcquireLease, Close, Crash, Tick, tables, history, vars
<1> QED
  BY <1>1, <1>2, <1>3, <1>4, RequestRollup, MaintainRollup DEF Next

(* Whatever is merged, moved to another group, replayed or purged in         *)
(* batches: in the hours and days whose request rows are all there, both     *)
(* rollup tables are what the rows add up to.                                *)
THEOREM RollupsMatch == Spec => []RollupMatchesRaw
<1>1. RollupInv => RollupMatchesRaw
  BY DEF RollupInv, Rolled, RollupMatchesRaw, Hours
<1> QED
  BY <1>1, InitTypeInv, InitRollup, NextTypeInv, NextRollup, PTL DEF Spec

-----------------------------------------------------------------------------
(* The seam between the client, the projectors and the storage.              *)
LEMMA NoProblem ==
  ASSUME NEW r, problem(r) = ""
  PROVE  identifier(r.event) /\ identifier(r.request) /\ normalizeObservation(r)
BY DEF problem

LEMMA HashableIdentifier == \A f : identifier(f) => hashable(f)
BY DEF identifier, hashable, validateBoundedString, MAX_IDENTIFIER_LENGTH

LEMMA RecordLanding ==
  ASSUME NEW r \in Records, Plain([k \in TextFields |-> r[k]])
  PROVE  RecordLands(r)
<1>1. \A k \in TextFields : r[k].type = "string" => ~r[k].nul
  <2> TAKE k \in TextFields
  <2>1. IsJson(r[k])
    BY JsonAssumption
  <2>2. "nul" \in DOMAIN r[k] => ~r[k].nul
    BY DEF Plain
  <2> QED
    BY <2>1, <2>2 DEF IsJson
<1>2. ASSUME problem(r) = ""
      PROVE  validateRequestObservation(r) /\ \A k \in {"request", "account", "apiKey"} : hashable(r[k])
  <2>1. identifier(r["request"]) /\ normalizeObservation(r)
    BY <1>2, NoProblem
  <2>2. \A k \in {"request", "account", "apiKey"} : hashable(r[k])
    <3>1. \A k \in {"account", "apiKey"} : Present(r[k]) => identifier(r[k])
      BY <2>1 DEF normalizeObservation
    <3>2. \A k : ~Present(r[k]) => hashable(r[k])
      BY DEF hashable
    <3> QED
      BY <2>1, <3>1, <3>2, HashableIdentifier
  <2>3. ASSUME NEW k \in Dimensional, Present(r[k]) PROVE boundedString(r[k])
    <3>1. r[k].type = "string" /\ r[k].len <= 128
      BY <2>1, <2>3 DEF normalizeObservation, optionalDimension, MAX_DIMENSION_LENGTH
    <3>2. IsJson(r[k]) /\ k \in TextFields
      BY JsonAssumption DEF Dimensional, TextFields
    <3> QED
      BY <1>1, <3>1, <3>2 DEF boundedString, MAX_BOUND_STRING, IsJson
  <2>4. \A k \in NumberFields : Present(r[k]) => safeInteger(r[k])
    BY <2>1 DEF normalizeObservation, readNullableInteger, safeInteger
  <2> QED
    BY <2>2, <2>3, <2>4 DEF validateRequestObservation
<1> QED
  BY <1>2, HashableIdentifier DEF RecordLands

LEMMA FileLanding ==
  ASSUME NEW f \in AuthFiles, Plain(f)
  PROVE  FileLands(f)
<1>1. "provider" \in DOMAIN f /\ IsJson(f["provider"])
  BY JsonAssumption DEF FileFields
<1>2. "nul" \in DOMAIN f["provider"] => ~f["provider"].nul
  BY <1>1 DEF Plain
<1> QED
  BY <1>1, <1>2 DEF FileLands, parseAuthFile, requireString, validateBoundedString,
     validateAccountHealthObservation, boundedString, MAX_BOUND_STRING, IsJson

LEMMA WindowLanding ==
  ASSUME NEW w \in Windows
  PROVE  WindowLands(w)
<1>1. IsJson(w["used"]) /\ IsJson(w["reset"])
  BY JsonAssumption DEF WindowFields
<1> QED
  BY <1>1 DEF WindowLands, parseQuotaWindow, requireNumber, validateQuotaObservation, safeQuotaNumber, IsJson

(* Not only for the records a run tries: whatever JSON holds in the fields,  *)
(* what the client's parser lets through is hashed, bounded and stored or    *)
(* becomes a dead letter.                                                    *)
THEOREM RecordsLand == Spec => []EveryRecordLands
<1>1. EveryRecordLands
  BY RecordLanding, FileLanding, WindowLanding DEF EveryRecordLands
<1> QED
  BY <1>1, PTL
=============================================================================
