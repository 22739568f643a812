------------------------------ MODULE Matching ------------------------------
(***************************************************************************)
(* Eligibility in three values, the match score and the choice of a slate. *)
(* Facts about an offer arrive one by one: what is unknown becomes known.  *)
(*                                                                         *)
(* Code: src/homefinder/domain/{matching,ranking,costs}.py.  Amounts are   *)
(* whole numbers; a score is kept in twentieths of a point, so that the    *)
(* code's 0.25, 0.5 and 1/20 steps are exact.  The wording of              *)
(* explanations is left out.                                               *)
(***************************************************************************)
EXTENDS Integers, FiniteSets, FiniteSetsExt, Sequences, SequencesExt

CONSTANTS
    Unknown,            \* None, UNKNOWN: nothing is known
    Offer,              \* candidate ids, numbers in the order of the ids
    FirstFacts,         \* what is known of each offer at first
    Discovery,          \* <<offer, field, value>>: what may be found out
    Profile,            \* thresholds of the buyer profile
    Weight,             \* score_weights
    Limit,              \* size of a slate
    Cooldown            \* days before an unchanged offer is shown again

Maybe(S) == S \cup {Unknown}

CostEstimate ==
    [price : Nat, extras : Nat, closing : Nat, renovation : Nat, contingency : Nat,
     financed : Maybe(Nat), installment : Maybe(Nat)]

PropertyFacts ==
    [transaction : Maybe(STRING), market : Maybe(STRING), locality : Maybe(STRING),
     heating : Maybe(STRING), evidence : Maybe({"pass", "fail"}), cost : Maybe(CostEstimate),
     vacant : Maybe(BOOLEAN), ownership : Maybe(BOOLEAN), legalRisk : Maybe(BOOLEAN),
     layout : Maybe(BOOLEAN), garden : Maybe(BOOLEAN), elevator : Maybe(BOOLEAN),
     parking : Maybe(BOOLEAN), ready : Maybe(BOOLEAN), quiet : Maybe(BOOLEAN),
     green : Maybe(BOOLEAN), balcony : Maybe(BOOLEAN), kitchen : Maybe(BOOLEAN),
     feeHeating : Maybe(BOOLEAN), changed : BOOLEAN,
     floor : Maybe(Int), top : Maybe(Int), area : Maybe(Nat), rooms : Maybe(Nat),
     dwellings : Maybe(Nat), commute : Maybe(Nat), fee : Maybe(Nat), presented : Maybe(Nat)]

Component == {"ready", "quiet", "green", "balcony", "kitchen", "small_building", "area_fit"}

(* What a discovery says is of the type of the fact; the weights are those *)
(* of a score from 0 to 100.                                               *)
ASSUME MatchAssumption ==
    /\ Offer \subseteq Nat /\ IsFiniteSet(Offer)
    /\ Limit \in Nat \ {0} /\ Cooldown \in Nat
    /\ Unknown \notin BOOLEAN /\ Unknown \notin {"pass", "fail"}
    /\ FirstFacts \in [Offer -> PropertyFacts]
    /\ \A d \in Discovery : \A o \in Offer :
          [FirstFacts[o] EXCEPT ![d[2]] = d[3]] \in PropertyFacts
    /\ {Profile.idealLow, Profile.idealHigh} \subseteq Nat
    /\ Weight \in [Component -> Nat]
    /\ Weight.ready + Weight.quiet + Weight.green + Weight.balcony + Weight.kitchen
          + Weight.small_building + Weight.area_fit = 100

VARIABLE offers         \* facts of each offer

PASS == "pass"
FAIL == "fail"

-----------------------------------------------------------------------------
(* CostEstimate.                                                           *)
AllInHigh(c) == c.price + c.extras + c.closing + c.renovation + c.contingency
CashHigh(c) == IF c.financed = Unknown THEN Unknown ELSE AllInHigh(c) - c.financed

(* The rules, each in three values.                                        *)
Holds(condition) == IF condition THEN PASS ELSE FAIL
BooleanRule(value) == IF value = Unknown THEN Unknown ELSE Holds(value)
MaxRule(actual, maximum) == IF actual = Unknown THEN Unknown ELSE Holds(actual <= maximum)
MinRule(actual, minimum) == IF actual = Unknown THEN Unknown ELSE Holds(actual >= minimum)

PrimaryMarketEvidence(f) ==
    IF f.market = Unknown THEN Unknown
    ELSE IF f.market = "secondary" THEN PASS ELSE f.evidence

GardenAssumed(f) ==
    IF Unknown \in {f.floor, f.top} THEN Unknown
    ELSE IF f.floor >= f.top \/ (f.floor = 0 /\ f.garden = FALSE) THEN FAIL ELSE PASS

(* _floor_rule: below the top floor, and on the ground floor a garden.     *)
FloorRule(f) ==
    IF Unknown \in {f.floor, f.top} THEN Unknown
    ELSE IF f.floor >= f.top THEN FAIL
    ELSE IF f.floor = 0 THEN BooleanRule(f.garden) ELSE PASS

(* _elevator_rule: needed above the third floor.                           *)
ElevatorRule(f) ==
    IF f.floor = Unknown THEN Unknown
    ELSE IF f.floor <= 3 THEN PASS ELSE BooleanRule(f.elevator)

(* The figures of a cost estimate that rules compare, if there is one.     *)
Costs(f) ==
    IF f.cost = Unknown THEN [price |-> Unknown, cash |-> Unknown, installment |-> Unknown]
      ELSE [price |-> AllInHigh(f.cost), cash |-> CashHigh(f.cost),
            installment |-> f.cost.installment]

(* evaluate: the rules that decide eligibility.                            *)
Rules(f) ==
    [transaction    |-> BooleanRule(IF f.transaction = Unknown THEN Unknown
                                    ELSE f.transaction = "purchase"),
     primary_market |-> PrimaryMarketEvidence(f),
     vacant         |-> BooleanRule(f.vacant),
     ownership      |-> BooleanRule(f.ownership),
     legal_risk     |-> BooleanRule(IF f.legalRisk = Unknown THEN Unknown ELSE ~f.legalRisk),
     locality       |-> BooleanRule(IF f.locality = Unknown THEN Unknown
                                    ELSE f.locality \notin Profile.excluded),
     price          |-> MaxRule(Costs(f).price, Profile.maxPrice),
     cash           |-> MaxRule(Costs(f).cash, Profile.cash),
     installment    |-> MaxRule(Costs(f).installment, Profile.maxInstallment),
     area           |-> MinRule(f.area, Profile.minArea),
     rooms          |-> MinRule(f.rooms, Profile.minRooms),
     layout         |-> BooleanRule(f.layout),
     floor          |-> FloorRule(f),
     elevator       |-> ElevatorRule(f),
     parking        |-> BooleanRule(f.parking),
     building_scale |-> MaxRule(f.dwellings, Profile.maxDwellings),
     commute        |-> MaxRule(f.commute, Profile.maxCommute)]

(* _admin_fee_rule and _heating_rule: preferences, which decide nothing.   *)
Preferences(f) ==
    [admin_fee |-> IF f.feeHeating = TRUE THEN MaxRule(f.fee, Profile.referenceFee)
                                          ELSE Unknown,
     heating   |-> IF f.heating = Unknown THEN Unknown
                                          ELSE Holds(f.heating = Profile.heating)]

Eligible(f) == LET rules == Rules(f) IN \A r \in DOMAIN rules : rules[r] = PASS

-----------------------------------------------------------------------------
(* _score_components, in twentieths.                                       *)
Evidence(value) == IF value = Unknown THEN 10 ELSE IF value THEN 20 ELSE 0

SmallBuilding(dwellings) ==
    IF dwellings = Unknown THEN 10
    ELSE IF dwellings <= 20 THEN 20
    ELSE IF dwellings <= 40 THEN 15
    ELSE IF dwellings <= 80 THEN 5 ELSE 0

Distance(x, y) == IF x < y THEN y - x ELSE x - y

(* area_fit: full marks in the ideal band, none from 20 m2 away.           *)
AreaFit(area) ==
    IF area = Unknown THEN 10
    ELSE IF area \in Profile.idealLow..Profile.idealHigh THEN 20
    ELSE Max({0, 20 - Min({Distance(area, Profile.idealLow),
                           Distance(area, Profile.idealHigh)})})

ScoreComponents(f) ==
    [ready |-> Evidence(f.ready), quiet |-> Evidence(f.quiet), green |-> Evidence(f.green),
     balcony |-> Evidence(f.balcony), kitchen |-> Evidence(f.kitchen),
     small_building |-> SmallBuilding(f.dwellings), area_fit |-> AreaFit(f.area)]

Weighted(points) ==
    Weight.ready * points.ready + Weight.quiet * points.quiet
    + Weight.green * points.green + Weight.balcony * points.balcony
    + Weight.kitchen * points.kitchen
    + Weight.small_building * points.small_building + Weight.area_fit * points.area_fit

Score(f) == Weighted(ScoreComponents(f))

-----------------------------------------------------------------------------
(* The order of ranking: by score, then by id.                             *)
Before(a, b) ==
    LET ahead == Score(offers[a]) - Score(offers[b])
    IN  ahead > 0 \/ (ahead = 0 /\ a < b)

(* How many of S rank before o, and the first n of S.                      *)
Position(S, o) == Cardinality({p \in S : Before(p, o)})
Top(n, S) == {o \in S : Position(S, o) < n}

ByScore(S) == [i \in 1..Cardinality(S) |-> CHOOSE o \in S : Position(S, o) = i - 1]

(* _diversify: the best offer of each locality, as many as there is room   *)
(* for, and then the best of the others.                                   *)
BestOfLocality(pool) ==
    {o \in pool : \A p \in pool : offers[p].locality = offers[o].locality => ~Before(p, o)}
Selected(pool) ==
    LET firsts == Top(Limit, BestOfLocality(pool))
    IN  firsts \cup Top(Limit - Cardinality(firsts), pool \ firsts)
Diversify(pool) == ByScore(Selected(pool))

(* _can_present, on the day of selection.                                  *)
CanPresent(f) == f.presented = Unknown \/ f.changed \/ f.presented >= Cooldown

(* select_slate.                                                           *)
Compliant == Diversify({o \in Offer : CanPresent(offers[o]) /\ Eligible(offers[o])})

Exploration ==
    Diversify({o \in Offer : /\ CanPresent(offers[o]) /\ ~Eligible(offers[o])
                             /\ offers[o].transaction # "rental"
                             /\ offers[o].legalRisk # TRUE
                             /\ offers[o].vacant # FALSE})

-----------------------------------------------------------------------------
MatchInit == offers = FirstFacts

(* A later snapshot, enrichment or import fills in a fact.                 *)
Discover(o, field, value) ==
    /\ offers[o][field] = Unknown
    /\ offers' = [offers EXCEPT ![o][field] = value]

MatchNext == \E d \in Discovery : Discover(d[1], d[2], d[3])

MatchSpec == MatchInit /\ [][MatchNext]_offers

-----------------------------------------------------------------------------
(* The offers of which something became known in a step.                   *)
Learned == {o \in Offer : offers'[o] # offers[o]}

(* What is decided stays decided.                                          *)
Stands(before, after) == \A r \in DOMAIN before : before[r] # Unknown => after[r] = before[r]

(* A verdict once reached stands: a rule that passes or fails never        *)
(* changes when more becomes known, so an offer shown as eligible was not  *)
(* shown on a guess (evaluate reads a missing fact as UNKNOWN, never as a  *)
(* default), and the confidence never falls.                               *)
VerdictsStand ==
    [][\A o \in Learned : /\ Stands(Rules(offers[o]), Rules(offers[o])')
                          /\ Stands(Preferences(offers[o]), Preferences(offers[o])')]_offers

(* Unknown is worth half: finding out one fact moves the score by no more  *)
(* than half of the weights of the components that the fact is part of,    *)
(* and the score stays between 0 and 100 points.                           *)
ScoreWithinHalf ==
    [][\A o \in Learned :
          LET before == ScoreComponents(offers[o])
              after == ScoreComponents(offers[o])'
              Half(c) == IF after[c] # before[c] THEN 10 ELSE 0 IN
          /\ Score(offers[o])' \in 0..2000
          /\ Distance(Score(offers[o])', Score(offers[o]))
                <= Weighted([c \in Component |-> Half(c)])]_offers

(* A slate against its purpose: it is full when there are offers enough,   *)
(* no locality has two places while another has none, and an offer is left *)
(* out in favour of a worse one only when the worse one is the best of a   *)
(* locality that has no other place.                                       *)
FairSlate(slate, pool) ==
    /\ ToSet(slate) \subseteq pool
    /\ Len(slate) = Min({Limit, Cardinality(pool)})
    /\ \A i, j \in DOMAIN slate : i < j => Before(slate[i], slate[j])
    /\ \A out \in pool \ ToSet(slate) :
          \/ \E in \in ToSet(slate) : offers[in].locality = offers[out].locality
          \/ \A i, j \in DOMAIN slate :
                i # j => offers[slate[i]].locality # offers[slate[j]].locality
    /\ \A out \in pool \ ToSet(slate), in \in ToSet(slate) :
          Before(out, in) =>
             /\ \E best \in ToSet(slate) :
                   offers[best].locality = offers[out].locality /\ Before(best, out)
             /\ \A other \in pool \ {in} :
                   offers[other].locality = offers[in].locality => Before(in, other)

Open(f) == CanPresent(f) /\ f.transaction # "rental" /\ f.legalRisk # TRUE /\ f.vacant # FALSE

(* Both slates are fair to the offers that are open to the buyer, and no   *)
(* offer is on both (select_slate, _diversify).                            *)
SlatesAreDiverse ==
    LET compliant == Compliant
        exploration == Exploration
    IN  /\ ToSet(compliant) \cap ToSet(exploration) = {}
        /\ FairSlate(compliant, {o \in Offer : Open(offers[o]) /\ Eligible(offers[o])})
        /\ FairSlate(exploration, {o \in Offer : Open(offers[o]) /\ ~Eligible(offers[o])})

(* Matching under facts that arrive one by one: verdicts stand, scores     *)
(* move little, and the slates chosen from them are diverse.               *)
MatchingSound == []SlatesAreDiverse /\ VerdictsStand /\ ScoreWithinHalf

=============================================================================
