--------------------------- MODULE ValuationProofs --------------------------
(***************************************************************************)
(* For every configuration, market and sequence of facts: ladders are      *)
(* ordered and stay under the ceiling, concessions move, and better news   *)
(* never lowers a valuation.                                               *)
(***************************************************************************)
EXTENDS Valuation, FiniteSetTheorems, TLAPS

-----------------------------------------------------------------------------
(* Arithmetic.                                                             *)

\* Multiplication is monotone in each factor.
LEMMA TimesMono ==
    ASSUME NEW x \in Nat, NEW y \in Nat, NEW p \in Nat, NEW q \in Nat, x <= y, p <= q
    PROVE  x * p <= y * q
<1>1. x * p <= y * p
  <2>1. y * p = x * p + (y - x) * p  BY SMT
  <2>2. (y - x) \in Nat /\ (y - x) * p >= 0  BY SMT
  <2> QED  BY <2>1, <2>2, SMT
<1>2. y * p <= y * q
  <2>1. y * q = y * p + y * (q - p)  BY SMT
  <2>2. (q - p) \in Nat /\ y * (q - p) >= 0  BY SMT
  <2> QED  BY <2>1, <2>2, SMT
<1> QED  BY <1>1, <1>2, SMT

\* A line of a larger sum, or of a larger share, is no smaller.
LEMMA PermilleMono ==
    ASSUME NEW x \in Nat, NEW y \in Nat, NEW p \in Nat, NEW q \in Nat, x <= y, p <= q
    PROVE  /\ Permille(x, p) \in Nat
           /\ Permille(x, p) <= Permille(y, q)
<1>1. x * p \in Nat /\ y * q \in Nat  BY SMT
<1>2. x * p <= y * q  BY TimesMono
<1> QED  BY <1>1, <1>2, SMT DEF Permille

\* What is kept after the margin grows with what there was.
LEMMA KeptMono ==
    ASSUME NEW x \in Int, NEW y \in Int, x <= y
    PROVE  Kept(x) \in Int /\ Kept(x) <= Kept(y)
<1>1. Margin \in Nat /\ Margin <= 1000  BY EngineAssumption
<1>2. (y - x) * Margin <= (y - x) * 1000
  BY <1>1, TimesMono, SMT
<1>3. y * Margin = x * Margin + (y - x) * Margin  BY <1>1, SMT
<1>4. x * Margin \in Int /\ y * Margin \in Int /\ (y - x) * Margin \in Int  BY <1>1, SMT
<1>5. y * Margin + 500 <= x * Margin + 500 + (y - x) * 1000  BY <1>2, <1>3, <1>4, SMT
<1>6. (y * Margin + 500) \div 1000 <= ((x * Margin + 500) \div 1000) + (y - x)
  BY <1>4, <1>5, SMT
<1> QED  BY <1>4, <1>6, SMT DEF Kept, Permille

\* A rung is a multiple of the rounding step, and a larger share is no lower a
\* rung; it is a higher one when the difference is worth a step.
LEMMA FloorMono ==
    ASSUME NEW x \in Nat, NEW s \in Nat, NEW t \in Nat, s <= t
    PROVE  /\ FloorTo(x, s) \in Nat
           /\ FloorTo(x, s) <= FloorTo(x, t)
           /\ WorthAStep(x, s, t) => FloorTo(x, s) < FloorTo(x, t)
<1>1. x * s \in Nat /\ x * t \in Nat /\ x * s <= x * t  BY TimesMono, SMT
<1>2. x * (t - s) = x * t - x * s  BY SMT
<1>3. FloorTo(x, s) \in Nat /\ FloorTo(x, s) <= FloorTo(x, t)
  BY <1>1, SMT DEF FloorTo, Rounding, Dollars
<1>4. ASSUME WorthAStep(x, s, t)
      PROVE  FloorTo(x, s) < FloorTo(x, t)
  <2>1. x * t >= x * s + 5000000  BY <1>1, <1>2, <1>4, SMT DEF WorthAStep, Rounding, Dollars
  <2> QED  BY <1>1, <2>1, SMT DEF FloorTo, Rounding, Dollars
<1> QED  BY <1>3, <1>4

\* The ceiling's own rung is the last step below it.
LEMMA FloorBelow ==
    ASSUME NEW x \in Nat
    PROVE  FloorTo(x, 1000) <= x /\ x < FloorTo(x, 1000) + Rounding
BY SMT DEF FloorTo, Rounding, Dollars

-----------------------------------------------------------------------------
(* What a line costs, by the news of its field.                            *)

\* The shares taken off the value are percentages, and better news takes no
\* larger one.
LEMMA CutsMono ==
    ASSUME NEW a \in Cars, NEW b \in Cars, NoWorse(a, b)
    PROVE  /\ ServiceCut(a) \in Nat /\ ServiceCut(b) \in Nat /\ ServiceCut(b) <= ServiceCut(a)
           /\ RegoCut(a) \in Nat /\ RegoCut(b) \in Nat /\ RegoCut(b) <= RegoCut(a)
           /\ DamageCut(a) \in Nat /\ DamageCut(b) \in Nat /\ DamageCut(b) <= DamageCut(a)
           /\ WriteOffCut(a) \in Nat /\ WriteOffCut(b) \in Nat /\ WriteOffCut(b) <= WriteOffCut(a)
           /\ StigmaCut(a) \in Nat /\ StigmaCut(b) \in Nat /\ StigmaCut(b) <= StigmaCut(a)
           /\ LightsCut(a) \in Nat /\ LightsCut(b) \in Nat /\ LightsCut(b) <= LightsCut(a)
<1>1. ServiceCut(a) \in Nat /\ ServiceCut(b) \in Nat /\ ServiceCut(b) <= ServiceCut(a)
  BY SMT DEF Cars, Services, NoWorse, ServiceNews, ServiceCut
<1>2. RegoCut(a) \in Nat /\ RegoCut(b) \in Nat /\ RegoCut(b) <= RegoCut(a)
  BY SMT DEF Cars, Regos, NoWorse, RegoNews, RegoCut
<1>3. DamageCut(a) \in Nat /\ DamageCut(b) \in Nat /\ DamageCut(b) <= DamageCut(a)
  BY SMT DEF Cars, NoWorse, DamageCut
<1>4. WriteOffCut(a) \in Nat /\ WriteOffCut(b) \in Nat /\ WriteOffCut(b) <= WriteOffCut(a)
  BY SMT DEF Cars, NoWorse, WriteOffCut
<1>5. StigmaCut(a) \in Nat /\ StigmaCut(b) \in Nat /\ StigmaCut(b) <= StigmaCut(a)
  BY SMT DEF Cars, Paints, NoWorse, PaintNews, StigmaCut
<1>6. LightsCut(a) \in Nat /\ LightsCut(b) \in Nat /\ LightsCut(b) <= LightsCut(a)
  BY SMT DEF Cars, Faults, NoWorse, NoWorseFaults, LightsCut
<1> QED  BY <1>1, <1>2, <1>3, <1>4, <1>5, <1>6

\* Better news costs no more to put right.
LEMMA CostsMono ==
    ASSUME NEW a \in Cars, NEW b \in Cars, NoWorse(a, b)
    PROVE  Recon(a) \in Nat /\ Recon(b) \in Nat /\ Recon(b) <= Recon(a)
<1>1. ServiceCost(a) \in Nat /\ ServiceCost(b) \in Nat /\ ServiceCost(b) <= ServiceCost(a)
  BY SMT DEF Cars, Services, NoWorse, ServiceNews, ServiceCost
<1>2. PaintCost(a) \in Nat /\ PaintCost(b) \in Nat /\ PaintCost(b) <= PaintCost(a)
  BY SMT DEF Cars, Paints, NoWorse, PaintNews, PaintCost
<1>3. TyreCost(a) \in Nat /\ TyreCost(b) \in Nat /\ TyreCost(b) <= TyreCost(a)
  <2>1. Tyre(a.segment) \in Nat /\ Tyre(a.segment) >= 160 /\ b.segment = a.segment
    BY SMT DEF Cars, Segments, NoWorse, Tyre
  <2> QED  BY <2>1, SMT DEF Cars, Tyres, NoWorse, TyreNews, TyreCost
<1>4. KeyCost(a) \in Nat /\ KeyCost(b) \in Nat /\ KeyCost(b) <= KeyCost(a)
  BY SMT DEF Cars, Segments, Keys, NoWorse, KeyNews, KeyCost
<1>5. FaultCost(a) \in Nat /\ FaultCost(b) \in Nat /\ FaultCost(b) <= FaultCost(a)
  BY SMT DEF Cars, Faults, NoWorse, NoWorseFaults, FaultCost, Itemised
<1>6. RegoCost(a) \in Nat /\ RegoCost(b) \in Nat /\ RegoCost(b) <= RegoCost(a)
  BY SMT DEF Cars, Regos, NoWorse, RegoNews, RegoCost
<1> QED  BY <1>1, <1>2, <1>3, <1>4, <1>5, <1>6, SMT DEF Recon

\* One element more makes the cardinality larger by one at most.
LEMMA OneMore ==
    ASSUME NEW S, NEW e, NEW n \in Nat, IsFiniteSet(S), Cardinality(S) <= n
    PROVE  IsFiniteSet(S \cup {e}) /\ Cardinality(S \cup {e}) <= n + 1
<1>1. IsFiniteSet(S \cup {e})
      /\ Cardinality(S \cup {e}) = IF e \in S THEN Cardinality(S) ELSE Cardinality(S) + 1
  BY FS_AddElement
<1>2. Cardinality(S) \in Nat  BY FS_CardinalityType
<1> QED  BY <1>1, <1>2, SMT

\* There are five fields at most for the contingency to count.
LEMMA FiveFields == IsFiniteSet(ConditionFields) /\ Cardinality(ConditionFields) <= 5
<1> DEFINE S1 == {"service"}  S2 == S1 \cup {"paint"}  S3 == S2 \cup {"tyres"}
           S4 == S3 \cup {"keys"}  S5 == S4 \cup {"faults"}
<1>1. IsFiniteSet(S1) /\ Cardinality(S1) <= 1  BY FS_Singleton, SMT
<1> HIDE DEF S1
<1>2. IsFiniteSet(S2) /\ Cardinality(S2) <= 2
  <2>1. IsFiniteSet(S2) /\ Cardinality(S2) <= 1 + 1  BY <1>1, OneMore
  <2> QED  BY <2>1, SMT
<1> HIDE DEF S2
<1>3. IsFiniteSet(S3) /\ Cardinality(S3) <= 3
  <2>1. IsFiniteSet(S3) /\ Cardinality(S3) <= 2 + 1  BY <1>2, OneMore
  <2> QED  BY <2>1, SMT
<1> HIDE DEF S3
<1>4. IsFiniteSet(S4) /\ Cardinality(S4) <= 4
  <2>1. IsFiniteSet(S4) /\ Cardinality(S4) <= 3 + 1  BY <1>3, OneMore
  <2> QED  BY <2>1, SMT
<1> HIDE DEF S4
<1>5. IsFiniteSet(S5) /\ Cardinality(S5) <= 5
  <2>1. IsFiniteSet(S5) /\ Cardinality(S5) <= 4 + 1  BY <1>4, OneMore
  <2> QED  BY <2>1, SMT
<1>6. S5 = ConditionFields  BY DEF S1, S2, S3, S4, S5, ConditionFields
<1> QED  BY <1>5, <1>6, SMT

\* The contingency rate is a percentage, and falls as more is verified.
LEMMA RateMono ==
    ASSUME NEW a \in Cars, NEW b \in Cars, NoWorse(a, b)
    PROVE  /\ ContingencyRate(a) \in Nat /\ ContingencyRate(b) \in Nat
           /\ ContingencyRate(b) <= ContingencyRate(a)
<1>1. a.verified \subseteq b.verified /\ b.verified \subseteq ConditionFields
  BY DEF NoWorse, Cars
<1>2. IsFiniteSet(b.verified) /\ Cardinality(b.verified) <= Cardinality(ConditionFields)
  BY <1>1, FiveFields, FS_Subset
<1>3. IsFiniteSet(a.verified) /\ Cardinality(a.verified) <= Cardinality(b.verified)
  BY <1>1, <1>2, FS_Subset
<1>4. /\ Cardinality(a.verified) \in Nat /\ Cardinality(b.verified) \in Nat
      /\ Cardinality(ConditionFields) \in Nat
  BY <1>2, <1>3, FiveFields, FS_CardinalityType
<1> QED  BY <1>2, <1>3, <1>4, FiveFields, SMT DEF ContingencyRate

-----------------------------------------------------------------------------
(* The figures of a valuation.                                             *)

\* What it takes to sell a car with better news, contingency included, is no
\* more.
LEMMA EstimateMono ==
    ASSUME NEW a \in Cars, NEW b \in Cars, NoWorse(a, b)
    PROVE  ReconEstimate(a) \in Nat /\ ReconEstimate(b) \in Nat
               /\ ReconEstimate(b) <= ReconEstimate(a)
<1>1. /\ Dollars(Recon(a)) \in Nat /\ Dollars(Recon(b)) \in Nat
      /\ Dollars(Recon(b)) <= Dollars(Recon(a))
  BY CostsMono, SMT DEF Dollars
<1>2. /\ Permille(Dollars(Recon(b)), ContingencyRate(b)) \in Nat
      /\ Permille(Dollars(Recon(a)), ContingencyRate(a)) \in Nat
      /\ Permille(Dollars(Recon(b)), ContingencyRate(b))
             <= Permille(Dollars(Recon(a)), ContingencyRate(a))
  BY <1>1, RateMono, PermilleMono
<1> QED  BY <1>1, <1>2, SMT DEF ReconEstimate

\* The market takes no more off a car with better news.
LEMMA DeductionsMono ==
    ASSUME NEW a \in Cars, NEW b \in Cars, NoWorse(a, b), NEW x \in Nat
    PROVE  /\ Deductions(a, x) \in Nat /\ Deductions(b, x) \in Nat
           /\ Deductions(b, x) <= Deductions(a, x)
<1>1. \A p, q \in Nat : p <= q => /\ Permille(x, p) \in Nat /\ Permille(x, q) \in Nat
                                 /\ Permille(x, p) <= Permille(x, q)
  BY PermilleMono
<1>2. /\ Permille(x, ServiceCut(a)) \in Nat /\ Permille(x, ServiceCut(b)) \in Nat
      /\ Permille(x, ServiceCut(b)) <= Permille(x, ServiceCut(a))
  BY <1>1, CutsMono
<1>3. /\ Permille(x, RegoCut(a)) \in Nat /\ Permille(x, RegoCut(b)) \in Nat
      /\ Permille(x, RegoCut(b)) <= Permille(x, RegoCut(a))
  BY <1>1, CutsMono
<1>4. /\ Permille(x, DamageCut(a)) \in Nat /\ Permille(x, DamageCut(b)) \in Nat
      /\ Permille(x, DamageCut(b)) <= Permille(x, DamageCut(a))
  BY <1>1, CutsMono
<1>5. /\ Permille(x, WriteOffCut(a)) \in Nat /\ Permille(x, WriteOffCut(b)) \in Nat
      /\ Permille(x, WriteOffCut(b)) <= Permille(x, WriteOffCut(a))
  BY <1>1, CutsMono
<1>6. /\ Permille(x, StigmaCut(a)) \in Nat /\ Permille(x, StigmaCut(b)) \in Nat
      /\ Permille(x, StigmaCut(b)) <= Permille(x, StigmaCut(a))
  BY <1>1, CutsMono
<1>7. /\ Permille(x, LightsCut(a)) \in Nat /\ Permille(x, LightsCut(b)) \in Nat
      /\ Permille(x, LightsCut(b)) <= Permille(x, LightsCut(a))
  BY <1>1, CutsMono
<1> QED  BY <1>2, <1>3, <1>4, <1>5, <1>6, <1>7, SMT DEF Deductions

\* Better news of a car never lowers its ceiling.
LEMMA WholesaleMono ==
    ASSUME NEW a \in Cars, NEW b \in Cars, NoWorse(a, b), NEW x \in Nat
    PROVE  WholesaleMax(a, x) <= WholesaleMax(b, x)
<1>1. /\ Adjusted(a, x) \in Int /\ Adjusted(b, x) \in Int
      /\ Adjusted(a, x) <= Adjusted(b, x)
  BY DeductionsMono, SMT DEF Adjusted
<1>2. /\ Kept(Adjusted(a, x)) \in Int /\ Kept(Adjusted(b, x)) \in Int
      /\ Kept(Adjusted(a, x)) <= Kept(Adjusted(b, x))
  BY <1>1, KeptMono
<1>3. Transport \in Nat  BY EngineAssumption
<1> QED  BY <1>2, <1>3, EstimateMono, SMT DEF WholesaleMax

\* Nothing is worse news than itself.
LEMMA NoWorseSelf ==
    ASSUME NEW a \in Cars
    PROVE  NoWorse(a, a)
BY SMT DEF NoWorse, NoWorseFaults, Cars, Services, Paints, Tyres, Keys, Regos,
           ServiceNews, PaintNews, TyreNews, KeyNews, RegoNews

\* A ceiling is a natural number of cents.
LEMMA CeilingType ==
    ASSUME NEW a \in Cars, NEW x \in Nat
    PROVE  WholesaleMax(a, x) \in Nat
<1>1. ReconEstimate(a) \in Nat  BY NoWorseSelf, EstimateMono
<1>2. Adjusted(a, x) \in Int  BY NoWorseSelf, DeductionsMono, SMT DEF Adjusted
<1>3. Kept(Adjusted(a, x)) \in Int  BY <1>2, KeptMono
<1>4. Transport \in Nat  BY EngineAssumption
<1> QED  BY <1>1, <1>3, <1>4, SMT DEF WholesaleMax

-----------------------------------------------------------------------------
(* The valuations of a lead.                                               *)

\* Every figure of a row is what the engine makes of the row's inputs.
Figured ==
    \A i \in DOMAIN rows :
        /\ rows[i].ceiling = WholesaleMax(rows[i].car, rows[i].base)
        /\ rows[i].ladder = Ladder(rows[i].ceiling)

\* What is said of a field, claimed or verified, is a value of that field.
LEMMA ToldType ==
    ASSUME NEW c \in Cars, NEW field \in Fields, NEW value \in Values(field),
           NEW verified \in SUBSET ConditionFields
    PROVE  /\ [c EXCEPT ![field] = value] \in Cars
           /\ [c EXCEPT ![field] = value, !.verified = verified] \in Cars
<1>1. field \in ConditionFields  BY ValuationAssumption
<1>2. CASE field = "service"
  BY <1>2 DEF Values, Cars, Services
<1>3. CASE field = "paint"
  BY <1>3 DEF Values, Cars, Paints
<1>4. CASE field = "tyres"
  BY <1>4 DEF Values, Cars, Tyres
<1>5. CASE field = "keys"
  BY <1>5 DEF Values, Cars, Keys
<1>6. CASE field = "faults"
  <2>1. value \in Faults  BY <1>6, ValuationAssumption, SMT DEF Values, Faults
  <2> QED  BY <1>6, <2>1 DEF Cars
<1> QED  BY <1>1, <1>2, <1>3, <1>4, <1>5, <1>6 DEF ConditionFields

\* The ladder of any ceiling is four natural numbers.
LEMMA LadderType ==
    ASSUME NEW x \in Nat
    PROVE  Ladder(x) \in [Rungs -> Nat]
<1>1. Opening \in Nat /\ Step1 \in Nat /\ Step2 \in Nat  BY EngineAssumption, SMT
<1>2. /\ FloorTo(x, Opening) \in Nat /\ FloorTo(x, Step1) \in Nat
      /\ FloorTo(x, Step2) \in Nat /\ FloorTo(x, 1000) \in Nat
  <2>1. \A s \in Nat : FloorTo(x, s) \in Nat
    <3> SUFFICES ASSUME NEW s \in Nat PROVE FloorTo(x, s) \in Nat  OBVIOUS
    <3>1. s <= s  BY SMT
    <3> QED  BY <3>1, FloorMono
  <2>2. 1000 \in Nat  BY SMT
  <2> QED  BY <1>1, <2>1, <2>2
<1> QED  BY <1>2 DEF Ladder, Rungs

\* Types hold initially, and every figure there is is the engine's.
LEMMA InitCorrect == Init => TypeOK /\ Figured
<1> SUFFICES ASSUME Init PROVE TypeOK /\ Figured  OBVIOUS
<1>1. PICK segment \in Kinds : car = Unseen(segment)  BY DEF Init
<1>2. car \in Cars
  BY <1>1, ValuationAssumption
     DEF Unseen, NoFaultsTold, Cars, Services, Paints, Tyres, Keys, Regos, Faults
<1>3. rows \in Seq(Rows) /\ DOMAIN rows = {}  BY SMT DEF Init
<1>4. owing \in Nat  BY SMT DEF Init
<1> QED  BY <1>2, <1>3, <1>4 DEF Init, TypeOK, Figured

\* A valuation appends one row, whose figures are the engine's, and leaves the
\* earlier rows as they are.
LEMMA ComputeCorrect ==
    ASSUME TypeOK, Figured, Compute
    PROVE  TypeOK' /\ Figured'
<1> DEFINE ceiling == WholesaleMax(car, base)
           row == [car |-> car, base |-> base, basis |-> Basis, ceiling |-> ceiling,
                   ladder |-> Ladder(ceiling), escalated |-> Escalated(ceiling)]
<1>1. base \in Nat  BY ValuationAssumption DEF TypeOK
<1>2. ceiling \in Nat  BY <1>1, CeilingType DEF TypeOK
<1>3. Ladder(ceiling) \in [Rungs -> Nat]  BY <1>2, LadderType
<1>4. Basis \in {"indicative", "verified"} /\ Escalated(ceiling) \in Reasons
  BY DEF Basis, Escalated, Reasons
<1>5. rows' = Append(rows, row)  BY DEF Compute
<1> HIDE DEF ceiling
<1>6. row \in Rows  BY <1>1, <1>2, <1>3, <1>4 DEF Rows, TypeOK
<1>7. TypeOK'
  <2>1. rows' \in Seq(Rows)  BY <1>5, <1>6 DEF TypeOK
  <2> QED  BY <2>1 DEF TypeOK, Compute
<1>8. Figured'
  <2> SUFFICES ASSUME NEW i \in DOMAIN rows'
               PROVE  /\ rows'[i].ceiling = WholesaleMax(rows'[i].car, rows'[i].base)
                      /\ rows'[i].ladder = Ladder(rows'[i].ceiling)
    BY DEF Figured
  <2>1. CASE i \in DOMAIN rows
    <3>1. rows'[i] = rows[i]  BY <1>5, <1>6, <2>1 DEF TypeOK
    <3> QED  BY <2>1, <3>1 DEF Figured
  <2>2. CASE i \notin DOMAIN rows
    <3>1. rows'[i] = row  BY <1>5, <1>6, <2>2 DEF TypeOK
    <3> QED  BY <3>1 DEF ceiling
  <2> QED  BY <2>1, <2>2
<1> QED  BY <1>7, <1>8

\* Types and the figures of the rows survive every fact, every check, new market
\* data and every valuation.
LEMMA NextCorrect ==
    ASSUME TypeOK, Figured, [Next]_vars
    PROVE  TypeOK' /\ Figured'
<1>1. ASSUME NEW field \in Fields, NEW value \in Values(field), Claim(field, value)
      PROVE  TypeOK' /\ Figured'
  <2>1. car' \in Cars  BY <1>1, ToldType DEF Claim, TypeOK
  <2> QED  BY <1>1, <2>1 DEF Claim, TypeOK, Figured
<1>2. ASSUME NEW field \in Fields, NEW value \in Values(field), Verify(field, value)
      PROVE  TypeOK' /\ Figured'
  <2>1. car.verified \cup {field} \in SUBSET ConditionFields
    BY <1>2, ValuationAssumption DEF TypeOK, Cars
  <2>2. car' = [car EXCEPT ![field] = value, !.verified = car.verified \cup {field}]
    BY <1>2, ValuationAssumption DEF Verify, TypeOK, Cars, ConditionFields
  <2>3. car' \in Cars  BY <1>2, <2>1, <2>2, ToldType DEF TypeOK
  <2> QED  BY <1>2, <2>3 DEF Verify, TypeOK, Figured
<1>3. ASSUME NEW rego \in Regos, NEW writtenOff \in BOOLEAN, NEW bad \in BOOLEAN,
             NEW debt \in Debts, Check(rego, writtenOff, bad, debt)
      PROVE  TypeOK' /\ Figured'
  <2>1. car' \in Cars  BY <1>3 DEF Check, TypeOK, Cars
  <2> QED  BY <1>3, <2>1, ValuationAssumption DEF Check, TypeOK, Figured
<1>4. ASSUME NEW value \in Bases, Market(value)
      PROVE  TypeOK' /\ Figured'
  BY <1>4 DEF Market, TypeOK, Figured
<1>5. ASSUME NEW had \in BOOLEAN, Damage(had)
      PROVE  TypeOK' /\ Figured'
  <2>1. car' \in Cars  BY <1>5 DEF Damage, TypeOK, Cars
  <2> QED  BY <1>5, <2>1 DEF Damage, TypeOK, Figured
<1>6. CASE Compute  BY <1>6, ComputeCorrect
<1>7. CASE UNCHANGED vars  BY <1>7 DEF vars, TypeOK, Figured
<1> QED  BY <1>1, <1>2, <1>3, <1>4, <1>5, <1>6, <1>7 DEF Next

\* The fact sheet and every row keep their types, a ceiling is never negative,
\* and the figures of a row are the engine's, for any facts in any order.
THEOREM TypeCorrect == Spec => [](TypeOK /\ Figured)
<1>1. Init => TypeOK /\ Figured  BY InitCorrect
<1>2. (TypeOK /\ Figured) /\ [Next]_vars => (TypeOK /\ Figured)'  BY NextCorrect
<1> QED  BY <1>1, <1>2, PTL DEF Spec

\* For any car, market and margin, the ladder climbs and stays under the
\* ceiling, provided the three shares are configured in that order: nothing in
\* the code checks that they are.
THEOREM LaddersOrdered ==
    ASSUME Opening <= Step1, Step1 <= Step2
    PROVE  Spec => []LadderOrdered
<1>1. ASSUME TypeOK, Figured
      PROVE  LadderOrdered
  <2> SUFFICES ASSUME NEW i \in DOMAIN rows
               PROVE  LET ladder == rows[i].ladder IN
                      /\ ladder.opening <= ladder.step_1 /\ ladder.step_1 <= ladder.step_2
                      /\ ladder.step_2 <= ladder.floor /\ ladder.floor <= rows[i].ceiling
                      /\ rows[i].ceiling < ladder.floor + Rounding
    BY DEF LadderOrdered
  <2>1. rows[i] \in Rows  BY <1>1 DEF TypeOK
  <2> DEFINE x == rows[i].ceiling
  <2>2. x \in Nat /\ rows[i].ladder = Ladder(x)  BY <1>1, <2>1 DEF Rows, Figured
  <2> HIDE DEF x
  <2>3. /\ Opening \in Nat /\ Step1 \in Nat /\ Step2 \in Nat /\ Step2 <= 1000
    BY EngineAssumption, SMT
  <2>4. /\ FloorTo(x, Opening) <= FloorTo(x, Step1) /\ FloorTo(x, Step1) <= FloorTo(x, Step2)
        /\ FloorTo(x, Step2) <= FloorTo(x, 1000)
    <3>1. FloorTo(x, Opening) <= FloorTo(x, Step1)  BY <2>2, <2>3, FloorMono
    <3>2. FloorTo(x, Step1) <= FloorTo(x, Step2)  BY <2>2, <2>3, FloorMono
    <3>3. 1000 \in Nat  BY SMT
    <3>4. FloorTo(x, Step2) <= FloorTo(x, 1000)  BY <2>2, <2>3, <3>3, FloorMono
    <3> QED  BY <3>1, <3>2, <3>4
  <2>5. FloorTo(x, 1000) <= x /\ x < FloorTo(x, 1000) + Rounding  BY <2>2, FloorBelow
  <2> QED  BY <2>2, <2>4, <2>5 DEF Ladder, x
<1> QED  BY <1>1, TypeCorrect, PTL

\* A concession worth a rounding step is a higher figure, for any car, market
\* and margin and shares configured in order.
THEOREM EveryConcessionMoves ==
    ASSUME Opening <= Step1, Step1 <= Step2
    PROVE  Spec => []ConcessionsMove
<1>1. ASSUME TypeOK, Figured
      PROVE  ConcessionsMove
  <2> SUFFICES ASSUME NEW i \in DOMAIN rows
               PROVE  LET ladder == rows[i].ladder  ceiling == rows[i].ceiling IN
                      /\ WorthAStep(ceiling, Opening, Step1) => ladder.opening < ladder.step_1
                      /\ WorthAStep(ceiling, Step1, Step2) => ladder.step_1 < ladder.step_2
                      /\ WorthAStep(ceiling, Step2, 1000) => ladder.step_2 < ladder.floor
    BY DEF ConcessionsMove
  <2>1. rows[i] \in Rows  BY <1>1 DEF TypeOK
  <2> DEFINE x == rows[i].ceiling
  <2>2. x \in Nat /\ rows[i].ladder = Ladder(x)  BY <1>1, <2>1 DEF Rows, Figured
  <2> HIDE DEF x
  <2>3. /\ Opening \in Nat /\ Step1 \in Nat /\ Step2 \in Nat /\ Step2 <= 1000
    BY EngineAssumption, SMT
  <2>4. /\ WorthAStep(x, Opening, Step1) => FloorTo(x, Opening) < FloorTo(x, Step1)
        /\ WorthAStep(x, Step1, Step2) => FloorTo(x, Step1) < FloorTo(x, Step2)
        /\ WorthAStep(x, Step2, 1000) => FloorTo(x, Step2) < FloorTo(x, 1000)
    BY <2>2, <2>3, FloorMono
  <2> QED  BY <2>2, <2>4 DEF Ladder, x
<1> QED  BY <1>1, TypeCorrect, PTL

\* Of two valuations of a lead against one market, no worse news of the car is
\* never a lower ceiling, for any segment, table entry, margin and sequence of
\* facts.
THEOREM BetterNewsCounts == Spec => []BetterNewsPaysNoLess
<1>1. ASSUME TypeOK, Figured
      PROVE  BetterNewsPaysNoLess
  <2> SUFFICES ASSUME NEW i \in DOMAIN rows, NEW j \in DOMAIN rows,
                      rows[i].base = rows[j].base, NoWorse(rows[i].car, rows[j].car)
               PROVE  rows[i].ceiling <= rows[j].ceiling
    BY DEF BetterNewsPaysNoLess
  <2>1. rows[i] \in Rows /\ rows[j] \in Rows  BY <1>1 DEF TypeOK
  <2>2. rows[i].car \in Cars /\ rows[j].car \in Cars /\ rows[i].base \in Nat
    BY <2>1 DEF Rows
  <2>3. WholesaleMax(rows[i].car, rows[i].base) <= WholesaleMax(rows[j].car, rows[i].base)
    BY <2>2, WholesaleMono
  <2> QED  BY <1>1, <2>3 DEF Figured
<1> QED  BY <1>1, TypeCorrect, PTL
=============================================================================
