------------------------------- MODULE Engine -------------------------------
(***************************************************************************)
(* The arithmetic of a valuation (valuation/engine.py): what is taken off  *)
(* the base value for the car's condition, what making it ready costs, and *)
(* the ladder of offers cut from what is left.                             *)
(*                                                                         *)
(* Money is in whole cents and rates are in thousandths.  The code computes *)
(* in floating point and rounds each line to the cent; a line that falls   *)
(* on half a cent may differ from it by that cent.                         *)
(***************************************************************************)
EXTENDS Integers, FiniteSets

CONSTANTS
    Margin,                   \* ACQBOT_TARGET_MARGIN_PCT, or the console's
    Transport,                \* ACQBOT_TRANSPORT_COST_AUD
    Opening, Step1, Step2     \* ACQBOT_LADDER_*

ASSUME EngineAssumption ==
    /\ Margin \in 0 .. 1000 /\ Transport \in Nat
    /\ Opening \in 1 .. 999 /\ Step1 \in 1 .. 999 /\ Step2 \in 1 .. 999

Dollars(n) == 100 * n

Rounding == Dollars(50)    \* ladder_rounding_aud

-----------------------------------------------------------------------------
(* What the engine is told of a car.  "unknown" is a fact not collected.   *)

Segments   == {"small", "medium", "large", "suv", "ute", "prestige"}
Services   == {"unknown", "full", "partial", "none"}
Paints     == {"unknown", "excellent", "good", "fair", "poor"}
Tyres      == {"unknown", "sound", "worn", "replace"}    \* new and good cost the same
Keys       == {"unknown", "one", "two"}                  \* fewer than two, two or more
Regos      == {"current", "expired", "unregistered"}
Faults     == [told : {"unknown", "none", "listed"}, items : Nat, lights : BOOLEAN]

\* The fields whose verification shows in the contingency.
ConditionFields == {"service", "paint", "tyres", "keys", "faults"}

Cars == [segment : Segments, service : Services, paint : Paints, tyres : Tyres, keys : Keys,
         faults : Faults, rego : Regos, damage : BOOLEAN, writtenOff : BOOLEAN,
         verified : SUBSET ConditionFields]

-----------------------------------------------------------------------------
(* Value side: what the market takes off, in thousandths of the base.      *)

ServiceCut(car) == CASE car.service = "partial" -> 25
                     [] car.service = "none"    -> 60
                     [] OTHER                   -> 0
RegoCut(car)    == CASE car.rego = "expired"      -> 10
                     [] car.rego = "unregistered" -> 20
                     [] OTHER                     -> 0
DamageCut(car)   == IF car.damage THEN 40 ELSE 0
WriteOffCut(car) == IF car.writtenOff THEN 250 ELSE 0
StigmaCut(car)   == IF car.paint = "poor" THEN 20 ELSE 0
LightsCut(car)   == IF car.faults.told # "unknown" /\ car.faults.lights THEN 20 ELSE 0

\* _round_money of a share of x
Permille(x, share) == (x * share + 500) \div 1000

Deductions(car, base) ==
    Permille(base, ServiceCut(car)) + Permille(base, DamageCut(car))
        + Permille(base, WriteOffCut(car)) + Permille(base, StigmaCut(car))
        + Permille(base, LightsCut(car)) + Permille(base, RegoCut(car))

-----------------------------------------------------------------------------
(* Cost side: what it takes to sell the car, in whole dollars.  A field    *)
(* that is unknown costs what such cars cost on average.                   *)

ServiceCost(car) == CASE car.service = "unknown" -> 190
                      [] car.service = "full"    -> 0
                      [] OTHER                   -> 420

PaintCost(car) == CASE car.paint = "unknown"   -> 420
                    [] car.paint = "excellent" -> 0
                    [] car.paint = "good"      -> 150
                    [] car.paint = "fair"      -> 650
                    [] car.paint = "poor"      -> 1900

Tyre(segment) == CASE segment = "small" -> 160 [] segment = "medium" -> 190
                   [] segment = "large" -> 210 [] segment = "suv"    -> 230
                   [] segment = "ute"   -> 260 [] OTHER              -> 320

TyreCost(car) == CASE car.tyres = "unknown" -> 210
                   [] car.tyres = "sound"   -> 0
                   [] car.tyres = "worn"    -> 2 * Tyre(car.segment)
                   [] car.tyres = "replace" -> 4 * Tyre(car.segment)

KeyCost(car) ==
    CASE car.keys = "unknown" -> 130
      [] car.keys = "two"     -> 0
      [] car.keys = "one"     -> CASE car.segment = "small"            -> 350
                                   [] car.segment \in {"medium", "ute"} -> 400
                                   [] car.segment \in {"large", "suv"}  -> 450
                                   [] OTHER                            -> 750

\* Six faults are itemised at most.
Itemised(n) == IF n > 6 THEN 6 ELSE n

FaultCost(car) ==
    CASE car.faults.told = "unknown" -> 260
      [] car.faults.told = "none"    -> 0
      [] car.faults.told = "listed"  -> 650 * Itemised(car.faults.items)
                                        + (IF car.faults.lights THEN 250 ELSE 0)

RegoCost(car) == CASE car.rego = "expired"      -> 160
                   [] car.rego = "unregistered" -> 160 + 900
                   [] OTHER                     -> 0

\* Detailing and the safety check are done on every car.
Recon(car) == 220 + 180 + ServiceCost(car) + PaintCost(car) + TyreCost(car)
                  + KeyCost(car) + FaultCost(car) + RegoCost(car)

\* Mutant: the share that is verified, not the share that is not.
RateOfVerified(car) == 50 + 30 * Cardinality(car.verified)

\* contingency_rate: a fifth when nothing has been verified, down to a
\* twentieth.
ContingencyRate(car) == 200 - 30 * Cardinality(car.verified)

ReconEstimate(car) == Dollars(Recon(car)) + Permille(Dollars(Recon(car)), ContingencyRate(car))

-----------------------------------------------------------------------------
Adjusted(car, base) == base - Deductions(car, base)

\* What is left of x when the margin is taken.
Kept(x) == x - Permille(x, Margin)

\* Mutant: not held at zero.
WholesaleUnheld(car, base) == Kept(Adjusted(car, base)) - ReconEstimate(car) - Transport

WholesaleMax(car, base) ==
    LET left == Kept(Adjusted(car, base)) - ReconEstimate(car) - Transport
    IN  IF left <= 0 THEN 0 ELSE left

\* Mutants: rounded to the nearest step, or down to two of them.
NearestStep(x, share) == ((x * share + 500 * Rounding) \div (1000 * Rounding)) * Rounding

TwoSteps(x, share) == ((x * share) \div (2000 * Rounding)) * 2 * Rounding

FloorTo(x, share) == ((x * share) \div (1000 * Rounding)) * Rounding

\* build_ladder
Ladder(x) == [opening |-> FloorTo(x, Opening), step_1 |-> FloorTo(x, Step1),
              step_2  |-> FloorTo(x, Step2),   floor  |-> FloorTo(x, 1000)]
=============================================================================
