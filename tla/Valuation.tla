----------------------------- MODULE Valuation ------------------------------
(***************************************************************************)
(* The valuations of one lead (valuation/service.py): facts and registry   *)
(* answers come in while the figures are computed again and again, each    *)
(* time from what is on file at that moment.  What a valuation does to the *)
(* lead is in module Deal; here are its figures.                           *)
(***************************************************************************)
EXTENDS Engine, Sequences

CONSTANTS
    MinOffer,    \* ACQBOT_MIN_OFFER_AUD, in cents
    Kinds,       \* bound: the segments the car may be of
    Fields,      \* bound: the condition fields anyone speaks of
    Listed,      \* bound: the fault lists that are met
    Bases,       \* the base values the market data may blend to
    Debts,       \* what may be owing on the car
    MaxRows      \* bound: valuations per lead

ASSUME ValuationAssumption ==
    /\ MinOffer \in Nat /\ Kinds \subseteq Segments /\ Fields \subseteq ConditionFields
    /\ Listed \subseteq [told : {"none", "listed"}, items : Nat, lights : BOOLEAN]
    /\ Bases \subseteq Nat /\ Debts \subseteq Nat /\ MaxRows \in Nat

VARIABLES
    car,        \* the fact sheet, as the engine reads it
    checked,    \* year, odometer, finance, write-off, stolen and rego are verified
    stolen,
    owing,      \* finance_owing.amount_aud
    base,       \* compute_base_value of the newest guide and comparables
    rows        \* the valuations rows, by computed_at

vars == <<car, checked, stolen, owing, base, rows>>

Reasons == {"none", "encumbered_above_offer", "not_viable"}
Rungs   == {"opening", "step_1", "step_2", "floor"}

Rows == [car : Cars, base : Nat, basis : {"indicative", "verified"}, ceiling : Nat,
         ladder : [Rungs -> Nat], escalated : Reasons]

TypeOK ==
    /\ car \in Cars /\ checked \in BOOLEAN /\ stolen \in BOOLEAN
    /\ owing \in Nat /\ base \in Bases
    /\ rows \in Seq(Rows)

NoFaultsTold == [told |-> "unknown", items |-> 0, lights |-> FALSE]

Unseen(segment) ==
    [segment |-> segment, service |-> "unknown", paint |-> "unknown", tyres |-> "unknown",
     keys |-> "unknown", faults |-> NoFaultsTold, rego |-> "current", damage |-> FALSE,
     writtenOff |-> FALSE, verified |-> {}]

Init ==
    /\ \E segment \in Kinds : car = Unseen(segment)
    /\ checked = FALSE /\ stolen = FALSE /\ owing = 0
    /\ base \in Bases /\ rows = <<>>

-----------------------------------------------------------------------------
Room == Len(rows) < MaxRows

Values(field) ==
    CASE field = "service" -> Services \ {"unknown"}
      [] field = "paint"   -> Paints \ {"unknown"}
      [] field = "tyres"   -> Tyres \ {"unknown"}
      [] field = "keys"    -> Keys \ {"unknown"}
      [] field = "faults"  -> Listed

\* The seller's word stands until something verified contradicts it.
Claim(field, value) ==
    /\ Room /\ field \notin car.verified
    /\ car' = [car EXCEPT ![field] = value]
    /\ UNCHANGED <<checked, stolen, owing, base, rows>>

\* A photo, a document or a person: the fact is verified.
Verify(field, value) ==
    /\ Room
    /\ car' = [car EXCEPT ![field] = value, !.verified = @ \cup {field}]
    /\ UNCHANGED <<checked, stolen, owing, base, rows>>

\* The last of the facts a release needs is verified.
Check(rego, writtenOff, bad, debt) ==
    /\ Room
    /\ checked' = TRUE /\ stolen' = bad /\ owing' = debt
    /\ car' = [car EXCEPT !.rego = rego, !.writtenOff = writtenOff]
    /\ UNCHANGED <<base, rows>>

\* Nothing asks about prior damage; a person may record it.
Damage(had) ==
    /\ Room /\ had # car.damage
    /\ car' = [car EXCEPT !.damage = had]
    /\ UNCHANGED <<checked, stolen, owing, base, rows>>

\* Guide and comparables are fetched again.
Market(value) ==
    /\ Room /\ value # base
    /\ base' = value
    /\ UNCHANGED <<car, checked, stolen, owing, rows>>

\* determine_basis
Basis == IF checked /\ ~stolen /\ ~car.writtenOff THEN "verified" ELSE "indicative"

Escalated(ceiling) ==
    IF owing > ceiling THEN "encumbered_above_offer"
    ELSE IF Ladder(ceiling).opening < MinOffer THEN "not_viable"
    ELSE "none"

\* compute_valuation
Compute ==
    /\ Room
    /\ LET ceiling == WholesaleMax(car, base) IN
           rows' = Append(rows, [car |-> car, base |-> base, basis |-> Basis, ceiling |-> ceiling,
                                 ladder |-> Ladder(ceiling), escalated |-> Escalated(ceiling)])
    /\ UNCHANGED <<car, checked, stolen, owing, base>>

Next ==
    \/ \E field \in Fields : \E value \in Values(field) : Claim(field, value) \/ Verify(field, value)
    \/ \E rego \in Regos, writtenOff, bad \in BOOLEAN, debt \in Debts :
           Check(rego, writtenOff, bad, debt)
    \/ \E had \in BOOLEAN : Damage(had)
    \/ \E value \in Bases : Market(value)
    \/ Compute

Spec == Init /\ [][Next]_vars

-----------------------------------------------------------------------------
(* PROPERTIES *)

\* Every ladder climbs to the last step below its ceiling, and no rung is above
\* it, whatever is known of the car and however little it is worth.
LadderOrdered ==
    \A i \in DOMAIN rows :
        LET ladder == rows[i].ladder IN
        /\ ladder.opening <= ladder.step_1
        /\ ladder.step_1 <= ladder.step_2
        /\ ladder.step_2 <= ladder.floor
        /\ ladder.floor <= rows[i].ceiling
        /\ rows[i].ceiling < ladder.floor + Rounding

\* A rise from one share of the ceiling to another is worth a rounding step.
WorthAStep(ceiling, low, high) == ceiling * (high - low) >= 1000 * Rounding

\* Once the car is worth enough for the rise to be worth a rounding step, the
\* concession is a higher figure and not the same one again.
ConcessionsMove ==
    \A i \in DOMAIN rows :
        LET ladder == rows[i].ladder  ceiling == rows[i].ceiling IN
        /\ WorthAStep(ceiling, Opening, Step1) => ladder.opening < ladder.step_1
        /\ WorthAStep(ceiling, Step1, Step2) => ladder.step_1 < ladder.step_2
        /\ WorthAStep(ceiling, Step2, 1000) => ladder.step_2 < ladder.floor

\* For each field, its values from the worst news to the best; a field nobody
\* has spoken of is in between.
ServiceNews == [none |-> 0, partial |-> 1, unknown |-> 2, full |-> 3]
PaintNews   == [poor |-> 0, fair |-> 1, unknown |-> 2, good |-> 3, excellent |-> 4]
TyreNews    == [replace |-> 0, worn |-> 1, unknown |-> 2, sound |-> 3]
KeyNews     == [one |-> 0, unknown |-> 1, two |-> 2]
RegoNews    == [unregistered |-> 0, expired |-> 1, current |-> 2]

NoWorseFaults(a, b) ==
    \/ a = b
    \/ b.told = "none" /\ (b.lights => a.told # "unknown" /\ a.lights)
    \/ b.told = "unknown" /\ a.told = "listed" /\ a.items > 0
    \/ /\ a.told = "listed" /\ b.told = "listed"
       /\ b.items <= a.items /\ (b.lights => a.lights)

\* The news of b is no worse than the news of a, and as much of it is verified.
NoWorse(a, b) ==
    /\ b.segment = a.segment /\ a.verified \subseteq b.verified
    /\ ServiceNews[a.service] <= ServiceNews[b.service]
    /\ PaintNews[a.paint] <= PaintNews[b.paint]
    /\ TyreNews[a.tyres] <= TyreNews[b.tyres]
    /\ KeyNews[a.keys] <= KeyNews[b.keys]
    /\ RegoNews[a.rego] <= RegoNews[b.rego]
    /\ NoWorseFaults(a.faults, b.faults)
    /\ b.damage => a.damage
    /\ b.writtenOff => a.writtenOff

\* Of two valuations against one market, the one with no worse news of the car
\* has no lower ceiling: what the seller adds to the good, or has verified,
\* never costs them, and what they hold back never pays.
BetterNewsPaysNoLess ==
    \A i, j \in DOMAIN rows :
        rows[i].base = rows[j].base /\ NoWorse(rows[i].car, rows[j].car)
            => rows[i].ceiling <= rows[j].ceiling
=============================================================================
