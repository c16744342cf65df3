------------------------------- MODULE Reading -------------------------------
(***************************************************************************)
(* How one message from the seller is read: the patterns and the parser of *)
(* the field that was asked for (conversation/extract.py), the model's     *)
(* answer after it has been coerced (llm/schemas.py), and the one laid     *)
(* over the other (conversation/extract_model.py); and how a message that  *)
(* follows an offer is taken (conversation/service.py).                    *)
(*                                                                         *)
(* A text is the set of word classes that the patterns look for and that   *)
(* occur in it ("text" for anything at all), with the figures it carries.  *)
(* An optional value is a set of at most one value.                        *)
(***************************************************************************)
EXTENDS Naturals, Sequences, FiniteSets

CONSTANTS Thousand    \* a thousand kilometres or dollars, in the unit of the figures

ASSUME ReadingAssumption == Thousand \in Nat \ {0}

\* FIELD_WIRE; the photographs are not something the model can state.
Fields == {"rego", "vin", "odometer_km", "service_history", "finance_owing",
           "write_off_status", "panel_paint_condition", "mechanical_faults",
           "tyre_condition", "keys_count", "rego_status", "variant", "year"}

Flags   == {"legal", "deceased_estate", "distress", "minor_or_no_authority", "human_question",
            "hostile"}
Intents == {"accept", "reject", "counter", "price_question", "question", "defer", "stop"}
PriceIntents == {"accept", "reject", "counter"}

\* What the seller was last asked: a field, which of two values is right, or neither.
Asked(f)      == [about |-> "field", field |-> f]
WhichOf(f)    == [about |-> "contradiction", field |-> f]
NothingAsked  == [about |-> "nothing", field |-> "none"]
Waiting       == [about |-> "wait", field |-> "none"]
AskedFor(pending, f) == pending.about = "field" /\ pending.field = f

NoFacts == [f \in Fields |-> {}]

-----------------------------------------------------------------------------
(* The field parsers: patterns tried in order, the first to match decides. *)

Clause(value, words, without) == [value |-> value, words |-> words, without |-> without]

FirstMatch(clauses, says) ==
    LET hits == {i \in DOMAIN clauses : /\ clauses[i].words \cap says # {}
                                        /\ clauses[i].without \cap says = {}}
    IN  {clauses[i].value : i \in {i \in hits : \A j \in hits : i <= j}}

Negation == {"no", "not", "never", "none", "nothing", "outright"}

\* The fourth pattern of the code, "full" alone, is never reached.
ServiceHistory == <<
    Clause("full",    {"full"}, {"no", "not", "partial", "missing", "lost"}),
    Clause("partial", {"partial", "missing", "half"}, {}),
    Clause("none",    {"none", "nothing", "no history", "lost"}, {}) >>

Claim == <<
    Clause("yes", {"yes", "owing", "written off", "hail"}, Negation),
    Clause("no",  Negation \cup {"nah"}, {}) >>

\* A grade that is stated wins over the damage described beside it.
Panel == <<
    Clause("excellent", {"excellent"}, {}), Clause("poor", {"poor"}, {}),
    Clause("fair", {"fair"}, {}),           Clause("good", {"good", "fine"}, {}),
    Clause("poor", {"rust", "hail", "respray"}, {}),
    Clause("fair", {"dent", "scuff"}, {}),  Clause("good", {"minor", "clean"}, {}) >>

\* Whatever is not a "none" is a list of faults.
Mechanical == <<
    Clause("none",   {"all good"}, {}),
    Clause("none",   Negation, {"light", "noise", "engine", "fault"}),
    Clause("faults", {"text"}, {}) >>

Tyres == <<
    Clause("replace", {"bald", "replace"}, {}), Clause("new", {"new"}, {}),
    Clause("worn", {"worn", "half"}, {}),       Clause("good", {"good", "fine"}, {}) >>

Keys == << Clause("one", {"one"}, {}), Clause("two", {"two"}, {}) >>

RegoStatus == <<
    Clause("unregistered", {"unregistered", "no rego"}, {}), Clause("expired", {"expired"}, {}),
    Clause("current", {"month", "yes", "current"}, {}) >>

Plausible(n) == 2 * n >= Thousand /\ n <= 1500 * Thousand

\* The first figure of the text; one written in thousands is not bounded.
Odometer(m) == {r.km : r \in {r \in m.reading : r.thousands \/ Plausible(r.km)}}

PendingParsers == Fields \ {"vin", "variant", "year"}

Parse(f, m) ==
    CASE f = "rego"                  -> m.plate
      [] f = "odometer_km"           -> Odometer(m)
      [] f = "service_history"       -> FirstMatch(ServiceHistory, m.says)
      [] f \in {"finance_owing", "write_off_status"} -> FirstMatch(Claim, m.says)
      [] f = "panel_paint_condition" -> FirstMatch(Panel, m.says)
      [] f = "mechanical_faults"     -> FirstMatch(Mechanical, m.says)
      [] f = "tyre_condition"        -> FirstMatch(Tyres, m.says)
      [] f = "keys_count"            -> FirstMatch(Keys, m.says)
      [] f = "rego_status"           -> FirstMatch(RegoStatus, m.says)

-----------------------------------------------------------------------------
(* extract: the screens, the intents, the field that was asked for, and an *)
(* identifier whenever one is volunteered.                                 *)

Money(m) == {a \in m.money : 2 * a >= Thousand}

\* A figure or a push back takes the place of an acceptance.
RuleIntents(m, priced) ==
    LET pushes == "pushback" \in m.says \/ Money(m) # {} IN
    {i \in Intents :
        \/ i = "price_question" /\ i \in m.says
        \/ priced /\ i = "reject"  /\ i \in m.says
        \/ priced /\ i = "counter" /\ pushes
        \/ priced /\ i = "accept"  /\ i \in m.says /\ "reject" \notin m.says /\ ~pushes}

\* A plate nobody asked for is taken when nothing was asked and little else is said.
VolunteersPlate(m, pending) == pending.about = "nothing" /\ m.vin = {} /\ m.short

RuleFact(f, m, pending) ==
    IF f = "vin" THEN m.vin
    ELSE IF f \in PendingParsers /\ AskedFor(pending, f) THEN Parse(f, m)
    ELSE IF f = "rego" /\ VolunteersPlate(m, pending) THEN m.plate
    ELSE {}

\* A VIN answers the question for the plate.
Landed(facts, pending) ==
    \/ \E f \in PendingParsers : AskedFor(pending, f) /\ facts[f] # {}
    \/ AskedFor(pending, "rego") /\ facts["vin"] # {}

Rules(m, pending, priced) ==
    LET facts == [f \in Fields |-> RuleFact(f, m, pending)] IN
    [facts  |-> facts,
     photos |-> m.photos,
     flags  |-> m.says \cap (Flags \cup {"stop"}),
     intents |-> RuleIntents(m, priced),
     counter |-> IF priced THEN Money(m) ELSE {},
     phone  |-> m.phone,
     parsed |-> Landed(facts, pending)]

-----------------------------------------------------------------------------
(* The model's answer, where there is one, over the rules.                 *)

Failed == [usable |-> FALSE]    \* the call failed, or what came back cannot be parsed

\* The wire format, for the fields whose values are an enumeration.
Wire == [service_history       |-> {"full", "partial", "none"},
         finance_owing         |-> {"yes", "no"},
         write_off_status      |-> {"yes", "no"},
         panel_paint_condition |-> {"excellent", "good", "fair", "poor"},
         tyre_condition        |-> {"new", "good", "worn", "replace"},
         rego_status           |-> {"current", "expired", "unregistered"}]

InWire(f, v) ==
    /\ f \in DOMAIN Wire => v \in Wire[f]
    /\ f = "odometer_km" => Plausible(v)

\* coerce_fact: one value for a field of the vocabulary, or none.
Coerced(o, f) == {v \in o.facts[f] : InWire(f, v)}

\* A value the model is not sure of is asked again rather than recorded.
SureFact(f, o, rules) ==
    IF Coerced(o, f) = {} THEN rules.facts[f]
    ELSE IF f \in o.unsure THEN {} ELSE Coerced(o, f)

CounterOf(o, rules) ==
    LET said == {a \in o.counter : 2 * a >= Thousand /\ a <= 2000 * Thousand}
    IN  IF said = {} THEN rules.counter ELSE said

MergedIntents(o, rules, priced) ==
    LET said == (o.intents \ {"stop"}) \ (IF priced THEN {} ELSE PriceIntents)
    IN  IF priced /\ CounterOf(o, rules) # {}
        THEN (said \cup rules.intents \cup {"counter"}) \ {"accept"}
        ELSE said \cup rules.intents

MergedParsed(facts, o, rules, pending) ==
    IF pending.about = "field" /\ pending.field \in Fields
    THEN \/ facts[pending.field] # {}
         \/ AskedFor(pending, "rego") /\ facts["vin"] # {}
         \/ rules.parsed
    ELSE IF AskedFor(pending, "photos") THEN rules.photos # {}
    ELSE o.answered \/ rules.parsed

MergedFlags(o, rules) == rules.flags \cup o.flags \cup ({"stop"} \cap o.intents)

Merge(o, rules, pending, priced) ==
    LET facts == [f \in Fields |-> SureFact(f, o, rules)] IN
    [facts   |-> facts,
     photos  |-> rules.photos,
     flags   |-> MergedFlags(o, rules),
     intents |-> MergedIntents(o, rules, priced),
     counter |-> CounterOf(o, rules),
     phone   |-> o.phone \/ rules.phone,
     parsed  |-> MergedParsed(facts, o, rules, pending)]

\* A turn whose model call fails is read by the rules alone.
Read(m, o, pending, priced) ==
    LET rules == Rules(m, pending, priced)
    IN  IF o.usable THEN Merge(o, rules, pending, priced) ELSE rules

-----------------------------------------------------------------------------
(* What follows an offer: _handle_offer_response, as module Deal's intents. *)

PushesBack(m, ex) == "reject" \in ex.intents \/ m.says \cap {"reject", "pushback"} # {}

AcceptsByFigure(ex, amount) == \E a \in ex.counter : a <= amount

Accepts(m, ex, amount) ==
    ("accept" \in ex.intents \/ AcceptsByFigure(ex, amount)) /\ ~PushesBack(m, ex)

Rejects(m, ex) == "reject" \in ex.intents /\ ex.counter = {} /\ "final" \in m.says

OfferReply(m, ex, amount) ==
    IF "stop" \in ex.flags THEN "stop"
    ELSE IF ex.flags # {} THEN "person"
    ELSE IF Accepts(m, ex, amount) THEN "accept"
    ELSE IF Rejects(m, ex) THEN "reject"
    ELSE IF {"counter", "reject"} \cap ex.intents # {} THEN "counter"
    ELSE IF "price_question" \in ex.intents THEN "price"
    ELSE "talk"
=============================================================================
