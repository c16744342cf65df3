----------------------------- MODULE MCDiscovery -----------------------------
(***************************************************************************)
(* Discovery on a short list of fields.  Figures are in units of 1,000 km. *)
(***************************************************************************)
EXTENDS Discovery, TLC

Blank == [says |-> {"text"}, plate |-> {}, vin |-> {}, reading |-> {}, money |-> {}, variant |-> {},
          photos |-> {}, phone |-> FALSE, short |-> FALSE]

Text(words) == [Blank EXCEPT !.says = {"text"} \cup words]

Chat    == Blank
Stop    == Text({"stop"})
No      == Text({"no"})
Vin     == [Blank EXCEPT !.vin = {"vin"}]
Picture == [Blank EXCEPT !.photos = {"p1"}]

Messages == {Chat, Stop, No, Vin, Picture}

Mute == [usable |-> TRUE, facts |-> NoFacts, unsure |-> {}, intents |-> {}, flags |-> {},
         counter |-> {}, phone |-> FALSE, answered |-> FALSE]
Later == [Mute EXCEPT !.intents = {"defer"}]

Answers == {Failed, Later}

TwoFields == <<"finance_owing", "photos">>

Known == [[f \in SheetFields |-> {}] EXCEPT
            !["vin"] = {"vin"}, !["odometer_km"] = {84, 85, 120}, !["year"] = {2015},
            !["finance_owing"] = {"yes", "no"}, !["photos"] = {"p1"},
            !["write_off_status"] = {"yes", "no"}, !["mechanical_faults"] = {"none", "faults"}]

OneListing == {[year |-> 2015, odometer_km |-> 84]}
OneRecord  == {[year |-> 2015, odometer_km |-> 120, vin |-> "vin", finance_owing |-> "yes"]}
ClearRecord == {[year |-> 2015, odometer_km |-> 85, vin |-> "vin", finance_owing |-> "no"]}

\* What a person may record by hand: what a review asks for, with a second-hand
\* reading and an answer that was a search's to give.
AsSeen(f, from) == [field |-> f, from |-> from, found |-> [year |-> 2015, odometer_km |-> 120,
                                                          finance_owing |-> "no"]]

Reviewed == {AsSeen("year", "inspection"), AsSeen("odometer_km", "inspection")}
ByHandToo == {AsSeen("odometer_km", "inspection"), AsSeen("finance_owing", "inspected")}

ByPeople == [reader |-> "rules", registry |-> "manual"]
Searched == [reader |-> "rules", registry |-> "auto"]
Modelled == [reader |-> "model", registry |-> "auto"]

OneSearched == {Searched}
SideBySide  == {ByPeople, Modelled}

\* Side by side: a seller who gives no VIN, and people who search and record facts
\* by hand; and a registry that does for the people, who only do what a review asks.
Fits ==
    IF deployment = ByPeople
    THEN sheet'["vin"].from # "seller"
    ELSE /\ sheet'["finance_owing"].from # "inspected"
         /\ ~\E found \in Records, dash \in BOOLEAN : Certificate(found, dash)

SideBySideSpec == Init /\ [][Next /\ Fits]_vars /\ Fairness

-----------------------------------------------------------------------------
\* What tests/test_extract.py expects of the field parsers and the intents.
Reads(f, words) == Parse(f, Text(words))
Intended(words, priced) == Rules(Text(words), NothingAsked, priced).intents
Km(n) == Parse("odometer_km", [Blank EXCEPT !.reading = {[km |-> n, thousands |-> FALSE]}])

ASSUME FieldsRead ==
    /\ Km(84) = {84} /\ Km(200) = {200} /\ Parse("odometer_km", Text({"not"})) = {}
    /\ Reads("service_history", {"full"}) = {"full"}
    /\ Reads("service_history", {"partial", "missing"}) = {"partial"}
    /\ Reads("service_history", {"no", "no history"}) = {"none"}
    /\ Reads("service_history", {"lost"}) = {"none"} /\ Reads("service_history", {}) = {}
    /\ Reads("finance_owing", {"no"}) = {"no"} /\ Reads("finance_owing", {"yes", "owing"}) = {"yes"}
    /\ Reads("write_off_status", {"never", "written off"}) = {"no"}
    /\ Reads("write_off_status", {"written off"}) = {"yes"} /\ Reads("write_off_status", {}) = {}
    /\ Reads("panel_paint_condition", {"good", "dent"}) = {"good"}
    /\ Reads("panel_paint_condition", {"fair", "scuff"}) = {"fair"}
    /\ Reads("panel_paint_condition", {"poor", "respray"}) = {"poor"}
    /\ Reads("panel_paint_condition", {"dent", "scuff"}) = {"fair"}
    /\ Reads("panel_paint_condition", {"rust"}) = {"poor"}
    /\ Reads("panel_paint_condition", {"minor"}) = {"good"}
    /\ Reads("tyre_condition", {"bald"}) = {"replace"} /\ Reads("tyre_condition", {"new"}) = {"new"}
    /\ Reads("keys_count", {"two"}) = {"two"} /\ Reads("keys_count", {"one"}) = {"one"}
    /\ Reads("mechanical_faults", {"none"}) = {"none"}
    /\ Reads("mechanical_faults", {"no", "fault", "all good"}) = {"none"}
    /\ Reads("mechanical_faults", {"engine", "light"}) = {"faults"}
    /\ Reads("rego_status", {"unregistered"}) = {"unregistered"}
    /\ Reads("rego_status", {"expired", "month"}) = {"expired"}
    /\ Reads("rego_status", {"yes", "current", "month"}) = {"current"}

ASSUME IntentsRead ==
    /\ Intended({"accept", "yes"}, TRUE) = {"accept"} /\ Intended({"accept", "yes"}, FALSE) = {}
    /\ Intended({"accept", "reject"}, TRUE) = {"reject"}    \* "yeah nah"
    /\ Intended({"pushback"}, TRUE) = {"counter"}
    /\ LET low == [Text({"pushback"}) EXCEPT !.money = {22}]
           ex  == Rules(low, NothingAsked, TRUE)
       IN  ex.intents = {"counter"} /\ ex.counter = {22}
=============================================================================
