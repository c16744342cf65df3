------------------------------ MODULE Discovery ------------------------------
(***************************************************************************)
(* From the seller's first reply to a price that may be offered: what is   *)
(* asked, what is recorded and what is done about it by the conversation   *)
(* turn (conversation/service.py, conversation/state.py), the fact sheet   *)
(* (facts/store.py), the enrichment and valuation jobs                     *)
(* (enrichment/pipeline.py, valuation/service.py), and the people who      *)
(* check what no provider does (conversation/checks.py, api/admin.py).     *)
(*                                                                         *)
(* A turn, a job and a request at the console are one action each; what    *)
(* happens when they overlap is modules Intake and FactStore.  The facts   *)
(* of a PPSR search are one field, finance_owing.  The opening has been    *)
(* sent and no offer has been made: offers are module Deal.  The channel's *)
(* window is open while a message of the seller's is answered.             *)
(***************************************************************************)
EXTENDS Reading

CONSTANTS
    Required,         \* DISCOVERY_REQUIRED, or part of it, in the order it is asked
    MinPhotos,        \* ACQBOT_MIN_PHOTOS
    NoProgressTurns,  \* ACQBOT_NO_PROGRESS_TURNS
    Says,             \* the messages a seller may write
    Outputs,          \* what the extraction model may answer
    Values,           \* per field, the values it may have
    Listings,         \* what a listing may say: a year and an odometer reading
    Records,          \* what a registry or a certificate may find: a year, an odometer, finance
    Added,            \* what a person may record by hand: a field, on whose word, as found
    Deployments       \* who reads ("rules", "model") and who searches ("auto", "manual")

ASSUME DiscoveryAssumption ==
    /\ MinPhotos \in Nat \ {0} /\ NoProgressTurns \in Nat \ {0}
    /\ Required \in Seq(Fields \cup {"photos"}) /\ Required # <<>>

VARIABLES
    stage,     \* leads.state
    sheet,     \* per field, the standing fact
    disputed,  \* fields whose seller's claim a verified fact contradicts
    acked,     \* contradictions_acknowledged
    deferred,  \* deferred_fields
    phone,     \* the mobile number: "unasked", "asked", or "known"
    asked,     \* what the last message asked
    turns,     \* messages since the last mark of progress, up to NoProgressTurns; a
               \* change of stage is a mark, and the count is kept at 0 after it
    valued,    \* a VERIFIED valuation is on record
    jobs,      \* jobs that are queued
    tasks,     \* open escalation rows that ask for facts; each of the others is
               \* opened with a change of stage, to HUMAN or to STALLED
    deployment

facts == <<sheet, disputed, acked>>
vars  == <<stage, facts, deferred, phone, asked, turns, valued, jobs, tasks, deployment>>

Waitable == {"CONTACTED", "ENGAGED", "DISCOVERY"}    \* of WAITING_STATES
Ended    == {"ARCHIVED", "TERMINATED"}
Stages   == Waitable \cup Ended \cup {"VERIFICATION", "PRICED", "STALLED", "HUMAN"}
SheetFields == Fields \cup {"photos"}
JobNames    == {"handle_inbound", "enrich", "value_lead", "on_priced"}
Jobs        == JobNames \cup {"nudge"}
Askable     == SheetFields \cup {"seller_phone"}
RequiredSet == {Required[i] : i \in DOMAIN Required}
SpecFor     == RequiredSet \cup {"seller_phone"}    \* of SPEC_BY_KEY

\* Whose word a fact is, in the order of record_fact's rank.  For each source but
\* the listing the second name is that of a verified fact: the seller's word is
\* attested by a person, and the unverified word of a photograph, a lookup, a
\* search or an inspection is recorded by hand only.
Source == [nobody |-> 0, listing |-> 1, seller |-> 2, attested |-> 3, pictured |-> 4, photo |-> 5,
           looked_up |-> 6, lookup |-> 7, searched |-> 8, ppsr |-> 9, inspected |-> 10,
           inspection |-> 11]
Claims == {"listing", "seller"}
ByHand == {"pictured", "looked_up", "searched", "inspected"}

Fact(from, value) == [from |-> from, value |-> value]
NoFact   == Fact("nobody", {})
Nothing  == [f \in SheetFields |-> NoFact]
Verified(fact) == fact.from \in {"attested", "photo", "lookup", "ppsr", "inspection"}

\* Values covers what anybody can come up with: the vocabulary of facts/fields.py.
ASSUME ValuesAssumption ==
    /\ \A l \in Listings : l.year \in Values["year"] /\ l.odometer_km \in Values["odometer_km"]
    /\ \A found \in Records, f \in {"year", "odometer_km", "vin", "finance_owing"} : found[f] \in Values[f]
    /\ \A a \in Added : a.field \in Fields /\ a.from \in DOMAIN Source /\ a.found[a.field] \in Values[a.field]
    /\ \A m \in Says : /\ \A f \in PendingParsers : Parse(f, m) \subseteq Values[f]
                       /\ m.vin \subseteq Values["vin"] /\ m.variant \subseteq Values["variant"]
                       /\ m.photos \subseteq Values["photos"]
    /\ \A o \in Outputs, f \in Fields : o.usable => Coerced(o, f) \subseteq Values[f]

DiscoveryTypeOK ==
    /\ stage \in Stages
    /\ DOMAIN sheet = SheetFields
    /\ \A f \in SheetFields : sheet[f] \in [from : DOMAIN Source, value : SUBSET Values[f]]
    /\ disputed \in SUBSET Fields /\ acked \in SUBSET Fields /\ deferred \in SUBSET SpecFor
    /\ phone \in {"unasked", "asked", "known"}
    /\ asked \in {Asked(f) : f \in Askable} \cup {WhichOf(f) : f \in Fields}
                 \cup {NothingAsked, Waiting}
    /\ turns \in 0 .. NoProgressTurns /\ valued \in BOOLEAN
    /\ jobs \in SUBSET Jobs
    /\ tasks \in SUBSET {"checks_needed", "verification_review"}
    /\ deployment \in Deployments

Init ==
    /\ stage = "CONTACTED"
    /\ \E l \in Listings :
         sheet = [Nothing EXCEPT !["year"] = Fact("listing", {l.year}),
                                 !["odometer_km"] = Fact("listing", {l.odometer_km})]
    /\ disputed = {} /\ acked = {} /\ deferred = {} /\ phone = "unasked"
    /\ asked \in {Asked("variant"), Asked(Required[1])}
    /\ turns = 0 /\ valued = FALSE /\ jobs = {} /\ tasks = {}
    /\ deployment \in Deployments

-----------------------------------------------------------------------------
(* record_fact and fact_sheet, on the standing fact of each field.         *)

\* Answers of a search carry when and by whom: none equals another, or a claim.
Dated(f, fact) == f \in {"finance_owing", "write_off_status", "rego_status"}
                  /\ fact.from \in {"lookup", "ppsr"}

Same(f, old, new) == old.value = new.value /\ ~Dated(f, old) /\ ~Dated(f, new)

IsNew(f, old, new) ==
    new.from # "nobody" /\ ~(Same(f, old, new) /\ Source[new.from] <= Source[old.from])

Stands(f, old, new) ==
    IF IsNew(f, old, new) /\ Source[new.from] >= Source[old.from] THEN new ELSE old

\* materially_different: an odometer by 2,000 km and by one part in twenty.
Material(f, a, b) ==
    IF f = "odometer_km"
    THEN LET gap == IF a > b THEN a - b ELSE b - a
             top == IF a > b THEN a ELSE b
         IN  gap > 2 * Thousand /\ 20 * gap > top
    ELSE a # b

\* A claim of the seller's and a verified fact, one right behind the other.
Contradicts(f, old, new) ==
    /\ (old.from \in Claims /\ Verified(new)) \/ (Verified(old) /\ new.from \in Claims)
    /\ \E a \in old.value, b \in new.value : Material(f, a, b)

News(new) == {f \in SheetFields : IsNew(f, sheet[f], new[f])}

RecordFacts(new) ==
    /\ sheet' = [f \in SheetFields |-> Stands(f, sheet[f], new[f])]
    /\ disputed' = disputed \cup {f \in Fields : Contradicts(f, sheet[f], new[f])}

-----------------------------------------------------------------------------
(* compute_stage.                                                          *)

CheckedBy == [finance_owing |-> "ppsr", write_off_status |-> "ppsr", rego_status |-> "lookup",
              photos |-> "photo"]

VerifiedFrom(s, f) == s[f].from = CheckedBy[f]

EnoughPhotos(s) == Cardinality(s["photos"].value) >= MinPhotos

Missing(s, f) ==
    IF f = "photos" THEN ~EnoughPhotos(s)
    ELSE IF f = "rego" THEN s["rego"].value = {} /\ s["vin"].value = {}
    ELSE Source[s[f].from] < Source["seller"]

Outstanding(s) == {f \in RequiredSet : Missing(s, f)}

\* The one of them that DISCOVERY_REQUIRED names first.
FirstOf(fields) ==
    Required[CHOOSE i \in DOMAIN Required :
                Required[i] \in fields /\ \A j \in 1 .. i - 1 : Required[j] \notin fields]

Unchecked(s) ==
    {f \in RequiredSet \cap DOMAIN CheckedBy :
        ~VerifiedFrom(s, f) \/ (f = "photos" /\ ~EnoughPhotos(s))}

StageSkipsDispute(s, open, v) ==    \* mutant: a contradiction is not asked about
    IF Outstanding(s) # {} THEN "DISCOVERY"
    ELSE IF Unchecked(s) # {} \/ ~v THEN "VERIFICATION" ELSE "PRICED"
Stage(s, open, v) ==
    IF open # {} \/ Outstanding(s) # {} THEN "DISCOVERY"
    ELSE IF Unchecked(s) # {} \/ ~v THEN "VERIFICATION" ELSE "PRICED"

-----------------------------------------------------------------------------
(* The turn: _extract and _record_extraction.                              *)

Heard(m, o) == Read(m, o, asked, FALSE)

\* A reply to the opening's question is matched against the catalogue.
CatalogueMatch(m, ex) ==
    IF AskedFor(asked, "variant") /\ ex.facts["variant"] = {} THEN m.variant ELSE {}

Told(m, ex) ==
    [f \in SheetFields |->
        IF f = "photos"
        THEN IF ex.photos = {} THEN NoFact ELSE Fact("photo", sheet[f].value \cup ex.photos)
        ELSE LET v == ex.facts[f] \cup (IF f = "variant" THEN CatalogueMatch(m, ex) ELSE {})
             IN  IF v = {} THEN NoFact ELSE Fact("seller", v)]

\* Any reply to "which is right?" acknowledges the contradiction.
Acknowledges == IF asked.about = "contradiction" THEN {asked.field} ELSE {}

Progress(m, ex) ==
    \/ News(Told(m, ex)) # {} \/ (ex.phone /\ phone # "known") \/ ~(Acknowledges \subseteq acked)

Answered(m, ex) ==
    ex.parsed \/ CatalogueMatch(m, ex) # {} \/ ~(Acknowledges \subseteq acked)

Defers(m, ex) == "defer" \in ex.intents /\ asked.about = "field" /\ ~Answered(m, ex)

PhoneNow(ex) == IF ex.phone THEN "known" ELSE phone

TellsOfAll(m, ex) ==    \* mutant: whatever is put off is kept for later, asked for or not
    /\ RecordFacts(Told(m, ex))
    /\ acked' = acked \cup Acknowledges
    /\ deferred' = deferred \cup (IF Defers(m, ex) THEN {asked.field} ELSE {})
Tells(m, ex) ==
    /\ RecordFacts(Told(m, ex))
    /\ acked' = acked \cup Acknowledges
    /\ deferred' = deferred \cup (IF Defers(m, ex) THEN {asked.field} \cap SpecFor ELSE {})

-----------------------------------------------------------------------------
(* The turn: _plan.  These are read after Tells.                           *)

Before == Stage(sheet, disputed \ acked, valued)
Now    == Stage(sheet', disputed' \ acked', valued)

\* What was put off is asked last.
NextField ==
    LET out == Outstanding(sheet')
    IN  FirstOf(IF out \subseteq deferred' THEN out ELSE out \ deferred')

\* Nothing was made of the answer: the same field again, in other words.
Clarifies(m, ex) ==
    /\ AskedFor(asked, NextField) /\ ~Answered(m, ex) /\ ~Progress(m, ex)
    /\ ~("defer" \in ex.intents /\ AskedFor(asked, FirstOf(Outstanding(sheet'))))

\* The mobile number is asked for once, just before the photographs.
AsksPhone(m, ex) ==
    /\ NextField = "photos" /\ PhoneNow(ex) = "unasked" /\ ~AskedFor(asked, "seller_phone")
    /\ ~Clarifies(m, ex)

\* What the next message may be; the empty set where there is nothing to say.
Plan(m, ex) ==
    CASE disputed' \ acked' # {} -> {WhichOf(f) : f \in disputed' \ acked'}
      [] disputed' \ acked' = {} /\ Now = "DISCOVERY" ->
            {IF AsksPhone(m, ex) THEN Asked("seller_phone") ELSE Asked(NextField)}
      [] Now = "VERIFICATION" -> {Waiting} \ {asked}
      [] Now = "PRICED"       -> {}

-----------------------------------------------------------------------------
(* The turn: handle_inbound.                                               *)

Open == stage \notin Ended \cup {"HUMAN"}

\* The seller writes.  Bound: one message waits for its turn at a time.
Writes ==
    /\ stage \notin Ended /\ "handle_inbound" \notin jobs
    /\ jobs' = jobs \cup {"handle_inbound"}
    /\ UNCHANGED <<stage, facts, deferred, phone, asked, turns, valued, tasks, deployment>>

Handled == jobs \ {"handle_inbound"}

\* Closed, or a person's: the message is theirs to read.
TurnSilent ==
    /\ ~Open /\ jobs' = Handled
    /\ UNCHANGED <<stage, facts, deferred, phone, asked, turns, valued, tasks, deployment>>

\* A message in a stage where the seller is waited for takes a nudge job with it
\* (module Outreach).
Chase(about) == IF about \in Waitable THEN {"nudge"} ELSE {}

Live == IF stage = "STALLED" THEN "ENGAGED" ELSE stage

\* The screens: an opt-out ends it, the others are a person's.  Who opts out or
\* asks whether there is a person is answered, which asks nothing, unless the
\* channel refuses it.
TurnScreened(ex) ==
    /\ Open /\ ex.flags # {}
    /\ stage' = IF "stop" \in ex.flags THEN "ARCHIVED" ELSE "HUMAN"
    /\ turns' = 0
    /\ \/ /\ ex.flags \cap {"stop", "human_question"} # {}
          /\ asked' = NothingAsked /\ jobs' = Handled \cup Chase(Live)
       \/ asked' = asked /\ jobs' = Handled
    /\ UNCHANGED <<facts, deferred, phone, valued, tasks, deployment>>

\* A plate or a VIN that is news has the car looked up again.
Lookup(m, ex) == IF News(Told(m, ex)) \cap {"rego", "vin"} = {} THEN {} ELSE {"enrich"}

\* _turns_without_progress.  A message is later than the marks its own
\* transaction leaves, which carry the time the transaction began.
CountedAnew(m, ex) == 1    \* mutant: a message that says nothing new is a mark too
Counted(m, ex) ==
    IF Progress(m, ex) \/ stage # Now THEN 1
    ELSE IF turns = NoProgressTurns THEN turns ELSE turns + 1

Circles(m, ex) ==
    /\ ~Progress(m, ex) /\ ~Answered(m, ex) /\ Now = Before
    /\ Counted(m, ex) >= NoProgressTurns

\* The seller goes round in circles: a person's.
TurnCircles(m, ex) ==
    /\ Circles(m, ex)
    /\ stage' = "HUMAN" /\ phone' = PhoneNow(ex) /\ turns' = 0 /\ jobs' = Handled
    /\ UNCHANGED <<asked, valued, tasks, deployment>>

\* _after_stage: price the car, or ask a person for what no provider checks.
ToPrice == IF Now = "VERIFICATION" /\ Unchecked(sheet') = {} THEN {"value_lead"} ELSE {}

ToCheckNever == {}    \* mutant: no task for the checks a person does
ToCheck ==
    IF /\ Now = "VERIFICATION" /\ deployment.registry = "manual"
       /\ Unchecked(sheet') \ {"photos"} # {}
    THEN {"checks_needed"} ELSE {}

\* The reply goes out, or there is none to send.
TurnReplies(m, ex) ==
    /\ ~Circles(m, ex)
    /\ asked' \in IF Plan(m, ex) = {} THEN {asked} ELSE Plan(m, ex)
    /\ phone' = IF AskedFor(asked', "seller_phone") /\ PhoneNow(ex) = "unasked"
                THEN "asked" ELSE PhoneNow(ex)
    /\ stage' = Now /\ turns' = Counted(m, ex)
    /\ jobs' = Handled \cup Lookup(m, ex) \cup ToPrice
                       \cup (IF Plan(m, ex) = {} THEN {} ELSE Chase(Now))
    /\ tasks' = tasks \cup ToCheck
    /\ UNCHANGED <<valued, deployment>>

\* The model asks for a person instead, and then nothing follows; or the gate
\* or the channel refuses the reply.
TurnRefused(m, ex, flagged) ==
    /\ ~Circles(m, ex) /\ Plan(m, ex) # {}
    /\ stage' = "HUMAN" /\ turns' = 0 /\ phone' = PhoneNow(ex)
    /\ jobs' = Handled \cup Lookup(m, ex) \cup (IF flagged THEN {} ELSE ToPrice)
    /\ tasks' = tasks \cup (IF flagged THEN {} ELSE ToCheck)
    /\ UNCHANGED <<asked, valued, deployment>>

TurnRead(m, ex) ==
    \/ TurnScreened(ex)
    \/ /\ Open /\ ex.flags = {} /\ Tells(m, ex)
       /\ \/ TurnCircles(m, ex) \/ TurnReplies(m, ex)
          \/ \E flagged \in BOOLEAN : TurnRefused(m, ex, flagged)

Turn ==
    /\ "handle_inbound" \in jobs
    /\ \/ TurnSilent
       \/ \E m \in Says, o \in IF deployment.reader = "model" THEN Outputs ELSE {Failed} :
            TurnRead(m, Heard(m, o))

\* It finds nothing to chase, or is the last of its minute.
NudgeSkipped == jobs' = jobs \ {"nudge"} /\ UNCHANGED <<stage, asked, turns>>

\* The question is kept, and the next nudge is queued.
NudgeSent ==
    /\ stage \in Waitable
    /\ asked' = IF asked = Waiting THEN NothingAsked ELSE asked
    /\ UNCHANGED <<stage, turns, jobs>>

\* The nudges run out; what is sent last asks nothing.
Stall ==
    /\ stage \in Waitable
    /\ stage' = "STALLED" /\ asked' \in {asked, NothingAsked} /\ turns' = 0
    /\ jobs' = jobs \ {"nudge"}

\* The nudge job, where there is one: when it comes is module Outreach's.  The
\* opening takes none with it, and neither does handing a lead back.
Nudge ==
    /\ "nudge" \in jobs /\ UNCHANGED <<facts, deferred, phone, valued, tasks, deployment>>
    /\ \/ NudgeSkipped \/ NudgeSent \/ Stall

-----------------------------------------------------------------------------
(* Jobs.                                                                   *)

\* Somebody other than the seller records facts: those that are news are marks.
Mark(new) == turns' = IF News(new) = {} /\ stage' = stage THEN turns ELSE 0

Found(found, fields) ==
    [Nothing EXCEPT
        !["year"] = IF "year" \in fields THEN Fact("lookup", {found.year}) ELSE NoFact,
        !["vin"]  = IF fields # {} /\ sheet["vin"].value = {}
                    THEN Fact("lookup", {found.vin}) ELSE NoFact,
        !["finance_owing"] =
            IF "finance_owing" \in fields THEN Fact("ppsr", {found.finance_owing}) ELSE NoFact]

\* The lookups each find something or fail.  Then the lead goes on as it was, or
\* is a person's because it is valuable or the search is down; or the search says
\* stolen or written off, and it ends whatever has been said to the seller.
Enrich(found, fields) ==
    /\ "enrich" \in jobs /\ jobs' = jobs \ {"enrich"}
    /\ deployment.registry = "manual" => fields = {}
    /\ IF stage \in Ended
       THEN UNCHANGED <<facts, turns, stage>>
       ELSE /\ RecordFacts(Found(found, fields)) /\ acked' = acked
            /\ \/ stage' \in {stage, "HUMAN"}
               \/ stage' = "TERMINATED" /\ "finance_owing" \in fields
            /\ Mark(Found(found, fields))
    /\ UNCHANGED <<deferred, phone, asked, valued, tasks, deployment>>

\* Of RELEASE_REQUIRES_VERIFIED, with finance_owing for what one search shows.
Release == {"year", "odometer_km", "finance_owing"}

ReleasableOnClaims == \A f \in Release : sheet[f].value # {}    \* mutant: claims will do
Releasable == \A f \in Release : Verified(sheet[f])

\* value_lead: a price that may be released, a person to verify what is missing,
\* or a car that is not worth an offer.
Value ==
    /\ "value_lead" \in jobs
    /\ valued' = (valued \/ Releasable)
    /\ \/ /\ jobs' = (jobs \ {"value_lead"}) \cup (IF Releasable THEN {"on_priced"} ELSE {})
          /\ tasks' = tasks \cup (IF Releasable THEN {} ELSE {"verification_review"})
          /\ UNCHANGED stage
       \/ jobs' = jobs \ {"value_lead"} /\ stage' = "HUMAN" /\ UNCHANGED tasks
    /\ turns' = IF stage' = stage THEN turns ELSE 0
    /\ UNCHANGED <<facts, deferred, phone, asked, deployment>>

\* on_priced: present the price, or have a person present it, or give the lead to
\* a person because the seller cannot be told; nothing happens on a lead that is
\* not ready, is closed or is a person's.  What is said asks nothing.
OnPriced ==
    /\ "on_priced" \in jobs /\ jobs' = jobs \ {"on_priced"}
    /\ stage' \in IF Open /\ stage # "STALLED" /\ Before = "PRICED"
                   THEN {"PRICED", "HUMAN"} ELSE {stage}
    /\ asked' \in IF stage' = "PRICED" /\ Before = "PRICED" THEN {asked, NothingAsked} ELSE {asked}
    /\ turns' = IF stage' = stage THEN turns ELSE 0
    /\ UNCHANGED <<facts, deferred, phone, valued, tasks, deployment>>

Job == \/ Turn
       \/ \E found \in Records, fields \in SUBSET {"year", "finance_owing"} : Enrich(found, fields)
       \/ Value \/ OnPriced

-----------------------------------------------------------------------------
(* People.                                                                 *)

OnCertificate(found, dash) ==
    [Nothing EXCEPT
        !["year"] = Fact("ppsr", {found.year}),
        !["finance_owing"] = Fact("ppsr", {found.finance_owing}),
        !["odometer_km"] = IF dash THEN Fact("photo", {found.odometer_km}) ELSE NoFact]

\* record_checks: the person has seen both answers about the registry, so the
\* seller is not asked; the year and the odometer are asked about.  A car that is
\* stolen or written off is a person's.  Bound: it is recorded when a task calls
\* for it, or when it shows what nobody has shown yet.
NotShown(dash) ==
    \E f \in {"year", "finance_owing"} \cup (IF dash THEN {"odometer_km"} ELSE {}) :
        ~Verified(sheet[f])
Certificate(found, dash) ==
    /\ stage \notin Ended /\ ("checks_needed" \in tasks \/ NotShown(dash))
    /\ RecordFacts(OnCertificate(found, dash)) /\ stage' \in {stage, "HUMAN"}
    /\ Mark(OnCertificate(found, dash))
    /\ acked' = acked \cup (disputed' \cap {"finance_owing"})
    /\ tasks' = tasks \ ({"checks_needed"} \cup (IF dash THEN {"verification_review"} ELSE {}))
    /\ jobs' = jobs \cup (IF stage' \in {"VERIFICATION", "PRICED"} THEN {"value_lead"} ELSE {})
    /\ UNCHANGED <<deferred, phone, asked, valued, deployment>>

\* add_fact: any field, on anybody's word, verified or not.  Bound: photographs are
\* recorded by turns only, and a value has the form its field has.
AddFact(a) ==
    LET new == [Nothing EXCEPT ![a.field] = Fact(a.from, {a.found[a.field]})]
        act == News(new) # {} /\ stage \in {"DISCOVERY", "VERIFICATION", "PRICED"}
    IN
    /\ RecordFacts(new) /\ UNCHANGED stage /\ Mark(new) /\ acked' = acked
    /\ jobs' = jobs \cup (IF act THEN {"value_lead"} ELSE {})
    /\ tasks' = tasks \ (IF act THEN {"verification_review"} ELSE {})
    /\ UNCHANGED <<deferred, phone, asked, valued, deployment>>

\* The last open task is resolved and the thread handed back.
HandBack ==
    /\ stage = "HUMAN"
    /\ stage' = "ENGAGED" /\ tasks' = {} /\ turns' = 0
    /\ UNCHANGED <<facts, deferred, phone, asked, valued, jobs, deployment>>

Adds == \E a \in Added : AddFact(a)

\* The tasks: the search is run, and what the review names is looked at.
DoChecks == "checks_needed" \in tasks /\ \E found \in Records, dash \in BOOLEAN : Certificate(found, dash)
DoReview ==
    /\ "verification_review" \in tasks
    /\ \E a \in Added : /\ a.field \in Release /\ ~Verified(sheet[a.field])
                        /\ a.from = "inspection" /\ AddFact(a)

Person ==
    \/ \E found \in Records, dash \in BOOLEAN : Certificate(found, dash)
    \/ Adds
    \/ HandBack

Next == Writes \/ Nudge \/ Job \/ Person

Spec == Init /\ [][Next]_vars

\* The queue settles what it holds; people do the tasks they are given.  Nobody
\* has to write.
Fairness ==
    /\ \A j \in JobNames : []<>(j \notin jobs)
    /\ WF_vars(DoChecks) /\ WF_vars(DoReview)

FairSpec == Spec /\ Fairness

-----------------------------------------------------------------------------
(* PROPERTIES *)

\* A lead is priced on a year, an odometer and a registry answer that somebody
\* other than the seller has shown, and nothing that the seller says or a search
\* answers afterwards takes their place: only what a person records by hand, which
\* is believed over a check, verified or not.
PricedOnVerifiedFacts ==
    stage = "PRICED" =>
        /\ \A f \in Release : Verified(sheet[f]) \/ sheet[f].from \in ByHand
        /\ \A f \in Unchecked(sheet) : Source[sheet[f].from] > Source[CheckedBy[f]]

\* However a lead comes to its price, every contradiction known by then has been
\* put to the seller or seen by a person.
NoPriceOverDispute ==
    [][stage' = "PRICED" /\ stage # "PRICED" => disputed' \subseteq acked']_vars

\* Discovery does not go on for ever with a seller who goes on answering: whatever
\* the answers leave out or repeat, the patterns read them to the end or give up
\* and call a person, unless people go on recording facts for ever.  (Who falls silent is
\* module Outreach's.)
DiscoveryEnds ==
    deployment.reader = "rules" =>
        \/ []<><<Person>>_vars
        \/ []<>("handle_inbound" \in jobs) => []<>(stage \notin Waitable)

\* What a person recorded by hand stands above the check that is waited for.
Overruled ==
    \/ \E f \in Unchecked(sheet) : Source[sheet[f].from] > Source[CheckedBy[f]]
    \/ \E f \in Release : sheet[f].from \in ByHand

\* A lead that waits for its checks moves on, where people do them, unless it is
\* the seller who has yet to say which of two values is right, or a person has
\* overruled the checks: their word stays on top, and no later search counts.
VerificationMoves ==
    deployment.registry = "manual" =>
        (<>[](stage = "VERIFICATION") => <>[](~(disputed \subseteq acked) \/ Overruled))

\* service.py:96 "Everything else is either ours to act on (VERIFICATION,
\* PRICED) ...": a lead whose checks are all in is priced, not left to wait.
VerificationIsOurs ==
    ~<>[](stage = "VERIFICATION" /\ Unchecked(sheet) = {} /\ disputed \subseteq acked)
=============================================================================
