--------------------------- MODULE DiscoveryProofs ---------------------------
(***************************************************************************)
(* What holds of a reading of one message whatever the patterns and the    *)
(* model make of it, and that a price is released on verified facts only,  *)
(* whatever the fields, the values and the order of events.                *)
(***************************************************************************)
EXTENDS Discovery, SequenceTheorems, WellFoundedInduction, TLAPS

-----------------------------------------------------------------------------
(* Readings.                                                               *)

\* Opting out and the screens the patterns raise are not the model's to drop
\* (extract_model.py: "whichever side saw it").
THEOREM ScreensHold ==
    ASSUME NEW m, NEW o, NEW pending, NEW priced
    PROVE  Rules(m, pending, priced).flags \subseteq Read(m, o, pending, priced).flags
<1>1. CASE o.usable
    <2>1. Read(m, o, pending, priced).flags = MergedFlags(o, Rules(m, pending, priced))
        BY <1>1 DEF Read, Merge
    <2> QED
        BY <2>1 DEF MergedFlags
<1>2. CASE ~o.usable
    BY <1>2 DEF Read
<1> QED
    BY <1>1, <1>2

\* Before there is a price a seller cannot accept, reject or counter it,
\* whatever the model reads into the message (extract.py: "Before a price
\* exists, yes is not an acceptance of anything").
THEOREM NothingToAccept ==
    ASSUME NEW m, NEW o, NEW pending
    PROVE  Read(m, o, pending, FALSE).intents \cap PriceIntents = {}
<1>1. Rules(m, pending, FALSE).intents \cap PriceIntents = {}
    BY DEF Rules, RuleIntents, PriceIntents
<1>2. CASE o.usable
    <2>1. Read(m, o, pending, FALSE).intents
             = MergedIntents(o, Rules(m, pending, FALSE), FALSE)
        BY <1>2 DEF Read, Merge
    <2> QED
        BY <1>1, <2>1 DEF MergedIntents
<1>3. CASE ~o.usable
    BY <1>1, <1>3 DEF Read
<1> QED
    BY <1>2, <1>3

\* A message that names one figure, above the offer, is not read as accepting
\* the offer, whichever of the two readers it came through.
THEOREM FigureIsNotOverlooked ==
    ASSUME NEW m, NEW o, NEW pending, NEW amount \in Nat, NEW figure \in Nat,
           figure > amount,
           Read(m, o, pending, TRUE).counter = {figure}
    PROVE  OfferReply(m, Read(m, o, pending, TRUE), amount) # "accept"
<1> DEFINE ex == Read(m, o, pending, TRUE)
           rules == Rules(m, pending, TRUE)
<1>1. ~AcceptsByFigure(ex, amount)
    <2>1. ~(figure <= amount)
        OBVIOUS
    <2>2. ex.counter = {figure}
        OBVIOUS
    <2> HIDE DEF ex
    <2> QED
        BY <2>1, <2>2 DEF AcceptsByFigure
<1>2. "accept" \notin ex.intents
    <2>1. CASE o.usable
        <3>1. /\ ex.intents = MergedIntents(o, rules, TRUE)
              /\ ex.counter = CounterOf(o, rules)
            BY <2>1 DEF Read, Merge
        <3> QED
            BY <3>1 DEF MergedIntents
    <2>2. CASE ~o.usable
        <3>1. /\ ex.intents = RuleIntents(m, TRUE)
              /\ ex.counter = Money(m)
            BY <2>2 DEF Read, Rules
        <3> QED
            BY <3>1 DEF RuleIntents
    <2> QED
        BY <2>1, <2>2
<1> QED
    BY <1>1, <1>2 DEF OfferReply, Accepts

-----------------------------------------------------------------------------
(* The fact sheet.                                                         *)

SheetTyped ==
    /\ DOMAIN sheet = SheetFields
    /\ \A f \in SheetFields : sheet[f].from \in DOMAIN Source

\* Facts of nobody change nothing.
LEMMA NobodyIsSilent ==
    ASSUME NEW f, NEW old, NEW new, new.from = "nobody"
    PROVE  Stands(f, old, new) = old
BY DEF Stands, IsNew

\* A fact gives way to none that ranks below it.
LEMMA StandsRises ==
    ASSUME NEW f, NEW old, NEW new, old.from \in DOMAIN Source, new.from \in DOMAIN Source
    PROVE  /\ Stands(f, old, new).from \in DOMAIN Source
           /\ Source[Stands(f, old, new).from] >= Source[old.from]
<1>1. Source[old.from] \in Nat
    BY DEF Source
<1> QED
    BY <1>1 DEF Stands

\* Beyond a claim: whoever's word a fact is, it is more than the seller's.
Backed(fact) == Source[fact.from] > Source["seller"]

LEMMA BackedIsShown ==
    ASSUME NEW fact, fact.from \in DOMAIN Source
    PROVE  Backed(fact) <=> Verified(fact) \/ fact.from \in ByHand
BY DEF Backed, Verified, ByHand, Source

\* The word a field stands on is never weaker for anything that is recorded.
LEMMA RankRises ==
    ASSUME NEW new, SheetTyped, RecordFacts(new),
           \A f \in SheetFields : new[f].from \in DOMAIN Source
    PROVE  /\ SheetTyped'
           /\ \A f \in SheetFields : Source[sheet'[f].from] >= Source[sheet[f].from]
           /\ \A f \in SheetFields : Backed(sheet[f]) => Backed(sheet'[f])
<1>1. /\ DOMAIN sheet' = SheetFields
      /\ \A f \in SheetFields : sheet'[f] = Stands(f, sheet[f], new[f])
    BY DEF RecordFacts
<1>2. ASSUME NEW f \in SheetFields
      PROVE  /\ sheet'[f].from \in DOMAIN Source
             /\ Source[sheet'[f].from] >= Source[sheet[f].from]
    BY <1>1, StandsRises DEF SheetTyped
<1>3. \A s \in DOMAIN Source : Source[s] \in Nat
    BY DEF Source
<1>4. ASSUME NEW f \in SheetFields, Backed(sheet[f])
      PROVE  Backed(sheet'[f])
    <2>1. Source[sheet[f].from] \in Nat /\ Source[sheet'[f].from] \in Nat
             /\ Source["seller"] \in Nat
        BY <1>2, <1>3 DEF SheetTyped, Source
    <2> QED
        BY <1>2, <1>4, <2>1 DEF Backed
<1> QED
    BY <1>1, <1>2, <1>4 DEF SheetTyped

-----------------------------------------------------------------------------
(* The price.                                                              *)

\* A verified valuation outlives the moment it was made because no field falls
\* back to a claim; and a field that is checked gives way only to what ranks above
\* its check.
Shown(s) == \A f \in Release : Backed(s[f])

Checked(s) ==
    \A f \in RequiredSet \cap DOMAIN CheckedBy :
        Source[s[f].from] >= Source[CheckedBy[f]] /\ (f = "photos" => s[f].from = "photo" /\ EnoughPhotos(s))

Priced ==
    /\ SheetTyped
    /\ valued => Shown(sheet)
    /\ stage = "PRICED" => valued /\ Checked(sheet)

LEMMA StagePriced ==
    ASSUME NEW s, NEW open, NEW v, Stage(s, open, v) = "PRICED"
    PROVE  v /\ Unchecked(s) = {} /\ open = {}
BY DEF Stage

LEMMA ReleaseFields == Release \subseteq SheetFields
BY DEF Release, SheetFields, Fields

\* Whose word is good for a check, and what has been checked.
LEMMA CheckRanks ==
    ASSUME NEW f \in DOMAIN CheckedBy
    PROVE  f \in SheetFields /\ CheckedBy[f] \in DOMAIN Source /\ Source[CheckedBy[f]] \in Nat
BY DEF CheckedBy, SheetFields, Fields, Source

LEMMA UncheckedOrChecked ==
    ASSUME NEW s, Unchecked(s) = {}
    PROVE  Checked(s)
<1> SUFFICES ASSUME NEW f \in RequiredSet \cap DOMAIN CheckedBy
             PROVE  Source[s[f].from] >= Source[CheckedBy[f]]
                    /\ (f = "photos" => s[f].from = "photo" /\ EnoughPhotos(s))
    BY DEF Checked
<1>1. s[f].from = CheckedBy[f] /\ (f = "photos" => EnoughPhotos(s))
    BY DEF Unchecked, VerifiedFrom
<1>2. Source[CheckedBy[f]] >= Source[CheckedBy[f]]
    BY CheckRanks
<1>3. CheckedBy["photos"] = "photo"
    BY DEF CheckedBy
<1> QED
    BY <1>1, <1>2, <1>3

\* What a job or a person records, which is no photographs, leaves it checked.
LEMMA StaysChecked ==
    ASSUME NEW new, SheetTyped, RecordFacts(new), Checked(sheet),
           \A f \in SheetFields : new[f].from \in DOMAIN Source,
           new["photos"].from = "nobody"
    PROVE  Checked(sheet')
<1>1. \A f \in SheetFields : Source[sheet'[f].from] >= Source[sheet[f].from]
    BY RankRises
<1>2. sheet'["photos"] = sheet["photos"]
    BY NobodyIsSilent DEF RecordFacts, SheetFields
<1>3. SheetTyped'
    BY RankRises
<1>4. EnoughPhotos(sheet') <=> EnoughPhotos(sheet)
    BY <1>2 DEF EnoughPhotos
<1>5. ASSUME NEW f \in RequiredSet \cap DOMAIN CheckedBy
      PROVE  Source[sheet'[f].from] >= Source[CheckedBy[f]]
    <2>1. f \in SheetFields /\ Source[CheckedBy[f]] \in Nat
        BY CheckRanks
    <2>2. Source[sheet[f].from] \in Nat /\ Source[sheet'[f].from] \in Nat
        BY <1>3, <2>1 DEF SheetTyped, Source
    <2>3. Source[sheet[f].from] >= Source[CheckedBy[f]]
        BY DEF Checked
    <2> QED
        BY <1>1, <2>1, <2>2, <2>3
<1> QED
    BY <1>2, <1>4, <1>5 DEF Checked

\* Facts recorded by a job or a person, in a step that leaves the lead where it
\* is or gives it to a person.
LEMMA RecordedApart ==
    ASSUME NEW new, Priced, RecordFacts(new), UNCHANGED valued,
           stage' \in {stage, "HUMAN", "TERMINATED"},
           \A f \in SheetFields : new[f].from \in DOMAIN Source,
           new["photos"].from = "nobody"
    PROVE  Priced'
<1>1. SheetTyped' /\ \A f \in SheetFields : Backed(sheet[f]) => Backed(sheet'[f])
    BY RankRises DEF Priced
<1>2. valued' => Shown(sheet')
    BY <1>1, ReleaseFields DEF Priced, Shown
<1>3. stage' = "PRICED" => valued' /\ Checked(sheet')
    BY StaysChecked DEF Priced
<1> QED
    BY <1>1, <1>2, <1>3 DEF Priced

\* Of a step that records nothing, only the stage and the valuation matter.
LEMMA NothingRecorded ==
    ASSUME Priced, UNCHANGED <<sheet, valued>>,
           stage' = "PRICED" => stage = "PRICED" \/ (valued /\ Unchecked(sheet) = {})
    PROVE  Priced'
BY UncheckedOrChecked DEF Priced, SheetTyped, Shown, Backed, Checked, EnoughPhotos

LEMMA TurnKeepsPriced ==
    ASSUME Priced, Turn
    PROVE  Priced'
<1>1. CASE TurnSilent
    BY <1>1, NothingRecorded DEF TurnSilent, facts
<1>2. ASSUME NEW m, NEW ex, TurnRead(m, ex)
      PROVE  Priced'
    <2>1. CASE TurnScreened(ex)
        BY <2>1, NothingRecorded DEF TurnScreened, facts
    <2>2. CASE Tells(m, ex) /\ (TurnCircles(m, ex) \/ TurnReplies(m, ex)
                                \/ \E flagged \in BOOLEAN : TurnRefused(m, ex, flagged))
        <3>1. RecordFacts(Told(m, ex)) /\ UNCHANGED valued
            BY <2>2 DEF Tells, TurnCircles, TurnReplies, TurnRefused
        <3>2. \A f \in SheetFields : Told(m, ex)[f].from \in DOMAIN Source
            BY DEF Told, NoFact, Fact, Source
        <3>3. SheetTyped' /\ \A f \in SheetFields : Backed(sheet[f]) => Backed(sheet'[f])
            BY <3>1, <3>2, RankRises DEF Priced
        <3>4. stage' = "PRICED" => valued /\ Checked(sheet')
            <4>1. CASE TurnReplies(m, ex)
                <5>1. stage' = Now
                    BY <4>1 DEF TurnReplies
                <5>2. Now = "PRICED" => valued /\ Checked(sheet')
                    BY StagePriced, UncheckedOrChecked DEF Now
                <5> QED
                    BY <5>1, <5>2
            <4>2. CASE TurnCircles(m, ex) \/ \E flagged \in BOOLEAN : TurnRefused(m, ex, flagged)
                BY <4>2 DEF TurnCircles, TurnRefused
            <4> QED
                BY <2>2, <4>1, <4>2
        <3> QED
            BY <3>1, <3>3, <3>4, ReleaseFields DEF Priced, Shown
    <2> QED
        BY <1>2, <2>1, <2>2 DEF TurnRead
<1> QED
    BY <1>1, <1>2 DEF Turn

LEMMA JobKeepsPriced ==
    ASSUME Priced, Job
    PROVE  Priced'
<1>1. CASE Turn
    BY <1>1, TurnKeepsPriced
<1>2. ASSUME NEW found, NEW fields, Enrich(found, fields)
      PROVE  Priced'
    <2>1. CASE stage \in Ended
        BY <1>2, <2>1, NothingRecorded DEF Enrich, facts
    <2>2. CASE stage \notin Ended
        <3> DEFINE new == Found(found, fields)
        <3>1. /\ RecordFacts(new) /\ UNCHANGED valued
              /\ stage' \in {stage, "HUMAN", "TERMINATED"}
            BY <1>2, <2>2 DEF Enrich
        <3>2. /\ \A f \in SheetFields : new[f].from \in DOMAIN Source
              /\ new["photos"].from = "nobody"
            BY DEF Found, Nothing, NoFact, Fact, Source, SheetFields, Fields
        <3> HIDE DEF new
        <3> QED
            BY <3>1, <3>2, RecordedApart
    <2> QED
        BY <2>1, <2>2
<1>3. CASE Value
    <2>1. UNCHANGED sheet /\ valued' = (valued \/ Releasable) /\ stage' \in {stage, "HUMAN"}
        BY <1>3 DEF Value, facts
    <2>2. Releasable => Shown(sheet)
        BY ReleaseFields, BackedIsShown DEF Priced, SheetTyped, Shown, Releasable
    <2>3. valued' => Shown(sheet')
        BY <2>1, <2>2 DEF Priced, Shown, Backed
    <2> QED
        BY <2>1, <2>3 DEF Priced, SheetTyped, Checked, EnoughPhotos
<1>4. CASE OnPriced
    <2>1. UNCHANGED <<sheet, valued>>
        BY <1>4 DEF OnPriced, facts
    <2>2. stage' = "PRICED" => stage = "PRICED" \/ Before = "PRICED"
        BY <1>4 DEF OnPriced
    <2> QED
        BY <2>1, <2>2, NothingRecorded, StagePriced DEF Before
<1> QED
    BY <1>1, <1>2, <1>3, <1>4 DEF Job

LEMMA PersonKeepsPriced ==
    ASSUME Priced, Person
    PROVE  Priced'
<1>1. ASSUME NEW found, NEW dash, Certificate(found, dash)
      PROVE  Priced'
    <2> DEFINE new == OnCertificate(found, dash)
    <2>1. RecordFacts(new) /\ stage' \in {stage, "HUMAN"} /\ UNCHANGED valued
        BY <1>1 DEF Certificate
    <2>2. /\ \A f \in SheetFields : new[f].from \in DOMAIN Source
          /\ new["photos"].from = "nobody"
        BY DEF OnCertificate, Nothing, NoFact, Fact, Source, SheetFields, Fields
    <2> HIDE DEF new
    <2> QED
        BY <2>1, <2>2, RecordedApart
<1>2. ASSUME NEW a \in Added, AddFact(a)
      PROVE  Priced'
    <2> DEFINE new == [Nothing EXCEPT ![a.field] = Fact(a.from, {a.found[a.field]})]
    <2>1. RecordFacts(new) /\ UNCHANGED <<stage, valued>>
        BY <1>2 DEF AddFact
    <2>2. a.from \in DOMAIN Source /\ a.field # "photos"
        BY ValuesAssumption DEF Fields
    <2>3. \A f \in SheetFields : new[f] = IF f = a.field THEN Fact(a.from, {a.found[a.field]}) ELSE NoFact
        BY DEF Nothing
    <2> HIDE DEF new
    <2>4. \A f \in SheetFields : new[f].from \in DOMAIN Source
        BY <2>2, <2>3 DEF NoFact, Fact, Source
    <2>5. new["photos"].from = "nobody"
        BY <2>2, <2>3 DEF NoFact, Fact, SheetFields
    <2> QED
        BY <2>1, <2>4, <2>5, RecordedApart
<1>3. CASE HandBack
    BY <1>3, NothingRecorded DEF HandBack, facts
<1> QED
    BY <1>1, <1>2, <1>3 DEF Person, Adds

LEMMA PricedInductive == Spec => []Priced
<1>1. Init => Priced
    <2> SUFFICES ASSUME Init PROVE Priced
        OBVIOUS
    <2>1. PICK l \in Listings :
             sheet = [Nothing EXCEPT !["year"] = Fact("listing", {l.year}),
                                     !["odometer_km"] = Fact("listing", {l.odometer_km})]
        BY DEF Init
    <2>2. SheetTyped
        BY <2>1 DEF SheetTyped, Nothing, NoFact, Fact, Source
    <2> QED
        BY <2>2 DEF Init, Priced
<1>2. Priced /\ [Next]_vars => Priced'
    <2> SUFFICES ASSUME Priced, [Next]_vars PROVE Priced'
        OBVIOUS
    <2>1. CASE Writes
        BY <2>1, NothingRecorded DEF Writes, facts
    <2>2. CASE Nudge
        BY <2>2, NothingRecorded DEF Nudge, NudgeSkipped, NudgeSent, Stall, facts
    <2>3. CASE UNCHANGED vars
        BY <2>3, NothingRecorded DEF vars, facts
    <2> QED
        BY <2>1, <2>2, <2>3, JobKeepsPriced, PersonKeepsPriced DEF Next
<1> QED
    BY <1>1, <1>2, PTL DEF Spec

\* Whatever fields are required, whatever anybody says, finds or records and in
\* whatever order, a lead in PRICED stands on nobody's claim, and nothing but a
\* word that ranks above a check has taken its place (state.py, compute_stage;
\* valuation/service.py, determine_basis; facts/store.py, record_fact).
THEOREM PriceStandsOnVerifiedFacts == Spec => []PricedOnVerifiedFacts
<1>1. Priced => PricedOnVerifiedFacts
    <2> SUFFICES ASSUME Priced, stage = "PRICED"
                 PROVE  /\ \A f \in Release : Verified(sheet[f]) \/ sheet[f].from \in ByHand
                        /\ \A f \in Unchecked(sheet) : Source[sheet[f].from] > Source[CheckedBy[f]]
        BY DEF PricedOnVerifiedFacts
    <2>1. \A f \in Release : Verified(sheet[f]) \/ sheet[f].from \in ByHand
        BY ReleaseFields, BackedIsShown DEF Priced, Shown, SheetTyped
    <2>2. ASSUME NEW f \in Unchecked(sheet)
          PROVE  Source[sheet[f].from] > Source[CheckedBy[f]]
        <3>1. f \in RequiredSet \cap DOMAIN CheckedBy /\ Checked(sheet)
            BY DEF Unchecked, Priced
        <3>2. Source[sheet[f].from] >= Source[CheckedBy[f]]
              /\ (f = "photos" => sheet[f].from = "photo" /\ EnoughPhotos(sheet))
            BY <3>1 DEF Checked
        <3>3. CheckedBy["photos"] = "photo"
            BY DEF CheckedBy
        <3>4. sheet[f].from # CheckedBy[f]
            BY <3>2, <3>3 DEF Unchecked, VerifiedFrom
        <3>5. sheet[f].from \in DOMAIN Source /\ CheckedBy[f] \in DOMAIN Source
            BY <3>1, CheckRanks DEF Priced, SheetTyped
        <3>6. \A a, b \in DOMAIN Source : Source[a] >= Source[b] /\ a # b => Source[a] > Source[b]
            BY DEF Source
        <3> QED
            BY <3>2, <3>4, <3>5, <3>6
    <2> QED
        BY <2>1, <2>2
<1> QED
    BY <1>1, PricedInductive, PTL

\* The one way to PRICED, from a turn or from a valuation, passes the question of
\* contradictions (state.py, compute_stage).
THEOREM DisputesComeFirst == Spec => NoPriceOverDispute
<1>1. ASSUME [Next]_vars, stage' = "PRICED", stage # "PRICED"
      PROVE  disputed' \subseteq acked'
    <2>1. CASE OnPriced
        <3>1. Before = "PRICED" /\ UNCHANGED <<disputed, acked>>
            BY <1>1, <2>1 DEF OnPriced, facts
        <3> QED
            BY <3>1, StagePriced DEF Before
    <2>2. ASSUME NEW m, NEW ex, TurnReplies(m, ex)
          PROVE  disputed' \subseteq acked'
        <3>1. Now = "PRICED"
            BY <1>1, <2>2 DEF TurnReplies
        <3> QED
            BY <3>1, StagePriced DEF Now
    <2>3. ~Writes /\ ~Nudge /\ ~Person /\ ~UNCHANGED vars
        BY <1>1 DEF Writes, Nudge, NudgeSkipped, NudgeSent, Stall, Person, Adds, AddFact, Certificate, HandBack, vars
    <2>4. CASE Job
        <3>1. ~Value
                 /\ \A found \in Records, fields \in SUBSET {"year", "finance_owing"} :
                        ~Enrich(found, fields)
            BY <1>1 DEF Value, Enrich
        <3>2. CASE Turn
            <4>1. ~TurnSilent
                BY <1>1 DEF TurnSilent
            <4>2. PICK m \in Says, o \in Outputs \cup {Failed} : TurnRead(m, Heard(m, o))
                BY <3>2, <4>1 DEF Turn
            <4>3. TurnReplies(m, Heard(m, o))
                BY <1>1, <4>2 DEF TurnRead, TurnScreened, TurnCircles, TurnRefused
            <4> QED
                BY <2>2, <4>3
        <3> QED
            BY <2>1, <2>4, <3>1, <3>2 DEF Job
    <2> QED
        BY <1>1, <2>3, <2>4 DEF Next
<1> QED
    BY <1>1, PTL DEF Spec, NoPriceOverDispute

-----------------------------------------------------------------------------
(* Types.                                                                   *)

\* The field that is named first exists: some position is the least.
LEMMA FirstIsRequired ==
    ASSUME NEW S, S \cap RequiredSet # {}
    PROVE  FirstOf(S) \in S \cap RequiredSet
<1> DEFINE at == {i \in DOMAIN Required : Required[i] \in S}
<1>1. DOMAIN Required = 1 .. Len(Required) /\ Len(Required) \in Nat
    BY DiscoveryAssumption, LenProperties
<1>2. at \subseteq Nat /\ at # {}
    BY <1>1 DEF RequiredSet
<1>3. PICK i \in at : \A j \in at : ~(<<j, i>> \in OpToRel(<, Nat))
    <2> HIDE DEF at
    <2> QED
        BY <1>2, WFMin, NatLessThanWellFounded
<1>4. \A j \in at : ~(j < i)
    BY <1>2, <1>3 DEF OpToRel
<1>5. i \in 1 .. Len(Required) /\ Required[i] \in S
    BY <1>1
<1>6. \A j \in 1 .. i - 1 : Required[j] \notin S
    <2> SUFFICES ASSUME NEW j \in 1 .. i - 1, Required[j] \in S PROVE FALSE
        OBVIOUS
    <2>1. j \in at /\ j < i
        BY <1>1, <1>5
    <2> QED
        BY <1>4, <2>1
<1> QED
    BY <1>1, <1>5, <1>6 DEF FirstOf, RequiredSet

\* What is required is on the fact sheet.
LEMMA RequiredFields == RequiredSet \subseteq SheetFields
BY DiscoveryAssumption, ElementOfSeq, LenProperties DEF RequiredSet, SheetFields

\* What may be a fact of a field.
FactType(f) == [from : DOMAIN Source, value : SUBSET Values[f]]

SheetType ==
    /\ DOMAIN sheet = SheetFields
    /\ \A f \in SheetFields : sheet[f] \in FactType(f)

AskedType == {Asked(f) : f \in Askable} \cup {WhichOf(f) : f \in Fields} \cup {NothingAsked, Waiting}

\* A fact of somebody's with a value of the field is well typed.
LEMMA FactTyped ==
    ASSUME NEW f, NEW from \in DOMAIN Source, NEW value \in SUBSET Values[f]
    PROVE  Fact(from, value) \in FactType(f)
BY DEF Fact, FactType

LEMMA NoFactTyped ==
    ASSUME NEW f
    PROVE  NoFact \in FactType(f)
BY DEF NoFact, Fact, FactType, Source

\* Recording facts that are well typed leaves the sheet and the disputes so.
LEMMA RecordTyped ==
    ASSUME NEW new, SheetType, disputed \in SUBSET Fields, RecordFacts(new),
           \A f \in SheetFields : new[f] \in FactType(f)
    PROVE  SheetType' /\ disputed' \in SUBSET Fields
<1>1. DOMAIN sheet' = SheetFields /\ disputed' \in SUBSET Fields
    BY DEF RecordFacts
<1>2. ASSUME NEW f \in SheetFields
      PROVE  sheet'[f] \in FactType(f)
    <2>1. sheet'[f] \in {sheet[f], new[f]}
        BY DEF RecordFacts, Stands
    <2> QED
        BY <2>1 DEF SheetType
<1> QED
    BY <1>1, <1>2 DEF SheetType, FactType

\* What is read out of a message, by the rules or with the model's help, is
\* among the values of its field.
LEMMA ReadTyped ==
    ASSUME NEW m \in Says, NEW o \in Outputs \cup {Failed}, NEW f \in Fields
    PROVE  Heard(m, o).facts[f] \subseteq Values[f]
<1> DEFINE rules == Rules(m, asked, FALSE)
<1>1. rules.facts[f] \subseteq Values[f]
    <2>1. rules.facts[f] = RuleFact(f, m, asked)
        BY DEF Rules
    <2>2. m.vin \subseteq Values["vin"] /\ \A g \in PendingParsers : Parse(g, m) \subseteq Values[g]
        BY ValuesAssumption
    <2>3. m.plate \subseteq Values["rego"]
        <3>1. "rego" \in PendingParsers /\ Parse("rego", m) = m.plate
            BY DEF PendingParsers, Fields, Parse
        <3> QED
            BY <2>2, <3>1
    <2> QED
        BY <2>1, <2>2, <2>3 DEF RuleFact
<1>2. CASE o.usable
    <2>1. o \in Outputs
        BY <1>2 DEF Failed
    <2>2. Coerced(o, f) \subseteq Values[f]
        BY <1>2, <2>1, ValuesAssumption
    <2>3. Heard(m, o).facts[f] = SureFact(f, o, rules)
        BY <1>2 DEF Heard, Read, Merge
    <2> QED
        BY <1>1, <2>2, <2>3 DEF SureFact
<1>3. CASE ~o.usable
    BY <1>1, <1>3 DEF Heard, Read
<1> QED
    BY <1>2, <1>3

\* The photographs are those of the message, whoever reads it.
LEMMA ReadPhotos ==
    ASSUME NEW m \in Says, NEW o
    PROVE  Heard(m, o).photos \subseteq Values["photos"]
<1>1. m.photos \subseteq Values["photos"]
    BY ValuesAssumption
<1>2. Rules(m, asked, FALSE).photos = m.photos
    BY DEF Rules
<1> QED
    BY <1>1, <1>2 DEF Heard, Read, Merge

\* What a turn records is well typed.
LEMMA ToldTyped ==
    ASSUME SheetType, NEW m \in Says, NEW o \in Outputs \cup {Failed}, NEW f \in SheetFields
    PROVE  Told(m, Heard(m, o))[f] \in FactType(f)
<1> DEFINE ex == Heard(m, o)
<1>1. CASE f = "photos"
    <2>1. ex.photos \subseteq Values["photos"]
        BY ReadPhotos
    <2>2. sheet["photos"].value \subseteq Values["photos"]
        BY <1>1 DEF SheetType, FactType
    <2>3. Fact("photo", sheet["photos"].value \cup ex.photos) \in FactType("photos")
        BY <2>1, <2>2, FactTyped DEF Source
    <2>4. Told(m, ex)[f] \in {NoFact, Fact("photo", sheet["photos"].value \cup ex.photos)}
        BY <1>1 DEF Told
    <2> QED
        BY <1>1, <2>3, <2>4, NoFactTyped
<1>2. CASE f # "photos"
    <2> DEFINE v == ex.facts[f] \cup (IF f = "variant" THEN CatalogueMatch(m, ex) ELSE {})
    <2>1. f \in Fields
        BY <1>2 DEF SheetFields
    <2>2. CatalogueMatch(m, ex) \subseteq Values["variant"]
        BY ValuesAssumption DEF CatalogueMatch
    <2>3. v \subseteq Values[f]
        BY <2>1, <2>2, ReadTyped
    <2>4. Told(m, ex)[f] \in {NoFact, Fact("seller", v)}
        BY <1>2 DEF Told
    <2>5. Fact("seller", v) \in FactType(f)
        BY <2>3, FactTyped DEF Source
    <2> QED
        BY <2>4, <2>5, NoFactTyped
<1> QED
    BY <1>1, <1>2

\* The question that was asked last is one of those that are asked.
LEMMA AskedAbout ==
    ASSUME asked \in AskedType
    PROVE  Acknowledges \subseteq Fields
BY DEF AskedType, Asked, WhichOf, NothingAsked, Waiting, Acknowledges

\* What is asked next, if anything, is a question there is.
LEMMA PlanTyped ==
    ASSUME disputed' \in SUBSET Fields, NEW m, NEW ex
    PROVE  Plan(m, ex) \subseteq AskedType
<1>1. CASE disputed' \ acked' # {}
    <2>1. Now = "DISCOVERY"
        BY <1>1 DEF Now, Stage
    <2>2. Plan(m, ex) = {WhichOf(f) : f \in disputed' \ acked'}
        BY <1>1, <2>1 DEF Plan
    <2> QED
        BY <2>2 DEF AskedType
<1>2. CASE disputed' \ acked' = {} /\ Now = "DISCOVERY"
    <2>1. Outstanding(sheet') # {} /\ Outstanding(sheet') \subseteq RequiredSet
        BY <1>2 DEF Now, Stage, Outstanding
    <2>2. NextField \in SheetFields
        <3> DEFINE S == IF Outstanding(sheet') \subseteq deferred' THEN Outstanding(sheet')
                        ELSE Outstanding(sheet') \ deferred'
        <3>1. S \cap RequiredSet # {}
            BY <2>1
        <3>2. NextField = FirstOf(S)
            BY DEF NextField
        <3> HIDE DEF S
        <3> QED
            BY <3>1, <3>2, FirstIsRequired, RequiredFields
    <2>3. Plan(m, ex) = {IF AsksPhone(m, ex) THEN Asked("seller_phone") ELSE Asked(NextField)}
        BY <1>2 DEF Plan
    <2> QED
        BY <2>2, <2>3 DEF AskedType, Askable
<1>3. CASE Now # "DISCOVERY"
    <2>1. Now \in {"VERIFICATION", "PRICED"} /\ disputed' \ acked' = {}
        BY <1>1, <1>3 DEF Now, Stage
    <2>2. CASE Now = "VERIFICATION"
        <3>1. Plan(m, ex) = {Waiting} \ {asked}
            BY <2>1, <2>2 DEF Plan
        <3> QED
            BY <3>1 DEF AskedType
    <2>3. CASE Now = "PRICED"
        <3>1. Plan(m, ex) = {}
            BY <2>1, <2>3 DEF Plan
        <3> QED
            BY <3>1
    <2> QED
        BY <2>1, <2>2, <2>3
<1> QED
    BY <1>1, <1>2, <1>3

FactsType == SheetType /\ disputed \in SUBSET Fields /\ acked \in SUBSET Fields

RestType ==
    /\ stage \in Stages /\ deferred \in SUBSET SpecFor /\ phone \in {"unasked", "asked", "known"}
    /\ asked \in AskedType /\ turns \in 0 .. NoProgressTurns /\ valued \in BOOLEAN
    /\ jobs \in SUBSET Jobs /\ tasks \in SUBSET {"checks_needed", "verification_review"}
    /\ deployment \in Deployments

LEMMA TypeParts == DiscoveryTypeOK <=> FactsType /\ RestType
BY DEF DiscoveryTypeOK, FactsType, RestType, SheetType, FactType, AskedType

LEMMA InitType == Init => DiscoveryTypeOK
<1> SUFFICES ASSUME Init PROVE FactsType /\ RestType
    BY TypeParts
<1>1. PICK l \in Listings :
         sheet = [Nothing EXCEPT !["year"] = Fact("listing", {l.year}),
                                 !["odometer_km"] = Fact("listing", {l.odometer_km})]
    BY DEF Init
<1>2. SheetType
    <2>1. /\ Fact("listing", {l.year}) \in FactType("year")
          /\ Fact("listing", {l.odometer_km}) \in FactType("odometer_km")
        BY ValuesAssumption, FactTyped DEF Source
    <2>2. \A f \in SheetFields :
             sheet[f] = IF f = "odometer_km" THEN Fact("listing", {l.odometer_km})
                        ELSE IF f = "year" THEN Fact("listing", {l.year}) ELSE NoFact
        BY <1>1 DEF Nothing
    <2>3. DOMAIN sheet = SheetFields
        BY <1>1 DEF Nothing
    <2> QED
        BY <2>1, <2>2, <2>3, NoFactTyped DEF SheetType
<1>3. Required[1] \in SheetFields
    <2>1. 1 \in DOMAIN Required
        BY DiscoveryAssumption, LenProperties, EmptySeq
    <2> QED
        BY <2>1, RequiredFields DEF RequiredSet
<1>4. asked \in AskedType
    BY <1>3 DEF Init, AskedType, Askable, SheetFields, Fields
<1>5. FactsType
    BY <1>2 DEF Init, FactsType
<1>6. turns \in 0 .. NoProgressTurns /\ valued \in BOOLEAN
    <2>1. turns = 0 /\ 0 \in 0 .. NoProgressTurns
        BY DiscoveryAssumption DEF Init
    <2>2. valued \in BOOLEAN
        BY DEF Init
    <2> QED
        BY <2>1, <2>2
<1>7. /\ stage \in Stages /\ deferred \in SUBSET SpecFor /\ phone \in {"unasked", "asked", "known"}
      /\ jobs \in SUBSET Jobs /\ tasks \in SUBSET {"checks_needed", "verification_review"}
      /\ deployment \in Deployments
    BY DEF Init, Stages, Waitable
<1> QED
    BY <1>4, <1>5, <1>6, <1>7 DEF RestType

\* The question of a field that is required; the count of turns; what is queued.
LEMMA TurnParts ==
    ASSUME FactsType, RestType, NEW m, NEW ex
    PROVE  /\ Counted(m, ex) \in 0 .. NoProgressTurns
           /\ PhoneNow(ex) \in {"unasked", "asked", "known"}
           /\ Now \in Stages
           /\ Handled \cup Lookup(m, ex) \cup ToPrice \in SUBSET Jobs
           /\ \A about : Handled \cup Chase(about) \in SUBSET Jobs
           /\ ToCheck \in SUBSET {"checks_needed"}
<1>1. Counted(m, ex) \in 0 .. NoProgressTurns
    BY DiscoveryAssumption DEF Counted, RestType
<1>2. PhoneNow(ex) \in {"unasked", "asked", "known"}
    BY DEF PhoneNow, RestType
<1>3. Now \in Stages
    BY DEF Now, Stage, Stages, Waitable
<1>4. Handled \cup Lookup(m, ex) \cup ToPrice \in SUBSET Jobs
    BY DEF Handled, Lookup, ToPrice, Jobs, JobNames, RestType
<1>5. \A about : Handled \cup Chase(about) \in SUBSET Jobs
    BY DEF Handled, Chase, Jobs, RestType
<1> QED
    BY <1>1, <1>2, <1>3, <1>4, <1>5 DEF ToCheck

\* A step that records nothing has only the rest to get right.
LEMMA FactsKept ==
    ASSUME FactsType, UNCHANGED facts
    PROVE  FactsType'
BY DEF FactsType, SheetType, facts

LEMMA TurnType ==
    ASSUME FactsType, RestType, Turn
    PROVE  FactsType' /\ RestType'
<1> USE DEF Stages, Ended, Waitable
<1>1. CASE TurnSilent
    BY <1>1 DEF TurnSilent, facts, Handled, FactsType, SheetType, RestType
<1>2. ASSUME NEW m \in Says, NEW o \in Outputs \cup {Failed}, TurnRead(m, Heard(m, o))
      PROVE  FactsType' /\ RestType'
    <2> DEFINE ex == Heard(m, o)
    <2>1. CASE TurnScreened(ex)
        <3>1. jobs' \in SUBSET Jobs
            BY <2>1, TurnParts DEF TurnScreened, Handled, RestType
        <3>2. asked' \in AskedType
            BY <2>1 DEF TurnScreened, RestType, AskedType
        <3>3. FactsType'
            BY <2>1, FactsKept DEF TurnScreened
        <3> HIDE DEF ex
        <3>4. turns' \in 0 .. NoProgressTurns
            BY <2>1, DiscoveryAssumption DEF TurnScreened
        <3> QED
            BY <2>1, <3>1, <3>2, <3>3, <3>4 DEF TurnScreened, RestType
    <2>2. CASE /\ Tells(m, ex)
               /\ TurnCircles(m, ex) \/ TurnReplies(m, ex)
                    \/ \E flagged \in BOOLEAN : TurnRefused(m, ex, flagged)
        <3>1. FactsType'
            <4>1. SheetType' /\ disputed' \in SUBSET Fields
                BY <2>2, ToldTyped, RecordTyped DEF Tells, FactsType
            <4>2. acked' \in SUBSET Fields
                BY <2>2, AskedAbout DEF Tells, FactsType, RestType
            <4> QED
                BY <4>1, <4>2 DEF FactsType
        <3>2. deferred' \in SUBSET SpecFor
            BY <2>2 DEF Tells, RestType
        <3>3. Plan(m, ex) \subseteq AskedType
            BY <3>1, PlanTyped DEF FactsType
        <3> HIDE DEF ex
        <3>4. CASE TurnCircles(m, ex)
            <4>1. jobs' \in SUBSET Jobs /\ phone' \in {"unasked", "asked", "known"}
                BY <3>4, TurnParts DEF TurnCircles, Handled, RestType
            <4>2. turns' \in 0 .. NoProgressTurns
                BY <3>4, DiscoveryAssumption DEF TurnCircles
            <4> QED
                BY <3>1, <3>2, <3>4, <4>1, <4>2 DEF TurnCircles, RestType
        <3>5. CASE TurnReplies(m, ex)
            <4>1. asked' \in AskedType
                BY <3>3, <3>5 DEF TurnReplies, RestType
            <4>2. phone' \in {"unasked", "asked", "known"}
                BY <3>5, TurnParts DEF TurnReplies
            <4>3. /\ stage' \in Stages /\ turns' \in 0 .. NoProgressTurns /\ jobs' \in SUBSET Jobs
                  /\ tasks' \in SUBSET {"checks_needed", "verification_review"}
                BY <3>5, TurnParts DEF TurnReplies, RestType
            <4> QED
                BY <3>1, <3>2, <3>5, <4>1, <4>2, <4>3 DEF TurnReplies, RestType
        <3>6. ASSUME NEW flagged \in BOOLEAN, TurnRefused(m, ex, flagged)
              PROVE  RestType'
            <4>1. jobs' \in SUBSET Jobs /\ tasks' \in SUBSET {"checks_needed", "verification_review"}
                BY <3>6, TurnParts DEF TurnRefused, RestType
            <4>2. phone' \in {"unasked", "asked", "known"} /\ turns' \in 0 .. NoProgressTurns
                BY <3>6, TurnParts, DiscoveryAssumption DEF TurnRefused
            <4> QED
                BY <3>2, <3>6, <4>1, <4>2 DEF TurnRefused, RestType
        <3> QED
            BY <2>2, <3>1, <3>4, <3>5, <3>6
    <2> QED
        BY <1>2, <2>1, <2>2 DEF TurnRead
<1> QED
    BY <1>1, <1>2 DEF Turn

LEMMA JobType ==
    ASSUME FactsType, RestType, Job
    PROVE  FactsType' /\ RestType'
<1> USE DEF Stages, Ended, Waitable
<1>1. CASE Turn
    BY <1>1, TurnType
<1>2. ASSUME NEW found \in Records, NEW fields \in SUBSET {"year", "finance_owing"}, Enrich(found, fields)
      PROVE  FactsType' /\ RestType'
    <2>1. RestType'
        <3>1. jobs' \in SUBSET Jobs /\ UNCHANGED <<deferred, phone, asked, valued, tasks, deployment>>
            BY <1>2 DEF Enrich, RestType
        <3>2. stage' \in Stages
            BY <1>2 DEF Enrich, RestType
        <3>3. turns' \in 0 .. NoProgressTurns
            BY <1>2, DiscoveryAssumption DEF Enrich, RestType, Mark
        <3> QED
            BY <3>1, <3>2, <3>3 DEF RestType
    <2>2. CASE stage \in Ended
        BY <1>2, <2>1, <2>2, FactsKept DEF Enrich, facts
    <2>3. CASE stage \notin Ended
        <3> DEFINE new == Found(found, fields)
        <3>1. RecordFacts(new) /\ acked' = acked
            BY <1>2, <2>3 DEF Enrich
        <3>2. ASSUME NEW f \in SheetFields PROVE new[f] \in FactType(f)
            <4>1. /\ Fact("lookup", {found.year}) \in FactType("year")
                  /\ Fact("lookup", {found.vin}) \in FactType("vin")
                  /\ Fact("ppsr", {found.finance_owing}) \in FactType("finance_owing")
                BY ValuesAssumption, FactTyped DEF Source
            <4>2. new[f] \in
                    IF f = "year" THEN {NoFact, Fact("lookup", {found.year})}
                    ELSE IF f = "vin" THEN {NoFact, Fact("lookup", {found.vin})}
                    ELSE IF f = "finance_owing" THEN {NoFact, Fact("ppsr", {found.finance_owing})}
                    ELSE {NoFact}
                BY DEF Found, Nothing, SheetFields, Fields
            <4> HIDE DEF new
            <4> QED
                BY <4>1, <4>2, NoFactTyped
        <3> HIDE DEF new
        <3> QED
            BY <2>1, <3>1, <3>2, RecordTyped DEF FactsType
    <2> QED
        BY <2>2, <2>3
<1>3. CASE Value
    <2>1. RestType'
        <3>1. valued' \in BOOLEAN
            BY <1>3 DEF Value
        <3>2. jobs' \in SUBSET Jobs /\ tasks' \in SUBSET {"checks_needed", "verification_review"}
            BY <1>3 DEF Value, RestType, Jobs, JobNames
        <3>3. stage' \in Stages /\ turns' \in 0 .. NoProgressTurns
            BY <1>3, DiscoveryAssumption DEF Value, RestType
        <3> QED
            BY <1>3, <3>1, <3>2, <3>3 DEF Value, RestType
    <2> QED
        BY <1>3, <2>1, FactsKept DEF Value
<1>4. CASE OnPriced
    <2>1. RestType'
        <3>1. asked' \in AskedType
            BY <1>4 DEF OnPriced, RestType, AskedType
        <3>2. turns' \in 0 .. NoProgressTurns /\ jobs' \in SUBSET Jobs
            BY <1>4, DiscoveryAssumption DEF OnPriced, RestType
        <3> QED
            BY <1>4, <3>1, <3>2 DEF OnPriced, RestType
    <2> QED
        BY <1>4, <2>1, FactsKept DEF OnPriced
<1> QED
    BY <1>1, <1>2, <1>3, <1>4 DEF Job

LEMMA PersonType ==
    ASSUME FactsType, RestType, Person
    PROVE  FactsType' /\ RestType'
<1> USE DEF Stages, Ended, Waitable
<1>1. ASSUME NEW found \in Records, NEW dash \in BOOLEAN, Certificate(found, dash)
      PROVE  FactsType' /\ RestType'
    <2> DEFINE new == OnCertificate(found, dash)
    <2>1. ASSUME NEW f \in SheetFields PROVE new[f] \in FactType(f)
        <3>1. /\ Fact("ppsr", {found.year}) \in FactType("year")
              /\ Fact("ppsr", {found.finance_owing}) \in FactType("finance_owing")
              /\ Fact("photo", {found.odometer_km}) \in FactType("odometer_km")
            BY ValuesAssumption, FactTyped DEF Source
        <3>2. new[f] \in
                IF f = "year" THEN {Fact("ppsr", {found.year})}
                ELSE IF f = "finance_owing" THEN {Fact("ppsr", {found.finance_owing})}
                ELSE IF f = "odometer_km" THEN {NoFact, Fact("photo", {found.odometer_km})}
                ELSE {NoFact}
            BY DEF OnCertificate, Nothing, SheetFields, Fields
        <3> HIDE DEF new
        <3> QED
            BY <3>1, <3>2, NoFactTyped
    <2>2. RecordFacts(new)
        BY <1>1 DEF Certificate
    <2> HIDE DEF new
    <2>3. SheetType' /\ disputed' \in SUBSET Fields
        BY <2>1, <2>2, RecordTyped DEF FactsType
    <2>4. acked' \in SUBSET Fields
        BY <1>1, <2>3 DEF Certificate, FactsType
    <2>5. RestType'
        <3>1. turns' \in 0 .. NoProgressTurns
            BY <1>1, DiscoveryAssumption DEF Certificate, Mark, RestType
        <3>2. jobs' \in SUBSET Jobs /\ tasks' \in SUBSET {"checks_needed", "verification_review"}
            BY <1>1 DEF Certificate, RestType, Jobs, JobNames
        <3> QED
            BY <1>1, <3>1, <3>2 DEF Certificate, RestType
    <2> QED
        BY <2>3, <2>4, <2>5 DEF FactsType
<1>2. ASSUME NEW a \in Added, AddFact(a)
      PROVE  FactsType' /\ RestType'
    <2> DEFINE new == [Nothing EXCEPT ![a.field] = Fact(a.from, {a.found[a.field]})]
    <2>1. ASSUME NEW f \in SheetFields PROVE new[f] \in FactType(f)
        <3>1. Fact(a.from, {a.found[a.field]}) \in FactType(a.field)
            BY ValuesAssumption, FactTyped
        <3>2. new[f] = IF f = a.field THEN Fact(a.from, {a.found[a.field]}) ELSE NoFact
            BY DEF Nothing
        <3> HIDE DEF new
        <3> QED
            BY <3>1, <3>2, NoFactTyped
    <2>2. RecordFacts(new) /\ acked' = acked
        BY <1>2 DEF AddFact
    <2>3. RestType'
        <3>1. turns' \in 0 .. NoProgressTurns
            BY <1>2, DiscoveryAssumption DEF AddFact, Mark, RestType
        <3>2. jobs' \in SUBSET Jobs /\ tasks' \in SUBSET {"checks_needed", "verification_review"}
            BY <1>2 DEF AddFact, RestType, Jobs, JobNames
        <3> QED
            BY <1>2, <3>1, <3>2 DEF AddFact, RestType
    <2> HIDE DEF new
    <2> QED
        BY <2>1, <2>2, <2>3, RecordTyped DEF FactsType
<1>3. CASE HandBack
    <2>1. RestType'
        BY <1>3, DiscoveryAssumption DEF HandBack, RestType
    <2> QED
        BY <1>3, <2>1, FactsKept DEF HandBack
<1> QED
    BY <1>1, <1>2, <1>3 DEF Person, Adds

\* Whatever is asked, said, found and decided, in any order: what is on record for
\* a field is one of its values, a question is one there is, and discovery always
\* knows which field comes next (state.py, compute_stage; service.py, _plan).
THEOREM DiscoveryTypes == Spec => []DiscoveryTypeOK
<1>1. DiscoveryTypeOK /\ [Next]_vars => DiscoveryTypeOK'
    <2> SUFFICES ASSUME FactsType, RestType, [Next]_vars PROVE FactsType' /\ RestType'
        BY TypeParts DEF DiscoveryTypeOK, FactsType, RestType, SheetType, FactType, AskedType
    <2>1. CASE Writes
        <3>1. RestType'
            BY <2>1 DEF Writes, RestType, Jobs, JobNames
        <3> QED
            BY <2>1, <3>1, FactsKept DEF Writes
    <2>2. CASE Nudge
        <3>1. asked' \in AskedType
            BY <2>2 DEF Nudge, NudgeSkipped, NudgeSent, Stall, RestType, AskedType
        <3>2. jobs' \in SUBSET Jobs /\ turns' \in 0 .. NoProgressTurns /\ stage' \in Stages
            BY <2>2, DiscoveryAssumption DEF Nudge, NudgeSkipped, NudgeSent, Stall, RestType, Stages
        <3>3. UNCHANGED facts /\ UNCHANGED <<deferred, phone, valued, tasks, deployment>>
            BY <2>2 DEF Nudge
        <3> QED
            BY <3>1, <3>2, <3>3, FactsKept DEF RestType
    <2>3. CASE UNCHANGED vars
        <3>1. RestType'
            BY <2>3 DEF vars, RestType
        <3> QED
            BY <2>3, <3>1, FactsKept DEF vars
    <2> QED
        BY <2>1, <2>2, <2>3, JobType, PersonType DEF Next
<1> QED
    BY <1>1, InitType, PTL DEF Spec
=============================================================================
