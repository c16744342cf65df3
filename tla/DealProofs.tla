----------------------------- MODULE DealProofs -----------------------------
(***************************************************************************)
(* What holds of a deal for every number of offers and retries, whoever    *)
(* presents them and whatever the seller says.  The rows of table offers   *)
(* come first: whatever a step does to them it keeps (Kept), and only the  *)
(* newest stays open.  Typing and the agreement of the lead's state with   *)
(* its offers follow by cases on the step.                                 *)
(***************************************************************************)
EXTENDS Deal, SequenceTheorems, TLAPS

\* The rows a step may leave behind: none is gone, no step and no
\* author is altered, no outcome that was written is overwritten, and no packet is withdrawn.
Kept(rows) ==
    /\ rows \in Seq(OfferRows) /\ Len(rows) \in {Len(offers), Len(offers) + 1}
    /\ \A i \in 1 .. Len(offers) :
         /\ rows[i].step = offers[i].step /\ rows[i].by = offers[i].by
         /\ offers[i].outcome # "open" => rows[i].outcome = offers[i].outcome
         /\ offers[i].packet # "none" => rows[i].packet # "none"

NewestOpen(rows) == \A i \in 1 .. Len(rows) : rows[i].outcome = "open" => i = Len(rows)

\* The rows are typed and only the newest is open.
Rows == offers \in Seq(OfferRows) /\ NewestOpen(offers)

\* The ladder's rungs are ladder steps, and so is the rung above any of them.
LEMMA RungsAreSteps ==
    /\ Len(Rungs) = 3 /\ \A i \in 1 .. 3 : Rungs[i] \in Steps
    /\ \A step \in Steps : NextRung(step) \subseteq Steps
<1>1. Len(Rungs) = 3 /\ DOMAIN Rungs = 1 .. 3
  BY DEF Rungs
<1>2. \A i \in 1 .. 3 : Rungs[i] \in Steps
  BY <1>1 DEF Steps, Range
<1>3. \A step \in Steps : NextRung(step) \subseteq Steps
  BY <1>1, <1>2 DEF NextRung
<1> QED BY <1>1, <1>2, <1>3

\* A row of the table is a record of the four columns.
LEMMA RowAt ==
    ASSUME Rows, NEW i \in 1 .. Len(offers)
    PROVE  offers[i] \in OfferRows
BY ElementOfSeq DEF Rows

\* Settling writes an outcome on the open offer and leaves none open.
LEMMA SettleKeeps ==
    ASSUME Rows, NEW outcome \in Outcomes
    PROVE  /\ Kept(Settle(outcome)) /\ Len(Settle(outcome)) = Len(offers)
           /\ \A i \in 1 .. Len(offers) : Settle(outcome)[i].outcome # "open"
           /\ Open => Settle(outcome)[Len(offers)].outcome = outcome
<1> DEFINE n == Len(offers)
           row == [offers[n] EXCEPT !.outcome = outcome]
<1>0. n \in Nat /\ (offers # <<>> <=> n # 0)
  BY LenProperties, EmptySeq DEF Rows
<1>1. CASE Open
  <2>1. n \in 1 .. n
    BY <1>0, <1>1 DEF Open
  <2>2. row \in OfferRows /\ row.step = offers[n].step /\ row.by = offers[n].by
        /\ row.outcome = outcome /\ row.packet = offers[n].packet
    BY <2>1, RowAt DEF OfferRows
  <2>3. Settle(outcome) = [offers EXCEPT ![n] = row]
    BY <1>1 DEF Settle
  <2>4. /\ Settle(outcome) \in Seq(OfferRows) /\ Len(Settle(outcome)) = n
        /\ \A j \in 1 .. n : Settle(outcome)[j] = IF j = n THEN row ELSE offers[j]
    <3> HIDE DEF row, n
    <3>1. offers \in Seq(OfferRows)
      BY DEF Rows
    <3> QED BY <2>1, <2>2, <2>3, <3>1, ExceptSeq DEF n
  <2>5. offers[n].outcome = "open"
    BY <1>1 DEF Open, Newest
  <2>6. \A i \in 1 .. n : i # n => offers[i].outcome # "open"
    BY DEF Rows, NewestOpen
  <2>7. outcome # "open"
    BY DEF Outcomes
  <2> HIDE DEF row
  <2> QED BY <1>0, <2>1, <2>2, <2>4, <2>5, <2>6, <2>7 DEF Kept
<1>2. CASE ~Open
  <2>1. Settle(outcome) = offers
    BY <1>2 DEF Settle
  <2>2. \A i \in 1 .. n : offers[i].outcome # "open"
    BY <1>0, <1>2 DEF Rows, NewestOpen, Open, Newest
  <2> QED BY <1>0, <1>2, <2>1, <2>2 DEF Kept, Rows
<1> QED BY <1>1, <1>2

\* A new offer settles the one before and is the only one open.
LEMMA PresentKeeps ==
    ASSUME Rows, NEW step \in Steps, NEW by \in {"system", "human"}, NEW r, Present(step, by, r)
    PROVE  /\ Kept(offers') /\ NewestOpen(offers') /\ Len(offers') = Len(offers) + 1
           /\ offers'[Len(offers) + 1].step = step /\ offers'[Len(offers) + 1].by = by
<1> DEFINE settled == Settle("superseded")
           row == [step |-> step, by |-> by, outcome |-> "open", packet |-> "none"]
<1>1. "superseded" \in Outcomes /\ row \in OfferRows /\ row.step = step /\ row.by = by
  BY DEF Outcomes, OfferRows, Packets
<1>2. /\ Kept(settled) /\ Len(settled) = Len(offers)
      /\ \A i \in 1 .. Len(offers) : settled[i].outcome # "open"
  BY <1>1, SettleKeeps
<1>3. offers' = Append(settled, row)
  BY DEF Present
<1>4. settled \in Seq(OfferRows) /\ Len(offers) \in Nat
  BY <1>2, LenProperties DEF Kept, Rows
<1> HIDE DEF settled, row
<1>5. /\ offers' \in Seq(OfferRows) /\ Len(offers') = Len(settled) + 1
      /\ \A i \in 1 .. Len(settled) : offers'[i] = settled[i]
      /\ offers'[Len(settled) + 1] = row
  BY <1>1, <1>3, <1>4, AppendProperties
<1>6. NewestOpen(offers')
  BY <1>2, <1>4, <1>5 DEF NewestOpen
<1> QED BY <1>1, <1>2, <1>4, <1>5, <1>6 DEF Kept

\* Moving a packet along touches no outcome.
LEMMA PacketKeeps ==
    ASSUME Rows, NEW i \in DOMAIN offers, NEW p \in Packets \ {"none"},
           offers' = [offers EXCEPT ![i].packet = p]
    PROVE  /\ Kept(offers') /\ NewestOpen(offers') /\ Len(offers') = Len(offers)
           /\ \A j \in 1 .. Len(offers) : offers'[j].outcome = offers[j].outcome
<1> DEFINE row == [offers[i] EXCEPT !.packet = p]
<1>1. i \in 1 .. Len(offers) /\ Len(offers) \in Nat
  BY LenProperties DEF Rows
<1>2. row \in OfferRows /\ row.step = offers[i].step /\ row.by = offers[i].by
      /\ row.outcome = offers[i].outcome /\ row.packet = p
  BY <1>1, RowAt DEF OfferRows
<1>3. offers' = [offers EXCEPT ![i] = row]
  OBVIOUS
<1> HIDE DEF row
<1>4. /\ offers' \in Seq(OfferRows) /\ Len(offers') = Len(offers)
      /\ \A j \in 1 .. Len(offers) : offers'[j] = IF j = i THEN row ELSE offers[j]
  BY <1>1, <1>2, <1>3, ExceptSeq DEF Rows
<1> QED BY <1>1, <1>2, <1>4 DEF Kept, NewestOpen, Rows

\* A yes writes the outcome and the packet of the newest offer together.
LEMMA AcceptKeeps ==
    ASSUME Rows, TurnAccept
    PROVE  /\ Kept(offers') /\ NewestOpen(offers') /\ Len(offers') = Len(offers)
           /\ offers # <<>> /\ offers'[Len(offers)].outcome = "accepted"
           /\ offers'[Len(offers)].packet # "none"
<1> DEFINE n == Len(offers)
           row == [offers[n] EXCEPT !.outcome = "accepted", !.packet = "unclaimed"]
<1>1. Open /\ offers[n].outcome = "open" /\ offers # <<>>
  BY DEF TurnAccept, Open, Newest
<1>2. n \in 1 .. n /\ n \in Nat
  BY <1>1, LenProperties, EmptySeq DEF Rows
<1>3. row \in OfferRows /\ row.step = offers[n].step /\ row.by = offers[n].by
      /\ row.outcome = "accepted" /\ row.packet = "unclaimed"
  BY <1>2, RowAt DEF OfferRows, Packets, Outcomes
<1>4. offers' = [offers EXCEPT ![n] = row]
  BY <1>2 DEF TurnAccept
<1> HIDE DEF row, n
<1>5. /\ offers' \in Seq(OfferRows) /\ Len(offers') = n
      /\ \A j \in 1 .. n : offers'[j] = IF j = n THEN row ELSE offers[j]
  BY <1>2, <1>3, <1>4, ExceptSeq DEF Rows, n
<1> QED BY <1>1, <1>2, <1>3, <1>5 DEF Kept, NewestOpen, Rows, n

\* The steps that write to table offers.
Writes == \/ TurnAccept \/ TurnReject \/ Expire
          \/ \E r \in Results : TurnConcede(r) \/ OnPricedOffers(r) \/ PriceByHand(r)
          \/ \E i \in DOMAIN offers : Alarm(i) \/ ClaimHandoff(i)
          \/ \E step \in Range(Rungs) \cup {"floor"}, r \in Results : PresentOffer(step, r)
          \/ \E outcome \in Outcomes : OfferOutcome(outcome)

\* Every other step leaves it alone.
LEMMA OnlyWritesWrite == [Next]_vars => Writes \/ UNCHANGED offers
<1>1. Turn => Writes \/ UNCHANGED offers
  BY DEF Turn, Writes, TurnIgnored, TurnStop, TurnPerson, TurnRefused, TurnAsk, TurnCeiling,
         TurnRestate, TurnTalk, InTurn, Results
<1>2. Job => Writes \/ UNCHANGED offers
  BY DEF Job, Writes, ValueLead, Value, OnPriced, OnPricedSkips, OnPricedTooLow, OnPricedAsks, Nudge
<1>3. Person => Writes \/ UNCHANGED offers
  BY DEF Person, Writes, Resolve, AddFact, RecordChecks, Revalue
<1> QED BY <1>1, <1>2, <1>3 DEF Next, Say, Lapse, vars

\* Every step keeps the rows, and only the newest stays open.
LEMMA StepKeeps ==
    ASSUME Rows, [Next]_vars
    PROVE  Kept(offers') /\ NewestOpen(offers')
<1>0. Kept(offers) /\ NewestOpen(offers)
  BY LenProperties DEF Rows, Kept
<1>1. ASSUME NEW outcome \in Outcomes, offers' = Settle(outcome)
      PROVE  Kept(offers') /\ NewestOpen(offers')
  <2>1. /\ Kept(Settle(outcome)) /\ Len(Settle(outcome)) = Len(offers)
        /\ \A i \in 1 .. Len(offers) : Settle(outcome)[i].outcome # "open"
    BY SettleKeeps
  <2> QED BY <1>1, <2>1 DEF NewestOpen
<1>2. ASSUME NEW i \in DOMAIN offers, NEW p \in Packets \ {"none"},
             offers' = [offers EXCEPT ![i].packet = p]
      PROVE  Kept(offers') /\ NewestOpen(offers')
  BY <1>2, PacketKeeps
<1>3. ASSUME NEW step \in Steps, NEW by \in {"system", "human"}, NEW r, Present(step, by, r)
      PROVE  Kept(offers') /\ NewestOpen(offers')
  BY <1>3, PresentKeeps
<1>4. CASE TurnAccept
  BY <1>4, AcceptKeeps
<1>5. CASE TurnReject
  BY <1>1, <1>5 DEF TurnReject, Outcomes
<1>6. CASE \E r \in Results : TurnConcede(r)
  <2>1. Open \/ offers # <<>>
    BY <1>6 DEF TurnConcede, OnOffer, Stage, Sticky
  <2>2. Newest.step \in Steps
    BY <2>1, RowAt, LenProperties, EmptySeq DEF Newest, Open, Rows, OfferRows
  <2> QED BY <1>3, <1>6, <2>2, RungsAreSteps DEF TurnConcede
<1>7. CASE \E r \in Results : OnPricedOffers(r)
  BY <1>3, <1>7 DEF OnPricedOffers, Steps, Range, Rungs
<1>8. CASE Expire
  BY <1>1, <1>8 DEF Expire, Outcomes
<1>9. CASE \E r \in Results : PriceByHand(r)
  BY <1>3, <1>9 DEF PriceByHand, Steps
<1>10. CASE \E i \in DOMAIN offers : Alarm(i) \/ ClaimHandoff(i)
  BY <1>2, <1>10 DEF Alarm, ClaimHandoff, Packets
<1>11. CASE \E step \in Range(Rungs) \cup {"floor"}, r \in Results : PresentOffer(step, r)
  BY <1>3, <1>11 DEF PresentOffer, Steps
<1>12. CASE \E outcome \in Outcomes : OfferOutcome(outcome)
  BY <1>1, <1>12 DEF OfferOutcome
<1>13. CASE UNCHANGED offers
  BY <1>0, <1>13 DEF NewestOpen, Kept
<1> QED BY <1>4, <1>5, <1>6, <1>7, <1>8, <1>9, <1>10, <1>11, <1>12, <1>13, OnlyWritesWrite DEF Writes

\* The table starts empty and stays as described.
THEOREM RowsHold == Spec => []Rows
<1>1. Init => Rows
  BY EmptySeq, LenProperties DEF Init, Rows, NewestOpen
<1>2. Rows /\ [Next]_vars => Rows'
  BY StepKeeps DEF Rows, Kept, NewestOpen
<1> QED BY <1>1, <1>2, PTL DEF Spec

\* Only the newest offer can still be accepted, however offers are made.
THEOREM OneOffer == Spec => []OneOpenOffer
<1>1. Rows => OneOpenOffer
  BY LenProperties DEF Rows, NewestOpen, OneOpenOffer
<1> QED BY <1>1, RowsHold, PTL

\* An offer is never altered and its outcome is written once, whoever races.
THEOREM WriteOnce == Spec => OutcomeWriteOnce
<1>1. Rows /\ [Next]_vars => [RowsKept]_vars
  <2> SUFFICES ASSUME Rows, [Next]_vars, NEW i \in DOMAIN offers
               PROVE  /\ i \in DOMAIN offers' /\ offers'[i].step = offers[i].step
                      /\ offers[i].outcome # "open" => offers'[i].outcome = offers[i].outcome
    BY DEF RowsKept
  <2>1. Kept(offers')
    BY StepKeeps
  <2>2. DOMAIN offers = 1 .. Len(offers) /\ Len(offers) \in Nat
    BY LenProperties DEF Rows
  <2>3. DOMAIN offers' = 1 .. Len(offers') /\ Len(offers') \in Nat
    BY <2>1, LenProperties DEF Kept
  <2>4. i \in 1 .. Len(offers)
    BY <2>2
  <2>5. i \in DOMAIN offers'
    <3>1. Len(offers') \in {Len(offers), Len(offers) + 1}
      BY <2>1 DEF Kept
    <3>2. \A n \in Nat : \A m \in {n, n + 1} : 1 .. n \subseteq 1 .. m
      OBVIOUS
    <3>3. 1 .. Len(offers) \subseteq 1 .. Len(offers')
      BY <2>2, <3>1, <3>2, Zenon
    <3> QED BY <2>3, <2>4, <3>3, Zenon
  <2> QED BY <2>1, <2>4, <2>5 DEF Kept
<1> QED BY <1>1, RowsHold, PTL DEF Spec, OutcomeWriteOnce

-----------------------------------------------------------------------------
(* Typing.                                                                 *)

\* The bound on offers leaves room for the counter that is on its way, which
\* TurnConcede answers with an offer without looking at the bound.
Reserve == inbox.intent = "counter" => Len(offers) < MaxOffers

Typed == TypeOK /\ Reserve /\ NewestOpen(offers)

\* The steps that make an offer.
Adds == \/ \E r \in Results : TurnConcede(r) \/ OnPricedOffers(r) \/ PriceByHand(r)
        \/ \E step \in Range(Rungs) \cup {"floor"}, r \in Results : PresentOffer(step, r)

\* What is typed has its rows typed.
LEMMA TypedRows == Typed => Rows
BY DEF Typed, TypeOK, Rows

\* Only those make the table longer.
LEMMA Lengths ==
    ASSUME Rows, [Next]_vars
    PROVE  Adds \/ Len(offers') = Len(offers)
<1>1. ASSUME NEW outcome \in Outcomes, offers' = Settle(outcome) PROVE Len(offers') = Len(offers)
  BY <1>1, SettleKeeps
<1>2. CASE TurnAccept
  BY <1>2, AcceptKeeps
<1>3. CASE TurnReject
  BY <1>1, <1>3 DEF TurnReject, Outcomes
<1>4. CASE Expire
  BY <1>1, <1>4 DEF Expire, Outcomes
<1>5. CASE \E i \in DOMAIN offers : Alarm(i) \/ ClaimHandoff(i)
  BY <1>5, PacketKeeps DEF Alarm, ClaimHandoff, Packets
<1>6. CASE \E outcome \in Outcomes : OfferOutcome(outcome)
  BY <1>1, <1>6 DEF OfferOutcome
<1> QED BY <1>2, <1>3, <1>4, <1>5, <1>6, OnlyWritesWrite DEF Writes, Adds

\* The bound holds, and the counter's place with it.
LEMMA StepReserve ==
    ASSUME Typed, [Next]_vars
    PROVE  Len(offers') <= MaxOffers /\ Reserve'
<1> USE DealAssumption
<1>0. Rows /\ Len(offers) \in Nat /\ Len(offers) <= MaxOffers
  BY TypedRows, LenProperties DEF Typed, TypeOK
<1>1. ASSUME NEW step, NEW by, NEW r, Present(step, by, r), step \in Steps, by \in {"system", "human"}
      PROVE  Len(offers') = Len(offers) + 1
  BY <1>0, <1>1, PresentKeeps
<1>2. CASE \E r \in Results : TurnConcede(r)
  <2>1. inbox.intent = "counter" /\ inbox' = NoMessage
    BY <1>2 DEF TurnConcede, OnOffer, Persisted
  <2>2. offers # <<>>
    BY <1>2 DEF TurnConcede, OnOffer, Stage, Sticky
  <2>3. Newest.step \in Steps
    BY <1>0, <2>2, RowAt, LenProperties, EmptySeq DEF Newest, Rows, OfferRows
  <2>4. Len(offers') = Len(offers) + 1
    BY <1>1, <1>2, <2>3, RungsAreSteps DEF TurnConcede
  <2> QED BY <1>0, <2>1, <2>4 DEF Typed, Reserve, NoMessage
<1>3. CASE \E r \in Results : OnPricedOffers(r)
  <2>1. offers = <<>>
    BY <1>3 DEF OnPricedOffers, OnPricedStage, Stage, Sticky
  <2>2. Len(offers') = 1
    BY <1>1, <1>3, <2>1 DEF OnPricedOffers, Steps, Range, Rungs
  <2> QED BY <1>3, <2>2 DEF Reserve
<1>4. CASE \E r \in Results : PriceByHand(r)
  <2>1. Len(offers') = Len(offers) + 1 /\ Room /\ inbox' = inbox
    BY <1>1, <1>4 DEF PriceByHand, Steps
  <2> QED BY <1>0, <2>1 DEF Reserve, Room
<1>5. CASE \E step \in Range(Rungs) \cup {"floor"}, r \in Results : PresentOffer(step, r)
  <2>1. Len(offers') = Len(offers) + 1 /\ Room /\ inbox' = inbox
    BY <1>1, <1>5 DEF PresentOffer, Steps
  <2> QED BY <1>0, <2>1 DEF Reserve, Room
<1>6. CASE Len(offers') = Len(offers)
  <2>1. \/ inbox' = inbox \/ inbox' = NoMessage
        \/ inbox' = [inbox EXCEPT !.tries = inbox.tries + 1]
        \/ \E intent \in Replies : Say(intent)
    <3>1. Turn => \/ inbox' = inbox \/ inbox' = NoMessage
                  \/ inbox' = [inbox EXCEPT !.tries = inbox.tries + 1]
      BY DEF Turn, TurnIgnored, TurnStop, TurnPerson, TurnAccept, TurnReject, TurnRefused, TurnAsk,
             TurnConcede, TurnCeiling, TurnRestate, TurnTalk, Persisted
    <3>2. Job => inbox' = inbox
      BY DEF Job, ValueLead, Value, OnPriced, OnPricedSkips, OnPricedOffers, OnPricedTooLow, OnPricedAsks,
             Expire, Nudge, Alarm
    <3>3. Person => inbox' = inbox
      BY DEF Person, PresentOffer, PriceByHand, OfferOutcome, Resolve, AddFact, RecordChecks,
             Revalue, ClaimHandoff
    <3> QED BY <3>1, <3>2, <3>3 DEF Next, Lapse, vars
  <2>2. ASSUME NEW intent \in Replies, Say(intent) PROVE Reserve'
    BY <1>0, <1>6, <2>2 DEF Say, Room, NoMessage, Reserve
  <2>3. CASE inbox' = inbox \/ inbox' = NoMessage
    BY <1>0, <1>6, <2>3 DEF Typed, Reserve, NoMessage
  <2>4. CASE inbox' = [inbox EXCEPT !.tries = inbox.tries + 1]
    <3>1. inbox'.intent = inbox.intent
      BY <2>4 DEF Typed, TypeOK
    <3> QED BY <1>0, <1>6, <3>1 DEF Typed, Reserve
  <2> QED BY <1>0, <1>6, <2>1, <2>2, <2>3, <2>4
<1> QED BY <1>0, <1>2, <1>3, <1>4, <1>5, <1>6, Lengths DEF Adds

\* The columns beside the offers.
Columns ==
    /\ state \in LeadStates /\ clear \in BOOLEAN /\ valued \in {"no", "yes", "unviable"}
    /\ late \in BOOLEAN /\ tasks \in SUBSET Tasks /\ jobs \in SUBSET {"value_lead", "on_priced"}
    /\ inbox \in [intent : Intents \cup {"none"}, tries : 0 .. MaxTries]
    /\ lost \in BOOLEAN /\ lastWord \in {"us", "seller"}
    /\ contact \in {"open", "stopped", "breached"}

\* The stage and where a message leaves the lead are lead states.
LEMMA StagesAreStates ==
    /\ \A s \in LeadStates, c \in BOOLEAN : Stage(s, c) \in LeadStates
    /\ \A r \in Results, s \in LeadStates :
         After(r, s) \in LeadStates /\ Raised(r) \subseteq Tasks
    /\ \A r \in Results, who \in {"us", "seller"} : Word(r, who) \in {"us", "seller"}
    /\ InTurn \subseteq Results
    /\ state \in LeadStates => Revived \in LeadStates
BY DEF Stage, LeadStates, After, Raised, Tasks, Word, Results, InTurn, Revived

\* A message nobody asked for moves the last word and the contact record only.
LEMMA UnsolicitedColumns ==
    ASSUME Columns, NEW r \in Results, Unsolicited(r)
    PROVE  lastWord' \in {"us", "seller"} /\ contact' \in {"open", "stopped", "breached"}
BY StagesAreStates DEF Unsolicited, Columns

\* Presenting an offer leaves the lead in a state and its tasks known.
LEMMA PresentColumns ==
    ASSUME Columns, NEW step, NEW by, NEW r \in Results, Present(step, by, r)
    PROVE  late' \in BOOLEAN /\ state' \in LeadStates /\ tasks' \in SUBSET Tasks
<1>1. "OFFER_MADE" \in LeadStates
  BY DEF LeadStates
<1>2. After(r, "OFFER_MADE") \in LeadStates /\ Raised(r) \subseteq Tasks
  BY <1>1, StagesAreStates
<1> QED BY <1>2 DEF Present, Columns

\* What a finished job leaves in the inbox.
LEMMA EmptyInbox == NoMessage \in [intent : Intents \cup {"none"}, tries : 0 .. MaxTries]
BY DealAssumption DEF NoMessage

\* A turn of the conversation.
LEMMA TurnColumns == ASSUME Columns, Turn PROVE Columns'
<1> USE StagesAreStates, EmptyInbox DEF Columns
<1>1. CASE TurnIgnored
  BY <1>1 DEF TurnIgnored, Persisted
<1>2. CASE TurnStop
  BY <1>2 DEF TurnStop, Persisted, LeadStates
<1>3. CASE TurnPerson
  BY <1>3 DEF TurnPerson, Persisted, LeadStates, Tasks
<1>4. CASE TurnAccept
  BY <1>4 DEF TurnAccept, Persisted, Learn, LeadStates, Tasks
<1>5. CASE TurnReject
  BY <1>5 DEF TurnReject, Persisted, Learn, LeadStates
<1>6. CASE TurnRefused
  <2>1. inbox' \in [intent : Intents \cup {"none"}, tries : 0 .. MaxTries] /\ lost' \in BOOLEAN
    <3>1. CASE inbox.tries + 1 < MaxTries
      BY <1>6, <3>1, DealAssumption DEF TurnRefused
    <3>2. CASE ~(inbox.tries + 1 < MaxTries)
      BY <1>6, <3>2 DEF TurnRefused
    <3> QED BY <3>1, <3>2
  <2> QED BY <1>6, <2>1 DEF TurnRefused
<1>7. CASE TurnAsk
  BY <1>7 DEF TurnAsk, Persisted, Learn, LeadStates, Tasks
<1>8. CASE \E r \in Results : TurnConcede(r)
  <2>1. PICK r \in Results : TurnConcede(r)
    BY <1>8
  <2>2. PICK step : Present(step, "system", r)
    BY <2>1 DEF TurnConcede
  <2>3. state' \in LeadStates /\ tasks' \in SUBSET Tasks /\ late' \in BOOLEAN
        /\ lastWord' \in {"us", "seller"}
    BY <2>1, <2>2, PresentColumns DEF TurnConcede, Word
  <2> QED BY <2>1, <2>3 DEF TurnConcede, Persisted, Learn
<1>9. CASE \E r \in Results : TurnCeiling(r)
  <2>1. PICK r \in Results : TurnCeiling(r)
    BY <1>9
  <2>2. state' \in LeadStates /\ tasks' \in SUBSET Tasks /\ lastWord' \in {"us", "seller"}
    BY <2>1 DEF TurnCeiling, Raised, Word, LeadStates, Tasks
  <2> QED BY <2>1, <2>2 DEF TurnCeiling, Persisted, Learn
<1>10. CASE \E r \in Results : TurnRestate(r)
  <2>1. PICK r \in Results : TurnRestate(r)
    BY <1>10
  <2>2. state' \in LeadStates /\ tasks' \in SUBSET Tasks /\ lastWord' \in {"us", "seller"}
    BY <2>1 DEF TurnRestate, After, Raised, Word, LeadStates, Tasks
  <2> QED BY <2>1, <2>2 DEF TurnRestate, Persisted, Learn
<1>11. CASE TurnTalk
  <2> DEFINE stage == Stage(Revived, clear')
  <2>1. Persisted /\ Learn /\ stage \in LeadStates
    BY <1>11 DEF TurnTalk, Learn
  <2>2. CASE \E r \in Reply(stage) : /\ state' = After(r, stage)
                                     /\ tasks' = tasks \cup (IF r = "refused" THEN {"other"} ELSE {})
                                     /\ lastWord' = Word(r, "seller")
                                     /\ AfterStage(stage, r)
    <3>1. PICK r \in Reply(stage) : /\ state' = After(r, stage)
                                    /\ tasks' = tasks \cup (IF r = "refused" THEN {"other"} ELSE {})
                                    /\ lastWord' = Word(r, "seller")
                                    /\ AfterStage(stage, r)
      BY <2>2
    <3> HIDE DEF stage
    <3>2. state' \in LeadStates /\ tasks' \in SUBSET Tasks /\ lastWord' \in {"us", "seller"}
      BY <2>1, <3>1 DEF After, Word, LeadStates, Tasks
    <3>3. jobs' \in SUBSET {"value_lead", "on_priced"}
      BY <3>1 DEF AfterStage
    <3> QED BY <1>11, <2>1, <3>2, <3>3 DEF TurnTalk, Persisted, Learn
  <2>3. CASE state' = "HUMAN" /\ tasks' = tasks \cup {"other"} /\ lastWord' = "seller" /\ UNCHANGED jobs
    BY <1>11, <2>1, <2>3 DEF TurnTalk, Persisted, Learn, LeadStates, Tasks
  <2> QED BY <1>11, <2>2, <2>3 DEF TurnTalk
<1> QED BY <1>1, <1>2, <1>3, <1>4, <1>5, <1>6, <1>7, <1>8, <1>9, <1>10, <1>11 DEF Turn, InTurn, Results

\* A job.
LEMMA JobColumns == ASSUME Columns, Job PROVE Columns'
<1> USE StagesAreStates DEF Columns
<1>1. CASE ValueLead
  BY <1>1 DEF ValueLead, Worth, Value, Valuation, LeadStates, Tasks
<1>2. CASE OnPricedSkips
  BY <1>2 DEF OnPricedSkips
<1>3. CASE \E r \in Results : OnPricedOffers(r)
  <2>1. PICK r \in Results : OnPricedOffers(r)
    BY <1>3
  <2> QED BY <1>3, <2>1, PresentColumns, UnsolicitedColumns DEF OnPricedOffers
<1>4. CASE OnPricedTooLow
  BY <1>4 DEF OnPricedTooLow, LeadStates, Tasks
<1>5. CASE OnPricedAsks
  <2>1. PICK r \in Results : /\ state' = After(r, "PRICED")
                             /\ tasks' = tasks \cup {"present"} \cup Raised(r)
                             /\ Unsolicited(r)
    BY <1>5 DEF OnPricedAsks
  <2>2. state' \in LeadStates /\ tasks' \in SUBSET Tasks
    BY <2>1 DEF LeadStates, Tasks
  <2> QED BY <1>5, <2>1, <2>2, UnsolicitedColumns DEF OnPricedAsks
<1>6. CASE Expire
  <2>1. ASSUME NEW r \in Results, state' = After(r, state), Unsolicited(r),
               tasks' = tasks \cup {"offer"} \cup Raised(r)
        PROVE  Columns'
    <3>1. state' \in LeadStates /\ tasks' \in SUBSET Tasks
      BY <2>1 DEF Tasks
    <3> QED BY <1>6, <2>1, <3>1, UnsolicitedColumns DEF Expire
  <2>2. CASE UNCHANGED <<state, tasks, lastWord, contact>>
    BY <1>6, <2>2 DEF Expire
  <2> QED BY <1>6, <2>1, <2>2 DEF Expire
<1>7. CASE Nudge
  <2>1. PICK r \in Results : \/ UNCHANGED <<state, tasks>> /\ Unsolicited(r)
                             \/ /\ state' = "STALLED" /\ tasks' = tasks \cup {"other"}
                                /\ Unsolicited(r)
    BY <1>7 DEF Nudge
  <2>2. state' \in LeadStates /\ tasks' \in SUBSET Tasks
    BY <2>1 DEF LeadStates, Tasks
  <2> QED BY <1>7, <2>1, <2>2, UnsolicitedColumns DEF Nudge
<1>8. ASSUME NEW i \in DOMAIN offers, Alarm(i) PROVE Columns'
  BY <1>8 DEF Alarm, Tasks
<1> QED BY <1>1, <1>2, <1>3, <1>4, <1>5, <1>6, <1>7, <1>8 DEF Job, OnPriced

\* A person at the console.
LEMMA PersonColumns == ASSUME Columns, Person PROVE Columns'
<1> USE StagesAreStates DEF Columns
<1>1. ASSUME NEW step \in Range(Rungs) \cup {"floor"}, NEW r \in Results, PresentOffer(step, r)
      PROVE  Columns'
  BY <1>1, PresentColumns, UnsolicitedColumns DEF PresentOffer
<1>2. CASE \E r \in Results : PriceByHand(r)
  <2>1. PICK r \in Results : PriceByHand(r)
    BY <1>2
  <2> QED BY <1>2, <2>1, PresentColumns, UnsolicitedColumns DEF PriceByHand
<1>3. ASSUME NEW outcome \in Outcomes, OfferOutcome(outcome) PROVE Columns'
  BY <1>3 DEF OfferOutcome, LeadStates
<1>4. ASSUME NEW t \in tasks, NEW back \in BOOLEAN, Resolve(t, back) PROVE Columns'
  BY <1>4 DEF Resolve, LeadStates
<1>5. CASE AddFact
  BY <1>5 DEF AddFact
<1>6. CASE RecordChecks
  <2>1. state' \in LeadStates /\ tasks' \in SUBSET Tasks
    BY <1>6 DEF RecordChecks, LeadStates, Tasks
  <2>2. jobs' \in SUBSET {"value_lead", "on_priced"}
    BY <1>6 DEF RecordChecks
  <2> QED BY <1>6, <2>1, <2>2 DEF RecordChecks
<1>7. ASSUME NEW v \in Worth, NEW verified \in BOOLEAN, NEW owing \in BOOLEAN,
             Revalue(v, verified, owing)
      PROVE  Columns'
  BY <1>7 DEF Worth, Revalue, Valuation, LeadStates, Tasks
<1>8. ASSUME NEW i \in DOMAIN offers, ClaimHandoff(i) PROVE Columns'
  BY <1>8 DEF ClaimHandoff
<1> QED BY <1>1, <1>2, <1>3, <1>4, <1>5, <1>6, <1>7, <1>8 DEF Person

\* Every step keeps the types, the bound and its reserve.
LEMMA StepTyped == Typed /\ [Next]_vars => Typed'
<1> SUFFICES ASSUME Typed, [Next]_vars PROVE Typed'
  OBVIOUS
<1>1. Columns
  BY DEF Typed, TypeOK, Columns
<1>2. ASSUME NEW intent \in Replies, Say(intent) PROVE Columns'
  BY <1>1, <1>2, DealAssumption DEF Say, Columns
<1>3. ASSUME Lapse PROVE Columns'
  BY <1>1, <1>3 DEF Lapse, Columns
<1>4. ASSUME UNCHANGED vars PROVE Columns'
  BY <1>1, <1>4 DEF vars, Columns
<1>5. Columns'
  BY <1>1, <1>2, <1>3, <1>4, TurnColumns, JobColumns, PersonColumns DEF Next
<1>6. offers' \in Seq(OfferRows) /\ NewestOpen(offers')
  BY TypedRows, StepKeeps DEF Kept
<1>7. Len(offers') <= MaxOffers /\ Reserve'
  BY StepReserve
<1> QED BY <1>5, <1>6, <1>7 DEF Columns, Typed, TypeOK, NewestOpen

\* Every column holds what its type says, for any bound on the offers.
THEOREM TypeCorrect == Spec => []TypeOK
<1>1. Init => Typed
  <2> SUFFICES ASSUME Init PROVE Typed
    OBVIOUS
  <2>1. offers \in Seq(OfferRows) /\ Len(offers) = 0
    BY EmptySeq DEF Init
  <2>2. Reserve /\ NewestOpen(offers) /\ Len(offers) <= MaxOffers
    BY <2>1, DealAssumption DEF Init, Reserve, NewestOpen, NoMessage
  <2> QED BY <2>1, <2>2, EmptyInbox DEF Init, Typed, TypeOK, LeadStates
<1>2. Typed /\ [Next]_vars => Typed'
  BY StepTyped
<1>3. Typed => TypeOK
  BY DEF Typed
<1> QED BY <1>1, <1>2, <1>3, PTL DEF Spec

-----------------------------------------------------------------------------
(* The lead's state and its newest offer.                                  *)

\* A newest offer that has an outcome keeps it, and its packet, while no offer
\* is added.
LEMMA SettledStays ==
    ASSUME Rows, Kept(offers'), Len(offers') = Len(offers), offers # <<>>, Newest.outcome # "open"
    PROVE  /\ offers' # <<>> /\ Newest'.outcome = Newest.outcome
           /\ Newest.packet # "none" => Newest'.packet # "none"
<1>1. Len(offers) \in Nat /\ Len(offers) # 0
  BY LenProperties, EmptySeq DEF Rows
<1>2. Len(offers) \in 1 .. Len(offers)
  BY <1>1
<1>3. offers' # <<>>
  BY <1>1, EmptySeq
<1>4. Newest' = offers'[Len(offers)]
  BY DEF Newest
<1> QED BY <1>2, <1>3, <1>4 DEF Kept, Newest

\* The states that claim something of the newest offer.
Claims == {"ACCEPTED", "HANDOFF", "REJECTED"}

\* A lead enters one of them by the seller's yes or by a person's decision only.
LEMMA OnlyDecisionsClaim ==
    ASSUME [Next]_vars, state' \in Claims
    PROVE  TurnAccept \/ (\E outcome \in Outcomes : OfferOutcome(outcome)) \/ state' = state
<1> USE DEF Claims
<1>1. ASSUME NEW s, NEW r, s \notin Claims, state' = After(r, s) PROVE FALSE
  BY <1>1 DEF After
<1>2. Turn => TurnAccept \/ state' = state
  <2>1. ASSUME NEW r, TurnRestate(r) PROVE state' = state
    BY <2>1 DEF TurnRestate, After, Revived
  <2>2. TurnTalk => state' = state
    <3> SUFFICES ASSUME TurnTalk PROVE state' = state
      OBVIOUS
    <3>1. state \notin Claims
      BY DEF TurnTalk, Owned, Silent
    <3>2. Stage(Revived, clear') \notin Claims
      BY <3>1 DEF Stage, Revived
    <3>3. PICK r : state' = After(r, Stage(Revived, clear')) \/ state' = "HUMAN"
      BY DEF TurnTalk
    <3> QED BY <1>1, <3>2, <3>3
  <2> QED BY <2>1, <2>2 DEF Turn, TurnIgnored, TurnStop, TurnPerson, TurnReject, TurnRefused, TurnAsk,
          TurnConcede, Present, After, TurnCeiling
<1>3. Job => state' = state
  BY DEF Job, ValueLead, Value, Valuation, OnPriced, OnPricedSkips, OnPricedOffers, Present, After,
         OnPricedTooLow, OnPricedAsks, Expire, Nudge, Alarm
<1>4. Person => (\E outcome \in Outcomes : OfferOutcome(outcome)) \/ state' = state
  BY DEF Person, PresentOffer, PriceByHand, Present, After, Resolve, AddFact, RecordChecks, Revalue,
         Valuation, ClaimHandoff
<1> QED BY <1>2, <1>3, <1>4 DEF Next, Say, Lapse, vars

\* A lead in one of those states is given no new offer without leaving it.
LEMMA AddsLeave == Adds => state' \notin Claims
BY DEF Adds, TurnConcede, OnPricedOffers, PriceByHand, PresentOffer, Present, After, Claims

\* What was agreed is what the newest offer says, and a handoff has its packet,
\* whatever valuations, expiries, alarms and later offers do.
THEOREM StateMatches == Spec => []DealMatchesOffer
<1>1. Init => DealMatchesOffer
  BY DEF Init, DealMatchesOffer
<1>2. Rows /\ DealMatchesOffer /\ [Next]_vars => DealMatchesOffer'
  <2> SUFFICES ASSUME Rows, DealMatchesOffer, [Next]_vars PROVE DealMatchesOffer'
    OBVIOUS
  <2>1. CASE state' \notin Claims
    BY <2>1 DEF Claims, DealMatchesOffer
  <2>2. CASE TurnAccept
    <3>1. offers' # <<>> /\ Newest'.outcome = "accepted" /\ Newest'.packet # "none"
      BY <2>2, AcceptKeeps, LenProperties, EmptySeq DEF Newest, Rows
    <3> QED BY <2>2, <3>1 DEF TurnAccept, DealMatchesOffer
  <2>3. ASSUME NEW outcome \in Outcomes, OfferOutcome(outcome) PROVE DealMatchesOffer'
    <3>1. Open /\ offers' = Settle(outcome)
      BY <2>3 DEF OfferOutcome
    <3>2. Len(offers') = Len(offers) /\ offers'[Len(offers)].outcome = outcome
      BY <3>1, SettleKeeps
    <3>3. offers # <<>> /\ Newest.outcome = "open" /\ Len(offers) # 0
      BY <3>1, LenProperties, EmptySeq DEF Open, Rows
    <3>4. offers' # <<>> /\ Newest'.outcome = outcome
      BY <3>2, <3>3, EmptySeq DEF Newest
    <3>5. state \notin Claims
      BY <3>3 DEF DealMatchesOffer, Claims
    <3> QED BY <2>3, <3>4, <3>5 DEF OfferOutcome, DealMatchesOffer, Claims
  <2>4. CASE state' = state /\ state' \in Claims
    <3>1. Len(offers') = Len(offers)
      BY <2>4, AddsLeave, Lengths
    <3>2. offers # <<>> /\ Newest.outcome # "open"
      BY <2>4 DEF Claims, DealMatchesOffer
    <3>3. /\ offers' # <<>> /\ Newest'.outcome = Newest.outcome
          /\ Newest.packet # "none" => Newest'.packet # "none"
      BY <3>1, <3>2, StepKeeps, SettledStays
    <3> QED BY <2>4, <3>3 DEF DealMatchesOffer
  <2> QED BY <2>1, <2>2, <2>3, <2>4, OnlyDecisionsClaim
<1> QED BY <1>1, <1>2, RowsHold, PTL DEF Spec

-----------------------------------------------------------------------------
(* What automation offers, and to whom.                                    *)

\* Automation offers in two places: as the answer to a counter, one rung above
\* the offer that was countered, and as the opening of a lead without offers.
\* Every other new offer is a person's.
LEMMA NewOffers ==
    ASSUME Rows, [Next]_vars, Len(offers') # Len(offers)
    PROVE  /\ Len(offers') = Len(offers) + 1
           /\ \/ offers'[Len(offers) + 1].by = "human"
              \/ /\ ~Owned /\ offers # <<>>
                 /\ offers'[Len(offers) + 1].step \in NextRung(offers[Len(offers)].step)
              \/ /\ ~Owned /\ offers = <<>>
                 /\ offers'[Len(offers) + 1].step = Rungs[1]
<1>1. Adds
  BY Lengths
<1>2. CASE \E r \in Results : TurnConcede(r)
  <2>1. PICK r \in Results : TurnConcede(r)
    BY <1>2
  <2>2. ~Owned /\ offers # <<>>
    BY <2>1 DEF TurnConcede, OnOffer, Stage, Sticky
  <2>3. Newest.step \in Steps
    BY <2>2, RowAt, LenProperties, EmptySeq DEF Newest, Rows, OfferRows
  <2>4. PICK step \in NextRung(Newest.step) : Present(step, "system", r)
    BY <2>1 DEF TurnConcede
  <2>5. step \in Steps
    BY <2>3, <2>4, RungsAreSteps
  <2> QED BY <2>2, <2>4, <2>5, PresentKeeps DEF Newest
<1>3. CASE \E r \in Results : OnPricedOffers(r)
  <2>1. PICK r \in Results : OnPricedOffers(r)
    BY <1>3
  <2>2. ~Owned /\ offers = <<>>
    BY <2>1 DEF OnPricedOffers, OnPricedStage, Stage, Sticky, Owned, Silent
  <2>3. Rungs[1] = "opening" /\ "opening" \in Steps
    BY DEF Rungs, Steps, Range
  <2> QED BY <2>1, <2>2, <2>3, PresentKeeps DEF OnPricedOffers
<1>4. CASE \E r \in Results : PriceByHand(r)
  BY <1>4, PresentKeeps DEF PriceByHand, Steps
<1>5. CASE \E step \in Range(Rungs) \cup {"floor"}, r \in Results : PresentOffer(step, r)
  BY <1>5, PresentKeeps DEF PresentOffer, Steps
<1> QED BY <1>1, <1>2, <1>3, <1>4, <1>5 DEF Adds

\* A rung above a step stands right behind it in LADDER_ORDER.
LEMMA NextRungIsAbove ==
    ASSUME NEW step, NEW above \in NextRung(step)
    PROVE  \E k \in 2 .. Len(Rungs) : step = Rungs[k - 1] /\ above = Rungs[k]
<1>1. PICK k \in 1 .. Len(Rungs) : k > 1 /\ Rungs[k - 1] = step /\ above = Rungs[k]
  BY DEF NextRung
<1>2. k \in 2 .. Len(Rungs)
  BY <1>1, RungsAreSteps
<1> QED BY <1>1, <1>2

\* Read back from the record, automation opens at the bottom of the ladder and
\* climbs one rung at a time, whoever made the offer before (_concede, on_priced).
THEOREM LadderIsClimbed == Spec => []LadderClimbs
<1>1. Init => LadderClimbs
  BY LenProperties, EmptySeq DEF Init, LadderClimbs
<1>2. Rows /\ LadderClimbs /\ [Next]_vars => LadderClimbs'
  <2> SUFFICES ASSUME Rows, LadderClimbs, [Next]_vars, NEW i \in DOMAIN offers',
                      offers'[i].by = "system"
               PROVE  IF i = 1 THEN offers'[i].step = Rungs[1]
                      ELSE \E k \in 2 .. Len(Rungs) :
                               offers'[i - 1].step = Rungs[k - 1] /\ offers'[i].step = Rungs[k]
    BY DEF LadderClimbs
  <2> DEFINE n == Len(offers)
  <2>1. Kept(offers')
    BY StepKeeps
  <2>2. n \in Nat /\ DOMAIN offers = 1 .. n /\ (offers = <<>> <=> n = 0)
    BY LenProperties, EmptySeq DEF Rows
  <2>3. Len(offers') \in {n, n + 1} /\ i \in 1 .. Len(offers')
    BY <2>1, LenProperties DEF Kept
  <2>4. \A j \in 1 .. n : offers'[j].step = offers[j].step /\ offers'[j].by = offers[j].by
    BY <2>1 DEF Kept
  <2>5. CASE i \in 1 .. n
    <3>1. IF i = 1 THEN offers[i].step = Rungs[1]
          ELSE \E k \in 2 .. Len(Rungs) :
                   offers[i - 1].step = Rungs[k - 1] /\ offers[i].step = Rungs[k]
      BY <2>2, <2>4, <2>5 DEF LadderClimbs
    <3>2. i # 1 => i - 1 \in 1 .. n
      BY <2>2, <2>5
    <3> QED BY <2>4, <2>5, <3>1, <3>2
  <2>6. CASE i \notin 1 .. n
    <3>1. i = n + 1 /\ Len(offers') # n
      BY <2>2, <2>3, <2>6
    <3>2. CASE offers # <<>> /\ offers'[i].step \in NextRung(offers[n].step)
      <4>1. i # 1 /\ i - 1 = n /\ n \in 1 .. n
        BY <2>2, <3>1, <3>2
      <4> QED BY <2>4, <3>2, <4>1, NextRungIsAbove
    <3>3. CASE offers = <<>> /\ offers'[i].step = Rungs[1]
      BY <2>2, <3>1, <3>3
    <3> QED BY <3>1, <3>2, <3>3, NewOffers
  <2> QED BY <2>5, <2>6
<1> QED BY <1>1, <1>2, RowsHold, PTL DEF Spec

\* Automation makes no offer on a lead that is closed or a person's, although the
\* on_priced job or the message was queued before it became so.
THEOREM NoOfferOverAPerson == Spec => NoOfferBehindAPerson
<1>1. Rows /\ [Next]_vars => [BySystem => ~Owned]_vars
  <2> SUFFICES ASSUME Rows, [Next]_vars, BySystem PROVE ~Owned
    OBVIOUS
  <2>1. Len(offers') # Len(offers)
    BY LenProperties DEF BySystem, NewOffer, Rows
  <2>2. Len(offers') = Len(offers) + 1 /\ offers'[Len(offers) + 1].by = "system"
    BY <2>1, NewOffers DEF BySystem
  <2> QED BY <2>1, <2>2, NewOffers
<1> QED BY <1>1, RowsHold, PTL DEF Spec, NoOfferBehindAPerson

\* What a message that is refused raises is a reason for the person it calls.
LEMMA RefusalIsRaised ==
    ASSUME NEW r, NEW s, s # "HUMAN", After(r, s) = "HUMAN" PROVE "other" \in Raised(r)
BY DEF After, Raised

\* A lead handed to a person comes with an open task that says why, also when the
\* same transaction resolves the tasks an offer answers.
THEOREM EscalationSaysWhy == Spec => EscalationIsOpen
<1>1. ASSUME [Next]_vars, state' = "HUMAN", state # "HUMAN" PROVE tasks' # {}
  <2>1. CASE Turn
    <3>1. ASSUME NEW r, TurnConcede(r) PROVE tasks' # {}
      BY <1>1, <3>1, RefusalIsRaised DEF TurnConcede, Present
    <3>2. ASSUME NEW r, TurnRestate(r) PROVE tasks' # {}
      BY <1>1, <3>2, RefusalIsRaised DEF TurnRestate, Revived
    <3>3. ASSUME TurnTalk PROVE tasks' # {}
      <4> DEFINE stage == Stage(Revived, clear')
      <4>1. stage # "HUMAN"
        BY <1>1 DEF Stage, Revived
      <4>2. CASE tasks' = tasks \cup {"other"}
        BY <4>2
      <4>3. CASE \E r \in Reply(stage) :
                    /\ state' = After(r, stage)
                    /\ tasks' = tasks \cup (IF r = "refused" THEN {"other"} ELSE {})
        <5> HIDE DEF stage
        <5> QED BY <1>1, <4>1, <4>3 DEF After
      <4> QED BY <3>3, <4>2, <4>3 DEF TurnTalk
    <3>4. ~TurnIgnored /\ ~TurnStop /\ ~TurnAccept /\ ~TurnReject /\ ~TurnRefused
      BY <1>1 DEF TurnIgnored, TurnStop, TurnAccept, TurnReject, TurnRefused
    <3>5. TurnPerson \/ TurnAsk \/ (\E r \in InTurn : TurnCeiling(r)) => tasks' # {}
      BY DEF TurnPerson, TurnAsk, TurnCeiling
    <3> QED BY <2>1, <3>1, <3>2, <3>3, <3>4, <3>5 DEF Turn
  <2>2. CASE Job
    <3>1. ASSUME NEW r, OnPricedOffers(r) PROVE tasks' # {}
      BY <1>1, <3>1, RefusalIsRaised DEF OnPricedOffers, Present
    <3>2. ValueLead => tasks' # {}
      BY <1>1 DEF ValueLead, Value, Valuation
    <3>3. OnPricedTooLow \/ OnPricedAsks => tasks' # {}
      BY DEF OnPricedTooLow, OnPricedAsks
    <3>4. Expire => tasks' # {}
      BY <1>1 DEF Expire
    <3>5. ~OnPricedSkips /\ ~Nudge /\ \A i \in DOMAIN offers : ~Alarm(i)
      BY <1>1 DEF OnPricedSkips, Nudge, Alarm
    <3> QED BY <2>2, <3>1, <3>2, <3>3, <3>4, <3>5 DEF Job, OnPriced
  <2>3. CASE Person
    <3>1. ASSUME NEW step, NEW r, PresentOffer(step, r) PROVE tasks' # {}
      BY <1>1, <3>1, RefusalIsRaised DEF PresentOffer, Present
    <3>2. ASSUME NEW r, PriceByHand(r) PROVE tasks' # {}
      BY <1>1, <3>2, RefusalIsRaised DEF PriceByHand, Present
    <3>3. RecordChecks => tasks' # {}
      BY <1>1 DEF RecordChecks
    <3>4. ASSUME NEW v \in Worth, NEW verified, NEW owing, Revalue(v, verified, owing)
          PROVE  tasks' # {}
      BY <1>1, <3>4 DEF Revalue, Valuation
    <3>5. /\ \A outcome \in Outcomes : ~OfferOutcome(outcome)
          /\ \A t \in tasks, back \in BOOLEAN : ~Resolve(t, back)
          /\ ~AddFact /\ \A i \in DOMAIN offers : ~ClaimHandoff(i)
      BY <1>1 DEF OfferOutcome, Resolve, AddFact, ClaimHandoff
    <3> QED BY <2>3, <3>1, <3>2, <3>3, <3>4, <3>5 DEF Person
  <2>4. ~(\E intent \in Replies : Say(intent)) /\ ~Lapse /\ ~UNCHANGED vars
    BY <1>1 DEF Say, Lapse, vars
  <2> QED BY <1>1, <2>1, <2>2, <2>3, <2>4 DEF Next
<1> QED BY <1>1, PTL DEF Spec, EscalationIsOpen
=============================================================================
