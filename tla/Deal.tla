-------------------------------- MODULE Deal --------------------------------
(***************************************************************************)
(* The deal on one lead, from discovery to handoff: the conversation turn, *)
(* the offers it carries, the valuation and expiry jobs, and the people at *)
(* the console (conversation/service.py, conversation/state.py,            *)
(* conversation/transitions.py, valuation/service.py, api/admin.py).       *)
(*                                                                         *)
(* Every database transaction is one action.  What the conversation knows  *)
(* about the car is one boolean, what it says is whether it got out, and   *)
(* the seller's words are the intent the extractor reads in them.  The     *)
(* lead has been contacted and has answered, and the registry checks are   *)
(* in, before the first state.                                             *)
(***************************************************************************)
EXTENDS Naturals, Sequences, SequencesExt

CONSTANTS
    AutoPresent,  \* ACQBOT_AUTO_PRESENT_OFFER
    Manual,       \* a person prices every car: no ladder
    Replies,      \* the intents the seller may express
    Staff,        \* the operations people use at the console
    MaxOffers,    \* bound: offers per lead
    MaxTries      \* max_attempts of an inbound_message job

Intents    == {"stop", "person", "accept", "reject", "counter", "price", "talk"}
Operations == {"present", "price", "outcome", "resolve", "fact", "checks", "revalue", "claim"}

ASSUME DealAssumption ==
    /\ AutoPresent \in BOOLEAN /\ Manual \in BOOLEAN
    /\ Replies \subseteq Intents /\ Staff \subseteq Operations
    /\ MaxOffers \in Nat \ {0, 1} /\ MaxTries \in Nat \ {0}

VARIABLES
    state,     \* leads.state
    clear,     \* discovery complete, no unacknowledged contradiction
    valued,    \* the latest VERIFIED valuation: none, worth an offer, or below the minimum
    offers,    \* the offers rows, in the order of presented_at
    late,      \* now() is past expires_at of the newest offer
    tasks,     \* open escalation rows, by what closes them
    jobs,      \* the value_lead and on_priced jobs that are queued
    inbox,     \* the inbound_message job that is queued
    lost,      \* an inbound_message job is dead and its message unrecorded
    lastWord,  \* who sent the last message
    contact    \* whether the seller said STOP, and was written to afterwards

vars == <<state, clear, valued, offers, late, tasks, jobs, inbox, lost, lastWord, contact>>

LeadStates == {"ENGAGED", "DISCOVERY", "VERIFICATION", "PRICED", "OFFER_MADE", "NEGOTIATING",
               "ACCEPTED", "HANDOFF", "REJECTED", "ARCHIVED", "STALLED", "HUMAN"}
Sticky     == {"ACCEPTED", "HANDOFF", "REJECTED", "ARCHIVED", "STALLED", "HUMAN"}
Silent     == {"ACCEPTED", "HANDOFF", "REJECTED", "ARCHIVED"}
Closed     == {"HANDOFF", "REJECTED", "ARCHIVED"}
WaitingOn  == {"ENGAGED", "DISCOVERY", "OFFER_MADE", "NEGOTIATING"}
PriceStates == {"PRICED", "OFFER_MADE", "NEGOTIATING", "ACCEPTED", "HANDOFF"}

Rungs    == <<"opening", "step_1", "step_2">>    \* LADDER_ORDER
Steps    == Range(Rungs) \cup {"floor", "human"}
Outcomes == {"accepted", "rejected", "expired", "superseded"}

\* "present" and "offer" are the two kinds of task that presenting an offer
\* resolves; "other" stands for every other reason.
Tasks == {"present", "offer", "other"}

Packets   == {"none", "unclaimed", "alarmed", "claimed"}
OfferRows == [step : Steps, by : {"system", "human"}, outcome : Outcomes \cup {"open"},
              packet : Packets]

NoMessage == [intent |-> "none", tries |-> 0]

TypeOK ==
    /\ state \in LeadStates /\ clear \in BOOLEAN /\ valued \in {"no", "yes", "unviable"}
    /\ offers \in Seq(OfferRows) /\ Len(offers) <= MaxOffers
    /\ late \in BOOLEAN /\ tasks \in SUBSET Tasks /\ jobs \in SUBSET {"value_lead", "on_priced"}
    /\ inbox \in [intent : Intents \cup {"none"}, tries : 0 .. MaxTries]
    /\ lost \in BOOLEAN /\ lastWord \in {"us", "seller"}
    /\ contact \in {"open", "stopped", "breached"}

Init ==
    /\ state = "DISCOVERY" /\ clear = FALSE /\ valued = "no"
    /\ offers = <<>> /\ late = FALSE /\ tasks = {} /\ jobs = {}
    /\ inbox = NoMessage /\ lost = FALSE /\ lastWord = "us" /\ contact = "open"

-----------------------------------------------------------------------------
(* compute_stage, on a lead that has answered since its newest offer.      *)
Stage(s, c) ==
    IF s \in Sticky THEN s
    ELSE IF ~c THEN "DISCOVERY"
    ELSE IF valued = "no" THEN "VERIFICATION"
    ELSE IF offers = <<>> THEN "PRICED"
    ELSE "NEGOTIATING"

Newest == offers[Len(offers)]

OpenAlways == offers # <<>>    \* mutant: no write-once trigger
Open       == offers # <<>> /\ Newest.outcome = "open"

SettleNothing(outcome) == offers    \* mutant: the earlier offer is left open
Settle(outcome) == IF Open THEN [offers EXCEPT ![Len(offers)].outcome = outcome] ELSE offers

\* _send and _deliver: the message goes out; or the window is closed and it
\* becomes a task; or the model, the gate or the channel refuses it and the
\* lead is escalated.  Inside a turn the window is open: the seller just wrote.
Results == {"sent", "window_closed", "refused"}
InTurn  == {"sent", "refused"}

AfterEscalated(r, s) == IF r = "refused" THEN "ESCALATED" ELSE s    \* mutant: not routed on
AfterClosed(r, s) == IF state = "HANDOFF" THEN state ELSE s         \* mutant: closed is closed
RaisedNever(r) == {}                                                \* mutant: no escalation row

After(r, s)  == IF r = "refused" THEN "HUMAN" ELSE s
Raised(r)    == IF r = "sent" THEN {} ELSE {"other"}
Word(r, who) == IF r = "sent" THEN "us" ELSE who

\* A message the seller did not just ask for.
Unsolicited(r) ==
    /\ contact' = IF r = "sent" /\ contact = "stopped" THEN "breached" ELSE contact
    /\ lastWord' = Word(r, lastWord)

\* The bound on offers, keeping one for the counter that is on its way.
Room == Len(offers) + (IF inbox.intent = "counter" THEN 1 ELSE 0) < MaxOffers

\* The body present_offer and record_human_offer share.
Present(step, by, r) ==
    /\ offers' = Append(Settle("superseded"),
                        [step |-> step, by |-> by, outcome |-> "open", packet |-> "none"])
    /\ late' = FALSE
    /\ state' = After(r, "OFFER_MADE")
    /\ tasks' = (tasks \ {"present", "offer"}) \cup Raised(r)

-----------------------------------------------------------------------------
(* The seller's messages: a webhook queues a job, the worker runs the turn. *)

Say(intent) ==
    /\ inbox = NoMessage /\ (intent = "counter" => Room)
    /\ inbox' = [intent |-> intent, tries |-> 0]
    /\ UNCHANGED <<state, clear, valued, offers, late, tasks, jobs, lost, lastWord, contact>>

Persisted == inbox' = NoMessage /\ UNCHANGED <<valued, lost>>

Owned   == state \in Silent \cup {"HUMAN"}
Revived == IF state = "STALLED" THEN "ENGAGED" ELSE state

\* The lead is closed or a person's: the message is recorded, nothing is read.
TurnIgnored ==
    /\ inbox # NoMessage /\ Owned
    /\ Persisted /\ lastWord' = "seller"
    /\ contact' = IF inbox.intent = "stop" /\ contact = "open" THEN "stopped" ELSE contact
    /\ UNCHANGED <<state, clear, offers, late, tasks, jobs>>

TurnStop ==
    /\ inbox.intent = "stop" /\ ~Owned
    /\ Persisted
    /\ \E r \in InTurn : tasks' = tasks \cup Raised(r) /\ lastWord' = Word(r, "seller")
    /\ state' = "ARCHIVED"
    /\ contact' = IF contact = "open" THEN "stopped" ELSE contact
    /\ UNCHANGED <<clear, offers, late, jobs>>

\* "Are you a bot?" is answered first; the other screens escalate unanswered.
TurnPerson ==
    /\ inbox.intent = "person" /\ ~Owned
    /\ Persisted /\ lastWord' \in {"us", "seller"}
    /\ state' = "HUMAN" /\ tasks' = tasks \cup {"other"}
    /\ UNCHANGED <<clear, offers, late, jobs, contact>>

\* The stage before the message's facts are recorded is OFFER_MADE or
\* NEGOTIATING: the message is read as an answer to the newest offer.
OnOffer(intent) ==
    /\ inbox.intent = intent /\ ~Owned
    /\ Stage(Revived, clear) = "NEGOTIATING"

Learn == clear' \in BOOLEAN /\ UNCHANGED contact

TurnAccept ==
    /\ OnOffer("accept") /\ Open
    /\ Persisted /\ Learn
    /\ offers' = [offers EXCEPT ![Len(offers)].outcome = "accepted",
                                ![Len(offers)].packet = "unclaimed"]
    /\ state' = "HANDOFF" /\ tasks' = tasks \cup {"other"}
    /\ \E r \in InTurn : lastWord' = Word(r, "seller")
    /\ UNCHANGED <<late, jobs>>

TurnReject ==
    /\ OnOffer("reject") /\ Open
    /\ Persisted /\ Learn
    /\ offers' = Settle("rejected")
    /\ state' = "ARCHIVED"
    /\ \E r \in InTurn : tasks' = tasks \cup Raised(r) /\ lastWord' = Word(r, "seller")
    /\ UNCHANGED <<late, jobs>>

\* The newest offer already has an outcome: the write-once trigger refuses the
\* update, the turn is rolled back, and the job is retried until it is dead.
TurnRefused ==
    /\ OnOffer("accept") \/ OnOffer("reject")
    /\ ~Open
    /\ IF inbox.tries + 1 < MaxTries
       THEN inbox' = [inbox EXCEPT !.tries = @ + 1] /\ UNCHANGED lost
       ELSE inbox' = NoMessage /\ lost' = TRUE
    /\ UNCHANGED <<state, clear, valued, offers, late, tasks, jobs, lastWord, contact>>

\* A counter a person has to answer.
TurnAsk ==
    /\ OnOffer("counter") /\ (Manual \/ ~AutoPresent)
    /\ Persisted /\ Learn /\ lastWord' = "seller"
    /\ state' = "HUMAN" /\ tasks' = tasks \cup {"offer"}
    /\ UNCHANGED <<offers, late, jobs>>

\* Mutant: a rung is skipped.
NextRungButOne(step) ==
    LET above == {i \in 1 .. Len(Rungs) : i > 2 /\ Rungs[i - 2] = step}
    IN  {Rungs[i] : i \in above}

NextRung(step) ==
    LET above == {i \in 1 .. Len(Rungs) : i > 1 /\ Rungs[i - 1] = step}
    IN  {Rungs[i] : i \in above}

TurnConcede(r) ==
    /\ OnOffer("counter") /\ AutoPresent /\ ~Manual
    /\ \E step \in NextRung(Newest.step) : Present(step, "system", r)
    /\ lastWord' = Word(r, "seller")
    /\ Persisted /\ Learn
    /\ UNCHANGED jobs

\* The ladder is spent: say so, then ask a person for the ceiling.
TurnCeiling(r) ==
    /\ OnOffer("counter") /\ AutoPresent /\ ~Manual
    /\ NextRung(Newest.step) = {}
    /\ Persisted /\ Learn
    /\ tasks' = tasks \cup {"offer"} \cup Raised(r) /\ lastWord' = Word(r, "seller")
    /\ state' = "HUMAN"
    /\ UNCHANGED <<offers, late, jobs>>

\* The newest offer's figure is repeated, whatever its outcome; the gate
\* refuses any figure while the lead's stored state is not a price state.
TurnRestate(r) ==
    /\ OnOffer("price")
    /\ Persisted /\ Learn
    /\ Revived \notin PriceStates => r = "refused"
    /\ state' = After(r, Revived)
    /\ tasks' = tasks \cup Raised(r)
    /\ lastWord' = Word(r, "seller")
    /\ UNCHANGED <<offers, late, jobs>>

\* _plan: there is something to say while facts are missing, and once (or not
\* again) while the valuation is awaited; in the later stages there is nothing.
Reply(stage) == CASE stage = "DISCOVERY" -> InTurn
                  [] stage = "VERIFICATION" -> InTurn \cup {"nothing"}
                  [] OTHER -> {"nothing"}

\* _after_stage: a lead that is complete and not yet priced is queued for
\* valuation, unless the model flagged the reply.
AfterStage(stage, r) ==
    \/ stage = "VERIFICATION" /\ jobs' = jobs \cup {"value_lead"}
    \/ (stage # "VERIFICATION" \/ r = "refused") /\ UNCHANGED jobs

\* Anything else: the stage is recomputed from the facts and the next question
\* goes out; or the seller has been going round in circles.
TurnTalk ==
    /\ inbox.intent \in Intents \ {"stop", "person"} /\ ~Owned
    /\ \A intent \in Intents \ {"talk"} : ~OnOffer(intent)
    /\ Persisted /\ Learn
    /\ LET stage == Stage(Revived, clear') IN
         \/ \E r \in Reply(stage) :
              /\ state' = After(r, stage)
              /\ tasks' = tasks \cup (IF r = "refused" THEN {"other"} ELSE {})
              /\ lastWord' = Word(r, "seller")
              /\ AfterStage(stage, r)
         \/ /\ stage = Stage(Revived, clear) /\ clear' = clear
            /\ state' = "HUMAN" /\ tasks' = tasks \cup {"other"} /\ lastWord' = "seller"
            /\ UNCHANGED jobs
    /\ UNCHANGED <<offers, late>>

-----------------------------------------------------------------------------
(* Jobs.                                                                   *)

Worth == {"yes", "unviable"}

\* compute_valuation: a car worth less than the minimum offer, or owing more
\* than it is worth, goes to a person, whatever state the lead is in.
Valuation(v, verified, owing) ==
    /\ Manual => v = "yes" /\ ~owing
    /\ valued' = IF verified THEN v ELSE valued
    /\ state' = IF v = "unviable" \/ owing THEN "HUMAN" ELSE state

Value(v, verified, owing) ==
    LET escalated == v = "unviable" \/ owing IN
    /\ "value_lead" \in jobs
    /\ Valuation(v, verified, owing)
    /\ tasks' = tasks \cup (IF escalated \/ ~verified THEN {"other"} ELSE {})
    /\ jobs' = (jobs \ {"value_lead"})
               \cup (IF verified /\ ~escalated THEN {"on_priced"} ELSE {})
    /\ UNCHANGED <<clear, offers, late, inbox, lost, lastWord, contact>>

\* Mutant: the stage is recomputed for a lead that is closed or a person's.
OnPricedAnyState == clear /\ valued # "no" /\ offers = <<>>

OnPricedStage == Stage(state, clear) = "PRICED"

\* The lead moved on, or a person has it: nothing to do.
OnPricedSkips ==
    /\ "on_priced" \in jobs /\ ~OnPricedStage
    /\ jobs' = jobs \ {"on_priced"}
    /\ UNCHANGED <<state, clear, valued, offers, late, tasks, inbox, lost, lastWord, contact>>

OnPricedOffers(r) ==
    /\ "on_priced" \in jobs /\ OnPricedStage
    /\ AutoPresent /\ ~Manual /\ valued = "yes"
    /\ jobs' = jobs \ {"on_priced"}
    /\ Present("opening", "system", r) /\ Unsolicited(r)
    /\ UNCHANGED <<clear, valued, inbox, lost>>

OnPricedTooLow ==
    /\ "on_priced" \in jobs /\ OnPricedStage
    /\ AutoPresent /\ ~Manual /\ valued = "unviable"
    /\ jobs' = jobs \ {"on_priced"}
    /\ state' = "HUMAN" /\ tasks' = tasks \cup {"other"}
    /\ UNCHANGED <<clear, valued, offers, late, inbox, lost, lastWord, contact>>

OnPricedAsks ==
    /\ "on_priced" \in jobs /\ OnPricedStage
    /\ Manual \/ ~AutoPresent
    /\ jobs' = jobs \ {"on_priced"}
    /\ \E r \in Results : /\ state' = After(r, "PRICED")
                          /\ tasks' = tasks \cup {"present"} \cup Raised(r)
                          /\ Unsolicited(r)
    /\ UNCHANGED <<clear, valued, offers, late, inbox, lost>>

OnPriced == \/ OnPricedSkips \/ OnPricedTooLow \/ OnPricedAsks
            \/ \E r \in Results : OnPricedOffers(r)

\* now() passes expires_at.
Lapse ==
    /\ offers # <<>> /\ ~late
    /\ late' = TRUE
    /\ UNCHANGED <<state, clear, valued, offers, tasks, jobs, inbox, lost, lastWord, contact>>

ExpiresInPlace == Open /\ late /\ state \in {"OFFER_MADE", "NEGOTIATING"}    \* mutant
Expires        == Open /\ late

\* The expire_offer job; the seller is told unless the lead has moved on.
Expire ==
    /\ Expires
    /\ offers' = Settle("expired")
    /\ \/ /\ state \in {"OFFER_MADE", "NEGOTIATING"}
          /\ \E r \in Results : /\ state' = After(r, state)
                                /\ tasks' = tasks \cup {"offer"} \cup Raised(r)
                                /\ Unsolicited(r)
       \/ /\ state \notin {"OFFER_MADE", "NEGOTIATING"}
          /\ UNCHANGED <<state, tasks, lastWord, contact>>
    /\ UNCHANGED <<clear, valued, late, jobs, inbox, lost>>

\* The nudge job that a message in a waiting state left queued, on a seller who
\* has not answered; out of nudges, or of ways to send one, the lead is stalled.
Nudge ==
    /\ state \in WaitingOn /\ lastWord = "us"
    /\ \E r \in Results : \/ /\ r = "sent" /\ UNCHANGED <<state, tasks>> /\ Unsolicited(r)
                          \/ /\ state' = "STALLED" /\ tasks' = tasks \cup {"other"}
                             /\ Unsolicited(r)
    /\ UNCHANGED <<clear, valued, offers, late, jobs, inbox, lost>>

\* The handoff_sla job finds the packet unclaimed.
Alarm(i) ==
    /\ offers[i].packet = "unclaimed"
    /\ offers' = [offers EXCEPT ![i].packet = "alarmed"]
    /\ tasks' = tasks \cup {"other"}
    /\ UNCHANGED <<state, clear, valued, late, jobs, inbox, lost, lastWord, contact>>

-----------------------------------------------------------------------------
(* People at the console.                                                  *)

PresentOffer(step, r) ==
    /\ "present" \in Staff
    /\ state \in {"HUMAN", "PRICED", "OFFER_MADE", "NEGOTIATING"}
    /\ valued # "no" /\ ~Manual /\ Room
    /\ Present(step, "human", r) /\ Unsolicited(r)
    /\ UNCHANGED <<clear, valued, jobs, inbox, lost>>

\* step=human: record_human_offer does not look at the state.
PriceByHand(r) ==
    /\ "price" \in Staff
    /\ valued # "no" /\ Room
    /\ Present("human", "human", r) /\ Unsolicited(r)
    /\ UNCHANGED <<clear, valued, jobs, inbox, lost>>

OfferOutcome(outcome) ==
    /\ "outcome" \in Staff /\ Open
    /\ offers' = Settle(outcome)
    /\ state' = CASE outcome = "accepted" -> "ACCEPTED"
                  [] outcome = "rejected" -> "REJECTED"
                  [] OTHER -> state
    /\ UNCHANGED <<clear, valued, late, tasks, jobs, inbox, lost, lastWord, contact>>

\* Several rows may be open for reasons of one kind.
Resolve(t, back) ==
    /\ "resolve" \in Staff /\ t \in tasks
    /\ tasks' \in {tasks, tasks \ {t}}
    /\ state' = IF back /\ state = "HUMAN" /\ tasks' = {} THEN "ENGAGED" ELSE state
    /\ UNCHANGED <<clear, valued, offers, late, jobs, inbox, lost, lastWord, contact>>

AddFact ==
    /\ "fact" \in Staff
    /\ clear' \in BOOLEAN
    /\ \/ /\ state \in {"VERIFICATION", "PRICED", "DISCOVERY"}
          /\ jobs' = jobs \cup {"value_lead"} /\ tasks' \in {tasks, tasks \ {"other"}}
       \/ /\ state \notin {"VERIFICATION", "PRICED", "DISCOVERY"}
          /\ UNCHANGED <<jobs, tasks>>
    /\ UNCHANGED <<state, valued, offers, late, inbox, lost, lastWord, contact>>

\* The certificate clears the car, or shows it written off or stolen.
RecordChecks ==
    /\ "checks" \in Staff /\ state \notin Closed
    /\ clear' \in BOOLEAN
    /\ \/ /\ tasks' \in {tasks, tasks \ {"other"}} /\ UNCHANGED state
          /\ jobs' = IF state \in {"VERIFICATION", "PRICED"} THEN jobs \cup {"value_lead"} ELSE jobs
       \/ /\ state' = "HUMAN" /\ tasks' = tasks \cup {"other"} /\ UNCHANGED jobs
    /\ UNCHANGED <<valued, offers, late, inbox, lost, lastWord, contact>>

Revalue(v, verified, owing) ==
    /\ "revalue" \in Staff
    /\ Valuation(v, verified, owing)
    /\ tasks' = tasks \cup (IF v = "unviable" \/ owing THEN {"other"} ELSE {})
    /\ UNCHANGED <<clear, offers, late, jobs, inbox, lost, lastWord, contact>>

ClaimHandoff(i) ==
    /\ "claim" \in Staff /\ offers[i].packet \in {"unclaimed", "alarmed"}
    /\ offers' = [offers EXCEPT ![i].packet = "claimed"]
    /\ tasks' \in {tasks, tasks \ {"other"}}
    /\ UNCHANGED <<state, clear, valued, late, jobs, inbox, lost, lastWord, contact>>

-----------------------------------------------------------------------------
Turn == \/ TurnIgnored \/ TurnStop \/ TurnPerson \/ TurnAccept \/ TurnReject \/ TurnRefused
        \/ TurnAsk \/ TurnTalk
        \/ \E r \in InTurn : TurnConcede(r) \/ TurnCeiling(r) \/ TurnRestate(r)

ValueLead == \E v \in Worth, verified, owing \in BOOLEAN : Value(v, verified, owing)

Job == ValueLead \/ OnPriced \/ Expire \/ Nudge \/ \E i \in DOMAIN offers : Alarm(i)

Person ==
    \/ \E step \in Range(Rungs) \cup {"floor"}, r \in Results : PresentOffer(step, r)
    \/ \E r \in Results : PriceByHand(r)
    \/ \E outcome \in Outcomes : OfferOutcome(outcome)
    \/ \E t \in tasks, back \in BOOLEAN : Resolve(t, back)
    \/ AddFact \/ RecordChecks
    \/ \E v \in Worth, verified, owing \in BOOLEAN : Revalue(v, verified, owing)
    \/ \E i \in DOMAIN offers : ClaimHandoff(i)

Next == (\E intent \in Replies : Say(intent)) \/ Turn \/ Job \/ Lapse \/ Person

Spec == Init /\ [][Next]_vars

\* The queue settles every job it holds; time passes.
FairSpec == Spec /\ WF_vars(Turn) /\ WF_vars(ValueLead) /\ WF_vars(OnPriced)
                 /\ WF_vars(Lapse) /\ WF_vars(Expire)

-----------------------------------------------------------------------------
(* PROPERTIES *)

\* Only the newest offer can still be accepted: every way of making an offer
\* settles the one before it.
OneOpenOffer == \A i \in DOMAIN offers : offers[i].outcome = "open" => i = Len(offers)

RowsKept ==
    \A i \in DOMAIN offers :
        /\ i \in DOMAIN offers' /\ offers'[i].step = offers[i].step
        /\ offers[i].outcome # "open" => offers'[i].outcome = offers[i].outcome

\* An offer is never withdrawn from the record or altered, and its outcome is
\* written once, whoever races: the seller, the expiry job, a person.
OutcomeWriteOnce == [][RowsKept]_vars

\* What the lead's state says was agreed is what the newest offer says, and a
\* lead in HANDOFF has the packet for that offer: a later offer, a valuation or
\* an expiry never leaves the two apart.
DealMatchesOffer ==
    /\ state \in {"ACCEPTED", "HANDOFF"} => offers # <<>> /\ Newest.outcome = "accepted"
    /\ state = "HANDOFF" => Newest.packet # "none"
    /\ state = "REJECTED" => offers # <<>> /\ Newest.outcome = "rejected"

\* Read back from the record, automation opens at the bottom of the ladder and
\* climbs one rung at a time from the offer before, whoever made that one.
LadderClimbs ==
    \A i \in DOMAIN offers :
        offers[i].by = "system" =>
            IF i = 1 THEN offers[i].step = Rungs[1]
            ELSE \E k \in 2 .. Len(Rungs) :
                     offers[i - 1].step = Rungs[k - 1] /\ offers[i].step = Rungs[k]

NewOffer == Len(offers') > Len(offers)
BySystem == NewOffer /\ offers'[Len(offers')].by = "system"

\* Automation makes no offer on a lead that is closed or a person's, although
\* the on_priced job was queued before it became so.
NoOfferBehindAPerson == [][BySystem => ~Owned]_vars

\* A lead handed to a person always comes with an open task that says why, even
\* when the same transaction goes on to resolve the tasks an offer answers.
EscalationIsOpen == [][state' = "HUMAN" /\ state # "HUMAN" => tasks' # {}]_vars

\* Every offer gets an outcome: the deadline is real even when nobody answers.
OfferSettles ==
    \A i \in 1 .. MaxOffers :
        (i \in DOMAIN offers /\ offers[i].outcome = "open")
            ~> (i \in DOMAIN offers /\ offers[i].outcome # "open")

\* What the documents say and the code does not do (each is refuted by a run).

\* service.py:684 "persist - idempotently, so a retried job ... does not record
\* the seller's message twice"; README:81 "A disputed transaction can be
\* reconstructed exactly as it happened": no reply is dropped unrecorded.
RepliesRecorded == ~lost

\* templates.py:292 "I won't message again"; DECISIONS.md:74 "STOP ... run on
\* every message": after STOP the seller gets no message they did not ask for.
StopHonoured == contact # "breached"
=============================================================================
