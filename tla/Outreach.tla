------------------------------ MODULE Outreach ------------------------------
(***************************************************************************)
(* The silences of one conversation (conversation/service.py): the opening *)
(* has been sent, the seller may answer or not, and the nudge job chases a *)
(* quiet seller, carries the conversation from Messenger to SMS when the   *)
(* 24-hour window shuts, and gives up in the end.  What is said and how an *)
(* offer is negotiated is in module Deal; this module keeps of it only     *)
(* whose turn it is and whether an offer is open.                          *)
(*                                                                         *)
(* A time is a minute, counted from the present one, and an instant of it: *)
(* cadence, window and expiry are whole hours, but the dedupe key of a     *)
(* nudge job is its run_at cut to the minute, so that of two jobs of one   *)
(* minute there is only the first.                                         *)
(***************************************************************************)
EXTENDS Integers, Sequences, FiniteSets

CONSTANTS
    Minute,      \* the instants of a minute
    Schedule,    \* nudge_schedule: silence before each nudge, in minutes
    Window,      \* MESSENGER_WINDOW_HOURS, in minutes
    Expiry,      \* offer_expiry_hours, in minutes
    SmsWorks,    \* Twilio is configured and sms_migration is on
    Late,        \* bound: how many minutes after run_at the worker takes a nudge job
    Longest      \* bound: how far a silence is counted, every entry of Schedule being shorter

ASSUME OutreachAssumption ==
    /\ Minute \in Nat \ {0}
    /\ Schedule \in Seq(Nat \ {0}) /\ Schedule # <<>>
    /\ Window \in Nat \ {0} /\ Expiry \in Nat \ {0} /\ Late \in Nat
    /\ SmsWorks \in BOOLEAN
    /\ Longest \in Nat /\ \A i \in DOMAIN Schedule : Schedule[i] < Longest

VARIABLES
    stage,      \* leads.state
    offer,      \* the newest offer: none, open, or settled
    expiry,     \* time until an open offer expires
    phone,      \* seller_phone is on file
    nudges,     \* _nudges_sent
    inbox,      \* the channels with an inbound_message job queued
    window,     \* how long Messenger still takes messages, by last_inbound_at
    threads,    \* the channels the lead has a thread on
    heard,      \* the channels the seller wrote on since our last message
    clock,      \* the instant of the present minute
    last,       \* when our last message left, as far back as it matters
    jobs,       \* the run_at of the nudge jobs queued
    said,       \* history: the last thing we wrote, or failed to
    crowded     \* history: that it left in the minute of the one before, with a
                \* nudge job queued

deal == <<offer, expiry>>
wire == <<threads, heard, last, jobs, said, crowded>>
vars == <<stage, deal, phone, nudges, inbox, window, clock, wire>>

-----------------------------------------------------------------------------
Channels == {"messenger", "sms"}

\* contacted is CONTACTED; talking is ENGAGED and DISCOVERY; ours is
\* VERIFICATION and PRICED; offered is OFFER_MADE and NEGOTIATING; person is
\* HUMAN; over is every state a lead ends in.
Stages  == {"contacted", "talking", "ours", "offered", "stalled", "person", "over"}
Waiting == {"contacted", "talking", "offered"}    \* WAITING_STATES
Silent  == {"person", "over"}                     \* HUMAN and SILENT_STATES

Kinds == {"none", "opening", "message", "notice", "nudge", "goodbye", "undelivered"}

Instants == 0 .. Minute - 1

At(minutes, instant) == [in |-> minutes, at |-> instant]
Times(minutes)       == [in : minutes, at : Instants]

TypeOK ==
    /\ stage \in Stages /\ offer \in {"none", "open", "settled"} /\ expiry \in 0 .. Expiry
    /\ phone \in BOOLEAN /\ nudges \in 0 .. Len(Schedule)
    /\ inbox \subseteq Channels /\ window \in 0 .. Window
    /\ threads \subseteq Channels /\ threads # {} /\ heard \subseteq Channels
    /\ clock \in Instants /\ last \in Times((-Longest) .. 0)
    /\ jobs \subseteq Times((-Late) .. Longest)
    /\ said \in Kinds /\ crowded \in BOOLEAN

\* The opening left a moment ago: on Messenger, where the seller followed the
\* link; as a first text; or by SMS after Messenger's window had shut.  It is
\* sent with the stage NEW, in which no seller is chased.
Init ==
    /\ stage = "contacted" /\ said = "opening" /\ crowded = FALSE
    /\ clock = 0 /\ last = At(0, clock)
    /\ offer = "none" /\ expiry = 0 /\ nudges = 0
    /\ heard = {} /\ inbox = {} /\ jobs = {}
    /\ threads \in {x \in SUBSET Channels : x # {}}
    /\ IF "sms" \in threads THEN phone = TRUE /\ window = 0
                            ELSE phone \in BOOLEAN /\ window \in 1 .. Window

-----------------------------------------------------------------------------
(* Sending.                                                                *)

Newest == IF "sms" \in threads THEN "sms" ELSE "messenger"    \* _conversation_for

\* What carries a message on the newest thread; _migrate_to_sms takes over when
\* the window has shut.
Carrier ==
    CASE "sms" \in threads \/ window > 0 -> Newest
      [] phone /\ SmsWorks               -> "sms"
      [] OTHER                           -> "none"

\* _schedule_nudge: the key is run_at cut to the minute, and enqueue does nothing
\* while a job with that key is queued or running.
Queued(t, queued) == IF \E j \in queued : j.in = t.in THEN queued ELSE queued \cup {t}

In(minutes) == At(minutes, clock)

\* _send on a channel, given the stage the message is about and the nudge jobs
\* there are: a message in a waiting stage that is no nudge is followed by one.
Leaves(ch, kind, about, queued) ==
    /\ ch # "none"
    /\ said' = IF kind = "message" /\ about \notin Waiting THEN "notice" ELSE kind
    /\ threads' = threads \cup {ch} /\ heard' = {} /\ last' = In(0)
    /\ jobs' = IF kind = "message" /\ about \in Waiting THEN Queued(In(Schedule[1]), queued) ELSE queued
    /\ crowded' = (last.in = 0 /\ jobs # {})

\* The model, the gate or the channel refuses it, which escalates, or there is no
\* channel, which opens a send_window_closed task.
Fails(ch, had, queued) ==
    /\ said' = "undelivered"
    /\ threads' \in {threads, threads \cup ({ch} \cap Channels)}
    /\ heard' = had /\ jobs' = queued /\ UNCHANGED <<last, crowded>>

\* The handler writes nothing.
Keeps(had, queued) == heard' = had /\ jobs' = queued /\ UNCHANGED <<said, threads, last, crowded>>

\* The caller takes the lead to stage then, unless the message was refused.
Writes(ch, had, about, then) ==
    \/ Leaves(ch, "message", about, jobs) /\ stage' = then
    \/ Fails(ch, had, jobs) /\ stage' = IF ch = "none" THEN then ELSE "person"

-----------------------------------------------------------------------------
(* Time.                                                                   *)

Less(n) == IF n > 0 THEN n - 1 ELSE 0

\* A time n minutes later; and that it has come.
Later(t, n) == [t EXCEPT !.in = @ + n]
Come(t)     == t.in < 0 \/ (t.in = 0 /\ t.at <= clock)

Tick ==
    /\ IF clock < Minute - 1
       THEN clock' = clock + 1 /\ UNCHANGED <<jobs, last, window, expiry>>
       ELSE /\ \A j \in jobs : j.in > -Late
            /\ clock' = 0 /\ jobs' = {Later(j, -1) : j \in jobs}
            /\ last' = IF last.in > -Longest THEN Later(last, -1) ELSE last
            /\ window' = Less(window) /\ expiry' = Less(expiry)
    /\ UNCHANGED <<stage, offer, phone, nudges, inbox, threads, heard, said, crowded>>

-----------------------------------------------------------------------------
(* The seller: a webhook queues the message and a turn of the conversation *)
(* answers it, on the channel it came by.                                  *)

Arrive(ch) ==
    /\ ch \in threads
    /\ inbox' = inbox \cup {ch}
    /\ UNCHANGED <<stage, deal, phone, nudges, window, clock, wire>>

\* What every turn does first: last_inbound_at is the time of the turn.
Received(ch) ==
    /\ ch \in inbox /\ inbox' = inbox \ {ch}
    /\ window' = IF ch = "messenger" THEN Window ELSE window
    /\ UNCHANGED <<nudges, clock>>

Had(ch) == heard \cup {ch}
Live    == IF stage = "stalled" THEN "talking" ELSE stage
Learns  == phone' \in {phone, TRUE}

TurnIgnored(ch) ==
    /\ Received(ch) /\ stage \in Silent
    /\ Keeps(Had(ch), jobs)
    /\ UNCHANGED <<stage, deal, phone>>

Heeded(ch) == Received(ch) /\ stage \notin Silent

\* The opt-out is confirmed as any message is, nudge job included.
TurnStop(ch) ==
    /\ Heeded(ch) /\ stage' = "over"
    /\ (Leaves(ch, "message", Live, jobs) \/ Fails(ch, Had(ch), jobs))
    /\ UNCHANGED <<deal, phone>>

\* A question for a person, a flag, no progress, a counter, or a model that
\* flagged the turn: to a person, with or without a word to the seller.
TurnPerson(ch) ==
    /\ Heeded(ch) /\ Learns /\ stage' = "person"
    /\ \/ Keeps(Had(ch), jobs)
       \/ Leaves(ch, "message", Live, jobs)
       \/ offer # "none" /\ Leaves(ch, "message", "offered", jobs)
       \/ Fails(ch, Had(ch), jobs)
    /\ UNCHANGED deal

TurnAsk(ch) ==
    /\ Heeded(ch) /\ Learns
    /\ Writes(ch, Had(ch), "talking", "talking")
    /\ UNCHANGED deal

\* Everything is answered: the checks and the valuation are ours to do.
TurnWait(ch) ==
    /\ Heeded(ch) /\ Learns
    /\ (Writes(ch, Had(ch), "ours", "ours") \/ (Keeps(Had(ch), jobs) /\ stage' = "ours"))
    /\ UNCHANGED deal

\* Accepted or rejected: the lead moves on even if the answer cannot leave.
TurnSettle(ch) ==
    /\ Heeded(ch) /\ Learns /\ offer # "none"
    /\ offer' = "settled" /\ expiry' = 0 /\ stage' = "over"
    /\ (Leaves(ch, "message", "over", jobs) \/ Fails(ch, Had(ch), jobs))

\* A concession is a new offer.
TurnConcede(ch) ==
    /\ Heeded(ch) /\ Learns /\ offer # "none"
    /\ offer' = "open" /\ expiry' = Expiry
    /\ Writes(ch, Had(ch), "offered", "offered")

\* The offer is repeated to who asks for it, which the gate refuses while the
\* lead's stored state is not one of a price.
TurnRestate(ch) ==
    /\ Heeded(ch) /\ Learns /\ offer # "none"
    /\ Writes(ch, Had(ch), Live, Live)
    /\ Live \in {"contacted", "talking"} => stage' = "person"
    /\ UNCHANGED deal

\* What is no answer to the offer is recorded and gets none.
TurnUnread(ch) ==
    /\ Heeded(ch) /\ Learns /\ offer # "none"
    /\ Keeps(Had(ch), jobs) /\ stage' = "offered"
    /\ UNCHANGED deal

Turn(ch) == \/ TurnIgnored(ch) \/ TurnStop(ch) \/ TurnPerson(ch) \/ TurnAsk(ch) \/ TurnWait(ch)
            \/ TurnSettle(ch) \/ TurnConcede(ch) \/ TurnRestate(ch) \/ TurnUnread(ch)

-----------------------------------------------------------------------------
(* Our side: the valuation is released, an offer presented, the lead handed *)
(* to a person and back.                                                    *)

\* on_priced, when a person presents.
Release ==
    /\ stage \in {"talking", "ours"} /\ offer = "none"
    /\ Writes(Carrier, heard, "ours", "ours")
    /\ UNCHANGED <<deal, phone, nudges, inbox, window, clock>>

\* present_offer and record_human_offer; the second looks at no state.
Present ==
    /\ offer' = "open" /\ expiry' = Expiry
    /\ Writes(Carrier, heard, "offered", "offered")
    /\ UNCHANGED <<phone, nudges, inbox, window, clock>>

\* A person records what became of the offer elsewhere.
OfferOutcome ==
    /\ offer = "open" /\ offer' = "settled" /\ expiry' = 0
    /\ stage' \in {stage, "over"}
    /\ UNCHANGED <<phone, nudges, inbox, window, clock, wire>>

Escalated ==
    /\ stage' = "person"
    /\ UNCHANGED <<deal, phone, nudges, inbox, window, clock, wire>>

\* resolve_escalation with return_to_automation: nothing is said and no nudge
\* is queued.
Resolve ==
    /\ stage = "person" /\ stage' = "talking"
    /\ said' = "none"
    /\ UNCHANGED <<deal, phone, nudges, inbox, window, clock, threads, heard, last, jobs, crowded>>

\* Mutant: the lead's state is not looked at.
ToldAnyway   == TRUE
ToldOfLapse  == stage = "offered"

\* The expire_offer job.
Expire ==
    /\ offer = "open" /\ expiry = 0
    /\ offer' = "settled" /\ UNCHANGED expiry
    /\ IF ToldOfLapse THEN Writes(Carrier, heard, stage, stage) ELSE UNCHANGED <<stage, wire>>
    /\ UNCHANGED <<phone, nudges, inbox, window, clock>>

-----------------------------------------------------------------------------
(* The nudge job.                                                          *)

Gap(n) == Schedule[IF n < Len(Schedule) THEN n + 1 ELSE Len(Schedule)]

\* No silence is shorter than the one before: so in the code's 20, 24 and 72 hours.
Widening == \A i, j \in DOMAIN Schedule : i <= j => Schedule[i] <= Schedule[j]

Exhausted == nudges >= Len(Schedule)

Due(t)  == t \in jobs /\ Come(t)
Rest(t) == jobs \ {t}
Idle    == UNCHANGED <<deal, phone, nudges, inbox, window, clock>>

NudgeSkipped(t) ==
    /\ Due(t) /\ stage \notin Waiting
    /\ Keeps(heard, Rest(t)) /\ UNCHANGED stage /\ Idle

NudgeNotNeeded(t) ==
    /\ Due(t) /\ stage \in Waiting /\ Newest \in heard
    /\ Keeps(heard, Rest(t)) /\ UNCHANGED stage /\ Idle

Asked(t) == Due(t) /\ stage \in Waiting /\ Newest \notin heard

\* The clock is read off our last message, whenever the job comes.
NudgeTime == Later(last, Gap(nudges))

\* Mutants: the job that came too early is the last; so is the nudge itself.
NoAgain(t)  == Rest(t)
NoFollow(t) == Rest(t)

\* What the job queues is queued while it is running itself: it holds its own key.
Again(t)  == Queued(NudgeTime, jobs) \ {t}
Follow(t) == Queued(In(Gap(nudges + 1)), jobs) \ {t}

NudgeDeferred(t) ==
    /\ Asked(t) /\ ~Exhausted /\ ~Come(NudgeTime)
    /\ Keeps(heard, Again(t)) /\ UNCHANGED stage /\ Idle

Nudge(t) ==
    /\ Asked(t) /\ ~Exhausted /\ Come(NudgeTime)
    /\ Leaves(Carrier, "nudge", stage, Follow(t))
    /\ nudges' = nudges + 1
    /\ UNCHANGED <<stage, deal, phone, inbox, window, clock>>

\* _stall: no nudge is left, or one was due and could not leave.  It says so if
\* it ever nudged, and nothing that goes wrong keeps the lead from STALLED.
Stall(t) ==
    /\ Asked(t) /\ (Exhausted \/ Come(NudgeTime))
    /\ \/ nudges > 0 /\ Leaves(Carrier, "goodbye", stage, Rest(t))
       \/ Fails(Carrier, heard, Rest(t))
    /\ stage' = "stalled" /\ Idle

NudgeJob == \E t \in jobs : \/ NudgeSkipped(t) \/ NudgeNotNeeded(t) \/ NudgeDeferred(t)
                            \/ Nudge(t) \/ Stall(t)

-----------------------------------------------------------------------------
Next == \/ Tick \/ (\E ch \in Channels : Arrive(ch) \/ Turn(ch))
        \/ Release \/ Present \/ OfferOutcome \/ Escalated \/ Resolve
        \/ Expire \/ NudgeJob

Spec == Init /\ [][Next]_vars

\* The clock runs and the worker takes every nudge job; nobody has to answer, and
\* no other job is needed to end a silence.
FairSpec == Spec /\ WF_vars(Tick) /\ WF_vars(NudgeJob)

-----------------------------------------------------------------------------
\* A seller who was asked something and has not answered has a nudge job queued,
\* whatever channel, handler or person moved the lead since: nobody else looks.
\* It is lost in one way only (service.py:398): two messages left in one minute.
Quiet == stage \in Waiting /\ said \in {"message", "nudge"} /\ heard = {}

SilenceIsHeld == Quiet /\ ~crowded => jobs # {}

\* A stalled seller is left in peace: nothing is sent to one by a step that
\* leaves the lead stalled.
StalledIsQuiet == [][stage = "stalled" /\ said' # said => stage' # "stalled"]_vars

\* A silence ends: unless offers are presented for ever, the seller answers, the
\* lead is taken off the seller's hands, or it is stalled, but for the seller who
\* had two messages in one minute.
SilenceEnds == ([]<><<Present>>_vars) \/ []<>(~Quiet \/ inbox # {} \/ crowded)

=============================================================================
