------------------------------- MODULE Drafts -------------------------------
(***************************************************************************)
(* From a decision to a message: the history the model is shown            *)
(* (conversation/history.py), its drafts and the rewrites it is allowed    *)
(* (conversation/compose.py, llm/client.py, llm/trace.py), the gate every  *)
(* message goes through (conversation/gate.py), and the channel that       *)
(* carries it, or cannot (_deliver and _send of conversation/service.py).  *)
(*                                                                         *)
(* One job at a time works on a lead, in one transaction: nothing is on    *)
(* record until it commits.  The seller's window may shut while the model  *)
(* is writing.  A seller's message is on record before the reply to it is  *)
(* decided: the turn that records it is the one that replies, and a turn   *)
(* that is rolled back starts again from the same message, as a person     *)
(* does whose request to send a figure failed.  The opening has gone out   *)
(* on Messenger, and an SMS thread of this lead is one that                *)
(* _migrate_to_sms made.                                                   *)
(*                                                                         *)
(* A text is what the gate can see of it: the figures, the phrases it was  *)
(* given word for word, the claims it makes, the facts it names, and its   *)
(* length.  The gate's figures are those written with a dollar sign and    *)
(* their digits in full: of "15,000 dollars" and "$15k" it sees none.      *)
(*                                                                         *)
(* The log is what is on the lead's record.  What a seller wrote before a  *)
(* person linked the thread was recorded for nobody, and stays so: then    *)
(* the record begins with the opening.                                     *)
(***************************************************************************)
EXTENDS Naturals, Sequences, SequencesExt

CONSTANTS
    Directives,   \* what the planner may decide
    Texts,        \* what the model may write
    Modelled,     \* a model is configured
    Retries,      \* ACQBOT_LLM_GATE_RETRIES
    Verbatim,     \* ACQBOT_HISTORY_VERBATIM_TURNS
    Batch,        \* ACQBOT_HISTORY_SUMMARY_BATCH
    MaxLength,    \* per channel, max_body_length
    IntroLength,  \* the length of sms_first_contact
    Numbers,      \* what the seller's number may be: see number below
    Attempts,     \* max_attempts of the job
    MaxMessages   \* bound: messages on record

Channels == {"messenger", "sms"}

IsText(text) ==
    text = [figures |-> text.figures, says |-> text.says, claims |-> text.claims,
            names |-> text.names, length |-> text.length]

ASSUME DraftsAssumption ==
    /\ \A d \in Directives :
         /\ IsText(d.script) /\ d.sole \cup d.step2 \subseteq Nat
         /\ d.worded => d.priced = (d.sole # {}) /\ d.sole \subseteq d.script.figures
    /\ \A text \in Texts : IsText(text) /\ text.length \in Nat
    /\ Modelled \in BOOLEAN /\ {Retries, Verbatim, Batch, IntroLength, MaxMessages} \subseteq Nat
    /\ MaxLength \in [Channels -> Nat] /\ Attempts \in Nat \ {0}
    /\ Numbers \subseteq {"none", "free", "taken"}

VARIABLES
    due,      \* the directive that is to be sent, if there is one
    on,       \* the thread it is to be sent on
    tries,    \* transactions of its job that were rolled back
    fate,     \* what became of it: none, said, person, or dead
    said,     \* the text that last reached the seller
    log,      \* the messages on record, oldest first
    summary,  \* per thread, the messages its history_summary tells of
    through,  \* per thread, the last message that history_summary_through covers
    window,   \* Messenger's window is open
    number,   \* where SMS would go: nowhere, to a number that has no thread yet, to this
              \* lead's own thread, or to a number whose thread belongs to another lead
    tx        \* the open transaction

history == <<summary, through>>
outcome == <<due, tries, fate>>
vars    == <<due, on, tries, fate, said, log, history, window, number, tx>>

-----------------------------------------------------------------------------
(* Texts, and what the planner decides: a directive with its scripted text. *)

Claims == {"commitment", "competition", "pressure", "finality", "no room", "tone"}

Text(figures, says, claims, names, length) ==
    [figures |-> figures, says |-> says, claims |-> claims, names |-> names, length |-> length]

Directive(worded, priced, sole, ladder, facts, script) ==
    [worded |-> worded, priced |-> priced, sole |-> sole, ladder |-> ladder, step2 |-> {},
     facts |-> facts, must |-> {}, script |-> script]

\* A question, or another message without a figure; the model may word some of them.
TalkDirective(worded, facts, script) == Directive(worded, FALSE, {}, {}, facts, script)

\* A figure a person decided on; it is not reworded.
PersonsDirective(amount, ladder, facts, script) ==
    Directive(FALSE, TRUE, {}, ladder \cup {amount}, facts, script)

\* "An offer message the model may word but not author": the amount, the phrases
\* that state it and its expiry, and the top step of the ladder are the code's.
OfferDirective(amount, ladder, top, phrases, claims, facts, length) ==
    [Directive(TRUE, TRUE, {amount}, ladder, facts, Text({amount}, phrases, claims, {}, length))
        EXCEPT !.step2 = top, !.must = phrases]

-----------------------------------------------------------------------------
(* The gate.                                                               *)

AllowedOnLadder(d) == IF d.priced THEN d.ladder ELSE {}    \* mutant: any authorised figure
Allowed(d) ==
    IF ~d.priced THEN {} ELSE IF d.sole # {} THEN d.sole ELSE d.ladder

\* Automation itself still has a higher step than the figure presented.
MoreRoom(d) == \E figure \in d.sole, top \in d.step2 : figure < top

Forbidden(d) ==
    {"commitment", "competition", "pressure", "finality", "tone"}
    \cup (IF MoreRoom(d) THEN {"no room"} ELSE {})

\* What may be said of a directive, however long.
Clears(text, d) ==
    /\ text.figures \subseteq Allowed(d)
    /\ d.must \subseteq text.says
    /\ text.claims \cap Forbidden(d) = {}
    /\ text.names \subseteq d.facts

Validate(text, d, limit) == Clears(text, d) /\ text.length \in 1 .. limit

-----------------------------------------------------------------------------
(* History: the last messages word for word, the older ones as a summary.  *)

Entry(role, of) == [role |-> role, of |-> of]

Role(i) == IF log[i].by = "seller" THEN "user" ELSE "assistant"

After(position) == [k \in 1 .. Len(log) - position |-> position + k]    \* messages later than that

\* How many of the oldest messages are folded into the summary now.
ToFold(ch) ==
    LET unfolded == Len(log) - through[ch]
    IN  IF unfolded > Verbatim + Batch THEN unfolded - Verbatim ELSE 0

\* The summary and what it reaches to, after a summary call that may fail.
FoldedAnyway(ch, works) ==    \* mutant: what was to be folded is marked as folded
    [summary |-> summary[ch] \cup (IF works THEN 1 .. through[ch] + ToFold(ch) ELSE {}),
     through |-> through[ch] + ToFold(ch)]
Folded(ch, works) ==
    IF works /\ ToFold(ch) > 0
    THEN [summary |-> summary[ch] \cup (through[ch] + 1 .. through[ch] + ToFold(ch)),
          through |-> through[ch] + ToFold(ch)]
    ELSE [summary |-> summary[ch], through |-> through[ch]]

\* The entries that do not follow one of the same side.
Begins(entries) == {k \in DOMAIN entries : k > 1 => entries[k].role # entries[k - 1].role}

\* Messages of one side that follow each other are one: the turn that a message is in
\* is the number of turns begun up to it.
Turn(entries, k) == Cardinality(Begins(entries) \cap 1 .. k)

Joined(entries) ==
    [t \in 1 .. Cardinality(Begins(entries)) |->
        LET part == {k \in DOMAIN entries : Turn(entries, k) = t}
        IN  Entry(entries[CHOOSE k \in part : TRUE].role, UNION {entries[k].of : k \in part})]

\* to_api_messages: the seller first, and last.
Framed(entries) ==
    LET opened == IF entries = <<>> \/ Head(entries).role # "user"
                  THEN <<Entry("user", {})>> \o entries ELSE entries
    IN  IF Last(opened).role # "user" THEN Append(opened, Entry("user", {})) ELSE opened

Shown(folded) ==
    LET turns == After(folded.through)
        older == IF folded.summary = {} THEN <<>> ELSE <<Entry("user", folded.summary)>>
    IN  Framed(Joined(older \o [k \in DOMAIN turns |-> Entry(Role(turns[k]), {turns[k]})]))

-----------------------------------------------------------------------------
(* The transaction that composes a message.                                *)

NoTx == [step |-> "none"]

Threads == {"messenger"} \cup (IF number = "ours" THEN {"sms"} ELSE {})
Newest  == IF number = "ours" THEN "sms" ELSE "messenger"

Message(by, ch) == [by |-> by, on |-> ch]

Init ==
    /\ due = {} /\ on = "messenger" /\ tries = 0 /\ fate = "none"
    /\ said = {}
    /\ log \in {<<Message("seller", "messenger"), Message("us", "messenger")>>,
                <<Message("us", "messenger")>>}
    /\ summary = [ch \in Channels |-> {}] /\ through = [ch \in Channels |-> 0]
    /\ window = TRUE /\ number \in Numbers /\ tx = NoTx

\* What the planner decides is a reply, or goes to the newest thread.
Decide ==
    /\ due = {} /\ Len(log) < MaxMessages
    /\ \E d \in Directives : due' = {d}
    /\ on' \in {Newest} \cup {m.on : m \in {m \in {Last(log)} : m.by = "seller"}}
    /\ tries' = 0 /\ fate' = "none"
    /\ UNCHANGED <<said, log, history, window, number, tx>>

\* The history is loaded, and folded when there is enough of it.
Begin ==
    /\ tx = NoTx /\ due # {}
    /\ \E d \in due, works \in BOOLEAN :
         LET drafted == Modelled /\ d.worded
             folded  == Folded(on, works /\ drafted)
         IN  tx' = [step |-> IF drafted THEN "draft" ELSE "send", attempt |-> 0,
                    refused |-> 0, folded |-> folded, body |-> d.script]
    /\ UNCHANGED <<due, on, tries, fate, said, log, history, window, number>>

\* The transaction commits, with what the history was folded to.
Commit(how) ==
    /\ due' = {} /\ fate' = how /\ tries' = tries /\ on' = on /\ tx' = NoTx
    /\ summary' = [summary EXCEPT ![on] = tx.folded.summary]
    /\ through' = [through EXCEPT ![on] = tx.folded.through]

RollBackUncounted ==    \* mutant: a failure that is not recorded
    /\ tries' = tries /\ on' = on /\ tx' = NoTx /\ UNCHANGED <<due, fate, log, history, number>>

\* It is rolled back: the job is tried again, or dead.
RollBack ==
    /\ tries' = tries + 1 /\ on' = on /\ tx' = NoTx
    /\ IF tries' = Attempts THEN due' = {} /\ fate' = "dead" ELSE UNCHANGED <<due, fate>>
    /\ UNCHANGED <<log, history, number>>

Dies ==
    /\ tx # NoTx /\ RollBack
    /\ UNCHANGED <<said, window>>

-----------------------------------------------------------------------------
(* The model's drafts.                                                     *)

\* A draft the gate refused comes back with what was wrong with it.
Feedback == [k \in 1 .. 2 * tx.refused |-> Entry(IF k % 2 = 1 THEN "assistant" ELSE "user", {})]

\* What the model is shown on this attempt.
Prompt == Shown(tx.folded) \o Feedback

Sends(text) == tx' = [tx EXCEPT !.step = "send", !.body = text]

\* Another attempt, or the script goes out.
Another(refused) ==
    IF tx.attempt < Retries
    THEN tx' = [tx EXCEPT !.attempt = @ + 1, !.refused = @ + refused]
    ELSE Sends(tx.body)

\* A failed call is not worth a second one this turn.
CallFails == Sends(tx.body)

\* No JSON, cut short, or without a message.
Unreadable == Another(0)

Written(text, d) ==
    IF Validate(text, d, MaxLength[on]) THEN Sends(text) ELSE Another(1)

Draft ==
    /\ tx.step = "draft"
    /\ CallFails \/ Unreadable \/ (\E d \in due, text \in Texts : Written(text, d))
    /\ UNCHANGED <<due, on, tries, fate, said, log, history, window, number>>

\* The model asks for a person instead of a message.
Flagged ==
    /\ tx.step = "draft" /\ Commit("person")
    /\ UNCHANGED <<said, log, window, number>>

-----------------------------------------------------------------------------
(* _send.                                                                  *)

Reachable == on = "sms" \/ window
Moves     == ~Reachable /\ number \in {"free", "ours"}
Carrier   == IF Reachable THEN on ELSE "sms"

\* The first text on a thread says who writes and how to make it stop.
WithIntro(text) == [text EXCEPT !.says = @ \cup {"who writes"}, !.length = @ + IntroLength]

SpokenOn(ch) == \E i \in DOMAIN log : log[i] = Message("us", ch)

Outgoing == IF Moves /\ ~SpokenOn("sms") THEN WithIntro(tx.body) ELSE tx.body

ClearsGate(d) == Validate(tx.body, d, MaxLength[on])
ClearsMove(d) == Moves => Validate(Outgoing, d, MaxLength["sms"])

Sending(d) == tx.step = "send" /\ d \in due

\* The lead's own SMS thread is made when the first message moves to it.
Moved == IF Moves THEN "ours" ELSE number

\* The gate refuses the text, script or not: a person's.
Refused(d) ==
    /\ Sending(d) /\ ~(ClearsGate(d) /\ ClearsMove(d)) /\ Commit("person")
    /\ number' = IF ClearsGate(d) THEN Moved ELSE number
    /\ UNCHANGED <<said, log, window>>

\* Nothing carries it: a person has to pick it up.
Unreachable(d) ==
    /\ Sending(d) /\ ClearsGate(d) /\ ~Reachable /\ number = "none" /\ Commit("person")
    /\ UNCHANGED <<said, log, window, number>>

\* The number has a thread that is not this lead's: a second row is refused.
Taken(d) ==
    /\ Sending(d) /\ ClearsGate(d) /\ ~Reachable /\ number = "taken" /\ RollBack
    /\ UNCHANGED <<said, window>>

Ready(d) == Sending(d) /\ ClearsGate(d) /\ ClearsMove(d) /\ (Reachable \/ Moves)

Reaches == said' = {Outgoing} /\ window' = window

\* The transport takes it; the transaction that records it may yet be lost.
Delivered(d) ==
    /\ Ready(d) /\ Reaches
    /\ \/ /\ Commit("said") /\ number' = Moved /\ log' = Append(log, Message("us", Carrier))
       \/ RollBack

\* The transport refuses it for good, or for now.
Rejected(d) ==
    /\ Ready(d) /\ UNCHANGED <<said, window>>
    /\ \/ Commit("person") /\ number' = Moved /\ log' = log
       \/ RollBack

Send == \E d \in due : Refused(d) \/ Unreachable(d) \/ Taken(d) \/ Delivered(d) \/ Rejected(d)

-----------------------------------------------------------------------------
(* The seller, and the clock.                                              *)

Writes(ch) ==
    /\ due = {} /\ ch \in Threads /\ Len(log) < MaxMessages
    /\ log' = Append(log, Message("seller", ch)) /\ window' = (window \/ ch = "messenger")
    /\ UNCHANGED <<due, on, tries, fate, said, history, number, tx>>

\* The seller texts before we do: the thread is nobody's.
TextsFirst ==
    /\ due = {} /\ number = "free" /\ number' = "taken"
    /\ UNCHANGED <<due, on, tries, fate, said, log, history, window, tx>>

Shuts ==
    /\ window /\ window' = FALSE
    /\ UNCHANGED <<due, on, tries, fate, said, log, history, number, tx>>

Work == Dies \/ Begin \/ Draft \/ Flagged \/ Send

Next == Decide \/ Work \/ (\E ch \in Channels : Writes(ch)) \/ TextsFirst \/ Shuts

\* The queue runs what it holds.
Spec == Init /\ [][Next]_vars /\ WF_vars(Work)

-----------------------------------------------------------------------------
(* PROPERTIES *)

\* Whatever the texts are, they are these, with the introduction or without.
Wordings == Texts \cup {d.script : d \in Directives}
AllTexts == Wordings \cup {WithIntro(text) : text \in Wordings}

\* Per directive, the texts that say what was decided: its figures and phrases, facts
\* on file, no commitment, competition, pressure or last word, and no limit that is none.
Faithful == [d \in Directives |->
    {text \in AllTexts :
        /\ text.figures \subseteq d.script.figures /\ d.must \subseteq text.says
        /\ text.names \subseteq d.facts
        /\ text.claims \cap Claims \subseteq {"no room"}
        /\ "no room" \in text.claims => \A figure \in d.sole, top \in d.step2 : figure >= top}]

Introduces == {text \in AllTexts : "who writes" \in text.says}

Promise == INSTANCE Delivery WITH Contents <- Directives, threads <- Threads

\* "The model can therefore never block a conversation and never send an unchecked
\* sentence" (compose.py).  Whatever it writes, what reaches the seller says what was
\* decided, and who we are where it opens a channel; every message ends said, with a
\* person, or dead after the attempts its job has.
SaidAsDecided == Promise!Init /\ [][Promise!Next]_(Promise!vars)

\* And it does end: no draft, refusal or failure keeps a message waiting for ever.
MessagesSettle == Promise!Settles

\* "Nothing is ever dropped" (history.py): what the model is shown holds every
\* message on record, word for word or in the summary, as turns that alternate
\* and start and end with the seller.
WholeConversation ==
    tx.step = "draft" =>
        /\ 1 .. Len(log) \subseteq UNION {Prompt[k].of : k \in DOMAIN Prompt}
        /\ \A k \in DOMAIN Prompt : Prompt[k].role = IF k % 2 = 1 THEN "user" ELSE "assistant"
        /\ Len(Prompt) % 2 = 1
=============================================================================
