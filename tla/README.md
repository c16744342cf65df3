# A TLA+ model of acqbot

`acqbot` buys used cars from private sellers in conversation. A listing arrives over a signed
webhook, is enriched from registers, opened with a message, taken through discovery, valued, offered
a price that climbs a short ladder, and handed to a person when the seller says yes. All of its
state is in one Postgres database; a queue table drives everything that is not a direct answer to an
HTTP request; an API process with the staff console and a worker process share that database.

This directory holds specifications of the parts whose correctness depends on the order of things:
the queue, the way from a listing to the first message, the fact store, discovery and its reading of
what a seller writes, the deal on a lead, the figures it is about, the message that carries a
decision, and the silences between messages. Each is translated from the code, checked by TLC on
small instances, and proved about with TLAPS for all values of its constants.
Paths below are relative to the repository; the package is `src/src/acqbot/`, and
`conversation/service.py` means the file of that name in it.

| Module | Models | Checked through | Proved in |
|---|---|---|---|
| `JobQueue` | table `jobs`, `queue/jobs.py`, `queue/worker.py` | `MCDeployments`, `MCJobQueue` | `JobQueueProofs` |
| `DurableQueue` | what the queue promises (abstract) | `KeptPromise` in `MCDeployments` | `JobQueueProofs` |
| `Deal` | one lead from discovery to handoff | itself | `DealProofs` |
| `FactStore` | one field of `vehicle_facts`, `facts/store.py` | `MCFactStore` | `FactStoreProofs` |
| `Intake` | from the listing to the first message | itself | `IntakeProofs` |
| `Engine` | the arithmetic of `valuation/engine.py` | `MCValuation` | `ValuationProofs` |
| `Valuation` | the valuations of one lead, `valuation/service.py` | `MCValuation` | `ValuationProofs` |
| `Outreach` | nudges, the 24-hour window, the move to SMS | `MCOutreach` | `OutreachProofs` |
| `Reading` | how one message is read: patterns, the model's answer, both merged | `MCDiscovery` | `DiscoveryProofs` |
| `Discovery` | from the first reply to a price that may be offered | `MCDiscovery` | `DiscoveryProofs` |
| `Drafts` | from a decision to a message: history, drafts, gate, channel | `MCDrafts` | `DraftsProofs` |
| `Delivery` | what is promised of a message (abstract) | `SaidAsDecided`, `MessagesSettle` in `Drafts` | `DraftsProofs` |
| `Ingestion` | a listing becomes a lead, or does not | `MCFactStore` | `FactStoreProofs` |

`PROJECT.json` lists the components, the runs with their properties, a mutant of the code for each
property, the lines each definition stands for, the hazards and the theorems.

## 1. Inventory

### Components, their state and their operations

**Job queue** (`queue/jobs.py`, table `jobs`). State per row: status, attempts, `run_at`,
`locked_by`, `locked_at`, dedupe key. Operations: `enqueue` (refused while a job of that key is
queued, running or failed), `claim` (oldest due row, `FOR UPDATE SKIP LOCKED`), `complete`, `fail`
(back off, or dead), `requeue_stale` (rows locked for over ten minutes). It is right when a job is in
one worker at a time, is started at most `max_attempts` times, is called done only if its handler's
writes committed, and always reaches done or dead.

**Worker** (`queue/worker.py`, `queue/handlers.py`, `db.py`). State: a local job id and attempt
number. It polls, claims in one transaction, handles in a second, records the outcome in a third,
and sweeps stale rows now and then. It can die between any two transactions. It is right when none
of its own writes is refused and none overwrites a row that stopped being its own.

**Conversation** (`conversation/service.py`, `state.py`, `transitions.py`). State: `leads.state`,
`messages`, `offers`, `escalations`, `handoff_packets`, the threads. Operations: the inbound turn
(opt-out, screens, accept / reject / counter / price request, discovery), the opening, and the jobs
`on_priced`, `expire_offer`, `nudge`, `handoff_sla`, `maybe_send_opening`. It is right when one offer
is open at a time, an outcome is written once, the lead's state agrees with its offers, automation
stays within its ladder and away from leads a person has, and every escalation has an open row.

**Valuation** (`valuation/service.py`, `engine.py`). State: `valuations`. Computing one can hand the
lead to a person, and queues `on_priced`. The figures are a pure computation: what the market takes
off a base value, what it costs to sell the car, a contingency that shrinks with what is verified, and
a ladder of offers cut from what is left. It is right when rungs are ordered and none is above the
ceiling, and when better news of the car never lowers it.

**Nudges and channels** (`conversation/service.py:327`, `:520`, `transport/`). State: the queued
`nudge` jobs, the threads of a lead with their `last_inbound_at`, the count of nudges among the sent
messages. `_send` queues a nudge job after a message that waits for an answer and opens an SMS thread
when Messenger's window has shut; the job does nothing, comes back later, nudges, or stalls the lead.
It is right when a silence is never forgotten and always ends, and a seller given up on is left alone.

**Fact store** (`facts/store.py`, `facts/fields.py`). State: `vehicle_facts`, rows chained by
`superseded_by`. `record_fact` reads the standing fact and decides to insert, supersede or ignore;
`current_fact` reads the standing one; `fact_sheet` lists contradictions. It is right when the
strongest fact stands and a contradiction is not lost.

**Enrichment** (`enrichment/`). State: facts, market data, `enriched_at`. One job asks the registers
and then terminates the lead, hands it to a person, or queues the opening.

**Console and admin API** (`api/admin.py`, `conversation/checks.py`, `console/routes.py`). People
link threads, enter certificates and facts, price, present, decide outcomes, revalue, resolve tasks
and claim handoffs, each in a request of its own, at any time.

**Webhooks and ingestion** (`api/webhooks.py`, `ingestion/`). Events become jobs, with the event's id
as the dedupe key; a listing becomes a lead unless it duplicates one.

**Extraction** (`conversation/extract.py`, `extract_model.py`, `llm/schemas.py`). No state. Patterns,
and the parser of the field that was asked, read a message; a model may read it too, and its answer is
coerced and laid over theirs. It is right when the model can add to a screen but not take one away, and
when neither reads an agreement into a message before there is a price.

**Composer, gate and history** (`conversation/compose.py`, `gate.py`, `history.py`, `llm/`). State:
`threads.history_summary` and how far it reaches. The planner decides what is said; a model may word it,
with a bounded number of rewrites when the gate refuses one, and the script is what goes out otherwise.
It is right when what reaches the seller is what was decided, and when the model has been shown all
that was said.

**Templates, packets, calibration, settings, observability, tools.** Wording, values, or read-only.

### How they interact

```
 listing ──> leads ──> job enrich_lead ──> facts ──> job maybe_send_opening ──> opening
                                             │                   ▲
 seller ──webhook──> job inbound_message ──> turn ── links the thread, records facts
                                             │
                                             ├─> job value_lead ─> valuation ─> job on_priced ─> offer
                                             ├─> offers: accepted / rejected / countered
                                             └─> jobs expire_offer, nudge, handoff_sla (later)
 console ── any of: link, facts, checks, value, present, outcome, resolve, claim
```

Everything meets in the database. Transactions run at READ COMMITTED; `leads` rows are read without
a lock and `leads.state` is written only when it changed, so overlapping transactions on one lead
overwrite one another's state. What the database enforces are the partial unique index on active
jobs and triggers that let an offer's outcome and a fact's superseder be written once.

### What is hard here

* *Three transactions per job.* A worker can die with the handler committed and the row still
  RUNNING, so handlers run again; and messages leave before their transaction commits.
* *The dedupe key is held while a job runs.* A job that has already read the lead refuses the
  enqueue that would have acted on what changed since.
* *A sweep that reads without locking and writes by id.*
* *One offer, three writers*: the seller's turn, the expiry job, a person.
* *Jobs queued for a lead that has since closed, opted out or been taken over.*
* *A trigger that raises in the middle of a turn* and takes the recorded message down with it.
* *Facts of one field recorded in overlapping transactions.*
* *A chain of timer jobs that nobody else watches*: each nudge job has to leave the next one behind,
  whatever moved the lead, its channel or its offer in the meantime.
* *A stage recomputed in every turn* from facts that searches, people and the seller go on changing.
* *A model in the loop*: it may fail, answer nonsense, word another figure, or ask for a person; and
  the window of the channel may shut while it writes.
* *A duplicate check before an insert*, in transactions that overlap.
* *Rounding to a step and averages for what is unknown*, where one more fact can move a ceiling the
  wrong way.

`PROJECT.json` lists these hazards one by one with the line each bites at and the properties that
cover it, or the reason none does yet.

## 2. Plan

Order of work, most important behaviour first. Items 1 to 9 are done.

1. `JobQueue`, refining `DurableQueue` - everything else runs on it.
2. `Deal` - where money is promised. One transaction is one action.
3. `FactStore` - overlapping transactions on one field.
4. `Intake` - enrichment, the opening and thread linking, with transactions that read at their start
   and write at their end, a worker that dies, and redelivered messages.
5. `Engine` and `Valuation` - the figures, recomputed while facts come in.
6. `Outreach` - nudges, the 24-hour window and the migration to SMS.
7. `Reading` and `Discovery` - what is asked, heard, recorded, checked and given up on before a price.
8. `Drafts`, refining `Delivery` - composing, the gate, history and the channel.
9. `Ingestion` - deliveries that overlap, are repeated and are abandoned.
10. `Turns`: two transactions on one lead in `Deal`'s states (a worker's turn against a console
    request, or two workers), reads and writes split as in `Intake`. Questions: which updates of
    `leads.state` can be lost, and which of `Deal`'s invariants need turns not to overlap. `Deal` is
    the abstract specification, which the split model should implement when the turns of one lead are
    serialised.
11. `Deal` over `Valuation`: the offers with the figures of the valuation they were cut from. Does a
    concession after a revaluation ever offer less than the seller was offered already?
12. An abstract conversation - whose turn it is, what stands offered, who is in charge - which `Deal`,
    `Discovery` and `Outreach` all implement.

Every invariant and every action property that a run checks is a theorem. Still worth proving: type
correctness of `Drafts` and `Ingestion`; what becomes of the workers that do not survive (`Rough`) beyond
unique keys and backed results; the invariants of `Turns` under serialised turns.

Runs are kept to those that ask a distinct question; where a later module answers an earlier one's
question better, the run moves.

## 3. The modules

### JobQueue and DurableQueue

*State.* `status`, `attempts`, `lockedBy` are columns of `jobs`. Time is kept where the code compares
it: `due` is the list of rows with `run_at <= now()` in that order, `aged` the rows whose lock is over
ten minutes old. `applied` is a history of handler transactions that committed. `pc`, `job`,
`attempt` and `plan` are the worker's local variables; `plan` is what `requeue_stale` decided for the
rows it selected.

*Actions.* `Claim`, `HandlerCommits`/`HandlerRaises` and `Complete`/`Retry`/`RetryRefused`/`GiveUp`
are the three transactions of `run_once`; `SweepRead` and `SweepWrite`/`SweepRefused` the two
statements of `requeue_stale`, which locks nothing in between; `Crash` kills a process anywhere;
`BecomeDue` and `Age` are the clock. The partial unique index is `Clash`, tested by every write that
makes a row active: an insert it refuses makes `enqueue` return `None`, an update it refuses raises
out of `run_once` and ends the worker process. `_finish` and the sweep find their rows by id and do
not look at the status again, and neither do the actions.

*Parameters.* `MayCrash` and `MayOverrun` separate what holds of a worker that meets the ten-minute
lock from what holds always. The documents ask for one worker (`README.md:367`, `docs/DEPLOY.md:22`)
and say the claim is safe for any number (`queue/jobs.py:5`). `MCDeployments` looks at both in one
run: a deployment is chosen at the start (one worker that may be killed, a fleet that is not killed,
several workers that are killed and overrun), it never changes, and each property says which of them
it speaks of.

*Abstraction.* `DurableQueue` knows three things of a job: absent, pending, done or dead; how often
it was started; which attempts took effect. `JobQueue` implements it under
`phase <- Phase, starts <- attempts, effects <- applied`, where `Phase` maps queued, running and
failed to pending: `Claim` is `Start`, `HandlerCommits` is `Apply`, `Complete` is `Acknowledge`,
`GiveUp` and `SweepWrite` are `Abandon`, and what concerns locks and clocks only stutters.

### Deal

*State.* `state` is `leads.state`. What the conversation knows of the car is `clear` (discovery
complete, no contradiction outstanding) and `valued` (the newest verified valuation). `offers` is the
table in the order of `presented_at`, each row with its step, author, outcome and the handoff packet
that goes with it. `tasks` is the set of kinds of open escalation (one row of a kind or several,
which `Resolve` allows for). `jobs` and `inbox` are what is queued. `lost`, `lastWord` and `contact`
are histories that the properties and the nudge's guard read.

*Actions.* One per path through `handle_inbound` (`TurnIgnored` ... `TurnTalk`), with the early
returns in the code's order: owned leads first, then opt-out, the screens, answers to an offer, and
the recomputed stage. One per job handler and one per console operation. A message that is sent may
get out, be refused (which escalates and so changes the state) or find its window closed (which makes
a task): `Results`, threaded through every action by `After`, `Raised` and `Word` the way `_send`
threads it through the callers. `Settle` is the write of an outcome; `TurnRefused` is what the
trigger does to a reply that answers an offer already settled.

*Left out.* Figures (they are `Valuation`'s), wording, which field is asked next, when nudges are due
and by which channel messages go (`Outreach`). The registry checks are in and the lead has answered
before the first state: what goes before is `Intake`. Transactions on the lead do not overlap here:
that is item 10 of the plan.

### FactStore

One field of one lead. `rows` are the committed rows; `tx` is each session's open transaction, with
the fact it records and the standing row it read. `Begin`, `Read` and the committing action are
separate, so that any number of sessions interleave. `recorded_at` is Postgres's `now()`, the start
of the transaction, and so it is given at `Begin`. `record_fact`'s four outcomes are `First`,
`Known`, `Behind` and `Supersede`; `Refused` is the write-once trigger, `Abandon` a rollback. `Rank`
is the code's order (authority, verified, confidence) as one integer, `Current` is `current_fact`'s
ORDER BY, `Contradicted` is the test of `fact_sheet`.

### Intake

*State.* The lead's `state` with every stage under way folded into ENGAGED (they belong to `Deal`),
whether it is enriched, whether a VIN or rego is on file, whether a stolen or written-off result is,
the thread and who linked it, whether the seller waits for an answer, and per dedupe key the job that
holds it. `work` is the worker's job with what its transaction read of the lead; `console` the same
for a console request.

*Actions.* A job is claimed, and its handler's reads are taken then; its writes are applied when it
commits. `Written` is SQLAlchemy's update: the column is written only if the transaction changed what
it read, and then over whatever is there. `Finish` is the transaction that completes the job and frees
its key. `Interrupted` is a handler that raises, or a worker that dies before or after its commit; an
opening may already have left. `LinkThread`, `Request` with `ChecksClear`/`ChecksBad`, and `Resolve`
are the console. `LinkThread` is one action: it reads the thread, which only it and the turn write, and
it does not read the lead's state.

*Left out.* First contact by SMS (a setting), what happens in a conversation under way, events without
an id.

### Engine and Valuation

*State.* `car` is the fact sheet as the engine reads it: segment, service history, paint, tyres, keys,
faults, registration, damage, write-off, and which of the condition fields are verified. `base` is what
guide and comparables blend to, `owing` the debt on the car, `rows` the table `valuations`, each with
the car and the market it was computed from.

*Actions.* `Claim` and `Verify` are a fact from the seller and one that is verified; `Check` the
registry answers a release needs; `Damage` what a person records; `Market` the fetch of new market
data; `Compute` is `compute_valuation`, which also decides between indicative and verified and whether
to escalate. `Engine` holds the arithmetic, line by line as `engine.py` lays it out.

*Abstraction.* Money is in whole cents and rates in thousandths, where the code has floats rounded to
the cent: a line that falls on exactly half a cent may differ by that cent. New and good tyres cost the
same and are one value. The blend of market data is an input.

### Outreach

*State.* One conversation from its opening on. `stage` is `leads.state` with the states the nudge job
treats alike put together. A time is a minute, counted from the present one, and an instant in it:
`last` is when our last message left, `jobs` the `run_at` of the nudge jobs queued, `clock` the instant
that it is now. Cadence, window and expiry are whole hours, so the instant only matters where the code
looks at it: a job comes at its instant, and its dedupe key is its minute. `window` is what is left of
the 24 hours on Messenger, by `last_inbound_at`; `heard` the channels the seller wrote on since our last
message. `inbox` holds the channels with an inbound message queued, so a message is late when its turn
is late. `said` is a history of what was sent last, or failed to be, and `crowded` of whether it left in
the minute of the one before.

*Actions.* The turns are `Deal`'s, reduced to whether something is sent, in which stage it is sent,
and where the lead goes: `_send` queues a nudge by the stage it is given, not by the one the lead ends
in. `Leaves` and `Fails` are its two ends, and `Queued` is `_schedule_nudge`: nothing, where a job of
that minute is queued or running. A nudge job holds its own key while it runs, so `Again` and `Follow`
queue before they remove it. The opening is sent with the stage NEW and takes no nudge with it, and
neither does `Resolve`. `NudgeSkipped`, `NudgeNotNeeded`, `NudgeDeferred`, `Nudge` and `Stall` are the paths through `nudge`; `Expire` is the job that tells the seller of the lapse;
`Tick` is the clock.

*Left out.* What the seller's answer to an offer was (`Deal` has it); the claim of a job, its
retries and deaths, which are `JobQueue`'s, so that a nudge job that is tried again, or is dead, is
none of this; a worker that runs later than `Late` minutes after `run_at`.

### Reading and Discovery

*Reading.* A text is the set of word classes that the patterns look for and that occur in it, with the
figures it carries, so "yeah nah" is `{"accept", "reject"}`. A field parser is a list of clauses tried
in order, as in the code; `FirstMatch` takes the first that matches. `Rules` is `extract`, `Coerced`
and `InWire` what `llm/schemas.py` leaves of the model's answer, `Merge` is `extract_model.merge`, and
`Read` chooses between them the way `_extract` does: a model that fails leaves the patterns' reading.
`OfferReply` is how a message after an offer is taken. `MCDiscovery` assumes what `tests/test_extract.py`
expects of each parser, and TLC evaluates it.

*State.* `sheet` holds the standing fact per field, and `disputed` the fields where a claim of the
seller's and a verified fact disagree; `acked` and `deferred` are the lead's columns. `asked` is what the
last message asked, which the next is read against. `turns` stands for `_turns_without_progress`, which
the code has no column for and reads off the times of facts, stages, offers and messages: `Counted`
follows it, and `Mark` is what other people's facts do to it. `tasks` are the open rows that ask a
person for facts.

*Actions.* `Turn` in the code's order: closed leads, screens, what is told (`Tells`: facts recorded,
contradictions acknowledged, a question put off), then circles, the reply, or a refusal. `Plan` is
`_plan` and gives the messages it may choose; `ToPrice`, `ToCheck` are `_after_stage`. `Enrich`, `Value`,
`OnPriced` are the jobs. `Certificate` (`record_checks`), `AddFact` and `HandBack` are people. `Nudge` is
`Outreach`'s job: it finds nothing to do, asks again, or stalls the lead, and it is there only after a
message that was sent in a stage where the seller is waited for. `AddFact` takes any field, on any word,
verified or not, as `POST /facts` does; `Source` therefore ranks twelve words, the last of them an
inspection that somebody verified.

*Left out.* Overlap (`Intake`, `FactStore`), offers (`Deal`), the fields of a search other than its
finance answer, the words themselves. A plate, a VIN or a digit group is found or not. A fact that a person
records has a value of its field's form, where the console takes any word, and is not a list of photographs.

### Drafts and Delivery

*State.* `due` is the directive that was decided, `on` its thread, `log` the messages on record, `summary`
and `through` the two history columns of each thread, `number` whose SMS thread the seller's number is.
`tx` is the transaction in hand: the step, the attempt, how many drafts the gate refused, what the history
was folded to, the text so far. `tries` and `fate` are the job's. `Joined` says what the loop of
`to_api_messages` computes: the messages of a turn are those with as many turns begun up to them (`Turn`).
`MCDrafts` assumes that it is the loop, and TLC evaluates that for every history of seven messages or fewer.

*Actions.* `Begin` loads and folds the history (`Folded`, with a summary call that may fail). `Draft` is one
call to the model: it fails (`CallFails`), is unreadable, or is a text the gate takes or sends back
(`Written`); when no attempt is left the script goes out. `Flagged` is a model that asks for a person.
`Send` is `_send`: the gate once more, the window, the move to SMS with its introduction and a second look
at the gate, the transport. A transaction commits, or is rolled back with everything but what has already
left; `Dies` rolls it back anywhere.

*Abstraction.* A text is its figures as the gate finds them (a dollar sign and the digits in full, so
neither "15,000 dollars" nor "$15k"), the phrases it repeats, the claims it makes, the facts it names, its length. What the planner may decide comes in three
forms: `TalkDirective`, `OfferDirective` and `PersonsDirective`. `Delivery` knows only that something is due, how often it failed
and how it ended. `Drafts` implements it with `threads <- Threads`, `Contents <- Directives`, and as
`Faithful` the texts that say what was decided. `log` is the lead's record, which is what `load_messages`
reads: a message that came before the thread was linked has no lead (`conversation/service.py:696`), keeps
none when a person links the thread (`api/admin.py:340`), and is shown to nobody's model. The record then
begins with our opening, which is one of the initial states.

### Ingestion

`leads` carries what the table and the claims need, with the day and the delivery it came from; `session` is
each web worker's transaction with what it read. `Posted` is the webhook, `Typed` the console's form, whose
lead has a new id each time and whose seller is the number in the listing's link, or else that id. `Known`,
`Dedupe` and `Insert` are the three steps of `ingest_lead`; `Dies` rolls back. A lead that came up
in between keeps its primary key and the insert fails. `together` is a history of which deliveries
overlapped.

## 4. Runs

Deadlock is checked except for the queue, whose rows all settle; for the fact store, the listings, the
valuations and the drafts, whose bounds run out; and for discovery, where a lead may end: these
really stop.

| Run | Bounds | Asks |
|---|---|---|
| `queue` | three deployments side by side: 1 worker that dies (3 rows), 2 that do not (3 rows), 2 that die and overrun (2 rows); 1 to 3 attempts; 61k states | Does the documented deployment keep `DurableQueue`'s promise, is a job of a fleet in one worker, and what survives the worst schedule? |
| `deal_staff` | 2 offers, automation with a ladder, people present, price, decide, revalue and hand back; 1.8M | Who wins an offer that a yes, a concession and a person race for, and whom does automation make offers to? |
| `deal_people` | 2 offers, no automation, all seven intents, people price by hand, check, add facts, claim; 377k | Does every offer end, whatever the seller says? |
| `deal_reply_lost` | 2 offers, 3 tries | Violated: `RepliesRecorded` (finding 1). |
| `deal_stop` | 2 offers | Violated: `StopHonoured` (finding 2). |
| `facts_race` | 3 sessions; either 5 facts, 4 rows; or 4 listings, 2 forms, 3 deliveries, 3 days; 862k up to symmetry | Does the strongest fact stand, and a contradiction last, when transactions overlap? Does a car become two leads? |
| `intake_one` | 1 message delivered any number of times, 1 fault, the whole console; 406k | Is one opening sent, none for a car known to be bad, and none forgotten? |
| `valuation` | 2 valuations of a ute, a poor and a good market, one debt, service history and faults told and verified in any order; 2.1M | Are ladders ordered, do concessions move, and does better news ever pay less? |
| `outreach` | cadence 1-2, minutes of 2 instants, window 2, expiry 1, jobs taken in their minute; 694k | Is every silence chased that two messages in a minute do not hide, does it end, and is a stalled seller left alone? |
| `discovery` | 2 required fields, 5 messages; patterns and people who search and record 2 facts by hand, or a model of 2 answers and a registry; 165k | Is a price released on verified facts and settled contradictions only, does verification move on, and does discovery end with a seller who goes on writing? |
| `discovery_stuck` | 2 required fields, patterns and a search that agrees | Violated: `VerificationIsOurs` (finding 3). |
| `drafts` | 4 directives, 5 drafts, 1 rewrite, 2 tries, 5 messages; 699k | Is what reaches the seller what was decided, does every message end, and is the model shown everything? |


**The queue.** Two rows share a key and a third has none, so that a retry can meet a newer job of its
key. `max_attempts` is 3 or 5 in the code; two gives a first attempt, a retry and a last one, which are
the cases the comparisons distinguish, and three are used where a second worker's attempt has to fit
in as well. Deployment "one" is the documented one and contains a row with no handler. In "rough"
anything may happen: ownership and exclusive claiming are gone there, and what is checked is what
survives.

**The deal.** Each run gives the seller and the console the operations its question is about; all
seven intents occur in `deal_people`, all console operations in `deal_staff` and `deal_people`
together. Two offers are enough for one to be superseded while an answer to it waits, and for the
ladder to be climbed once; the theorems hold for any number. `MaxTries` bounds the retries of a turn
the trigger refuses.

**Facts.** Five facts of an odometer include an unverified claim off the listing, one in conversation,
a photograph and two registry answers that disagree, with a tolerance of one. Four transactions among
three sessions allow three to overlap and a fourth to follow. Sessions are interchangeable, and no
liveness is checked, so they are a symmetry set. In the same run the three sessions ingest three
deliveries, on three days with a window of one: a listing delivered again, the same car listed anew with
the make spelt otherwise and 3,000 km more, again with 6,000 more, a payload with a field the contract
does not know, and two forms, with the listing's number and without. Three deliveries are what a repeat,
an overlap and a third near the edge of the tolerance need.

**Intake.** One message is enough: it can be delivered again as often as its key is free, so the seller
writes any number of times, one after the other. One fault is enough for every place a worker can die;
it stays below the smallest `max_attempts`, so no job is dead, and a dead job is not what these
properties are about.

**Valuation.** Two valuations are what the properties compare. The car is a ute; one market
leaves a ladder and the other is so poor that nothing is left; fault lists with one fault and a light, and with more faults than are itemised.
Paint, tyres and keys enter the figures as
service history does and do not vary here; the theorems cover them, and every segment.

**Outreach.** The cadence of 20, 24 and 72 hours is 1 and 2 minutes, against a window of 2 and an offer
that lasts 1: the first nudge falls inside the window and the second after it, as in the code, and an offer
lapses while its nudges are still under way. A minute has two instants, so that two messages of one minute
and two of consecutive minutes, closer together than a minute, both occur. A nudge job is taken
within its minute, before or after an answer of that minute; workers that are later by any number of minutes
(`Late`) are left to the theorems, which cover both safety properties. `Longest` is where the count of a silence stops; every entry of the cadence is
shorter.

**Discovery.** Two required fields, the finance answer and the photographs, with the question about the
mobile number between them. There are two deployments side by side
(`Fits`): the patterns read, people search, and a person may record an inspected odometer, and a finance answer
on an inspector's unverified word, which ranks above the search; or a model that may fail reads, a registry
searches when the seller gives a VIN, and people do what a review asks. What a search finds disagrees with the
seller on the odometer and the debt. The seller makes small talk, opts out, says no or sends a photograph. Two turns
without progress stand for the code's three, which changes when a circle is noticed and not what follows. The
larger vocabulary is `MCDiscovery`'s assumptions and the theorems.

**Drafts.** A question, an opening offer below the last step, the ceiling message after a person's lower
offer, and a person's figure; drafts that are faithful, too long for a text, claim a limit, or name another
step. One rewrite, two tries, and a history of five messages with one kept word for word and folded in
pairs: enough to fold twice and to fail in between. Numbers are missing, free, or become somebody else's.

### Fairness

* `JobQueue`: the worker loop never stops polling, so claiming, handling and finishing are weakly
  fair; every call a handler makes has a timeout; the clock advances. The sweep's write is strongly
  fair: a crash can interrupt it, it is tried again after the restart, and the process does not die in
  the middle of every one. Nothing obliges anyone to enqueue, nor a worker to live.
* `Deal`: turns and jobs are weakly fair, because the queue settles its jobs (`RoughlySettles`); offers lapse
  because time passes. People and the seller are under no obligation. `OfferSettles` thereby assumes
  that the `expire_offer` job is not itself dead.
* `Intake`: the handlers, the completion and the sweep are weakly fair. Claims are strongly fair per
  key, because `claim` takes due rows in the order of `run_at`: a queued job is overtaken only by those
  that were due before it. `OpeningFollows` is about the worker's and the queue's obligations only; the
  console does nothing it is not asked to.
* `Outreach`: the clock runs, and the worker takes every nudge job: it never stops polling, and a nudge job
  is due for good once it is due. No other job is obliged to run, the seller need not answer and nobody need
  act. Offers presented for ever would keep a conversation going for ever, and two messages in one minute
  may leave nobody to end a silence; `SilenceEnds` sets both aside.
* `Discovery`: the queue settles every kind of job it holds (`RoughlySettles`), nudges excepted; people do the
  two kinds of task that ask for facts. Nothing obliges the seller to write, a nudge job to come, or the clock to
  stall a lead, and after the opening or a hand-back there is no nudge job at all: `DiscoveryEnds` is about
  sellers who write again and again, and sets aside people who record facts for ever, each of which is a mark
  of progress. Certificates nobody asked for, and handing back, are under no obligation.
* `Drafts`: the job that composes a message is worked on (`WF` of `Work`), which includes dying; the seller
  and the window do as they like. `MessagesSettle` holds because tries are counted.

### What the runs show

*They hold.* With one worker that may die anywhere, the queue keeps its promise. With two that neither
die nor overrun, a job is in one of them. Under any schedule keys stay unique, done means applied, and
every job settles. On a lead, only the newest offer is open, an outcome is never overwritten, the
state agrees with the offers, automation climbs one rung at a time and never makes an offer behind a
person, an escalation has an open task, and every offer gets an outcome. In the fact store, the
strongest fact stands whatever overlaps, and a contradiction shown stays shown. One opening is sent,
with one more for each whose transaction was lost; none leaves in a transaction that found a bad
result on file; none is forgotten when the seller's own turn linked the thread. Ladders are ordered and reach to
within a step of the ceiling, a concession is a higher figure once the rise is worth a step, and no
news that is better, or verified, lowers the ceiling. Every message that waits for an answer has a nudge
behind it, on whichever channel the conversation goes on, and every such silence ends in an answer, a
person or STALLED, but for the seller who had two messages in one minute (below, among what was seen); a stalled seller is
not written to.

A car becomes two leads only when its two deliveries were open at once. No price is released on what only the
seller says, or over a contradiction that nobody has been told of: what a price stands on was verified, or put
there by a person's hand, and only a word above a check's takes the place of one. With the patterns reading,
discovery ends for a seller who goes on writing, whatever is written; where people search, verification
does not stand still, unless a person has overruled a check. Whatever the model
writes, what reaches the seller is what was decided, every message ends, and the model is shown every
message on record.

*They fail*, each in a run of its own:

1. `deal_reply_lost`: a reply read as acceptance or rejection sets the outcome of the newest offer
   without looking at it (`conversation/service.py:1436`). If a person or the expiry job set one
   first, the trigger raises, the turn and the message it recorded are rolled back, and so is every
   retry until the job is dead: the seller's yes is nowhere on record, against `service.py:684` and
   `README.md:81`.
2. `deal_stop`: a valuation job already queued when the seller says STOP can escalate the archived lead
   (`valuation/service.py:246`). A person resolves the task and returns it to automation, and the nudge
   that the acknowledgement of the opt-out queued goes out, against `conversation/templates.py:292`.
3. `discovery_stuck`: the valuation is queued by the turn in which the last check is found in
   (`conversation/service.py:1153`). When a search completes the checks after that turn, nothing is queued
   (`enrichment/pipeline.py:241`): the lead stays in VERIFICATION with everything known until the seller
   happens to write, although `service.py:96` counts that stage as ours to act on.

### Seen while modelling, and not kept as runs

* `requeue_stale` (`queue/jobs.py:107`) selects without locking and updates by primary key. Between the two,
  another worker's sweep puts the row back and it is claimed; the first sweep then puts it back again, and
  a second worker claims it. `queue/jobs.py:5` promises exactly-once claiming across any number of
  workers; one worker is not affected (`SoloOwnsItsJob`).
* The key of a nudge job is its `run_at` cut to the minute (`conversation/service.py:404`), and `enqueue` does
  nothing while a job with that key is queued or running (`queue/jobs.py:45`). After two messages in one
  minute there is one job, the first one's. It comes before the silence after the second is up, defers, and
  what it queues has its own key: nothing is queued, and the seller is neither nudged nor stalled until
  somebody writes, against `conversation/service.py:344` ("an early firing reschedules itself"),
  `docs/PHASES.md:78` and `README.md:354`. `tests/test_phase6.py:163` calls `nudge` without a running job. Drop
  `~crowded` from `SilenceIsHeld` and TLC finds it in six states, two offers of one minute among them.
* The console's "Record as verified" makes a fact an inspection (`console/routes.py:800`), which ranks above
  every check, while `verification_outstanding` waits for a fact of the check itself
  (`conversation/state.py:113`, `facts/fields.py:80`). A finance answer recorded so is never superseded by a
  certificate: the valuation is VERIFIED and `missing_for_release` is empty, which "means the valuation can be
  released" (`valuation/service.py:142`), but `on_priced` finds VERIFICATION and does nothing, and searching
  again does not help. This is what `Overruled` sets aside in `VerificationMoves`.
* `send_opening` sends with the stage NEW (`conversation/service.py:672`), and a nudge job is queued only for
  a stage in `WAITING_STATES` (`:637`). A seller who never answers the opening is not chased and the lead
  stays CONTACTED without a task; `README.md:354` promises three nudges.
* A nudge finds its words by `leads.state` (`conversation/service.py:366`), which stays OFFER_MADE or
  NEGOTIATING when the offer expires: the message that announces the lapse itself queues the nudge that
  says "that offer still stands" (`conversation/templates.py:242`).
* The SMS thread is committed even when the message that opened it is refused, by the gate or the transport
  (`conversation/service.py:421`). The next message starts on that thread and carries no introduction,
  against the comment at `:596`. `Delivery` therefore speaks of threads.
* A draft that fits Messenger can be too long once it is moved to SMS with its introduction. The second look
  at the gate then calls a person; the script, which would fit, is not tried.
* A seller's number that has a thread of another lead, or of none, cannot be moved to: the insert violates
  `uq_threads_channel_external` (`models.py:207`) at every try, and the message is dead.
* The message at the ceiling says there is no room. After a person's offer below the last step it is not
  true, the gate refuses it, script and all, and the seller gets nothing but a task for a person.
* The form of the console stands the listing's item number in for the seller (`console/routes.py:421`), and
  its comment says that the same listing added twice is caught. A link without that number makes a seller of
  its own each time: the listing becomes two leads. The platform's own seller id is never equal to either.
* The tolerance on odometers is not transitive, and a duplicate that is delivered again after the window has
  passed is a new lead.
* A certificate that contradicts the seller's year or odometer leaves the lead unpriced with no question
  and no task until the seller writes (`conversation/checks.py:37`).
* Counting turns without progress is one turn later than `config.py:89` says, as a message is later than the
  marks its own transaction leaves. A photograph sent again, or arguing, is progress when a model reads.
* Asked about finance or a write-off, "not sure" is read as no. "2015" in answer to the odometer is 2015 km.
* A figure at or below the offer is taken as acceptance. When only the model sees acceptance together with
  a counter that names no price, it is an acceptance.
* What a person records by hand may rank above a check without being verified: an inspection with
  `verified` false (`api/admin.py:184`) replaces a certificate's answer on a lead that is PRICED, which keeps
  its price. `PricedOnVerifiedFacts` says so.
* A message from before a thread is linked at the console stays without a lead (`api/admin.py:340`): the model
  never sees it, although "nothing is ever dropped" (`conversation/history.py:4`).
* The gate finds no figure in "$15k" or "15,000 dollars" (`conversation/gate.py:16`).
* A valuable lead that was handed back is escalated again by its next enrichment.
* A person links the thread while the opening job queued by the enrichment is running. That job has
  read a lead without a thread and does nothing; the new one is refused by the key; no opening follows
  until the seller writes again. `docs/DECISIONS.md:45` says that the opening fires from whichever is
  last.
* A counter after the lapse is answered with a new automatic offer one rung up; `docs/PHASES.md:65`
  and `:72` leave that to a person. The concession looks at the rung of the newest offer, not at its
  outcome.
* An offer recorded by a person while a yes waits in the queue is the one that is accepted.
* Acceptance at the console writes no packet (`api/admin.py:173`), against `README.md:28`.
* A lead handed back after escalation can reach PRICED by recomputation with nothing queued to present
  the price; the comment at `conversation/service.py:1098` assumes otherwise.
* A reply after the message that closes a lead is recorded and not read, although that message says the
  offer stands (`conversation/templates.py:268`).
* A price request after STALLED is always refused by the gate, since the state is then ENGAGED; after
  expiry the lapsed figure is repeated.
* Between `expires_at` and the expiry job an acceptance is still taken.
* A system offer can follow an accepted one: a revaluation takes an ACCEPTED lead to a person, who
  returns it to automation. The cause is that of finding 2.
* With a handler that overruns the lock, a key may be in use again when the first attempt fails, and
  the refused write ends the worker (`Accepted` is checked for workers that do not).
* Two first rows of a field recorded together both stand. The stronger is read, but the weaker is never
  superseded, so a contradiction between them is not shown. With three overlapping transactions the
  newer of two equally strong statements can rank behind the older, as `recorded_at` is the start of
  the transaction.
* A registry answer that agrees with a claim hides a later one that does not: `README.md:23` and
  `docs/DECISIONS.md:32` differ on whether it should.
* A bad registry answer that arrives after first contact terminates the lead without a word, which
  `docs/DECISIONS.md:263` avoids for a person's certificate. A certificate that races the worker's
  opening terminates the lead, or is overwritten by CONTACTED, depending on which commits last.
* A lead escalated before contact and handed back is ENGAGED with nothing sent, and its replies are
  planned as if it were NEW, with no answer.
* An event delivered again after its job is done runs the whole turn once more; what protects the
  seller from a second opening is the state of the lead (`OpenedOnce`).
* Nudges are counted over the lead's life and not since the seller's last answer, and the count is
  looked at before the clock (`conversation/service.py:357`; the comment at `:343` has it the other
  way): once three have been sent, the next silence is given up as soon as its first job is due.
* A lead that is handed back to automation is not nudged until something is sent to it. A nudge that
  the gate refuses escalates the lead and then overwrites that with STALLED. After the move to SMS, an
  answer that comes by Messenger does not stop the nudges until a turn answers it.
* `last_inbound_at` is the time a message is processed, not the time it was written, so the window is
  taken to be open for longer than Messenger will have it.
* The minimum offer is checked against the opening when a valuation is computed; a concession computed
  from a later row does not look at it (`conversation/service.py:1204`, `:1517`). The newest VERIFIED
  valuation is used even when a newer indicative one exists.
* On a cheap car two rungs are one figure, and a concession repeats it. The shares of the ladder are
  not checked to be ascending.

## 5. Proofs

All theorems hold for every value of the constants that meets the modules' assumptions: any rows,
workers, keys and budgets; any settings, staff, bounds on offers and retries; any sessions and facts;
any messages and number of faults; any market, margin and ladder shares; any cadence, window and
expiry; any required fields, vocabulary and registries; any directives, drafts, lengths and retries; any
web workers, listings, forms and window. The bounds TLC needs (`MaxOffers`, `MaxRows`, `MaxBegins`, `MaxFaults`, `Late`, `Longest`) are
therefore no restriction on them.

**JobQueue.** `TypeCorrect`, `KeysStayUnique` and `DoneIsBacked` hold for any workers that may die,
overrun and sweep. The first invariant adds to the types that a busy worker holds a job. Uniqueness of
keys is inductive with it, because every write that activates a row tests the index. `DoneIsBacked`
needs that a worker past its handler's commit has an attempt on record.

The other theorems are about workers whose handlers meet the lock. None is inductive alone, and they share
one invariant, `Sound`. The row being processed stays the worker's own because no sweep can take it: a lock
grows old only when nobody holds it (`AgedIsOrphan`), and whoever sweeps is the only one at work
(`SweepsAlone`). What a sweep is about to write is therefore still right when it writes it (`PlanFresh`): this
is exactly what a second worker that sweeps destroys. The attempt in hand is the row's latest and has not
committed (`AttemptCurrent`), and no attempt is on record that was not started (`AppliedStarted`). The budget
follows from `Left` having been tested by every write that makes a row runnable. `StepSound` shows that a
step keeps `Sound` if no lock ages under its handler (`InTime`) and nobody works next to a sweep afterwards.

That condition is met in two ways. A single worker meets it by itself: `SoloOwnsItsJob`, `SoloBudget`,
`SoloWritesAccepted` and `SoloKeepsPromise` are about `Spec` with `Workers = {solo}` and `~MayOverrun`. The
deployments of `MCDeployments` meet it each for its own reason, and `Deployed` is their invariant: in "one"
the others are never started (`OneAtWork`); in "fleet", of any size, nobody dies, so that every RUNNING row is
in somebody's hands and no sweep finds anything (`AllAlive`, `NothingStale`). `DeployedOwns`,
`DeployedExclusive`, `DeployedAccepted` and `DeployedBudget` are read off `Sound`. `FleetOnce` needs one thing
more, that a job which took effect is done or about to be recorded as done (`Delivered`), so that no row that
can be claimed again has taken effect. `DeployedKeepsPromise` is the refinement of `DurableQueue`: one step
lemma (`StepPromise`) with a case per action, for both deployments. Of "rough" it claims nothing, as the run.

**Deal.** `OneOffer`, `WriteOnce` and `StateMatches` come from one lemma, `StepKeeps`: every step leaves
the rows as they were or adds one, alters no step, overwrites no outcome and withdraws no packet
(`Kept`). The lemmas on `Settle`, `Present`, acceptance and packets establish that for the operators,
and `OnlyWritesWrite` reduces `Next` to the actions that use them. `StateMatches` adds that a lead
enters ACCEPTED, HANDOFF or REJECTED only by the seller's turn or a person's decision
(`OnlyDecisionsClaim`) and leaves them with any new offer (`AddsLeave`). `TypeCorrect` needs the
invariant `Reserve`: room is kept for the counter that is queued. `LadderIsClimbed` and `NoOfferOverAPerson`
rest on one description of a new offer (`NewOffers`): it is a person's, the next rung above the newest, or the
first rung where there is none, and automation makes the last two only on a lead that is its own.
`EscalationSaysWhy` goes through the ways to HUMAN: a message that is refused raises the task itself
(`RefusalIsRaised`), and each of the others adds one after what it resolves.

**FactStore.** `Strongest` rests on `Top`: some standing row is as strong as every row. A row that loses
its standing loses it to one at least as strong, and only once. That the row `current_fact` picks
exists although two may stand needs a greatest element of a bounded set of naturals (`Greatest`), for
rank and then for time. `Preserved` needs that rows are never lost, and that a superseder, once
written, is the same for ever.

**Ingestion.** `TwiceOnlyByOverlap` is about the part of `MCFactStore` that ingests, whose constants are
parameters there. Being open together is recorded when the later of two deliveries is opened, and the rest
is to show that this was in time. The invariant `Overlaps` says so of each pair a delivery can be half of: two
that are open (`OpenTogether`), one that is open and a lead of a later one (`OvertakenTogether`), and one that
has looked and found nothing and a lead of an earlier one that it would have found now (`LookedTogether`). The
last is where the fingerprint matters: whatever is the same car is a candidate (`EarlierIsCandidate`), the
odometer's tolerance included (`SameOdometer`).

**Intake.** `Once` and `BadUnopened` come from `Fresh`: while the lead is NEW every opening that left
was lost and no bad result is on file; a transaction that read NEW and is still open was right about
both; and once the state is not NEW no transaction that read otherwise brings it back. The last part is
what makes stale snapshots harmless to the opening: `Written` writes what the transaction changed, and
nothing changes a lead to NEW.

**Valuation.** `TypeCorrect` carries along that every figure of a row is what the engine makes of the row's
inputs (`Figured`); the other three are then facts of arithmetic, for any market, margin and sequence of
facts. A rung of a larger share is no lower, and higher when the difference is worth a step
(`FloorMono`); `LaddersOrdered` and `EveryConcessionMoves` assume that the shares are configured in
ascending order, which the code does not check. `BetterNewsCounts` follows the ceiling line by line:
no deduction, cost or contingency rate grows with better news (`CutsMono`, `CostsMono`, `RateMono`),
lines rounded to the cent keep that order (`PermilleMono`), and so does taking the margin, even below
zero (`KeptMono`).

**Outreach.** `SilenceHeld` assumes that no silence of the cadence is shorter than the one before (`Widening`),
as the code's default is; the settings could be otherwise. It is not inductive: that a deferred job leaves
another behind depends on the other's being of a later minute than its own. `Chased` adds that no job is due
later than the nudge that the last message calls for, and that none of that very minute is due before it
(`Bounded`). A message that leaves a minute or more after the one before keeps that, since its job is then
the latest (`MessageChased`); the clock moves the nudge and the jobs alike (`TickChased`); a job that comes too
early is of an earlier minute than the one it queues (`DeferralChased`), and a nudge is followed by one of a
later minute because a cadence has no silence of none (`NudgeChased`). A failure is a person's business, and a
turn that writes nothing has heard the seller. `StalledLeftAlone` looks at each action from a
stalled lead: turns leave the state before anything is sent, and the jobs do nothing in it.
`TypeCorrect` of this module and of `Intake` stand for any constants, and no run repeats them.

**Discovery.** `ScreensHold`, `NothingToAccept` and `FigureIsNotOverlooked` are about a single reading, for
any message and any answer of the model's: the first follows from `MergedFlags` being a union, the second
from the filter both readings apply while there is no price, the third from the order in which an offer's
reply is taken. `PriceStandsOnVerifiedFacts` is not inductive. `Priced` adds that a verified valuation on
record means that what a release needs is on somebody's word other than the seller's now. It stays so
because facts only give way to facts that rank no lower (`RankRises`, `BackedIsShown`), and for the same reason a
field that was checked is held by its check or a word above it (`StaysChecked`, `UncheckedOrChecked`). `DisputesComeFirst` follows from
`compute_stage` looking at contradictions before anything else, and from a turn recomputing its stage after
it has recorded what it heard. `DiscoveryTypes` says more than that variables have their types: a question is
only ever asked about a field that is on the sheet, because while the stage is DISCOVERY a required field is
still outstanding, known to be the first of them (`FirstIsRequired`). It assumes of the constants only that
what messages and searches tell of a field are values of it (`ValuesAssumption`), which TLC evaluates.

**Drafts.** The inductive invariant `DraftsInv` says that one thing is due at a time, that a transaction's
text is its script or, where the model may word it, a draft (`TxOK`), and that nothing is on record on SMS
before the lead has a thread there (`ThreadsOK`). What the gate clears is faithful (`ClearedIsFaithful`:
its rules bind the model and the script alike), and the introduction keeps that and adds who writes
(`OutgoingKeeps`). `StepDelivers` then maps each action to a step of `Delivery` or a stutter.

`NothingDropped` has two halves. That a summary tells of the messages up to `through` and of no others, on
record and in the open transaction, is inductive with `DraftsInv` (`WholeInv`): what is folded is folded in
order, and a rolled back transaction takes its summary and its position back together. That the prompt then
holds every message, in turns that alternate, is a fact about sequences: `RoleByTurn` finds the least message
whose side does not go with the number of its turn, `TurnIsTaken` the first message of each turn, and
`OpenedAlternates`, `ClosedAlternates` and `PromptIsWhole` add the seller in front, behind, and the pairs that
follow a refused draft. `Joined` is written without recursion for this proof.

**Only model-checked.** Liveness: `RoughlySettles`, `OfferSettles`, `OpeningFollows`, `SilenceEnds`,
`DiscoveryEnds`, `VerificationMoves` and `MessagesSettle`, which TLAPS does not do under fairness. That `Joined` is
the loop it stands for, which is recursive, is evaluated by TLC for short histories.

## 6. Not modelled

Prompts and templates, the packet's content, the words of each class the patterns look for, plates, VINs and
digits, the blend of market data, calibration, the two settings a person can change (read anew in every
transaction), which named buyer a lead gets, what the transports' services do, the retries inside the
model's client library, signatures and signing in, the HTML, observability and the offline tools: wording,
values, pure I/O, or read-only. Turns that overlap on one lead after first contact (item 10 of the plan) and
offers with the figures they were cut from (item 11) would be models of their own. `PROJECT.json` gives the
reason for each component.
