-------------------------------- MODULE Intake --------------------------------
(***************************************************************************)
(* From a listing to the first message: the enrich_lead job, the opening,  *)
(* the seller who writes first, and the people at the console              *)
(* (enrichment/pipeline.py, conversation/service.py, conversation/checks.py*)
(* api/admin.py).  One worker, as the deployment has it: its transactions  *)
(* follow one another, and overlap with the console's.                     *)
(*                                                                         *)
(* A transaction reads the lead when it begins and writes leads.state when *)
(* it commits, and only if it changed it; no row is locked in between.     *)
(* Every stage of a conversation under way is ENGAGED here; what happens   *)
(* in it is module Deal.  The listing is stored and its enrich_lead job    *)
(* queued before the first state.                                          *)
(***************************************************************************)
EXTENDS Naturals

CONSTANTS
    Messages,   \* what the seller writes: the ids of the channel
    Staff,      \* the operations people use at the console
    Listed,     \* the listing carries a VIN or a rego
    MaxFaults   \* bound: transactions that fail or workers that die

ASSUME IntakeAssumption ==
    /\ Messages \cap {"enrich", "opening"} = {} /\ Staff \subseteq {"link", "checks", "resolve"}
    /\ Listed \in BOOLEAN /\ MaxFaults \in Nat

VARIABLES
    state,       \* leads.state
    enriched,    \* enriched_at is set
    known,       \* a VIN, or a rego that may resolve to one, is on file
    bad,         \* the PPSR facts on file say stolen or written off
    thread,      \* the seller's thread: none, unlinked, or linked by a turn or by a person
    waiting,     \* the seller has written, and was neither answered nor left to a person since
    contacted,   \* an outbound message is on record
    tasks,       \* an escalation or task is open
    jobs,        \* per dedupe key, its active job
    work,        \* the worker's job, and what the open transaction read
    console,     \* the console's open transaction, and what it read
    sent,        \* openings that went out
    unrecorded,  \* ... whose transaction was rolled back
    faults

record  == <<enriched, known, bad, thread>>
contact == <<waiting, contacted, sent, unrecorded>>
vars    == <<state, record, contact, tasks, jobs, work, console, faults>>

Keys       == {"enrich", "opening"} \cup Messages
LeadStates == {"NEW", "CONTACTED", "ENGAGED", "HUMAN", "ARCHIVED", "TERMINATED"}
Closed     == {"ARCHIVED", "TERMINATED"}
Statuses   == {"idle", "queued", "running", "stale"}
Threads    == {"none", "unlinked", "turn", "person"}
Linked     == {"turn", "person"}

Idle     == [phase |-> "idle"]
Handling == [phase : {"handling"}, job : Keys, state : LeadStates, enriched : BOOLEAN,
             known : BOOLEAN, bad : BOOLEAN, thread : Threads]
Handled  == [phase : {"handled"}, job : Keys]
Requests == [phase : {"checks", "resolve"}, state : LeadStates, contacted : BOOLEAN]

TypeOK ==
    /\ state \in LeadStates /\ enriched \in BOOLEAN /\ known \in BOOLEAN
    /\ bad \in BOOLEAN /\ thread \in Threads
    /\ waiting \in BOOLEAN /\ contacted \in BOOLEAN /\ tasks \in BOOLEAN
    /\ jobs \in [Keys -> Statuses]
    /\ work \in {Idle} \cup Handling \cup Handled
    /\ work # Idle => jobs[work.job] = "running"
    /\ console \in {Idle} \cup Requests
    /\ sent \in Nat /\ unrecorded \in Nat /\ faults \in 0 .. MaxFaults

Init ==
    /\ state = "NEW" /\ enriched = FALSE /\ known = Listed /\ bad = FALSE
    /\ thread = "none" /\ waiting = FALSE /\ contacted = FALSE /\ tasks = FALSE
    /\ jobs = [k \in Keys |-> IF k = "enrich" THEN "queued" ELSE "idle"]
    /\ work = Idle /\ console = Idle /\ sent = 0 /\ unrecorded = 0 /\ faults = 0

-----------------------------------------------------------------------------
(* The worker's loop and the queue.                                        *)

\* A key that is active, running included, refuses the new job.
Enqueued(K) == [k \in Keys |-> IF k \in K /\ jobs[k] = "idle" THEN "queued" ELSE jobs[k]]

\* The webhook queues a message, or one that is delivered again.
Arrive(m) ==
    /\ jobs[m] = "idle"
    /\ jobs' = Enqueued({m})
    /\ UNCHANGED <<state, record, contact, tasks, work, console, faults>>

\* The job is claimed and its handler reads the lead.
Claim(k) ==
    /\ work = Idle /\ jobs[k] = "queued"
    /\ jobs' = [jobs EXCEPT ![k] = "running"]
    /\ work' = [phase |-> "handling", job |-> k, state |-> state, enriched |-> enriched,
                known |-> known, bad |-> bad, thread |-> thread]
    /\ UNCHANGED <<state, record, contact, tasks, console, faults>>

\* The handler commits; a transaction of its own then completes the job.
Commits == work' = [phase |-> "handled", job |-> work.job] /\ UNCHANGED <<console, faults>>

Finish ==
    /\ work.phase = "handled"
    /\ jobs' = [jobs EXCEPT ![work.job] = "idle"] /\ work' = Idle
    /\ UNCHANGED <<state, record, contact, tasks, console, faults>>

Runs(K)  == work.phase = "handling" /\ work.job \in K
Openable == work.state = "NEW" /\ work.enriched

\* The transaction would send the opening.
Sends == Runs(Keys \ {"enrich"}) /\ Openable /\ (work.job = "opening" => work.thread \in Linked)

\* The handler raises and backs off, or the worker dies and the job waits for
\* the sweep; the opening it was sending may have gone out.
Interrupted ==
    /\ work.phase # "idle" /\ faults < MaxFaults
    /\ faults' = faults + 1
    /\ \E s \in IF work.phase = "handling" THEN {"queued", "stale"} ELSE {"stale"} :
         jobs' = [jobs EXCEPT ![work.job] = s]
    /\ \E gone \in IF Sends THEN {0, 1} ELSE {0} :
         sent' = sent + gone /\ unrecorded' = unrecorded + gone
    /\ work' = Idle
    /\ UNCHANGED <<state, record, waiting, contacted, tasks, console>>

\* Ten minutes after the claim a job whose worker died is put back.
Sweep(k) ==
    /\ jobs[k] = "stale"
    /\ jobs' = [jobs EXCEPT ![k] = "queued"]
    /\ UNCHANGED <<state, record, contact, tasks, work, console, faults>>

\* leads.state as the transaction that read it as old leaves it.
Written(old, new) == IF new = old THEN state ELSE new

\* escalate: a row, and the state unless it is there already for that reason.
Escalate(old) ==
    /\ tasks' = TRUE
    /\ state' \in IF old = "HUMAN" THEN {state, "HUMAN"} ELSE {"HUMAN"}

-----------------------------------------------------------------------------
(* enrich_lead                                                             *)

EnrichSkips ==
    /\ Runs({"enrich"}) /\ work.state \in Closed
    /\ Commits /\ UNCHANGED <<state, record, contact, tasks, jobs>>

Enriches == Runs({"enrich"}) /\ work.state \notin Closed

\* The register cannot be asked, for good.
EnrichUnavailable ==
    /\ Enriches /\ work.known
    /\ Escalate(work.state)
    /\ Commits /\ UNCHANGED <<record, contact, jobs>>

EnrichBadNoted ==    \* mutant: recorded, and the lead goes on
    /\ Enriches /\ work.known
    /\ bad' = TRUE /\ enriched' = TRUE /\ UNCHANGED state
    /\ Commits /\ UNCHANGED <<known, thread, contact, tasks, jobs>>

\* Stolen or written off: terminated, whatever the state.
EnrichBad ==
    /\ Enriches /\ work.known
    /\ bad' = TRUE /\ enriched' = TRUE
    /\ state' = Written(work.state, "TERMINATED")
    /\ Commits /\ UNCHANGED <<known, thread, contact, tasks, jobs>>

EnrichQuietly ==    \* mutant: the opening is left to the thread's link
    /\ Enriches
    /\ bad' \in IF work.known THEN {bad, FALSE} ELSE {bad}
    /\ enriched' = TRUE
    /\ UNCHANGED <<state, tasks, jobs>>
    /\ Commits /\ UNCHANGED <<known, thread, contact>>

\* The register is clear, or it was not asked: no VIN yet, or a person does it.
\* A car above the threshold goes to a person, before contact or after.
EnrichDone ==
    /\ Enriches
    /\ bad' \in IF work.known THEN {bad, FALSE} ELSE {bad}
    /\ enriched' = TRUE
    /\ \/ Escalate(work.state) /\ UNCHANGED jobs
       \/ /\ jobs' = Enqueued(IF work.state = "NEW" THEN {"opening"} ELSE {})
          /\ UNCHANGED <<state, tasks>>
    /\ Commits /\ UNCHANGED <<known, thread, contact>>

-----------------------------------------------------------------------------
(* send_opening, and maybe_send_opening                                    *)

\* The message goes out, or it is refused and a person has the lead.
Opening(unanswered) ==
    \/ /\ sent' = sent + 1 /\ contacted' = TRUE /\ waiting' = FALSE
       /\ state' = Written(work.state, "CONTACTED")
       /\ UNCHANGED <<unrecorded, tasks>>
    \/ /\ Escalate(work.state) /\ waiting' = unanswered
       /\ UNCHANGED <<sent, unrecorded, contacted>>

OpenRegardless ==    \* mutant: the job sends without looking at the state
    /\ Runs({"opening"}) /\ work.enriched /\ work.thread \in Linked
    /\ Opening(waiting)
    /\ Commits /\ UNCHANGED <<record, jobs>>

OpenNow ==
    /\ Runs({"opening"}) /\ Sends
    /\ Opening(waiting)
    /\ Commits /\ UNCHANGED <<record, jobs>>

\* The channel's window is closed: a task.
OpenLate ==
    /\ Runs({"opening"}) /\ Sends
    /\ tasks' = TRUE /\ waiting' = FALSE
    /\ Commits /\ UNCHANGED <<state, record, contacted, sent, unrecorded, jobs>>

OpenSkips ==
    /\ Runs({"opening"}) /\ ~Sends
    /\ Commits /\ UNCHANGED <<state, record, contact, tasks, jobs>>

-----------------------------------------------------------------------------
(* handle_inbound                                                          *)

\* No lead is found for the thread: the message is recorded without one.
TurnUnlinked ==
    /\ Runs(Messages) /\ work.thread \notin Linked
    /\ thread' = IF thread = "none" THEN "unlinked" ELSE thread
    /\ waiting' = TRUE
    /\ Commits /\ UNCHANGED <<state, enriched, known, bad, contacted, sent, unrecorded, tasks, jobs>>

\* link_thread, by the referral or the platform id: the opening is queued.
Linking     == IF work.thread \in Linked THEN {} ELSE {"opening"}
LinksThread == thread' = IF thread \in Linked THEN thread ELSE "turn"

TurnIgnored ==
    /\ Runs(Messages) /\ work.state \in Closed \cup {"HUMAN"}
    /\ LinksThread /\ jobs' = Enqueued(Linking) /\ waiting' = TRUE
    /\ Commits /\ UNCHANGED <<state, enriched, known, bad, contacted, sent, unrecorded, tasks>>

\* STOP: acknowledged, or refused with an escalation, and archived either way.
TurnStop ==
    /\ Runs(Messages) /\ work.state \notin Closed \cup {"HUMAN"}
    /\ LinksThread /\ jobs' = Enqueued(Linking)
    /\ \/ contacted' = TRUE /\ waiting' = FALSE /\ UNCHANGED tasks
       \/ tasks' = TRUE /\ waiting' = TRUE /\ UNCHANGED contacted
    /\ state' = Written(work.state, "ARCHIVED")
    /\ Commits /\ UNCHANGED <<enriched, known, bad, sent, unrecorded>>

\* The seller asks for a person, and may be answered; or a word escalates.
TurnPerson ==
    /\ Runs(Messages) /\ work.state \notin Closed \cup {"HUMAN"}
    /\ LinksThread /\ jobs' = Enqueued(Linking)
    /\ Escalate(work.state)
    /\ \/ contacted' = TRUE /\ waiting' = FALSE
       \/ waiting' = TRUE /\ UNCHANGED contacted
    /\ Commits /\ UNCHANGED <<enriched, known, bad, sent, unrecorded>>

\* A rego or a VIN in the message is a reason to enrich again.
Learns(K) ==
    \/ UNCHANGED known /\ jobs' = Enqueued(Linking \cup K)
    \/ known' = TRUE /\ jobs' = Enqueued(Linking \cup K \cup {"enrich"})

\* The seller wrote first: answered with the opening once enrichment is done.
TurnNew ==
    /\ Runs(Messages) /\ work.state = "NEW"
    /\ LinksThread
    /\ \/ work.enriched /\ Learns({}) /\ Opening(TRUE)
       \/ /\ ~work.enriched /\ Learns({"opening"}) /\ waiting' = TRUE
          /\ UNCHANGED <<state, tasks, contacted, sent, unrecorded>>
    /\ Commits /\ UNCHANGED <<enriched, bad>>

\* The conversation goes on: a reply, an escalation, or nothing to say.  With no
\* outbound message on record the stage is still NEW and there is no reply.
TurnTalk ==
    /\ Runs(Messages) /\ work.state \in {"CONTACTED", "ENGAGED"}
    /\ LinksThread /\ Learns({})
    /\ \/ /\ waiting' \in IF contacted THEN {TRUE, FALSE} ELSE {TRUE}
          /\ state' = Written(work.state, "ENGAGED") /\ UNCHANGED tasks
       \/ waiting' = TRUE /\ Escalate(work.state)
    /\ Commits /\ UNCHANGED <<enriched, bad, contacted, sent, unrecorded>>

-----------------------------------------------------------------------------
(* People at the console; a request is one transaction.                    *)

LinkThread ==
    /\ "link" \in Staff /\ thread = "unlinked"
    /\ thread' = "person" /\ jobs' = Enqueued({"opening"})
    /\ UNCHANGED <<state, enriched, known, bad, contact, tasks, work, console, faults>>

Request(op) ==
    /\ op \in Staff /\ console = Idle
    /\ op = "checks" => state \notin Closed
    /\ op = "resolve" => tasks
    /\ console' = [phase |-> op, state |-> state, contacted |-> contacted]
    /\ UNCHANGED <<state, record, contact, tasks, jobs, work, faults>>

Responds == console' = Idle /\ UNCHANGED <<thread, enriched, contact, jobs, work, faults>>

\* record_checks, with a clear certificate: the tasks it answers come later.
ChecksClear ==
    /\ console.phase = "checks"
    /\ bad' = FALSE /\ known' \in {known, TRUE}
    /\ Responds /\ UNCHANGED <<state, tasks>>

\* Stolen or written off: ended before contact, a person's afterwards.  The
\* outbound messages are counted after the lead was read.
ChecksBad ==
    /\ console.phase = "checks"
    /\ bad' = TRUE /\ known' \in {known, TRUE}
    /\ \E seen \in {console.contacted, contacted} :
         \/ /\ console.state = "NEW" /\ ~seen
            /\ state' = "TERMINATED" /\ UNCHANGED tasks
         \/ (console.state # "NEW" \/ seen) /\ Escalate(console.state)
    /\ Responds

\* resolve_escalation: the last one may return the lead to automation.
Resolve(back) ==
    /\ console.phase = "resolve"
    /\ tasks' \in {tasks, FALSE}
    /\ state' = IF back /\ console.state = "HUMAN" /\ ~tasks' THEN "ENGAGED" ELSE state
    /\ Responds /\ UNCHANGED <<known, bad>>

-----------------------------------------------------------------------------
Handle ==
    \/ EnrichSkips \/ EnrichUnavailable \/ EnrichBad \/ EnrichDone
    \/ OpenNow \/ OpenLate \/ OpenSkips
    \/ TurnUnlinked \/ TurnIgnored \/ TurnStop \/ TurnPerson \/ TurnNew \/ TurnTalk

Person == LinkThread \/ (\E op \in {"checks", "resolve"} : Request(op))
              \/ ChecksClear \/ ChecksBad \/ \E back \in BOOLEAN : Resolve(back)

Next ==
    \/ \E m \in Messages : Arrive(m)
    \/ \E k \in Keys : Claim(k) \/ Sweep(k)
    \/ Handle \/ Finish \/ Interrupted \/ Person

Spec == Init /\ [][Next]_vars

\* The worker takes due jobs in the order of run_at, so every queued one is
\* claimed in the end; its handlers and the sweep do not stop.
FairSpec == Spec /\ WF_vars(Handle) /\ WF_vars(Finish)
                 /\ \A k \in Keys : SF_vars(Claim(k)) /\ WF_vars(Sweep(k))

-----------------------------------------------------------------------------
(* PROPERTIES *)

\* Three paths send the opening, and the job that does is queued by four: the
\* seller is sent one, and another only for one whose transaction was lost.
OpenedOnce == sent <= unrecorded + 1

\* "A written-off or stolen result ends the lead before a message is ever sent"
\* (README.md:20): no opening goes out in a transaction that began with such a
\* result on file, whichever of the pipeline and a person put it there.
BadCarNotOpened == [][sent' > sent => ~work.bad]_vars

Unopened == state = "NEW" /\ enriched /\ waiting

\* A seller who wrote first, and whose thread the turn linked, is sent the opening
\* when enrichment is done, or a person is told; deaths of the worker included.
OpeningFollows == (Unopened /\ thread = "turn") ~> ~Unopened
=============================================================================
