---------------------------- MODULE IntakeProofs ----------------------------
(***************************************************************************)
(* However many messages arrive, whatever people do and however often the  *)
(* worker dies, one opening is recorded, and none is sent in a transaction *)
(* that began with a stolen or written-off car on file.  The invariant     *)
(* (Fresh) is about NEW: nothing brings a lead back to it, so a            *)
(* transaction that read another state will never meet it again, and until *)
(* it is left no opening is on record and no bad result on file.           *)
(***************************************************************************)
EXTENDS Intake, TLAPS

\* What the worker holds while a handler runs.
LEMMA Holding ==
    ASSUME TypeOK, work.phase = "handling"
    PROVE  /\ work \in Handling /\ work # Idle /\ work.job \in Keys /\ jobs[work.job] = "running"
           /\ work.state \in LeadStates /\ work.enriched \in BOOLEAN /\ work.known \in BOOLEAN
           /\ work.bad \in BOOLEAN /\ work.thread \in Threads
BY DEF TypeOK, Idle, Handling, Handled

\* Queueing jobs disturbs no job that is running.
LEMMA Queueing ==
    ASSUME TypeOK, NEW K
    PROVE  /\ Enqueued(K) \in [Keys -> Statuses]
           /\ \A k \in Keys : jobs[k] = "running" => Enqueued(K)[k] = "running"
BY DEF TypeOK, Enqueued, Statuses

\* A handler that commits still has its job marked as running.
LEMMA Committed ==
    ASSUME TypeOK, work.phase = "handling", Commits,
           \/ UNCHANGED jobs
           \/ \E K \in SUBSET Keys : jobs' = Enqueued(K)
    PROVE  /\ jobs' \in [Keys -> Statuses]
           /\ work' \in Handled /\ work'.phase = "handled"
           /\ work' # Idle => jobs'[work'.job] = "running"
           /\ console' \in {Idle} \cup Requests /\ faults' \in 0 .. MaxFaults
<1>1. work.job \in Keys /\ jobs[work.job] = "running"
  BY Holding
<1>2. work' \in Handled /\ work'.job = work.job /\ work'.phase = "handled"
  BY <1>1 DEF Commits, Handled
<1>3. jobs' \in [Keys -> Statuses] /\ jobs'[work.job] = "running"
  BY <1>1, Queueing DEF TypeOK
<1> QED BY <1>2, <1>3 DEF TypeOK, Commits

\* The states a transaction may leave are states.
LEMMA StateType ==
    ASSUME TypeOK, NEW old, NEW new \in LeadStates
    PROVE  /\ Written(old, new) \in LeadStates
           /\ Escalate(old) => state' \in LeadStates /\ tasks' \in BOOLEAN
BY DEF TypeOK, Written, Escalate, LeadStates

\* A job's keys, for the actions that queue some.
LEMMA KeySets ==
    /\ Linking \in SUBSET Keys
    /\ \A K \in SUBSET Keys : Linking \cup K \in SUBSET Keys /\ Linking \cup K \cup {"enrich"} \in SUBSET Keys
    /\ {"opening"} \in SUBSET Keys /\ {} \in SUBSET Keys
BY DEF Linking, Keys

\* A message teaches something or it does not.
LEMMA Learning ==
    ASSUME TypeOK, NEW K \in SUBSET Keys, Learns(K)
    PROVE  known' \in BOOLEAN /\ \E L \in SUBSET Keys : jobs' = Enqueued(L)
<1>1. CASE known' = known /\ jobs' = Enqueued(Linking \cup K)
  BY <1>1, KeySets DEF TypeOK
<1>2. CASE known' = TRUE /\ jobs' = Enqueued(Linking \cup K \cup {"enrich"})
  BY <1>2, KeySets
<1> QED BY <1>1, <1>2 DEF Learns

\* What send_opening leaves.
LEMMA OpeningType ==
    ASSUME TypeOK, NEW b \in BOOLEAN, Opening(b)
    PROVE  /\ state' \in LeadStates /\ tasks' \in BOOLEAN /\ waiting' \in BOOLEAN
           /\ contacted' \in BOOLEAN /\ sent' \in Nat /\ unrecorded' \in Nat
<1>1. CASE /\ sent' = sent + 1 /\ contacted' = TRUE /\ waiting' = FALSE
           /\ state' = Written(work.state, "CONTACTED") /\ UNCHANGED <<unrecorded, tasks>>
  <2>1. Written(work.state, "CONTACTED") \in LeadStates
    BY StateType DEF LeadStates
  <2>2. sent' \in Nat
    BY <1>1 DEF TypeOK
  <2> QED BY <1>1, <2>1, <2>2 DEF TypeOK
<1>2. CASE Escalate(work.state) /\ waiting' = b /\ UNCHANGED <<sent, unrecorded, contacted>>
  BY <1>2, StateType DEF TypeOK, LeadStates
<1> QED BY <1>1, <1>2 DEF Opening

\* A handler's transaction keeps the types.
LEMMA HandleTyped == TypeOK /\ Handle => TypeOK'
<1> SUFFICES ASSUME TypeOK, Handle PROVE TypeOK'
  OBVIOUS
<1> USE DEF record, contact
<1>0. work.phase = "handling" /\ Commits
  BY DEF Handle, EnrichSkips, EnrichUnavailable, EnrichBad, EnrichDone, OpenNow, OpenLate,
     OpenSkips, TurnUnlinked, TurnIgnored, TurnStop, TurnPerson, TurnNew, TurnTalk, Runs, Enriches
<1>a. \A s \in {"TERMINATED", "CONTACTED", "ARCHIVED", "ENGAGED"} :
         Written(work.state, s) \in LeadStates
  BY StateType DEF LeadStates
<1>b. Escalate(work.state) => state' \in LeadStates /\ tasks' \in BOOLEAN
  BY StateType DEF LeadStates
<1> DEFINE Parts == /\ \/ UNCHANGED jobs
                       \/ \E K \in SUBSET Keys : jobs' = Enqueued(K)
                    /\ state' \in LeadStates /\ enriched' \in BOOLEAN /\ known' \in BOOLEAN
                    /\ bad' \in BOOLEAN /\ thread' \in Threads
                    /\ waiting' \in BOOLEAN /\ contacted' \in BOOLEAN /\ tasks' \in BOOLEAN
                    /\ sent' \in Nat /\ unrecorded' \in Nat
<1>c. SUFFICES Parts
  <2> SUFFICES ASSUME Parts PROVE TypeOK'
    OBVIOUS
  <2>1. /\ jobs' \in [Keys -> Statuses] /\ work' \in Handled
        /\ work' # Idle => jobs'[work'.job] = "running"
        /\ console' \in {Idle} \cup Requests /\ faults' \in 0 .. MaxFaults
    BY <1>0, Committed
  <2> QED BY <2>1 DEF TypeOK
<1> USE <1>a, <1>b DEF TypeOK
<1>1. CASE EnrichSkips
  BY <1>1 DEF EnrichSkips
<1>2. CASE EnrichUnavailable
  BY <1>2 DEF EnrichUnavailable
<1>3. CASE EnrichBad
  BY <1>3 DEF EnrichBad
<1>4. CASE EnrichDone
  <2>1. bad' \in BOOLEAN
    BY <1>4 DEF EnrichDone
  <2>2. CASE Escalate(work.state) /\ UNCHANGED jobs
    BY <1>4, <2>1, <2>2 DEF EnrichDone
  <2>3. CASE /\ jobs' = Enqueued(IF work.state = "NEW" THEN {"opening"} ELSE {})
             /\ UNCHANGED <<state, tasks>>
    BY <1>4, <2>1, <2>3, KeySets DEF EnrichDone
  <2> QED BY <1>4, <2>2, <2>3 DEF EnrichDone
<1>5. CASE OpenNow
  BY <1>5, OpeningType DEF OpenNow
<1>6. CASE OpenLate
  BY <1>6 DEF OpenLate
<1>7. CASE OpenSkips
  BY <1>7 DEF OpenSkips
<1>8. CASE TurnUnlinked
  BY <1>8 DEF TurnUnlinked, Threads
<1> DEFINE Links == LinksThread => thread' \in Threads
<1>d. Links
  BY DEF LinksThread, Threads
<1>9. CASE TurnIgnored
  BY <1>9, <1>d, KeySets DEF TurnIgnored
<1>10. CASE TurnStop
  BY <1>10, <1>d, KeySets DEF TurnStop
<1>11. CASE TurnPerson
  BY <1>11, <1>d, KeySets DEF TurnPerson
<1>12. CASE TurnNew
  <2>1. CASE work.enriched /\ Learns({}) /\ Opening(TRUE)
    BY <1>12, <1>d, <2>1, KeySets, Learning, OpeningType DEF TurnNew
  <2>2. CASE /\ ~work.enriched /\ Learns({"opening"}) /\ waiting' = TRUE
             /\ UNCHANGED <<state, tasks, contacted, sent, unrecorded>>
    BY <1>12, <1>d, <2>2, KeySets, Learning DEF TurnNew
  <2> QED BY <1>12, <2>1, <2>2 DEF TurnNew
<1>13. CASE TurnTalk
  <2>1. known' \in BOOLEAN /\ \E L \in SUBSET Keys : jobs' = Enqueued(L)
    BY <1>13, KeySets, Learning DEF TurnTalk
  <2>2. waiting' \in BOOLEAN /\ state' \in LeadStates /\ tasks' \in BOOLEAN
    BY <1>13 DEF TurnTalk
  <2> QED BY <1>13, <1>d, <2>1, <2>2 DEF TurnTalk
<1> HIDE DEF Parts
<1> QED BY <1>1, <1>2, <1>3, <1>4, <1>5, <1>6, <1>7, <1>8, <1>9, <1>10, <1>11, <1>12, <1>13 DEF Handle

\* People's requests keep the types.
LEMMA PersonTyped == TypeOK /\ Person => TypeOK'
<1> SUFFICES ASSUME TypeOK, Person PROVE TypeOK'
  OBVIOUS
<1> USE DEF record, contact
<1>1. CASE LinkThread
  <2>1. jobs' \in [Keys -> Statuses] /\ (work # Idle => jobs'[work.job] = "running")
    <3>1. work # Idle => work.job \in Keys /\ jobs[work.job] = "running"
      BY DEF TypeOK, Handling, Handled
    <3> QED BY <1>1, <3>1, Queueing DEF LinkThread
  <2> QED BY <1>1, <2>1 DEF LinkThread, TypeOK, Threads
<1>2. CASE \E op \in {"checks", "resolve"} : Request(op)
  <2>1. console' \in Requests
    BY <1>2 DEF Request, Requests, TypeOK
  <2> QED BY <1>2, <2>1 DEF Request, TypeOK
<1>3. CASE ChecksClear
  BY <1>3 DEF ChecksClear, Responds, TypeOK
<1>4. CASE ChecksBad
  <2>1. state' \in LeadStates /\ tasks' \in BOOLEAN
    BY <1>4, StateType DEF ChecksBad, TypeOK, LeadStates
  <2>2. known' \in BOOLEAN /\ bad' \in BOOLEAN
    BY <1>4 DEF ChecksBad, TypeOK
  <2> QED BY <1>4, <2>1, <2>2 DEF ChecksBad, Responds, TypeOK
<1>5. CASE \E back \in BOOLEAN : Resolve(back)
  <2>1. state' \in LeadStates /\ tasks' \in BOOLEAN
    BY <1>5 DEF Resolve, TypeOK, LeadStates
  <2> QED BY <1>5, <2>1 DEF Resolve, Responds, TypeOK
<1> QED BY <1>1, <1>2, <1>3, <1>4, <1>5 DEF Person

\* The queue's own steps keep the types.
LEMMA QueueTyped ==
    ASSUME TypeOK,
           \/ \E m \in Messages : Arrive(m)
           \/ \E k \in Keys : Claim(k) \/ Sweep(k)
           \/ Finish \/ Interrupted
    PROVE  TypeOK'
<1> USE DEF record, contact
<1>0. work # Idle => work.job \in Keys /\ jobs[work.job] = "running"
  BY DEF TypeOK, Handling, Handled
<1>1. ASSUME NEW m \in Messages, Arrive(m) PROVE TypeOK'
  <2>1. jobs' \in [Keys -> Statuses] /\ (work # Idle => jobs'[work.job] = "running")
    BY <1>0, <1>1, Queueing DEF Arrive
  <2> QED BY <1>1, <2>1 DEF Arrive, TypeOK
<1>2. ASSUME NEW k \in Keys, Claim(k) PROVE TypeOK'
  <2>1. work' \in Handling /\ work'.job = k
    BY <1>2 DEF Claim, Handling, TypeOK
  <2>2. jobs' \in [Keys -> Statuses] /\ jobs'[k] = "running"
    BY <1>2 DEF Claim, TypeOK, Statuses
  <2> QED BY <1>2, <2>1, <2>2 DEF Claim, TypeOK
<1>3. ASSUME NEW k \in Keys, Sweep(k) PROVE TypeOK'
  <2>1. jobs' \in [Keys -> Statuses] /\ (work # Idle => jobs'[work.job] = "running")
    BY <1>0, <1>3 DEF Sweep, TypeOK, Statuses
  <2> QED BY <1>3, <2>1 DEF Sweep, TypeOK
<1>4. CASE Finish
  <2>1. jobs' \in [Keys -> Statuses]
    BY <1>4 DEF Finish, TypeOK, Statuses
  <2> QED BY <1>4, <2>1 DEF Finish, TypeOK
<1>5. CASE Interrupted
  <2>1. jobs' \in [Keys -> Statuses]
    BY <1>5 DEF Interrupted, TypeOK, Statuses
  <2>2. sent' \in Nat /\ unrecorded' \in Nat
    BY <1>5 DEF Interrupted, TypeOK
  <2>3. faults' \in 0 .. MaxFaults
    BY <1>5, IntakeAssumption DEF Interrupted, TypeOK
  <2> QED BY <1>5, <2>1, <2>2, <2>3 DEF Interrupted, TypeOK
<1> QED BY <1>1, <1>2, <1>3, <1>4, <1>5

\* Every variable keeps its type, for any messages and any number of faults.
THEOREM TypeCorrect == Spec => []TypeOK
<1>1. Init => TypeOK
  <2> SUFFICES ASSUME Init PROVE TypeOK
    OBVIOUS
  <2>1. jobs \in [Keys -> Statuses] /\ 0 \in 0 .. MaxFaults
    BY IntakeAssumption DEF Init, Statuses
  <2>2. state \in LeadStates /\ thread \in Threads /\ known \in BOOLEAN
    BY IntakeAssumption DEF Init, LeadStates, Threads
  <2> QED BY <2>1, <2>2 DEF Init, TypeOK
<1>2. TypeOK /\ [Next]_vars => TypeOK'
  <2>1. TypeOK /\ UNCHANGED vars => TypeOK'
    BY DEF vars, record, contact, TypeOK
  <2> QED BY <2>1, HandleTyped, PersonTyped, QueueTyped DEF Next
<1> QED BY <1>1, <1>2, PTL DEF Spec

-----------------------------------------------------------------------------
\* While a lead is NEW no opening is on record and no bad result on file; what a
\* transaction read is no staler than that.
Fresh ==
    /\ sent <= unrecorded + 1
    /\ state = "NEW" => sent = unrecorded /\ ~bad
    /\ work.phase = "handling" =>
          /\ work.state = "NEW" => sent = unrecorded /\ ~work.bad
          /\ work.state # "NEW" => state # "NEW"
    /\ console.phase # "idle" /\ console.state # "NEW" => state # "NEW"

\* The transaction may send nothing, and does not bring the lead back to NEW.
LEMMA NotBackToNew ==
    ASSUME NEW old
    PROVE  /\ \A new \in LeadStates \ {"NEW"} : Written(old, new) = "NEW" => state = "NEW"
           /\ Escalate(old) /\ state' = "NEW" => state = "NEW"
BY DEF Written, Escalate

\* What a handler that sends no opening leaves.
LEMMA QuietHandler ==
    ASSUME Fresh, work.phase = "handling", Commits, UNCHANGED <<sent, unrecorded>>,
           state' = "NEW" => state = "NEW" /\ (bad' => bad)
    PROVE  Fresh'
<1>1. work'.phase = "handled" /\ console' = console
  BY DEF Commits
<1> QED BY <1>1 DEF Fresh

\* What a handler that may have sent the opening leaves.
LEMMA OpeningHandler ==
    ASSUME TypeOK, Fresh, work.phase = "handling", work.state = "NEW", Commits, NEW b,
           Opening(b), bad' = bad
    PROVE  Fresh'
<1>1. work'.phase = "handled" /\ console' = console
  BY DEF Commits
<1>2. CASE sent' = sent + 1 /\ unrecorded' = unrecorded /\ state' = Written(work.state, "CONTACTED")
  <2>1. state' # "NEW"
    BY <1>2 DEF Written
  <2>2. sent = unrecorded
    BY DEF Fresh
  <2>3. sent' <= unrecorded' + 1
    BY <1>2, <2>2 DEF TypeOK
  <2> QED BY <1>1, <2>1, <2>3 DEF Fresh
<1>3. CASE Escalate(work.state) /\ UNCHANGED <<sent, unrecorded>>
  BY <1>3, QuietHandler, NotBackToNew
<1> QED BY <1>2, <1>3 DEF Opening

\* A handler's transaction keeps the invariant.
LEMMA HandleFresh == TypeOK /\ Fresh /\ Handle => Fresh'
<1> SUFFICES ASSUME TypeOK, Fresh, Handle PROVE Fresh'
  OBVIOUS
<1> USE DEF record, contact
<1>0. work.phase = "handling" /\ Commits
  BY DEF Handle, EnrichSkips, EnrichUnavailable, EnrichBad, EnrichDone, OpenNow, OpenLate,
     OpenSkips, TurnUnlinked, TurnIgnored, TurnStop, TurnPerson, TurnNew, TurnTalk, Runs, Enriches
<1> DEFINE Quiet == /\ UNCHANGED <<sent, unrecorded>>
                    /\ state' = "NEW" => state = "NEW" /\ (bad' => bad)
<1>a. Quiet => Fresh'
  BY <1>0, QuietHandler
<1>1. CASE EnrichSkips
  BY <1>1, <1>a DEF EnrichSkips
<1>2. CASE EnrichUnavailable
  BY <1>2, <1>a, NotBackToNew DEF EnrichUnavailable
<1>3. CASE EnrichBad
  <2>1. state' = "TERMINATED"
    BY <1>3 DEF EnrichBad, Enriches, Closed, Written
  <2> QED BY <1>3, <1>a, <2>1 DEF EnrichBad
<1>4. CASE EnrichDone
  <2>1. bad' => bad
    BY <1>4 DEF EnrichDone
  <2> QED BY <1>4, <1>a, <2>1, NotBackToNew DEF EnrichDone
<1>5. CASE OpenNow
  <2>1. work.state = "NEW" /\ Opening(waiting) /\ bad' = bad
    BY <1>5 DEF OpenNow, Sends, Openable
  <2> QED BY <1>0, <2>1, OpeningHandler
<1>6. CASE OpenLate
  BY <1>6, <1>a DEF OpenLate
<1>7. CASE OpenSkips
  BY <1>7, <1>a DEF OpenSkips
<1>8. CASE TurnUnlinked
  BY <1>8, <1>a DEF TurnUnlinked
<1>9. CASE TurnIgnored
  BY <1>9, <1>a DEF TurnIgnored
<1>10. CASE TurnStop
  <2>1. state' = "NEW" => state = "NEW"
    BY <1>10 DEF TurnStop, Written
  <2> QED BY <1>10, <1>a, <2>1 DEF TurnStop
<1>11. CASE TurnPerson
  BY <1>11, <1>a, NotBackToNew DEF TurnPerson
<1>12. CASE TurnNew
  <2>1. CASE Opening(TRUE)
    BY <1>0, <1>12, <2>1, OpeningHandler DEF TurnNew
  <2>2. CASE UNCHANGED <<state, tasks, contacted, sent, unrecorded>>
    BY <1>12, <1>a, <2>2 DEF TurnNew
  <2> QED BY <1>12, <2>1, <2>2 DEF TurnNew
<1>13. CASE TurnTalk
  <2>1. state' = "NEW" => state = "NEW"
    BY <1>13, NotBackToNew DEF TurnTalk, Written
  <2> QED BY <1>13, <1>a, <2>1 DEF TurnTalk
<1> HIDE DEF Quiet
<1> QED BY <1>1, <1>2, <1>3, <1>4, <1>5, <1>6, <1>7, <1>8, <1>9, <1>10, <1>11, <1>12, <1>13 DEF Handle

\* People's requests keep it: one that read another state does not end the lead
\* as if it were NEW, and a bad certificate leaves none that is.
LEMMA PersonFresh == TypeOK /\ Fresh /\ Person => Fresh'
<1> SUFFICES ASSUME TypeOK, Fresh, Person PROVE Fresh'
  OBVIOUS
<1> USE DEF record, contact
<1>1. CASE LinkThread
  BY <1>1 DEF LinkThread, Fresh
<1>2. CASE \E op \in {"checks", "resolve"} : Request(op)
  BY <1>2 DEF Request, Fresh
<1>3. CASE ChecksClear
  BY <1>3 DEF ChecksClear, Responds, Fresh, Idle
<1>4. CASE ChecksBad
  <2>1. state' # "NEW"
    <3>1. CASE state' = "TERMINATED"
      BY <3>1
    <3>2. CASE Escalate(console.state) /\ console.state = "NEW"
      BY <3>2 DEF Escalate
    <3>3. CASE Escalate(console.state) /\ console.state # "NEW"
      <4>1. state # "NEW"
        BY <1>4, <3>3 DEF ChecksBad, Fresh
      <4> QED BY <3>3, <4>1, NotBackToNew
    <3> QED BY <1>4, <3>1, <3>2, <3>3 DEF ChecksBad
  <2>2. UNCHANGED <<sent, unrecorded, work>> /\ console' = Idle
    BY <1>4 DEF ChecksBad, Responds
  <2> QED BY <2>1, <2>2 DEF Fresh, Idle
<1>5. CASE \E back \in BOOLEAN : Resolve(back)
  <2>1. state' = "NEW" => state = "NEW"
    BY <1>5 DEF Resolve
  <2>2. UNCHANGED <<sent, unrecorded, work, bad>> /\ console' = Idle
    BY <1>5 DEF Resolve, Responds
  <2> QED BY <2>1, <2>2 DEF Fresh, Idle
<1> QED BY <1>1, <1>2, <1>3, <1>4, <1>5 DEF Person

\* The queue's own steps keep it: an opening that went out with a transaction
\* that is lost is counted on both sides.
LEMMA QueueFresh ==
    ASSUME TypeOK, Fresh,
           \/ \E m \in Messages : Arrive(m)
           \/ \E k \in Keys : Claim(k) \/ Sweep(k)
           \/ Finish \/ Interrupted
    PROVE  Fresh'
<1> USE DEF record, contact
<1>1. CASE \E m \in Messages : Arrive(m)
  BY <1>1 DEF Arrive, Fresh
<1>2. ASSUME NEW k \in Keys, Claim(k) PROVE Fresh'
  BY <1>2 DEF Claim, Fresh
<1>3. ASSUME NEW k \in Keys, Sweep(k) PROVE Fresh'
  BY <1>3 DEF Sweep, Fresh
<1>4. CASE Finish
  BY <1>4 DEF Finish, Fresh, Idle
<1>5. CASE Interrupted
  <2>1. PICK gone \in {0, 1} : sent' = sent + gone /\ unrecorded' = unrecorded + gone
    BY <1>5 DEF Interrupted
  <2>2. sent' <= unrecorded' + 1 /\ (sent = unrecorded => sent' = unrecorded')
    BY <2>1 DEF TypeOK, Fresh
  <2>3. work' = Idle /\ UNCHANGED <<state, bad, console>>
    BY <1>5 DEF Interrupted
  <2> QED BY <2>2, <2>3 DEF Fresh, Idle
<1> QED BY <1>1, <1>2, <1>3, <1>4, <1>5

\* The invariant, for every behaviour.
LEMMA AlwaysFresh == Spec => []Fresh
<1>1. Init => Fresh
  BY DEF Init, Fresh, Idle
<1>2. TypeOK /\ Fresh /\ [Next]_vars => Fresh'
  <2>1. Fresh /\ UNCHANGED vars => Fresh'
    BY DEF vars, record, contact, Fresh
  <2> QED BY <2>1, HandleFresh, PersonFresh, QueueFresh DEF Next
<1> QED BY <1>1, <1>2, TypeCorrect, PTL DEF Spec

\* The seller is sent one opening, and another only for one that was lost.
THEOREM Once == Spec => []OpenedOnce
<1>1. Fresh => OpenedOnce
  BY DEF Fresh, OpenedOnce
<1> QED BY <1>1, AlwaysFresh, PTL

\* Who sends has read that the lead is NEW.
LEMMA SenderReadNew ==
    ASSUME TypeOK, Next, sent' > sent
    PROVE  work.phase = "handling" /\ work.state = "NEW"
<1> USE DEF record, contact
<1>0. sent' # sent
  BY DEF TypeOK
<1>1. Handle \/ Interrupted
  BY <1>0 DEF Next, Arrive, Claim, Sweep, Finish, Person, LinkThread, Request, ChecksClear,
     ChecksBad, Resolve, Responds
<1>2. CASE Handle
  BY <1>0, <1>2 DEF Handle, EnrichSkips, EnrichUnavailable, EnrichBad, EnrichDone, OpenNow, OpenLate,
     OpenSkips, TurnUnlinked, TurnIgnored, TurnStop, TurnPerson, TurnNew, TurnTalk, Runs, Sends,
     Openable
<1>3. CASE Interrupted
  <2>1. Sends
    BY <1>0, <1>3 DEF Interrupted, TypeOK
  <2> QED BY <2>1 DEF Sends, Runs, Openable
<1> QED BY <1>1, <1>2, <1>3

\* No opening leaves in a transaction that began with a bad result on file.
THEOREM BadUnopened == Spec => BadCarNotOpened
<1>1. TypeOK /\ Fresh /\ [Next]_vars => [sent' > sent => ~work.bad]_vars
  <2> SUFFICES ASSUME TypeOK, Fresh, Next, sent' > sent PROVE ~work.bad
    OBVIOUS
  <2> QED BY SenderReadNew DEF Fresh
<1> QED BY <1>1, TypeCorrect, AlwaysFresh, PTL DEF Spec, BadCarNotOpened
=============================================================================
