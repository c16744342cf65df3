--------------------------- MODULE OutreachProofs ---------------------------
(***************************************************************************)
(* Theorems on Outreach: what holds of a silence for every cadence, window *)
(* and expiry.                                                             *)
(***************************************************************************)
EXTENDS Outreach, TLAPS

\* The silence asked for before a nudge is one of the schedule's.
LEMMA GapInSchedule ==
    ASSUME NEW n \in Nat
    PROVE  Gap(n) \in 1 .. Longest - 1
<1> DEFINE i == IF n < Len(Schedule) THEN n + 1 ELSE Len(Schedule)
<1>1. Len(Schedule) \in Nat \ {0} /\ DOMAIN Schedule = 1 .. Len(Schedule)
      /\ \A j \in 1 .. Len(Schedule) : Schedule[j] \in Nat \ {0}
  BY OutreachAssumption
<1>2. i \in DOMAIN Schedule
  BY <1>1
<1> QED
  BY <1>1, <1>2, OutreachAssumption DEF Gap

LEMMA FirstInSchedule == Schedule[1] \in 1 .. Longest - 1
<1>1. 1 \in DOMAIN Schedule /\ Schedule[1] \in Nat \ {0}
  BY OutreachAssumption
<1> QED
  BY <1>1, OutreachAssumption

\* A time moved on keeps its instant.
LEMMA LaterMoves ==
    ASSUME NEW R, NEW t \in Times(R), NEW n
    PROVE  /\ Later(t, n).in = t.in + n /\ Later(t, n).at = t.at
           /\ \A Q : t.in + n \in Q => Later(t, n) \in Times(Q)
  BY DEF Later, Times

-----------------------------------------------------------------------------
(* What a handler's ways of writing, or not, do to the types.              *)

Runs == Times((-Late) .. Longest)

Wired ==
    /\ threads \subseteq Channels /\ threads # {} /\ heard \subseteq Channels
    /\ clock \in Instants /\ last \in Times((-Longest) .. 0) /\ jobs \subseteq Runs
    /\ said \in Kinds /\ crowded \in BOOLEAN

LEMMA InTyped ==
    ASSUME clock \in Instants, NEW n \in 0 .. Longest
    PROVE  In(n) \in Runs
  BY OutreachAssumption DEF In, At, Runs, Times

LEMMA QueuedTyped ==
    ASSUME NEW t \in Runs, NEW queued \in SUBSET Runs
    PROVE  Queued(t, queued) \in SUBSET Runs
  BY DEF Queued

\* A message that leaves, is refused, or is not written keeps the types of the
\* conversation's wire.
LEMMA LeavesWired ==
    ASSUME Wired, NEW ch \in Channels \cup {"none"}, NEW kind \in Kinds, NEW about,
           NEW queued \in SUBSET Runs, Leaves(ch, kind, about, queued), UNCHANGED clock
    PROVE  Wired'
<1>1. In(Schedule[1]) \in Runs
  BY FirstInSchedule, InTyped, OutreachAssumption DEF Wired
<1>2. said' \in Kinds /\ crowded' \in BOOLEAN
  BY DEF Leaves, Kinds
<1>3. threads' # {} /\ threads' \subseteq Channels
  BY DEF Leaves, Wired
<1>4. jobs' \subseteq Runs
  BY <1>1, QueuedTyped DEF Leaves
<1>5. heard' \subseteq Channels /\ last' \in Times((-Longest) .. 0)
  BY OutreachAssumption DEF Leaves, Wired, In, At, Times
<1> QED
  BY <1>2, <1>3, <1>4, <1>5 DEF Wired

LEMMA FailsWired ==
    ASSUME Wired, NEW ch, NEW had \in SUBSET Channels,
           NEW queued \in SUBSET Runs, Fails(ch, had, queued), UNCHANGED clock
    PROVE  Wired'
<1>1. threads' # {} /\ threads' \subseteq Channels
  BY DEF Wired, Fails
<1>2. heard' \subseteq Channels /\ UNCHANGED <<last, crowded>> /\ jobs' \subseteq Runs /\ said' \in Kinds
  BY DEF Fails, Kinds
<1> QED
  BY <1>1, <1>2 DEF Wired

LEMMA KeepsWired ==
    ASSUME Wired, NEW had \in SUBSET Channels,
           NEW queued \in SUBSET Runs, Keeps(had, queued), UNCHANGED clock
    PROVE  Wired'
  BY DEF Wired, Keeps

LEMMA WritesTyped ==
    ASSUME Wired, NEW ch \in Channels \cup {"none"}, NEW had \in SUBSET Channels,
           NEW about, NEW then \in Stages, Writes(ch, had, about, then), UNCHANGED clock
    PROVE  Wired' /\ stage' \in Stages
<1>1. jobs \in SUBSET Runs /\ "message" \in Kinds
  BY DEF Wired, Kinds
<1>2. CASE Leaves(ch, "message", about, jobs) /\ stage' = then
  BY <1>1, <1>2, LeavesWired
<1>3. CASE Fails(ch, had, jobs) /\ stage' = IF ch = "none" THEN then ELSE "person"
  BY <1>1, <1>3, FailsWired DEF Stages
<1> QED
  BY <1>2, <1>3 DEF Writes

LEMMA CarrierTyped == Carrier \in Channels \cup {"none"} /\ Newest \in Channels
  BY DEF Carrier, Newest, Channels

-----------------------------------------------------------------------------
\* What a step leaves of TypeOK beside the wire.
Rested ==
    /\ stage \in Stages /\ offer \in {"none", "open", "settled"} /\ expiry \in 0 .. Expiry
    /\ phone \in BOOLEAN /\ nudges \in 0 .. Len(Schedule)
    /\ inbox \subseteq Channels /\ window \in 0 .. Window

LEMMA Parts == (TypeOK <=> Rested /\ Wired) /\ (TypeOK' <=> Rested' /\ Wired')
  BY DEF TypeOK, Rested, Wired, Runs

\* A turn keeps the types.
LEMMA TurnTyped ==
    ASSUME TypeOK, NEW ch \in Channels, Turn(ch)
    PROVE  TypeOK'
<1>1. Rested /\ Wired
  BY Parts
<1>2. jobs \in SUBSET Runs /\ Had(ch) \in SUBSET Channels /\ ch \in Channels \cup {"none"}
  BY <1>1 DEF Wired, Had
<1>3. inbox' \subseteq Channels /\ window' \in 0 .. Window /\ nudges' = nudges /\ clock' = clock
  BY <1>1, OutreachAssumption
     DEF Rested, Turn, TurnIgnored, TurnStop, TurnPerson, TurnAsk, TurnWait, TurnSettle, TurnConcede,
         TurnRestate, TurnUnread, Heeded, Received
<1>4. Live \in Stages /\ "message" \in Kinds /\ {"talking", "ours", "offered", "person", "over"} \subseteq Stages
  BY <1>1 DEF Rested, Live, Stages, Kinds
<1>5. CASE TurnIgnored(ch)
  BY <1>1, <1>2, <1>3, <1>5, KeepsWired, Parts DEF TurnIgnored, Rested, deal
<1>6. CASE TurnStop(ch)
  <2>1. Wired'
    BY <1>1, <1>2, <1>3, <1>4, <1>6, LeavesWired, FailsWired DEF TurnStop
  <2> QED
    BY <2>1, <1>1, <1>3, <1>4, <1>6, Parts DEF TurnStop, Rested, deal
<1>7. CASE TurnPerson(ch)
  <2>1. Wired'
    BY <1>1, <1>2, <1>3, <1>4, <1>7, LeavesWired, FailsWired, KeepsWired DEF TurnPerson
  <2> QED
    BY <2>1, <1>1, <1>3, <1>4, <1>7, Parts DEF TurnPerson, Learns, Rested, deal
<1>8. CASE TurnAsk(ch)
  <2>1. Wired' /\ stage' \in Stages
    BY <1>1, <1>2, <1>3, <1>4, <1>8, WritesTyped DEF TurnAsk
  <2> QED
    BY <2>1, <1>1, <1>3, <1>8, Parts DEF TurnAsk, Learns, Rested, deal
<1>9. CASE TurnWait(ch)
  <2>1. Wired' /\ stage' \in Stages
    BY <1>1, <1>2, <1>3, <1>4, <1>9, WritesTyped, KeepsWired DEF TurnWait
  <2> QED
    BY <2>1, <1>1, <1>3, <1>9, Parts DEF TurnWait, Learns, Rested, deal
<1>10. CASE TurnSettle(ch)
  <2>1. Wired'
    BY <1>1, <1>2, <1>3, <1>4, <1>10, LeavesWired, FailsWired DEF TurnSettle
  <2>2. phone' \in BOOLEAN
    BY <1>1, <1>10 DEF TurnSettle, Learns, Rested
  <2>3. expiry' \in 0 .. Expiry
    BY <1>10, OutreachAssumption DEF TurnSettle
  <2> QED
    BY <2>1, <2>2, <2>3, <1>1, <1>3, <1>4, <1>10, Parts DEF TurnSettle, Rested
<1>11. CASE TurnConcede(ch)
  <2>1. Wired' /\ stage' \in Stages
    BY <1>1, <1>2, <1>3, <1>4, <1>11, WritesTyped DEF TurnConcede
  <2>2. phone' \in BOOLEAN
    BY <1>1, <1>11 DEF TurnConcede, Learns, Rested
  <2>3. expiry' \in 0 .. Expiry
    BY <1>11, OutreachAssumption DEF TurnConcede
  <2> QED
    BY <2>1, <2>2, <2>3, <1>1, <1>3, <1>11, Parts DEF TurnConcede, Rested
<1>12. CASE TurnRestate(ch)
  <2>1. Wired' /\ stage' \in Stages
    BY <1>1, <1>2, <1>3, <1>4, <1>12, WritesTyped DEF TurnRestate
  <2> QED
    BY <2>1, <1>1, <1>3, <1>12, Parts DEF TurnRestate, Learns, Rested, deal
<1>13. CASE TurnUnread(ch)
  <2>1. Wired' /\ stage' \in Stages
    BY <1>1, <1>2, <1>3, <1>4, <1>13, KeepsWired DEF TurnUnread, Stages
  <2> QED
    BY <2>1, <1>1, <1>3, <1>13, Parts DEF TurnUnread, Learns, Rested, deal
<1> QED
  BY <1>5, <1>6, <1>7, <1>8, <1>9, <1>10, <1>11, <1>12, <1>13 DEF Turn

\* A nudge job keeps the types; what it queues lies within the schedule.
LEMMA NudgeJobTyped ==
    ASSUME TypeOK, NudgeJob
    PROVE  TypeOK'
<1>1. Rested /\ Wired
  BY Parts
<1>2. PICK t \in jobs : NudgeSkipped(t) \/ NudgeNotNeeded(t) \/ NudgeDeferred(t) \/ Nudge(t) \/ Stall(t)
  BY DEF NudgeJob
<1>3. Rest(t) \in SUBSET Runs /\ heard \in SUBSET Channels
  BY <1>1 DEF Wired, Rest
<1>4. nudges \in Nat /\ Len(Schedule) \in Nat
  BY <1>1, OutreachAssumption DEF Rested
<1>5. CASE NudgeSkipped(t)
  BY <1>1, <1>3, <1>5, KeepsWired, Parts DEF NudgeSkipped, Idle, Rested, deal
<1>6. CASE NudgeNotNeeded(t)
  BY <1>1, <1>3, <1>6, KeepsWired, Parts DEF NudgeNotNeeded, Idle, Rested, deal
<1>7. CASE NudgeDeferred(t)
  <2>1. Gap(nudges) \in 1 .. Longest - 1 /\ last \in Times((-Longest) .. 0) /\ ~Come(NudgeTime)
    BY <1>1, <1>4, <1>7, GapInSchedule DEF Wired, NudgeDeferred
  <2>2. NudgeTime \in Runs
    <3>1. NudgeTime.in = last.in + Gap(nudges) /\ last.in \in (-Longest) .. 0
      BY <2>1, LaterMoves DEF NudgeTime, Times
    <3>2. last.in + Gap(nudges) \in (-Late) .. Longest
      <4>1. Late \in Nat /\ Longest \in Nat
        BY OutreachAssumption
      <4>2. ~(last.in + Gap(nudges) < 0)
        BY <2>1, <3>1 DEF Come
      <4> QED
        BY <2>1, <3>1, <4>1, <4>2
    <3> QED
      BY <2>1, <3>2, LaterMoves DEF NudgeTime, Runs
  <2>3. Again(t) \in SUBSET Runs
    BY <2>2, <1>1, QueuedTyped DEF Again, Wired
  <2>4. Wired'
    BY <2>3, <1>1, <1>3, <1>7, KeepsWired DEF NudgeDeferred, Idle
  <2> QED
    BY <2>4, <1>1, <1>7, Parts DEF NudgeDeferred, Idle, Rested, deal
<1>8. CASE Nudge(t)
  <2>1. Gap(nudges + 1) \in 0 .. Longest /\ "nudge" \in Kinds
    <3>1. nudges + 1 \in Nat
      BY <1>4
    <3>2. Gap(nudges + 1) \in 1 .. Longest - 1
      BY <3>1, GapInSchedule
    <3> QED
      BY <3>2, OutreachAssumption DEF Kinds
  <2>2. Follow(t) \in SUBSET Runs
    BY <2>1, <1>1, InTyped, QueuedTyped DEF Follow, Wired
  <2>3. Wired'
    BY <2>1, <2>2, <1>1, <1>8, CarrierTyped, LeavesWired DEF Nudge
  <2>4. nudges' \in 0 .. Len(Schedule)
    BY <1>4, <1>8 DEF Nudge, Exhausted
  <2> QED
    BY <2>3, <2>4, <1>1, <1>8, Parts DEF Nudge, Rested, deal
<1>9. CASE Stall(t)
  <2>1. Wired'
    BY <1>1, <1>3, <1>9, CarrierTyped, LeavesWired, FailsWired DEF Stall, Idle, Kinds
  <2> QED
    BY <2>1, <1>1, <1>9, Parts DEF Stall, Idle, Rested, deal, Stages
<1> QED
  BY <1>2, <1>5, <1>6, <1>7, <1>8, <1>9

\* Every variable keeps its type, whatever the cadence: no seller is nudged more
\* often than the schedule has entries.
THEOREM TypeCorrect == Spec => []TypeOK
<1>1. Init => TypeOK
  <2> SUFFICES ASSUME Init PROVE TypeOK
    OBVIOUS
  <2>1. stage \in Stages /\ said \in Kinds /\ offer \in {"none", "open", "settled"}
    BY DEF Init, Stages, Kinds
  <2>2. clock \in Instants /\ last \in Times((-Longest) .. 0) /\ expiry \in 0 .. Expiry /\ nudges \in 0 .. Len(Schedule) /\ window \in 0 .. Window
    BY OutreachAssumption DEF Init, Instants, Times, At
  <2>3. phone \in BOOLEAN
    BY Zenon DEF Init
  <2>4. threads \subseteq Channels /\ threads # {}
    BY DEF Init
  <2> QED
    BY <2>1, <2>2, <2>3, <2>4 DEF Init, TypeOK
<1>2. TypeOK /\ [Next]_vars => TypeOK'
  <2> SUFFICES ASSUME TypeOK, [Next]_vars PROVE TypeOK'
    OBVIOUS
  <2>1. Rested /\ Wired
    BY Parts
  <2>2. CASE Tick
    <3>1. CASE clock < Minute - 1
      <4>1. clock' \in Instants
        BY <3>1, <2>1, <2>2, OutreachAssumption DEF Wired, Tick, Instants
      <4> QED
        BY <4>1, <3>1, <2>2 DEF TypeOK, Tick
    <3>2. CASE ~(clock < Minute - 1)
      <4> DEFINE jobsLater == {Later(j, -1) : j \in jobs}
      <4>0. /\ \A j \in jobs : j.in > -Late
            /\ clock' = 0 /\ jobs' = jobsLater
            /\ last' = IF last.in > -Longest THEN Later(last, -1) ELSE last
            /\ window' = Less(window) /\ expiry' = Less(expiry)
        BY <3>2, <2>2 DEF Tick
      <4>1. jobs' \subseteq Runs
        <5>1. ASSUME NEW j \in jobs
              PROVE  Later(j, -1) \in Runs
          <6>1. j.in \in (-Late) .. Longest /\ j.in > -Late /\ j \in Runs
            BY <2>1, <4>0 DEF Wired, Runs, Times
          <6>2. j.in - 1 \in (-Late) .. Longest
            BY <6>1, OutreachAssumption
          <6> QED
            BY <6>1, <6>2 DEF Later, Runs, Times
        <5> QED
          BY <4>0, <5>1
      <4>2. last' \in Times((-Longest) .. 0)
        <5>1. CASE last.in > -Longest
          <6>1. last.in \in (-Longest) .. 0 /\ last \in Times((-Longest) .. 0)
            BY <2>1 DEF Wired, Times
          <6>2. last.in + -1 \in (-Longest) .. 0
            BY <5>1, <6>1, OutreachAssumption
          <6> QED
            BY <4>0, <5>1, <6>1, <6>2 DEF Later, Times
        <5>2. CASE ~(last.in > -Longest)
          BY <4>0, <5>2, <2>1 DEF Wired
        <5> QED
          BY <5>1, <5>2
      <4>3. clock' \in Instants /\ window' \in 0 .. Window /\ expiry' \in 0 .. Expiry
        <5>1. 0 \in 0 .. Minute - 1 /\ window \in 0 .. Window /\ expiry \in 0 .. Expiry
          BY <2>1, OutreachAssumption DEF Rested
        <5> QED
          BY <4>0, <5>1, OutreachAssumption DEF Less, Instants
      <4> QED
        BY <4>1, <4>2, <4>3, <2>2 DEF TypeOK, Tick, Runs
    <3> QED
      BY <3>1, <3>2
  <2>3. CASE \E ch \in Channels : Arrive(ch)
    BY <2>3 DEF TypeOK, Arrive, deal, wire
  <2>4. CASE \E ch \in Channels : Turn(ch)
    BY <2>4, TurnTyped
  <2>5. CASE Release
    <3>1. Wired' /\ stage' \in Stages
      BY <2>1, <2>5, CarrierTyped, WritesTyped DEF Release, Stages, Wired
    <3> QED
      BY <3>1, <2>1, <2>5, Parts DEF Release, Rested, deal
  <2>6. CASE Present
    <3>1. Wired' /\ stage' \in Stages
      BY <2>1, <2>6, CarrierTyped, WritesTyped DEF Present, Stages, Wired
    <3> QED
      BY <3>1, <2>1, <2>6, Parts, OutreachAssumption DEF Present, Rested
  <2>7. CASE OfferOutcome
    BY <2>7, OutreachAssumption DEF TypeOK, OfferOutcome, wire, Stages
  <2>8. CASE Escalated
    BY <2>8 DEF TypeOK, Escalated, deal, wire, Stages
  <2>9. CASE Resolve
    BY <2>9 DEF TypeOK, Resolve, deal, Stages, Kinds
  <2>10. CASE Expire
    <3>1. Wired' /\ stage' \in Stages
      <4>1. CASE ToldOfLapse
        BY <4>1, <2>1, <2>10, CarrierTyped, WritesTyped DEF Expire, Rested, Wired
      <4>2. CASE ~ToldOfLapse
        BY <4>2, <2>1, <2>10 DEF Expire, Rested, Wired, wire
      <4> QED
        BY <4>1, <4>2
    <3> QED
      BY <3>1, <2>1, <2>10, Parts DEF Expire, Rested
  <2>11. CASE NudgeJob
    BY <2>11, NudgeJobTyped
  <2>12. CASE UNCHANGED vars
    BY <2>12 DEF TypeOK, vars, deal, wire
  <2> QED
    BY <2>2, <2>3, <2>4, <2>5, <2>6, <2>7, <2>8, <2>9, <2>10, <2>11, <2>12 DEF Next
<1> QED
  BY <1>1, <1>2, PTL DEF Spec

-----------------------------------------------------------------------------
(* The nudge job that a silence is left to.                                *)

\* No job is due later than the nudge the last message calls for, and none of that
\* minute is due before it: such a job would come too early and stand in the way of
\* the one it queues.
Bounded == \A j \in jobs : j.in <= last.in + Gap(nudges)
Ahead   == ~Come(NudgeTime) => \A j \in jobs : j.in = NudgeTime.in => j.at >= NudgeTime.at
Chased  == Bounded /\ (Quiet /\ ~crowded => jobs # {} /\ Ahead)

\* What the definitions say of times and numbers, types being right.
LEMMA Measures ==
    ASSUME TypeOK
    PROVE  /\ last.in \in Int /\ last.at \in Int /\ last.in <= 0 /\ clock \in Int
           /\ \A j \in jobs : j.in \in Int /\ j.at \in Int
           /\ nudges \in Nat /\ Gap(nudges) \in Nat \ {0} /\ Gap(nudges) < Longest
           /\ NudgeTime.in = last.in + Gap(nudges) /\ NudgeTime.at = last.at
<1>1. last \in Times((-Longest) .. 0) /\ clock \in 0 .. Minute - 1 /\ jobs \subseteq Times((-Late) .. Longest)
      /\ nudges \in 0 .. Len(Schedule)
  BY DEF TypeOK, Instants
<1>2. Minute \in Int /\ Longest \in Int /\ Late \in Int /\ Len(Schedule) \in Nat
  BY OutreachAssumption
<1>3. last.in \in Int /\ last.at \in Int /\ last.in <= 0
  <2>1. last.in \in (-Longest) .. 0 /\ last.at \in 0 .. Minute - 1
    BY <1>1 DEF Times, Instants
  <2> QED
    BY <2>1, <1>2
<1>4. ASSUME NEW j \in jobs
      PROVE  j.in \in Int /\ j.at \in Int
  <2>1. j.in \in (-Late) .. Longest /\ j.at \in 0 .. Minute - 1
    BY <1>1 DEF Times, Instants
  <2> QED
    BY <2>1, <1>2
<1>5. nudges \in Nat
  BY <1>1, <1>2
<1>6. Gap(nudges) \in Nat \ {0} /\ Gap(nudges) < Longest
  <2>1. Gap(nudges) \in 1 .. Longest - 1
    BY <1>5, GapInSchedule
  <2> QED
    BY <2>1, <1>2
<1>7. NudgeTime.in = last.in + Gap(nudges) /\ NudgeTime.at = last.at
  BY <1>1, LaterMoves DEF NudgeTime
<1>8. clock \in Int
  BY <1>1, <1>2
<1> QED
  BY <1>3, <1>4, <1>5, <1>6, <1>7, <1>8

\* The same of the nudge after a step.
LEMMA MeasuresNext ==
    ASSUME TypeOK'
    PROVE  /\ NudgeTime'.in = last'.in + Gap(nudges)' /\ NudgeTime'.at = last'.at
           /\ Gap(nudges)' \in Nat \ {0}
<1>1. last' \in Times((-Longest) .. 0) /\ nudges' \in 0 .. Len(Schedule)
  BY DEF TypeOK
<1>2. nudges' \in Nat
  BY <1>1, OutreachAssumption
<1>3. Gap(nudges') \in Nat \ {0}
  <2>1. Gap(nudges') \in 1 .. Longest - 1
    BY <1>2, GapInSchedule
  <2> QED
    BY <2>1, OutreachAssumption
<1>4. Gap(nudges)' = Gap(nudges')
  BY DEF Gap
<1>5. NudgeTime' = Later(last', Gap(nudges'))
  BY <1>4 DEF NudgeTime, Later
<1> QED
  BY <1>1, <1>3, <1>4, <1>5, LaterMoves

\* The first silence is the shortest, and no silence is shorter than the one before.
LEMMA GapWidens ==
    ASSUME Widening, NEW n \in Nat
    PROVE  Schedule[1] <= Gap(n) /\ Gap(n) <= Gap(n + 1)
<1> DEFINE i == IF n < Len(Schedule) THEN n + 1 ELSE Len(Schedule)
           k == IF n + 1 < Len(Schedule) THEN n + 2 ELSE Len(Schedule)
<1>1. Len(Schedule) \in Nat \ {0} /\ DOMAIN Schedule = 1 .. Len(Schedule)
  BY OutreachAssumption
<1>2. 1 \in DOMAIN Schedule /\ i \in DOMAIN Schedule /\ k \in DOMAIN Schedule /\ 1 <= i /\ i <= k
  BY <1>1
<1>3. Gap(n) = Schedule[i] /\ Gap(n + 1) = Schedule[k]
  BY <1>1 DEF Gap
<1> QED
  BY <1>2, <1>3 DEF Widening

\* A message takes its nudge job with it, unless there is one of that minute; and
\* there is none due before it where the last message is a minute old or older.
LEMMA MessageChased ==
    ASSUME Widening, TypeOK, TypeOK', Chased, UNCHANGED <<nudges, clock>>,
           NEW ch, NEW about, Leaves(ch, "message", about, jobs)
    PROVE  Chased'
<1>1. last'.in = 0 /\ last'.at = clock /\ crowded' = (last.in = 0 /\ jobs # {})
  BY DEF Leaves, In, At
<1>2. Gap(nudges)' = Gap(nudges)
  BY DEF Gap
<1>3. Schedule[1] <= Gap(nudges) /\ Schedule[1] \in Int
  BY Measures, GapWidens, FirstInSchedule
<1>4. /\ NudgeTime'.in = Gap(nudges) /\ NudgeTime'.at = clock
  <2>1. NudgeTime'.in = last'.in + Gap(nudges)' /\ NudgeTime'.at = last'.at
    BY MeasuresNext
  <2> QED
    BY <2>1, <1>1, <1>2, Measures
<1>5. ASSUME NEW j \in jobs
      PROVE  j.in <= Gap(nudges) /\ (last.in # 0 => j.in < Gap(nudges))
  BY Measures DEF Chased, Bounded
<1>6. CASE about \in Waiting
  <2>1. jobs' = Queued(In(Schedule[1]), jobs)
    BY <1>6 DEF Leaves
  <2>2. In(Schedule[1]).in = Schedule[1] /\ In(Schedule[1]).at = clock
    BY DEF In, At
  <2>3. jobs' \subseteq jobs \cup {In(Schedule[1])} /\ jobs' # {}
    BY <2>1 DEF Queued
  <2>4. Bounded'
    BY <1>1, <1>2, <1>3, <1>5, <2>2, <2>3, Measures DEF Bounded
  <2>5. ASSUME ~crowded', NEW j \in jobs', j.in = NudgeTime'.in
        PROVE  j.at >= NudgeTime'.at
    <3>1. last.in # 0 \/ jobs = {}
      BY <1>1, <2>5
    <3>2. j \notin jobs
      BY <1>4, <1>5, <2>5, <3>1, Measures
    <3> QED
      BY <1>4, <2>2, <2>3, <3>2, Measures
  <2> QED
    BY <2>3, <2>4, <2>5 DEF Chased, Ahead
<1>7. CASE about \notin Waiting
  <2>1. jobs' = jobs /\ said' = "notice"
    BY <1>7 DEF Leaves
  <2>2. Bounded'
    BY <1>1, <1>2, <1>5, <2>1, Measures DEF Bounded
  <2> QED
    BY <2>1, <2>2 DEF Chased, Quiet
<1> QED
  BY <1>6, <1>7

\* Where nothing new is queued, the jobs stay bounded.
LEMMA StillBounded ==
    ASSUME Chased, UNCHANGED <<last, nudges>>, jobs' \subseteq jobs
    PROVE  Bounded'
  BY DEF Chased, Bounded, Gap

LEMMA FailureChased ==
    ASSUME Chased, UNCHANGED nudges, NEW ch, NEW had, NEW queued \in SUBSET jobs, Fails(ch, had, queued)
    PROVE  Chased'
<1>1. UNCHANGED last /\ jobs' \subseteq jobs /\ said' = "undelivered"
  BY DEF Fails
<1> QED
  BY <1>1, StillBounded DEF Chased, Quiet

LEMMA HearingChased ==
    ASSUME Chased, UNCHANGED nudges, NEW ch, Keeps(Had(ch), jobs)
    PROVE  Chased'
<1>1. UNCHANGED last /\ jobs' \subseteq jobs /\ heard' # {}
  BY DEF Keeps, Had
<1> QED
  BY <1>1, StillBounded DEF Chased, Quiet

LEMMA WritesChased ==
    ASSUME Widening, TypeOK, TypeOK', Chased, UNCHANGED <<nudges, clock>>,
           NEW ch, NEW had, NEW about, NEW then, Writes(ch, had, about, then)
    PROVE  Chased'
  BY MessageChased, FailureChased DEF Writes

\* Where the silence and its jobs are as they were, it is chased as it was.
LEMMA SameChased ==
    ASSUME Chased, UNCHANGED <<nudges, clock, last, jobs, crowded>>, Quiet' => Quiet
    PROVE  Chased'
  BY DEF Chased, Bounded, Ahead, Come, NudgeTime, Gap

LEMMA TurnChased ==
    ASSUME Widening, TypeOK, TypeOK', Chased, NEW ch \in Channels, Turn(ch)
    PROVE  Chased'
<1>1. UNCHANGED <<nudges, clock>>
  BY DEF Turn, TurnIgnored, TurnStop, TurnPerson, TurnAsk, TurnWait, TurnSettle, TurnConcede,
         TurnRestate, TurnUnread, Heeded, Received
<1>2. jobs \in SUBSET jobs
  OBVIOUS
<1> QED
  BY <1>1, <1>2, MessageChased, FailureChased, HearingChased, WritesChased
     DEF Turn, TurnIgnored, TurnStop, TurnPerson, TurnAsk, TurnWait, TurnSettle, TurnConcede, TurnRestate, TurnUnread

\* Time brings the nudge and its jobs nearer alike.
LEMMA TickChased ==
    ASSUME TypeOK, TypeOK', Chased, Tick
    PROVE  Chased'
<1>1. UNCHANGED <<nudges, crowded>> /\ (Quiet' <=> Quiet) /\ Gap(nudges)' = Gap(nudges)
  BY DEF Tick, Quiet, Gap
<1>2. NudgeTime'.in = last'.in + Gap(nudges)' /\ NudgeTime'.at = last'.at
  BY MeasuresNext
<1>3. CASE clock < Minute - 1
  <2>1. UNCHANGED <<jobs, last>> /\ clock' = clock + 1
    BY <1>3 DEF Tick
  <2>2. ~Come(NudgeTime)' => ~Come(NudgeTime)
    BY <1>1, <1>2, <2>1, Measures DEF Come
  <2>3. NudgeTime' = NudgeTime
    BY <1>1, <2>1 DEF NudgeTime
  <2> QED
    BY <1>1, <2>1, <2>2, <2>3 DEF Chased, Bounded, Ahead
<1>4. CASE ~(clock < Minute - 1)
  <2> DEFINE jobsLater == {Later(j, -1) : j \in jobs}
  <2>1. /\ clock' = 0 /\ jobs' = jobsLater
        /\ last' = IF last.in > -Longest THEN Later(last, -1) ELSE last
    BY <1>4 DEF Tick
  <2>2. ASSUME NEW j \in jobs
        PROVE  Later(j, -1).in = j.in - 1 /\ Later(j, -1).at = j.at
    <3>1. j \in Times((-Late) .. Longest)
      BY DEF TypeOK
    <3>2. Later(j, -1).in = j.in + -1 /\ Later(j, -1).at = j.at
      BY <3>1, LaterMoves
    <3> QED
      BY <3>2, Measures
  <2>3. last'.at = last.at /\ last'.in \in Int /\ last'.in >= last.in - 1
        /\ (last.in > -Longest => last'.in = last.in - 1) /\ (~(last.in > -Longest) => last' = last)
    <3>1. last \in Times((-Longest) .. 0)
      BY DEF TypeOK
    <3>2. Later(last, -1).in = last.in + -1 /\ Later(last, -1).at = last.at
      BY <3>1, LaterMoves
    <3> QED
      BY <2>1, <3>2, Measures
  <2>4. Bounded'
    BY <1>1, <2>1, <2>2, <2>3, Measures DEF Chased, Bounded
  <2>5. ASSUME Ahead
        PROVE  Ahead'
    <3> SUFFICES ASSUME ~Come(NudgeTime)', NEW k \in jobs, Later(k, -1).in = NudgeTime'.in
                 PROVE  Later(k, -1).at >= NudgeTime'.at
      BY <2>1 DEF Ahead
    <3>1. ~(NudgeTime'.in < 0)
      BY DEF Come
    <3>2. Longest \in Nat
      BY OutreachAssumption
    <3>3. last.in > -Longest
      BY <1>1, <1>2, <2>3, <3>1, <3>2, Measures
    <3>4. NudgeTime'.in = NudgeTime.in - 1 /\ NudgeTime'.at = NudgeTime.at
      BY <1>1, <1>2, <2>3, <3>3, Measures
    <3>5. ~Come(NudgeTime) /\ k.in = NudgeTime.in
      BY <2>2, <3>1, <3>4, Measures DEF Come
    <3> QED
      BY <2>2, <2>5, <3>4, <3>5 DEF Ahead
  <2>6. jobs # {} => jobs' # {}
    BY <2>1
  <2> QED
    BY <1>1, <2>4, <2>5, <2>6 DEF Chased
<1> QED
  BY <1>3, <1>4

\* The job that comes too early has another minute than the one it queues.
LEMMA DeferralChased ==
    ASSUME TypeOK, Chased, NEW t \in jobs, NudgeDeferred(t)
    PROVE  Chased'
<1>1. Come(t) /\ ~Come(NudgeTime) /\ jobs' = Queued(NudgeTime, jobs) \ {t}
  BY DEF NudgeDeferred, Asked, Due, Keeps, Again
<1>2. UNCHANGED <<nudges, clock, last, crowded, stage, said, heard>>
  BY DEF NudgeDeferred, Idle, Keeps
<1>3. NudgeTime' = NudgeTime /\ Gap(nudges)' = Gap(nudges) /\ (Quiet' <=> Quiet) /\ (Come(NudgeTime)' <=> Come(NudgeTime))
  BY <1>2 DEF NudgeTime, Gap, Quiet, Come
<1>4. jobs' \subseteq jobs \cup {NudgeTime}
  BY <1>1 DEF Queued
<1>5. Bounded'
  BY <1>2, <1>3, <1>4, Measures DEF Chased, Bounded
<1>6. ASSUME Ahead
      PROVE  Ahead' /\ jobs' # {}
  <2>1. t.in # NudgeTime.in
    BY <1>1, <1>6, Measures DEF Ahead, Come
  <2>2. \E j \in Queued(NudgeTime, jobs) : j.in = NudgeTime.in
    BY DEF Queued
  <2>3. jobs' # {}
    BY <1>1, <2>1, <2>2
  <2>4. Ahead'
    BY <1>1, <1>3, <1>4, <1>6, Measures DEF Ahead
  <2> QED
    BY <2>3, <2>4
<1> QED
  BY <1>2, <1>3, <1>5, <1>6 DEF Chased

\* A nudge is sent when every job is due: the one it queues is of a later minute.
LEMMA NudgeChased ==
    ASSUME Widening, TypeOK, TypeOK', Chased, NEW t \in jobs, Nudge(t)
    PROVE  Chased'
<1>1. /\ nudges' = nudges + 1 /\ clock' = clock /\ Come(NudgeTime)
      /\ last'.in = 0 /\ last'.at = clock
      /\ jobs' = Queued(In(Gap(nudges + 1)), jobs) \ {t}
  BY DEF Nudge, Leaves, Follow, In, At
<1>2. Gap(nudges)' = Gap(nudges + 1)
  BY <1>1 DEF Gap
<1>3. NudgeTime'.in = Gap(nudges + 1) /\ NudgeTime'.at = clock /\ Gap(nudges + 1) \in Nat \ {0}
  <2>1. NudgeTime'.in = last'.in + Gap(nudges)' /\ NudgeTime'.at = last'.at /\ Gap(nudges)' \in Nat \ {0}
    BY MeasuresNext
  <2> QED
    BY <1>1, <1>2, <2>1
<1>4. In(Gap(nudges + 1)).in = Gap(nudges + 1) /\ In(Gap(nudges + 1)).at = clock
  BY DEF In, At
<1>5. ASSUME NEW j \in jobs
      PROVE  j.in <= 0
  BY <1>1, Measures DEF Chased, Bounded, Come
<1>6. jobs' \subseteq jobs \cup {In(Gap(nudges + 1))}
  BY <1>1 DEF Queued
<1>7. Bounded'
  BY <1>1, <1>2, <1>3, <1>4, <1>5, <1>6, Measures DEF Bounded
<1>8. \A j \in jobs : j.in # Gap(nudges + 1)
  BY <1>3, <1>5, Measures
<1>9. In(Gap(nudges + 1)) \in jobs'
  BY <1>1, <1>4, <1>8 DEF Queued
<1>10. Ahead'
  BY <1>3, <1>4, <1>6, <1>8, Measures DEF Ahead
<1> QED
  BY <1>7, <1>9, <1>10 DEF Chased

\* A seller who has been asked something and has not answered has a nudge job
\* queued unless two messages left in one minute: for every window and expiry, with
\* SMS or without, and every cadence in which no silence is shorter than the one
\* before, as in the code's 20, 24 and 72 hours.
THEOREM SilenceHeld ==
    ASSUME Widening
    PROVE  Spec => []SilenceIsHeld
<1>1. Init => Chased
  BY DEF Init, Chased, Bounded, Quiet
<1>2. Widening /\ TypeOK /\ TypeOK' /\ Chased /\ [Next]_vars => Chased'
  <2> SUFFICES ASSUME TypeOK, TypeOK', Chased, [Next]_vars PROVE Chased'
    OBVIOUS
  <2>1. CASE Tick
    BY <2>1, TickChased
  <2>2. CASE \E ch \in Channels : Arrive(ch)
    BY <2>2, SameChased DEF Arrive, wire, Quiet
  <2>3. CASE \E ch \in Channels : Turn(ch)
    BY <2>3, TurnChased
  <2>4. CASE Release \/ Present
    BY <2>4, WritesChased DEF Release, Present
  <2>5. CASE OfferOutcome
    BY <2>5, SameChased DEF OfferOutcome, wire, Quiet, Waiting
  <2>6. CASE Escalated
    BY <2>6, SameChased DEF Escalated, wire, Quiet, Waiting
  <2>7. CASE Resolve
    BY <2>7, SameChased DEF Resolve, Quiet
  <2>8. CASE Expire
    <3>1. CASE ToldOfLapse
      BY <2>8, <3>1, WritesChased DEF Expire
    <3>2. CASE ~ToldOfLapse
      BY <2>8, <3>2, SameChased DEF Expire, wire, Quiet
    <3> QED
      BY <3>1, <3>2
  <2>9. CASE NudgeJob
    <3>1. PICK t \in jobs : NudgeSkipped(t) \/ NudgeNotNeeded(t) \/ NudgeDeferred(t) \/ Nudge(t) \/ Stall(t)
      BY <2>9 DEF NudgeJob
    <3>2. CASE NudgeSkipped(t) \/ NudgeNotNeeded(t)
      <4>1. UNCHANGED <<last, nudges>> /\ jobs' \subseteq jobs /\ ~Quiet'
        BY <3>2 DEF NudgeSkipped, NudgeNotNeeded, Keeps, Rest, Idle, Quiet
      <4> QED
        BY <4>1, StillBounded DEF Chased
    <3>3. CASE NudgeDeferred(t)
      BY <3>3, DeferralChased
    <3>4. CASE Nudge(t)
      BY <3>4, NudgeChased
    <3>5. CASE Stall(t)
      <4>1. UNCHANGED nudges /\ jobs' \subseteq jobs /\ ~Quiet' /\ (last'.in = 0 \/ UNCHANGED last)
        BY <3>5 DEF Stall, Leaves, Fails, Rest, Idle, Quiet, Waiting, In, At
      <4>2. Gap(nudges)' = Gap(nudges)
        BY <4>1 DEF Gap
      <4>3. Bounded'
        BY <4>1, <4>2, Measures DEF Chased, Bounded
      <4> QED
        BY <4>1, <4>3 DEF Chased
    <3> QED
      BY <3>1, <3>2, <3>3, <3>4, <3>5
  <2>10. CASE UNCHANGED vars
    BY <2>10, SameChased DEF vars, wire, Quiet
  <2> QED
    BY <2>1, <2>2, <2>3, <2>4, <2>5, <2>6, <2>7, <2>8, <2>9, <2>10 DEF Next
<1>3. Chased => SilenceIsHeld
  BY DEF Chased, SilenceIsHeld
<1> QED
  BY <1>1, <1>2, <1>3, TypeCorrect, PTL DEF Spec

\* No step that leaves a lead stalled sends its seller anything, for every
\* cadence, window and expiry.
THEOREM StalledLeftAlone == Spec => StalledIsQuiet
<1>1. [Next]_vars => [stage = "stalled" /\ said' # said => stage' # "stalled"]_vars
  <2> SUFFICES ASSUME Next, stage = "stalled", stage' = "stalled" PROVE said' = said
    BY DEF vars, wire
  <2>1. CASE Tick
    BY <2>1 DEF Tick
  <2>2. CASE \E ch \in Channels : Arrive(ch)
    BY <2>2 DEF Arrive, wire
  <2>3. CASE \E ch \in Channels : Turn(ch)
    BY <2>3 DEF Turn, TurnIgnored, TurnStop, TurnPerson, TurnAsk, TurnWait, TurnSettle, TurnConcede,
                TurnRestate, TurnUnread, Heeded, Silent, Live, Writes
  <2>4. CASE Release \/ Present
    BY <2>4 DEF Release, Present, Writes
  <2>5. CASE OfferOutcome \/ Escalated \/ Resolve
    BY <2>5 DEF OfferOutcome, Escalated, Resolve, wire
  <2>6. CASE Expire
    BY <2>6 DEF Expire, ToldOfLapse, wire
  <2>7. CASE NudgeJob
    BY <2>7 DEF NudgeJob, NudgeSkipped, NudgeNotNeeded, NudgeDeferred, Nudge, Stall, Asked, Waiting, Keeps
  <2> QED
    BY <2>1, <2>2, <2>3, <2>4, <2>5, <2>6, <2>7 DEF Next
<1> QED
  BY <1>1, PTL DEF Spec, StalledIsQuiet

=============================================================================
