--------------------------- MODULE JobQueueProofs ---------------------------
(***************************************************************************)
(* Theorems about the job queue for every set of rows and workers: first   *)
(* what holds whatever dies and however long a handler runs, then what     *)
(* holds while whoever sweeps is the only one at work and no lock ages     *)
(* under a handler (Sound), and last that the two deployments of           *)
(* MCDeployments that are not rough keep it so.                            *)
(***************************************************************************)
EXTENDS MCDeployments, TLAPS, SequenceTheorems

\* What the type invariant needs to be inductive: a busy worker holds a row.
HolderOK == \A w \in Workers : pc[w] \in Busy => job[w] \in Jobs

Typed == TypeOK /\ HolderOK

\* Moving run_at into the future leaves a sequence of rows (fail in jobs.py).
LEMMA PostponedType ==
    ASSUME NEW j \in Jobs, due \in Seq(Jobs)
    PROVE  Postponed(j) \in Seq(Jobs)
<1>1. CASE Waiting(j)
  <2> DEFINE i == CHOOSE i \in DOMAIN due : due[i] = j
  <2>1. \E k \in DOMAIN due : due[k] = j
    BY <1>1, LenProperties DEF Waiting, Contains
  <2>2. i \in 1 .. Len(due) /\ Len(due) \in Nat
    BY <2>1, LenProperties
  <2>e. \A k \in 1 .. Len(due) : due[k] \in Jobs
    BY ElementOfSeq
  <2>h. HIDE DEF i
  <2>a. \A k \in 1 .. i - 1 : due[k] \in Jobs
    BY <2>2, <2>e
  <2>b. \A k \in i + 1 .. Len(due) : due[k] \in Jobs
    BY <2>2, <2>e
  <2>3. SubSeq(due, 1, i - 1) \in Seq(Jobs)
    BY <2>2, <2>a, SubSeqProperties
  <2>4. SubSeq(due, i + 1, Len(due)) \in Seq(Jobs)
    BY <2>2, <2>b, SubSeqProperties
  <2>5. RemoveAt(due, i) \in Seq(Jobs)
    BY <2>3, <2>4, ConcatProperties DEF RemoveAt
  <2> QED BY <1>1, <2>5 DEF Postponed, i
<1>2. CASE ~Waiting(j)
  BY <1>2 DEF Postponed
<1> QED BY <1>1, <1>2

\* The initial state is well typed.
LEMMA InitTyped == Init => Typed
  BY JobAssumption DEF Init, Typed, TypeOK, HolderOK, NoPlan, Busy, Status

\* Every step of the workers, the clients and the clock keeps the types.
LEMMA StepTyped == Typed /\ [Next]_vars => Typed'
<1> SUFFICES ASSUME Typed, [Next]_vars PROVE Typed'
  OBVIOUS
<1> USE DEF Typed, TypeOK, HolderOK, Busy, Status
<1> USE JobAssumption
<1>1. ASSUME NEW j \in Jobs, Enqueue(j) PROVE Typed'
  <2>1. due' \in Seq(Jobs)
    <3>1. CASE due' = due
      BY <3>1
    <3>2. CASE due' = Append(due, j)
      BY <3>2, AppendProperties
    <3> QED BY <1>1, <3>1, <3>2 DEF Enqueue
  <2> QED BY <1>1, <2>1 DEF Enqueue, WithStatus, process
<1>2. ASSUME NEW j \in Jobs, BecomeDue(j) PROVE Typed'
  <2>1. due' \in Seq(Jobs)
    BY <1>2, AppendProperties DEF BecomeDue
  <2> QED BY <1>2, <2>1 DEF BecomeDue, process
<1>3. ASSUME NEW j \in Jobs, Age(j) PROVE Typed'
  BY <1>3 DEF Age, process
<1>4. ASSUME NEW w \in Workers, Claim(w) PROVE Typed'
  <2>1. PICK i \in DOMAIN due : Claim(w)!2!(i)
    BY <1>4 DEF Claim
  <2>2. due[i] \in Jobs
    BY <2>1, ElementOfSeq, LenProperties
  <2> QED BY <1>4, <2>1, <2>2 DEF Claim, WithStatus
<1>5. ASSUME NEW w \in Workers, HandlerCommits(w) PROVE Typed'
  BY <1>5 DEF HandlerCommits, rows
<1>6. ASSUME NEW w \in Workers, HandlerRaises(w) PROVE Typed'
  BY <1>6 DEF HandlerRaises, rows
<1>7. ASSUME NEW w \in Workers, Complete(w) PROVE Typed'
  BY <1>7 DEF Complete, Release, WithStatus, NoPlan
<1>8. ASSUME NEW w \in Workers, Retry(w) PROVE Typed'
  <2>1. job[w] \in Jobs
    BY <1>8 DEF Retry, Left
  <2>2. due' \in Seq(Jobs)
    BY <1>8, <2>1, PostponedType DEF Retry, Left
  <2> QED BY <1>8, <2>1, <2>2 DEF Retry, Left, Release, WithStatus, NoPlan
<1>9. ASSUME NEW w \in Workers, RetryRefused(w) PROVE Typed'
  BY <1>9 DEF RetryRefused, Release, NoPlan, rows
<1>10. ASSUME NEW w \in Workers, GiveUp(w) PROVE Typed'
  <2>1. job[w] \in Jobs
    BY <1>10 DEF GiveUp, Left
  <2> QED BY <1>10, <2>1 DEF GiveUp, Left, Release, WithStatus, NoPlan
<1>11. ASSUME NEW w \in Workers, SweepRead(w) PROVE Typed'
  BY <1>11 DEF SweepRead, Left, rows
<1>12. ASSUME NEW w \in Workers, SweepWrite(w) PROVE Typed'
  <2>1. Swept(w) \in [Jobs -> Status]
    BY DEF Swept
  <2> QED BY <1>12, <2>1 DEF SweepWrite, Release, NoPlan
<1>13. ASSUME NEW w \in Workers, SweepRefused(w) PROVE Typed'
  BY <1>13 DEF SweepRefused, Release, NoPlan, rows
<1>14. ASSUME NEW w \in Workers, Crash(w) PROVE Typed'
  BY <1>14 DEF Crash, Release, NoPlan, rows
<1>15. CASE UNCHANGED vars
  BY <1>15 DEF vars, rows, process
<1> QED
  BY <1>1, <1>2, <1>3, <1>4, <1>5, <1>6, <1>7, <1>8, <1>9, <1>10, <1>11, <1>12, <1>13, <1>14, <1>15
  DEF Next, Clock, Handler, Finish, SweepEnd

\* The type invariant, for any rows, workers and failure assumptions.
THEOREM TypeCorrect == Spec => []TypeOK
<1>1. Spec => []Typed
  BY InitTyped, StepTyped, PTL DEF Spec
<1>2. Typed => TypeOK
  BY DEF Typed
<1> QED BY <1>1, <1>2, PTL

-----------------------------------------------------------------------------
(* What holds whatever dies and however long a handler runs.               *)

\* No two active rows share a key, in the form the writes check it.
NoClash == ~Clash(status)

\* A write that makes no inactive row active leaves the keys apart.
LEMMA NarrowerIsUnique ==
    ASSUME NoClash, \A j \in Jobs : status'[j] \in Active => status[j] \in Active
    PROVE  NoClash'
  BY DEF NoClash, Clash

\* Each step either asks the index or makes no row active.
LEMMA StepNoClash == Typed /\ NoClash /\ [Next]_vars => NoClash'
<1> SUFFICES ASSUME Typed, NoClash, [Next]_vars PROVE NoClash'
  OBVIOUS
<1> USE DEF Typed, TypeOK, HolderOK, Busy, Status
<1>1. ASSUME NEW j \in Jobs, Enqueue(j) PROVE NoClash'
  BY <1>1 DEF Enqueue, NoClash, Clash
<1>2. ASSUME NEW j \in Jobs, Clock(j) PROVE NoClash'
  BY <1>2 DEF Clock, BecomeDue, Age, NoClash, Clash
<1>3. ASSUME NEW w \in Workers, Claim(w) PROVE NoClash'
  <2>1. \A j \in Jobs : status'[j] \in Active => status[j] \in Active
    BY <1>3, LenProperties, ElementOfSeq DEF Claim, WithStatus, Runnable, Active
  <2> QED BY <2>1, NarrowerIsUnique
<1>4. ASSUME NEW w \in Workers,
             \/ Handler(w) \/ SweepRead(w) \/ Crash(w) \/ RetryRefused(w) \/ SweepRefused(w)
      PROVE  NoClash'
  BY <1>4 DEF Handler, HandlerCommits, HandlerRaises, SweepRead, Crash, RetryRefused,
              SweepRefused, rows, NoClash, Clash
<1>5. ASSUME NEW w \in Workers, Complete(w) \/ GiveUp(w) PROVE NoClash'
  <2>1. \A j \in Jobs : status'[j] \in Active => status[j] \in Active
    BY <1>5 DEF Complete, GiveUp, WithStatus, Active
  <2> QED BY <2>1, NarrowerIsUnique
<1>6. ASSUME NEW w \in Workers, Retry(w) \/ SweepWrite(w) PROVE NoClash'
  BY <1>6 DEF Retry, SweepWrite, NoClash, Clash
<1>7. CASE UNCHANGED vars
  BY <1>7 DEF vars, rows, NoClash, Clash
<1> QED BY <1>1, <1>2, <1>3, <1>4, <1>5, <1>6, <1>7 DEF Next, Finish, SweepEnd

\* At most one active row carries a dedupe key (uq_jobs_dedupe_active), for any
\* number of workers, crashes and overruns.
THEOREM KeysStayUnique == Spec => []KeyUnique
<1>1. Init => NoClash
  BY DEF Init, NoClash, Clash, Active
<1>2. NoClash => KeyUnique
  BY DEF NoClash, Clash, KeyUnique, Active
<1> QED BY <1>1, <1>2, InitTyped, StepTyped, StepNoClash, PTL DEF Spec

\* "done" is backed by a committed attempt because a worker reaches "committed"
\* only through its own commit.
CommitCounted == \A w \in Workers : pc[w] = "committed" => applied[job[w]] # {}

Backed == Typed /\ DoneMeansApplied /\ CommitCounted

\* Every step keeps the verdicts backed by commits.
LEMMA StepBacked == Backed /\ [Next]_vars => Backed'
<1> SUFFICES ASSUME Backed, [Next]_vars PROVE Backed'
  OBVIOUS
<1>0. Typed'
  BY StepTyped DEF Backed
<1> SUFFICES DoneMeansApplied' /\ CommitCounted'
  BY <1>0 DEF Backed
<1> USE DEF Backed, Typed, TypeOK, HolderOK, Busy, Status, DoneMeansApplied, CommitCounted
<1>1. ASSUME NEW j \in Jobs, Enqueue(j) \/ Clock(j)
      PROVE  DoneMeansApplied' /\ CommitCounted'
  BY <1>1 DEF Enqueue, Clock, BecomeDue, Age, WithStatus, process
<1>2. ASSUME NEW v \in Workers, Claim(v)
      PROVE  DoneMeansApplied' /\ CommitCounted'
  BY <1>2, LenProperties, ElementOfSeq DEF Claim, WithStatus
<1>3. ASSUME NEW v \in Workers, HandlerCommits(v)
      PROVE  DoneMeansApplied' /\ CommitCounted'
  BY <1>3 DEF HandlerCommits, rows
<1>4. ASSUME NEW v \in Workers, HandlerRaises(v)
      PROVE  DoneMeansApplied' /\ CommitCounted'
  BY <1>4 DEF HandlerRaises, rows
<1>5. ASSUME NEW v \in Workers, Finish(v)
      PROVE  DoneMeansApplied' /\ CommitCounted'
  BY <1>5 DEF Finish, Complete, Retry, Left, RetryRefused, GiveUp, Release, WithStatus, rows
<1>6. ASSUME NEW v \in Workers, SweepRead(v)
      PROVE  DoneMeansApplied' /\ CommitCounted'
  BY <1>6 DEF SweepRead, Left, rows
<1>7. ASSUME NEW v \in Workers, SweepEnd(v) \/ Crash(v)
      PROVE  DoneMeansApplied' /\ CommitCounted'
  <2>1. CASE SweepWrite(v)
    <3>1. \A j \in Jobs : status'[j] = "done" => status[j] = "done"
      BY <2>1 DEF SweepWrite, Swept
    <3>2. CommitCounted'
      BY <2>1 DEF SweepWrite, Release
    <3> QED BY <2>1, <3>1, <3>2 DEF SweepWrite
  <2>2. CASE SweepRefused(v) \/ Crash(v)
    BY <2>2 DEF SweepRefused, Crash, Release, rows
  <2> QED BY <1>7, <2>1, <2>2 DEF SweepEnd
<1>8. CASE UNCHANGED vars
  BY <1>8 DEF vars, rows, process
<1> QED BY <1>1, <1>2, <1>3, <1>4, <1>5, <1>6, <1>7, <1>8 DEF Next, Handler

\* A job is recorded as done only if one of its handler transactions
\* committed, for any number of workers, crashes and overruns.
THEOREM DoneIsBacked == Spec => []DoneMeansApplied
<1>1. Init => Backed
  BY InitTyped DEF Init, Backed, DoneMeansApplied, CommitCounted
<1>2. Backed => DoneMeansApplied
  BY DEF Backed
<1> QED BY <1>1, <1>2, StepBacked, PTL DEF Spec

-----------------------------------------------------------------------------
(* While handlers return within the ten minutes of the lock and nobody else *)
(* works while one worker sweeps, it is as if each row had one worker.      *)

\* An aged lock is an orphan's: nobody is processing the row.
AgedIsOrphan == \A w \in Workers, j \in aged : status[j] = "running" => ~Holds(w, j)

\* What the sweep is about to write is still right when it writes it.
PlanFresh ==
    \A w \in Workers, j \in Jobs :
        /\ plan[w][j] # "keep" => status[j] = "running"
        /\ plan[w][j] = "failed" => attempts[j] < MaxAttempts[j]
        /\ plan[w][j] = "dead" => attempts[j] = MaxAttempts[j]

PlanOnlySweeping == \A w \in Workers : pc[w] # "sweeping" => plan[w] = NoPlan

\* The attempt a worker is in is the row's latest, and it has not committed.
AttemptCurrent ==
    \A w \in Workers :
        /\ pc[w] \in Busy => attempt[w] = attempts[job[w]] /\ attempt[w] > 0
        /\ pc[w] = "handling" => attempt[w] \notin applied[job[w]]
        /\ pc[w] = "unhandled" => job[w] \notin Handled

\* A row that is not inserted yet has spent nothing.
Fresh == \A j \in Jobs : status[j] = "absent" => attempts[j] = 0

AppliedStarted == \A j \in Jobs : \A n \in applied[j] : n <= attempts[j]

\* Whoever sweeps is the only one at work.
SweepsAlone == \A v, w \in Workers : pc[v] = "sweeping" /\ v # w => pc[w] = "idle"

\* No lock ages under the handler of its row.
InTime == \A j \in Jobs : Held(j) /\ Held(j)' => j \in aged \/ j \notin aged'

Sound ==
    /\ Backed
    /\ OwnedWhileHeld
    /\ NoClash
    /\ AttemptsWithinBudget
    /\ AgedIsOrphan
    /\ PlanFresh
    /\ PlanOnlySweeping
    /\ AttemptCurrent
    /\ AppliedStarted
    /\ Fresh
    /\ SweepsAlone

\* All of it holds of the empty table.
LEMMA InitSound == Init => Sound
<1> SUFFICES ASSUME Init PROVE Sound
  OBVIOUS
<1>1. Backed
  BY InitTyped DEF Init, Backed, DoneMeansApplied, CommitCounted
<1> QED BY <1>1, JobAssumption DEF Init, Sound, OwnedWhileHeld, NoClash, Clash, AttemptsWithinBudget,
      AgedIsOrphan, PlanFresh, PlanOnlySweeping, AttemptCurrent, AppliedStarted, Fresh, SweepsAlone,
      Holds, Busy, Active, Runnable, NoPlan

\* A worker that stops working, having left each row as it was or taken it out of
\* the hands of everybody, leaves the rest as sound as it was.
LEMMA ReleaseSound ==
    ASSUME Sound, NEW v \in Workers, Release(v), Backed', UNCHANGED <<rows, applied>>
    PROVE  Sound'
<1> USE DEF Sound, Release, rows
<1>1. Typed /\ Typed'
  BY DEF Backed
<1>2. /\ \A w \in Workers : w # v => pc'[w] = pc[w] /\ job'[w] = job[w] /\ attempt'[w] = attempt[w]
                                      /\ plan'[w] = plan[w]
      /\ pc'[v] = "idle" /\ plan'[v] = NoPlan
  BY <1>1 DEF Typed, TypeOK
<1>3. OwnedWhileHeld' /\ AgedIsOrphan'
  BY <1>2 DEF OwnedWhileHeld, AgedIsOrphan, Holds, Busy
<1>4. PlanFresh' /\ PlanOnlySweeping' /\ SweepsAlone'
  BY <1>2 DEF PlanFresh, PlanOnlySweeping, SweepsAlone, NoPlan
<1>5. AttemptCurrent'
  BY <1>2 DEF AttemptCurrent, Busy
<1>6. NoClash' /\ AttemptsWithinBudget' /\ AppliedStarted' /\ Fresh'
  BY DEF NoClash, Clash, AttemptsWithinBudget, AppliedStarted, Fresh
<1> QED BY <1>3, <1>4, <1>5, <1>6

\* The verdict a worker writes on the row it holds: the worker lets go of it.
LEMMA VerdictSound ==
    ASSUME Sound, NEW v \in Workers, pc[v] \in Busy, Release(v), Backed', NoClash',
           NEW s \in {"done", "failed", "dead"},
           status' = WithStatus(job[v], s),
           s = "failed" => Left(job[v]),
           lockedBy' = [lockedBy EXCEPT ![job[v]] = None],
           attempts' = attempts \/ (s = "dead" /\
                           attempts' = [attempts EXCEPT ![job[v]] = MaxAttempts[job[v]]]),
           UNCHANGED <<aged, applied>>
    PROVE  Sound'
<1> DEFINE j == job[v]
<1> USE DEF Sound
<1>1. Typed /\ Typed' /\ j \in Jobs
  BY DEF Backed, Typed, HolderOK
<1>2. /\ \A w \in Workers : w # v => pc'[w] = pc[w] /\ job'[w] = job[w] /\ attempt'[w] = attempt[w]
                                      /\ plan'[w] = plan[w]
      /\ pc'[v] = "idle" /\ plan'[v] = NoPlan
  BY <1>1 DEF Typed, TypeOK, Release
<1>3. /\ status'[j] = s /\ \A k \in Jobs : k # j => status'[k] = status[k]
      /\ \A k \in Jobs : k # j => lockedBy'[k] = lockedBy[k] /\ attempts'[k] = attempts[k]
      /\ attempts'[j] \in {attempts[j], MaxAttempts[j]}
  BY <1>1 DEF Typed, TypeOK, WithStatus
<1>4. \A w \in Workers : w # v /\ pc[w] \in Busy => job[w] # j
  BY <1>1 DEF OwnedWhileHeld, Holds
<1>5. \A w \in Workers : pc[w] # "sweeping"
  BY DEF SweepsAlone, Busy
<1>6. OwnedWhileHeld' /\ AgedIsOrphan'
  <2>1. ASSUME NEW w \in Workers, NEW k \in Jobs, Holds(w, k)'
        PROVE  w # v /\ k # j /\ Holds(w, k)
    BY <1>2, <1>4, <2>1 DEF Holds, Busy
  <2>2. OwnedWhileHeld'
    BY <1>3, <2>1 DEF OwnedWhileHeld
  <2>3. AgedIsOrphan'
    <3>1. aged' = aged /\ aged \subseteq Jobs
      BY <1>1 DEF Typed, TypeOK
    <3> QED BY <1>3, <2>1, <3>1 DEF AgedIsOrphan
  <2> QED BY <2>2, <2>3
<1>7. \A w \in Workers : pc'[w] # "sweeping" /\ plan'[w] = NoPlan
  BY <1>2, <1>5 DEF PlanOnlySweeping
<1>8. PlanFresh' /\ PlanOnlySweeping' /\ SweepsAlone'
  BY <1>7 DEF PlanFresh, PlanOnlySweeping, SweepsAlone, NoPlan
<1>9. AttemptCurrent'
  <2>1. ASSUME NEW w \in Workers, pc'[w] \in Busy
        PROVE  w # v /\ pc[w] \in Busy /\ job[w] \in Jobs /\ job[w] # j
    BY <1>1, <1>2, <1>4, <2>1 DEF Busy, Typed, HolderOK
  <2> QED BY <1>2, <1>3, <2>1 DEF AttemptCurrent, Busy
<1>10. attempts[j] \in Nat /\ attempts[j] <= MaxAttempts[j] /\ MaxAttempts[j] \in Nat
  BY <1>1, JobAssumption DEF Typed, TypeOK, AttemptsWithinBudget
<1>11. AttemptsWithinBudget'
  <2>1. s \in Runnable => attempts'[j] = attempts[j] /\ attempts[j] < MaxAttempts[j]
    BY <1>1 DEF Runnable, Left
  <2>2. attempts'[j] <= MaxAttempts[j]
    BY <1>3, <1>10
  <2>3. \A k \in Jobs : k # j => /\ attempts'[k] <= MaxAttempts[k]
                                 /\ status'[k] \in Runnable => attempts'[k] < MaxAttempts[k]
    BY <1>3 DEF AttemptsWithinBudget
  <2> QED BY <1>3, <2>1, <2>2, <2>3 DEF AttemptsWithinBudget
<1>12. AppliedStarted' /\ Fresh'
  <2>1. ASSUME NEW k \in Jobs, NEW n \in applied[k] PROVE n <= attempts'[k]
    <3>1. n \in Nat /\ n <= attempts[k] /\ attempts[k] \in Nat
      BY <1>1 DEF Typed, TypeOK, AppliedStarted
    <3> QED BY <1>3, <1>10, <3>1
  <2>2. AppliedStarted'
    BY <2>1 DEF AppliedStarted
  <2> QED BY <1>3, <2>2 DEF Fresh
<1> QED BY <1>6, <1>8, <1>9, <1>11, <1>12

\* A worker that takes a row has it to itself.
LEMMA ClaimSound ==
    ASSUME Sound, NEW v \in Workers, Claim(v), Backed', NoClash', SweepsAlone'
    PROVE  Sound'
<1> USE DEF Sound
<1>1. PICK i \in DOMAIN due : Claim(v)!2!(i)
  BY DEF Claim
<1> DEFINE j == due[i]
<1>2. Typed /\ Typed' /\ j \in Jobs
  BY <1>1, ElementOfSeq, LenProperties DEF Backed, Typed, TypeOK
<1> HIDE DEF j
<1>3. /\ pc[v] = "idle" /\ status[j] \in Runnable
      /\ status' = [status EXCEPT ![j] = "running"]
      /\ lockedBy' = [lockedBy EXCEPT ![j] = v]
      /\ aged' = aged \ {j}
      /\ attempts' = [attempts EXCEPT ![j] = @ + 1]
      /\ job' = [job EXCEPT ![v] = j]
      /\ attempt' = [attempt EXCEPT ![v] = attempts[j] + 1]
      /\ pc' = [pc EXCEPT ![v] = IF j \in Handled THEN "handling" ELSE "unhandled"]
      /\ UNCHANGED <<due, applied, plan>>
  BY <1>1 DEF Claim, WithStatus, j
<1>4. /\ \A w \in Workers : w # v => pc'[w] = pc[w] /\ job'[w] = job[w] /\ attempt'[w] = attempt[w]
      /\ job'[v] = j /\ attempt'[v] = attempts[j] + 1
      /\ pc'[v] = IF j \in Handled THEN "handling" ELSE "unhandled"
  BY <1>2, <1>3 DEF Typed, TypeOK
<1>5. /\ status'[j] = "running" /\ lockedBy'[j] = v /\ attempts'[j] = attempts[j] + 1
      /\ \A k \in Jobs : k # j => status'[k] = status[k] /\ lockedBy'[k] = lockedBy[k]
                                  /\ attempts'[k] = attempts[k]
      /\ attempts[j] \in Nat
  BY <1>2, <1>3 DEF Typed, TypeOK
<1>6. \A w \in Workers : w # v /\ pc[w] \in Busy => job[w] \in Jobs /\ job[w] # j
  BY <1>2, <1>3 DEF OwnedWhileHeld, Holds, Runnable, Typed, HolderOK
<1>7. ASSUME NEW w \in Workers, NEW k \in Jobs, Holds(w, k)'
      PROVE  (w = v /\ k = j) \/ (w # v /\ k # j /\ Holds(w, k))
  BY <1>4, <1>6, <1>7 DEF Holds
<1>8. OwnedWhileHeld' /\ AgedIsOrphan'
  <2>1. OwnedWhileHeld'
    BY <1>5, <1>7 DEF OwnedWhileHeld
  <2>2. AgedIsOrphan'
    <3>1. aged' = aged \ {j} /\ aged \subseteq Jobs
      BY <1>2, <1>3 DEF Typed, TypeOK
    <3> QED BY <1>5, <1>7, <3>1 DEF AgedIsOrphan
  <2> QED BY <2>1, <2>2
<1>9. \A w \in Workers : plan'[w] = NoPlan
  <2>1. \A w \in Workers : pc'[w] # "sweeping"
    BY <1>4 DEF SweepsAlone
  <2> QED BY <1>3, <1>4, <2>1 DEF PlanOnlySweeping
<1>10. PlanFresh' /\ PlanOnlySweeping'
  BY <1>9 DEF PlanFresh, PlanOnlySweeping, NoPlan
<1>11. AttemptsWithinBudget' /\ Fresh'
  <2>1. attempts[j] < MaxAttempts[j] /\ MaxAttempts[j] \in Nat
    BY <1>2, <1>3, JobAssumption DEF AttemptsWithinBudget
  <2>2. attempts'[j] <= MaxAttempts[j]
    BY <1>5, <2>1
  <2> QED BY <1>5, <2>2 DEF AttemptsWithinBudget, Fresh, Runnable
<1>12. \A n \in applied[j] : n \in Nat /\ n <= attempts[j]
  BY <1>2 DEF Typed, TypeOK, AppliedStarted
<1>13. attempt'[v] \notin applied[j] /\ attempt'[v] > 0
  BY <1>4, <1>5, <1>12
<1>14. AttemptCurrent'
  <2>1. ASSUME NEW w \in Workers, w # v, pc'[w] \in Busy
        PROVE  /\ attempt'[w] = attempts'[job'[w]] /\ attempt'[w] > 0
               /\ pc'[w] = "handling" => attempt'[w] \notin applied'[job'[w]]
               /\ pc'[w] = "unhandled" => job'[w] \notin Handled
    BY <1>3, <1>4, <1>5, <1>6, <2>1 DEF AttemptCurrent
  <2> QED BY <1>3, <1>4, <1>5, <1>13, <2>1 DEF AttemptCurrent, Busy
<1>15. AppliedStarted'
  BY <1>3, <1>5, <1>12 DEF AppliedStarted
<1> QED BY <1>8, <1>10, <1>11, <1>14, <1>15

\* Every step keeps it, if afterwards whoever sweeps is alone and no lock aged
\* under a handler.
LEMMA StepSound ==
    ASSUME Sound, [Next]_vars, SweepsAlone', InTime
    PROVE  Sound'
<1>0. Backed' /\ NoClash'
  BY StepBacked, StepNoClash DEF Sound, Backed
<1>t. Typed /\ Typed'
  BY <1>0 DEF Sound, Backed
<1> USE JobAssumption
<1>1. ASSUME NEW j \in Jobs, Enqueue(j) PROVE Sound'
  <2>1. /\ \A k \in Jobs : k # j => status'[k] = status[k]
        /\ status[j] = "absent" /\ status'[j] = "queued"
        /\ UNCHANGED <<attempts, lockedBy, aged, applied, pc, job, attempt, plan>>
    BY <1>1, <1>t DEF Enqueue, WithStatus, process, Typed, TypeOK
  <2>2. OwnedWhileHeld' /\ AgedIsOrphan'
    BY <2>1, <1>t DEF Sound, OwnedWhileHeld, AgedIsOrphan, Holds, Typed, TypeOK
  <2>3. PlanFresh' /\ PlanOnlySweeping' /\ AttemptCurrent'
    BY <2>1 DEF Sound, PlanFresh, PlanOnlySweeping, AttemptCurrent
  <2>4. attempts[j] < MaxAttempts[j]
    BY <2>1 DEF Sound, Fresh
  <2>5. AttemptsWithinBudget' /\ AppliedStarted' /\ Fresh'
    BY <2>1, <2>4 DEF Sound, AttemptsWithinBudget, AppliedStarted, Fresh
  <2> QED BY <1>0, <2>2, <2>3, <2>5 DEF Sound
<1>2. ASSUME NEW j \in Jobs, BecomeDue(j) PROVE Sound'
  BY <1>0, <1>2 DEF BecomeDue, process, Sound, OwnedWhileHeld, AgedIsOrphan, Holds, PlanFresh,
     PlanOnlySweeping, AttemptCurrent, AttemptsWithinBudget, AppliedStarted, Fresh
<1>3. ASSUME NEW j \in Jobs, Age(j) PROVE Sound'
  <2>1. /\ j \notin aged /\ aged' = aged \cup {j}
        /\ UNCHANGED <<status, attempts, lockedBy, applied, pc, job, attempt, plan>>
    BY <1>3 DEF Age, process
  <2>2. \A w \in Workers : ~Holds(w, j)
    BY <2>1 DEF InTime, Held, Holds
  <2>3. AgedIsOrphan'
    BY <2>1, <2>2 DEF Sound, AgedIsOrphan, Holds
  <2> QED BY <1>0, <2>1, <2>3 DEF Sound, OwnedWhileHeld, Holds, PlanFresh, PlanOnlySweeping,
     AttemptCurrent, AttemptsWithinBudget, AppliedStarted, Fresh
<1>4. ASSUME NEW v \in Workers, Claim(v) PROVE Sound'
  BY <1>0, <1>4, ClaimSound
<1>5. ASSUME NEW v \in Workers, HandlerCommits(v) PROVE Sound'
  <2> DEFINE j == job[v]
  <2>1. /\ pc[v] = "handling" /\ j \in Jobs
        /\ applied' = [applied EXCEPT ![j] = @ \cup {attempt[v]}]
        /\ pc' = [pc EXCEPT ![v] = "committed"]
        /\ UNCHANGED <<status, attempts, lockedBy, aged, job, attempt, plan>>
    BY <1>5, <1>t DEF HandlerCommits, rows, Typed, HolderOK, Busy
  <2>2. /\ \A w \in Workers : w # v => pc'[w] = pc[w]
        /\ pc'[v] = "committed"
        /\ \A k \in Jobs : k # j => applied'[k] = applied[k]
        /\ applied'[j] = applied[j] \cup {attempt[v]}
    BY <1>t, <2>1 DEF Typed, TypeOK
  <2>3. \A w \in Workers, k \in Jobs : Holds(w, k)' <=> Holds(w, k)
    BY <2>1, <2>2 DEF Holds, Busy
  <2>4. OwnedWhileHeld' /\ AgedIsOrphan'
    BY <1>t, <2>1, <2>3 DEF Sound, OwnedWhileHeld, AgedIsOrphan, Typed, TypeOK
  <2>5. PlanFresh' /\ PlanOnlySweeping' /\ AttemptsWithinBudget' /\ Fresh'
    BY <2>1, <2>2 DEF Sound, PlanFresh, PlanOnlySweeping, AttemptsWithinBudget, Fresh
  <2>6. \A w \in Workers : w # v /\ pc[w] \in Busy => job[w] \in Jobs /\ job[w] # j
    BY <1>t, <2>1 DEF Sound, OwnedWhileHeld, Holds, Typed, HolderOK, Busy
  <2>7. AttemptCurrent'
    <3>1. attempt[v] = attempts[j] /\ attempt[v] > 0
      BY <2>1 DEF Sound, AttemptCurrent, Busy
    <3>2. ASSUME NEW w \in Workers, w # v, pc'[w] \in Busy
          PROVE  /\ attempt'[w] = attempts'[job'[w]] /\ attempt'[w] > 0
                 /\ pc'[w] = "handling" => attempt'[w] \notin applied'[job'[w]]
                 /\ pc'[w] = "unhandled" => job'[w] \notin Handled
      BY <2>1, <2>2, <2>6, <3>2 DEF Sound, AttemptCurrent
    <3> QED BY <2>1, <2>2, <3>1, <3>2 DEF AttemptCurrent, Busy
  <2>8. AppliedStarted'
    <3>1. attempt[v] = attempts[j] /\ attempts[j] \in Nat
      BY <1>t, <2>1 DEF Sound, AttemptCurrent, Busy, Typed, TypeOK
    <3> QED BY <2>1, <2>2, <3>1 DEF Sound, AppliedStarted
  <2> QED BY <1>0, <2>4, <2>5, <2>7, <2>8 DEF Sound
<1>6. ASSUME NEW v \in Workers, HandlerRaises(v) PROVE Sound'
  <2>1. /\ pc[v] = "handling" /\ UNCHANGED <<status, attempts, lockedBy, aged, applied, job, attempt, plan>>
        /\ \A w \in Workers : w # v => pc'[w] = pc[w]
        /\ pc'[v] = "raised"
    BY <1>6, <1>t DEF HandlerRaises, rows, Typed, TypeOK
  <2>2. \A w \in Workers, k \in Jobs : Holds(w, k)' <=> Holds(w, k)
    BY <2>1 DEF Holds, Busy
  <2>3. OwnedWhileHeld' /\ AgedIsOrphan'
    BY <1>t, <2>1, <2>2 DEF Sound, OwnedWhileHeld, AgedIsOrphan, Typed, TypeOK
  <2>4. AttemptCurrent'
    BY <2>1 DEF Sound, AttemptCurrent, Busy
  <2> QED BY <1>0, <2>1, <2>3, <2>4 DEF Sound, PlanFresh, PlanOnlySweeping, AttemptsWithinBudget,
      AppliedStarted, Fresh
<1>7. ASSUME NEW v \in Workers, Complete(v) PROVE Sound'
  BY <1>0, <1>7, VerdictSound DEF Complete, Busy
<1>8. ASSUME NEW v \in Workers, Retry(v) PROVE Sound'
  BY <1>0, <1>8, VerdictSound DEF Retry, Busy
<1>9. ASSUME NEW v \in Workers, GiveUp(v) PROVE Sound'
  BY <1>0, <1>9, VerdictSound DEF GiveUp, Busy
<1>10. ASSUME NEW v \in Workers, RetryRefused(v) \/ SweepRefused(v) \/ Crash(v) PROVE Sound'
  BY <1>0, <1>10, ReleaseSound DEF RetryRefused, SweepRefused, Crash
<1>11. ASSUME NEW v \in Workers, SweepRead(v) PROVE Sound'
  <2>1. /\ UNCHANGED <<status, attempts, lockedBy, aged, applied, job, attempt>>
        /\ \A w \in Workers : w # v => pc'[w] = pc[w] /\ plan'[w] = plan[w]
        /\ pc[v] = "idle" /\ pc'[v] = "sweeping"
        /\ plan'[v] = [j \in Jobs |-> IF j \notin Stale THEN "keep"
                                      ELSE IF Left(j) THEN "failed" ELSE "dead"]
    BY <1>11, <1>t DEF SweepRead, rows, Typed, TypeOK
  <2>2. ASSUME NEW w \in Workers, NEW k \in Jobs, Holds(w, k)'
        PROVE  Holds(w, k)
    BY <2>1, <2>2 DEF Holds, Busy
  <2>3. OwnedWhileHeld' /\ AgedIsOrphan'
    BY <1>t, <2>1, <2>2 DEF Sound, OwnedWhileHeld, AgedIsOrphan, Typed, TypeOK
  <2>4. PlanFresh'
    <3>1. ASSUME NEW j \in Jobs
          PROVE  /\ plan'[v][j] # "keep" => status[j] = "running"
                 /\ plan'[v][j] = "failed" => attempts[j] < MaxAttempts[j]
                 /\ plan'[v][j] = "dead" => attempts[j] = MaxAttempts[j]
      BY <1>t, <2>1 DEF Stale, Left, Sound, AttemptsWithinBudget, Typed, TypeOK
    <3> QED BY <2>1, <3>1 DEF Sound, PlanFresh
  <2>5. PlanOnlySweeping' /\ AttemptCurrent'
    BY <2>1 DEF Sound, PlanOnlySweeping, AttemptCurrent, Busy
  <2> QED BY <1>0, <2>1, <2>3, <2>4, <2>5 DEF Sound, AttemptsWithinBudget, AppliedStarted, Fresh
<1>12. ASSUME NEW v \in Workers, SweepWrite(v) PROVE Sound'
  <2>1. /\ \A j \in Jobs : status'[j] = IF plan[v][j] = "keep" THEN status[j] ELSE plan[v][j]
        /\ UNCHANGED <<attempts, aged, applied>>
        /\ pc[v] = "sweeping" /\ pc'[v] = "idle" /\ plan'[v] = NoPlan
        /\ \A w \in Workers : w # v => pc'[w] = pc[w] /\ plan'[w] = plan[w]
    BY <1>12, <1>t DEF SweepWrite, Release, Swept, Typed, TypeOK
  <2>2. \A w \in Workers : pc'[w] = "idle" /\ plan'[w] = NoPlan
    BY <2>1 DEF Sound, SweepsAlone, PlanOnlySweeping
  <2>3. \A w \in Workers, k \in Jobs : ~Holds(w, k)'
    BY <2>2 DEF Holds, Busy
  <2>4. OwnedWhileHeld' /\ AgedIsOrphan'
    BY <1>t, <2>3 DEF OwnedWhileHeld, AgedIsOrphan, Typed, TypeOK
  <2>5. PlanFresh' /\ PlanOnlySweeping' /\ AttemptCurrent'
    BY <2>2 DEF PlanFresh, PlanOnlySweeping, AttemptCurrent, NoPlan, Busy
  <2>6. \A j \in Jobs : /\ attempts[j] <= MaxAttempts[j]
                        /\ status'[j] \in Runnable => attempts[j] < MaxAttempts[j]
                        /\ status'[j] = "absent" => status[j] = "absent"
    BY <1>t, <2>1 DEF Sound, PlanFresh, AttemptsWithinBudget, Runnable, Typed, TypeOK
  <2>7. AttemptsWithinBudget' /\ Fresh' /\ AppliedStarted'
    BY <2>1, <2>6 DEF Sound, AttemptsWithinBudget, Fresh, AppliedStarted
  <2> QED BY <1>0, <2>4, <2>5, <2>7 DEF Sound
<1>13. CASE UNCHANGED vars
  BY <1>0, <1>13 DEF vars, rows, process, Sound, OwnedWhileHeld, AgedIsOrphan, Holds, PlanFresh,
     PlanOnlySweeping, AttemptCurrent, AttemptsWithinBudget, AppliedStarted, Fresh
<1> QED
  BY <1>1, <1>2, <1>3, <1>4, <1>5, <1>6, <1>7, <1>8, <1>9, <1>10, <1>11, <1>12, <1>13
  DEF Next, Clock, Handler, Finish, SweepEnd

\* A row that is processed or swept is RUNNING, and RUNNING is already active:
\* writing FAILED over it cannot clash.
LEMMA SoundAccepted == Sound => WritesAccepted
<1> SUFFICES ASSUME Sound, NEW w \in Workers
             PROVE  /\ pc[w] = "raised" => ~Clash(WithStatus(job[w], "failed"))
                    /\ pc[w] = "sweeping" => ~Clash(Swept(w))
  BY DEF WritesAccepted
<1> USE DEF Sound, Backed, Typed, TypeOK, HolderOK
<1>1. ASSUME pc[w] = "raised" PROVE ~Clash(WithStatus(job[w], "failed"))
  <2>1. job[w] \in Jobs /\ status[job[w]] = "running"
    BY <1>1 DEF OwnedWhileHeld, Holds, Busy
  <2>2. \A k \in Jobs : WithStatus(job[w], "failed")[k] \in Active => status[k] \in Active
    BY <2>1 DEF WithStatus, Active
  <2> QED BY <2>2 DEF NoClash, Clash
<1>2. ASSUME pc[w] = "sweeping" PROVE ~Clash(Swept(w))
  <2>1. \A k \in Jobs : Swept(w)[k] \in Active => status[k] \in Active
    BY DEF Swept, PlanFresh, Active
  <2> QED BY <2>1 DEF NoClash, Clash
<1> QED BY <1>1, <1>2

\* A row is locked by one worker, and each worker holds what it locked.
LEMMA SoundExclusive == Sound => ExclusiveClaim
BY DEF Sound, OwnedWhileHeld, ExclusiveClaim

-----------------------------------------------------------------------------
(* A fleet of one whose handlers meet the lock.                             *)

\* Nobody else works while the one worker sweeps, and the row it handles does
\* not age.
LEMMA SoloSound ==
    ASSUME NEW solo, Workers = {solo}, ~MayOverrun, Sound, [Next]_vars
    PROVE  Sound'
<1>1. SweepsAlone'
  BY DEF SweepsAlone
<1>2. InTime
  <2> SUFFICES ASSUME NEW k \in Jobs, k \notin aged, k \in aged' PROVE ~Held(k)
    BY DEF InTime
  <2>1. ASSUME NEW j \in Jobs, Age(j) PROVE ~Held(k)
    <3>1. k = j
      BY <2>1 DEF Age
    <3> QED BY <2>1, <3>1 DEF Age, Held
  <2>2. aged' \subseteq aged \/ \E j \in Jobs : Age(j)
    BY DEF Next, vars, rows, Enqueue, Clock, BecomeDue, Claim, Handler, HandlerCommits,
       HandlerRaises, Finish, Complete, Retry, RetryRefused, GiveUp, SweepRead, SweepEnd,
       SweepWrite, SweepRefused, Crash
  <2> QED BY <2>1, <2>2
<1> QED BY <1>1, <1>2, StepSound

\* The row the worker is processing is RUNNING and its own: nothing else
\* rewrites it before the worker's third transaction (run_once, requeue_stale).
THEOREM SoloOwnsItsJob ==
    ASSUME NEW solo, Workers = {solo}, ~MayOverrun
    PROVE  Spec => []OwnedWhileHeld
<1>1. Sound /\ [Next]_vars => Sound'
  BY SoloSound
<1>2. Sound => OwnedWhileHeld
  BY DEF Sound
<1> QED BY <1>1, <1>2, InitSound, PTL DEF Spec

\* Claims stay within max_attempts although claim never compares the two.
THEOREM SoloBudget ==
    ASSUME NEW solo, Workers = {solo}, ~MayOverrun
    PROVE  Spec => []AttemptsWithinBudget
<1>1. Sound /\ [Next]_vars => Sound'
  BY SoloSound
<1>2. Sound => AttemptsWithinBudget
  BY DEF Sound
<1> QED BY <1>1, <1>2, InitSound, PTL DEF Spec

\* The dedupe index never refuses the worker's own bookkeeping.
THEOREM SoloWritesAccepted ==
    ASSUME NEW solo, Workers = {solo}, ~MayOverrun
    PROVE  Spec => []WritesAccepted
<1>1. Sound /\ [Next]_vars => Sound'
  BY SoloSound
<1> QED BY <1>1, SoundAccepted, InitSound, PTL DEF Spec

-----------------------------------------------------------------------------
(* Refinement: from a sound state the queue does what DurableQueue says.    *)

\* Every step of any worker is a step of the promise or invisible to it.
LEMMA StepPromise ==
    ASSUME Sound, [Next]_vars
    PROVE  [Durable!Next]_(Durable!vars)
<1> USE JobAssumption
<1> USE DEF Sound, Backed, Typed, TypeOK, HolderOK, Busy, Holds, Phase, Active, Runnable, Durable!vars
<1>1. ASSUME NEW j \in Jobs, Enqueue(j) PROVE Durable!Next
  <2>1. Durable!Submit(j)
    BY <1>1 DEF Enqueue, WithStatus, Durable!Submit
  <2> QED BY <2>1 DEF Durable!Next
<1>2. ASSUME NEW j \in Jobs, Clock(j) PROVE UNCHANGED Durable!vars
  BY <1>2 DEF Clock, BecomeDue, Age
<1>3. ASSUME NEW w \in Workers, Claim(w) PROVE Durable!Next
  <2>1. PICK i \in DOMAIN due : Claim(w)!2!(i)
    BY <1>3 DEF Claim
  <2>2. due[i] \in Jobs
    BY <2>1, ElementOfSeq, LenProperties
  <2>3. Durable!Start(due[i])
    BY <1>3, <2>1, <2>2 DEF Claim, WithStatus, Durable!Start, AttemptsWithinBudget
  <2> QED BY <2>2, <2>3 DEF Durable!Next
<1>4. ASSUME NEW w \in Workers, HandlerCommits(w) PROVE Durable!Next
  <2>1. job[w] \in Jobs /\ status[job[w]] = "running"
    BY <1>4 DEF HandlerCommits, OwnedWhileHeld
  <2>2. attempt[w] = attempts[job[w]] /\ attempt[w] \notin applied[job[w]] /\ attempt[w] > 0
    BY <1>4 DEF HandlerCommits, AttemptCurrent
  <2>3. Durable!Apply(job[w])
    BY <1>4, <2>1, <2>2 DEF HandlerCommits, rows, Durable!Apply
  <2> QED BY <2>1, <2>3 DEF Durable!Next
<1>5. ASSUME NEW w \in Workers, HandlerRaises(w) PROVE UNCHANGED Durable!vars
  BY <1>5 DEF HandlerRaises, rows
<1>6. ASSUME NEW w \in Workers, Complete(w) PROVE Durable!Next
  <2>1. job[w] \in Jobs /\ status[job[w]] = "running" /\ applied[job[w]] # {}
    BY <1>6 DEF Complete, OwnedWhileHeld, CommitCounted
  <2>2. Durable!Acknowledge(job[w])
    BY <1>6, <2>1 DEF Complete, WithStatus, Durable!Acknowledge
  <2> HIDE DEF Sound, Backed, Typed, TypeOK, HolderOK, Busy, Holds, Phase, Active, Runnable
  <2> QED BY <2>1, <2>2 DEF Durable!Next
<1>7. ASSUME NEW w \in Workers, Retry(w) PROVE UNCHANGED Durable!vars
  <2>1. job[w] \in Jobs /\ status[job[w]] = "running"
    BY <1>7 DEF Retry, Left, OwnedWhileHeld
  <2> QED BY <1>7, <2>1 DEF Retry, Left, WithStatus
<1>8. ASSUME NEW w \in Workers, RetryRefused(w) \/ SweepRefused(w) \/ Crash(w) PROVE UNCHANGED Durable!vars
  BY <1>8 DEF RetryRefused, SweepRefused, Crash, rows
<1>9. ASSUME NEW w \in Workers, GiveUp(w) PROVE Durable!Abandon
  <2> DEFINE j == job[w]
  <2>1. j \in Jobs /\ status[j] = "running" /\ attempts[j] <= MaxAttempts[j]
    BY <1>9 DEF GiveUp, Left, OwnedWhileHeld, AttemptsWithinBudget
  <2>2. status' = [status EXCEPT ![j] = "dead"] /\ applied' = applied
    BY <1>9 DEF GiveUp, Left, WithStatus
  <2>3. /\ attempts' = [k \in Jobs |-> IF k \in {j} /\ k \notin Handled THEN MaxAttempts[k] ELSE attempts[k]]
        /\ attempts'[j] = MaxAttempts[j]
    <3>1. CASE pc[w] = "unhandled"
      BY <1>9, <2>1, <3>1 DEF GiveUp, Left, AttemptCurrent
    <3>2. CASE pc[w] = "raised"
      <4>1. attempts[j] = MaxAttempts[j] /\ attempts' = attempts
        BY <1>9, <2>1, <3>2 DEF GiveUp, Left
      <4> QED BY <2>1, <4>1
    <3> QED BY <1>9, <3>1, <3>2 DEF GiveUp, Left
  <2>4. Phase' = [k \in Jobs |-> IF k \in {j} THEN "dead" ELSE Phase[k]]
    BY <2>1, <2>2
  <2>5. {j} \in SUBSET {k \in Jobs : Phase[k] = "pending"}
    BY <2>1
  <2> HIDE DEF Sound, Backed, Typed, TypeOK, HolderOK, Busy, Holds, Phase, Active, Runnable
  <2> HIDE DEF j
  <2> QED BY <2>2, <2>3, <2>4, <2>5 DEF Durable!Abandon
<1>10. ASSUME NEW w \in Workers, SweepRead(w) PROVE UNCHANGED Durable!vars
  BY <1>10 DEF SweepRead, Left, rows
<1>11. ASSUME NEW w \in Workers, SweepWrite(w) PROVE Durable!Abandon
  <2> DEFINE S == {j \in Jobs : plan[w][j] = "dead"}
  <2>1. /\ \A j \in Jobs : status'[j] = IF plan[w][j] = "keep" THEN status[j] ELSE plan[w][j]
        /\ UNCHANGED <<attempts, applied>>
    BY <1>11 DEF SweepWrite, Swept
  <2>2. \A j \in Jobs : /\ plan[w][j] # "keep" => status[j] = "running"
                        /\ plan[w][j] = "dead" => attempts[j] = MaxAttempts[j]
    BY DEF PlanFresh
  <2>3. S \in SUBSET {j \in Jobs : Phase[j] = "pending"}
    BY <2>2
  <2>4. Phase' = [j \in Jobs |-> IF j \in S THEN "dead" ELSE Phase[j]]
    BY <2>1, <2>2
  <2>5. /\ attempts' = [j \in Jobs |-> IF j \in S /\ j \notin Handled THEN MaxAttempts[j] ELSE attempts[j]]
        /\ \A j \in S : attempts'[j] = MaxAttempts[j]
    BY <2>1, <2>2
  <2> HIDE DEF S
  <2> QED BY <2>1, <2>3, <2>4, <2>5 DEF Durable!Abandon
<1>12. CASE UNCHANGED vars
  BY <1>12 DEF vars, rows
<1>13. Durable!Abandon => Durable!Next
  BY DEF Durable!Next
<1> HIDE DEF Sound, Backed, Typed, TypeOK, HolderOK, Busy, Holds, Phase, Active, Runnable, Durable!vars
<1> QED
  BY <1>1, <1>2, <1>3, <1>4, <1>5, <1>6, <1>7, <1>8, <1>9, <1>10, <1>11, <1>12, <1>13
  DEF Next, Handler, Finish, SweepEnd

\* With one worker and handlers that meet the lock, the queue implements the
\* abstract promise: bounded starts, done only on effect, verdicts for good.
THEOREM SoloKeepsPromise ==
    ASSUME NEW solo, Workers = {solo}, ~MayOverrun
    PROVE  Spec => Promise
<1>1. Init => Durable!Init
  BY DEF Init, Durable!Init, Phase, Active
<1>2. Sound /\ [Next]_vars => Sound'
  BY SoloSound
<1>3. Sound /\ [Next]_vars => [Durable!Next]_(Durable!vars)
  BY StepPromise
<1> QED BY <1>1, <1>2, <1>3, InitSound, PTL DEF Spec, Promise, Durable!Spec

-----------------------------------------------------------------------------
(* The two deployments that are not rough.                                  *)

\* One process at a time: the others were never started.
OneAtWork == \A w \in Workers \ {Solo} : pc[w] = "idle"

\* Processes that are never killed: what is RUNNING is in somebody's hands, so
\* nobody finds anything stale, and a job that took effect is done or about to
\* be recorded as done.
Delivered(j) == status[j] = "done" \/ \E w \in Workers : pc[w] = "committed" /\ job[w] = j

AllAlive ==
    /\ \A w \in Workers : pc[w] # "sweeping"
    /\ \A j \in Jobs : status[j] = "running" => Held(j)
    /\ \A j \in Jobs : applied[j] # {} => Delivered(j)
    /\ AppliedOnce

Deployed ==
    /\ deployment \in {"one", "fleet", "rough"}
    /\ ~Rough => Sound
    /\ deployment = "one" => OneAtWork
    /\ deployment = "fleet" => AllAlive

\* The empty table, however it is run.
LEMMA InitDeployed == DeployInit => Deployed
  BY InitSound DEF DeployInit, Init, Deployed, Rough, OneAtWork, AllAlive, AppliedOnce

\* With everything RUNNING in somebody's hands there is nothing to sweep.
LEMMA NothingStale == Sound /\ AllAlive => Stale = {}
<1> SUFFICES ASSUME Sound, AllAlive, NEW j \in Stale PROVE FALSE
  OBVIOUS
<1>1. j \in Jobs /\ j \in aged /\ status[j] = "running"
  BY DEF Stale, Sound, Backed, Typed, TypeOK
<1>2. PICK w \in Workers : Holds(w, j)
  BY <1>1 DEF AllAlive, Held
<1> QED BY <1>1, <1>2 DEF Sound, AgedIsOrphan

\* A row in the hands of a worker that did not commit took no effect yet.
LEMMA NotYetApplied ==
    ASSUME Sound, AllAlive, NEW w \in Workers, pc[w] \in Busy, pc[w] # "committed"
    PROVE  applied[job[w]] = {}
<1>1. job[w] \in Jobs /\ status[job[w]] = "running" /\ Holds(w, job[w])
  BY DEF Sound, Backed, Typed, HolderOK, OwnedWhileHeld, Holds
<1>2. ASSUME NEW v \in Workers, pc[v] = "committed", job[v] = job[w] PROVE FALSE
  BY <1>1, <1>2, SoundExclusive DEF ExclusiveClaim, Holds, Busy
<1> QED BY <1>1, <1>2 DEF AllAlive, Delivered

\* No worker of a fleet dies or is refused a write; each step keeps it so.
LEMMA StepAlive ==
    ASSUME Sound, Sound', AllAlive, [Next]_vars, ~\E w \in Workers : Crash(w)
    PROVE  AllAlive'
<1>t. Typed /\ Typed'
  BY DEF Sound, Backed
<1> SUFFICES /\ \A w \in Workers : pc'[w] # "sweeping"
             /\ \A j \in Jobs : status'[j] = "running" => Held(j)'
             /\ \A j \in Jobs : applied'[j] # {} => Delivered(j)'
             /\ AppliedOnce'
  BY DEF AllAlive
<1>1. ASSUME NEW j \in Jobs, Enqueue(j) PROVE AllAlive'
  <2>1. /\ \A k \in Jobs : k # j => status'[k] = status[k]
        /\ status[j] = "absent" /\ status'[j] = "queued"
        /\ UNCHANGED <<applied, pc, job>>
    BY <1>1, <1>t DEF Enqueue, WithStatus, process, Typed, TypeOK
  <2>2. \A k \in Jobs : Delivered(k) => Delivered(k)'
    BY <2>1 DEF Delivered
  <2> QED BY <2>1, <2>2 DEF AllAlive, Held, Holds, AppliedOnce
<1>2. ASSUME NEW j \in Jobs, Clock(j) PROVE AllAlive'
  BY <1>2 DEF Clock, BecomeDue, Age, process, AllAlive, Held, Holds, Delivered, AppliedOnce
<1>3. ASSUME NEW v \in Workers, Claim(v) PROVE AllAlive'
  <2>1. PICK i \in DOMAIN due : Claim(v)!2!(i)
    BY <1>3 DEF Claim
  <2> DEFINE j == due[i]
  <2>2. j \in Jobs
    BY <1>t, <2>1, ElementOfSeq, LenProperties DEF Typed, TypeOK
  <2> HIDE DEF j
  <2>3. /\ pc[v] = "idle" /\ status[j] \in Runnable
        /\ status' = [status EXCEPT ![j] = "running"]
        /\ job' = [job EXCEPT ![v] = j]
        /\ pc' = [pc EXCEPT ![v] = IF j \in Handled THEN "handling" ELSE "unhandled"]
        /\ applied' = applied
    BY <1>3, <2>1 DEF Claim, WithStatus, j
  <2>4. /\ status'[j] = "running" /\ job'[v] = j /\ pc'[v] \in {"handling", "unhandled"}
        /\ \A k \in Jobs : k # j => status'[k] = status[k]
        /\ \A w \in Workers : w # v => pc'[w] = pc[w] /\ job'[w] = job[w]
    BY <1>t, <2>2, <2>3 DEF Typed, TypeOK
  <2>5. \A w \in Workers : pc'[w] # "sweeping"
    BY <2>4 DEF AllAlive
  <2>6. \A k \in Jobs : status'[k] = "running" => Held(k)'
    <3>1. pc'[v] \in Busy /\ job'[v] = j
      BY <2>4 DEF Busy
    <3>2. \E w \in Workers : pc'[w] \in Busy /\ job'[w] = j
      BY <3>1
    <3>3. \A k \in Jobs : k # j /\ Held(k) => \E w \in Workers : pc'[w] \in Busy /\ job'[w] = k
      BY <2>3, <2>4 DEF Held, Holds, Busy
    <3> QED BY <2>4, <3>2, <3>3 DEF AllAlive, Held, Holds
  <2>7. \A k \in Jobs : Delivered(k) => Delivered(k)'
    <3>1. ~Delivered(j)
      BY <2>2, <2>3 DEF Delivered, Sound, OwnedWhileHeld, Holds, Busy, Runnable
    <3>2. ASSUME NEW k \in Jobs, Delivered(k) PROVE Delivered(k)'
      <4>1. k # j
        BY <3>1, <3>2
      <4>2. CASE status[k] = "done"
        BY <2>4, <4>1, <4>2 DEF Delivered
      <4>3. CASE \E w \in Workers : pc[w] = "committed" /\ job[w] = k
        BY <2>3, <2>4, <4>3 DEF Delivered
      <4> QED BY <3>2, <4>2, <4>3 DEF Delivered
    <3> QED BY <3>2
  <2> QED BY <2>3, <2>5, <2>6, <2>7 DEF AllAlive, AppliedOnce
<1>4. ASSUME NEW v \in Workers, HandlerCommits(v) PROVE AllAlive'
  <2> DEFINE j == job[v]
  <2>1. /\ pc[v] = "handling" /\ j \in Jobs
        /\ applied' = [applied EXCEPT ![j] = @ \cup {attempt[v]}]
        /\ pc' = [pc EXCEPT ![v] = "committed"]
        /\ UNCHANGED <<status, job>>
    BY <1>4, <1>t DEF HandlerCommits, rows, Typed, HolderOK, Busy
  <2>2. /\ \A w \in Workers : w # v => pc'[w] = pc[w]
        /\ pc'[v] = "committed"
        /\ \A k \in Jobs : k # j => applied'[k] = applied[k]
        /\ applied'[j] = applied[j] \cup {attempt[v]}
    BY <1>t, <2>1 DEF Typed, TypeOK
  <2>3. applied[j] = {}
    BY <2>1, NotYetApplied DEF Busy
  <2>4. \A w \in Workers : pc'[w] # "sweeping"
    BY <2>2 DEF AllAlive
  <2>5. \A k \in Jobs : status'[k] = "running" => Held(k)'
    BY <2>1, <2>2 DEF AllAlive, Held, Holds, Busy
  <2>6. \A k \in Jobs : applied'[k] # {} => Delivered(k)'
    BY <2>1, <2>2 DEF AllAlive, Delivered
  <2>7. AppliedOnce'
    BY <2>2, <2>3 DEF AllAlive, AppliedOnce
  <2> QED BY <2>4, <2>5, <2>6, <2>7 DEF AllAlive
<1>5. ASSUME NEW v \in Workers, HandlerRaises(v) PROVE AllAlive'
  <2>1. /\ pc[v] = "handling" /\ UNCHANGED <<status, applied, job>>
        /\ \A w \in Workers : w # v => pc'[w] = pc[w]
        /\ pc'[v] = "raised"
    BY <1>5, <1>t DEF HandlerRaises, rows, Typed, TypeOK
  <2>2. \A k \in Jobs : Held(k) => Held(k)'
    BY <2>1 DEF Held, Holds, Busy
  <2>3. \A k \in Jobs : Delivered(k) => Delivered(k)'
    BY <2>1 DEF Delivered
  <2> QED BY <2>1, <2>2, <2>3 DEF AllAlive, AppliedOnce
<1>6. ASSUME NEW v \in Workers, Complete(v) \/ Retry(v) \/ GiveUp(v) PROVE AllAlive'
  <2> DEFINE j == job[v]
  <2>1. pc[v] \in Busy /\ j \in Jobs /\ status[j] = "running"
    BY <1>6, <1>t DEF Complete, Retry, GiveUp, Busy, Typed, HolderOK, Sound, OwnedWhileHeld, Holds
  <2>2. PICK s \in {"done", "failed", "dead"} :
          /\ status' = [status EXCEPT ![j] = s]
          /\ s = "done" \/ pc[v] # "committed"
    BY <1>6 DEF Complete, Retry, GiveUp, WithStatus
  <2>3. Release(v) /\ applied' = applied
    BY <1>6 DEF Complete, Retry, GiveUp
  <2>4. /\ status'[j] = s /\ \A k \in Jobs : k # j => status'[k] = status[k]
        /\ pc'[v] = "idle" /\ \A w \in Workers : w # v => pc'[w] = pc[w] /\ job'[w] = job[w]
    BY <1>t, <2>1, <2>2, <2>3 DEF Release, Typed, TypeOK
  <2>5. \A w \in Workers : pc'[w] # "sweeping"
    BY <2>4 DEF AllAlive
  <2>6. \A k \in Jobs : status'[k] = "running" => Held(k)'
    BY <2>4 DEF AllAlive, Held, Holds
  <2>7. \A k \in Jobs : applied'[k] # {} => Delivered(k)'
    <3>1. CASE s = "done"
      BY <2>3, <2>4, <3>1 DEF AllAlive, Delivered
    <3>2. CASE s # "done"
      <4>1. applied[j] = {}
        BY <2>1, <2>2, <3>2, NotYetApplied
      <4>2. \A k \in Jobs : k # j /\ Delivered(k) => Delivered(k)'
        BY <2>4 DEF Delivered
      <4> QED BY <2>3, <4>1, <4>2 DEF AllAlive
    <3> QED BY <3>1, <3>2
  <2> QED BY <2>3, <2>5, <2>6, <2>7 DEF AllAlive, AppliedOnce
<1>7. ASSUME NEW v \in Workers, RetryRefused(v) PROVE FALSE
  BY <1>7, SoundAccepted DEF RetryRefused, WritesAccepted
<1>8. ASSUME NEW v \in Workers, SweepRead(v) PROVE FALSE
  BY <1>8, NothingStale DEF SweepRead
<1>9. ASSUME NEW v \in Workers, SweepEnd(v) PROVE FALSE
  BY <1>9 DEF SweepEnd, SweepWrite, SweepRefused, AllAlive
<1>10. CASE UNCHANGED vars
  BY <1>10 DEF vars, rows, process, AllAlive, Held, Holds, Delivered, AppliedOnce
<1> QED
  BY <1>1, <1>2, <1>3, <1>4, <1>5, <1>6, <1>7, <1>8, <1>9, <1>10
  DEF AllAlive, Next, Handler, Finish

\* Every step of either deployment keeps the whole of it.
LEMMA StepDeployed == Deployed /\ [DeployNext]_allVars => Deployed'
<1> SUFFICES ASSUME Deployed, [DeployNext]_allVars PROVE Deployed'
  OBVIOUS
<1>1. deployment' = deployment /\ [Next]_vars
  BY DEF DeployNext, allVars
<1>2. CASE UNCHANGED allVars
  <2>1. UNCHANGED vars /\ UNCHANGED deployment
    BY <1>2 DEF allVars
  <2>2. UNCHANGED <<status, attempts, lockedBy, due, aged, applied, pc, job, attempt, plan>>
    BY <2>1 DEF vars, rows, process
  <2>3. Sound => Sound'
    BY <1>1, <2>2, StepSound DEF Sound, SweepsAlone, InTime
  <2>4. OneAtWork => OneAtWork'
    BY <2>2 DEF OneAtWork
  <2>5. AllAlive => AllAlive'
    BY <2>2 DEF AllAlive, Held, Holds, Delivered, AppliedOnce
  <2> QED BY <2>1, <2>3, <2>4, <2>5 DEF Deployed, Rough
<1>3. CASE DeployNext /\ deployment = "one"
  <2>1. OneAtWork'
    BY <1>3 DEF DeployNext, Fits, OneAtWork
  <2>2. SweepsAlone' /\ InTime
    BY <1>3, <2>1 DEF DeployNext, Fits, Rough, SweepsAlone, OneAtWork, InTime
  <2>3. Sound'
    BY <1>1, <1>3, <2>2, StepSound DEF Deployed, Rough
  <2> QED BY <1>1, <1>3, <2>1, <2>3 DEF Deployed, Rough
<1>4. CASE DeployNext /\ deployment = "fleet"
  <2>1. Sound /\ AllAlive
    BY <1>4 DEF Deployed, Rough
  <2>2. InTime /\ ~\E w \in Workers : Crash(w)
    BY <1>4 DEF DeployNext, Fits, Rough, InTime
  <2>3. \A w \in Workers : pc'[w] # "sweeping"
    <3>1. \A w \in Workers : ~SweepRead(w)
      BY <2>1, NothingStale DEF SweepRead
    <3>2. Typed
      BY <2>1 DEF Sound, Backed
    <3> QED BY <1>1, <2>1, <3>1, <3>2
        DEF Next, vars, rows, process, Enqueue, Clock, BecomeDue, Age, Claim, Handler, HandlerCommits,
        HandlerRaises, Finish, Complete, Retry, RetryRefused, GiveUp, SweepEnd,
        SweepWrite, SweepRefused, Crash, Release, AllAlive, Typed, TypeOK
  <2>4. SweepsAlone'
    BY <2>3 DEF SweepsAlone
  <2>5. Sound'
    BY <1>1, <2>1, <2>2, <2>4, StepSound
  <2>6. AllAlive'
    BY <1>1, <2>1, <2>2, <2>5, StepAlive
  <2> QED BY <1>1, <1>4, <2>5, <2>6 DEF Deployed, Rough
<1>5. CASE deployment = "rough"
  BY <1>1, <1>5 DEF Deployed, Rough
<1> QED BY <1>2, <1>3, <1>4, <1>5 DEF Deployed

\* The invariant of the three deployments.
LEMMA DeployedAlways == DeploySpec => []Deployed
  BY InitDeployed, StepDeployed, PTL DEF DeploySpec

\* A worker keeps the row it processes: one restarted process or any number of
\* living ones, however their steps interleave (run_once, requeue_stale).
THEOREM DeployedOwns == DeploySpec => []Owned
<1>1. Deployed => Owned
  BY DEF Deployed, Owned, Sound
<1> QED BY <1>1, DeployedAlways, PTL

\* "Exactly-once claiming across any number of worker processes", proved for
\* every number of processes that do not die and for one that does.
THEOREM DeployedExclusive == DeploySpec => []Exclusive
<1>1. Deployed => Exclusive
  BY SoundExclusive DEF Deployed, Exclusive
<1> QED BY <1>1, DeployedAlways, PTL

\* The dedupe index never refuses a worker's bookkeeping in either deployment.
THEOREM DeployedAccepted == DeploySpec => []Accepted
<1>1. Deployed => Accepted
  BY SoundAccepted DEF Deployed, Accepted
<1> QED BY <1>1, DeployedAlways, PTL

\* Claims stay within max_attempts in either deployment.
THEOREM DeployedBudget == DeploySpec => []WithinBudget
<1>1. Deployed => WithinBudget
  BY DEF Deployed, WithinBudget, Sound
<1> QED BY <1>1, DeployedAlways, PTL

\* Where no process dies, a handler's writes take effect at most once, whatever
\* number of workers retries the job.
THEOREM FleetOnce == DeploySpec => []FleetAppliesOnce
<1>1. Deployed => FleetAppliesOnce
  BY DEF Deployed, FleetAppliesOnce, AllAlive
<1> QED BY <1>1, DeployedAlways, PTL

\* Both deployments implement the abstract promise, step by step.
THEOREM DeployedKeepsPromise == DeploySpec => KeptPromise
<1>1. DeployInit => (~Rough => Durable!Init)
  BY DEF DeployInit, Init, Durable!Init, Phase, Active
<1>2. Deployed /\ [DeployNext]_allVars => [Rough \/ Durable!Next]_<<Phase, attempts, applied>>
  <2> SUFFICES ASSUME Deployed, [DeployNext]_allVars, ~Rough
               PROVE  [Durable!Next]_<<Phase, attempts, applied>>
    OBVIOUS
  <2>1. [Next]_vars
    BY DEF DeployNext, allVars
  <2>2. [Durable!Next]_(Durable!vars)
    BY <2>1, StepPromise DEF Deployed
  <2> QED BY <2>2 DEF Durable!vars
<1> QED BY <1>1, <1>2, DeployedAlways, PTL DEF DeploySpec, KeptPromise
=============================================================================
