------------------------------ MODULE JobQueue ------------------------------
(***************************************************************************)
(* The Postgres-backed job queue (queue/jobs.py) and the worker loop that  *)
(* drains it (queue/worker.py).  Every database transaction is one action: *)
(* the claim commits first, the handler runs in a second transaction and   *)
(* its outcome is written in a third, so a process can die between any two *)
(* of them.  requeue_stale reads the rows it will rewrite without locking  *)
(* them, so its read and its write are two actions.                        *)
(*                                                                         *)
(* Time is kept only where the code compares it: "due" lists the rows with *)
(* run_at <= now() in the order of run_at, "aged" holds the rows whose     *)
(* locked_at is more than ten minutes old.                                 *)
(***************************************************************************)
EXTENDS Naturals, Sequences, FiniteSets, SequencesExt

CONSTANTS
    Jobs,         \* the rows of table jobs that may ever be inserted
    Key,          \* the dedupe_key each row is inserted with
    NoKey,        \* dedupe_key IS NULL
    MaxAttempts,  \* max_attempts of each row
    Handled,      \* the rows whose kind has a registered handler
    Workers,      \* the worker processes
    None,         \* locked_by IS NULL; a worker with no job
    MayCrash,     \* a worker may die at any point and be restarted
    MayOverrun    \* a handler may run longer than the ten-minute lock

ASSUME JobAssumption ==
    /\ MaxAttempts \in [Jobs -> Nat \ {0}]
    /\ Handled \subseteq Jobs
    /\ None \notin Jobs \cup Workers
    /\ MayCrash \in BOOLEAN /\ MayOverrun \in BOOLEAN
    /\ DOMAIN Key = Jobs

VARIABLES
    status,    \* jobs.status; "absent" until the row is inserted
    attempts,  \* jobs.attempts
    lockedBy,  \* jobs.locked_by
    due,       \* rows with run_at <= now(), ORDER BY run_at
    aged,      \* rows with locked_at < now() - 10 minutes
    applied,   \* per row, the attempts whose handler transaction committed
    pc,        \* where each worker is in run_once / the stale sweep
    job,       \* the job_id each worker holds in a local variable
    attempt,   \* the attempt number it read when it claimed the job
    plan       \* the status the sweep has decided to write to each row it read

rows    == <<status, attempts, lockedBy, due, aged>>
process == <<pc, job, attempt, plan>>
vars    == <<rows, applied, process>>

ActiveButRunning  == {"queued", "failed"}             \* mutant of Active
RunnableOrRunning == {"queued", "failed", "running"}  \* mutant of Runnable

Status   == {"absent", "queued", "running", "done", "failed", "dead"}
Active   == {"queued", "running", "failed"}   \* the WHERE of uq_jobs_dedupe_active
Runnable == {"queued", "failed"}              \* the WHERE of claim
Busy     == {"handling", "committed", "raised", "unhandled"}

NoPlan == [j \in Jobs |-> "keep"]

TypeOK ==
    /\ status \in [Jobs -> Status]
    /\ attempts \in [Jobs -> Nat]
    /\ lockedBy \in [Jobs -> Workers \cup {None}]
    /\ due \in Seq(Jobs)
    /\ aged \in SUBSET Jobs
    /\ applied \in [Jobs -> SUBSET Nat]
    /\ pc \in [Workers -> Busy \cup {"idle", "sweeping"}]
    /\ job \in [Workers -> Jobs \cup {None}]
    /\ attempt \in [Workers -> Nat]
    /\ plan \in [Workers -> [Jobs -> {"keep", "failed", "dead"}]]

Init ==
    /\ status = [j \in Jobs |-> "absent"]
    /\ attempts = [j \in Jobs |-> 0]
    /\ lockedBy = [j \in Jobs |-> None]
    /\ due = <<>>
    /\ aged = {}
    /\ applied = [j \in Jobs |-> {}]
    /\ pc = [w \in Workers |-> "idle"]
    /\ job = [w \in Workers |-> None]
    /\ attempt = [w \in Workers |-> 0]
    /\ plan = [w \in Workers |-> NoPlan]

-----------------------------------------------------------------------------
(* The partial unique index uq_jobs_dedupe_active refuses a write after    *)
(* which two active rows carry the same key.                               *)
Clash(st) ==
    \E j, k \in Jobs : /\ j # k
                       /\ Key[j] = Key[k] /\ Key[j] # NoKey
                       /\ st[j] \in Active /\ st[k] \in Active

WithStatus(j, s) == [status EXCEPT ![j] = s]

Waiting(j) == Contains(due, j)

\* run_at moves into the future: the row leaves the list of due rows.
Postponed(j) ==
    IF Waiting(j) THEN RemoveAt(due, CHOOSE i \in DOMAIN due : due[i] = j) ELSE due

\* A transaction inserts a row that is due now, or one scheduled for later.
\* A row whose key is active is not inserted: enqueue returns None.
Enqueue(j) ==
    /\ status[j] = "absent"
    /\ ~Clash(WithStatus(j, "queued"))
    /\ status' = WithStatus(j, "queued")
    /\ due' \in {due, Append(due, j)}
    /\ UNCHANGED <<attempts, lockedBy, aged, applied, process>>

\* now() reaches run_at.
BecomeDue(j) ==
    /\ status[j] \in Runnable /\ ~Waiting(j)
    /\ due' = Append(due, j)
    /\ UNCHANGED <<status, attempts, lockedBy, aged, applied, process>>

Holds(w, j) == pc[w] \in Busy /\ job[w] = j

\* now() passes locked_at + 10 minutes.
Age(j) ==
    /\ status[j] = "running" /\ j \notin aged
    /\ MayOverrun \/ \A w \in Workers : ~Holds(w, j)
    /\ aged' = aged \cup {j}
    /\ UNCHANGED <<status, attempts, lockedBy, due, applied, process>>

\* The first transaction of run_once: the due runnable row with the
\* smallest run_at is claimed and the claim commits.
Claim(w) ==
    /\ pc[w] = "idle"
    /\ \E i \in DOMAIN due :
         LET j == due[i] IN
         /\ status[j] \in Runnable
         /\ \A k \in 1 .. i - 1 : status[due[k]] \notin Runnable
         /\ status' = WithStatus(j, "running")
         /\ lockedBy' = [lockedBy EXCEPT ![j] = w]
         /\ aged' = aged \ {j}
         /\ attempts' = [attempts EXCEPT ![j] = @ + 1]
         /\ job' = [job EXCEPT ![w] = j]
         /\ attempt' = [attempt EXCEPT ![w] = attempts[j] + 1]
         /\ pc' = [pc EXCEPT ![w] = IF j \in Handled THEN "handling" ELSE "unhandled"]
    /\ UNCHANGED <<due, applied, plan>>

\* The second transaction: the handler's writes commit ...
HandlerCommits(w) ==
    /\ pc[w] = "handling"
    /\ applied' = [applied EXCEPT ![job[w]] = @ \cup {attempt[w]}]
    /\ pc' = [pc EXCEPT ![w] = "committed"]
    /\ UNCHANGED <<rows, job, attempt, plan>>

\* Mutant: a handler that raises leaves its writes behind.
HandlerLeaks(w) ==
    /\ pc[w] = "handling"
    /\ applied' = [applied EXCEPT ![job[w]] = @ \cup {attempt[w]}]
    /\ pc' = [pc EXCEPT ![w] = "raised"]
    /\ UNCHANGED <<rows, job, attempt, plan>>

\* ... or it raises and they are rolled back.
HandlerRaises(w) ==
    /\ pc[w] = "handling"
    /\ pc' = [pc EXCEPT ![w] = "raised"]
    /\ UNCHANGED <<rows, applied, job, attempt, plan>>

LeftAtLast(j) == attempts[j] <= MaxAttempts[j]       \* mutant: one attempt too many
LeftEarly(j)  == attempts[j] + 1 < MaxAttempts[j]    \* mutant: one too few

\* fail and requeue_stale: an attempt is left.
Left(j) == attempts[j] < MaxAttempts[j]

Release(w) ==
    /\ pc' = [pc EXCEPT ![w] = "idle"]
    /\ job' = [job EXCEPT ![w] = None]
    /\ attempt' = [attempt EXCEPT ![w] = 0]
    /\ plan' = [plan EXCEPT ![w] = NoPlan]

\* Mutant: the outcome is not looked at.
CompleteAnyway(w) ==
    /\ pc[w] \in {"committed", "raised"}
    /\ status' = WithStatus(job[w], "done")
    /\ lockedBy' = [lockedBy EXCEPT ![job[w]] = None]
    /\ Release(w)
    /\ UNCHANGED <<attempts, due, aged, applied>>

\* The third transaction of a job that succeeded.
Complete(w) ==
    /\ pc[w] = "committed"
    /\ status' = WithStatus(job[w], "done")
    /\ lockedBy' = [lockedBy EXCEPT ![job[w]] = None]
    /\ Release(w)
    /\ UNCHANGED <<attempts, due, aged, applied>>

\* The third transaction of a job that failed, with attempts left: it backs
\* off.  The row is found by job_id alone, whatever its status is by now.
Retry(w) ==
    LET j == job[w] IN
    /\ pc[w] = "raised" /\ Left(j)
    /\ ~Clash(WithStatus(j, "failed"))
    /\ status' = WithStatus(j, "failed")
    /\ due' = Postponed(j)
    /\ lockedBy' = [lockedBy EXCEPT ![j] = None]
    /\ Release(w)
    /\ UNCHANGED <<attempts, aged, applied>>

\* The same, refused by the index: the IntegrityError leaves run_once and
\* ends the worker process.
RetryRefused(w) ==
    LET j == job[w] IN
    /\ pc[w] = "raised" /\ Left(j)
    /\ Clash(WithStatus(j, "failed"))
    /\ Release(w)
    /\ UNCHANGED <<rows, applied>>

\* No attempts left, or no handler for the kind (which spends them all).
GiveUp(w) ==
    LET j == job[w] IN
    /\ \/ pc[w] = "raised" /\ ~Left(j) /\ UNCHANGED attempts
       \/ pc[w] = "unhandled" /\ attempts' = [attempts EXCEPT ![j] = MaxAttempts[j]]
    /\ status' = WithStatus(j, "dead")
    /\ lockedBy' = [lockedBy EXCEPT ![j] = None]
    /\ Release(w)
    /\ UNCHANGED <<due, aged, applied>>

-----------------------------------------------------------------------------
\* Mutants: the cutoff is not applied; nothing is ever found stale.
StaleAtOnce == {j \in Jobs : status[j] = "running"}
StaleNever  == {}

Stale == {j \in aged : status[j] = "running"}

\* requeue_stale selects the rows and decides what each becomes ...
SweepRead(w) ==
    /\ pc[w] = "idle" /\ Stale # {}
    /\ plan' = [plan EXCEPT ![w] = [j \in Jobs |->
                  IF j \notin Stale THEN "keep"
                  ELSE IF Left(j) THEN "failed" ELSE "dead"]]
    /\ pc' = [pc EXCEPT ![w] = "sweeping"]
    /\ UNCHANGED <<rows, applied, job, attempt>>

SweptAll(w) == plan[w]    \* mutant: every row is written
Swept(w) == [j \in Jobs |-> IF plan[w][j] = "keep" THEN status[j] ELSE plan[w][j]]

\* ... and then updates them by job_id, without looking at the status again.
SweepWrite(w) ==
    /\ pc[w] = "sweeping" /\ ~Clash(Swept(w))
    /\ status' = Swept(w)
    /\ lockedBy' = [j \in Jobs |-> IF plan[w][j] = "keep" THEN lockedBy[j] ELSE None]
    /\ Release(w)
    /\ UNCHANGED <<attempts, due, aged, applied>>

\* The update is refused by the index and the worker process ends.
SweepRefused(w) ==
    /\ pc[w] = "sweeping" /\ Clash(Swept(w))
    /\ Release(w)
    /\ UNCHANGED <<rows, applied>>

\* The process dies and is started again; the row it held stays RUNNING.
Crash(w) ==
    /\ MayCrash /\ pc[w] # "idle"
    /\ Release(w)
    /\ UNCHANGED <<rows, applied>>

-----------------------------------------------------------------------------
Finish(w) == Complete(w) \/ Retry(w) \/ RetryRefused(w) \/ GiveUp(w)
Handler(w) == HandlerCommits(w) \/ HandlerRaises(w)
SweepEnd(w) == SweepWrite(w) \/ SweepRefused(w)

Clock(j) == BecomeDue(j) \/ Age(j)

Next ==
    \/ \E j \in Jobs : Enqueue(j) \/ Clock(j)
    \/ \E w \in Workers : \/ Claim(w) \/ Handler(w) \/ Finish(w)
                          \/ SweepRead(w) \/ SweepEnd(w) \/ Crash(w)

Spec == Init /\ [][Next]_vars

\* The worker loop keeps polling, handlers return (every call they make has a
\* timeout), the clock advances; nothing obliges a client to enqueue or a
\* process to crash.  A sweep that a crash interrupts is tried again after the
\* restart, and the process does not die in the middle of every one of them.
Fairness ==
    /\ \A w \in Workers : /\ WF_vars(Claim(w)) /\ WF_vars(Handler(w)) /\ WF_vars(Finish(w))
                          /\ WF_vars(SweepRead(w)) /\ SF_vars(SweepEnd(w))
    /\ \A j \in Jobs : WF_vars(BecomeDue(j)) /\ WF_vars(Age(j))

FairSpec == Spec /\ Fairness

-----------------------------------------------------------------------------
(* PROPERTIES *)

\* The row a worker is processing is RUNNING and locked by that worker: no
\* sweep took it away, no other worker finished it.  (run_once, _finish and
\* requeue_stale together; the claim alone only establishes it.)
OwnedWhileHeld ==
    \A w \in Workers, j \in Jobs :
        Holds(w, j) => status[j] = "running" /\ lockedBy[j] = w

\* "exactly-once claiming across any number of worker processes": no job is
\* being processed by two workers.
ExclusiveClaim ==
    \A v, w \in Workers, j \in Jobs : Holds(v, j) /\ Holds(w, j) => v = w

\* No two active rows share a dedupe key, through every retry and requeue.
KeyUnique ==
    \A j, k \in Jobs :
        /\ j # k /\ Key[j] = Key[k] /\ Key[j] # NoKey
        /\ status[j] \in {"queued", "running", "failed"}
        => status[k] \notin {"queued", "running", "failed"}

\* The worker's own bookkeeping writes are never refused by the dedupe index
\* (a refused one ends the worker process): _finish and requeue_stale only
\* ever rewrite rows that are still active.
WritesAccepted ==
    \A w \in Workers : /\ pc[w] = "raised" => ~Clash(WithStatus(job[w], "failed"))
                       /\ pc[w] = "sweeping" => ~Clash(Swept(w))

\* Claims never exceed max_attempts although claim does not compare the two:
\* every write that makes a row runnable again must leave an attempt over.
AttemptsWithinBudget ==
    \A j \in Jobs : /\ attempts[j] <= MaxAttempts[j]
                    /\ status[j] \in Runnable => attempts[j] < MaxAttempts[j]

\* A job is recorded as done only after a handler transaction of it committed.
DoneMeansApplied == \A j \in Jobs : status[j] = "done" => applied[j] # {}

\* With no process dying or overrunning, the handler's writes take effect at
\* most once however often the job is retried.
AppliedOnce == \A j \in Jobs : \A m, n \in applied[j] : m = n

\* Every job that was enqueued is eventually done or dead for good, also one
\* whose handler kills its worker every time.
Settled(j) == status[j] \in {"done", "dead"}
Settles == \A j \in Jobs : (status[j] # "absent") ~> [](Settled(j))

\* The queue keeps the promise stated in DurableQueue.
Phase == [j \in Jobs |-> IF status[j] \in Active THEN "pending" ELSE status[j]]
Durable == INSTANCE DurableQueue WITH phase <- Phase, starts <- attempts, effects <- applied
Promise == Durable!Spec
=============================================================================
