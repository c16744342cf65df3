---------------------------- MODULE MCDeployments ----------------------------
(***************************************************************************)
(* Three ways of running the workers, checked side by side:                *)
(*   "one"    the documented one, a single worker process that may die and *)
(*            be restarted at any point (the others are never started);    *)
(*   "fleet"  several processes that are never killed;                     *)
(*   "rough"  several that may die and may overrun the lock of a job.      *)
(* The rough one makes do without the row that has no dedupe key.          *)
(***************************************************************************)
EXTENDS MCJobQueue

CONSTANT Solo    \* the one worker of the documented deployment

VARIABLE deployment

Rough == deployment = "rough"

Held(j) == \E w \in Workers : Holds(w, j)

Fits ==
    /\ deployment = "one"   => \A w \in Workers \ {Solo} : pc'[w] = "idle"
    /\ deployment = "fleet" => ~\E w \in Workers : Crash(w)
    /\ ~Rough => \A j \in Jobs : Held(j) /\ Held(j)' => j \in aged \/ j \notin aged'
    /\ Rough  => status'[j3] = "absent"

allVars == <<vars, deployment>>

\* The fairness of JobQueue, where it is asked for.
RoughlyFair ==
    /\ \A w \in Workers :
           /\ WF_vars(Rough /\ Claim(w)) /\ WF_vars(Rough /\ Handler(w))
           /\ WF_vars(Rough /\ Finish(w)) /\ WF_vars(Rough /\ SweepRead(w))
           /\ SF_vars(Rough /\ SweepEnd(w))
    /\ \A j \in TwoRows : WF_vars(Rough /\ BecomeDue(j)) /\ WF_vars(Rough /\ Age(j))

DeployInit == Init /\ deployment \in {"one", "fleet", "rough"}
DeployNext == Next /\ Fits /\ UNCHANGED deployment
DeploySpec == DeployInit /\ [][DeployNext]_allVars /\ RoughlyFair

\* A row a worker processes is its own unless workers die or overrun.
Owned == ~Rough => OwnedWhileHeld

\* No job is in two workers unless workers die or overrun.
Exclusive == ~Rough => ExclusiveClaim

\* No bookkeeping write is refused by the dedupe index, unless a worker overran
\* and its key is in use again.
Accepted == ~Rough => WritesAccepted

\* No attempt is spent twice, unless workers die or overrun.
WithinBudget == ~Rough => AttemptsWithinBudget

\* In a fleet whose processes do not die, the handler's writes take effect at
\* most once however often the job is retried and whichever worker retries it.
FleetAppliesOnce == deployment = "fleet" => AppliedOnce

\* The queue keeps the promise stated in DurableQueue, unless workers die or
\* overrun: one step of it is a step of the promise or none.
KeptPromise ==
    /\ ~Rough => Durable!Init
    /\ [][Rough \/ Durable!Next]_<<Phase, attempts, applied>>

\* Every job that is enqueued is eventually done or dead for good, however the
\* workers die and overrun.
RoughlySettles == \A j \in TwoRows : (Rough /\ status[j] # "absent") ~> [](Settled(j))
=============================================================================
