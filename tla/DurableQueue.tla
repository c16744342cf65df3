---------------------------- MODULE DurableQueue ----------------------------
(***************************************************************************)
(* What the job queue promises to whoever enqueues a job, with no worker,  *)
(* lock, clock or row status in sight: the handler is started at most      *)
(* MaxAttempts times, a job is reported done only if one of its attempts   *)
(* took effect, it is abandoned only when every attempt was spent (or its  *)
(* kind has no handler), and neither verdict is ever taken back.           *)
(***************************************************************************)
EXTENDS Naturals

CONSTANTS Jobs, MaxAttempts, Handled

VARIABLES phase,   \* "absent", "pending", "done" or "dead"
          starts,  \* how many times the job was started
          effects  \* the attempts that took effect

vars == <<phase, starts, effects>>

Init ==
    /\ phase = [j \in Jobs |-> "absent"]
    /\ starts = [j \in Jobs |-> 0]
    /\ effects = [j \in Jobs |-> {}]

Submit(j) ==
    /\ phase[j] = "absent"
    /\ phase' = [phase EXCEPT ![j] = "pending"]
    /\ UNCHANGED <<starts, effects>>

Start(j) ==
    /\ phase[j] = "pending" /\ starts[j] < MaxAttempts[j]
    /\ starts' = [starts EXCEPT ![j] = @ + 1]
    /\ UNCHANGED <<phase, effects>>

Apply(j) ==
    /\ phase[j] = "pending" /\ starts[j] \notin effects[j] /\ starts[j] > 0
    /\ effects' = [effects EXCEPT ![j] = @ \cup {starts[j]}]
    /\ UNCHANGED <<phase, starts>>

Acknowledge(j) ==
    /\ phase[j] = "pending" /\ effects[j] # {}
    /\ phase' = [phase EXCEPT ![j] = "done"]
    /\ UNCHANGED <<starts, effects>>

\* Several jobs can be abandoned together: the stale sweep is one transaction.
Abandon ==
    /\ \E S \in SUBSET {j \in Jobs : phase[j] = "pending"} :
         /\ phase' = [j \in Jobs |-> IF j \in S THEN "dead" ELSE phase[j]]
         /\ starts' = [j \in Jobs |-> IF j \in S /\ j \notin Handled THEN MaxAttempts[j] ELSE starts[j]]
         /\ \A j \in S : starts'[j] = MaxAttempts[j]
    /\ UNCHANGED effects

Next == Abandon \/ \E j \in Jobs : Submit(j) \/ Start(j) \/ Apply(j) \/ Acknowledge(j)

Spec == Init /\ [][Next]_vars
=============================================================================
