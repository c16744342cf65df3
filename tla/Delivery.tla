------------------------------ MODULE Delivery ------------------------------
(***************************************************************************)
(* What the conversation promises of a message it has decided on: it is    *)
(* said as it was decided, with who writes and how to make it stop when it *)
(* is what takes the conversation to another channel; or a person is       *)
(* called; or it is given up after so many failures.  How it is worded,    *)
(* and by whom, is module Drafts.                                          *)
(***************************************************************************)
EXTENDS Naturals

CONSTANTS
    Contents,   \* what may be decided
    Faithful,   \* per content, the texts that say that and nothing else
    Attempts,   \* how often a failure is tried again, the first time included
    Introduces  \* the texts that say who writes and how to make it stop

VARIABLES
    due,     \* the content that is waiting to be said, if there is one
    tries,   \* failures so far
    fate,    \* what became of it
    said,    \* the text last said
    threads  \* the channels the conversation has a thread on

vars == <<due, tries, fate, said, threads>>

Init == due = {} /\ tries = 0 /\ fate = "none" /\ said = {} /\ threads \in SUBSET {"messenger", "sms"}

Decide ==
    /\ due = {} /\ \E c \in Contents : due' = {c}
    /\ tries' = 0 /\ fate' = "none" /\ UNCHANGED <<said, threads>>

Settle(how) == due # {} /\ due' = {} /\ fate' = how /\ tries' = tries

\* Something failed and nothing is on record: it is tried again, or given up.
Again ==
    /\ due # {} /\ tries' = tries + 1 /\ threads' = threads
    /\ IF tries' = Attempts THEN due' = {} /\ fate' = "dead" ELSE UNCHANGED <<due, fate>>

Speaks(c, on) ==
    \E text \in Faithful[c] : said' = {text} /\ (on \notin threads => text \in Introduces)

\* A message that was said and not recorded is said again.
Say ==
    \E c \in due, on \in {"messenger", "sms"} :
        \/ Settle("said") /\ threads' = threads \cup {on} /\ Speaks(c, on)
        \/ Again /\ Speaks(c, on)

\* A thread may have been opened before the message for it was refused.
Call == Settle("person") /\ said' = said /\ (threads' = threads \/ threads' = threads \cup {"sms"})

Fail == Again /\ said' = said

Next == Decide \/ Call \/ Fail \/ Say

\* No message stays undecided for ever.
Settles == []<>(due = {})

Spec == Init /\ [][Next]_vars /\ Settles
=============================================================================
