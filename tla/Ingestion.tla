----------------------------- MODULE Ingestion ------------------------------
(***************************************************************************)
(* A listing becomes a lead, or does not (ingestion/service.py): the       *)
(* contract, the lead of that id, the same seller's same car within the    *)
(* window, and the row with its claims and its enrichment job.             *)
(*                                                                         *)
(* The upstream platform delivers a listing as often as it likes, and a    *)
(* salesperson who saw one types it into the console.  Each delivery is a  *)
(* transaction of its own and sees what others have committed.  Signatures *)
(* are not modelled: what arrives here has passed them.  Odometers are in  *)
(* thousands of kilometres, times in days.                                 *)
(***************************************************************************)
EXTENDS Integers

CONSTANTS
    Sessions,    \* web workers
    Listings,    \* what the platform may deliver
    Forms,       \* what may be typed into the console: listings with no id, and
                 \* a seller only if the link to the listing has its number in it
    Canonical,   \* per spelling of a make and model, the one it stands for
    ThisYear,
    Window,      \* ACQBOT_DEDUPE_WINDOW_DAYS
    MaxTime,     \* bound: days
    MaxRequests  \* bound: deliveries

VARIABLES
    leads,       \* table leads, with the facts claimed for each
    duplicates,  \* table lead_duplicates
    jobs,        \* leads whose enrichment is queued
    session,     \* per web worker, the transaction it is in
    now,         \* the day
    requests,    \* deliveries so far
    together     \* the pairs of deliveries that were open at once

vars == <<leads, duplicates, jobs, session, now, requests, together>>

Idle == [step |-> "idle"]
Open == {w \in Sessions : session[w] # Idle}

Init ==
    /\ leads = {} /\ duplicates = {} /\ jobs = {} /\ session = [w \in Sessions |-> Idle]
    /\ now = 0 /\ requests = 0 /\ together = {}

-----------------------------------------------------------------------------
\* The contract forbids what it does not know.
Conforms(m) ==
    /\ m.version = "1.0" /\ m.unknown = {} /\ m.malformed = {}
    /\ m.year \in 1980 .. ThisYear + 1 /\ m.odometer \in 0 .. 1500

\* An odometer is no part of it: it is compared with a tolerance.
Fingerprint(m) == <<Canonical[m.spelling], m.year>>

Larger(a, b) == IF a > b THEN a ELSE b

MatchesInBuckets(a, b) == a \div 5 = b \div 5    \* mutant: rounded, then compared
OdometerMatches(a, b) == 10 * Larger(a - b, b - a) <= Larger(30, Larger(a, b))

\* The seller's leads of that car in the window.
Candidates(m) ==
    {l \in leads : /\ Fingerprint(l) = Fingerprint(m) /\ l.seller = m.seller
                   /\ l.at >= now - Window
                   /\ OdometerMatches(l.odometer, m.odometer)}

\* The latest of them.
Duplicated(m) == {l \in Candidates(m) : \A other \in Candidates(m) : other.at <= l.at}

OnRecord(m) == \E l \in leads : l.id = m.id

-----------------------------------------------------------------------------
Ends(w) == session' = [session EXCEPT ![w] = Idle]
GoesOn(w, step) == session' = [session EXCEPT ![w].step = step]

Ref(kind, number) == [kind |-> kind, number |-> number]

\* A form is a lead of its own each time it is sent.  Marketplace shows no seller: the
\* listing's number stands in for one, or else the lead's own id.
Payload(form) ==
    LET added == Ref("console", requests)
    IN  [form EXCEPT !.id = added, !.seller = IF form.seller = Ref("item", 0) THEN added ELSE @]

Opens(w, m) ==
    /\ session[w] = Idle /\ Conforms(m) /\ requests < MaxRequests
    /\ requests' = requests + 1
    /\ session' = [session EXCEPT ![w] = [step |-> "known", of |-> m, at |-> now, by |-> requests']]
    /\ together' = together \cup {{session[v].by, requests'} : v \in Open}
    /\ UNCHANGED <<leads, duplicates, jobs, now>>

Posted(w) == \E m \in Listings : Opens(w, m)
Typed(w)  == \E form \in Forms : Opens(w, Payload(form))

\* A listing that is a lead already is answered as that one.
Known(w) ==
    /\ session[w].step = "known"
    /\ IF OnRecord(session[w].of) THEN Ends(w) ELSE GoesOn(w, "dedupe")
    /\ UNCHANGED <<leads, duplicates, jobs, now, requests, together>>

\* A listing of a car that is a lead already is kept aside.
Dedupe(w) ==
    /\ session[w].step = "dedupe"
    /\ LET m == session[w].of
       IN  IF Candidates(m) = {}
           THEN /\ session' = [session EXCEPT ![w] = [step |-> "insert", of |-> m, at |-> @.at,
                                                      by |-> @.by, looked |-> now]]
                /\ duplicates' = duplicates
           ELSE /\ Ends(w)
                /\ \E l \in Duplicated(m) : duplicates' = duplicates \cup {[id |-> m.id, of |-> l.id]}
    /\ UNCHANGED <<leads, jobs, now, requests, together>>

Lead(t) ==
    [id |-> t.of.id, seller |-> t.of.seller, spelling |-> t.of.spelling, year |-> t.of.year,
     odometer |-> t.of.odometer, claimed |-> t.of.claims, at |-> t.at, looked |-> t.looked, by |-> t.by]

\* The row, its claims and its job are committed at once.  A lead of that id that has
\* come up meanwhile keeps its primary key, and this transaction is rolled back.
Insert(w) ==
    /\ session[w].step = "insert" /\ Ends(w)
    /\ IF OnRecord(session[w].of)
       THEN UNCHANGED <<leads, jobs>>
       ELSE leads' = leads \cup {Lead(session[w])} /\ jobs' = jobs \cup {session[w].of.id}
    /\ UNCHANGED <<duplicates, now, requests, together>>

Dies(w) ==
    /\ w \in Open /\ Ends(w)
    /\ UNCHANGED <<leads, duplicates, jobs, now, requests, together>>

Day ==
    /\ now < MaxTime /\ now' = now + 1
    /\ UNCHANGED <<leads, duplicates, jobs, session, requests, together>>

Next ==
    \/ \E w \in Sessions :
         Posted(w) \/ Typed(w) \/ Known(w) \/ Dedupe(w) \/ Insert(w) \/ Dies(w)
    \/ Day

-----------------------------------------------------------------------------
(* PROPERTIES *)

SameCar(a, b) ==
    /\ a.seller = b.seller /\ Canonical[a.spelling] = Canonical[b.spelling] /\ a.year = b.year
    /\ \E more \in {a.odometer - b.odometer, b.odometer - a.odometer} :
         more >= 0 /\ (more <= 3 \/ 10 * more <= a.odometer \/ 10 * more <= b.odometer)

\* "Distinguishes retries from relistings" (DECISIONS.md 13): however often listings are
\* delivered, typed in, delayed and abandoned, a seller's car is a lead twice within the
\* window only when the two deliveries were open at the same time.
DuplicateOnlyByOverlap ==
    \A a, b \in leads :
        a.by < b.by /\ SameCar(a, b) /\ a.at >= b.looked - Window => {a.by, b.by} \in together
=============================================================================
