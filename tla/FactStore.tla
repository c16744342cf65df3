----------------------------- MODULE FactStore -----------------------------
(***************************************************************************)
(* What is known of one field of one lead's car (facts/store.py): rows of  *)
(* table vehicle_facts, chained by superseded_by.  The conversation, the   *)
(* enrichment job and people at the console each record facts in a         *)
(* transaction of their own; record_fact reads the standing fact and       *)
(* decides, and what it decides is seen by others when it commits.         *)
(*                                                                         *)
(* Values are integers; two that differ by no more than Slack are not      *)
(* materially different (an odometer's tolerance, a registration's day).   *)
(***************************************************************************)
EXTENDS Integers, Sequences

CONSTANTS
    Writers,   \* sessions
    Facts,     \* what they may record
    Slack,     \* materially_different's tolerance
    MaxRows,   \* bound: rows of the field
    MaxBegins  \* bound: transactions begun

Authority == [seller |-> 0, photo |-> 1, vin |-> 2, rego |-> 2, ppsr |-> 3, inspection |-> 4]

\* conf: 0 read off the listing, 1 stated, 2 certain.  A verified fact is certain.
Confident == [value : Int, source : DOMAIN Authority, verified : BOOLEAN, conf : 0 .. 2]

ASSUME FactAssumption ==
    /\ Facts \subseteq {f \in Confident : f.verified => f.conf = 2}
    /\ Slack \in Nat /\ MaxRows \in Nat /\ MaxBegins \in Nat

VARIABLES
    rows,    \* the rows, as committed: a fact, recorded_at and superseded_by (0: NULL)
    tx,      \* per writer: the transaction's now(), the fact, the standing row it read (0: none)
    begun    \* transactions begun so far: the clock

vars == <<rows, tx, begun>>

Row == [fact : Facts, at : 1 .. MaxBegins, sup : 0 .. MaxRows]

Idle         == [phase |-> "idle"]
Transactions == {Idle} \cup [phase : {"open"}, at : 1 .. MaxBegins]
                       \cup [phase : {"read"}, at : 1 .. MaxBegins, fact : Facts, cur : 0 .. MaxRows]

\* superseded_by is a foreign key.
TypeOK ==
    /\ rows \in Seq(Row) /\ Len(rows) <= MaxRows
    /\ \A i \in DOMAIN rows : rows[i].sup \in (DOMAIN rows \ {i}) \cup {0}
    /\ tx \in [Writers -> Transactions]
    /\ \A w \in Writers : tx[w].phase = "read" => tx[w].cur \in DOMAIN rows \cup {0}
    /\ begun \in 0 .. MaxBegins

Init == rows = <<>> /\ tx = [w \in Writers |-> Idle] /\ begun = 0

-----------------------------------------------------------------------------
\* Source authority first, then whether it was verified, then confidence.
Rank(f) == 6 * Authority[f.source] + (IF f.verified THEN 3 ELSE 0) + f.conf

Standing == {i \in DOMAIN rows : rows[i].sup = 0}

\* current_fact: more than one row may stand; the strongest, then the latest, is read.
Current ==
    {i \in Standing : \A j \in Standing :
        \/ Rank(rows[j].fact) < Rank(rows[i].fact)
        \/ Rank(rows[j].fact) = Rank(rows[i].fact) /\ rows[j].at <= rows[i].at}

\* now() is the start of the transaction, whatever the order they commit in.
Begin(w) ==
    /\ tx[w].phase = "idle" /\ begun < MaxBegins
    /\ begun' = begun + 1
    /\ tx' = [tx EXCEPT ![w] = [phase |-> "open", at |-> begun + 1]]
    /\ UNCHANGED rows

Read(w, f) ==
    /\ tx[w].phase = "open"
    /\ \E i \in IF Standing = {} THEN {0} ELSE Current :
         tx' = [tx EXCEPT ![w] = [phase |-> "read", at |-> tx[w].at, fact |-> f, cur |-> i]]
    /\ UNCHANGED <<rows, begun>>

Done(w) == tx' = [tx EXCEPT ![w] = Idle] /\ UNCHANGED begun

Insert(w, sup) == Append(rows, [fact |-> tx[w].fact, at |-> tx[w].at, sup |-> sup])

Stood(w) == rows[tx[w].cur].fact
Same(w) == Stood(w).value = tx[w].fact.value
WeakerUnverified(w) == ~tx[w].fact.verified /\ Stood(w).verified    \* mutant: no authority
Weaker(w) == Rank(tx[w].fact) < Rank(Stood(w))

\* Nothing stood when the transaction looked.
First(w) ==
    /\ tx[w].phase = "read" /\ tx[w].cur = 0 /\ Len(rows) < MaxRows
    /\ rows' = Insert(w, 0)
    /\ Done(w)

\* The same value from a source no stronger says nothing new.
Known(w) ==
    /\ tx[w].phase = "read" /\ tx[w].cur # 0
    /\ Same(w) /\ Rank(tx[w].fact) <= Rank(Stood(w))
    /\ Done(w) /\ UNCHANGED rows

\* A weaker fact joins the chain behind the one that stood.
Behind(w) ==
    /\ tx[w].phase = "read" /\ tx[w].cur # 0 /\ Len(rows) < MaxRows
    /\ Weaker(w) /\ ~Same(w)
    /\ rows' = Insert(w, tx[w].cur)
    /\ Done(w)

\* The write-once trigger lets a row be superseded once.
FreeAlways(w) == TRUE    \* mutant: no trigger
Free(w) == rows[tx[w].cur].sup = 0

Supersedes(w) ==
    /\ tx[w].phase = "read" /\ tx[w].cur # 0
    /\ ~Weaker(w) /\ (Same(w) => Rank(tx[w].fact) > Rank(Stood(w)))

SupersedeByNext(w) ==    \* mutant: the row after the new one
    /\ Supersedes(w) /\ Free(w) /\ Len(rows) < MaxRows
    /\ rows' = [Insert(w, 0) EXCEPT ![tx[w].cur].sup = Len(rows) + 2]
    /\ Done(w)

Supersede(w) ==
    /\ Supersedes(w) /\ Free(w) /\ Len(rows) < MaxRows
    /\ rows' = [Insert(w, 0) EXCEPT ![tx[w].cur].sup = Len(rows) + 1]
    /\ Done(w)

\* Another transaction superseded the row first: this one is rolled back.
Refused(w) ==
    /\ Supersedes(w) /\ ~Free(w)
    /\ Done(w) /\ UNCHANGED rows

\* The request fails or the process dies before the commit.
Abandon(w) ==
    /\ tx[w].phase # "idle"
    /\ Done(w) /\ UNCHANGED rows

Next == \E w \in Writers :
    \/ Begin(w) \/ \E f \in Facts : Read(w, f)
    \/ First(w) \/ Known(w) \/ Behind(w) \/ Supersede(w) \/ Refused(w) \/ Abandon(w)

Spec == Init /\ [][Next]_vars

-----------------------------------------------------------------------------
(* fact_sheet                                                              *)

Material(a, b) == a - b > Slack \/ b - a > Slack

Claim(i) == ~rows[i].fact.verified /\ rows[i].fact.source = "seller"

\* A seller's claim whose superseder is verified and materially different.
Shown(i) ==
    /\ rows[i].sup # 0 /\ rows[rows[i].sup].fact.verified
    /\ Material(rows[i].fact.value, rows[rows[i].sup].fact.value)

Contradicted == \E i \in DOMAIN rows : Claim(i) /\ Shown(i)

-----------------------------------------------------------------------------
(* PROPERTIES *)

\* However transactions overlap, what is read as the standing fact is as strong
\* as anything recorded: no race puts a seller's word over a registry's answer,
\* and nothing that was heard leaves the field without a fact.
StandsStrongest ==
    rows # <<>> =>
        /\ Current # {}
        /\ \A i \in Current, j \in DOMAIN rows : Rank(rows[j].fact) <= Rank(rows[i].fact)

\* "The contradiction is preserved for the closer" (README.md:24): a claim shown
\* as contradicted stays so, whatever is recorded or raced for afterwards.
ContradictionPreserved == [][Contradicted => Contradicted']_vars
=============================================================================
