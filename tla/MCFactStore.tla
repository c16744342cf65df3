---------------------------- MODULE MCFactStore ----------------------------
(***************************************************************************)
(* What sessions that overlap leave on record.  Either FactStore on one    *)
(* field: an odometer, say, with a claim off the listing, one made in      *)
(* conversation, a photograph, and two registry answers.  Or Ingestion     *)
(* with a listing that is delivered again, listed anew with some more      *)
(* kilometres and another spelling, one that the contract refuses, and two *)
(* that are typed in, with the listing's number and without.               *)
(***************************************************************************)
EXTENDS FactStore, TLC

CONSTANTS
    Listings, Forms, Canonical, ThisYear, Window, MaxTime, MaxRequests,    \* of Ingestion
    w1, w2, w3

VARIABLES
    what,        \* what the sessions do
    leads, duplicates, jobs, session, now, requests, together

Said(value, conf)   == [value |-> value, source |-> "seller", verified |-> FALSE, conf |-> conf]
Seen(value, source) == [value |-> value, source |-> source, verified |-> TRUE, conf |-> 2]

Odometer == {Said(1, 0), Said(3, 1), Seen(2, "photo"), Seen(1, "ppsr"), Seen(3, "ppsr")}
Registry == {Said(1, 1), Seen(1, "ppsr"), Seen(3, "ppsr")}

Listed(id, seller, spelling, odometer) ==
    [id |-> id, seller |-> seller, spelling |-> spelling, odometer |-> odometer, year |-> 2018,
     version |-> "1.0", unknown |-> {}, malformed |-> {}, claims |-> {"make", "model", "year", "odometer_km"}]

Platform(id, seller, spelling, odometer) ==
    Listed([kind |-> "platform", number |-> id], [kind |-> "platform", number |-> seller], spelling, odometer)

Form(item, odometer) ==
    Listed([kind |-> "form", number |-> 0], [kind |-> "item", number |-> item], "vwgolf", odometer)

Golf == [vwgolf |-> "golf", volkswagengolf |-> "golf"]

Deliveries == { Platform(1, 1, "vwgolf", 20), Platform(2, 1, "volkswagengolf", 23),
                Platform(3, 1, "vwgolf", 26),
                [Platform(4, 1, "vwgolf", 20) EXCEPT !.unknown = {"colour"}] }

TypedIn == {Form(7, 20), Form(0, 20)}

Ingests == INSTANCE Ingestion WITH Sessions <- Writers

listings == <<leads, duplicates, jobs, session, now, requests, together>>

RecordsInit == Init /\ Ingests!Init /\ what \in {"facts", "listings"}

RecordsNext ==
    /\ what' = what
    /\ \/ what = "facts" /\ Next /\ UNCHANGED listings
       \/ what = "listings" /\ Ingests!Next /\ UNCHANGED vars

Records == RecordsInit /\ [][RecordsNext]_<<vars, listings, what>>

\* However often listings are delivered, delayed and abandoned, a seller's car is a lead
\* twice within the window only when the two deliveries were open at the same time.
DuplicateOnlyByOverlap == Ingests!DuplicateOnlyByOverlap

Alike == Permutations(Writers)
=============================================================================
