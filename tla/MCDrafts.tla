------------------------------ MODULE MCDrafts ------------------------------
(***************************************************************************)
(* Drafts with a question, an offer below the automation's last step, the  *)
(* message at the ceiling after a person's lower offer, and a person's     *)
(* figure.  Lengths are in units of 500 characters: four fit in Messenger, *)
(* two in a text, and the introduction is one.                             *)
(***************************************************************************)
EXTENDS Drafts, TLC

Ladder == {10, 11, 12}

Question == TalkDirective(TRUE, {"their car"}, Text({}, {}, {}, {"their car"}, 1))
Opening  == OfferDirective(10, Ladder, {12}, {"$10", "until then"}, {}, {"their car"}, 1)
Ceiling  == OfferDirective(10, Ladder, {12}, {"$10"}, {"no room"}, {"their car"}, 1)
Figure   == PersonsDirective(14, Ladder, {"their car"}, Text({14}, {}, {}, {}, 1))

Messages == {Question, Opening, Ceiling, Figure}

Rewrites == {
    Text({}, {}, {}, {"their car"}, 1),
    Text({10}, {"$10", "until then"}, {}, {}, 1),
    Text({10}, {"$10", "until then"}, {}, {}, 3),
    Text({10}, {"$10", "until then"}, {"no room"}, {}, 1),
    Text({10, 12}, {"$10", "until then"}, {}, {}, 1) }

\* The loop of to_api_messages, message by message.
JoinedInTurn(entries) ==
    FoldLeft(LAMBDA merged, e :
                 IF merged # <<>> /\ Last(merged).role = e.role
                 THEN [merged EXCEPT ![Len(merged)].of = @ \cup e.of]
                 ELSE Append(merged, e),
             <<>>, entries)

\* Joined is what it computes, for seven messages and fewer.
ASSUME JoinedAsLooped ==
    \A n \in 0 .. 7 : \A roles \in [1 .. n -> {"user", "assistant"}] :
        LET entries == [k \in 1 .. n |-> Entry(roles[k], {k})]
        IN  Joined(entries) = JoinedInTurn(entries)

Lengths == [ch \in Channels |-> IF ch = "sms" THEN 2 ELSE 4]
=============================================================================
