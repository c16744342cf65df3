---------------------------- MODULE DraftsProofs ----------------------------
(***************************************************************************)
(* Every step from a decision to a message is a step of what Delivery      *)
(* promises, whatever the planner decides, the model writes and the        *)
(* lengths are; and what the model is shown is the whole conversation,     *)
(* however it has been folded.                                             *)
(***************************************************************************)
EXTENDS Drafts, FiniteSetTheorems, NaturalsInduction, WellFoundedInduction, TLAPS

\* The record a transaction works on, and where its text comes from: the script of
\* what is due, or the model, when the model may word it.
TxOK ==
    tx = NoTx
    \/ /\ tx = [step |-> tx.step, attempt |-> tx.attempt, refused |-> tx.refused,
                folded |-> tx.folded, body |-> tx.body]
       /\ tx.step \in {"draft", "send"}
       /\ due # {}
       /\ tx.step = "draft" => \A d \in due : d.worded
       /\ \A d \in due : tx.body = d.script \/ (d.worded /\ tx.body \in Texts)

\* One message is due at a time.
DueOK == due \subseteq Directives /\ \A c, d \in due : c = d

Entries == [by : {"seller", "us"}, on : Channels]

TextedOn == \E i \in DOMAIN log : log[i].on = "sms"

\* Nothing is said on SMS before the lead has a thread there.
ThreadsOK ==
    /\ on \in Channels /\ log \in Seq(Entries) /\ log # <<>>
    /\ on = "sms" => number = "ours"
    /\ TextedOn => number = "ours"

DraftsInv == TxOK /\ DueOK /\ ThreadsOK

\* A rolled back transaction leaves everything but the count of its failures, and at
\* the last of them what was due.
LEMMA RollBackKeeps ==
    ASSUME DraftsInv, RollBack
    PROVE  DraftsInv'
BY DEF DraftsInv, TxOK, DueOK, ThreadsOK, RollBack, TextedOn, Message, NoTx

\* A committed one has nothing left to send.
LEMMA CommitKeeps ==
    ASSUME DraftsInv, NEW how, Commit(how), ThreadsOK'
    PROVE  DraftsInv'
BY DEF DraftsInv, TxOK, DueOK, Commit, NoTx

LEMMA InitInv == Init => DraftsInv
<1> SUFFICES ASSUME Init PROVE DraftsInv
  OBVIOUS
<1>1. Message("seller", "messenger") \in Entries /\ Message("us", "messenger") \in Entries
  BY DEF Message, Entries, Channels
<1>2. log \in Seq(Entries) /\ log # <<>> /\ ~TextedOn
  <2>1. CASE log = <<Message("seller", "messenger"), Message("us", "messenger")>>
    BY <1>1, <2>1 DEF TextedOn, Message
  <2>2. CASE log = <<Message("us", "messenger")>>
    BY <1>1, <2>2 DEF TextedOn, Message
  <2> QED
    BY <2>1, <2>2 DEF Init
<1> QED  BY <1>2 DEF Init, DraftsInv, TxOK, DueOK, ThreadsOK, Channels

\* A text is only ever replaced by the script, which it was, or by a draft.
LEMMA DraftKeeps ==
    ASSUME DraftsInv, Draft
    PROVE  DraftsInv'
<1>1. tx.step = "draft" /\ UNCHANGED <<due, on, log, number>>
  BY DEF Draft
<1>2. ThreadsOK' /\ DueOK'
  BY <1>1 DEF DraftsInv, ThreadsOK, DueOK, TextedOn, Message
<1>0. /\ tx = [step |-> tx.step, attempt |-> tx.attempt, refused |-> tx.refused,
               folded |-> tx.folded, body |-> tx.body]
      /\ \A d \in due : d.worded /\ (tx.body = d.script \/ tx.body \in Texts)
      /\ due # {}
  BY <1>1 DEF DraftsInv, TxOK, NoTx
<1>3. ASSUME NEW text, Sends(text), \A d \in due : text = d.script \/ text \in Texts
      PROVE  TxOK'
  BY <1>1, <1>0, <1>3 DEF Sends, TxOK
<1>4. ASSUME NEW refused, Another(refused)
      PROVE  TxOK'
  <2>1. CASE tx.attempt < Retries
    <3>1. tx' = [tx EXCEPT !.attempt = @ + 1, !.refused = @ + refused]
      BY <1>4, <2>1 DEF Another
    <3> QED  BY <1>1, <1>0, <3>1 DEF TxOK
  <2>2. CASE ~(tx.attempt < Retries)
    BY <1>0, <1>3, <1>4, <2>2 DEF Another
  <2> QED  BY <2>1, <2>2
<1>5. CASE CallFails
  BY <1>0, <1>2, <1>3, <1>5 DEF CallFails, DraftsInv
<1>6. CASE Unreadable
  BY <1>2, <1>4, <1>6 DEF Unreadable, DraftsInv
<1>7. ASSUME NEW d \in due, NEW text \in Texts, Written(text, d)
      PROVE  TxOK'
  BY <1>3, <1>4, <1>7 DEF Written
<1> QED  BY <1>2, <1>5, <1>6, <1>7 DEF Draft, DraftsInv

\* Sending changes nothing of the message; what it may do to the thread is to open it.
LEMMA SendKeeps ==
    ASSUME DraftsInv, Send
    PROVE  DraftsInv'
<1>1. PICK d \in due : Refused(d) \/ Unreachable(d) \/ Taken(d) \/ Delivered(d) \/ Rejected(d)
  BY DEF Send
<1>2. ASSUME NEW how, Commit(how), number' = Moved \/ number' = number,
             log' = log \/ (number' = Moved /\ Ready(d) /\ log' = Append(log, Message("us", Carrier)))
      PROVE  DraftsInv'
  <2>1. on' = on /\ (number = "ours" => number' = "ours")
    BY <1>2 DEF Commit, Moved
  <2>2. on = "sms" => number' = "ours"
    BY <2>1 DEF DraftsInv, ThreadsOK
  <2>3. CASE log' = log
    BY <1>2, <2>1, <2>2, <2>3, CommitKeeps DEF DraftsInv, ThreadsOK, TextedOn
  <2>4. CASE number' = Moved /\ Ready(d) /\ log' = Append(log, Message("us", Carrier))
    <3>1. Message("us", Carrier) \in Entries
      BY DEF DraftsInv, ThreadsOK, Message, Carrier, Channels, Entries
    <3>2. log' \in Seq(Entries) /\ log' # <<>>
      BY <2>4, <3>1 DEF DraftsInv, ThreadsOK
    <3>3. Carrier = "sms" => number' = "ours"
      BY <2>2, <2>4 DEF Carrier, Moved, Ready
    <3>4. TextedOn' => TextedOn \/ Carrier = "sms"
      BY <2>4 DEF TextedOn, Message, DraftsInv, ThreadsOK
    <3> QED
      BY <1>2, <2>1, <2>2, <3>2, <3>3, <3>4, CommitKeeps DEF DraftsInv, ThreadsOK
  <2> QED  BY <1>2, <2>3, <2>4
<1> QED
  BY <1>1, <1>2, RollBackKeeps DEF Refused, Unreachable, Taken, Delivered, Rejected

\* What the planner decides goes to the thread the seller wrote on, or the newest.
LEMMA DecideKeeps ==
    ASSUME DraftsInv, Decide
    PROVE  DraftsInv'
<1>1. Last(log) = log[Len(log)] /\ Len(log) \in DOMAIN log /\ log[Len(log)] \in Entries
  BY DEF DraftsInv, ThreadsOK, Last
<1>2. Last(log).on \in Channels
  BY <1>1 DEF Entries
<1>3. Last(log).on = "sms" => number = "ours"
  BY <1>1 DEF DraftsInv, ThreadsOK, TextedOn
<1>4. on' = Newest \/ on' = Last(log).on
  BY DEF Decide
<1>5. on' \in Channels /\ (on' = "sms" => number = "ours")
  BY <1>2, <1>3, <1>4 DEF Newest, Channels
<1>6. ThreadsOK'
  BY <1>5 DEF Decide, DraftsInv, ThreadsOK, TextedOn
<1>7. tx = NoTx
  BY DEF Decide, DraftsInv, TxOK
<1> QED  BY <1>6, <1>7 DEF Decide, DraftsInv, TxOK, DueOK

LEMMA BeginKeeps ==
    ASSUME DraftsInv, Begin
    PROVE  DraftsInv'
<1>1. ThreadsOK' /\ DueOK'
  BY DEF Begin, DraftsInv, ThreadsOK, TextedOn, DueOK
<1>2. PICK d \in due, works \in BOOLEAN :
        tx' = [step |-> IF Modelled /\ d.worded THEN "draft" ELSE "send", attempt |-> 0,
               refused |-> 0, folded |-> Folded(on, works /\ Modelled /\ d.worded), body |-> d.script]
  BY DEF Begin
<1>3. TxOK'
  BY <1>2 DEF Begin, DraftsInv, DueOK, TxOK
<1> QED  BY <1>1, <1>3 DEF DraftsInv

\* A seller writes to a thread there is.
LEMMA SellerKeeps ==
    ASSUME DraftsInv, (\E ch \in Channels : Writes(ch)) \/ TextsFirst \/ Shuts
    PROVE  DraftsInv'
<1>1. CASE \E ch \in Channels : Writes(ch)
  <2>1. PICK ch \in Channels : Writes(ch)
    BY <1>1
  <2>2. Message("seller", ch) \in Entries /\ (ch = "sms" => number = "ours")
    BY <2>1 DEF Message, Entries, Writes, Threads
  <2>3. TextedOn' => TextedOn \/ ch = "sms"
    BY <2>1 DEF Writes, TextedOn, Message, DraftsInv, ThreadsOK
  <2>4. ThreadsOK'
    BY <2>1, <2>2, <2>3 DEF Writes, DraftsInv, ThreadsOK
  <2> QED  BY <2>1, <2>4 DEF Writes, DraftsInv, TxOK, DueOK
<1>2. CASE TextsFirst
  BY <1>2 DEF TextsFirst, DraftsInv, TxOK, DueOK, ThreadsOK, TextedOn
<1>3. CASE Shuts
  BY <1>3 DEF Shuts, DraftsInv, TxOK, DueOK, ThreadsOK, TextedOn
<1> QED  BY <1>1, <1>2, <1>3

\* Work on what is due, the planner's decisions, the seller and the clock.
LEMMA NextKeeps ==
    ASSUME DraftsInv, [Next]_vars
    PROVE  DraftsInv'
<1>1. CASE Flagged
  BY <1>1, CommitKeeps DEF Flagged, DraftsInv, ThreadsOK, TextedOn, Commit
<1>2. CASE UNCHANGED vars
  BY <1>2 DEF vars, history, DraftsInv, TxOK, DueOK, ThreadsOK, TextedOn
<1> QED
  BY <1>1, <1>2, RollBackKeeps, DraftKeeps, SendKeeps, DecideKeeps, BeginKeeps, SellerKeeps
  DEF Next, Work, Dies

THEOREM DraftsInvariant == Spec => []DraftsInv
BY InitInv, NextKeeps, PTL DEF Spec

\* What passes the gate says what was decided: the figure, the phrases, facts on file.
LEMMA ClearedIsFaithful ==
    ASSUME NEW d \in Directives, NEW text, NEW sent \in AllTexts,
           text = d.script \/ (d.worded /\ text \in Texts), Clears(text, d),
           sent.figures = text.figures, sent.claims = text.claims, sent.names = text.names,
           text.says \subseteq sent.says
    PROVE  sent \in Faithful[d]
<1>1. sent.figures \subseteq d.script.figures
  BY DraftsAssumption DEF Clears, Allowed
<1>2. sent.claims \cap Claims \subseteq {"no room"}
  BY DEF Clears, Forbidden, Claims
<1>3. "no room" \in sent.claims => \A figure \in d.sole, top \in d.step2 : figure >= top
  <2>1. "no room" \in sent.claims => ~MoreRoom(d)
    BY DEF Clears, Forbidden
  <2>2. ASSUME ~MoreRoom(d), NEW figure \in d.sole, NEW top \in d.step2
        PROVE  figure >= top
    <3>1. figure \in Nat /\ top \in Nat /\ ~(figure < top)
      BY <2>2, DraftsAssumption DEF MoreRoom
    <3> QED  BY <3>1
  <2> QED  BY <2>1, <2>2
<1>4. d.must \subseteq sent.says /\ sent.names \subseteq d.facts
  BY DEF Clears
<1> QED  BY <1>1, <1>2, <1>3, <1>4 DEF Faithful

\* The text that goes out is one of those there are, and keeps what it said.
LEMMA OutgoingKeeps ==
    ASSUME DraftsInv, NEW d \in due, Ready(d)
    PROVE  /\ Outgoing \in AllTexts /\ Outgoing \in Faithful[d]
           /\ Carrier \notin Threads => Outgoing \in Introduces
<1> DEFINE body == tx.body
<1>1. /\ d \in Directives /\ body \in Wordings /\ IsText(body) /\ Clears(body, d)
      /\ body = d.script \/ (d.worded /\ body \in Texts)
  BY DraftsAssumption DEF DraftsInv, TxOK, DueOK, Ready, Sending, ClearsGate, Validate, NoTx, Wordings
<1>2. /\ WithIntro(body).figures = body.figures /\ WithIntro(body).claims = body.claims
      /\ WithIntro(body).names = body.names /\ body.says \subseteq WithIntro(body).says
      /\ "who writes" \in WithIntro(body).says
  BY <1>1 DEF WithIntro, IsText
<1>3. body \in AllTexts /\ WithIntro(body) \in AllTexts
  BY <1>1 DEF AllTexts
<1>4. Outgoing = body \/ Outgoing = WithIntro(body)
  BY DEF Outgoing
<1>5. Outgoing \in AllTexts /\ Outgoing \in Faithful[d]
  BY <1>1, <1>2, <1>3, <1>4, ClearedIsFaithful
<1>6. ASSUME Carrier \notin Threads
      PROVE  Outgoing \in Introduces
  <2>1. Carrier = "sms" /\ number # "ours"
    BY <1>6 DEF Threads, Carrier, DraftsInv, ThreadsOK, Channels
  <2>2. Moves /\ ~SpokenOn("sms")
    BY <2>1 DEF Carrier, Ready, DraftsInv, ThreadsOK, TextedOn, SpokenOn, Message, Moves, Reachable
  <2> QED  BY <1>2, <1>3, <2>2 DEF Outgoing, Introduces
<1> QED  BY <1>5, <1>6

\* The steps that say something to the seller.
LEMMA DeliveredSays ==
    ASSUME DraftsInv, NEW d \in due, Delivered(d)
    PROVE  Promise!Say
<1>1. Ready(d) /\ said' = {Outgoing} /\ due # {}
  BY DEF Delivered, Reaches
<1>2. Outgoing \in Faithful[d] /\ (Carrier \notin Threads => Outgoing \in Introduces)
  BY <1>1, OutgoingKeeps
<1>3. Promise!Speaks(d, Carrier)
  BY <1>1, <1>2 DEF Promise!Speaks
<1>4. Carrier \in {"messenger", "sms"}
  BY DEF Carrier, DraftsInv, ThreadsOK, Channels
<1>5. CASE Commit("said") /\ number' = Moved
  <2>1. Threads' = Threads \cup {Carrier}
    BY <1>1, <1>5 DEF Threads, Moved, Carrier, Ready, Reachable, Moves, DraftsInv, ThreadsOK, Channels
  <2>2. Promise!Settle("said")
    BY <1>1, <1>5 DEF Commit, Promise!Settle
  <2> QED  BY <1>3, <1>4, <2>1, <2>2 DEF Promise!Say
<1>6. CASE RollBack
  <2>1. Promise!Again
    BY <1>1, <1>6 DEF RollBack, Promise!Again, Threads
  <2> QED  BY <1>3, <1>4, <2>1 DEF Promise!Say
<1> QED  BY <1>5, <1>6 DEF Delivered

\* A transaction that hands the message to a person may have opened the SMS thread.
LEMMA CommitCalls ==
    ASSUME Commit("person"), due # {}, said' = said, number' = Moved \/ number' = number
    PROVE  Promise!Call
BY DEF Commit, Moved, Threads, Promise!Call, Promise!Settle

\* One that is rolled back has said nothing.
LEMMA RollBackFails ==
    ASSUME RollBack, due # {}, said' = said
    PROVE  Promise!Fail
BY DEF RollBack, Threads, Promise!Fail, Promise!Again

LEMMA StepDelivers ==
    ASSUME DraftsInv, [Next]_vars
    PROVE  [Promise!Next]_(Promise!vars)
<1>1. CASE Decide
  BY <1>1 DEF Decide, Threads, Promise!Next, Promise!Decide
<1>2. CASE Begin
  BY <1>2 DEF Begin, Threads, Promise!vars
<1>3. CASE Dies
  BY <1>3, RollBackFails DEF Dies, DraftsInv, TxOK, Promise!Next
<1>4. CASE Draft
  BY <1>4 DEF Draft, Threads, Promise!vars
<1>5. CASE Flagged
  BY <1>5, CommitCalls DEF Flagged, DraftsInv, TxOK, NoTx, Promise!Next
<1>6. CASE Send
  <2>1. PICK d \in due : Refused(d) \/ Unreachable(d) \/ Taken(d) \/ Delivered(d) \/ Rejected(d)
    BY <1>6 DEF Send
  <2> QED
    BY <2>1, CommitCalls, RollBackFails, DeliveredSays
    DEF Refused, Unreachable, Taken, Rejected, Promise!Next
<1>7. CASE (\E ch \in Channels : Writes(ch)) \/ TextsFirst \/ Shuts
  BY <1>7 DEF Writes, TextsFirst, Shuts, Threads, Promise!vars
<1>8. CASE UNCHANGED vars
  BY <1>8 DEF vars, history, Threads, Promise!vars
<1> QED
  BY <1>1, <1>2, <1>3, <1>4, <1>5, <1>6, <1>7, <1>8 DEF Next, Work

\* Whatever a model writes, in whatever order sends fail and jobs die: what reaches the
\* seller says what was decided, introduces itself when it opens a channel, and is not
\* tried more often than its job allows.
THEOREM SaidOnlyAsDecided == Spec => SaidAsDecided
<1>1. Init => Promise!Init
  BY DEF Init, Threads, Promise!Init
<1> QED  BY <1>1, DraftsInvariant, StepDelivers, PTL DEF Spec, SaidAsDecided
-----------------------------------------------------------------------------
(* What the model is shown.                                                *)

Roles == {"user", "assistant"}
Turns == [role : Roles, of : SUBSET Nat]

\* Turns that alternate, whoever begins.
Alternate(s) ==
    /\ s \in Seq(Turns) /\ s # <<>>
    /\ \A k \in DOMAIN s : s[k].role = s[1].role <=> k % 2 = 1

\* Of a number and what follows it, one is even.
LEMMA Parity ==
    ASSUME NEW n \in Nat
    PROVE  /\ n % 2 \in {0, 1} /\ (n + 1) % 2 = 1 - (n % 2)
           /\ (2 * n) % 2 = 0
OBVIOUS

\* A set of numbers that is not empty has a least.
LEMMA Least ==
    ASSUME NEW S, S \subseteq Nat, S # {}
    PROVE  \E n \in S : \A m \in S : n <= m
<1>1. PICK n \in S : \A m \in S : ~(<<m, n>> \in OpToRel(<, Nat))
  BY WFMin, NatLessThanWellFounded
<1>2. \A m \in S : ~(m < n)
  BY <1>1 DEF OpToRel
<1> QED BY <1>2

\* The turns begun up to an entry: one more than before it where one begins.
LEMMA TurnCounts ==
    ASSUME NEW entries \in Seq(Turns), entries # <<>>
    PROVE  /\ Cardinality(Begins(entries)) \in Nat
           /\ Turn(entries, Len(entries)) = Cardinality(Begins(entries))
           /\ Turn(entries, 1) = 1
           /\ \A k \in DOMAIN entries :
                /\ Turn(entries, k) \in 1 .. Cardinality(Begins(entries))
                /\ k > 1 /\ k \in Begins(entries) => Turn(entries, k) = Turn(entries, k - 1) + 1
                /\ k > 1 /\ k \notin Begins(entries) => Turn(entries, k) = Turn(entries, k - 1)
<1> DEFINE B == Begins(entries)  N == Len(entries)
<1>1. N \in Nat \ {0} /\ DOMAIN entries = 1 .. N /\ B \subseteq 1 .. N /\ 1 \in B
  BY DEF Begins
<1> HIDE DEF B, N
<1>2. IsFiniteSet(B) /\ Cardinality(B) \in Nat
  <2>1. IsFiniteSet(1 .. N)
    BY <1>1, FS_Interval
  <2>2. IsFiniteSet(B)
    BY <1>1, <2>1, FS_Subset
  <2> QED BY <2>2, FS_CardinalityType
<1>3. \A k \in Nat : IsFiniteSet(B \cap 1 .. k) /\ Cardinality(B \cap 1 .. k) \in Nat
                       /\ Cardinality(B \cap 1 .. k) <= Cardinality(B)
  <2> SUFFICES ASSUME NEW k \in Nat
               PROVE  IsFiniteSet(B \cap 1 .. k) /\ Cardinality(B \cap 1 .. k) \in Nat
                       /\ Cardinality(B \cap 1 .. k) <= Cardinality(B)
    OBVIOUS
  <2>1. B \cap 1 .. k \subseteq B
    OBVIOUS
  <2> QED BY <1>2, <2>1, FS_Subset, FS_CardinalityType
<1>4. B \cap 1 .. N = B
  BY <1>1
<1>5. Cardinality(B \cap 1 .. 1) = 1
  <2>1. B \cap 1 .. 1 = {1}
    BY <1>1
  <2> QED BY <2>1, FS_Singleton
<1>6. ASSUME NEW k \in 2 .. N
      PROVE  /\ k \in B => Cardinality(B \cap 1 .. k) = Cardinality(B \cap 1 .. k - 1) + 1
             /\ k \notin B => Cardinality(B \cap 1 .. k) = Cardinality(B \cap 1 .. k - 1)
  <2>1. CASE k \in B
    <3>1. B \cap 1 .. k = (B \cap 1 .. k - 1) \cup {k} /\ k \notin B \cap 1 .. k - 1 /\ k - 1 \in Nat
      BY <2>1
    <3>2. Cardinality(B \cap 1 .. k) = Cardinality(B \cap 1 .. k - 1) + 1
      BY <1>3, <3>1, FS_AddElement
    <3> QED BY <2>1, <3>2
  <2>2. CASE k \notin B
    <3>1. B \cap 1 .. k = B \cap 1 .. k - 1
      BY <2>2
    <3> QED BY <2>2, <3>1
  <2> QED BY <2>1, <2>2
<1>7. ASSUME NEW k \in 1 .. N PROVE Cardinality(B \cap 1 .. k) >= 1
  <2>1. {1} \subseteq B \cap 1 .. k
    BY <1>1
  <2>2. Cardinality({1}) <= Cardinality(B \cap 1 .. k)
    BY <1>3, <2>1, FS_Subset
  <2> QED BY <1>3, <2>2, FS_Singleton
<1>8. \A k \in 1 .. N : Cardinality(B \cap 1 .. k) \in 1 .. Cardinality(B)
  <2>1. \A x \in Nat, y \in Nat : x >= 1 /\ x <= y => x \in 1 .. y
    OBVIOUS
  <2>2. \A k \in 1 .. N : k \in Nat
    BY <1>1
  <2> QED BY <1>2, <1>3, <1>7, <2>1, <2>2
<1>9. \A k \in 1 .. N : k > 1 => k \in 2 .. N
  BY <1>1
<1> QED
  BY <1>1, <1>2, <1>4, <1>5, <1>6, <1>8, <1>9 DEF Turn, B, N

\* Sides alternate from turn to turn, so that the number of an entry's turn says whose
\* it is.
LEMMA RoleByTurn ==
    ASSUME NEW entries \in Seq(Turns), entries # <<>>
    PROVE  \A k \in DOMAIN entries :
             entries[k].role = entries[1].role <=> Turn(entries, k) % 2 = 1
<1> DEFINE N == Len(entries)
           T(k) == Turn(entries, k)
           Wrong == {k \in 1 .. N : ~(entries[k].role = entries[1].role <=> T(k) % 2 = 1)}
<1>1. N \in Nat /\ DOMAIN entries = 1 .. N
  OBVIOUS
<1>2. ASSUME Wrong # {} PROVE FALSE
  <2>1. PICK k \in Wrong : \A j \in Wrong : k <= j
    <3>1. Wrong \subseteq Nat
      BY <1>1
    <3> HIDE DEF Wrong
    <3> QED BY <1>2, <3>1, Least
  <2>2. k \in 1 .. N /\ ~(entries[k].role = entries[1].role <=> T(k) % 2 = 1)
    BY <2>1
  <2>3. k > 1
    BY <1>1, <2>2, TurnCounts
  <2>4. k - 1 \in 1 .. N /\ k - 1 \notin Wrong
    BY <1>1, <2>1, <2>2, <2>3
  <2>5. entries[k - 1].role = entries[1].role <=> T(k - 1) % 2 = 1
    BY <2>4
  <2>6. {entries[k].role, entries[k - 1].role, entries[1].role} \subseteq Roles
    <3>1. entries[k] \in Turns /\ entries[k - 1] \in Turns /\ entries[1] \in Turns
      BY <1>1, <2>2, <2>4
    <3> QED BY <3>1 DEF Turns
  <2>7. /\ T(k - 1) \in Nat
        /\ k \in Begins(entries) => T(k) = T(k - 1) + 1
        /\ k \notin Begins(entries) => T(k) = T(k - 1)
    BY <1>1, <2>2, <2>3, <2>4, TurnCounts
  <2> HIDE DEF T, Wrong
  <2>8. CASE k \in Begins(entries)
    <3>1. entries[k].role # entries[k - 1].role
      BY <2>3, <2>8 DEF Begins
    <3>2. entries[k].role = entries[1].role <=> entries[k - 1].role # entries[1].role
      BY <2>6, <3>1 DEF Roles
    <3>3. T(k) % 2 = 1 <=> T(k - 1) % 2 # 1
      BY <2>7, <2>8, Parity
    <3> QED BY <2>2, <2>5, <3>2, <3>3
  <2>9. CASE k \notin Begins(entries)
    <3>1. entries[k].role = entries[k - 1].role
      BY <1>1, <2>2, <2>9 DEF Begins
    <3>2. T(k) = T(k - 1)
      BY <2>7, <2>9
    <3> QED BY <2>2, <2>5, <3>1, <3>2
  <2> QED BY <2>8, <2>9
<1> QED BY <1>1, <1>2

\* No turn is without an entry.
LEMMA TurnIsTaken ==
    ASSUME NEW entries \in Seq(Turns), entries # <<>>,
           NEW t \in 1 .. Cardinality(Begins(entries))
    PROVE  \E k \in DOMAIN entries : Turn(entries, k) = t
<1> DEFINE N == Len(entries)
           T(k) == Turn(entries, k)
           from == {k \in 1 .. N : T(k) >= t}
<1>1. N \in Nat \ {0} /\ DOMAIN entries = 1 .. N
  OBVIOUS
<1>2. N \in from /\ from \subseteq Nat
  BY <1>1, TurnCounts
<1>3. PICK k \in from : \A j \in from : k <= j
  <2> HIDE DEF from
  <2> QED BY <1>2, Least
<1>4. k \in 1 .. N /\ T(k) >= t /\ T(k) \in Nat /\ t \in Nat
  BY <1>1, <1>3, TurnCounts
<1>5. CASE k = 1
  BY <1>1, <1>4, <1>5, TurnCounts
<1>6. CASE k > 1
  <2>1. k - 1 \in 1 .. N /\ k - 1 \notin from
    BY <1>1, <1>3, <1>4, <1>6
  <2>2. T(k - 1) \in Nat /\ ~(T(k - 1) >= t)
    BY <1>1, <2>1, TurnCounts
  <2>3. T(k) <= T(k - 1) + 1
    BY <1>1, <1>4, <1>6, <2>2, TurnCounts
  <2> HIDE DEF T
  <2>4. T(k) = t
    BY <1>4, <2>2, <2>3
  <2> QED BY <1>1, <1>4, <2>4 DEF T
<1> QED BY <1>1, <1>4, <1>5, <1>6

\* Joining messages keeps who begins and all that is told, and leaves turns that alternate.
LEMMA JoinedAlternates ==
    ASSUME NEW entries \in Seq(Turns), entries # <<>>
    PROVE  /\ Alternate(Joined(entries))
           /\ \A k \in DOMAIN entries : \A i \in entries[k].of :
                \E t \in DOMAIN Joined(entries) : i \in Joined(entries)[t].of
<1> DEFINE J == Joined(entries)
           M == Cardinality(Begins(entries))
           part(t) == {k \in DOMAIN entries : Turn(entries, k) = t}
           of(t) == UNION {entries[k].of : k \in part(t)}
           one(t) == CHOOSE k \in part(t) : TRUE
<1>1. M \in Nat /\ M >= 1
  BY TurnCounts
<1>2. J = [t \in 1 .. M |-> [role |-> entries[one(t)].role, of |-> of(t)]]
  BY DEF Joined, Entry
<1> HIDE DEF J
<1>3. ASSUME NEW t \in 1 .. M
      PROVE  /\ one(t) \in DOMAIN entries /\ Turn(entries, one(t)) = t
             /\ J[t].role = entries[one(t)].role /\ J[t].of = of(t)
             /\ J[t] \in Turns
  <2>1. part(t) # {}
    BY TurnIsTaken
  <2>2. one(t) \in part(t)
    BY <2>1
  <2>3. \A k \in DOMAIN entries : entries[k] \in Turns
    OBVIOUS
  <2>4. entries[one(t)].role \in Roles /\ of(t) \in SUBSET Nat
    BY <2>2, <2>3 DEF Turns
  <2>5. J[t] = [role |-> entries[one(t)].role, of |-> of(t)]
    BY <1>2
  <2> QED BY <2>2, <2>4, <2>5 DEF Turns
<1>4. DOMAIN J = 1 .. M /\ J \in Seq(Turns) /\ J # <<>>
  <2>1. J \in [1 .. M -> Turns]
    <3> HIDE DEF one, of, M
    <3> QED BY <1>2, <1>3
  <2>2. J \in Seq(Turns) /\ Len(J) = M
    <3> HIDE DEF M
    <3> QED BY <1>1, <2>1
  <2> QED BY <1>1, <2>1, <2>2
<1>5. \A t \in 1 .. M : J[t].role = entries[1].role <=> t % 2 = 1
  BY <1>3, RoleByTurn
<1>6. J[1].role = entries[1].role
  BY <1>1, <1>5
<1>7. ASSUME NEW k \in DOMAIN entries, NEW i \in entries[k].of
      PROVE  \E t \in DOMAIN J : i \in J[t].of
  <2>1. Turn(entries, k) \in 1 .. M
    BY TurnCounts
  <2>2. i \in of(Turn(entries, k))
    OBVIOUS
  <2> QED BY <1>3, <1>4, <2>1, <2>2
<1> QED BY <1>4, <1>5, <1>6, <1>7 DEF J, Alternate
\* Turns that alternate and start with the seller.
SellerFirst(s) ==
    /\ s \in Seq(Turns) /\ s # <<>>
    /\ \A k \in DOMAIN s : s[k].role = IF k % 2 = 1 THEN "user" ELSE "assistant"

\* What one sequence of turns tells is told by another.
Tells(s, all) == \A t \in DOMAIN s : \E k \in DOMAIN all : s[t].of \subseteq all[k].of

LEMMA EntryIsTurn ==
    ASSUME NEW role \in Roles, NEW of \in SUBSET Nat
    PROVE  Entry(role, of) \in Turns /\ Entry(role, of).role = role /\ Entry(role, of).of = of
BY DEF Entry, Turns

\* Two sequences, one after the other.
LEMMA Concatenated ==
    ASSUME NEW s \in Seq(Turns), NEW t \in Seq(Turns)
    PROVE  /\ s \o t \in Seq(Turns) /\ Len(s \o t) = Len(s) + Len(t)
           /\ DOMAIN (s \o t) = 1 .. Len(s) + Len(t)
           /\ \A k \in 1 .. Len(s) : (s \o t)[k] = s[k]
           /\ \A k \in 1 .. Len(t) : (s \o t)[Len(s) + k] = t[k]
OBVIOUS

\* A turn of the seller's is put before the first where it is not the seller's.
LEMMA OpenedAlternates ==
    ASSUME NEW s, Alternate(s), s[1].role # "user",
           NEW opened, opened = <<Entry("user", {})>> \o s
    PROVE  SellerFirst(opened) /\ Tells(s, opened)
<1> DEFINE first == <<Entry("user", {})>>
<1>1. Entry("user", {}) \in Turns /\ Entry("user", {}).role = "user"
  BY EntryIsTurn DEF Roles
<1>2. s \in Seq(Turns) /\ s # <<>> /\ Len(s) \in Nat /\ DOMAIN s = 1 .. Len(s)
  BY DEF Alternate
<1>3. first \in Seq(Turns) /\ Len(first) = 1 /\ first[1] = Entry("user", {})
  BY <1>1
<1> HIDE DEF first
<1>4. opened = first \o s
  BY DEF first
<1>5. /\ opened \in Seq(Turns) /\ Len(opened) = 1 + Len(s) /\ DOMAIN opened = 1 .. 1 + Len(s)
      /\ opened[1] = Entry("user", {})
      /\ \A k \in 1 .. Len(s) : opened[k + 1] = s[k]
  BY <1>2, <1>3, <1>4
<1>6. \A k \in 1 .. Len(s) : s[k].role \in Roles
  <2>1. \A k \in 1 .. Len(s) : s[k] \in Turns
    BY <1>2
  <2> QED BY <2>1 DEF Turns
<1>7. ASSUME NEW k \in DOMAIN opened
      PROVE  opened[k].role = IF k % 2 = 1 THEN "user" ELSE "assistant"
  <2>1. CASE k = 1
    BY <1>1, <1>5, <2>1
  <2>2. CASE k > 1
    <3>1. PICK j \in 1 .. Len(s) : k = j + 1
      <4>1. k - 1 \in 1 .. Len(s) /\ k = (k - 1) + 1
        BY <1>2, <1>5, <2>2
      <4> QED BY <4>1
    <3>2. opened[k] = s[j] /\ (s[j].role = s[1].role <=> j % 2 = 1)
      BY <1>2, <1>5, <3>1 DEF Alternate
    <3>3. s[1].role = "assistant" /\ s[j].role \in Roles
      <4>1. 1 \in 1 .. Len(s)
        BY <1>2
      <4> QED BY <1>6, <4>1 DEF Roles
    <3>4. k % 2 = 1 <=> j % 2 # 1
      BY <1>2, <3>1, Parity
    <3> QED BY <3>2, <3>3, <3>4 DEF Roles
  <2> QED BY <1>2, <1>5, <2>1, <2>2
<1>8. Tells(s, opened)
  <2> SUFFICES ASSUME NEW t \in 1 .. Len(s)
               PROVE  \E k \in DOMAIN opened : s[t].of \subseteq opened[k].of
    BY <1>2 DEF Tells
  <2>1. t + 1 \in DOMAIN opened
    BY <1>2, <1>5
  <2> QED BY <1>5, <2>1
<1> QED BY <1>2, <1>5, <1>7, <1>8 DEF SellerFirst

\* One is put after the last where that is not the seller's.
LEMMA ClosedAlternates ==
    ASSUME NEW s, SellerFirst(s), Last(s).role # "user",
           NEW closed, closed = Append(s, Entry("user", {}))
    PROVE  SellerFirst(closed) /\ Tells(s, closed) /\ Len(closed) % 2 = 1
<1>1. Entry("user", {}) \in Turns /\ Entry("user", {}).role = "user"
  BY EntryIsTurn DEF Roles
<1>2. s \in Seq(Turns) /\ s # <<>> /\ Len(s) \in Nat \ {0} /\ DOMAIN s = 1 .. Len(s)
  BY DEF SellerFirst
<1>3. /\ closed \in Seq(Turns) /\ Len(closed) = Len(s) + 1 /\ DOMAIN closed = 1 .. Len(s) + 1
      /\ closed[Len(s) + 1] = Entry("user", {})
      /\ \A k \in 1 .. Len(s) : closed[k] = s[k]
  BY <1>1, <1>2
<1>4. Len(s) % 2 # 1
  BY <1>2 DEF Last, SellerFirst
<1>5. (Len(s) + 1) % 2 = 1
  BY <1>2, <1>4, Parity
<1>6. ASSUME NEW k \in DOMAIN closed
      PROVE  closed[k].role = IF k % 2 = 1 THEN "user" ELSE "assistant"
  <2>1. CASE k = Len(s) + 1
    BY <1>1, <1>3, <1>5, <2>1
  <2>2. CASE k \in 1 .. Len(s)
    BY <1>2, <1>3, <2>2 DEF SellerFirst
  <2> QED BY <1>2, <1>3, <2>1, <2>2
<1>7. Tells(s, closed)
  <2> SUFFICES ASSUME NEW t \in 1 .. Len(s)
               PROVE  \E k \in DOMAIN closed : s[t].of \subseteq closed[k].of
    BY <1>2 DEF Tells
  <2>1. t \in DOMAIN closed
    BY <1>2, <1>3
  <2> QED BY <1>3, <2>1
<1> QED BY <1>2, <1>3, <1>5, <1>6, <1>7 DEF SellerFirst

\* So the model is shown turns that start and end with the seller.
LEMMA FramedAlternates ==
    ASSUME NEW s, Alternate(s)
    PROVE  SellerFirst(Framed(s)) /\ Tells(s, Framed(s)) /\ Len(Framed(s)) % 2 = 1
<1> DEFINE opened == IF s = <<>> \/ Head(s).role # "user"
                     THEN <<Entry("user", {})>> \o s ELSE s
           framed == IF Last(opened).role # "user" THEN Append(opened, Entry("user", {}))
                     ELSE opened
<1>1. Framed(s) = framed
  BY DEF Framed
<1>2. s \in Seq(Turns) /\ s # <<>> /\ Head(s) = s[1] /\ Len(s) \in Nat \ {0} /\ DOMAIN s = 1 .. Len(s)
  BY DEF Alternate
<1>3. SellerFirst(opened) /\ Tells(s, opened)
  <2>1. CASE s[1].role # "user"
    BY <1>2, <2>1, OpenedAlternates
  <2>2. CASE s[1].role = "user"
    <3>1. opened = s /\ Tells(s, s)
      BY <1>2, <2>2 DEF Tells
    <3>2. \A k \in DOMAIN s : s[k].role \in Roles
      <4>1. \A k \in DOMAIN s : s[k] \in Turns
        BY <1>2
      <4> QED BY <4>1 DEF Turns
    <3>3. SellerFirst(s)
      BY <1>2, <2>2, <3>2 DEF Alternate, SellerFirst, Roles
    <3> QED BY <3>1, <3>3
  <2> QED BY <2>1, <2>2
<1> HIDE DEF opened
<1>4. CASE Last(opened).role # "user"
  <2>1. framed = Append(opened, Entry("user", {}))
    BY <1>4
  <2>2. SellerFirst(framed) /\ Tells(opened, framed) /\ Len(framed) % 2 = 1
    BY <1>3, <1>4, <2>1, ClosedAlternates
  <2>3. Tells(s, framed)
    BY <1>3, <2>2 DEF Tells
  <2> QED BY <1>1, <2>2, <2>3
<1>5. CASE Last(opened).role = "user"
  <2>1. framed = opened
    BY <1>5
  <2>2. Len(opened) \in DOMAIN opened
    BY <1>3 DEF SellerFirst
  <2>3. Len(opened) % 2 = 1
    BY <1>3, <1>5, <2>2 DEF SellerFirst, Last
  <2> QED BY <1>1, <1>3, <2>1, <2>3
<1> QED BY <1>4, <1>5
-----------------------------------------------------------------------------
(* The history on record, and what a transaction has folded it to.         *)

\* A summary that tells of the oldest messages, as far as it says it does.
Covers(h) == h.through \in 0 .. Len(log) /\ h.summary = 1 .. h.through

HistoryOK ==
    /\ summary \in [Channels -> SUBSET Nat] /\ through \in [Channels -> Nat]
    /\ \A ch \in Channels : through[ch] \in 0 .. Len(log) /\ summary[ch] = 1 .. through[ch]

FoldingOK == tx # NoTx => Covers(tx.folded) /\ tx.refused \in Nat

WholeInv == DraftsInv /\ HistoryOK /\ FoldingOK

\* Folding takes the messages that come next, or none.
LEMMA FoldedCovers ==
    ASSUME WholeInv, NEW works \in BOOLEAN
    PROVE  Covers(Folded(on, works))
<1> DEFINE n == ToFold(on)  p == through[on]
<1>1. on \in Channels /\ p \in Nat /\ p <= Len(log) /\ summary[on] = 1 .. p /\ Len(log) \in Nat
  BY DEF WholeInv, DraftsInv, ThreadsOK, HistoryOK
<1>2. n \in Nat /\ p + n <= Len(log)
  <2>1. Verbatim \in Nat /\ Batch \in Nat
    BY DraftsAssumption
  <2> QED BY <1>1, <2>1 DEF ToFold
<1> HIDE DEF n, p
<1>3. CASE works /\ n > 0
  <2>1. Folded(on, works) = [summary |-> summary[on] \cup (p + 1 .. p + n), through |-> p + n]
    BY <1>3 DEF Folded, n, p
  <2>2. 1 .. p \cup (p + 1 .. p + n) = 1 .. p + n
    BY <1>1, <1>2
  <2> QED BY <1>1, <1>2, <2>1, <2>2 DEF Covers
<1>4. CASE ~(works /\ n > 0)
  <2>1. Folded(on, works) = [summary |-> summary[on], through |-> p]
    BY <1>4 DEF Folded, n, p
  <2> QED BY <1>1, <2>1 DEF Covers
<1> QED BY <1>3, <1>4

\* What is on record only grows.
LEMMA LogGrows ==
    ASSUME DraftsInv, [Next]_vars
    PROVE  Len(log) \in Nat /\ Len(log') \in Nat /\ Len(log) <= Len(log')
<1>1. log \in Seq(Entries) /\ log' \in Seq(Entries)
  BY NextKeeps DEF DraftsInv, ThreadsOK
<1>2. log' = log \/ \E m : log' = Append(log, m)
  BY DEF Next, Work, Decide, Dies, Begin, Draft, Flagged, Send, Refused, Unreachable, Taken, Delivered,
         Rejected, RollBack, Writes, TextsFirst, Shuts, vars
<1> QED BY <1>1, <1>2

\* A transaction puts on record what it folded.
LEMMA CommitFolds ==
    ASSUME WholeInv, tx # NoTx, NEW how, Commit(how), Len(log) <= Len(log'), Len(log') \in Nat
    PROVE  HistoryOK' /\ FoldingOK'
<1> DEFINE f == tx.folded
<1>1. f.through \in 0 .. Len(log) /\ f.summary = 1 .. f.through /\ on \in Channels
      /\ Len(log) \in Nat
  BY DEF WholeInv, FoldingOK, Covers, DraftsInv, ThreadsOK
<1>2. summary' = [summary EXCEPT ![on] = f.summary] /\ through' = [through EXCEPT ![on] = f.through]
      /\ tx' = NoTx
  BY DEF Commit
<1> HIDE DEF f
<1>3. f.through \in Nat /\ f.through <= Len(log') /\ f.summary \in SUBSET Nat
  BY <1>1
<1>4. HistoryOK'
  BY <1>1, <1>2, <1>3 DEF WholeInv, HistoryOK
<1> QED BY <1>2, <1>4 DEF FoldingOK

\* Nothing else touches what is folded, or will be.
LEMMA RecordStays ==
    ASSUME WholeInv, UNCHANGED history, Len(log) <= Len(log'), Len(log') \in Nat,
           \/ tx' = NoTx
           \/ tx # NoTx /\ tx'.folded = tx.folded /\ tx'.refused \in Nat
    PROVE  HistoryOK' /\ FoldingOK'
<1>1. Len(log) \in Nat
  BY DEF WholeInv, DraftsInv, ThreadsOK
<1>2. \A n \in 0 .. Len(log) : n \in 0 .. Len(log')
  BY <1>1
<1>3. HistoryOK'
  BY <1>2 DEF WholeInv, HistoryOK, history
<1>4. FoldingOK'
  BY <1>2 DEF WholeInv, FoldingOK, Covers
<1> QED BY <1>3, <1>4

LEMMA WholeStep ==
    ASSUME WholeInv, [Next]_vars
    PROVE  WholeInv'
<1>1. DraftsInv' /\ Len(log') \in Nat /\ Len(log) <= Len(log')
  BY NextKeeps, LogGrows DEF WholeInv
<1>2. CASE Begin
  <2>1. PICK d \in due, works \in BOOLEAN :
          tx' = [step |-> IF Modelled /\ d.worded THEN "draft" ELSE "send", attempt |-> 0,
                 refused |-> 0, folded |-> Folded(on, works /\ Modelled /\ d.worded), body |-> d.script]
    BY <1>2 DEF Begin
  <2>2. Covers(Folded(on, works /\ Modelled /\ d.worded))
    BY FoldedCovers
  <2>3. UNCHANGED <<log, history>>
    BY <1>2 DEF Begin
  <2>4. HistoryOK'
    BY <2>3 DEF WholeInv, HistoryOK, history
  <2>5. tx'.folded = Folded(on, works /\ Modelled /\ d.worded) /\ tx'.refused = 0
    BY <2>1
  <2>6. FoldingOK'
    BY <2>2, <2>3, <2>5 DEF FoldingOK, Covers
  <2> QED BY <1>1, <2>4, <2>6 DEF WholeInv
<1>3. CASE Draft
  <2>1. tx.step = "draft" /\ UNCHANGED <<log, history>>
    BY <1>3 DEF Draft
  <2>2. /\ tx # NoTx /\ tx.refused \in Nat
        /\ tx = [step |-> tx.step, attempt |-> tx.attempt, refused |-> tx.refused,
                 folded |-> tx.folded, body |-> tx.body]
    BY <2>1 DEF WholeInv, FoldingOK, DraftsInv, TxOK, NoTx
  <2>3. \/ \E text : Sends(text)
        \/ \E n \in {0, 1} : tx' = [tx EXCEPT !.attempt = @ + 1, !.refused = @ + n]
    BY <1>3 DEF Draft, CallFails, Unreadable, Written, Another
  <2>4. tx'.folded = tx.folded /\ tx'.refused \in Nat
    <3>1. ASSUME NEW text, Sends(text) PROVE tx'.folded = tx.folded /\ tx'.refused = tx.refused
      BY <2>2, <3>1 DEF Sends
    <3>2. ASSUME NEW n \in {0, 1}, tx' = [tx EXCEPT !.attempt = @ + 1, !.refused = @ + n]
          PROVE  tx'.folded = tx.folded /\ tx'.refused = tx.refused + n
      BY <2>2, <3>2
    <3>3. \A n \in {0, 1} : tx.refused + n \in Nat
      BY <2>2
    <3> QED BY <2>2, <2>3, <3>1, <3>2, <3>3
  <2> QED BY <1>1, <2>1, <2>2, <2>4, RecordStays DEF WholeInv
<1>4. ASSUME tx # NoTx, NEW how, Commit(how) PROVE WholeInv'
  BY <1>1, <1>4, CommitFolds DEF WholeInv
<1>5. CASE RollBack
  BY <1>1, <1>5, RecordStays DEF RollBack, WholeInv
<1>6. CASE Flagged
  BY <1>4, <1>6 DEF Flagged, NoTx
<1>7. CASE Send
  <2>1. PICK d \in due : Refused(d) \/ Unreachable(d) \/ Taken(d) \/ Delivered(d) \/ Rejected(d)
    BY <1>7 DEF Send
  <2>2. tx # NoTx
    BY <2>1 DEF Refused, Unreachable, Taken, Delivered, Rejected, Ready, Sending, NoTx
  <2> QED
    BY <1>4, <1>5, <2>1, <2>2 DEF Refused, Unreachable, Taken, Delivered, Rejected
<1>8. CASE Decide \/ (\E ch \in Channels : Writes(ch)) \/ TextsFirst \/ Shuts \/ UNCHANGED vars
  <2>1. UNCHANGED <<history, tx>>
    BY <1>8 DEF Decide, Writes, TextsFirst, Shuts, vars
  <2>2. tx' = NoTx \/ (tx # NoTx /\ tx'.folded = tx.folded /\ tx'.refused \in Nat)
    BY <2>1 DEF WholeInv, FoldingOK
  <2> QED BY <1>1, <2>1, <2>2, RecordStays DEF WholeInv
<1> QED
  BY <1>2, <1>3, <1>5, <1>6, <1>7, <1>8 DEF Next, Work, Dies

LEMMA WholeStart == Init => WholeInv
<1> SUFFICES ASSUME Init PROVE WholeInv
  OBVIOUS
<1>1. Len(log) \in {1, 2}
  BY DEF Init
<1> QED BY <1>1, InitInv DEF Init, WholeInv, HistoryOK, FoldingOK

-----------------------------------------------------------------------------
\* The model is shown every message that is on record, in turns that alternate.
LEMMA ShownIsWhole ==
    ASSUME DraftsInv, NEW h, Covers(h)
    PROVE  /\ SellerFirst(Shown(h)) /\ Len(Shown(h)) % 2 = 1
           /\ \A i \in 1 .. Len(log) : \E k \in DOMAIN Shown(h) : i \in Shown(h)[k].of
<1> DEFINE p == h.through
           n == Len(log)
           turns == After(p)
           older == IF h.summary = {} THEN <<>> ELSE <<Entry("user", h.summary)>>
           later == [k \in DOMAIN turns |-> Entry(Role(turns[k]), {turns[k]})]
           entries == older \o later
<1>1. p \in Nat /\ n \in Nat \ {0} /\ p <= n /\ h.summary = 1 .. p /\ n - p \in Nat
  BY DEF Covers, DraftsInv, ThreadsOK
<1>2. DOMAIN turns = 1 .. n - p /\ \A k \in 1 .. n - p : turns[k] = p + k /\ p + k \in Nat
  BY <1>1 DEF After
<1> HIDE DEF turns
<1>3. \A k \in 1 .. n - p : later[k] \in Turns /\ later[k].of = {p + k}
  <2> SUFFICES ASSUME NEW k \in 1 .. n - p PROVE later[k] \in Turns /\ later[k].of = {p + k}
    OBVIOUS
  <2>1. later[k] = Entry(Role(turns[k]), {p + k})
    BY <1>2
  <2>2. Role(turns[k]) \in Roles
    BY DEF Role, Roles
  <2> QED BY <1>2, <2>1, <2>2, EntryIsTurn
<1>4. later \in Seq(Turns) /\ Len(later) = n - p
  <2>1. later \in [1 .. n - p -> Turns]
    BY <1>2, <1>3
  <2> HIDE DEF later
  <2> QED BY <1>1, <2>1
<1>5. Entry("user", 1 .. p) \in Turns /\ Entry("user", 1 .. p).of = 1 .. p
  BY <1>1, EntryIsTurn DEF Roles
<1> HIDE DEF later
<1>6. /\ entries \in Seq(Turns) /\ entries # <<>>
      /\ \A i \in 1 .. n : \E k \in DOMAIN entries : i \in entries[k].of
  <2>1. CASE p = 0
    <3>1. older = <<>>
      BY <1>1, <2>1
    <3>2. entries = later
      BY <1>4, <3>1
    <3>3. \A i \in 1 .. n : i \in DOMAIN later /\ i \in later[i].of
      BY <1>1, <1>3, <1>4, <2>1
    <3>4. later # <<>>
      BY <1>1, <1>4, <2>1
    <3> HIDE DEF entries
    <3> QED BY <1>4, <3>2, <3>3, <3>4
  <2>2. CASE p > 0
    <3>1. older = <<Entry("user", 1 .. p)>>
      <4>1. 1 \in 1 .. p
        BY <1>1, <2>2
      <4> QED BY <1>1, <4>1
    <3>2. older \in Seq(Turns) /\ Len(older) = 1 /\ older[1] = Entry("user", 1 .. p)
      BY <1>5, <3>1
    <3> HIDE DEF older
    <3>3. /\ entries \in Seq(Turns) /\ Len(entries) = Len(older) + Len(later)
          /\ \A k \in 1 .. Len(older) : entries[k] = older[k]
          /\ \A k \in 1 .. Len(later) : entries[Len(older) + k] = later[k]
      BY ONLY <1>4, <3>2, Concatenated, Zenon
    <3>4. /\ entries \in Seq(Turns) /\ Len(entries) = 1 + (n - p)
          /\ entries[1] = Entry("user", 1 .. p)
          /\ \A k \in 1 .. n - p : entries[1 + k] = later[k]
      BY <1>4, <3>2, <3>3
    <3> HIDE DEF entries
    <3>5. DOMAIN entries = 1 .. 1 + (n - p) /\ entries # <<>>
      BY <1>1, <3>4
    <3>6. ASSUME NEW i \in 1 .. n PROVE \E k \in DOMAIN entries : i \in entries[k].of
      <4>1. CASE i <= p
        <5>1. 1 \in DOMAIN entries /\ i \in 1 .. p
          BY <1>1, <3>5, <4>1
        <5> QED BY <1>5, <3>4, <5>1
      <4>2. CASE i > p
        <5>1. i - p \in 1 .. n - p /\ 1 + (i - p) \in DOMAIN entries /\ p + (i - p) = i
          BY <1>1, <3>5, <4>2
        <5>2. entries[1 + (i - p)] = later[i - p] /\ later[i - p].of = {p + (i - p)}
          BY <1>3, <3>4, <5>1
        <5> QED BY <5>1, <5>2
      <4> QED BY <1>1, <4>1, <4>2
    <3> QED BY <3>4, <3>5, <3>6
  <2>3. p = 0 \/ p > 0
    BY <1>1
  <2> QED BY <2>1, <2>2, <2>3
<1>7. Shown(h) = Framed(Joined(entries))
  BY DEF Shown, later, turns
<1> HIDE DEF entries
<1>8. Alternate(Joined(entries))
      /\ \A k \in DOMAIN entries : \A i \in entries[k].of :
            \E t \in DOMAIN Joined(entries) : i \in Joined(entries)[t].of
  BY <1>6, JoinedAlternates
<1>9. SellerFirst(Framed(Joined(entries))) /\ Tells(Joined(entries), Framed(Joined(entries)))
      /\ Len(Framed(Joined(entries))) % 2 = 1
  BY <1>8, FramedAlternates
<1>10. \A i \in 1 .. n : \E k \in DOMAIN Shown(h) : i \in Shown(h)[k].of
  BY <1>6, <1>7, <1>8, <1>9 DEF Tells
<1> QED BY <1>7, <1>9, <1>10

\* What was wrong with the refused drafts follows in pairs, and keeps all that.
LEMMA PromptIsWhole ==
    ASSUME WholeInv, tx.step = "draft"
    PROVE  WholeConversation
<1> DEFINE s == Shown(tx.folded)
<1>1. Covers(tx.folded) /\ tx.refused \in Nat
  BY DEF WholeInv, FoldingOK, NoTx
<1>2. /\ SellerFirst(s) /\ Len(s) % 2 = 1
      /\ \A i \in 1 .. Len(log) : \E k \in DOMAIN s : i \in s[k].of
  BY <1>1, ShownIsWhole DEF WholeInv
<1> HIDE DEF s
<1>3. s \in Seq(Turns) /\ Len(s) \in Nat /\ DOMAIN s = 1 .. Len(s)
  BY <1>2 DEF SellerFirst
<1> DEFINE m == 2 * tx.refused
<1>4. m \in Nat /\ m % 2 = 0
  BY <1>1, Parity
<1>5. \A k \in 1 .. m : Feedback[k].role = (IF k % 2 = 1 THEN "assistant" ELSE "user")
                         /\ Feedback[k] \in Turns
  BY EntryIsTurn DEF Feedback, Roles
<1>6. Feedback \in Seq(Turns) /\ Len(Feedback) = m
  <2>1. Feedback \in [1 .. m -> Turns]
    BY <1>5 DEF Feedback
  <2> HIDE DEF m
  <2> QED BY <1>4, <2>1
<1> HIDE DEF m
<1>7. /\ Prompt \in Seq(Turns) /\ Len(Prompt) = Len(s) + m /\ DOMAIN Prompt = 1 .. Len(s) + m
      /\ \A k \in 1 .. Len(s) : Prompt[k] = s[k]
      /\ \A k \in 1 .. m : Prompt[Len(s) + k] = Feedback[k]
  <2>1. Prompt = s \o Feedback
    BY DEF Prompt, s
  <2>2. /\ Prompt \in Seq(Turns) /\ Len(Prompt) = Len(s) + Len(Feedback)
        /\ DOMAIN Prompt = 1 .. Len(s) + Len(Feedback)
        /\ \A k \in 1 .. Len(s) : Prompt[k] = s[k]
        /\ \A k \in 1 .. Len(Feedback) : Prompt[Len(s) + k] = Feedback[k]
    BY ONLY <1>3, <1>6, <2>1, Concatenated, Zenon
  <2> QED BY <1>6, <2>2
<1>8. \A a \in Nat, b \in Nat : (a + b) % 2 = IF a % 2 = b % 2 THEN 0 ELSE 1
  OBVIOUS
<1>9. Len(Prompt) % 2 = 1
  BY <1>2, <1>3, <1>4, <1>7, <1>8
<1>10. 1 .. Len(log) \subseteq UNION {Prompt[k].of : k \in DOMAIN Prompt}
  <2> SUFFICES ASSUME NEW i \in 1 .. Len(log) PROVE \E k \in DOMAIN Prompt : i \in Prompt[k].of
    OBVIOUS
  <2>1. PICK k \in 1 .. Len(s) : i \in s[k].of
    BY <1>2, <1>3
  <2>2. k \in DOMAIN Prompt
    BY <1>3, <1>4, <1>7
  <2> QED BY <1>7, <2>1, <2>2
<1>11. ASSUME NEW k \in DOMAIN Prompt
       PROVE  Prompt[k].role = IF k % 2 = 1 THEN "user" ELSE "assistant"
  <2>1. CASE k \in 1 .. Len(s)
    BY <1>2, <1>3, <1>7, <2>1 DEF SellerFirst
  <2>2. CASE k > Len(s)
    <3>1. PICK j \in 1 .. m : k = Len(s) + j
      <4>1. k \in 1 .. Len(s) + m
        BY <1>7
      <4>2. k - Len(s) \in 1 .. m /\ k = Len(s) + (k - Len(s))
        BY <1>3, <1>4, <2>2, <4>1
      <4> QED BY <4>2
    <3>2. Prompt[k].role = IF j % 2 = 1 THEN "assistant" ELSE "user"
      BY <1>5, <1>7, <3>1
    <3>3. k % 2 = 1 <=> j % 2 # 1
      BY <1>2, <1>3, <1>4, <1>8, <3>1
    <3> QED BY <3>2, <3>3
  <2> QED BY <1>3, <1>4, <1>7, <2>1, <2>2
<1> QED BY <1>9, <1>10, <1>11 DEF WholeConversation

\* However often the history is folded, in whatever order messages come and jobs die,
\* and however many drafts are refused: nothing that is on record is kept from the model,
\* and the turns it is shown alternate (conversation/history.py and compose.py).
THEOREM NothingDropped == Spec => []WholeConversation
<1>1. WholeInv => WholeConversation
  BY PromptIsWhole DEF WholeConversation
<1> QED BY <1>1, WholeStart, WholeStep, PTL DEF Spec
=============================================================================
