-------------------------- MODULE FactStoreProofs --------------------------
(***************************************************************************)
(* However many sessions record however many facts, what stands is as      *)
(* strong as anything recorded.  The invariant (Top) is that some standing *)
(* row is as strong as every row: a fact that supersedes another is at     *)
(* least as strong, and a row is superseded once, so a race can leave two  *)
(* rows standing but never none, and never only weaker ones.               *)
(*                                                                         *)
(* At the end, the same of deliveries: however many overlap, a car that is *)
(* a lead twice was delivered twice at once (Overlaps).                    *)
(***************************************************************************)
EXTENDS MCFactStore, SequenceTheorems, WellFoundedInduction, TLAPS

Top == rows # <<>> =>
           \E i \in Standing : \A j \in DOMAIN rows : Rank(rows[j].fact) <= Rank(rows[i].fact)

\* A set of naturals with a bound has a greatest member.
LEMMA Greatest ==
    ASSUME NEW S \in SUBSET Nat, S # {}, NEW bound \in Nat, \A s \in S : s <= bound
    PROVE  \E g \in S : \A s \in S : s <= g
<1> DEFINE T == {bound - s : s \in S}
<1>1. \A s \in S : bound - s \in Nat /\ bound - s \in T
  OBVIOUS
<1>2. T \subseteq Nat
  BY <1>1
<1>3. T # {}
  <2>1. PICK s \in S : TRUE
    OBVIOUS
  <2>2. bound - s \in T
    BY <1>1, <2>1
  <2> QED BY <2>2
<1>4. PICK x \in T : \A y \in T : ~(<<y, x>> \in OpToRel(<, Nat))
  <2> HIDE DEF T
  <2> QED BY <1>2, <1>3, WFMin, NatLessThanWellFounded
<1>5. \A y \in T : ~(y < x)
  BY <1>2, <1>4 DEF OpToRel
<1>6. PICK g \in S : x = bound - g
  OBVIOUS
<1>7. ASSUME NEW s \in S PROVE s <= g
  <2>1. bound - s \in T /\ ~(bound - s < bound - g)
    BY <1>1, <1>5, <1>6, <1>7
  <2>2. s \in Nat /\ g \in Nat
    BY <1>6, <1>7
  <2> HIDE DEF T
  <2> QED BY <2>1, <2>2
<1> QED BY <1>6, <1>7

\* Ranks are naturals below thirty.
LEMMA RankType == \A f \in Facts : Rank(f) \in 0 .. 29
<1> SUFFICES ASSUME NEW f \in Facts PROVE Rank(f) \in 0 .. 29
  OBVIOUS
<1>1. f \in Confident
  BY FactAssumption
<1>2. f.source \in DOMAIN Authority /\ f.conf \in 0 .. 2
  BY <1>1 DEF Confident
<1>3. Authority[f.source] \in 0 .. 4
  BY <1>2 DEF Authority
<1> QED BY <1>2, <1>3 DEF Rank

\* The table as a sequence of rows.
LEMMA Table ==
    ASSUME TypeOK
    PROVE  /\ Len(rows) \in Nat /\ DOMAIN rows = 1 .. Len(rows)
           /\ \A i \in DOMAIN rows : rows[i] \in Row
           /\ rows = <<>> <=> Len(rows) = 0
BY LenProperties, EmptySeq, ElementOfSeq DEF TypeOK

\* The rank of a row is a natural.
LEMMA RowRank ==
    ASSUME TypeOK, NEW i \in DOMAIN rows PROVE Rank(rows[i].fact) \in Nat
<1>1. rows[i].fact \in Facts
  BY Table DEF Row
<1>2. Rank(rows[i].fact) \in 0 .. 29
  BY <1>1, RankType
<1> QED BY <1>2

\* A transaction that has read holds a fact, a time and the number of a row.
LEMMA ReadTx ==
    ASSUME TypeOK, NEW w \in Writers, tx[w].phase = "read"
    PROVE  /\ tx[w].fact \in Facts /\ tx[w].at \in 1 .. MaxBegins
           /\ tx[w].cur \in DOMAIN rows \cup {0}
BY DEF TypeOK, Transactions, Idle

\* What inserting a row leaves.
LEMMA Inserted ==
    ASSUME TypeOK, NEW w \in Writers, tx[w].phase = "read", NEW sup \in DOMAIN rows \cup {0},
           Len(rows) < MaxRows
    PROVE  /\ Insert(w, sup) \in Seq(Row) /\ Len(Insert(w, sup)) = Len(rows) + 1
           /\ \A i \in DOMAIN rows : Insert(w, sup)[i] = rows[i]
           /\ Insert(w, sup)[Len(rows) + 1] = [fact |-> tx[w].fact, at |-> tx[w].at, sup |-> sup]
           /\ Insert(w, sup)[Len(rows) + 1].fact = tx[w].fact
           /\ Insert(w, sup)[Len(rows) + 1].sup = sup
<1> DEFINE row == [fact |-> tx[w].fact, at |-> tx[w].at, sup |-> sup]
<1>1. sup \in 0 .. MaxRows
  BY Table, FactAssumption
<1>2. row \in Row
  BY <1>1, ReadTx DEF Row
<1> HIDE DEF row
<1>3. rows \in Seq(Row)
  BY DEF TypeOK
<1>4. Insert(w, sup) = Append(rows, row)
  BY DEF Insert, row
<1> QED BY <1>2, <1>3, <1>4, Table, AppendProperties DEF row

\* What superseding a row leaves: that row, no longer standing, and the new one.
LEMMA Superseded ==
    ASSUME TypeOK, NEW w \in Writers, Supersede(w)
    PROVE  /\ rows' \in Seq(Row) /\ Len(rows') = Len(rows) + 1
           /\ tx[w].cur \in DOMAIN rows
           /\ \A i \in DOMAIN rows : i # tx[w].cur => rows'[i] = rows[i]
           /\ rows'[tx[w].cur].fact = rows[tx[w].cur].fact
           /\ rows'[tx[w].cur].sup = Len(rows) + 1
           /\ rows'[Len(rows) + 1] = [fact |-> tx[w].fact, at |-> tx[w].at, sup |-> 0]
           /\ rows'[Len(rows) + 1].fact = tx[w].fact /\ rows'[Len(rows) + 1].sup = 0
<1> DEFINE c == tx[w].cur
           s == Insert(w, 0)
           row == [s[c] EXCEPT !.sup = Len(rows) + 1]
<1>1. c \in DOMAIN rows /\ Len(rows) < MaxRows /\ tx[w].phase = "read"
  BY ReadTx DEF Supersede, Supersedes
<1>2. /\ s \in Seq(Row) /\ Len(s) = Len(rows) + 1
      /\ \A i \in DOMAIN rows : s[i] = rows[i]
      /\ s[Len(rows) + 1] = [fact |-> tx[w].fact, at |-> tx[w].at, sup |-> 0]
  BY <1>1, Inserted
<1>3. rows' = [s EXCEPT ![c] = row]
  BY DEF Supersede
<1>4. s[c] \in Row /\ c \in 1 .. Len(rows) /\ Len(rows) \in Nat
  BY <1>1, <1>2, Table
<1>5. row \in Row /\ row.fact = s[c].fact /\ row.sup = Len(rows) + 1
  BY <1>1, <1>4, FactAssumption DEF Row
<1>6. c \in 1 .. Len(s) /\ c # Len(rows) + 1
  BY <1>2, <1>4
<1> HIDE DEF c, s, row
<1>7. /\ rows' \in Seq(Row) /\ Len(rows') = Len(s)
      /\ \A i \in 1 .. Len(s) : rows'[i] = IF i = c THEN row ELSE s[i]
  BY <1>2, <1>3, <1>5, <1>6, ExceptSeq
<1>8. \A i \in DOMAIN rows : i \in 1 .. Len(s)
  BY <1>2, Table
<1>9. Len(rows) + 1 \in 1 .. Len(s)
  BY <1>2, <1>4
<1> QED BY <1>1, <1>2, <1>5, <1>6, <1>7, <1>8, <1>9, <1>4 DEF c

\* Some standing row is read as the current one.
LEMMA SomeCurrent == TypeOK /\ Standing # {} => Current # {}
<1> SUFFICES ASSUME TypeOK, Standing # {} PROVE Current # {}
  OBVIOUS
<1> DEFINE rank(i) == Rank(rows[i].fact)
           ranks == {rank(i) : i \in Standing}
           at(i) == rows[i].at
<1>1. \A i \in Standing : rank(i) \in 0 .. 29 /\ at(i) \in 1 .. MaxBegins
  BY Table, RankType DEF Standing, Row
<1>2. PICK i \in Standing : \A j \in Standing : rank(j) <= rank(i)
  <2>1. ranks \in SUBSET Nat /\ ranks # {} /\ \A s \in ranks : s <= 29
    <3> HIDE DEF rank
    <3> QED BY <1>1
  <2>2. PICK g \in ranks : \A s \in ranks : s <= g
    <3> HIDE DEF ranks
    <3> QED BY <2>1, Greatest
  <2> HIDE DEF rank
  <2> QED BY <2>2
<1> DEFINE top == {j \in Standing : rank(j) = rank(i)}
           ats == {at(j) : j \in top}
<1>3. PICK k \in top : \A j \in top : at(j) <= at(k)
  <2>1. ats \in SUBSET Nat /\ ats # {} /\ \A s \in ats : s <= MaxBegins
    <3> HIDE DEF rank, at
    <3> QED BY <1>1, <1>2, FactAssumption
  <2>2. PICK g \in ats : \A s \in ats : s <= g
    <3> HIDE DEF ats
    <3> QED BY <2>1, Greatest, FactAssumption
  <2> HIDE DEF rank, at
  <2> QED BY <2>2
<1>4. ASSUME NEW j \in Standing
      PROVE  rank(j) < rank(k) \/ (rank(j) = rank(k) /\ at(j) <= at(k))
  <2> HIDE DEF rank, at
  <2> QED BY <1>1, <1>2, <1>3, <1>4
<1> QED BY <1>3, <1>4 DEF Current

-----------------------------------------------------------------------------
(* Typing.                                                                 *)

\* The transactions and the clock.
Sessions == tx \in [Writers -> Transactions] /\ begun \in 0 .. MaxBegins

\* A step keeps them typed.
LEMMA StepSessions == TypeOK /\ [Next]_vars => Sessions'
<1> SUFFICES ASSUME TypeOK, [Next]_vars PROVE Sessions'
  OBVIOUS
<1> USE FactAssumption
<1>0. Idle \in Transactions
  BY DEF Transactions
<1>1. ASSUME NEW w \in Writers, Begin(w) PROVE Sessions'
  <2>1. [phase |-> "open", at |-> begun + 1] \in Transactions
    BY <1>1 DEF Begin, TypeOK, Transactions
  <2> QED BY <1>1, <2>1 DEF Begin, TypeOK, Sessions
<1>2. ASSUME NEW w \in Writers, NEW f \in Facts, Read(w, f) PROVE Sessions'
  <2>1. PICK i \in IF Standing = {} THEN {0} ELSE Current :
          tx' = [tx EXCEPT ![w] = [phase |-> "read", at |-> tx[w].at, fact |-> f, cur |-> i]]
    BY <1>2 DEF Read
  <2>2. i \in 0 .. MaxRows
    BY <2>1, Table DEF Current, Standing, TypeOK
  <2>3. tx[w].at \in 1 .. MaxBegins
    BY <1>2 DEF Read, TypeOK, Transactions, Idle
  <2>4. [phase |-> "read", at |-> tx[w].at, fact |-> f, cur |-> i] \in Transactions
    BY <2>2, <2>3 DEF Transactions
  <2> QED BY <1>2, <2>1, <2>4 DEF Read, TypeOK, Sessions
<1>3. ASSUME NEW w \in Writers, Done(w) PROVE Sessions'
  BY <1>0, <1>3 DEF Done, TypeOK, Sessions
<1>4. CASE UNCHANGED vars
  BY <1>4 DEF vars, TypeOK, Sessions
<1> QED BY <1>1, <1>2, <1>3, <1>4
        DEF Next, First, Known, Behind, Supersede, Refused, Abandon

\* The rows and the keys between them.
Chained ==
    /\ rows \in Seq(Row) /\ Len(rows) <= MaxRows
    /\ \A i \in DOMAIN rows : rows[i].sup \in (DOMAIN rows \ {i}) \cup {0}

\* Inserting a row behind one that is there keeps the table.
LEMMA InsertChained ==
    ASSUME TypeOK, NEW w \in Writers, tx[w].phase = "read", NEW sup \in DOMAIN rows \cup {0},
           Len(rows) < MaxRows, rows' = Insert(w, sup)
    PROVE  Chained' /\ DOMAIN rows \subseteq DOMAIN rows'
<1> DEFINE n == Len(rows)
<1>1. /\ rows' \in Seq(Row) /\ Len(rows') = n + 1
      /\ \A i \in DOMAIN rows : rows'[i] = rows[i]
      /\ rows'[n + 1].sup = sup
  BY Inserted
<1>2. n \in Nat /\ DOMAIN rows = 1 .. n /\ DOMAIN rows' = 1 .. n + 1
  BY <1>1, Table, LenProperties
<1>3. \A i \in 1 .. n : rows[i].sup \in (1 .. n \ {i}) \cup {0}
  BY <1>2 DEF TypeOK
<1> HIDE DEF n
<1>4. \A i \in 1 .. n + 1 : rows'[i].sup \in (1 .. n + 1 \ {i}) \cup {0}
  BY <1>1, <1>2, <1>3
<1>5. n + 1 <= MaxRows
  BY <1>2, FactAssumption DEF n
<1> QED BY <1>1, <1>2, <1>4, <1>5 DEF Chained

\* And so does superseding one.
LEMMA SupersedeChained ==
    ASSUME TypeOK, NEW w \in Writers, Supersede(w)
    PROVE  Chained' /\ DOMAIN rows \subseteq DOMAIN rows'
<1> DEFINE n == Len(rows)
           c == tx[w].cur
<1>1. /\ rows' \in Seq(Row) /\ Len(rows') = n + 1 /\ c \in DOMAIN rows
      /\ \A i \in DOMAIN rows : i # c => rows'[i] = rows[i]
      /\ rows'[c].sup = n + 1 /\ rows'[n + 1].sup = 0
  BY Superseded
<1>2. n \in Nat /\ DOMAIN rows = 1 .. n /\ DOMAIN rows' = 1 .. n + 1 /\ n < MaxRows
  BY <1>1, Table, LenProperties DEF Supersede
<1>3. \A i \in 1 .. n : rows[i].sup \in (1 .. n \ {i}) \cup {0}
  BY <1>2 DEF TypeOK
<1> HIDE DEF n, c
<1>4. \A i \in 1 .. n + 1 : rows'[i].sup \in (1 .. n + 1 \ {i}) \cup {0}
  BY <1>1, <1>2, <1>3
<1> QED BY <1>1, <1>2, <1>4, FactAssumption DEF Chained

\* Every step keeps the table, and no row is ever deleted.
LEMMA StepChained == TypeOK /\ [Next]_vars => Chained' /\ DOMAIN rows \subseteq DOMAIN rows'
<1> SUFFICES ASSUME TypeOK, [Next]_vars PROVE Chained' /\ DOMAIN rows \subseteq DOMAIN rows'
  OBVIOUS
<1>1. ASSUME NEW w \in Writers, First(w) PROVE Chained' /\ DOMAIN rows \subseteq DOMAIN rows'
  BY <1>1, InsertChained DEF First
<1>2. ASSUME NEW w \in Writers, Behind(w) PROVE Chained' /\ DOMAIN rows \subseteq DOMAIN rows'
  <2>1. tx[w].cur \in DOMAIN rows \cup {0}
    BY <1>2, ReadTx DEF Behind
  <2> QED BY <1>2, <2>1, InsertChained DEF Behind
<1>3. ASSUME NEW w \in Writers, Supersede(w) PROVE Chained' /\ DOMAIN rows \subseteq DOMAIN rows'
  BY <1>3, SupersedeChained
<1>4. ASSUME UNCHANGED rows PROVE Chained' /\ DOMAIN rows \subseteq DOMAIN rows'
  BY <1>4 DEF TypeOK, Chained
<1> QED BY <1>1, <1>2, <1>3, <1>4 DEF Next, Begin, Read, Known, Refused, Abandon, vars

\* Types hold across a step.
LEMMA StepTyped == TypeOK /\ [Next]_vars => TypeOK'
<1> SUFFICES ASSUME TypeOK, [Next]_vars PROVE TypeOK'
  OBVIOUS
<1>1. Sessions' /\ Chained' /\ DOMAIN rows \subseteq DOMAIN rows'
  BY StepSessions, StepChained
<1>2. ASSUME NEW v \in Writers, tx'[v].phase = "read" PROVE tx'[v].cur \in DOMAIN rows' \cup {0}
  <2>1. CASE tx'[v] = tx[v]
    BY <1>1, <1>2, <2>1, ReadTx
  <2>2. ASSUME NEW w \in Writers, Begin(w) PROVE tx'[v] = tx[v]
    BY <1>2, <2>2 DEF Begin, TypeOK
  <2>3. ASSUME NEW w \in Writers, Done(w) PROVE tx'[v] = tx[v]
    BY <1>2, <2>3 DEF Done, Idle, TypeOK
  <2>4. ASSUME NEW w \in Writers, NEW f \in Facts, Read(w, f)
        PROVE  tx'[v] = tx[v] \/ tx'[v].cur \in DOMAIN rows' \cup {0}
    <3>1. PICK i \in IF Standing = {} THEN {0} ELSE Current :
            tx' = [tx EXCEPT ![w] = [phase |-> "read", at |-> tx[w].at, fact |-> f, cur |-> i]]
      BY <2>4 DEF Read
    <3>2. i \in DOMAIN rows \cup {0}
      BY <3>1 DEF Current, Standing
    <3> QED BY <1>1, <3>1, <3>2 DEF TypeOK
  <2>5. CASE UNCHANGED vars
    BY <2>1, <2>5 DEF vars
  <2> QED BY <2>1, <2>2, <2>3, <2>4, <2>5
          DEF Next, First, Known, Behind, Supersede, Refused, Abandon
<1> QED BY <1>1, <1>2 DEF Sessions, Chained, TypeOK

-----------------------------------------------------------------------------
(* The strongest fact stands.                                              *)

\* A step that adds no row, or one no stronger than a row that stands, or that
\* replaces a row by one as strong, leaves a standing row as strong as any.
LEMMA StepTop == TypeOK /\ Top /\ [Next]_vars => Top'
<1> SUFFICES ASSUME TypeOK, Top, [Next]_vars PROVE Top'
  OBVIOUS
<1> DEFINE n == Len(rows)
           rank(i) == Rank(rows[i].fact)
           after(i) == Rank(rows'[i].fact)
<1>0. n \in Nat /\ DOMAIN rows = 1 .. n /\ (rows = <<>> <=> n = 0)
  BY Table
<1>1. \A i \in 1 .. n : rank(i) \in Nat
  BY <1>0, RowRank
<1>2. ASSUME NEW t \in 1 .. n + 1, DOMAIN rows' = 1 .. n + 1, rows'[t].sup = 0,
             \A j \in 1 .. n + 1 : after(j) <= after(t)
      PROVE  Top'
  BY <1>2 DEF Top, Standing
<1>3. ASSUME NEW w \in Writers, tx[w].phase = "read" PROVE Rank(tx[w].fact) \in Nat
  <2>1. Rank(tx[w].fact) \in 0 .. 29
    BY <1>3, ReadTx, RankType
  <2> QED BY <2>1
<1>4. ASSUME NEW w \in Writers, tx[w].phase = "read", NEW sup \in DOMAIN rows \cup {0},
             Len(rows) < MaxRows, rows' = Insert(w, sup),
             sup # 0 => Rank(tx[w].fact) < rank(sup)
      PROVE  Top'
  <2> DEFINE new == Rank(tx[w].fact)
  <2>1. /\ Len(rows') = n + 1 /\ rows' \in Seq(Row)
        /\ \A i \in 1 .. n : rows'[i] = rows[i]
        /\ rows'[n + 1].fact = tx[w].fact /\ rows'[n + 1].sup = sup
    <3>1. /\ Insert(w, sup) \in Seq(Row) /\ Len(Insert(w, sup)) = n + 1
          /\ \A i \in DOMAIN rows : Insert(w, sup)[i] = rows[i]
          /\ Insert(w, sup)[n + 1].fact = tx[w].fact /\ Insert(w, sup)[n + 1].sup = sup
      BY <1>4, Inserted
    <3> HIDE DEF n
    <3> QED BY <1>0, <1>4, <3>1
  <2>2. DOMAIN rows' = 1 .. n + 1
    BY <2>1, LenProperties
  <2>3. new \in Nat /\ after(n + 1) = new /\ \A i \in 1 .. n : after(i) = rank(i)
    BY <1>3, <1>4, <2>1
  <2>4. CASE rows = <<>>
    <3>1. sup = 0 /\ n = 0
      BY <1>0, <1>4, <2>4
    <3>2. \A j \in 1 .. n + 1 : after(j) <= after(n + 1)
      <4> HIDE DEF after, new, n
      <4> QED BY <2>3, <3>1
    <3> QED BY <1>2, <2>1, <2>2, <3>1, <3>2
  <2>5. CASE rows # <<>>
    <3>1. PICK t \in Standing : \A j \in DOMAIN rows : rank(j) <= rank(t)
      BY <2>5 DEF Top
    <3>2. t \in 1 .. n /\ t \in 1 .. n + 1 /\ rows'[t].sup = 0 /\ \A j \in 1 .. n : rank(j) <= rank(t)
      BY <1>0, <2>1, <3>1 DEF Standing
    <3>3. CASE new <= rank(t)
      <4>1. \A j \in 1 .. n + 1 : after(j) <= after(t)
        <5> HIDE DEF after, rank, new, n
        <5> QED BY <1>0, <1>1, <2>3, <3>2, <3>3
      <4> QED BY <1>2, <2>2, <3>2, <4>1
    <3>4. CASE ~(new <= rank(t))
      <4>1. sup = 0
        <5>1. sup \in 1 .. n \cup {0} /\ (sup # 0 => new < rank(sup))
          BY <1>0, <1>4
        <5> HIDE DEF rank, new, n
        <5> QED BY <1>1, <2>3, <3>2, <3>4, <5>1
      <4>2. n + 1 \in 1 .. n + 1 /\ \A j \in 1 .. n + 1 : after(j) <= after(n + 1)
        <5> HIDE DEF after, rank, new, n
        <5> QED BY <1>0, <1>1, <2>3, <3>2, <3>4
      <4> QED BY <1>2, <2>1, <2>2, <4>1, <4>2
    <3> QED BY <3>3, <3>4
  <2> QED BY <2>4, <2>5
<1>5. ASSUME NEW w \in Writers, Supersede(w) PROVE Top'
  <2> DEFINE c == tx[w].cur
             new == Rank(tx[w].fact)
  <2>1. /\ Len(rows') = n + 1 /\ rows' \in Seq(Row) /\ c \in 1 .. n
        /\ \A i \in 1 .. n : i # c => rows'[i] = rows[i]
        /\ rows'[c].fact = rows[c].fact
        /\ rows'[n + 1].fact = tx[w].fact /\ rows'[n + 1].sup = 0
    BY <1>0, <1>5, Superseded
  <2>2. DOMAIN rows' = 1 .. n + 1
    BY <2>1, LenProperties
  <2>3. new \in Nat /\ after(n + 1) = new /\ \A i \in 1 .. n : after(i) = rank(i)
    BY <1>3, <1>5, <2>1 DEF Supersede, Supersedes
  <2>4. rank(c) <= new
    <3>1. ~(new < rank(c))
      BY <1>5 DEF Supersede, Supersedes, Weaker, Stood
    <3> HIDE DEF rank, new, c
    <3> QED BY <1>1, <2>1, <2>3, <3>1
  <2>5. PICK t \in Standing : \A j \in DOMAIN rows : rank(j) <= rank(t)
    BY <1>0, <2>1 DEF Top
  <2>6. t \in 1 .. n /\ rows[t].sup = 0 /\ \A j \in 1 .. n : rank(j) <= rank(t)
    BY <1>0, <2>5 DEF Standing
  <2>7. CASE new <= rank(t) /\ t # c
    <3>1. rows'[t].sup = 0 /\ t \in 1 .. n + 1
      BY <1>0, <2>1, <2>6, <2>7
    <3>2. \A j \in 1 .. n + 1 : after(j) <= after(t)
      <4> HIDE DEF after, rank, new, n, c
      <4> QED BY <1>0, <1>1, <2>3, <2>6, <2>7
    <3> QED BY <1>2, <2>2, <3>1, <3>2
  <2>8. CASE rank(t) <= new
    <3>1. n + 1 \in 1 .. n + 1 /\ \A j \in 1 .. n + 1 : after(j) <= after(n + 1)
      <4> HIDE DEF after, rank, new, n, c
      <4> QED BY <1>0, <1>1, <2>3, <2>6, <2>8
    <3> QED BY <1>2, <2>1, <2>2, <3>1
  <2>9. rank(t) \in Nat /\ new \in Nat /\ (t = c => rank(t) <= new)
    BY <1>1, <2>3, <2>4, <2>6
  <2> HIDE DEF rank, new, c
  <2> QED BY <2>7, <2>8, <2>9
<1>6. ASSUME NEW w \in Writers, First(w) PROVE Top'
  BY <1>4, <1>6 DEF First
<1>7. ASSUME NEW w \in Writers, Behind(w) PROVE Top'
  <2>1. tx[w].cur \in DOMAIN rows \cup {0} /\ Rank(tx[w].fact) < rank(tx[w].cur)
    BY <1>7, ReadTx DEF Behind, Weaker, Stood
  <2> QED BY <1>4, <1>7, <2>1 DEF Behind
<1>8. ASSUME UNCHANGED rows PROVE Top'
  BY <1>8 DEF Top, Standing
<1> QED BY <1>5, <1>6, <1>7, <1>8 DEF Next, Begin, Read, Known, Refused, Abandon, vars

\* Rows, keys and transactions are typed.
THEOREM TypeCorrect == Spec => []TypeOK
<1>1. Init => TypeOK
  <2> SUFFICES ASSUME Init PROVE TypeOK
    OBVIOUS
  <2>1. rows \in Seq(Row) /\ Len(rows) = 0 /\ DOMAIN rows = {}
    BY EmptySeq, LenProperties DEF Init
  <2> QED BY <2>1, FactAssumption DEF Init, TypeOK, Transactions, Idle
<1> QED BY <1>1, StepTyped, PTL DEF Spec

\* What is read as the standing fact is as strong as anything recorded, for any
\* number of sessions and facts and however they overlap.
THEOREM Strongest == Spec => []StandsStrongest
<1>1. Init => Top
  BY DEF Init, Top
<1>2. TypeOK /\ Top => StandsStrongest
  <2> SUFFICES ASSUME TypeOK, Top, rows # <<>>
               PROVE  /\ Current # {}
                      /\ \A i \in Current, j \in DOMAIN rows :
                           Rank(rows[j].fact) <= Rank(rows[i].fact)
    BY DEF StandsStrongest
  <2>1. PICK t \in Standing : \A j \in DOMAIN rows : Rank(rows[j].fact) <= Rank(rows[t].fact)
    BY DEF Top
  <2>2. Current # {}
    BY <2>1, SomeCurrent
  <2>3. \A i \in DOMAIN rows : Rank(rows[i].fact) \in Nat
    BY RowRank
  <2>4. ASSUME NEW i \in Current, NEW j \in DOMAIN rows
        PROVE  Rank(rows[j].fact) <= Rank(rows[i].fact)
    <3>1. Rank(rows[t].fact) <= Rank(rows[i].fact) /\ i \in DOMAIN rows /\ t \in DOMAIN rows
      BY <2>3, <2>4 DEF Current, Standing
    <3>2. Rank(rows[j].fact) <= Rank(rows[t].fact)
      BY <2>1
    <3> QED BY <2>3, <3>1, <3>2
  <2> QED BY <2>2, <2>4
<1> QED BY <1>1, <1>2, StepTop, TypeCorrect, PTL DEF Spec

\* A row keeps its fact for good, and its superseder once it has one.
LEMMA RowsStay ==
    ASSUME TypeOK, [Next]_vars, NEW i \in DOMAIN rows
    PROVE  rows'[i].fact = rows[i].fact /\ (rows[i].sup # 0 => rows'[i].sup = rows[i].sup)
<1>1. ASSUME NEW w \in Writers, First(w) PROVE rows'[i] = rows[i]
  <2>1. tx[w].phase = "read" /\ Len(rows) < MaxRows /\ 0 \in DOMAIN rows \cup {0}
    BY <1>1 DEF First
  <2>2. \A j \in DOMAIN rows : Insert(w, 0)[j] = rows[j]
    BY <2>1, Inserted
  <2> QED BY <1>1, <2>2 DEF First
<1>2. ASSUME NEW w \in Writers, Behind(w) PROVE rows'[i] = rows[i]
  <2>1. tx[w].cur \in DOMAIN rows \cup {0}
    BY <1>2, ReadTx DEF Behind
  <2> QED BY <1>2, <2>1, Inserted DEF Behind
<1>3. ASSUME NEW w \in Writers, Supersede(w)
      PROVE  rows'[i].fact = rows[i].fact /\ (rows[i].sup # 0 => rows'[i].sup = rows[i].sup)
  <2>1. /\ \A j \in DOMAIN rows : j # tx[w].cur => rows'[j] = rows[j]
        /\ rows'[tx[w].cur].fact = rows[tx[w].cur].fact
    BY <1>3, Superseded
  <2>2. rows[tx[w].cur].sup = 0
    BY <1>3 DEF Supersede, Free
  <2> QED BY <2>1, <2>2
<1>4. ASSUME UNCHANGED rows PROVE rows'[i] = rows[i]
  BY <1>4
<1> QED BY <1>1, <1>2, <1>3, <1>4 DEF Next, Begin, Read, Known, Refused, Abandon, vars

\* A contradiction that is shown is shown for good, whatever races with what.
THEOREM Preserved == Spec => ContradictionPreserved
<1>1. TypeOK /\ [Next]_vars => [Contradicted => Contradicted']_vars
  <2> SUFFICES ASSUME TypeOK, [Next]_vars, Contradicted PROVE Contradicted'
    OBVIOUS
  <2>1. PICK i \in DOMAIN rows : Claim(i) /\ Shown(i)
    BY DEF Contradicted
  <2>2. rows[i].sup \in DOMAIN rows /\ rows[i].sup # 0
    BY <2>1 DEF TypeOK, Shown
  <2>3. /\ rows'[i].fact = rows[i].fact /\ rows'[i].sup = rows[i].sup
        /\ rows'[rows[i].sup].fact = rows[rows[i].sup].fact
    BY <2>2, RowsStay
  <2>4. i \in DOMAIN rows'
    BY StepChained
  <2>5. Claim(i)' /\ Shown(i)'
    BY <2>1, <2>3 DEF Claim, Shown
  <2> QED BY <2>4, <2>5 DEF Contradicted
<1> QED BY <1>1, TypeCorrect, PTL DEF Spec, ContradictionPreserved

-----------------------------------------------------------------------------
(* Ingestion: what a delivery that is dealt with on its own leaves behind is *)
(* seen by every delivery that is opened after it.                           *)

At(w, steps) == session[w].step \in steps

Working == {"known", "dedupe", "insert"}

\* What a session is in is numbered by its delivery, and so is every lead; an
\* odometer is a whole number of thousands.
SessionsNumbered ==
    /\ requests \in Nat /\ DOMAIN session = Writers
    /\ \A w \in Writers : At(w, Working) \/ session[w].step = "idle"
    /\ \A w \in Writers : At(w, Working) =>
           /\ session[w].by \in 1 .. requests /\ session[w].of.odometer \in Nat
           /\ {"step", "of", "at", "by"} \subseteq DOMAIN session[w]

LeadsNumbered == \A l \in leads : l.by \in 1 .. requests /\ l.odometer \in Nat

\* Two deliveries that are open together are known to have been.
OpenTogether ==
    \A v, w \in Writers :
        At(v, Working) /\ At(w, Working) /\ session[v].by < session[w].by
            => {session[v].by, session[w].by} \in together

\* So are a delivery that is open and a lead of a later one.
OvertakenTogether ==
    \A v \in Writers, l \in leads :
        At(v, Working) /\ session[v].by < l.by => {session[v].by, l.by} \in together

\* A delivery that has looked and found nothing: whatever there is of that car in
\* its window by now was open when it was.
Looked(t, recorded, pairs) ==
    \A l \in recorded :
        t.step = "insert" /\ l.by < t.by /\ Ingests!SameCar(l, t.of) /\ l.at >= t.looked - Window
            => {l.by, t.by} \in pairs

LookedTogether == \A w \in Writers : Looked(session[w], leads, together)

Overlaps ==
    /\ SessionsNumbered /\ LeadsNumbered
    /\ OpenTogether /\ OvertakenTogether /\ LookedTogether
    /\ DuplicateOnlyByOverlap

\* The two ways of saying that two odometers are those of one car.
LEMMA SameOdometer ==
    ASSUME NEW a \in Nat, NEW b \in Nat
    PROVE  (\E more \in {a - b, b - a} : more >= 0 /\ (more <= 3 \/ 10 * more <= a \/ 10 * more <= b))
             => Ingests!OdometerMatches(a, b)
BY DEF Ingests!OdometerMatches, Ingests!Larger

\* An earlier lead of the same car within the window is a candidate.
LEMMA EarlierIsCandidate ==
    ASSUME LeadsNumbered, NEW l \in leads, NEW m, m.odometer \in Nat,
           Ingests!SameCar(l, m), l.at >= now - Window
    PROVE  l \in Ingests!Candidates(m)
<1>1. l.odometer \in Nat
  BY DEF LeadsNumbered
<1>2. Ingests!OdometerMatches(l.odometer, m.odometer)
  BY <1>1, SameOdometer DEF Ingests!SameCar
<1> QED BY <1>2 DEF Ingests!SameCar, Ingests!Candidates, Ingests!Fingerprint

\* A session that ends, or goes on without having looked or written, changes
\* nothing for the others.
LEMMA StepAside ==
    ASSUME Overlaps, NEW w \in Writers,
           session' = [session EXCEPT ![w] = Ingests!Idle]
             \/ (session[w].step = "known" /\ session' = [session EXCEPT ![w].step = "dedupe"]),
           UNCHANGED <<leads, requests, together>>
    PROVE  Overlaps'
<1> USE DEF Overlaps
<1>1. DOMAIN session' = Writers /\ \A v \in Writers : v # w => session'[v] = session[v]
  BY DEF SessionsNumbered
<1>2. \/ session'[w].step = "idle"
      \/ /\ session[w].step = "known" /\ session'[w].step = "dedupe"
         /\ session'[w].by = session[w].by /\ session'[w].of = session[w].of
         /\ DOMAIN session'[w] = DOMAIN session[w]
  <2>1. CASE session' = [session EXCEPT ![w] = Ingests!Idle]
    BY <2>1 DEF SessionsNumbered, Ingests!Idle
  <2>2. CASE session[w].step = "known" /\ session' = [session EXCEPT ![w].step = "dedupe"]
    <3>1. {"step", "of", "at", "by"} \subseteq DOMAIN session[w]
      BY <2>2 DEF SessionsNumbered, At, Working
    <3>2. session'[w] = [session[w] EXCEPT !.step = "dedupe"]
      BY <2>2 DEF SessionsNumbered
    <3> QED BY <2>2, <3>1, <3>2
  <2> QED BY <2>1, <2>2
<1>3. SessionsNumbered' /\ LeadsNumbered'
  BY <1>1, <1>2 DEF SessionsNumbered, LeadsNumbered, At, Working
<1>4. \A v \in Writers : At(v, Working)' => At(v, Working) /\ session'[v].by = session[v].by
  BY <1>1, <1>2 DEF At, Working
<1>5. OpenTogether' /\ OvertakenTogether'
  BY <1>4 DEF OpenTogether, OvertakenTogether
<1>6. LookedTogether'
  <2>1. \A v \in Writers : Looked(session'[v], leads, together)
    BY <1>1, <1>2 DEF LookedTogether, Looked
  <2> QED BY <2>1 DEF LookedTogether
<1>7. DuplicateOnlyByOverlap'
  BY DEF DuplicateOnlyByOverlap, Ingests!DuplicateOnlyByOverlap, Ingests!SameCar
<1> QED BY <1>3, <1>5, <1>6, <1>7

\* A listing that conforms has an odometer reading.
LEMMA Kilometres ==
    ASSUME NEW m, Ingests!Conforms(m)
    PROVE  m.odometer \in Nat
<1>1. PICK n \in 0 .. 1500 : n = m.odometer
  BY DEF Ingests!Conforms
<1>2. n \in Nat
  OBVIOUS
<1> QED BY <1>1, <1>2

\* A delivery is opened: it is later than all there is, and meets those that are open.
LEMMA OpensAside ==
    ASSUME Overlaps, NEW w \in Writers, NEW m, Ingests!Opens(w, m)
    PROVE  Overlaps'
<1> USE DEF Overlaps
<1>1. /\ requests' = requests + 1 /\ requests \in Nat /\ leads' = leads
      /\ DOMAIN session' = Writers /\ \A v \in Writers : v # w => session'[v] = session[v]
      /\ session'[w] = [step |-> "known", of |-> m, at |-> now, by |-> requests + 1]
      /\ together' = together \cup {{session[v].by, requests + 1} : v \in Ingests!Open}
  BY DEF Ingests!Opens, SessionsNumbered
<1>2. m.odometer \in Nat
  BY Kilometres DEF Ingests!Opens
<1>3. \A v \in Writers : At(v, Working) => v \in Ingests!Open
  BY DEF At, Working, Ingests!Open, Ingests!Idle
<1>4. session'[w].step = "known" /\ session'[w].by = requests + 1 /\ session'[w].of = m
      /\ DOMAIN session'[w] = {"step", "of", "at", "by"}
  BY <1>1
<1>5. SessionsNumbered' /\ LeadsNumbered'
  BY <1>1, <1>2, <1>4 DEF SessionsNumbered, LeadsNumbered, At, Working
<1>6. OpenTogether'
  <2> SUFFICES ASSUME NEW u \in Writers, NEW v \in Writers, At(u, Working)', At(v, Working)',
                      session'[u].by < session'[v].by
               PROVE  {session'[u].by, session'[v].by} \in together'
    BY DEF OpenTogether
  <2>1. u # w
    BY <1>1, <1>4, <1>5 DEF SessionsNumbered
  <2>2. At(u, Working) /\ session'[u].by = session[u].by
    BY <1>1, <2>1 DEF At
  <2>3. CASE v = w
    BY <1>1, <1>3, <1>4, <2>2, <2>3
  <2>4. CASE v # w
    BY <1>1, <2>2, <2>4 DEF OpenTogether, At
  <2> QED BY <2>3, <2>4
<1>7. OvertakenTogether'
  <2> SUFFICES ASSUME NEW v \in Writers, NEW l \in leads, At(v, Working)', session'[v].by < l.by
               PROVE  {session'[v].by, l.by} \in together'
    BY <1>1 DEF OvertakenTogether
  <2>1. v # w
    BY <1>1, <1>4 DEF LeadsNumbered
  <2> QED BY <1>1, <2>1 DEF OvertakenTogether, At
<1>8. LookedTogether'
  <2>1. \A v \in Writers : Looked(session'[v], leads', together')
    BY <1>1, <1>4 DEF LookedTogether, Looked
  <2> QED BY <2>1 DEF LookedTogether
<1>9. DuplicateOnlyByOverlap'
  BY <1>1 DEF DuplicateOnlyByOverlap, Ingests!DuplicateOnlyByOverlap, Ingests!SameCar
<1> QED BY <1>5, <1>6, <1>7, <1>8, <1>9

\* A delivery looks for the seller's other leads of the car and finds none.
LEMMA LooksAside ==
    ASSUME Overlaps, NEW w \in Writers, Ingests!Dedupe(w)
    PROVE  Overlaps'
<1> USE DEF Overlaps
<1> DEFINE m == session[w].of
<1>1. CASE Ingests!Candidates(m) # {}
  BY <1>1, StepAside DEF Ingests!Dedupe, Ingests!Ends
<1>2. CASE Ingests!Candidates(m) = {}
  <2>1. /\ session[w].step = "dedupe" /\ UNCHANGED <<leads, requests, together>>
        /\ DOMAIN session' = Writers /\ \A v \in Writers : v # w => session'[v] = session[v]
        /\ session'[w] = [step |-> "insert", of |-> m, at |-> session[w].at,
                          by |-> session[w].by, looked |-> now]
    BY <1>2 DEF Ingests!Dedupe, SessionsNumbered
  <2>2. /\ session'[w].step = "insert" /\ session'[w].by = session[w].by
        /\ session'[w].of = m /\ session'[w].looked = now
        /\ {"step", "of", "at", "by"} \subseteq DOMAIN session'[w]
    BY <2>1
  <2>3. SessionsNumbered' /\ LeadsNumbered'
    BY <2>1, <2>2 DEF SessionsNumbered, LeadsNumbered, At, Working
  <2>4. \A v \in Writers : At(v, Working)' => At(v, Working) /\ session'[v].by = session[v].by
    BY <2>1, <2>2 DEF At, Working
  <2>5. OpenTogether' /\ OvertakenTogether'
    BY <2>1, <2>4 DEF OpenTogether, OvertakenTogether
  <2>6. m.odometer \in Nat
    BY <2>1 DEF SessionsNumbered, At, Working
  <2>7. \A l \in leads : ~(Ingests!SameCar(l, m) /\ l.at >= now - Window)
    BY <1>2, <2>6, EarlierIsCandidate
  <2>8. LookedTogether'
    <3>1. Looked(session'[w], leads, together)
      BY <2>2, <2>7 DEF Looked
    <3>2. \A v \in Writers : Looked(session'[v], leads', together')
      BY <2>1, <3>1 DEF LookedTogether
    <3> QED BY <3>2 DEF LookedTogether
  <2>9. DuplicateOnlyByOverlap'
    BY <2>1 DEF DuplicateOnlyByOverlap, Ingests!DuplicateOnlyByOverlap, Ingests!SameCar
  <2> QED BY <2>3, <2>5, <2>8, <2>9
<1> QED BY <1>1, <1>2

\* The new lead was preceded by what it saw and by what it was open with, and is
\* followed by those it is still open with.
LEMMA InsertsAside ==
    ASSUME Overlaps, NEW w \in Writers, Ingests!Insert(w)
    PROVE  Overlaps'
<1> USE DEF Overlaps
<1> DEFINE x == Ingests!Lead(session[w])
<1>1. CASE Ingests!OnRecord(session[w].of)
  BY <1>1, StepAside DEF Ingests!Insert, Ingests!Ends
<1>2. CASE ~Ingests!OnRecord(session[w].of)
  <2>1. /\ session[w].step = "insert" /\ leads' = leads \cup {x} /\ UNCHANGED <<requests, together>>
        /\ DOMAIN session' = Writers /\ \A v \in Writers : v # w => session'[v] = session[v]
        /\ session'[w].step = "idle"
    BY <1>2 DEF Ingests!Insert, Ingests!Ends, Ingests!Idle, SessionsNumbered
  <2>2. /\ x.by = session[w].by /\ x.looked = session[w].looked
        /\ x.odometer = session[w].of.odometer
        /\ x.by \in 1 .. requests /\ x.odometer \in Nat
    BY <2>1 DEF Ingests!Lead, SessionsNumbered, At, Working
  <2>3. \A l : Ingests!SameCar(l, x) <=> Ingests!SameCar(l, session[w].of)
    BY DEF Ingests!Lead, Ingests!SameCar
  <2> HIDE DEF x
  <2>4. SessionsNumbered' /\ LeadsNumbered'
    BY <2>1, <2>2 DEF SessionsNumbered, LeadsNumbered, At, Working
  <2>5. \A v \in Writers : At(v, Working)' => v # w /\ At(v, Working) /\ session'[v] = session[v]
    BY <2>1 DEF At, Working
  <2>6. OpenTogether'
    BY <2>1, <2>5 DEF OpenTogether
  <2>7. OvertakenTogether'
    <3> SUFFICES ASSUME NEW v \in Writers, NEW l \in leads', At(v, Working)', session'[v].by < l.by
                 PROVE  {session'[v].by, l.by} \in together
      BY <2>1 DEF OvertakenTogether
    <3>1. CASE l \in leads
      BY <2>5, <3>1 DEF OvertakenTogether
    <3>2. CASE l = x
      BY <2>1, <2>2, <2>5, <3>2 DEF OpenTogether, At, Working
    <3> QED BY <2>1, <3>1, <3>2
  <2>8. LookedTogether'
    <3>1. Looked(session'[w], leads', together)
      BY <2>1 DEF Looked
    <3>2. ASSUME NEW v \in Writers, v # w PROVE Looked(session[v], leads', together)
      <4>1. session[v].step = "insert" /\ x.by < session[v].by => {x.by, session[v].by} \in together
        BY <2>1, <2>2, <3>2 DEF OpenTogether, At, Working
      <4>2. Looked(session[v], leads, together)
        BY DEF LookedTogether
      <4> QED BY <2>1, <4>1, <4>2 DEF Looked
    <3>3. \A v \in Writers : Looked(session'[v], leads', together')
      BY <2>1, <3>1, <3>2
    <3> QED BY <3>3 DEF LookedTogether
  <2>9. DuplicateOnlyByOverlap'
    <3> SUFFICES ASSUME NEW a \in leads', NEW b \in leads', a.by < b.by, Ingests!SameCar(a, b),
                        a.at >= b.looked - Window
                 PROVE  {a.by, b.by} \in together
      BY <2>1 DEF DuplicateOnlyByOverlap, Ingests!DuplicateOnlyByOverlap, Ingests!SameCar
    <3>1. CASE a \in leads /\ b \in leads
      BY <3>1 DEF DuplicateOnlyByOverlap, Ingests!DuplicateOnlyByOverlap
    <3>2. CASE a \in leads /\ b = x
      BY <2>1, <2>2, <2>3, <3>2 DEF LookedTogether, Looked
    <3>3. CASE a = x /\ b \in leads
      BY <2>1, <2>2, <3>3 DEF OvertakenTogether, At, Working
    <3>4. ~(a = x /\ b = x)
      BY <2>2
    <3> QED BY <2>1, <3>1, <3>2, <3>3, <3>4
  <2> QED BY <2>4, <2>6, <2>7, <2>8, <2>9
<1> QED BY <1>1, <1>2

\* Every step keeps it.
LEMMA StepOverlaps == Overlaps /\ [RecordsNext]_<<vars, listings, what>> => Overlaps'
<1> SUFFICES ASSUME Overlaps, [RecordsNext]_<<vars, listings, what>> PROVE Overlaps'
  OBVIOUS
<1>1. CASE UNCHANGED listings
  BY <1>1 DEF listings, Overlaps, SessionsNumbered, LeadsNumbered, At, OpenTogether, OvertakenTogether,
     LookedTogether, Looked, DuplicateOnlyByOverlap, Ingests!DuplicateOnlyByOverlap, Ingests!SameCar
<1>2. ASSUME NEW w \in Writers, Ingests!Posted(w) \/ Ingests!Typed(w) PROVE Overlaps'
  <2>1. PICK m : Ingests!Opens(w, m)
    BY <1>2 DEF Ingests!Posted, Ingests!Typed
  <2> QED BY <2>1, OpensAside
<1>3. ASSUME NEW w \in Writers, Ingests!Known(w) \/ Ingests!Dies(w) PROVE Overlaps'
  BY <1>3, StepAside DEF Ingests!Known, Ingests!Dies, Ingests!Ends, Ingests!GoesOn
<1>4. ASSUME NEW w \in Writers, Ingests!Dedupe(w) PROVE Overlaps'
  BY <1>4, LooksAside
<1>5. ASSUME NEW w \in Writers, Ingests!Insert(w) PROVE Overlaps'
  BY <1>5, InsertsAside
<1>6. CASE Ingests!Day
  BY <1>6 DEF Ingests!Day, Overlaps, SessionsNumbered, LeadsNumbered, At, OpenTogether,
     OvertakenTogether, LookedTogether, Looked, DuplicateOnlyByOverlap, Ingests!DuplicateOnlyByOverlap,
     Ingests!SameCar
<1> QED BY <1>1, <1>2, <1>3, <1>4, <1>5, <1>6 DEF RecordsNext, Ingests!Next

\* For any number of web workers, listings, forms and days, and any window: a car is a
\* lead twice within the window only if the two deliveries were open at the same time
\* (ingestion/service.py: the fingerprint is looked up and the row inserted in one
\* transaction that sees what others have committed).
THEOREM TwiceOnlyByOverlap == Records => []DuplicateOnlyByOverlap
<1>1. RecordsInit => Overlaps
  BY DEF RecordsInit, Ingests!Init, Ingests!Idle, Overlaps, SessionsNumbered, LeadsNumbered, At,
     Working, OpenTogether, OvertakenTogether, LookedTogether, Looked, DuplicateOnlyByOverlap,
     Ingests!DuplicateOnlyByOverlap
<1>2. Overlaps => DuplicateOnlyByOverlap
  BY DEF Overlaps
<1> QED BY <1>1, <1>2, StepOverlaps, PTL DEF Records
=============================================================================
