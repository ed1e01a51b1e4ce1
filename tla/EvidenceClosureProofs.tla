----------------------- MODULE EvidenceClosureProofs -----------------------
EXTENDS EvidenceClosure, FiniteSetTheorems, SequenceTheorems, WellFoundedInduction, TLAPS

-----------------------------------------------------------------------------
(* Sequences put end to end.                                               *)

\* A nonempty set of naturals has a least member.
LEMMA LeastNatural ==
  ASSUME NEW T \in SUBSET Nat, T # {}
  PROVE  \E m \in T : \A j \in T : m <= j
<1>1. PICK m \in T : \A j \in T : ~(<<j, m>> \in OpToRel(<, Nat))
  BY NatLessThanWellFounded, WFMin, Zenon
<1>2. \A j \in T : ~(j < m)
  BY <1>1, Zenon DEF OpToRel
<1> QED BY <1>2

\* Every member is one of its sequence and keeps the members that follow it there, and
\* nothing is left out.
EndToEnd(flat, list, m) ==
  /\ \A p \in 1 .. Len(flat) :
       \E i \in 1 .. m : \E j \in 1 .. Len(list[i]) :
         flat[p] = list[i][j] /\ p + (Len(list[i]) - j) <= Len(flat)
  /\ \A i \in 1 .. m : \A j \in 1 .. Len(list[i]) : \E p \in 1 .. Len(flat) : flat[p] = list[i][j]

\* What FlattenSeq computes for the first m sequences.
Partial(f, list, m) ==
  f = [i \in 1 .. m |-> IF i = 1 THEN list[i] ELSE f[i - 1] \o list[i]]

LEMMA PartialExists ==
  ASSUME NEW X, NEW list \in Seq(Seq(X)), NEW n \in 1 .. Len(list)
  PROVE  \E f : Partial(f, list, n)
<1> DEFINE Missing == {m \in 1 .. Len(list) : ~ \E f : Partial(f, list, m)}
<1> SUFFICES ASSUME Missing # {}
             PROVE  FALSE
  OBVIOUS
<1>1. Missing \in SUBSET Nat
  OBVIOUS
<1>2. PICK m \in Missing : \A j \in Missing : m <= j
  BY <1>1, LeastNatural
<1>3. m \in 1 .. Len(list) /\ ~ \E f : Partial(f, list, m)
  BY <1>2
<1>4. CASE m = 1
  <2> DEFINE g == [i \in 1 .. 1 |-> list[i]]
  <2>1. g = [i \in 1 .. 1 |-> IF i = 1 THEN list[i] ELSE g[i - 1] \o list[i]]
    OBVIOUS
  <2> HIDE DEF g
  <2> QED BY <1>3, <1>4, <2>1 DEF Partial
<1>5. CASE m # 1
  <2>1. m - 1 \in 1 .. Len(list) /\ m - 1 < m
    BY <1>3, <1>5
  <2>2. m - 1 \notin Missing
    <3>1. m - 1 \in Missing => m <= m - 1
      BY <1>2
    <3> QED BY <2>1, <3>1
  <2>3. PICK f : Partial(f, list, m - 1)
    BY <2>1, <2>2
  <2> DEFINE g == [i \in 1 .. m |-> IF i < m THEN f[i] ELSE f[m - 1] \o list[m]]
  <2>4. \A i \in 1 .. m - 1 : f[i] = IF i = 1 THEN list[i] ELSE f[i - 1] \o list[i]
    BY <2>3 DEF Partial
  <2>5. \A i \in 1 .. m : g[i] = IF i = 1 THEN list[i] ELSE g[i - 1] \o list[i]
    <3> TAKE i \in 1 .. m
    <3>1. CASE i = m
      <4>1. \A k \in 1 .. m : g[k] = IF k < m THEN f[k] ELSE f[m - 1] \o list[m]
        OBVIOUS
      <4>2. m \in 1 .. m /\ m - 1 \in 1 .. m /\ m - 1 < m /\ ~(m < m)
        BY <1>3, <1>5
      <4> HIDE DEF g
      <4> QED BY <1>5, <3>1, <4>1, <4>2
    <3>2. CASE i # m
      <4>1. i \in 1 .. m - 1 /\ i < m /\ (i # 1 => i - 1 \in 1 .. m /\ i - 1 < m)
        BY <1>3, <3>2
      <4> QED BY <2>4, <4>1
    <3> QED BY <3>1, <3>2
  <2>6. g = [i \in 1 .. m |-> g[i]]
    OBVIOUS
  <2> HIDE DEF g
  <2>7. g = [i \in 1 .. m |-> IF i = 1 THEN list[i] ELSE g[i - 1] \o list[i]]
    BY <2>5, <2>6
  <2> QED BY <1>3, <2>7 DEF Partial
<1> QED BY <1>4, <1>5

\* One more sequence at the end.
LEMMA OneMore ==
  ASSUME NEW X, NEW list \in Seq(Seq(X)), NEW m \in Nat, m + 1 \in 1 .. Len(list),
         NEW flat \in Seq(X), EndToEnd(flat, list, m)
  PROVE  /\ flat \o list[m + 1] \in Seq(X)
         /\ EndToEnd(flat \o list[m + 1], list, m + 1)
<1> DEFINE row == list[m + 1]
           all == flat \o row
<1>1. /\ row \in Seq(X) /\ all \in Seq(X)
      /\ Len(all) = Len(flat) + Len(row)
      /\ Len(flat) \in Nat /\ Len(row) \in Nat
      /\ \A p \in 1 .. Len(flat) : all[p] = flat[p]
      /\ \A j \in 1 .. Len(row) : all[Len(flat) + j] = row[j]
  OBVIOUS
<1>2. row = list[m + 1] /\ \A i \in 1 .. Len(list) : Len(list[i]) \in Nat
  OBVIOUS
<1> HIDE DEF all, row
<1>6. /\ Len(all) = Len(flat) + Len(row) /\ Len(flat) \in Nat /\ Len(row) \in Nat
      /\ \A p \in 1 .. Len(flat) : all[p] = flat[p]
  BY <1>1
<1>7. \A j \in 1 .. Len(row) : all[Len(flat) + j] = row[j]
  BY <1>1
<1>3. ASSUME NEW p \in 1 .. Len(all)
      PROVE  \E i \in 1 .. m + 1 : \E j \in 1 .. Len(list[i]) :
               all[p] = list[i][j] /\ p + (Len(list[i]) - j) <= Len(all)
  <2>1. CASE p <= Len(flat)
    <3>1. PICK i \in 1 .. m : \E j \in 1 .. Len(list[i]) :
            flat[p] = list[i][j] /\ p + (Len(list[i]) - j) <= Len(flat)
      <4>1. p \in 1 .. Len(flat)
        BY <1>1, <2>1
      <4> QED BY <4>1 DEF EndToEnd
    <3>2. PICK j \in 1 .. Len(list[i]) :
            flat[p] = list[i][j] /\ p + (Len(list[i]) - j) <= Len(flat)
      BY <3>1
    <3>3. i \in 1 .. m + 1 /\ i \in 1 .. Len(list)
      OBVIOUS
    <3>4. all[p] = list[i][j] /\ p + (Len(list[i]) - j) <= Len(all)
      <4>1. Len(list[i]) \in Nat /\ j \in Nat
        BY <1>2, <3>3
      <4>2. all[p] = flat[p] /\ p \in Nat
        <5>1. p \in 1 .. Len(flat)
          BY <1>6, <2>1
        <5>2. p \in Nat
          OBVIOUS
        <5>3. all[p] = flat[p]
          BY <1>6, <5>1
        <5> QED BY <5>2, <5>3
      <4>3. Len(flat) <= Len(all) /\ Len(flat) \in Nat /\ Len(all) \in Nat
        BY <1>1
      <4>4. p + (Len(list[i]) - j) <= Len(flat)
        BY <3>2
      <4>5. p + (Len(list[i]) - j) <= Len(all)
        <5>1. \A a, b, c, d, e \in Nat : a + (b - c) <= d /\ d <= e => a + (b - c) <= e
          OBVIOUS
        <5> QED BY <4>1, <4>2, <4>3, <4>4, <5>1
      <4>6. all[p] = list[i][j]
        BY <3>2, <4>2
      <4> QED BY <4>5, <4>6
    <3> QED BY <3>3, <3>4
  <2>2. CASE p > Len(flat)
    <3>1. p - Len(flat) \in 1 .. Len(row) /\ p = Len(flat) + (p - Len(flat))
      BY <1>1, <2>2
    <3>2. all[p] = row[p - Len(flat)]
      BY <1>1, <3>1
    <3>5. p + (Len(row) - (p - Len(flat))) <= Len(all)
      BY <1>1, <2>2
    <3>3. m + 1 \in 1 .. m + 1
      OBVIOUS
    <3>4. \E j \in 1 .. Len(row) : all[p] = row[j] /\ p + (Len(row) - j) <= Len(all)
      BY <3>1, <3>2, <3>5
    <3> QED BY <1>2, <3>3, <3>4
  <2> QED BY <1>1, <2>1, <2>2
<1>4. ASSUME NEW i \in 1 .. m + 1, NEW j \in 1 .. Len(list[i])
      PROVE  \E p \in 1 .. Len(all) : all[p] = list[i][j]
  <2>1. CASE i <= m
    <3>1. PICK p \in 1 .. Len(flat) : flat[p] = list[i][j]
      <4>1. i \in 1 .. m
        BY <2>1
      <4> QED BY <4>1 DEF EndToEnd
    <3> QED BY <1>1, <3>1
  <2>2. CASE i = m + 1
    <3>1. Len(flat) + j \in 1 .. Len(all) /\ all[Len(flat) + j] = list[i][j]
      <4>1. j \in 1 .. Len(row) /\ row[j] = list[i][j]
        BY <1>2, <2>2
      <4>2. all[Len(flat) + j] = row[j]
        BY <1>7, <4>1
      <4>3. Len(flat) + j \in 1 .. Len(all)
        BY <1>6, <4>1
      <4> QED BY <4>1, <4>2, <4>3
    <3> QED BY <3>1
  <2> QED BY <2>1, <2>2
<1>5. EndToEnd(all, list, m + 1)
  BY <1>3, <1>4 DEF EndToEnd
<1> QED BY <1>1, <1>5 DEF all, row

\* FlattenSeq computes it for all of them.
LEMMA FlattensAll ==
  ASSUME NEW list
  PROVE  FlattenSeq(list) = IF Len(list) = 0 THEN list
                            ELSE (CHOOSE f : Partial(f, list, Len(list)))[Len(list)]
BY Zenon DEF FlattenSeq, Partial

LEMMA Flattened ==
  ASSUME NEW X, NEW list \in Seq(Seq(X))
  PROVE  /\ FlattenSeq(list) \in Seq(X)
         /\ EndToEnd(FlattenSeq(list), list, Len(list))
<1>1. CASE Len(list) = 0
  <2>1. list = <<>>
    BY <1>1
  <2>2. FlattenSeq(list) = <<>>
    <3>1. FlattenSeq(list) = list
      BY <1>1, FlattensAll
    <3> QED BY <2>1, <3>1
  <2>3. EndToEnd(FlattenSeq(list), list, Len(list))
    BY <1>1, <2>2 DEF EndToEnd
  <2>4. FlattenSeq(list) \in Seq(X)
    BY <2>2
  <2> QED BY <2>3, <2>4
<1>2. CASE Len(list) # 0
  <2> DEFINE n == Len(list)
             F == CHOOSE f : Partial(f, list, n)
  <2>1. n \in 1 .. Len(list) /\ n \in Nat
    BY <1>2
  <2>2. Partial(F, list, n)
    BY <2>1, PartialExists
  <2>3. FlattenSeq(list) = F[n]
    BY <1>2, FlattensAll
  <2> HIDE DEF F
  <2> DEFINE Wrong == {m \in 1 .. n : ~ (F[m] \in Seq(X) /\ EndToEnd(F[m], list, m))}
  <2>4. Wrong = {}
    <3> SUFFICES ASSUME Wrong # {}
                 PROVE  FALSE
      OBVIOUS
    <3>1. Wrong \in SUBSET Nat
      BY <2>1
    <3>2. PICK m \in Wrong : \A j \in Wrong : m <= j
      BY <3>1, LeastNatural
    <3>3. m \in 1 .. n /\ ~ (F[m] \in Seq(X) /\ EndToEnd(F[m], list, m))
      BY <3>2
    <3>4. F[m] = IF m = 1 THEN list[m] ELSE F[m - 1] \o list[m]
      BY <2>2, <3>3 DEF Partial
    <3>5. list[m] \in Seq(X) /\ list[m] = <<>> \o list[m]
      BY <3>3
    <3>6. CASE m = 1
      <4>1. <<>> \in Seq(X) /\ EndToEnd(<<>>, list, 0)
        BY DEF EndToEnd
      <4>2. 0 \in Nat /\ 0 + 1 \in 1 .. Len(list) /\ 0 + 1 = m
        BY <2>1, <3>6
      <4>3. /\ <<>> \o list[0 + 1] \in Seq(X)
            /\ EndToEnd(<<>> \o list[0 + 1], list, 0 + 1)
        BY <4>1, <4>2, OneMore
      <4> QED BY <3>3, <3>4, <3>5, <3>6, <4>2, <4>3
    <3>7. CASE m # 1
      <4>1. m - 1 \in 1 .. n /\ m - 1 < m /\ m - 1 \in Nat /\ (m - 1) + 1 = m
        BY <2>1, <3>3, <3>7
      <4>2. m - 1 \notin Wrong
        BY <3>1, <3>2, <4>1
      <4>3. F[m - 1] \in Seq(X) /\ EndToEnd(F[m - 1], list, m - 1)
        BY <4>1, <4>2
      <4>4. /\ F[m - 1] \o list[(m - 1) + 1] \in Seq(X)
            /\ EndToEnd(F[m - 1] \o list[(m - 1) + 1], list, (m - 1) + 1)
        BY <3>3, <4>1, <4>3, OneMore
      <4> QED BY <3>3, <3>4, <3>7, <4>1, <4>4
    <3> QED BY <3>6, <3>7
  <2> QED BY <2>1, <2>3, <2>4
<1> QED BY <1>1, <1>2

-----------------------------------------------------------------------------
(* Slots.                                                                  *)

\* The slots of items with so many rows: all of them, those of an item in order.
SlotList(slots, sizes) ==
  /\ slots \in Seq(Nat \X Nat)
  /\ \A p \in 1 .. Len(slots) :
       \E i \in 1 .. Len(sizes) : \E j \in 1 .. sizes[i] :
         slots[p] = <<i, j>> /\ p + (sizes[i] - j) <= Len(slots)
  /\ \A i \in 1 .. Len(sizes) : \A j \in 1 .. sizes[i] : \E p \in 1 .. Len(slots) : slots[p] = <<i, j>>

SlotRows(sizes) == [i \in 1 .. Len(sizes) |-> [j \in 1 .. sizes[i] |-> <<i, j>>]]

LEMMA SlotsListed ==
  ASSUME NEW sizes \in Seq(Nat)
  PROVE  SlotList(FlattenSeq(SlotRows(sizes)), sizes)
<1> DEFINE list == SlotRows(sizes)
           flat == FlattenSeq(list)
<1>1. \A i \in 1 .. Len(sizes) :
        /\ sizes[i] \in Nat
        /\ list[i] = [j \in 1 .. sizes[i] |-> <<i, j>>]
        /\ list[i] \in Seq(Nat \X Nat)
        /\ Len(list[i]) = sizes[i]
        /\ \A j \in 1 .. sizes[i] : list[i][j] = <<i, j>>
  <2> SUFFICES ASSUME NEW i \in 1 .. Len(sizes)
               PROVE  /\ sizes[i] \in Nat
                      /\ list[i] = [j \in 1 .. sizes[i] |-> <<i, j>>]
                      /\ list[i] \in Seq(Nat \X Nat)
                      /\ Len(list[i]) = sizes[i]
                      /\ \A j \in 1 .. sizes[i] : list[i][j] = <<i, j>>
    OBVIOUS
  <2>1. list[i] = [j \in 1 .. sizes[i] |-> <<i, j>>]
    BY DEF SlotRows
  <2>2. sizes[i] \in Nat /\ i \in Nat
    OBVIOUS
  <2> HIDE DEF list
  <2>3. list[i] \in Seq(Nat \X Nat)
    <3> DEFINE row == [j \in 1 .. sizes[i] |-> <<i, j>>]
    <3>1. \A j \in 1 .. sizes[i] : <<i, j>> \in Nat \X Nat
      BY <2>2
    <3>2. \A j \in 1 .. sizes[i] : row[j] \in Nat \X Nat
      BY <3>1
    <3>3. DOMAIN row = 1 .. sizes[i] /\ row = [j \in 1 .. sizes[i] |-> row[j]]
      OBVIOUS
    <3> HIDE DEF row
    <3>4. row \in [1 .. sizes[i] -> Nat \X Nat]
      BY <3>2, <3>3
    <3>5. row \in Seq(Nat \X Nat)
      BY <2>2, <3>4
    <3> QED BY <2>1, <3>5 DEF row
  <2>4. DOMAIN list[i] = 1 .. sizes[i]
    BY <2>1
  <2> QED BY <2>1, <2>2, <2>3, <2>4
<1>2. list \in Seq(Seq(Nat \X Nat)) /\ Len(list) = Len(sizes)
  BY <1>1 DEF SlotRows
<1> HIDE DEF list
<1>3. flat \in Seq(Nat \X Nat) /\ EndToEnd(flat, list, Len(list))
  BY <1>2, Flattened
<1> HIDE DEF flat
<1>4. ASSUME NEW p \in 1 .. Len(flat)
      PROVE  \E i \in 1 .. Len(sizes) : \E j \in 1 .. sizes[i] :
               flat[p] = <<i, j>> /\ p + (sizes[i] - j) <= Len(flat)
  <2>1. PICK i \in 1 .. Len(list) : \E j \in 1 .. Len(list[i]) :
          flat[p] = list[i][j] /\ p + (Len(list[i]) - j) <= Len(flat)
    BY <1>3 DEF EndToEnd
  <2>2. i \in 1 .. Len(sizes) /\ Len(list[i]) = sizes[i]
    BY <1>1, <1>2
  <2>3. PICK j \in 1 .. sizes[i] : flat[p] = list[i][j] /\ p + (sizes[i] - j) <= Len(flat)
    BY <2>1, <2>2
  <2>4. list[i][j] = <<i, j>>
    BY <1>1, <2>2
  <2> QED BY <2>2, <2>3, <2>4
<1>5. ASSUME NEW i \in 1 .. Len(sizes), NEW j \in 1 .. sizes[i]
      PROVE  \E p \in 1 .. Len(flat) : flat[p] = <<i, j>>
  <2>1. i \in 1 .. Len(list) /\ j \in 1 .. Len(list[i]) /\ list[i][j] = <<i, j>>
    BY <1>1, <1>2
  <2>2. \E p \in 1 .. Len(flat) : flat[p] = list[i][j]
    BY <1>3, <2>1 DEF EndToEnd
  <2> QED BY <2>1, <2>2
<1>6. SlotList(flat, sizes)
  BY <1>3, <1>4, <1>5 DEF SlotList
<1> QED BY <1>6 DEF flat, list

Sizes(items) == [i \in 1 .. Len(items) |-> Len(items[i].documents)]

PlanSizes(items) == [i \in 1 .. Len(items) |-> Len(items[i].locators)]

LEMMA DocumentsListed ==
  ASSUME NEW items \in Seq(AnswerItem)
  PROVE  Sizes(items) \in Seq(Nat) /\ SlotList(DocumentsOf(items), Sizes(items))
<1>1. \A i \in 1 .. Len(items) :
        /\ items[i].documents \in Seq(Choice)
        /\ DOMAIN items[i].documents = 1 .. Len(items[i].documents)
        /\ Len(items[i].documents) \in Nat
  <2>1. \A item \in AnswerItem : item.documents \in Seq(Choice)
    BY DEF AnswerItem
  <2> QED BY <2>1
<1>2. Sizes(items) \in Seq(Nat)
  BY <1>1 DEF Sizes
<1>3. SlotRows(Sizes(items)) =
        [i \in DOMAIN items |-> [j \in DOMAIN items[i].documents |-> <<i, j>>]]
  BY <1>1 DEF SlotRows, Sizes
<1>4. DocumentsOf(items) = FlattenSeq(SlotRows(Sizes(items)))
  BY <1>3 DEF DocumentsOf, Slots
<1> QED BY <1>2, <1>4, SlotsListed

LEMMA LocatorsListed ==
  ASSUME NEW items \in Seq(PlanItem)
  PROVE  PlanSizes(items) \in Seq(Nat) /\ SlotList(LocatorsOf(items), PlanSizes(items))
<1>1. \A i \in 1 .. Len(items) :
        /\ items[i].locators \in Seq(Files \cup References \cup BoundUrls)
        /\ DOMAIN items[i].locators = 1 .. Len(items[i].locators)
        /\ Len(items[i].locators) \in Nat
  <2>1. \A item \in PlanItem : item.locators \in Seq(Files \cup References \cup BoundUrls)
    BY DEF PlanItem
  <2> QED BY <2>1
<1>2. PlanSizes(items) \in Seq(Nat)
  BY <1>1 DEF PlanSizes
<1>3. SlotRows(PlanSizes(items)) =
        [i \in DOMAIN items |-> [j \in DOMAIN items[i].locators |-> <<i, j>>]]
  BY <1>1 DEF SlotRows, PlanSizes
<1>4. LocatorsOf(items) = FlattenSeq(SlotRows(PlanSizes(items)))
  BY <1>3 DEF LocatorsOf, Slots
<1> QED BY <1>2, <1>4, SlotsListed

\* A slot of an answer is a document, and the documents after it in its item have slots after it.
LEMMA DocumentSlots ==
  ASSUME NEW items \in Seq(AnswerItem)
  PROVE  /\ DocumentsOf(items) \in Seq(Nat \X Nat)
         /\ \A p \in 1 .. Len(DocumentsOf(items)) :
              LET slot == DocumentsOf(items)[p]
                  documents == items[slot[1]].documents
              IN  /\ slot[1] \in 1 .. Len(items)
                  /\ documents \in Seq(Choice)
                  /\ slot[2] \in 1 .. Len(documents)
                  /\ p + (Len(documents) - slot[2]) <= Len(DocumentsOf(items))
         /\ \A i \in 1 .. Len(items) : \A j \in 1 .. Len(items[i].documents) :
              \E p \in 1 .. Len(DocumentsOf(items)) : DocumentsOf(items)[p] = <<i, j>>
<1> DEFINE slots == DocumentsOf(items)
           sizes == Sizes(items)
<1>1. sizes \in Seq(Nat) /\ SlotList(slots, sizes)
  BY DocumentsListed
<1>2. /\ Len(sizes) = Len(items)
      /\ \A i \in 1 .. Len(items) : sizes[i] = Len(items[i].documents)
                                    /\ items[i].documents \in Seq(Choice)
  <2>1. \A item \in AnswerItem : item.documents \in Seq(Choice)
    BY DEF AnswerItem
  <2> QED BY <2>1 DEF Sizes
<1> HIDE DEF slots, sizes
<1>3. ASSUME NEW p \in 1 .. Len(slots)
      PROVE  LET slot == slots[p]
                 documents == items[slot[1]].documents
             IN  /\ slot[1] \in 1 .. Len(items)
                 /\ documents \in Seq(Choice)
                 /\ slot[2] \in 1 .. Len(documents)
                 /\ p + (Len(documents) - slot[2]) <= Len(slots)
  <2>1. PICK i \in 1 .. Len(sizes) : \E j \in 1 .. sizes[i] :
          slots[p] = <<i, j>> /\ p + (sizes[i] - j) <= Len(slots)
    BY <1>1 DEF SlotList
  <2>2. PICK j \in 1 .. sizes[i] : slots[p] = <<i, j>> /\ p + (sizes[i] - j) <= Len(slots)
    BY <2>1
  <2>3. slots[p][1] = i /\ slots[p][2] = j
    BY <2>2
  <2>4. sizes[i] = Len(items[i].documents) /\ items[i].documents \in Seq(Choice) /\ i \in 1 .. Len(items)
    BY <1>2
  <2> QED BY <2>2, <2>3, <2>4
<1>4. ASSUME NEW i \in 1 .. Len(items), NEW j \in 1 .. Len(items[i].documents)
      PROVE  \E p \in 1 .. Len(slots) : slots[p] = <<i, j>>
  BY <1>1, <1>2 DEF SlotList
<1>5. slots \in Seq(Nat \X Nat)
  BY <1>1 DEF SlotList
<1> QED BY <1>3, <1>4, <1>5 DEF slots

LEMMA LocatorSlots ==
  ASSUME NEW items \in Seq(PlanItem)
  PROVE  /\ LocatorsOf(items) \in Seq(Nat \X Nat)
         /\ \A p \in 1 .. Len(LocatorsOf(items)) :
              LET slot == LocatorsOf(items)[p]
                  locators == items[slot[1]].locators
              IN  /\ slot[1] \in 1 .. Len(items)
                  /\ locators \in Seq(Files \cup References \cup BoundUrls)
                  /\ slot[2] \in 1 .. Len(locators)
         /\ \A i \in 1 .. Len(items) : \A j \in 1 .. Len(items[i].locators) :
              \E p \in 1 .. Len(LocatorsOf(items)) : LocatorsOf(items)[p] = <<i, j>>
<1> DEFINE slots == LocatorsOf(items)
           sizes == PlanSizes(items)
<1>1. sizes \in Seq(Nat) /\ SlotList(slots, sizes)
  BY LocatorsListed
<1>2. /\ Len(sizes) = Len(items)
      /\ \A i \in 1 .. Len(items) : sizes[i] = Len(items[i].locators)
                                    /\ items[i].locators \in Seq(Files \cup References \cup BoundUrls)
  <2>1. \A item \in PlanItem : item.locators \in Seq(Files \cup References \cup BoundUrls)
    BY DEF PlanItem
  <2> QED BY <2>1 DEF PlanSizes
<1> HIDE DEF slots, sizes
<1>3. ASSUME NEW p \in 1 .. Len(slots)
      PROVE  LET slot == slots[p]
                 locators == items[slot[1]].locators
             IN  /\ slot[1] \in 1 .. Len(items)
                 /\ locators \in Seq(Files \cup References \cup BoundUrls)
                 /\ slot[2] \in 1 .. Len(locators)
  <2>1. PICK i \in 1 .. Len(sizes) : \E j \in 1 .. sizes[i] :
          slots[p] = <<i, j>> /\ p + (sizes[i] - j) <= Len(slots)
    BY <1>1 DEF SlotList
  <2>2. PICK j \in 1 .. sizes[i] : slots[p] = <<i, j>>
    BY <2>1
  <2>3. slots[p][1] = i /\ slots[p][2] = j
    BY <2>2
  <2>4. /\ sizes[i] = Len(items[i].locators) /\ i \in 1 .. Len(items)
        /\ items[i].locators \in Seq(Files \cup References \cup BoundUrls)
    BY <1>2
  <2> QED BY <2>2, <2>3, <2>4
<1>4. ASSUME NEW i \in 1 .. Len(items), NEW j \in 1 .. Len(items[i].locators)
      PROVE  \E p \in 1 .. Len(slots) : slots[p] = <<i, j>>
  BY <1>1, <1>2 DEF SlotList
<1>5. slots \in Seq(Nat \X Nat)
  BY <1>1 DEF SlotList
<1> QED BY <1>3, <1>4, <1>5 DEF slots

\* The URLs of a document or a locator.
Locatable == Files \cup References \cup BoundUrls

LEMMA UrlsTyped ==
  ASSUME NEW thing \in Choice \cup Locatable
  PROVE  UrlsOf(thing) \in Seq(Urls)
<1>1. CASE thing \in Choice
  BY <1>1 DEF Choice, UrlsOf
<1>2. CASE thing \in Files
  BY <1>2 DEF Files, UrlsOf
<1>3. CASE thing \in References
  BY <1>3 DEF References, UrlsOf
<1>4. CASE thing \in BoundUrls
  <2>1. thing.kind = "url" /\ thing.url \in Urls /\ thing.basis \in Bases
    BY <1>4 DEF BoundUrls
  <2>2. CASE thing.basis.kind = "copies"
    <3>1. thing.basis.copies \in Seq([url : Urls, digest : Digests])
      BY <2>1, <2>2 DEF Bases
    <3> DEFINE urls == [k \in DOMAIN thing.basis.copies |-> thing.basis.copies[k].url]
    <3>2. urls \in Seq(Urls)
      <4>1. \A k \in 1 .. Len(thing.basis.copies) : thing.basis.copies[k].url \in Urls
        <5>1. \A k \in 1 .. Len(thing.basis.copies) :
                thing.basis.copies[k] \in [url : Urls, digest : Digests]
          BY <3>1, ElementOfSeq
        <5>2. \A copy \in [url : Urls, digest : Digests] : copy.url \in Urls
          OBVIOUS
        <5> QED BY <5>1, <5>2
      <4>2. DOMAIN thing.basis.copies = 1 .. Len(thing.basis.copies) /\ Len(thing.basis.copies) \in Nat
        BY <3>1
      <4> QED BY <4>1, <4>2
    <3> HIDE DEF urls
    <3>3. <<thing.url>> \o urls \in Seq(Urls)
      BY <2>1, <3>2
    <3> QED BY <2>1, <2>2, <3>3 DEF UrlsOf, urls
  <2>3. CASE thing.basis.kind # "copies"
    BY <2>1, <2>3 DEF UrlsOf
  <2> QED BY <2>2, <2>3
<1> QED BY <1>1, <1>2, <1>3, <1>4 DEF Locatable

-----------------------------------------------------------------------------
(* The plan.                                                               *)

\* What is left of a sequence when some of its members are dropped.
LEMMA Sifted ==
  ASSUME NEW X, NEW list \in Seq(X), NEW rows,
         DOMAIN rows = DOMAIN list, rows = [k \in DOMAIN rows |-> rows[k]],
         \A k \in DOMAIN list : rows[k] \in {<<>>, <<list[k]>>}
  PROVE  FlattenSeq(rows) \in Seq(X)
<1>1. DOMAIN list = 1 .. Len(list) /\ Len(list) \in Nat
  OBVIOUS
<1>2. \A k \in 1 .. Len(list) : rows[k] \in Seq(X)
  <2> SUFFICES ASSUME NEW k \in 1 .. Len(list)
               PROVE  rows[k] \in Seq(X)
    OBVIOUS
  <2>1. list[k] \in X
    BY ElementOfSeq
  <2>2. rows[k] = <<>> \/ rows[k] = <<list[k]>>
    BY <1>1
  <2>3. <<>> \in Seq(X) /\ <<list[k]>> \in Seq(X)
    BY <2>1
  <2> QED BY <2>2, <2>3
<1>3. rows \in [1 .. Len(list) -> Seq(X)]
  BY <1>1, <1>2
<1>4. rows \in Seq(Seq(X))
  BY <1>1, <1>3
<1> QED BY <1>4, Flattened

\* The files of the entry, in some order.
LEMMA EntryFilesListed ==
  /\ SetToSeq(EntryFiles) \in Seq(Paths)
  /\ Len(SetToSeq(EntryFiles)) > 0
<1> DEFINE n == Cardinality(EntryFiles)
           files == SetToSeq(EntryFiles)
<1>1. IsFiniteSet(EntryFiles) /\ EntryFiles # {} /\ EntryFiles \subseteq Paths
  BY ClosureAssumption DEF Repos
<1>2. n \in Nat /\ n # 0
  BY <1>1, FS_CardinalityType, FS_EmptySet
<1>3. \E f \in [1 .. n -> EntryFiles] : IsInjective(f)
  <2>1. ExistsBijection(1 .. n, EntryFiles)
    BY <1>1, FS_CardinalityType
  <2>2. PICK f \in Bijection(1 .. n, EntryFiles) : TRUE
    BY <2>1 DEF ExistsBijection
  <2>3. f \in [1 .. n -> EntryFiles] /\ \A a, b \in 1 .. n : f[a] = f[b] => a = b
    BY <2>2 DEF Bijection, Injection, IsInjective
  <2>4. IsInjective(f)
    BY <2>3 DEF IsInjective
  <2> QED BY <2>3, <2>4
<1>4. files \in [1 .. n -> EntryFiles]
  BY <1>3 DEF SetToSeq
<1> HIDE DEF files, n
<1>5. files \in [1 .. n -> Paths]
  BY <1>1, <1>4
<1>6. files \in Seq(Paths) /\ Len(files) = n
  BY <1>2, <1>5
<1> QED BY <1>2, <1>6 DEF files

\* Plans whose URLs are of a set S.
LocatableOf(S) == Files \cup References \cup S

PlanItemOf(S) == [facet : Facets, gap : Gaps, locators : Seq(Files \cup References \cup S)]

LEMMA NarrowerPlans ==
  ASSUME NEW S \in SUBSET BoundUrls
  PROVE  Seq(PlanItemOf(S)) \subseteq Seq(PlanItem)
<1>1. \A A, B : A \subseteq B => Seq(A) \subseteq Seq(B)
  OBVIOUS
<1>2. Seq(Files \cup References \cup S) \subseteq Seq(Files \cup References \cup BoundUrls)
  <2>1. Files \cup References \cup S \subseteq Files \cup References \cup BoundUrls
    OBVIOUS
  <2> QED BY <1>1, <2>1
<1>3. PlanItemOf(S) \subseteq PlanItem
  <2> HIDE <1>1
  <2> QED BY <1>2 DEF PlanItem, PlanItemOf
<1> QED BY <1>1, <1>3

LEMMA ExpandTyped ==
  ASSUME NEW S \in SUBSET BoundUrls, NEW items \in Seq(PlanItemOf(S)), items # <<>>,
         \A i \in 1 .. Len(items) : items[i].locators # <<>>
  PROVE  /\ Expand(items) \in Seq(PlanItemOf(S))
         /\ Len(LocatorsOf(Expand(items))) > 0
<1> DEFINE files == SetToSeq(EntryFiles)
           kept(locators) == Without(LAMBDA locator : locator = EntryLocator, locators)
           paths == [k \in DOMAIN files |-> [EntryLocator EXCEPT !.path = files[k]]]
           expanded == Expand(items)
<1>1. files \in Seq(Paths) /\ Len(files) > 0
  BY EntryFilesListed
<1>2. paths \in Seq(LocatableOf(S)) /\ Len(paths) > 0
  <2> HIDE DEF files
  <2>1. \A k \in 1 .. Len(files) : paths[k] \in LocatableOf(S)
    <3> SUFFICES ASSUME NEW k \in 1 .. Len(files)
                 PROVE  paths[k] \in LocatableOf(S)
      OBVIOUS
    <3>1. files[k] \in Paths
      BY <1>1, ElementOfSeq
    <3>2. k \in DOMAIN files
      BY <1>1
    <3>3. paths[k] = [kind |-> "git", repo |-> "source", path |-> files[k]]
      BY <3>2 DEF EntryLocator
    <3> QED BY <3>1, <3>3 DEF LocatableOf, Files, Repos
  <2>2. DOMAIN paths = 1 .. Len(files) /\ Len(files) \in Nat
    BY <1>1
  <2>3. paths \in [1 .. Len(files) -> LocatableOf(S)]
    BY <2>1, <2>2
  <2> HIDE DEF paths
  <2> QED BY <1>1, <2>2, <2>3
<1> HIDE DEF files
<1>3. \A item \in PlanItemOf(S) : item.locators \in Seq(LocatableOf(S))
  BY DEF PlanItemOf, LocatableOf
<1>4. ASSUME NEW locators \in Seq(LocatableOf(S))
      PROVE  kept(locators) \in Seq(LocatableOf(S))
  <2> DEFINE rows == [k \in DOMAIN locators |-> IF locators[k] = EntryLocator THEN <<>> ELSE <<locators[k]>>]
  <2>1. /\ DOMAIN rows = DOMAIN locators /\ rows = [k \in DOMAIN rows |-> rows[k]]
        /\ \A k \in DOMAIN locators : rows[k] \in {<<>>, <<locators[k]>>}
    OBVIOUS
  <2>2. kept(locators) = FlattenSeq(rows)
    BY DEF Without
  <2> HIDE DEF rows, kept
  <2> QED BY <2>1, <2>2, Sifted
<1>5. /\ DOMAIN expanded = 1 .. Len(items)
      /\ \A i \in 1 .. Len(items) :
           expanded[i] \in {items[i], [items[i] EXCEPT !.locators = kept(items[i].locators) \o paths]}
  <2>1. expanded = [i \in DOMAIN items |->
          IF items[i].facet = DriverEntry /\ Contains(items[i].locators, EntryLocator)
          THEN [items[i] EXCEPT !.locators = kept(items[i].locators) \o paths]
          ELSE items[i]]
    BY DEF Expand, files
  <2> HIDE DEF kept, paths, expanded
  <2> QED BY <2>1
<1>9. expanded = [i \in 1 .. Len(items) |-> expanded[i]]
  BY DEF Expand
<1> HIDE DEF kept, paths, expanded
<1>6. \A i \in 1 .. Len(items) : expanded[i] \in PlanItemOf(S) /\ Len(expanded[i].locators) > 0
  <2> SUFFICES ASSUME NEW i \in 1 .. Len(items)
               PROVE  expanded[i] \in PlanItemOf(S) /\ Len(expanded[i].locators) > 0
    OBVIOUS
  <2>1. items[i] \in PlanItemOf(S)
    BY ElementOfSeq
  <2>2. items[i].locators \in Seq(LocatableOf(S)) /\ items[i].locators # <<>>
    BY <1>3, <2>1
  <2>3. CASE expanded[i] = items[i]
    BY <2>1, <2>2, <2>3
  <2>4. CASE expanded[i] = [items[i] EXCEPT !.locators = kept(items[i].locators) \o paths]
    <3> DEFINE all == kept(items[i].locators) \o paths
    <3>1. kept(items[i].locators) \in Seq(LocatableOf(S))
      BY <1>4, <2>2
    <3>2. all \in Seq(LocatableOf(S)) /\ Len(all) > 0
      BY <1>2, <3>1
    <3> HIDE DEF all
    <3>3. expanded[i] = [items[i] EXCEPT !.locators = all]
      BY <2>4 DEF all
    <3> QED BY <2>1, <3>2, <3>3 DEF PlanItemOf, LocatableOf
  <2> QED BY <1>5, <2>3, <2>4
<1>7. expanded \in Seq(PlanItemOf(S)) /\ Len(expanded) = Len(items)
  <2>1. expanded \in [1 .. Len(items) -> PlanItemOf(S)]
    BY <1>6, <1>9
  <2> QED BY <2>1
<1>8. Len(LocatorsOf(expanded)) > 0
  <2>6. expanded \in Seq(PlanItem)
    BY <1>7, NarrowerPlans
  <2>1. Len(items) \in Nat /\ Len(items) > 0
    OBVIOUS
  <2>2. Len(expanded[1].locators) > 0 /\ expanded[1].locators \in Seq(LocatableOf(S))
    <3>1. 1 \in 1 .. Len(items)
      BY <2>1
    <3> QED BY <1>3, <1>6, <3>1
  <2>3. 1 \in 1 .. Len(expanded) /\ 1 \in 1 .. Len(expanded[1].locators)
    BY <1>7, <2>1, <2>2
  <2>4. \E p \in 1 .. Len(LocatorsOf(expanded)) : LocatorsOf(expanded)[p] = <<1, 1>>
    BY <2>3, <2>6, LocatorSlots
  <2>5. LocatorsOf(expanded) \in Seq(Nat \X Nat)
    BY <2>6, LocatorSlots
  <2> QED BY <2>4, <2>5
<1> QED BY <1>7, <1>8 DEF expanded

LEMMA DocumentTyped ==
  ASSUME NEW items \in Seq(AnswerItem), NEW p \in 1 .. Len(DocumentsOf(items))
  PROVE  DocumentAt(items, p) \in Choice /\ UrlsOf(DocumentAt(items, p)) \in Seq(Urls)
<1>1. DocumentAt(items, p) \in Choice
  <2>1. LET slot == DocumentsOf(items)[p]
            documents == items[slot[1]].documents
        IN  documents \in Seq(Choice) /\ slot[2] \in 1 .. Len(documents)
    BY DocumentSlots
  <2> QED BY <2>1, ElementOfSeq DEF DocumentAt
<1> QED BY <1>1, UrlsTyped

LEMMA LocatorTyped ==
  ASSUME NEW items \in Seq(PlanItem), NEW p \in 1 .. Len(LocatorsOf(items))
  PROVE  LocatorIn(items, p) \in Locatable /\ UrlsOf(LocatorIn(items, p)) \in Seq(Urls)
<1>1. LocatorIn(items, p) \in Locatable
  <2>1. LET slot == LocatorsOf(items)[p]
            locators == items[slot[1]].locators
        IN  locators \in Seq(Locatable) /\ slot[2] \in 1 .. Len(locators)
    BY LocatorSlots DEF Locatable
  <2> QED BY <2>1, ElementOfSeq DEF LocatorIn
<1> QED BY <1>1, UrlsTyped

\* What is answered is typed.
LEMMA AnswersTyped ==
  ASSUME NEW a \in Answers
  PROVE  a.form \in {"full", "choices", "prose"} /\ a.stale \in BOOLEAN /\ a.items \in Seq(AnswerItem)
<1>1. a \in Submission
  BY AnswerAssumption
<1> QED BY <1>1 DEF Submission

\* A whole answer whose documents are all bound is a typed plan with something to retrieve.
LEMMA NormalizedTyped ==
  ASSUME NEW S \in SUBSET BoundUrls,
         \A i \in 1 .. Len(answer.items) : answer.items[i].urls \in Seq(S),
         answer \in Answers, bound \in Seq(S), Len(bound) = Len(Documents),
         NEW i \in 1 .. Len(answer.items)
  PROVE  Normalized(i) \in PlanItemOf(S)
<1> DEFINE item == answer.items[i]
           urls == [j \in DOMAIN item.documents |-> BoundAt(<<i, j>>)]
<1>1. answer.items \in Seq(AnswerItem)
  BY AnswersTyped
<1>2. item \in AnswerItem
  BY <1>1, ElementOfSeq
<1> HIDE DEF item
<1>3. /\ item.facet \in Facets /\ item.gap \in Gaps /\ item.paths \in Seq(Files)
      /\ item.documents \in Seq(Choice) /\ item.references \in Seq(References)
  BY <1>2 DEF AnswerItem
<1>11. item.urls \in Seq(S)
  BY DEF item
<1>4. Documents = DocumentsOf(answer.items)
  BY DEF Documents
<1>5. DocumentsOf(answer.items) \in Seq(Nat \X Nat)
  BY <1>1, DocumentSlots
<1>6. \A j \in 1 .. Len(item.documents) : BoundAt(<<i, j>>) \in S
  <2> SUFFICES ASSUME NEW j \in 1 .. Len(item.documents)
               PROVE  BoundAt(<<i, j>>) \in S
    OBVIOUS
  <2>1. \E p \in 1 .. Len(DocumentsOf(answer.items)) : DocumentsOf(answer.items)[p] = <<i, j>>
    BY <1>1, DocumentSlots DEF item
  <2>2. DOMAIN Documents = 1 .. Len(Documents)
    BY <1>4, <1>5
  <2>3. \E k \in DOMAIN Documents : Documents[k] = <<i, j>>
    BY <1>4, <2>1, <2>2
  <2>4. (CHOOSE k \in DOMAIN Documents : Documents[k] = <<i, j>>) \in 1 .. Len(bound)
    BY <2>2, <2>3
  <2> QED BY <2>4, ElementOfSeq DEF BoundAt
<1>7. urls \in Seq(S)
  <2>1. DOMAIN item.documents = 1 .. Len(item.documents) /\ Len(item.documents) \in Nat
    BY <1>3
  <2>2. urls \in [1 .. Len(item.documents) -> S]
    BY <1>6, <2>1
  <2> HIDE DEF urls
  <2>3. \A X : \A n \in Nat : [1 .. n -> X] \subseteq Seq(X)
    OBVIOUS
  <2> QED BY <2>1, <2>2, <2>3
<1> HIDE DEF urls
<1> DEFINE all == item.paths \o urls \o item.urls \o item.references
<1>8. all \in Seq(LocatableOf(S))
  <2>1. \A A, B : A \subseteq B => Seq(A) \subseteq Seq(B)
    OBVIOUS
  <2>2. item.paths \in Seq(LocatableOf(S))
    BY <1>3, <2>1 DEF LocatableOf
  <2>3. urls \in Seq(LocatableOf(S)) /\ item.urls \in Seq(LocatableOf(S))
    BY <1>7, <1>11, <2>1 DEF LocatableOf
  <2>4. item.references \in Seq(LocatableOf(S))
    BY <1>3, <2>1 DEF LocatableOf
  <2> QED BY <2>2, <2>3, <2>4
<1>9. Normalized(i) = [facet |-> item.facet, gap |-> item.gap, locators |-> all]
  BY DEF Normalized, item, urls
<1> HIDE DEF all
<1> QED BY <1>3, <1>8, <1>9 DEF PlanItemOf, LocatableOf

LEMMA StaticTyped ==
  ASSUME NEW S
  PROVE  Static \in PlanItemOf(S)
<1>1. DriverEntry \in Facets
  BY ClosureAssumption DEF DriverEntry, Facets, Lanes
<1>2. EntryLocator \in LocatableOf(S)
  BY DEF EntryLocator, LocatableOf, Files, Repos
<1>3. <<EntryLocator>> \in Seq(LocatableOf(S))
  BY <1>2
<1>4. "none" \in Gaps
  BY DEF Gaps
<1> QED BY <1>1, <1>3, <1>4 DEF Static, PlanItemOf, LocatableOf

LEMMA ProposedTyped ==
  ASSUME NEW S \in SUBSET BoundUrls,
         \A i \in 1 .. Len(answer.items) : answer.items[i].urls \in Seq(S),
         answer \in Answers, bound \in Seq(S), Len(bound) = Len(Documents)
  PROVE  Proposed \in Seq(PlanItemOf(S))
<1> DEFINE items == [i \in DOMAIN answer.items |-> Normalized(i)]
           rows == [k \in DOMAIN items |-> IF items[k].facet = DriverEntry THEN <<>> ELSE <<items[k]>>]
           rest == FlattenSeq(rows)
<1>1. answer.items \in Seq(AnswerItem)
  BY AnswersTyped
<1>2. items \in Seq(PlanItemOf(S))
  <2>1. DOMAIN answer.items = 1 .. Len(answer.items) /\ Len(answer.items) \in Nat
    BY <1>1
  <2>2. items \in [1 .. Len(answer.items) -> PlanItemOf(S)]
    BY <2>1, NormalizedTyped
  <2> HIDE DEF items
  <2>3. \A X : \A n \in Nat : [1 .. n -> X] \subseteq Seq(X)
    OBVIOUS
  <2> QED BY <2>1, <2>2, <2>3
<1>3. Proposed = IF answer.form = "full" THEN items ELSE <<Static>> \o rest
  BY DEF Proposed, Without
<1> HIDE DEF items
<1>4. /\ DOMAIN rows = DOMAIN items /\ rows = [k \in DOMAIN rows |-> rows[k]]
      /\ \A k \in DOMAIN items : rows[k] \in {<<>>, <<items[k]>>}
  OBVIOUS
<1> HIDE DEF rows
<1>5. rest \in Seq(PlanItemOf(S))
  BY <1>2, <1>4, Sifted
<1> HIDE DEF rest
<1>6. <<Static>> \o rest \in Seq(PlanItemOf(S))
  BY <1>5, StaticTyped
<1> QED BY <1>2, <1>3, <1>6

LEMMA PlanTyped ==
  ASSUME NEW S \in SUBSET BoundUrls,
         \A i \in 1 .. Len(answer.items) : answer.items[i].urls \in Seq(S),
         answer \in Answers, bound \in Seq(S \cup {None}), Len(bound) = Len(Documents), Valid
  PROVE  /\ Expand(Proposed) \in Seq(PlanItemOf(S))
         /\ Len(LocatorsOf(Expand(Proposed))) > 0
<1>1. bound \in Seq(S)
  <2>1. \A k \in 1 .. Len(bound) : bound[k] \in S
    <3>1. \A k \in 1 .. Len(bound) : bound[k] \in S \cup {None}
      BY ElementOfSeq
    <3>2. \A k \in 1 .. Len(bound) : bound[k] # None
      BY DEF Valid, Contains
    <3> QED BY <3>1, <3>2
  <2>2. bound = [k \in 1 .. Len(bound) |-> bound[k]] /\ Len(bound) \in Nat
    OBVIOUS
  <2>3. bound \in [1 .. Len(bound) -> S]
    BY <2>1, <2>2
  <2> QED BY <2>2, <2>3
<1>2. Proposed \in Seq(PlanItemOf(S))
  BY <1>1, ProposedTyped
<1>3. /\ \A i \in DOMAIN Proposed : WellFormed(Proposed[i])
      /\ \E i \in DOMAIN Proposed : TRUE
  BY DEF Valid, Complete
<1>4. DOMAIN Proposed = 1 .. Len(Proposed)
  BY <1>2
<1>5. Proposed # <<>> /\ \A i \in 1 .. Len(Proposed) : Proposed[i].locators # <<>>
  BY <1>2, <1>3, <1>4 DEF WellFormed
<1> QED BY <1>2, <1>5, ExpandTyped

-----------------------------------------------------------------------------
(* The inductive invariant of the types.                                   *)

RowTyped ==
  /\ status \in {"READY", "RUNNING", "BLOCKED", "PASS"}
  /\ answer \in Answers \cup {None}
  /\ asked \in BOOLEAN
  /\ accepted # None <=> status = "PASS"
  /\ at # "stopped" => status \in {"READY", "RUNNING"}
  /\ accepted # None => answer \in Answers

WorldTyped ==
  /\ \A u \in Urls : web[u] \in Pages[u]
  /\ web = [u \in Urls |-> web[u]]
  /\ \A r \in Repos : touched[r] \subseteq Tracked[r]
  /\ touched = [r \in Repos |-> touched[r]]
  /\ turns \in Nat /\ faults \in Nat /\ crashes \in Nat /\ acts \in Nat

RecordsTyped ==
  /\ occurrences \in Seq(Occurrence)
  /\ base \in 0 .. Len(occurrences)
  /\ pointers \in [Urls -> 0 .. Len(occurrences)]
  /\ fresh \in 0 .. Len(occurrences)
  /\ got \in Seq(1 .. Len(occurrences))

\* There is a URL left to retrieve where a response has no pointer yet.
Room(thing, g, fr) ==
  /\ Len(g) <= Len(UrlsOf(thing))
  /\ fr # 0 => Len(g) < Len(UrlsOf(thing))

BindOK(items, bd, g, fr) ==
  /\ Len(bd) <= Len(DocumentsOf(items))
  /\ g # <<>> \/ fr # 0 =>
       /\ Len(bd) < Len(DocumentsOf(items))
       /\ Room(DocumentAt(items, Len(bd) + 1), g, fr)

CollectOK(items, tries, g, fr) ==
  /\ Len(tries) < Len(LocatorsOf(items))
  /\ Room(LocatorIn(items, Len(tries) + 1), g, fr)

MemoryTyped ==
  /\ at \in {"stopped", "worker", "bind", "verify", "collect", "finalize"}
  /\ at \in {"bind", "verify", "collect", "finalize"} => answer \in Answers
  /\ bound \in Seq(BoundUrls \cup {None}) /\ (at # "bind" => bound = <<>>)
  /\ plan \in Seq(PlanItem) /\ (at \notin {"verify", "collect", "finalize"} => plan = <<>>)
  /\ attempts \in Seq(Attempt) /\ (at \notin {"collect", "finalize"} => attempts = <<>>)
  /\ at \notin {"bind", "collect"} => got = <<>> /\ fresh = 0

\* The positions reached are within the answer and the plan.
Within ==
  /\ at = "bind" => BindOK(answer.items, bound, got, fresh)
  /\ at = "verify" => Len(LocatorsOf(plan)) > 0
  /\ at = "collect" => CollectOK(plan, attempts, got, fresh)
  /\ at = "finalize" => Len(attempts) <= Len(LocatorsOf(plan))

Typed == RowTyped /\ WorldTyped /\ RecordsTyped /\ MemoryTyped /\ Within

LEMMA DocumentsAre ==
  /\ Documents = DocumentsOf(answer.items)
  /\ Document = DocumentAt(answer.items, Len(bound) + 1)
  /\ DocumentSlot = DocumentsOf(answer.items)[Len(bound) + 1]
BY DEF Documents, Document, DocumentSlot

LEMMA LocatorsAre ==
  /\ Locators = LocatorsOf(plan)
  /\ Locator = LocatorIn(plan, Len(attempts) + 1)
  /\ LocatorSlot = LocatorsOf(plan)[Len(attempts) + 1]
BY DEF Locators, Locator, LocatorSlot

LEMMA SlotsCounted ==
  ASSUME Typed
  PROVE  /\ answer \in Answers => Len(DocumentsOf(answer.items)) \in Nat
         /\ Len(LocatorsOf(plan)) \in Nat
         /\ Len(bound) \in Nat /\ Len(attempts) \in Nat /\ Len(got) \in Nat
<1>1. ASSUME answer \in Answers
      PROVE  Len(DocumentsOf(answer.items)) \in Nat
  <2>1. DocumentsOf(answer.items) \in Seq(Nat \X Nat)
    BY <1>1, AnswersTyped, DocumentSlots
  <2> QED BY <2>1
<1>2. Len(LocatorsOf(plan)) \in Nat
  <2>1. LocatorsOf(plan) \in Seq(Nat \X Nat)
    BY LocatorSlots DEF Typed, MemoryTyped
  <2> QED BY <2>1
<1> QED BY <1>1, <1>2 DEF Typed, MemoryTyped, RecordsTyped

LEMMA DocumentHere ==
  ASSUME Typed, Binding
  PROVE  /\ answer \in Answers
         /\ Len(bound) < Len(DocumentsOf(answer.items))
         /\ Document \in Choice
         /\ UrlsOf(Document) \in Seq(Urls)
<1>1. answer \in Answers /\ Len(bound) \in Nat /\ Len(bound) < Len(DocumentsOf(answer.items))
  BY DocumentsAre, SlotsCounted DEF Typed, MemoryTyped, Binding
<1>2. Len(bound) + 1 \in 1 .. Len(DocumentsOf(answer.items))
  BY <1>1, SlotsCounted
<1>3. DocumentAt(answer.items, Len(bound) + 1) \in Choice
      /\ UrlsOf(DocumentAt(answer.items, Len(bound) + 1)) \in Seq(Urls)
  BY <1>1, <1>2, AnswersTyped, DocumentTyped
<1> QED BY <1>1, <1>3, DocumentsAre

LEMMA LocatorHere ==
  ASSUME Typed, Collecting
  PROVE  /\ Len(attempts) < Len(LocatorsOf(plan))
         /\ Locator \in Locatable
         /\ UrlsOf(Locator) \in Seq(Urls)
         /\ Len(got) <= Len(UrlsOf(Locator))
<1>1. CollectOK(plan, attempts, got, fresh) /\ plan \in Seq(PlanItem)
  BY DEF Typed, MemoryTyped, Within, Collecting
<1>2. Len(attempts) + 1 \in 1 .. Len(LocatorsOf(plan))
  BY <1>1, SlotsCounted DEF CollectOK
<1>3. LocatorIn(plan, Len(attempts) + 1) \in Locatable
      /\ UrlsOf(LocatorIn(plan, Len(attempts) + 1)) \in Seq(Urls)
  BY <1>1, <1>2, LocatorTyped
<1> QED BY <1>1, <1>3, LocatorsAre DEF CollectOK, Room

\* What is being retrieved.
LEMMA ThingHere ==
  ASSUME Typed, Retrieving \/ fresh # 0
  PROVE  /\ at \in {"bind", "collect"}
         /\ at = "bind" => Binding
         /\ Thing \in Choice \cup Locatable
         /\ UrlsOf(Thing) \in Seq(Urls)
         /\ Len(got) \in Nat /\ Len(got) < Len(UrlsOf(Thing))
         /\ Url \in Urls
<1>1. at \in {"bind", "collect"} /\ (at = "bind" => Binding) /\ (at = "collect" => Collecting)
  <2>1. CASE Retrieving
    BY <2>1 DEF Retrieving, Binding, Collecting
  <2>2. CASE fresh # 0
    <3>1. at \in {"bind", "collect"}
      BY <2>2 DEF Typed, MemoryTyped
    <3>2. at = "bind" => Len(bound) < Len(DocumentsOf(answer.items))
      BY <2>2 DEF Typed, Within, BindOK
    <3> QED BY <3>1, <3>2, DocumentsAre DEF Binding, Collecting
  <2> QED BY <2>1, <2>2
<1>2. Len(got) < Len(UrlsOf(Thing))
  <2>1. CASE Retrieving
    BY <2>1 DEF Retrieving
  <2>2. CASE fresh # 0 /\ at = "bind"
    <3>1. Room(Document, got, fresh)
      BY <2>2, DocumentsAre DEF Typed, Within, BindOK
    <3> QED BY <2>2, <3>1 DEF Room, Thing
  <2>3. CASE fresh # 0 /\ at = "collect"
    <3>1. Room(Locator, got, fresh)
      BY <2>3, LocatorsAre DEF Typed, Within, CollectOK
    <3> QED BY <2>3, <3>1 DEF Room, Thing
  <2> QED BY <1>1, <2>1, <2>2, <2>3
<1>3. Thing \in Choice \cup Locatable /\ UrlsOf(Thing) \in Seq(Urls)
  <2>1. CASE at = "bind"
    BY <1>1, <2>1, DocumentHere DEF Thing
  <2>2. CASE at = "collect"
    BY <1>1, <2>2, LocatorHere DEF Thing
  <2> QED BY <1>1, <2>1, <2>2
<1>4. Len(got) \in Nat
  BY SlotsCounted
<1>5. Url \in Urls
  <2>1. Len(got) + 1 \in 1 .. Len(UrlsOf(Thing))
    BY <1>2, <1>3, <1>4
  <2> QED BY <1>3, <2>1, ElementOfSeq DEF Url
<1> QED BY <1>1, <1>2, <1>3, <1>4, <1>5

-----------------------------------------------------------------------------
(* What an outcome leads to.                                               *)

\* What the outcome of a retrieval keeps.
Settled == RowTyped' /\ MemoryTyped' /\ Within' /\ got' = <<>>

LEMMA FailTyped ==
  ASSUME Typed, at # "stopped", Fail, fresh' = 0
  PROVE  Settled
<1>1. /\ at' = "worker" /\ asked' = TRUE
      /\ bound' = <<>> /\ plan' = <<>> /\ attempts' = <<>> /\ got' = <<>>
      /\ status' = status /\ answer' = answer /\ accepted' = accepted
  BY DEF Fail, Idle
<1>2. RowTyped'
  BY <1>1 DEF Typed, RowTyped
<1>3. MemoryTyped'
  BY <1>1 DEF MemoryTyped
<1>4. Within'
  BY <1>1 DEF Within
<1> QED BY <1>1, <1>2, <1>3, <1>4 DEF Settled

LEMMA RowUnchanged ==
  ASSUME RowTyped, UNCHANGED stage, at # "stopped" \/ at' = "stopped"
  PROVE  RowTyped'
BY DEF RowTyped, stage

\* With nothing retrieved yet there is room for all of it.
LEMMA RoomAtFirst ==
  ASSUME NEW thing \in Choice \cup Locatable
  PROVE  Room(thing, <<>>, 0)
<1>1. UrlsOf(thing) \in Seq(Urls)
  BY UrlsTyped
<1> QED BY <1>1 DEF Room

LEMMA CollectAtFirst ==
  ASSUME NEW items \in Seq(PlanItem), NEW tries \in Seq(Attempt), Len(tries) < Len(LocatorsOf(items))
  PROVE  CollectOK(items, tries, <<>>, 0)
<1>1. Len(tries) + 1 \in 1 .. Len(LocatorsOf(items))
  <2>1. LocatorsOf(items) \in Seq(Nat \X Nat)
    BY LocatorSlots
  <2> QED BY <2>1
<1>2. LocatorIn(items, Len(tries) + 1) \in Locatable
  BY <1>1, LocatorTyped
<1> QED BY <1>2, RoomAtFirst DEF CollectOK

LEMMA AttemptedTyped ==
  ASSUME Typed, Collecting, NEW outcome \in Outcome, NEW refs \in Seq(Nat),
         Attempted(outcome, refs), fresh' = 0
  PROVE  Settled
<1> DEFINE tries == Append(attempts, [slot |-> LocatorSlot, outcome |-> outcome, refs |-> refs])
<1>1. CASE Fail
  BY <1>1, FailTyped DEF Collecting
<1>2. CASE ~Fail
  <2>1. /\ attempts' = tries /\ got' = <<>>
        /\ at' = IF Len(tries) = Len(Locators) THEN "finalize" ELSE "collect"
        /\ UNCHANGED <<stage, bound, plan>>
    BY <1>2 DEF Attempted
  <2>2. /\ at = "collect" /\ answer \in Answers /\ bound = <<>>
        /\ plan \in Seq(PlanItem) /\ attempts \in Seq(Attempt)
    BY DEF Typed, MemoryTyped, Collecting
  <2>3. tries \in Seq(Attempt) /\ Len(tries) = Len(attempts) + 1
    <3>1. LocatorSlot \in Nat \X Nat
      <4>1. LocatorsOf(plan) \in Seq(Nat \X Nat)
        BY <2>2, LocatorSlots
      <4>2. Len(attempts) + 1 \in 1 .. Len(LocatorsOf(plan))
        BY <4>1, SlotsCounted, LocatorHere
      <4> QED BY <4>1, <4>2, LocatorsAre, ElementOfSeq
    <3> DEFINE try == [slot |-> LocatorSlot, outcome |-> outcome, refs |-> refs]
    <3>2. try \in Attempt
      BY <3>1 DEF Attempt
    <3> HIDE DEF try
    <3>3. Append(attempts, try) \in Seq(Attempt) /\ Len(Append(attempts, try)) = Len(attempts) + 1
      BY <2>2, <3>2
    <3> QED BY <3>3 DEF try
  <2> HIDE DEF tries
  <2>4. Len(tries) <= Len(LocatorsOf(plan)) /\ Len(tries) \in Nat
    BY <2>3, SlotsCounted, LocatorHere
  <2>5. RowTyped'
    BY <2>1, <2>2, RowUnchanged DEF Typed
  <2>6. MemoryTyped'
    <3>1. at' \in {"collect", "finalize"}
      BY <2>1
    <3>2. answer' = answer /\ bound' = bound /\ plan' = plan
      BY <2>1 DEF stage
    <3>3. bound' \in Seq(BoundUrls \cup {None})
      BY <2>2, <3>2
    <3> QED BY <2>1, <2>2, <2>3, <3>1, <3>2, <3>3 DEF MemoryTyped
  <2>7. Within'
    <3>1. ASSUME at' = "collect"
          PROVE  CollectOK(plan', attempts', got', fresh')
      <4>1. Len(tries) # Len(LocatorsOf(plan))
        BY <2>1, <3>1, LocatorsAre
      <4>2. CollectOK(plan, tries, <<>>, 0)
        BY <2>2, <2>3, <2>4, <4>1, SlotsCounted, CollectAtFirst
      <4> QED BY <2>1, <4>2
    <3>2. ASSUME at' = "finalize"
          PROVE  Len(attempts') <= Len(LocatorsOf(plan'))
      BY <2>1, <2>4
    <3>3. at' \in {"collect", "finalize"}
      BY <2>1
    <3> QED BY <3>1, <3>2, <3>3 DEF Within
  <2> QED BY <2>1, <2>5, <2>6, <2>7 DEF Settled
<1> QED BY <1>1, <1>2

LEMMA UnboundTyped ==
  ASSUME Typed, Binding, Unbound, fresh' = 0
  PROVE  Settled
<1> DEFINE slot == DocumentSlot
           documents == answer.items[slot[1]].documents
           rest == Len(documents) - slot[2]
           nones == [k \in 1 .. rest + 1 |-> None]
<1>1. /\ at = "bind" /\ answer \in Answers /\ plan = <<>> /\ attempts = <<>>
      /\ bound \in Seq(BoundUrls \cup {None})
  BY DEF Typed, MemoryTyped, Binding
<1>2. /\ bound' = bound \o nones /\ got' = <<>>
      /\ UNCHANGED <<stage, at, plan, attempts>>
  BY DEF Unbound
<1>3. rest \in Nat /\ Len(bound) + 1 + rest <= Len(DocumentsOf(answer.items))
  <2>1. Len(bound) + 1 \in 1 .. Len(DocumentsOf(answer.items))
    BY <1>1, DocumentHere, SlotsCounted
  <2>2. /\ documents \in Seq(Choice)
        /\ slot[2] \in 1 .. Len(documents)
        /\ Len(bound) + 1 + (Len(documents) - slot[2]) <= Len(DocumentsOf(answer.items))
    <3>1. answer.items \in Seq(AnswerItem)
      BY <1>1, AnswersTyped
    <3>2. slot = DocumentsOf(answer.items)[Len(bound) + 1]
      BY DocumentsAre
    <3> QED BY <2>1, <3>1, <3>2, DocumentSlots
  <2>3. Len(documents) \in Nat
    <3>1. \A s \in Seq(Choice) : Len(s) \in Nat
      OBVIOUS
    <3> QED BY <2>2, <3>1
  <2> HIDE DEF documents, slot
  <2> QED BY <2>2, <2>3
<1> HIDE DEF rest
<1>4. nones \in Seq(BoundUrls \cup {None}) /\ Len(nones) = rest + 1
  BY <1>3
<1> HIDE DEF nones
<1>5. bound' \in Seq(BoundUrls \cup {None}) /\ Len(bound') = Len(bound) + (rest + 1)
  <2>1. \A X : \A s, t \in Seq(X) : s \o t \in Seq(X) /\ Len(s \o t) = Len(s) + Len(t)
    OBVIOUS
  <2>2. /\ bound \o nones \in Seq(BoundUrls \cup {None})
        /\ Len(bound \o nones) = Len(bound) + Len(nones)
    BY <1>1, <1>4, <2>1
  <2> QED BY <1>2, <1>4, <2>2
<1>6. RowTyped'
  BY <1>1, <1>2, RowUnchanged DEF Typed
<1>7. MemoryTyped'
  <2>1. at' = "bind" /\ answer' = answer /\ plan' = <<>> /\ attempts' = <<>>
    BY <1>1, <1>2 DEF stage
  <2>2. plan' \in Seq(PlanItem) /\ attempts' \in Seq(Attempt)
    BY <2>1
  <2> QED BY <1>1, <1>5, <2>1, <2>2 DEF MemoryTyped
<1>8. Within'
  <2>1. at' = "bind" /\ answer' = answer
    BY <1>1, <1>2 DEF stage
  <2>2. Len(bound') <= Len(DocumentsOf(answer.items))
    BY <1>1, <1>3, <1>5, SlotsCounted
  <2>3. BindOK(answer.items, bound', <<>>, 0)
    BY <2>2 DEF BindOK
  <2> QED BY <1>2, <2>1, <2>3 DEF Within
<1> QED BY <1>2, <1>6, <1>7, <1>8 DEF Settled

LEMMA GotNat ==
  ASSUME Typed
  PROVE  got \in Seq(Nat)
<1>1. got \in Seq(1 .. Len(occurrences)) /\ Len(occurrences) \in Nat
  BY DEF Typed, RecordsTyped
<1>2. 1 .. Len(occurrences) \subseteq Nat
  OBVIOUS
<1>3. \A S, T : S \subseteq T => Seq(S) \subseteq Seq(T)
  OBVIOUS
<1> QED BY <1>1, <1>2, <1>3

LEMMA RetrievalFailsTyped ==
  ASSUME Typed, Retrieving, NEW outcome \in Outcome, NEW refs \in Seq(Nat),
         RetrievalFails(outcome, refs), fresh' = 0
  PROVE  Settled
<1>1. CASE at = "bind"
  <2>1. Binding
    BY <1>1 DEF Retrieving, Collecting
  <2> QED BY <1>1, <2>1, UnboundTyped DEF RetrievalFails
<1>2. CASE at # "bind"
  <2>1. Collecting
    BY <1>2 DEF Retrieving, Binding
  <2>2. got \o refs \in Seq(Nat)
    <3>1. got \in Seq(Nat)
      BY GotNat
    <3> QED BY <3>1
  <2> QED BY <1>2, <2>1, <2>2, AttemptedTyped DEF RetrievalFails
<1> QED BY <1>1, <1>2

-----------------------------------------------------------------------------
(* Each step keeps the types.                                              *)

LEMMA RecordsUnchanged ==
  ASSUME Typed, UNCHANGED <<http, base>>, got' \in Seq(1 .. Len(occurrences))
  PROVE  RecordsTyped'
BY DEF Typed, RecordsTyped, http

LEMMA WorldUnchanged ==
  ASSUME Typed, UNCHANGED outside, turns' \in Nat, faults' \in Nat, crashes' \in Nat, acts' \in Nat
  PROVE  WorldTyped'
BY DEF Typed, WorldTyped, outside

LEMMA Counting ==
  ASSUME Typed
  PROVE  /\ turns \in Nat /\ faults \in Nat /\ crashes \in Nat /\ acts \in Nat
         /\ turns + 1 \in Nat /\ faults + 1 \in Nat /\ crashes + 1 \in Nat /\ acts + 1 \in Nat
         /\ Len(occurrences) \in Nat /\ <<>> \in Seq(1 .. Len(occurrences))
         /\ got \in Seq(1 .. Len(occurrences))
<1>1. Len(occurrences) \in Nat /\ got \in Seq(1 .. Len(occurrences))
  BY DEF Typed, RecordsTyped
<1> QED BY <1>1 DEF Typed, WorldTyped

\* A settled outcome with the records as they were.
LEMMA SettledTyped ==
  ASSUME Typed, Settled, UNCHANGED <<http, base, outside>>,
         turns' \in Nat, faults' \in Nat, crashes' \in Nat, acts' \in Nat
  PROVE  Typed'
<1>1. got' \in Seq(1 .. Len(occurrences))
  BY Counting DEF Settled
<1>2. RecordsTyped' /\ WorldTyped'
  BY <1>1, RecordsUnchanged, WorldUnchanged
<1> QED BY <1>2 DEF Typed, Settled

LEMMA RunTyped == Typed /\ Run => Typed'
<1> SUFFICES ASSUME Typed, Run PROVE Typed'
  OBVIOUS
<1>1. /\ at = "stopped" /\ at' = IF asked \/ answer = None THEN "worker" ELSE "bind"
      /\ UNCHANGED <<stage, http, base, bound, plan, attempts, got, outside, bounds>>
  BY DEF Run
<1>2. /\ bound = <<>> /\ plan = <<>> /\ attempts = <<>> /\ got = <<>> /\ fresh = 0
  BY <1>1 DEF Typed, MemoryTyped
<1>3. RowTyped'
  BY <1>1 DEF Run, Typed, RowTyped, stage
<1>4. RecordsTyped'
  BY <1>1, RecordsUnchanged, Counting
<1>5. WorldTyped'
  BY <1>1, WorldUnchanged, Counting DEF bounds
<1>6. at' = "bind" => answer \in Answers
  BY <1>1 DEF Typed, RowTyped
<1>7. MemoryTyped'
  <2>1. at' \in {"worker", "bind"} /\ answer' = answer
    BY <1>1 DEF stage
  <2>2. bound' = <<>> /\ plan' = <<>> /\ attempts' = <<>> /\ got' = <<>> /\ fresh' = 0
    BY <1>1, <1>2 DEF http
  <2> QED BY <1>6, <2>1, <2>2 DEF MemoryTyped
<1>8. Within'
  <2>1. at' \in {"worker", "bind"} /\ answer' = answer /\ bound' = <<>> /\ got' = <<>> /\ fresh' = 0
    BY <1>1, <1>2 DEF stage, http
  <2>2. at' = "bind" => BindOK(answer.items, <<>>, <<>>, 0)
    BY <1>6, SlotsCounted DEF BindOK
  <2> QED BY <2>1, <2>2 DEF Within
<1> QED BY <1>3, <1>4, <1>5, <1>7, <1>8 DEF Typed

LEMMA AnswerTyped == Typed /\ Answer => Typed'
<1> SUFFICES ASSUME Typed, Answer PROVE Typed'
  OBVIOUS
<1>1. /\ at = "worker" /\ at' = "bind" /\ turns' = turns + 1 /\ status' = "RUNNING"
      /\ answer' \in Answers /\ asked' = FALSE
      /\ UNCHANGED <<http, base, bound, plan, attempts, got, outside, faults, crashes, acts>>
      /\ UNCHANGED accepted
  BY DEF Answer
<1>2. /\ bound = <<>> /\ plan = <<>> /\ attempts = <<>> /\ got = <<>> /\ fresh = 0
  BY <1>1 DEF Typed, MemoryTyped
<1>3. RecordsTyped'
  BY <1>1, RecordsUnchanged, Counting
<1>4. WorldTyped'
  BY <1>1, WorldUnchanged, Counting
<1>5. bound' = <<>> /\ plan' = <<>> /\ attempts' = <<>> /\ got' = <<>> /\ fresh' = 0
  BY <1>1, <1>2 DEF http
<1>6. MemoryTyped'
  BY <1>1, <1>5 DEF MemoryTyped
<1>7. Within'
  <2>1. Len(DocumentsOf(answer'.items)) \in Nat
    <3>1. DocumentsOf(answer'.items) \in Seq(Nat \X Nat)
      BY <1>1, AnswersTyped, DocumentSlots
    <3> QED BY <3>1
  <2>2. BindOK(answer'.items, <<>>, <<>>, 0)
    BY <2>1 DEF BindOK
  <2> QED BY <1>1, <1>5, <2>2 DEF Within
<1>8. RowTyped'
  BY <1>1 DEF Typed, RowTyped
<1> QED BY <1>3, <1>4, <1>6, <1>7, <1>8 DEF Typed

LEMMA GiveUpTyped == Typed /\ GiveUp => Typed'
<1> SUFFICES ASSUME Typed, GiveUp PROVE Typed'
  OBVIOUS
<1>1. /\ at = "worker" /\ at' = "stopped" /\ turns' = turns + 1 /\ status' = "BLOCKED"
      /\ asked' = FALSE
      /\ UNCHANGED <<http, base, bound, plan, attempts, got, outside, faults, crashes, acts>>
      /\ UNCHANGED <<answer, accepted>>
  BY DEF GiveUp
<1>2. /\ bound = <<>> /\ plan = <<>> /\ attempts = <<>> /\ got = <<>> /\ fresh = 0
  BY <1>1 DEF Typed, MemoryTyped
<1>3. RecordsTyped'
  BY <1>1, RecordsUnchanged, Counting
<1>4. WorldTyped'
  BY <1>1, WorldUnchanged, Counting
<1>5. bound' = <<>> /\ plan' = <<>> /\ attempts' = <<>> /\ got' = <<>> /\ fresh' = 0
  BY <1>1, <1>2 DEF http
<1>6. MemoryTyped' /\ Within'
  BY <1>1, <1>5 DEF MemoryTyped, Within
<1>7. RowTyped'
  BY <1>1 DEF Typed, RowTyped
<1> QED BY <1>3, <1>4, <1>6, <1>7 DEF Typed

\* A longer list of responses: what is typed of the old ones stands.
LEMMA MoreOccurrences ==
  ASSUME Typed, NEW new \in Occurrence, occurrences' = Append(occurrences, new)
  PROVE  /\ occurrences' \in Seq(Occurrence)
         /\ Len(occurrences') = Len(occurrences) + 1 /\ Len(occurrences) \in Nat
         /\ 0 .. Len(occurrences) \subseteq 0 .. Len(occurrences')
         /\ Seq(1 .. Len(occurrences)) \subseteq Seq(1 .. Len(occurrences'))
         /\ base \in 0 .. Len(occurrences') /\ pointers \in [Urls -> 0 .. Len(occurrences')]
<1>1. /\ occurrences' \in Seq(Occurrence) /\ Len(occurrences) \in Nat
      /\ Len(occurrences') = Len(occurrences) + 1
  BY DEF Typed, RecordsTyped
<1>2. /\ 0 .. Len(occurrences) \subseteq 0 .. Len(occurrences')
      /\ 1 .. Len(occurrences) \subseteq 1 .. Len(occurrences')
  BY <1>1
<1>3. Seq(1 .. Len(occurrences)) \subseteq Seq(1 .. Len(occurrences'))
  <2>1. \A S, T : S \subseteq T => Seq(S) \subseteq Seq(T)
    OBVIOUS
  <2> QED BY <1>2, <2>1
<1>4. base \in 0 .. Len(occurrences') /\ pointers \in [Urls -> 0 .. Len(occurrences')]
  BY <1>2 DEF Typed, RecordsTyped
<1> QED BY <1>1, <1>2, <1>3, <1>4

\* One more response to the retrieval under way, whose pointer is written.
LEMMA GotMore ==
  ASSUME Typed, Retrieving \/ fresh # 0, NEW ref, got' = Append(got, ref), fresh' = 0,
         UNCHANGED <<stage, at, bound, plan, attempts>>
  PROVE  RowTyped' /\ MemoryTyped' /\ Within'
<1>1. /\ answer' = answer /\ at' = at /\ bound' = bound /\ plan' = plan /\ attempts' = attempts
      /\ at \in {"bind", "collect"}
  BY ThingHere DEF stage
<1>2. /\ Len(got') = Len(got) + 1 /\ Len(got) \in Nat /\ Len(UrlsOf(Thing)) \in Nat
      /\ Len(got') <= Len(UrlsOf(Thing))
  <2>1. got \in Seq(1 .. Len(occurrences))
    BY DEF Typed, RecordsTyped
  <2>2. Len(got') = Len(got) + 1
    BY <2>1
  <2>3. Len(got) \in Nat /\ Len(got) < Len(UrlsOf(Thing)) /\ Len(UrlsOf(Thing)) \in Nat
    BY ThingHere
  <2> QED BY <2>2, <2>3
<1>3. Room(Thing, got', 0)
  BY <1>2 DEF Room
<1>4. RowTyped'
  BY <1>1, RowUnchanged DEF Typed
<1>5. MemoryTyped'
  BY <1>1 DEF Typed, MemoryTyped
<1>6. Within'
  <2>1. CASE at = "bind"
    <3>1. Binding /\ Len(bound) < Len(DocumentsOf(answer.items))
      BY <2>1, ThingHere, DocumentsAre DEF Binding
    <3>2. Room(DocumentAt(answer.items, Len(bound) + 1), got', 0)
      BY <1>3, <2>1, DocumentsAre DEF Thing
    <3>3. answer \in Answers
      BY <3>1, DocumentHere
    <3>4. Len(bound) <= Len(DocumentsOf(answer.items))
      BY <3>1, <3>3, SlotsCounted
    <3>5. BindOK(answer.items, bound, got', 0)
      BY <3>1, <3>2, <3>4 DEF BindOK
    <3> QED BY <1>1, <2>1, <3>5 DEF Within
  <2>2. CASE at = "collect"
    <3>1. Room(LocatorIn(plan, Len(attempts) + 1), got', 0)
      BY <1>3, <2>2, LocatorsAre DEF Thing
    <3>2. Len(attempts) < Len(LocatorsOf(plan))
      BY <2>2, LocatorHere DEF Collecting
    <3>3. CollectOK(plan, attempts, got', 0)
      BY <3>1, <3>2 DEF CollectOK
    <3> QED BY <1>1, <2>2, <3>3 DEF Within
  <2> QED BY <1>1, <2>1, <2>2
<1> QED BY <1>4, <1>5, <1>6

LEMMA ReuseTyped == Typed /\ Reuse => Typed'
<1> SUFFICES ASSUME Typed, Reuse PROVE Typed'
  OBVIOUS
<1> DEFINE ref == pointers[Url]
<1>1. /\ Retrieving /\ fresh = 0 /\ ref # 0 /\ got' = Append(got, ref)
      /\ UNCHANGED <<stage, http, base, at, bound, plan, attempts, outside, bounds>>
  BY DEF Reuse, Reusable, Retrieving
<1>2. ref \in 1 .. Len(occurrences)
  <2>1. Url \in Urls
    BY <1>1, ThingHere
  <2>2. ref \in 0 .. Len(occurrences) /\ Len(occurrences) \in Nat
    BY <2>1, Counting DEF Typed, RecordsTyped
  <2> QED BY <1>1, <2>2
<1> HIDE DEF ref
<1>3. RowTyped' /\ MemoryTyped' /\ Within'
  BY <1>1, GotMore DEF http
<1>4. got' \in Seq(1 .. Len(occurrences))
  BY <1>1, <1>2, Counting
<1>5. RecordsTyped' /\ WorldTyped'
  BY <1>1, <1>4, RecordsUnchanged, WorldUnchanged, Counting DEF bounds
<1> QED BY <1>3, <1>5 DEF Typed

LEMMA KeepPointerTyped == Typed /\ KeepPointer => Typed'
<1> SUFFICES ASSUME Typed, KeepPointer PROVE Typed'
  OBVIOUS
<1>1. /\ fresh # 0 /\ fresh' = 0 /\ got' = Append(got, fresh)
      /\ pointers' = [pointers EXCEPT ![Url] = fresh]
      /\ UNCHANGED <<stage, occurrences, base, at, bound, plan, attempts, outside, bounds>>
  BY DEF KeepPointer
<1>2. fresh \in 1 .. Len(occurrences)
  BY <1>1, Counting DEF Typed, RecordsTyped
<1>3. RowTyped' /\ MemoryTyped' /\ Within'
  BY <1>1, GotMore
<1>4. RecordsTyped'
  <2>1. got' \in Seq(1 .. Len(occurrences))
    BY <1>1, <1>2, Counting
  <2>2. pointers' \in [Urls -> 0 .. Len(occurrences)]
    BY <1>1, <1>2 DEF Typed, RecordsTyped
  <2> QED BY <1>1, <2>1, <2>2, Counting DEF Typed, RecordsTyped
<1>5. WorldTyped'
  BY <1>1, WorldUnchanged, Counting DEF bounds
<1> QED BY <1>3, <1>4, <1>5 DEF Typed

\* What a page served is on record as.
LEMMA PageTyped ==
  ASSUME Typed, NEW u \in Urls
  PROVE  /\ web[u].outcome \in {"SERVED"} \cup Failures
         /\ web[u].outcome = "SERVED" => web[u].digest \in Digests /\ web[u].host \in Hosts
<1>1. web[u] \in Page
  BY ClosureAssumption DEF Typed, WorldTyped
<1> QED BY <1>1 DEF Page, Failures

LEMMA DownloadTyped == Typed /\ Download => Typed'
<1> SUFFICES ASSUME Typed, Download PROVE Typed'
  OBVIOUS
<1> DEFINE page == web[Url]
           taken == Expected \in {None, page.digest}
           new == [url |-> Url, digest |-> page.digest, host |-> page.host, taken |-> taken]
<1>1. /\ Retrieving /\ fresh = 0 /\ page.outcome = "SERVED"
      /\ occurrences' = Append(occurrences, new)
      /\ UNCHANGED <<base, pointers, outside, bounds>>
  BY DEF Download, Retrieving
<1>2. \/ taken /\ fresh' = Len(occurrences') /\ UNCHANGED <<stage, memory>>
      \/ ~taken /\ RetrievalFails("CONFLICT", <<Len(occurrences')>>) /\ UNCHANGED fresh
  BY DEF Download
<1>3. new \in Occurrence
  <2>1. Url \in Urls
    BY <1>1, ThingHere
  <2>2. page.digest \in Digests /\ page.host \in Hosts
    BY <1>1, <2>1, PageTyped
  <2>3. taken \in BOOLEAN
    OBVIOUS
  <2> HIDE DEF page, taken
  <2> QED BY <2>1, <2>2, <2>3 DEF Occurrence
<1> HIDE DEF new, page
<1>4. /\ occurrences' \in Seq(Occurrence)
      /\ Len(occurrences') = Len(occurrences) + 1 /\ Len(occurrences) \in Nat
      /\ Seq(1 .. Len(occurrences)) \subseteq Seq(1 .. Len(occurrences'))
      /\ base' \in 0 .. Len(occurrences') /\ pointers' \in [Urls -> 0 .. Len(occurrences')]
  BY <1>1, <1>3, MoreOccurrences
<1>5. WorldTyped'
  BY <1>1, WorldUnchanged, Counting DEF bounds
<1>6. CASE fresh' = Len(occurrences') /\ UNCHANGED <<stage, memory>>
  <2>1. /\ at' = at /\ bound' = bound /\ plan' = plan /\ attempts' = attempts /\ got' = got
        /\ answer' = answer /\ fresh' # 0 /\ at \in {"bind", "collect"}
    BY <1>1, <1>4, <1>6, ThingHere DEF memory, stage
  <2>2. RecordsTyped'
    <3>1. got' \in Seq(1 .. Len(occurrences'))
      BY <1>4, <2>1, Counting
    <3>2. fresh' \in 0 .. Len(occurrences')
      BY <1>4, <1>6
    <3> QED BY <1>4, <3>1, <3>2 DEF RecordsTyped
  <2>3. RowTyped'
    BY <1>6, <2>1, RowUnchanged DEF Typed
  <2>4. MemoryTyped'
    BY <2>1 DEF Typed, MemoryTyped
  <2>5. Room(Thing, got, fresh')
    <3>1. Len(got) \in Nat /\ Len(got) < Len(UrlsOf(Thing)) /\ UrlsOf(Thing) \in Seq(Urls)
      BY <1>1, ThingHere
    <3>2. Len(got) <= Len(UrlsOf(Thing))
      BY <3>1
    <3> QED BY <3>1, <3>2 DEF Room
  <2>6. Within'
    <3>1. CASE at = "bind"
      <4>1. Binding /\ Len(bound) < Len(DocumentsOf(answer.items)) /\ answer \in Answers
        BY <1>1, <3>1, ThingHere, DocumentHere
      <4>2. Len(bound) <= Len(DocumentsOf(answer.items))
        BY <4>1, SlotsCounted
      <4>3. Room(DocumentAt(answer.items, Len(bound) + 1), got, fresh')
        BY <2>5, <3>1, DocumentsAre DEF Thing
      <4>4. BindOK(answer.items, bound, got, fresh')
        BY <4>1, <4>2, <4>3 DEF BindOK
      <4> QED BY <2>1, <3>1, <4>4 DEF Within
    <3>2. CASE at = "collect"
      <4>1. Room(LocatorIn(plan, Len(attempts) + 1), got, fresh')
        BY <2>5, <3>2, LocatorsAre DEF Thing
      <4>2. Len(attempts) < Len(LocatorsOf(plan))
        BY <3>2, LocatorHere DEF Collecting
      <4>3. CollectOK(plan, attempts, got, fresh')
        BY <4>1, <4>2 DEF CollectOK
      <4> QED BY <2>1, <3>2, <4>3 DEF Within
    <3> QED BY <2>1, <3>1, <3>2
  <2> QED BY <1>5, <2>2, <2>3, <2>4, <2>6 DEF Typed
<1>7. CASE RetrievalFails("CONFLICT", <<Len(occurrences')>>) /\ UNCHANGED fresh
  <2>1. "CONFLICT" \in Outcome /\ <<Len(occurrences')>> \in Seq(Nat) /\ fresh' = 0
    BY <1>1, <1>4, <1>7 DEF Outcome
  <2>2. Settled
    BY <1>1, <1>7, <2>1, RetrievalFailsTyped
  <2>3. RecordsTyped'
    <3>1. got' \in Seq(1 .. Len(occurrences')) /\ fresh' \in 0 .. Len(occurrences')
      BY <1>4, <2>1, <2>2 DEF Settled
    <3> QED BY <1>4, <3>1 DEF RecordsTyped
  <2> QED BY <1>5, <2>2, <2>3 DEF Typed, Settled
<1> QED BY <1>2, <1>6, <1>7

LEMMA DownloadFailsTyped == Typed /\ DownloadFails => Typed'
<1> SUFFICES ASSUME Typed, DownloadFails PROVE Typed'
  OBVIOUS
<1>1. /\ Retrieving /\ fresh = 0 /\ UNCHANGED <<http, base, outside, turns, crashes, acts>>
      /\ \/ /\ web[Url].outcome # "SERVED"
            /\ RetrievalFails(web[Url].outcome, <<>>)
            /\ UNCHANGED faults
         \/ faults' = faults + 1 /\ RetrievalFails("FAILED", <<>>)
  BY DEF DownloadFails, Retrieving
<1>2. Url \in Urls /\ fresh' = 0
  BY <1>1, ThingHere DEF http
<1>3. \E outcome \in Outcome : RetrievalFails(outcome, <<>>)
  <2>1. web[Url].outcome # "SERVED" => web[Url].outcome \in Outcome
    BY <1>2, PageTyped DEF Outcome
  <2>2. "FAILED" \in Outcome
    BY DEF Outcome, Failures
  <2> QED BY <1>1, <2>1, <2>2
<1>4. Settled
  <2>1. PICK outcome \in Outcome : RetrievalFails(outcome, <<>>)
    BY <1>3
  <2>2. <<>> \in Seq(Nat)
    OBVIOUS
  <2> QED BY <1>1, <1>2, <2>1, <2>2, RetrievalFailsTyped
<1>5. faults' \in Nat
  BY <1>1, Counting
<1> QED BY <1>1, <1>4, <1>5, SettledTyped, Counting

LEMMA BreaksOffTyped == Typed /\ BreaksOff => Typed'
<1> SUFFICES ASSUME Typed, BreaksOff PROVE Typed'
  OBVIOUS
<1>1. /\ Retrieving /\ fresh = 0 /\ Fail /\ faults' = faults + 1
      /\ UNCHANGED <<http, base, outside, turns, crashes, acts>>
  BY DEF BreaksOff, Retrieving
<1>2. at # "stopped"
  BY <1>1, ThingHere
<1>3. Settled
  BY <1>1, <1>2, FailTyped DEF http
<1> QED BY <1>1, <1>3, SettledTyped, Counting

LEMMA BindDocumentTyped == Typed /\ BindDocument => Typed'
<1> SUFFICES ASSUME Typed, BindDocument PROVE Typed'
  OBVIOUS
<1> DEFINE d == Document
           digest == occurrences[got[1]].digest
           copies == [k \in DOMAIN d.copies |-> [url |-> d.copies[k], digest |-> digest]]
           basis == IF d.publisher # None
                    THEN [kind |-> "publisher", host |-> d.publisher]
                    ELSE [kind |-> "copies", copies |-> copies]
           new == [kind |-> "url", url |-> d.url, digest |-> digest, basis |-> basis]
<1>1. /\ Binding /\ fresh = 0 /\ Len(got) = Len(UrlsOf(d))
      /\ \/ /\ bound' = Append(bound, new) /\ got' = <<>>
            /\ UNCHANGED <<stage, at, plan, attempts>>
         \/ Unbound
      /\ UNCHANGED <<http, base, outside, bounds>>
  BY DEF BindDocument
<1>2. CASE Unbound
  <2>1. Settled
    BY <1>1, <1>2, UnboundTyped DEF http
  <2> QED BY <1>1, <2>1, SettledTyped, Counting DEF bounds
<1>3. CASE bound' = Append(bound, new) /\ got' = <<>> /\ UNCHANGED <<stage, at, plan, attempts>>
  <2>1. d \in Choice /\ answer \in Answers /\ Len(bound) < Len(DocumentsOf(answer.items))
        /\ at = "bind" /\ plan = <<>> /\ attempts = <<>> /\ bound \in Seq(BoundUrls \cup {None})
    BY <1>1, DocumentHere DEF Typed, MemoryTyped, Binding
  <2>2. /\ d.kind = "document" /\ d.url \in Urls /\ d.copies \in Seq(Urls)
        /\ d.publisher \in Hosts \cup {None}
    BY <2>1 DEF Choice
  <2>3. digest \in Digests
    <3>1. got \in Seq(1 .. Len(occurrences)) /\ occurrences \in Seq(Occurrence)
      BY DEF Typed, RecordsTyped
    <3>2. Len(UrlsOf(d)) = 1 + Len(d.copies)
      BY <2>2 DEF UrlsOf
    <3>3. 1 \in 1 .. Len(got)
      BY <1>1, <2>2, <3>1, <3>2
    <3>4. got[1] \in 1 .. Len(occurrences)
      BY <3>1, <3>3, ElementOfSeq
    <3>5. occurrences[got[1]] \in Occurrence
      BY <3>1, <3>4, ElementOfSeq
    <3> QED BY <3>5 DEF Occurrence
  <2> HIDE DEF d, digest
  <2>4. copies \in Seq([url : Urls, digest : Digests])
    <3>1. DOMAIN d.copies = 1 .. Len(d.copies) /\ Len(d.copies) \in Nat
      BY <2>2
    <3>2. \A k \in 1 .. Len(d.copies) : d.copies[k] \in Urls
      BY <2>2, ElementOfSeq
    <3>3. copies \in [1 .. Len(d.copies) -> [url : Urls, digest : Digests]]
      BY <2>3, <3>1, <3>2
    <3> HIDE DEF copies
    <3>4. \A X : \A n \in Nat : [1 .. n -> X] \subseteq Seq(X)
      OBVIOUS
    <3> QED BY <3>1, <3>3, <3>4
  <2> HIDE DEF copies
  <2>5. basis \in Bases
    BY <2>2, <2>4 DEF Bases
  <2> HIDE DEF basis
  <2>6. new \in BoundUrls
    BY <2>2, <2>3, <2>5 DEF BoundUrls
  <2> HIDE DEF new
  <2>7. bound' \in Seq(BoundUrls \cup {None}) /\ Len(bound') = Len(bound) + 1
    <3>1. new \in BoundUrls \cup {None}
      BY <2>6
    <3> QED BY <1>3, <2>1, <3>1
  <2>8. /\ at' = "bind" /\ answer' = answer /\ plan' = <<>> /\ attempts' = <<>> /\ got' = <<>>
        /\ fresh' = 0
    BY <1>1, <1>3, <2>1 DEF stage, http
  <2>9. RowTyped'
    BY <1>3, <2>1, RowUnchanged DEF Typed
  <2>10. MemoryTyped'
    BY <2>1, <2>7, <2>8 DEF MemoryTyped
  <2>11. Within'
    <3>1. Len(bound') <= Len(DocumentsOf(answer.items))
      BY <2>1, <2>7, SlotsCounted
    <3>2. BindOK(answer.items, bound', <<>>, 0)
      BY <3>1 DEF BindOK
    <3> QED BY <2>8, <3>2 DEF Within
  <2>12. RecordsTyped' /\ WorldTyped'
    <3>1. got' \in Seq(1 .. Len(occurrences))
      BY <2>8, Counting
    <3> QED BY <1>1, <3>1, RecordsUnchanged, WorldUnchanged, Counting DEF bounds
  <2> QED BY <2>9, <2>10, <2>11, <2>12 DEF Typed
<1> QED BY <1>1, <1>2, <1>3

LEMMA ImportTyped == Typed /\ Import => Typed'
<1> SUFFICES ASSUME Typed, Import PROVE Typed'
  OBVIOUS
<1>1. /\ at = "bind" /\ Len(bound) = Len(Documents)
      /\ \/ /\ Valid /\ plan' = Expand(Proposed) /\ bound' = <<>> /\ at' = "verify"
            /\ UNCHANGED <<stage, attempts, got>>
         \/ Fail
      /\ UNCHANGED <<http, base, outside, bounds>>
  BY DEF Import
<1>2. answer \in Answers /\ attempts = <<>> /\ bound \in Seq(BoundUrls \cup {None})
  BY <1>1 DEF Typed, MemoryTyped
<1>3. got = <<>> /\ fresh = 0
  <2>1. ~(Len(bound) < Len(DocumentsOf(answer.items)))
    BY <1>1, <1>2, SlotsCounted, DocumentsAre
  <2> QED BY <1>1, <2>1 DEF Typed, Within, BindOK
<1>4. CASE Fail
  <2>1. Settled
    BY <1>1, <1>3, <1>4, FailTyped DEF http
  <2> QED BY <1>1, <2>1, SettledTyped, Counting DEF bounds
<1>5. CASE /\ Valid /\ plan' = Expand(Proposed) /\ bound' = <<>> /\ at' = "verify"
           /\ UNCHANGED <<stage, attempts, got>>
  <2>1. plan' \in Seq(PlanItem) /\ Len(LocatorsOf(plan')) > 0
    <3>1. \A i \in 1 .. Len(answer.items) : answer.items[i].urls \in Seq(BoundUrls)
      <4>1. \A item \in AnswerItem : item.urls \in Seq(BoundUrls)
        BY DEF AnswerItem
      <4> QED BY <1>2, <4>1, AnswersTyped, ElementOfSeq
    <3>2. Expand(Proposed) \in Seq(PlanItemOf(BoundUrls)) /\ Len(LocatorsOf(Expand(Proposed))) > 0
      BY <1>1, <1>2, <1>5, <3>1, PlanTyped
    <3> QED BY <1>5, <3>2, NarrowerPlans
  <2>2. /\ at' = "verify" /\ answer' = answer /\ bound' = <<>> /\ attempts' = <<>> /\ got' = <<>>
        /\ fresh' = 0
    BY <1>1, <1>2, <1>3, <1>5 DEF stage, http
  <2>3. RowTyped'
    BY <1>1, <1>5, RowUnchanged DEF Typed
  <2>4. MemoryTyped' /\ Within'
    BY <1>2, <2>1, <2>2 DEF MemoryTyped, Within
  <2>5. RecordsTyped' /\ WorldTyped'
    <3>1. got' \in Seq(1 .. Len(occurrences))
      BY <2>2, Counting
    <3> QED BY <1>1, <3>1, RecordsUnchanged, WorldUnchanged, Counting DEF bounds
  <2> QED BY <2>3, <2>4, <2>5 DEF Typed
<1> QED BY <1>1, <1>4, <1>5

LEMMA VerifyTyped == Typed /\ Verify => Typed'
<1> SUFFICES ASSUME Typed, Verify PROVE Typed'
  OBVIOUS
<1>1. /\ at = "verify"
      /\ \/ at' = "collect" /\ UNCHANGED <<stage, bound, plan, attempts, got>>
         \/ Fail
      /\ UNCHANGED <<http, base, outside, bounds>>
  BY DEF Verify
<1>2. /\ answer \in Answers /\ bound = <<>> /\ attempts = <<>> /\ got = <<>> /\ fresh = 0
      /\ plan \in Seq(PlanItem) /\ Len(LocatorsOf(plan)) > 0
  BY <1>1 DEF Typed, MemoryTyped, Within
<1>3. CASE Fail
  <2>1. Settled
    BY <1>1, <1>2, <1>3, FailTyped DEF http
  <2> QED BY <1>1, <2>1, SettledTyped, Counting DEF bounds
<1>4. CASE at' = "collect" /\ UNCHANGED <<stage, bound, plan, attempts, got>>
  <2>1. /\ answer' = answer /\ bound' = <<>> /\ plan' = plan /\ attempts' = <<>> /\ got' = <<>>
        /\ fresh' = 0
    BY <1>1, <1>2, <1>4 DEF stage, http
  <2>2. RowTyped'
    BY <1>1, <1>4, RowUnchanged DEF Typed
  <2>3. MemoryTyped'
    BY <1>2, <1>4, <2>1 DEF MemoryTyped
  <2>4. Within'
    <3>1. CollectOK(plan, <<>>, <<>>, 0)
      <4>1. <<>> \in Seq(Attempt) /\ Len(<<>>) < Len(LocatorsOf(plan))
        BY <1>2
      <4> QED BY <1>2, <4>1, CollectAtFirst
    <3> QED BY <1>4, <2>1, <3>1 DEF Within
  <2>5. RecordsTyped' /\ WorldTyped'
    <3>1. got' \in Seq(1 .. Len(occurrences))
      BY <2>1, Counting
    <3> QED BY <1>1, <3>1, RecordsUnchanged, WorldUnchanged, Counting DEF bounds
  <2> QED BY <2>2, <2>3, <2>4, <2>5 DEF Typed
<1> QED BY <1>1, <1>3, <1>4

LEMMA CollectTyped == Typed /\ Collect => Typed'
<1> SUFFICES ASSUME Typed, Collect PROVE Typed'
  OBVIOUS
<1>1. /\ Collecting /\ fresh = 0
      /\ \E outcome \in OutcomesOf(Locator) : Attempted(outcome, got)
      /\ UNCHANGED <<http, base, outside, bounds>>
  BY DEF Collect
<1>2. PICK outcome \in OutcomesOf(Locator) : Attempted(outcome, got)
  BY <1>1
<1>3. outcome \in Outcome
  BY DEF OutcomesOf, GitOutcomes, Outcome, Failures
<1>4. got \in Seq(Nat)
  BY GotNat
<1>5. Settled
  BY <1>1, <1>2, <1>3, <1>4, AttemptedTyped DEF http
<1> QED BY <1>1, <1>5, SettledTyped, Counting DEF bounds

LEMMA FinalizeTyped == Typed /\ Finalize => Typed'
<1> SUFFICES ASSUME Typed, Finalize PROVE Typed'
  OBVIOUS
<1>1. /\ at = "finalize"
      /\ \/ /\ status' = "PASS" /\ accepted' = [plan |-> plan, attempts |-> attempts]
            /\ at' = "stopped" /\ bound' = <<>> /\ plan' = <<>> /\ attempts' = <<>> /\ got' = <<>>
            /\ UNCHANGED <<answer, asked>>
         \/ Fail
      /\ UNCHANGED <<http, base, outside, bounds>>
  BY DEF Finalize, Idle
<1>2. fresh = 0 /\ plan \in Seq(PlanItem) /\ attempts \in Seq(Attempt) /\ answer \in Answers
  BY <1>1 DEF Typed, MemoryTyped
<1>3. CASE Fail
  <2>1. Settled
    BY <1>1, <1>2, <1>3, FailTyped DEF http
  <2> QED BY <1>1, <2>1, SettledTyped, Counting DEF bounds
<1>4. CASE ~Fail
  <2>1. accepted' # None
    <3> DEFINE bundle == [plan |-> plan, attempts |-> attempts]
    <3>1. bundle \in [plan : Seq(PlanItem), attempts : Seq(Attempt)]
      BY <1>2
    <3> HIDE DEF bundle
    <3>2. bundle # None
      BY <3>1, ClosureAssumption
    <3> QED BY <1>1, <1>4, <3>2 DEF bundle
  <2>2. /\ status' = "PASS" /\ at' = "stopped" /\ answer' = answer /\ asked' = asked
        /\ bound' = <<>> /\ plan' = <<>> /\ attempts' = <<>> /\ got' = <<>> /\ fresh' = 0
    BY <1>1, <1>2, <1>4 DEF http
  <2>3. RowTyped'
    BY <1>2, <2>1, <2>2 DEF Typed, RowTyped
  <2>4. MemoryTyped' /\ Within'
    BY <2>2 DEF MemoryTyped, Within
  <2>5. RecordsTyped' /\ WorldTyped'
    <3>1. got' \in Seq(1 .. Len(occurrences))
      BY <2>2, Counting
    <3> QED BY <1>1, <3>1, RecordsUnchanged, WorldUnchanged, Counting DEF bounds
  <2> QED BY <2>3, <2>4, <2>5 DEF Typed
<1> QED BY <1>3, <1>4

LEMMA CrashTyped == Typed /\ Crash => Typed'
<1> SUFFICES ASSUME Typed, Crash PROVE Typed'
  OBVIOUS
<1>1. /\ at # "stopped" /\ at' = "stopped" /\ crashes' = crashes + 1 /\ fresh' = 0
      /\ bound' = <<>> /\ plan' = <<>> /\ attempts' = <<>> /\ got' = <<>>
      /\ UNCHANGED <<stage, occurrences, base, pointers, outside, turns, faults, acts>>
  BY DEF Crash, Idle
<1>2. RowTyped'
  BY <1>1, RowUnchanged DEF Typed
<1>3. MemoryTyped' /\ Within'
  BY <1>1 DEF MemoryTyped, Within
<1>4. RecordsTyped'
  BY <1>1, Counting DEF Typed, RecordsTyped
<1>5. WorldTyped'
  BY <1>1, WorldUnchanged, Counting
<1> QED BY <1>2, <1>3, <1>4, <1>5 DEF Typed

LEMMA DisturbTyped == Typed /\ Disturb => Typed'
<1> SUFFICES ASSUME Typed, Disturb PROVE Typed'
  OBVIOUS
<1>1. /\ acts' = acts + 1
      /\ \/ /\ \E u \in Urls : \E page \in Pages[u] \ {web[u]} : web' = [web EXCEPT ![u] = page]
            /\ UNCHANGED touched
         \/ /\ \E r \in Repos : \E p \in Tracked[r] :
                 touched' = [touched EXCEPT ![r] = IF p \in @ THEN @ \ {p} ELSE @ \cup {p}]
            /\ UNCHANGED web
      /\ UNCHANGED <<stage, http, base, memory, turns, faults, crashes>>
  BY DEF Disturb
<1>2. RowTyped' /\ MemoryTyped' /\ RecordsTyped' /\ Within'
  <2>1. /\ status' = status /\ answer' = answer /\ asked' = asked /\ accepted' = accepted
        /\ at' = at /\ bound' = bound /\ plan' = plan /\ attempts' = attempts /\ got' = got
        /\ occurrences' = occurrences /\ pointers' = pointers /\ fresh' = fresh /\ base' = base
    BY <1>1 DEF stage, http, memory
  <2>2. RowTyped'
    BY <2>1 DEF Typed, RowTyped
  <2>3. MemoryTyped'
    BY <2>1 DEF Typed, MemoryTyped
  <2>4. RecordsTyped'
    BY <2>1 DEF Typed, RecordsTyped
  <2>5. Within'
    BY <2>1 DEF Typed, Within
  <2> QED BY <2>2, <2>3, <2>4, <2>5
<1>3. turns' \in Nat /\ faults' \in Nat /\ crashes' \in Nat /\ acts' \in Nat
  BY <1>1, Counting
<1>4. CASE /\ \E u \in Urls : \E page \in Pages[u] \ {web[u]} : web' = [web EXCEPT ![u] = page]
           /\ UNCHANGED touched
  <2>1. PICK u \in Urls : \E page \in Pages[u] \ {web[u]} : web' = [web EXCEPT ![u] = page]
    BY <1>4
  <2>2. PICK page \in Pages[u] : web' = [web EXCEPT ![u] = page]
    BY <2>1
  <2>3. (\A v \in Urls : web'[v] \in Pages[v]) /\ web' = [v \in Urls |-> web'[v]]
    BY <2>2 DEF Typed, WorldTyped
  <2> QED BY <1>2, <1>3, <1>4, <2>3 DEF Typed, WorldTyped
<1>5. CASE /\ \E r \in Repos : \E p \in Tracked[r] :
                touched' = [touched EXCEPT ![r] = IF p \in @ THEN @ \ {p} ELSE @ \cup {p}]
           /\ UNCHANGED web
  <2>1. PICK r \in Repos : \E p \in Tracked[r] :
          touched' = [touched EXCEPT ![r] = IF p \in @ THEN @ \ {p} ELSE @ \cup {p}]
    BY <1>5
  <2>2. PICK p \in Tracked[r] :
          touched' = [touched EXCEPT ![r] = IF p \in @ THEN @ \ {p} ELSE @ \cup {p}]
    BY <2>1
  <2>3. (\A s \in Repos : touched'[s] \subseteq Tracked[s]) /\ touched' = [s \in Repos |-> touched'[s]]
    BY <2>2 DEF Typed, WorldTyped
  <2> QED BY <1>2, <1>3, <1>5, <2>3 DEF Typed, WorldTyped
<1> QED BY <1>1, <1>4, <1>5

LEMMA ReopenTyped == Typed /\ Reopen => Typed'
<1> SUFFICES ASSUME Typed, Reopen PROVE Typed'
  OBVIOUS
<1>1. /\ at = "stopped" /\ acts' = acts + 1 /\ status' = "READY"
      /\ answer' = None /\ accepted' = None /\ base' = Len(occurrences)
      /\ UNCHANGED <<asked, http, memory, outside, turns, faults, crashes>>
  BY DEF Reopen
<1>2. /\ at' = at /\ bound' = bound /\ plan' = plan /\ attempts' = attempts /\ got' = got
      /\ occurrences' = occurrences /\ pointers' = pointers /\ fresh' = fresh
  BY <1>1 DEF memory, http
<1>3. RowTyped'
  BY <1>1, <1>2 DEF Typed, RowTyped
<1>4. MemoryTyped' /\ Within'
  BY <1>1, <1>2 DEF Typed, MemoryTyped, Within
<1>5. RecordsTyped'
  BY <1>1, <1>2, Counting DEF Typed, RecordsTyped
<1>6. WorldTyped'
  BY <1>1, WorldUnchanged, Counting
<1> QED BY <1>3, <1>4, <1>5, <1>6 DEF Typed

LEMMA TypedInit == Init => Typed
<1> SUFFICES ASSUME Init PROVE Typed
  OBVIOUS
<1>1. RowTyped
  BY DEF Init, RowTyped
<1>2. WorldTyped
  <2>1. \A u \in Urls : web[u] \in Pages[u]
    BY ClosureAssumption DEF Init
  <2>2. web = FirstWeb /\ \A r \in Repos : touched[r] = {}
    BY DEF Init
  <2>3. web = [u \in Urls |-> web[u]]
    BY <2>2, ClosureAssumption
  <2>4. \A r \in Repos : touched[r] \subseteq Tracked[r]
    BY <2>2
  <2> QED BY <2>1, <2>3, <2>4 DEF Init, WorldTyped
<1>3. RecordsTyped
  BY DEF Init, RecordsTyped
<1>4. MemoryTyped /\ Within
  BY DEF Init, MemoryTyped, Within
<1> QED BY <1>1, <1>2, <1>3, <1>4 DEF Typed

LEMMA TypedNext == Typed /\ [Next]_vars => Typed'
<1> SUFFICES ASSUME Typed, [Next]_vars PROVE Typed'
  OBVIOUS
<1>1. CASE Run
  BY <1>1, RunTyped
<1>2. CASE Answer
  BY <1>2, AnswerTyped
<1>3. CASE GiveUp
  BY <1>3, GiveUpTyped
<1>4. CASE Reuse
  BY <1>4, ReuseTyped
<1>5. CASE Download
  BY <1>5, DownloadTyped
<1>6. CASE KeepPointer
  BY <1>6, KeepPointerTyped
<1>7. CASE DownloadFails
  BY <1>7, DownloadFailsTyped
<1>8. CASE BreaksOff
  BY <1>8, BreaksOffTyped
<1>9. CASE BindDocument
  BY <1>9, BindDocumentTyped
<1>10. CASE Import
  BY <1>10, ImportTyped
<1>11. CASE Verify
  BY <1>11, VerifyTyped
<1>12. CASE Collect
  BY <1>12, CollectTyped
<1>13. CASE Finalize
  BY <1>13, FinalizeTyped
<1>14. CASE Crash
  BY <1>14, CrashTyped
<1>15. CASE Disturb
  BY <1>15, DisturbTyped
<1>16. CASE Reopen
  BY <1>16, ReopenTyped
<1>17. CASE UNCHANGED vars
  <2>1. /\ UNCHANGED <<status, answer, asked, accepted, occurrences, pointers, fresh, base>>
        /\ UNCHANGED <<at, bound, plan, attempts, got, web, touched, turns, faults, crashes, acts>>
    BY <1>17 DEF vars, stage, http, memory, outside, bounds
  <2>2. RowTyped' /\ WorldTyped'
    BY <2>1 DEF Typed, RowTyped, WorldTyped
  <2>3. RecordsTyped'
    BY <2>1 DEF Typed, RecordsTyped
  <2>4. MemoryTyped'
    BY <2>1 DEF Typed, MemoryTyped
  <2>5. Within'
    BY <2>1 DEF Typed, Within
  <2> QED BY <2>2, <2>3, <2>4, <2>5 DEF Typed
<1> QED BY <1>1, <1>2, <1>3, <1>4, <1>5, <1>6, <1>7, <1>8, <1>9, <1>10, <1>11, <1>12, <1>13,
           <1>14, <1>15, <1>16, <1>17 DEF Next, Controller

LEMMA TypedAlways == Spec => []Typed
<1>1. Typed /\ [Next]_vars => Typed'
  BY TypedNext
<1> QED BY TypedInit, <1>1, PTL DEF Spec

LEMMA TypedIsTypeOK == Typed => TypeOK
<1> SUFFICES ASSUME Typed PROVE TypeOK
  OBVIOUS
<1>1. (accepted # None) = (status = "PASS")
  BY DEF Typed, RowTyped
<1>2. \A n \in DOMAIN occurrences : occurrences[n] \in Occurrence
  <2>1. occurrences \in Seq(Occurrence)
    BY DEF Typed, RecordsTyped
  <2> QED BY <2>1
<1>3. bound # <<>> => at = "bind" /\ Len(bound) <= Len(Documents)
  BY DocumentsAre DEF Typed, MemoryTyped, Within, BindOK
<1>4. attempts # <<>> => at \in {"collect", "finalize"} /\ Len(attempts) <= Len(Locators)
  <2>1. at = "collect" => Len(attempts) <= Len(LocatorsOf(plan))
    BY LocatorHere, SlotsCounted DEF Collecting
  <2> QED BY <2>1, LocatorsAre DEF Typed, MemoryTyped, Within
<1>5. got # <<>> => at \in {"bind", "collect"} /\ Len(got) <= Len(UrlsOf(Thing))
  <2>1. got # <<>> => at \in {"bind", "collect"}
    BY DEF Typed, MemoryTyped
  <2>2. got # <<>> /\ at = "bind" => Len(got) <= Len(UrlsOf(Thing))
    BY DocumentsAre DEF Typed, Within, BindOK, Room, Thing
  <2>3. got # <<>> /\ at = "collect" => Len(got) <= Len(UrlsOf(Thing))
    BY LocatorHere DEF Collecting, Thing
  <2> QED BY <2>1, <2>2, <2>3
<1>6. {turns, faults, crashes, acts} \subseteq Nat
  BY Counting
<1>7. fresh # 0 => at \in {"bind", "collect"}
  BY DEF Typed, MemoryTyped
<1>8. plan # <<>> => at \in {"verify", "collect", "finalize"}
  BY DEF Typed, MemoryTyped
<1>9. /\ status \in {"READY", "RUNNING", "BLOCKED", "PASS"}
      /\ answer \in Answers \cup {None} /\ asked \in BOOLEAN
      /\ \A u \in Urls : web[u] \in Pages[u]
      /\ \A r \in Repos : touched[r] \subseteq Tracked[r]
  BY DEF Typed, RowTyped, WorldTyped
<1>10. /\ base \in 0 .. Len(occurrences) /\ pointers \in [Urls -> 0 .. Len(occurrences)]
       /\ fresh \in 0 .. Len(occurrences)
  BY DEF Typed, RecordsTyped
<1>11. at \in {"stopped", "worker", "bind", "verify", "collect", "finalize"}
  BY DEF Typed, MemoryTyped
<1> QED BY <1>1, <1>2, <1>3, <1>4, <1>5, <1>6, <1>7, <1>8, <1>9, <1>10, <1>11 DEF TypeOK

\* The controller looks for the next document or locator only where the answer
\* or the plan has one, and what it remembers is of what it does.
THEOREM TypeCorrect == Spec => []TypeOK
BY TypedAlways, TypedIsTypeOK, PTL

-----------------------------------------------------------------------------
(* Downloads.                                                              *)

\* The last content taken from a URL in the attempt.
LastTaken(n) ==
  /\ occurrences[n].taken
  /\ \A k \in n + 1 .. Len(occurrences) : occurrences[k].taken => occurrences[k].url # occurrences[n].url

\* It is the one to reuse, as soon as its pointer is written.
Kept ==
  crashes = 0 =>
    \A n \in base + 1 .. Len(occurrences) :
      LastTaken(n) => pointers[occurrences[n].url] = n \/ fresh = n

Pending ==
  fresh # 0 => fresh = Len(occurrences) /\ occurrences[fresh].taken /\ occurrences[fresh].url = Url

Once == Typed /\ Kept /\ Pending /\ DownloadedOnce

LEMMA OnceInit == Init => Once
<1> SUFFICES ASSUME Init PROVE Once
  OBVIOUS
<1>1. Typed
  BY TypedInit
<1>2. occurrences = <<>> /\ base = 0 /\ fresh = 0
  BY DEF Init
<1>3. base + 1 .. Len(occurrences) = {}
  BY <1>2
<1> QED BY <1>1, <1>2, <1>3 DEF Once, Kept, Pending, DownloadedOnce

LEMMA UrlUnchanged ==
  ASSUME answer' = answer, at' = at, bound' = bound, plan' = plan, attempts' = attempts, got' = got
  PROVE  Url' = Url
<1>1. Document' = Document /\ Locator' = Locator
  BY DEF Document, Locator
<1>2. Thing' = Thing
  BY <1>1 DEF Thing
<1> QED BY <1>2 DEF Url

\* A step that leaves the records and the retrieval under way alone.
LEMMA OnceUnchanged ==
  ASSUME Once, Typed', UNCHANGED <<http, base, crashes>>, fresh = 0 \/ UNCHANGED <<stage, memory>>
  PROVE  Once'
<1>1. occurrences' = occurrences /\ pointers' = pointers /\ fresh' = fresh /\ base' = base
      /\ crashes' = crashes
  BY DEF http
<1>2. Kept'
  BY <1>1 DEF Once, Kept, LastTaken
<1>3. Pending'
  <2>1. CASE fresh = 0
    BY <1>1, <2>1 DEF Pending
  <2>2. CASE UNCHANGED <<stage, memory>>
    <3>1. answer' = answer /\ at' = at /\ bound' = bound /\ plan' = plan /\ attempts' = attempts
          /\ got' = got
      BY <2>2 DEF stage, memory
    <3>2. Url' = Url
      BY <3>1, UrlUnchanged
    <3> QED BY <1>1, <3>2 DEF Once, Pending
  <2> QED BY <2>1, <2>2
<1>4. DownloadedOnce'
  BY <1>1 DEF Once, DownloadedOnce
<1> QED BY <1>2, <1>3, <1>4 DEF Once

LEMMA DownloadOnce ==
  ASSUME Once, Typed', Download
  PROVE  Once'
<1> DEFINE page == web[Url]
           taken == Expected \in {None, page.digest}
           new == [url |-> Url, digest |-> page.digest, host |-> page.host, taken |-> taken]
           len == Len(occurrences)
<1>1. /\ Retrieving /\ fresh = 0 /\ ~Reusable
      /\ occurrences' = Append(occurrences, new)
      /\ base' = base /\ pointers' = pointers /\ crashes' = crashes
      /\ \/ taken /\ fresh' = Len(occurrences') /\ UNCHANGED <<stage, memory>>
         \/ ~taken /\ UNCHANGED fresh
  BY DEF Download, Retrieving, bounds
<1>2. /\ len \in Nat /\ base \in 0 .. len /\ Len(occurrences') = len + 1
      /\ occurrences'[len + 1] = new /\ \A k \in 1 .. len : occurrences'[k] = occurrences[k]
  <2>1. occurrences \in Seq(Occurrence) /\ base \in 0 .. len
    BY DEF Once, Typed, RecordsTyped
  <2> HIDE DEF new
  <2> QED BY <1>1, <2>1
<1>3. new.taken = taken /\ new.url = Url /\ new.digest = page.digest
  OBVIOUS
<1>4. ASSUME crashes = 0, taken, NEW m \in base + 1 .. len, LastTaken(m), occurrences[m].url = Url
      PROVE  occurrences[m].digest # page.digest
  <2>1. pointers[Url] = m
    BY <1>1, <1>2, <1>4 DEF Once, Kept
  <2>2. Current(m) /\ m # 0
    BY <1>2 DEF Current
  <2>3. Expected \notin {None, occurrences[m].digest}
    BY <1>1, <2>1, <2>2 DEF Reusable
  <2> QED BY <1>4, <2>3
<1>5. new.taken <=> taken
  BY <1>3
<1> HIDE DEF new, page, taken
<1> HIDE DEF len
<1>6. DownloadedOnce'
  <2> SUFFICES ASSUME NEW n \in base + 1 .. len + 1, NEW m \in base + 1 .. n - 1,
                      occurrences'[m].taken, occurrences'[n].taken,
                      occurrences'[m].url = occurrences'[n].url,
                      \A k \in m + 1 .. n - 1 :
                        occurrences'[k].taken => occurrences'[k].url # occurrences'[n].url,
                      ~(crashes > 0)
               PROVE  occurrences'[m].digest # occurrences'[n].digest
    BY <1>1, <1>2 DEF DownloadedOnce
  <2>1. m \in 1 .. len /\ occurrences'[m] = occurrences[m]
    BY <1>2
  <2>2. \A k \in m + 1 .. n - 1 : k \in 1 .. len /\ occurrences'[k] = occurrences[k]
    BY <1>2, <2>1
  <2>3. crashes = 0
    <3>1. crashes \in Nat
      BY Counting DEF Once
    <3> QED BY <3>1
  <2>4. CASE n <= len
    <3>1. n \in base + 1 .. len /\ occurrences'[n] = occurrences[n]
      BY <1>2, <2>4
    <3>2. /\ occurrences[m].taken /\ occurrences[n].taken /\ occurrences[m].url = occurrences[n].url
          /\ \A k \in m + 1 .. n - 1 : occurrences[k].taken => occurrences[k].url # occurrences[n].url
      BY <2>1, <2>2, <3>1
    <3>3. occurrences[m].digest # occurrences[n].digest
      BY <3>1, <3>2 DEF Once, DownloadedOnce, len
    <3> QED BY <2>1, <3>1, <3>3
  <2>5. CASE n = len + 1
    <3>1. taken /\ occurrences[m].url = Url /\ occurrences[m].taken
      BY <1>2, <1>3, <1>5, <2>1, <2>5
    <3>2. m \in base + 1 .. len /\ n - 1 = len
      BY <1>2, <2>5
    <3>3. \A k \in m + 1 .. len : occurrences[k].taken => occurrences[k].url # occurrences[m].url
      BY <1>2, <1>3, <2>2, <2>5, <3>1, <3>2
    <3>4. LastTaken(m)
      BY <3>1, <3>3 DEF LastTaken, len
    <3>5. occurrences[m].digest # page.digest
      BY <1>4, <2>3, <3>1, <3>2, <3>4
    <3> QED BY <1>2, <1>3, <2>1, <2>5, <3>5
  <2> QED BY <1>2, <2>4, <2>5
<1>7. Kept'
  <2> SUFFICES ASSUME crashes = 0, NEW n \in base + 1 .. len + 1, LastTaken(n)'
               PROVE  pointers[occurrences'[n].url] = n \/ fresh' = n
    BY <1>1, <1>2 DEF Kept
  <2>1. CASE n = len + 1
    <3>1. taken
      BY <1>2, <1>5, <2>1 DEF LastTaken
    <3> QED BY <1>1, <1>2, <2>1, <3>1
  <2>2. CASE n <= len
    <3>1. n \in base + 1 .. len /\ n \in 1 .. len /\ occurrences'[n] = occurrences[n]
      BY <1>2, <2>2
    <3>2. \A k \in n + 1 .. len : occurrences[k].taken => occurrences[k].url # occurrences[n].url
      <4>1. \A k \in n + 1 .. len : k \in n + 1 .. len + 1 /\ k \in 1 .. len
        BY <1>2, <3>1
      <4>2. \A k \in n + 1 .. len + 1 : occurrences'[k].taken => occurrences'[k].url # occurrences'[n].url
        BY <1>2 DEF LastTaken
      <4> QED BY <1>2, <3>1, <4>1, <4>2
    <3>3. LastTaken(n)
      BY <3>1, <3>2 DEF LastTaken, len
    <3>4. pointers[occurrences[n].url] = n
      BY <1>1, <1>2, <3>1, <3>3 DEF Once, Kept, len
    <3> QED BY <3>1, <3>4
  <2> QED BY <1>2, <2>1, <2>2
<1>8. Pending'
  <2>1. CASE taken /\ fresh' = Len(occurrences') /\ UNCHANGED <<stage, memory>>
    <3>1. answer' = answer /\ at' = at /\ bound' = bound /\ plan' = plan /\ attempts' = attempts
          /\ got' = got
      BY <2>1 DEF stage, memory
    <3>2. Url' = Url
      BY <3>1, UrlUnchanged
    <3>3. occurrences'[fresh'].taken /\ occurrences'[fresh'].url = Url
      BY <1>2, <1>3, <1>5, <2>1
    <3> QED BY <2>1, <3>2, <3>3 DEF Pending
  <2>2. CASE UNCHANGED fresh
    BY <1>1, <2>2 DEF Pending
  <2> QED BY <1>1, <2>1, <2>2
<1> QED BY <1>6, <1>7, <1>8 DEF Once

LEMMA KeepPointerOnce ==
  ASSUME Once, Typed', KeepPointer
  PROVE  Once'
<1>1. /\ fresh # 0 /\ fresh' = 0 /\ pointers' = [pointers EXCEPT ![Url] = fresh]
      /\ occurrences' = occurrences /\ base' = base /\ crashes' = crashes
  BY DEF KeepPointer, bounds
<1>2. /\ fresh = Len(occurrences) /\ occurrences[fresh].taken /\ occurrences[fresh].url = Url
      /\ Len(occurrences) \in Nat /\ base \in 0 .. Len(occurrences)
  BY <1>1, Counting DEF Once, Pending, Typed, RecordsTyped
<1>3. Kept'
  <2> SUFFICES ASSUME crashes = 0, NEW n \in base + 1 .. Len(occurrences), LastTaken(n)
               PROVE  pointers'[occurrences[n].url] = n
    BY <1>1 DEF Kept, LastTaken
  <2>1. occurrences[n].url \in Urls /\ pointers \in [Urls -> 0 .. Len(occurrences)]
    <3>1. occurrences \in Seq(Occurrence) /\ n \in 1 .. Len(occurrences)
      BY <1>2 DEF Once, Typed, RecordsTyped
    <3>2. occurrences[n] \in Occurrence
      BY <3>1, ElementOfSeq
    <3> QED BY <3>2 DEF Once, Typed, RecordsTyped, Occurrence
  <2>2. CASE n = fresh
    BY <1>1, <1>2, <2>1, <2>2
  <2>3. CASE n # fresh
    <3>1. fresh \in n + 1 .. Len(occurrences)
      BY <1>2, <2>3
    <3>2. occurrences[n].url # Url
      BY <1>2, <3>1 DEF LastTaken
    <3>3. pointers[occurrences[n].url] = n
      BY <2>3 DEF Once, Kept
    <3> QED BY <1>1, <2>1, <3>2, <3>3
  <2> QED BY <2>2, <2>3
<1>4. Pending'
  BY <1>1 DEF Pending
<1>5. DownloadedOnce'
  BY <1>1 DEF Once, DownloadedOnce
<1> QED BY <1>3, <1>4, <1>5 DEF Once

LEMMA CrashOnce ==
  ASSUME Once, Typed', Crash
  PROVE  Once'
<1>1. crashes' = crashes + 1 /\ fresh' = 0 /\ crashes \in Nat
  BY Counting DEF Crash, Once
<1>2. crashes' > 0 /\ crashes' # 0
  BY <1>1
<1> QED BY <1>1, <1>2 DEF Once, Kept, Pending, DownloadedOnce

LEMMA ReopenOnce ==
  ASSUME Once, Typed', Reopen
  PROVE  Once'
<1>1. at = "stopped" /\ base' = Len(occurrences) /\ UNCHANGED http
  BY DEF Reopen
<1>2. fresh' = 0
  BY <1>1 DEF Once, Typed, MemoryTyped, http
<1>3. base' + 1 .. Len(occurrences') = {}
  <2>1. Len(occurrences) \in Nat /\ occurrences' = occurrences
    BY <1>1, Counting DEF Once, http
  <2> QED BY <1>1, <2>1
<1> QED BY <1>2, <1>3 DEF Once, Kept, Pending, DownloadedOnce

LEMMA OnceNext == Once /\ [Next]_vars => Once'
<1> SUFFICES ASSUME Once, [Next]_vars PROVE Once'
  OBVIOUS
<1>1. Typed /\ Typed'
  BY TypedNext DEF Once
<1>2. at \notin {"bind", "collect"} => fresh = 0
  BY <1>1 DEF Typed, MemoryTyped
<1>3. CASE Run \/ Answer \/ GiveUp \/ Verify \/ Finalize
  <2>1. fresh = 0 /\ UNCHANGED <<http, base, crashes>>
    BY <1>2, <1>3 DEF Run, Answer, GiveUp, Verify, Finalize, bounds
  <2> QED BY <1>1, <2>1, OnceUnchanged
<1>4. CASE Reuse \/ DownloadFails \/ BreaksOff \/ BindDocument \/ Collect
  <2>1. fresh = 0 /\ UNCHANGED <<http, base, crashes>>
    BY <1>4 DEF Reuse, DownloadFails, BreaksOff, BindDocument, Collect, Retrieving, bounds
  <2> QED BY <1>1, <2>1, OnceUnchanged
<1>5. CASE Import
  <2>1. at = "bind" /\ Len(bound) = Len(Documents) /\ UNCHANGED <<http, base, crashes>>
    BY <1>5 DEF Import, bounds
  <2>2. answer \in Answers
    BY <1>1, <2>1 DEF Typed, MemoryTyped
  <2>3. ~(Len(bound) < Len(DocumentsOf(answer.items)))
    BY <1>1, <2>1, <2>2, SlotsCounted, DocumentsAre
  <2>4. fresh = 0
    BY <1>1, <2>1, <2>3 DEF Typed, Within, BindOK
  <2> QED BY <1>1, <2>1, <2>4, OnceUnchanged
<1>6. CASE Download
  BY <1>1, <1>6, DownloadOnce
<1>7. CASE KeepPointer
  BY <1>1, <1>7, KeepPointerOnce
<1>8. CASE Crash
  BY <1>1, <1>8, CrashOnce
<1>9. CASE Reopen
  BY <1>1, <1>9, ReopenOnce
<1>10. CASE Disturb
  BY <1>1, <1>10, OnceUnchanged DEF Disturb
<1>11. CASE UNCHANGED vars
  BY <1>1, <1>11, OnceUnchanged DEF vars, bounds
<1> QED BY <1>3, <1>4, <1>5, <1>6, <1>7, <1>8, <1>9, <1>10, <1>11 DEF Next, Controller

\* docs/ACQUISITION.md's promise of reuse: in an attempt that did not crash, what
\* a URL gave is downloaded again only after something else was asked of it.
THEOREM ContentDownloadedOnce == Spec => []DownloadedOnce
<1>1. Once /\ [Next]_vars => Once'
  BY OnceNext
<1>2. Once => DownloadedOnce
  BY DEF Once
<1> QED BY OnceInit, <1>1, <1>2, PTL DEF Spec

-----------------------------------------------------------------------------
(* Copies.                                                                 *)

CurrentIn(occ, bs, ref) == bs < ref /\ ref <= Len(occ)

\* The content d is what would be reused for u.
StoredIn(occ, ptr, bs, u, d) ==
  ptr[u] # 0 /\ CurrentIn(occ, bs, ptr[u]) /\ occ[ptr[u]].digest = d

\* What was bound could be retrieved again without a download, from two hosts.
HeldIn(occ, ptr, bs, l) ==
  /\ StoredIn(occ, ptr, bs, l.url, l.digest)
  /\ l.basis.kind = "copies" =>
       /\ \A k \in DOMAIN l.basis.copies :
            /\ l.basis.copies[k].digest = l.digest
            /\ StoredIn(occ, ptr, bs, l.basis.copies[k].url, l.digest)
       /\ \E k \in DOMAIN l.basis.copies :
            occ[ptr[l.basis.copies[k].url]].host # occ[ptr[l.url]].host

HeldSet(occ, ptr, bs) == {l \in BoundUrls : HeldIn(occ, ptr, bs, l)}

UrlSet(thing) == {UrlsOf(thing)[n] : n \in DOMAIN UrlsOf(thing)}

\* What a retrieval of thing expects once there are the responses g.
ExpectedIn(occ, thing, g) ==
  CASE thing.kind = "url" -> IF g = <<>> THEN thing.digest ELSE thing.basis.copies[Len(g)].digest
    [] thing.kind = "document" /\ g # <<>> -> occ[g[1]].digest
    [] OTHER -> None

ReusableIn(occ, ptr, bs, thing, g) ==
  LET ref == ptr[UrlsOf(thing)[Len(g) + 1]] IN
  ref # 0 /\ ExpectedIn(occ, thing, g) \in {None, occ[ref].digest} /\ CurrentIn(occ, bs, ref)

LEMMA ReusableIs ==
  /\ Reusable = ReusableIn(occurrences, pointers, base, Thing, got)
  /\ Expected = ExpectedIn(occurrences, Thing, got)
<1>1. Expected = ExpectedIn(occurrences, Thing, got)
  BY DEF Expected, ExpectedIn
<1> QED BY <1>1 DEF Reusable, ReusableIn, Url, Current, CurrentIn

\* The URLs of what was bound.
LEMMA UrlsOfBound ==
  ASSUME NEW l \in BoundUrls
  PROVE  /\ UrlsOf(l) \in Seq(Urls) /\ Len(UrlsOf(l)) \in Nat /\ Len(UrlsOf(l)) > 0
         /\ l.url \in Urls /\ UrlsOf(l)[1] = l.url
         /\ l.basis.kind # "copies" => Len(UrlsOf(l)) = 1
         /\ l.basis.kind = "copies" =>
              /\ l.basis.copies \in Seq([url : Urls, digest : Digests])
              /\ Len(UrlsOf(l)) = Len(l.basis.copies) + 1
              /\ \A k \in 1 .. Len(l.basis.copies) :
                   /\ l.basis.copies[k].url \in Urls
                   /\ UrlsOf(l)[k + 1] = l.basis.copies[k].url
<1>1. l.kind = "url" /\ l.url \in Urls /\ l.basis \in Bases
  BY DEF BoundUrls
<1>2. UrlsOf(l) \in Seq(Urls)
  BY UrlsTyped DEF Locatable
<1>3. CASE l.basis.kind = "copies"
  <2> DEFINE copies == l.basis.copies
             urls == [k \in DOMAIN copies |-> copies[k].url]
  <2>1. copies \in Seq([url : Urls, digest : Digests])
    BY <1>1, <1>3 DEF Bases
  <2>2. UrlsOf(l) = <<l.url>> \o urls
    BY <1>1, <1>3 DEF UrlsOf
  <2> HIDE DEF copies
  <2>3. DOMAIN copies = 1 .. Len(copies) /\ Len(copies) \in Nat
    BY <2>1
  <2>4. \A k \in 1 .. Len(copies) : copies[k].url \in Urls
    <3>1. \A k \in 1 .. Len(copies) : copies[k] \in [url : Urls, digest : Digests]
      BY <2>1, ElementOfSeq
    <3>2. \A copy \in [url : Urls, digest : Digests] : copy.url \in Urls
      OBVIOUS
    <3> QED BY <3>1, <3>2
  <2>5. urls \in [1 .. Len(copies) -> Urls] /\ \A k \in 1 .. Len(copies) : urls[k] = copies[k].url
    BY <2>3, <2>4
  <2> HIDE DEF urls
  <2>6. urls \in Seq(Urls) /\ Len(urls) = Len(copies)
    <3>1. \A X : \A n \in Nat : \A f \in [1 .. n -> X] : f \in Seq(X) /\ Len(f) = n
      OBVIOUS
    <3> QED BY <2>3, <2>5, <3>1
  <2>7. /\ Len(UrlsOf(l)) = Len(copies) + 1 /\ UrlsOf(l)[1] = l.url
        /\ \A k \in 1 .. Len(copies) : UrlsOf(l)[k + 1] = urls[k]
    BY <1>1, <2>2, <2>3, <2>6
  <2>8. \A k \in 1 .. Len(copies) : UrlsOf(l)[k + 1] = copies[k].url
    BY <2>5, <2>7
  <2> QED BY <1>1, <1>2, <1>3, <2>1, <2>3, <2>4, <2>7, <2>8 DEF copies
<1>4. CASE l.basis.kind # "copies"
  <2>1. UrlsOf(l) = <<l.url>>
    BY <1>1, <1>4 DEF UrlsOf
  <2> QED BY <1>1, <1>2, <1>4, <2>1
<1> QED BY <1>3, <1>4

\* Each of them is stored.
LEMMA HeldStored ==
  ASSUME NEW occ, NEW ptr, NEW bs, NEW l \in BoundUrls, HeldIn(occ, ptr, bs, l),
         NEW n \in 1 .. Len(UrlsOf(l))
  PROVE  StoredIn(occ, ptr, bs, UrlsOf(l)[n], l.digest)
<1>1. CASE n = 1
  BY <1>1, UrlsOfBound DEF HeldIn
<1>2. CASE n # 1
  <2>1. l.basis.kind = "copies"
    <3>1. l.basis.kind # "copies" => Len(UrlsOf(l)) = 1
      BY UrlsOfBound
    <3>2. ASSUME Len(UrlsOf(l)) = 1
          PROVE  FALSE
      <4>1. n \in 1 .. 1
        BY <3>2
      <4> QED BY <1>2, <4>1
    <3> QED BY <3>1, <3>2
  <2>2. l.basis.copies \in Seq([url : Urls, digest : Digests])
        /\ Len(UrlsOf(l)) = Len(l.basis.copies) + 1
    BY <2>1, UrlsOfBound
  <2>3. n - 1 \in 1 .. Len(l.basis.copies) /\ (n - 1) + 1 = n
        /\ DOMAIN l.basis.copies = 1 .. Len(l.basis.copies)
    BY <1>2, <2>2
  <2>4. UrlsOf(l)[(n - 1) + 1] = l.basis.copies[n - 1].url
    BY <2>1, <2>3, UrlsOfBound
  <2>5. StoredIn(occ, ptr, bs, l.basis.copies[n - 1].url, l.digest)
    BY <2>1, <2>3 DEF HeldIn
  <2> QED BY <2>3, <2>4, <2>5
<1> QED BY <1>1, <1>2

\* More responses on record change nothing of it.
LEMMA HeldGrows ==
  ASSUME NEW occ, NEW new, NEW ptr, NEW bs, NEW l \in BoundUrls,
         Len(occ) \in Nat, Len(new) \in Nat, Len(occ) <= Len(new), bs \in Nat,
         \A k \in 1 .. Len(occ) : new[k] = occ[k],
         ptr \in [Urls -> 0 .. Len(occ)],
         HeldIn(occ, ptr, bs, l)
  PROVE  HeldIn(new, ptr, bs, l)
<1>1. \A u \in Urls : ptr[u] # 0 => new[ptr[u]] = occ[ptr[u]] /\ ptr[u] \in Nat
  OBVIOUS
<1>2. \A u \in Urls : \A d : StoredIn(occ, ptr, bs, u, d) =>
        StoredIn(new, ptr, bs, u, d) /\ new[ptr[u]] = occ[ptr[u]]
  BY <1>1 DEF StoredIn, CurrentIn
<1>3. l.url \in Urls /\ StoredIn(occ, ptr, bs, l.url, l.digest)
  BY UrlsOfBound DEF HeldIn
<1>4. ASSUME l.basis.kind = "copies"
      PROVE  /\ \A k \in DOMAIN l.basis.copies :
                  /\ l.basis.copies[k].digest = l.digest
                  /\ StoredIn(new, ptr, bs, l.basis.copies[k].url, l.digest)
             /\ \E k \in DOMAIN l.basis.copies :
                  new[ptr[l.basis.copies[k].url]].host # new[ptr[l.url]].host
  <2>1. l.basis.copies \in Seq([url : Urls, digest : Digests])
    BY <1>4, UrlsOfBound
  <2>2. DOMAIN l.basis.copies = 1 .. Len(l.basis.copies)
    BY <2>1
  <2>3. \A k \in DOMAIN l.basis.copies :
          /\ l.basis.copies[k].url \in Urls /\ l.basis.copies[k].digest = l.digest
          /\ StoredIn(occ, ptr, bs, l.basis.copies[k].url, l.digest)
    BY <1>4, <2>2, UrlsOfBound DEF HeldIn
  <2>4. PICK k \in DOMAIN l.basis.copies :
          occ[ptr[l.basis.copies[k].url]].host # occ[ptr[l.url]].host
    BY <1>4 DEF HeldIn
  <2>5. new[ptr[l.basis.copies[k].url]].host # new[ptr[l.url]].host
    BY <1>2, <1>3, <2>3, <2>4
  <2> QED BY <1>2, <2>3, <2>5
<1> QED BY <1>2, <1>3, <1>4 DEF HeldIn

\* Nor does a pointer of another URL.
LEMMA HeldBesides ==
  ASSUME NEW occ, NEW ptr, NEW bs, NEW l \in BoundUrls, NEW u \in Urls, NEW ref, NEW T,
         ptr \in [Urls -> T], u \notin UrlSet(l), HeldIn(occ, ptr, bs, l)
  PROVE  HeldIn(occ, [ptr EXCEPT ![u] = ref], bs, l)
<1> DEFINE new == [ptr EXCEPT ![u] = ref]
<1>1. \A v \in Urls : v # u => new[v] = ptr[v]
  OBVIOUS
<1> HIDE DEF new
<1>2. DOMAIN UrlsOf(l) = 1 .. Len(UrlsOf(l))
  BY UrlsOfBound
<1>3. \A n \in 1 .. Len(UrlsOf(l)) : UrlsOf(l)[n] # u
  BY <1>2 DEF UrlSet
<1>4. l.url \in Urls /\ l.url # u
  <2>1. 1 \in 1 .. Len(UrlsOf(l)) /\ UrlsOf(l)[1] = l.url /\ l.url \in Urls
    BY UrlsOfBound
  <2> QED BY <1>3, <2>1
<1>5. ASSUME l.basis.kind = "copies"
      PROVE  \A k \in DOMAIN l.basis.copies : l.basis.copies[k].url \in Urls /\ l.basis.copies[k].url # u
  <2>1. l.basis.copies \in Seq([url : Urls, digest : Digests])
        /\ Len(UrlsOf(l)) = Len(l.basis.copies) + 1
    BY <1>5, UrlsOfBound
  <2>2. DOMAIN l.basis.copies = 1 .. Len(l.basis.copies)
        /\ \A k \in 1 .. Len(l.basis.copies) : k + 1 \in 1 .. Len(UrlsOf(l))
    BY <2>1
  <2>3. \A k \in 1 .. Len(l.basis.copies) :
          l.basis.copies[k].url \in Urls /\ UrlsOf(l)[k + 1] = l.basis.copies[k].url
    BY <1>5, UrlsOfBound
  <2> QED BY <1>3, <2>2, <2>3
<1>6. HeldIn(occ, new, bs, l)
  BY <1>1, <1>4, <1>5 DEF HeldIn, StoredIn
<1> QED BY <1>6 DEF new

\* Documents bound, of the answer in its order.
Bounded(occ, ptr, bs, items, bd) ==
  \A k \in 1 .. Len(bd) : bd[k] # None =>
    /\ bd[k] \in HeldSet(occ, ptr, bs)
    /\ UrlSet(bd[k]) \subseteq UrlSet(DocumentAt(items, k))

\* The responses to the retrieval under way are what would be reused.
GotIs(ptr, thing, g) ==
  thing.kind # "reference" => \A n \in 1 .. Len(g) : g[n] = ptr[UrlsOf(thing)[n]]

GotSame(occ, bs, g) ==
  \A n \in 1 .. Len(g) : CurrentIn(occ, bs, g[n]) /\ occ[g[n]].digest = occ[g[1]].digest

TwoHosts(occ, refs) ==
  \E n \in DOMAIN refs :
    refs[n] \in 1 .. Len(occ) /\ refs[1] \in 1 .. Len(occ) /\ occ[refs[n]].host # occ[refs[1]].host

Shown(occ, pl, tries) ==
  \A k \in DOMAIN tries :
    LET l == pl[tries[k].slot[1]].locators[tries[k].slot[2]] IN
    l.kind = "url" /\ l.basis.kind = "copies" /\ tries[k].outcome = "RETRIEVED" =>
      TwoHosts(occ, tries[k].refs)

ByChoices == answer \in Answers /\ answer.form = "choices"

BoundHeld == at = "bind" => Bounded(occurrences, pointers, base, answer.items, bound)

PlanHeld ==
  at \in {"verify", "collect", "finalize"} => plan \in Seq(PlanItemOf(HeldSet(occurrences, pointers, base)))

GotHeld ==
  got # <<>> =>
    /\ GotIs(pointers, Thing, got)
    /\ at = "bind" => GotSame(occurrences, base, got)

\* A response without a pointer is of a URL that had none to reuse.
Needed ==
  fresh # 0 =>
    /\ base < fresh
    /\ ~ReusableIn(occurrences, pointers, base, Thing, got)
    /\ ExpectedIn(occurrences, Thing, got) \in {None, occurrences[fresh].digest}

AcceptedShown == accepted # None => Shown(occurrences, accepted.plan, accepted.attempts)

Copies ==
  ByChoices =>
    /\ BoundHeld /\ PlanHeld /\ GotHeld /\ Needed
    /\ Shown(occurrences, plan, attempts) /\ AcceptedShown

LEMMA ShownGrows ==
  ASSUME NEW occ, NEW new, NEW pl, NEW tries, Len(occ) \in Nat, Len(new) \in Nat, Len(occ) <= Len(new),
         \A k \in 1 .. Len(occ) : new[k] = occ[k], Shown(occ, pl, tries)
  PROVE  Shown(new, pl, tries)
<1>1. \A refs : TwoHosts(occ, refs) => TwoHosts(new, refs)
  BY DEF TwoHosts
<1> QED BY <1>1 DEF Shown

LEMMA HeldSetGrows ==
  ASSUME NEW occ, NEW new, NEW ptr, NEW bs,
         Len(occ) \in Nat, Len(new) \in Nat, Len(occ) <= Len(new), bs \in Nat,
         \A k \in 1 .. Len(occ) : new[k] = occ[k],
         ptr \in [Urls -> 0 .. Len(occ)]
  PROVE  HeldSet(occ, ptr, bs) \subseteq HeldSet(new, ptr, bs)
BY HeldGrows DEF HeldSet

LEMMA PlansOf ==
  ASSUME NEW S, NEW T, S \subseteq T
  PROVE  Seq(PlanItemOf(S)) \subseteq Seq(PlanItemOf(T))
<1>1. \A A, B : A \subseteq B => Seq(A) \subseteq Seq(B)
  OBVIOUS
<1>2. Seq(Files \cup References \cup S) \subseteq Seq(Files \cup References \cup T)
  <2>1. Files \cup References \cup S \subseteq Files \cup References \cup T
    OBVIOUS
  <2> QED BY <1>1, <2>1
<1>3. PlanItemOf(S) \subseteq PlanItemOf(T)
  <2> QED BY <1>2 DEF PlanItemOf
<1> QED BY <1>1, <1>3

\* Where the records grow, what is held and shown stays so.
Grown ==
  /\ pointers' = pointers /\ base' = base
  /\ Len(occurrences') \in Nat /\ Len(occurrences) <= Len(occurrences')
  /\ \A k \in 1 .. Len(occurrences) : occurrences'[k] = occurrences[k]

LEMMA GrownHolds ==
  ASSUME Typed, Grown
  PROVE  /\ HeldSet(occurrences, pointers, base) \subseteq HeldSet(occurrences', pointers', base')
         /\ \A pl, tries : Shown(occurrences, pl, tries) => Shown(occurrences', pl, tries)
<1>1. Len(occurrences) \in Nat /\ base \in Nat /\ pointers \in [Urls -> 0 .. Len(occurrences)]
  BY Counting DEF Typed, RecordsTyped
<1>2. HeldSet(occurrences, pointers, base) \subseteq HeldSet(occurrences', pointers, base)
  BY <1>1, HeldSetGrows DEF Grown
<1>3. \A pl, tries : Shown(occurrences, pl, tries) => Shown(occurrences', pl, tries)
  BY <1>1, ShownGrows DEF Grown
<1> QED BY <1>2, <1>3 DEF Grown

LEMMA GrownSame ==
  ASSUME Typed, UNCHANGED <<http, base>>
  PROVE  Grown
BY Counting DEF Grown, http

\* A step after which the controller remembers nothing.
LEMMA CopiesIdle ==
  ASSUME Typed, at' \notin {"verify", "collect", "finalize"},
         bound' = <<>>, plan' = <<>>, attempts' = <<>>, got' = <<>>, fresh' = 0,
         AcceptedShown'
  PROVE  Copies'
<1>1. BoundHeld'
  BY DEF BoundHeld, Bounded
<1>2. PlanHeld' /\ GotHeld' /\ Needed'
  BY DEF PlanHeld, GotHeld, Needed
<1>3. Shown(occurrences', plan', attempts')
  BY DEF Shown
<1> QED BY <1>1, <1>2, <1>3 DEF Copies

LEMMA AcceptedGrows ==
  ASSUME Typed, Grown, Copies, ByChoices, accepted' = accepted
  PROVE  AcceptedShown'
BY GrownHolds DEF Copies, AcceptedShown

LEMMA CopiesFail ==
  ASSUME Typed, Grown, Copies, fresh' = 0, Fail
  PROVE  Copies'
<1>1. /\ at' = "worker" /\ answer' = answer /\ accepted' = accepted
      /\ bound' = <<>> /\ plan' = <<>> /\ attempts' = <<>> /\ got' = <<>>
  BY DEF Fail, Idle
<1>2. CASE ByChoices
  BY <1>1, <1>2, AcceptedGrows, CopiesIdle
<1>3. CASE ~ByChoices
  BY <1>1, <1>3 DEF Copies, ByChoices
<1> QED BY <1>2, <1>3

\* A retrieval that fails, whatever it put on record.
LEMMA CopiesUnbound ==
  ASSUME Typed, Grown, Copies, Binding, fresh = 0, fresh' = 0, Unbound
  PROVE  Copies'
<1> SUFFICES ASSUME ByChoices' PROVE Copies'
  BY DEF Copies
<1> DEFINE i == DocumentSlot[1]
           rest == Len(answer.items[i].documents) - DocumentSlot[2]
           nones == [k \in 1 .. rest + 1 |-> None]
<1>1. /\ bound' = bound \o nones /\ got' = <<>>
      /\ answer' = answer /\ accepted' = accepted /\ at' = at /\ plan' = plan /\ attempts' = attempts
  BY DEF Unbound, stage
<1>2. /\ at = "bind" /\ ByChoices /\ bound \in Seq(BoundUrls \cup {None}) /\ attempts = <<>>
  BY <1>1 DEF Typed, MemoryTyped, Binding, ByChoices
<1>3. rest \in Nat
  <2>1. answer.items \in Seq(AnswerItem) /\ Len(bound) + 1 \in 1 .. Len(DocumentsOf(answer.items))
    BY <1>2, AnswersTyped, DocumentHere, SlotsCounted
  <2>2. /\ answer.items[i].documents \in Seq(Choice)
        /\ DocumentSlot[2] \in 1 .. Len(answer.items[i].documents)
    BY <2>1, DocumentsAre, DocumentSlots
  <2> QED BY <2>2
<1> HIDE DEF rest
<1>4. Len(nones) = rest + 1 /\ nones \in Seq({None}) /\ \A k \in 1 .. rest + 1 : nones[k] = None
  BY <1>3
<1> HIDE DEF nones
<1>5. /\ Len(bound') = Len(bound) + (rest + 1) /\ Len(bound) \in Nat
      /\ \A k \in 1 .. Len(bound) : bound'[k] = bound[k]
      /\ \A k \in Len(bound) + 1 .. Len(bound) + (rest + 1) : bound'[k] = None
  <2>1. \A X : \A s, t \in Seq(X) :
          /\ Len(s \o t) = Len(s) + Len(t) /\ Len(s) \in Nat /\ Len(t) \in Nat
          /\ \A k \in 1 .. Len(s) : (s \o t)[k] = s[k]
          /\ \A k \in Len(s) + 1 .. Len(s) + Len(t) : (s \o t)[k] = t[k - Len(s)]
    OBVIOUS
  <2>2. nones \in Seq(BoundUrls \cup {None})
    <3>1. \A S, T : S \subseteq T => Seq(S) \subseteq Seq(T)
      OBVIOUS
    <3> QED BY <1>4, <3>1
  <2>3. /\ Len(bound \o nones) = Len(bound) + Len(nones) /\ Len(bound) \in Nat
        /\ \A k \in 1 .. Len(bound) : (bound \o nones)[k] = bound[k]
        /\ \A k \in Len(bound) + 1 .. Len(bound) + Len(nones) :
             (bound \o nones)[k] = nones[k - Len(bound)]
    BY <1>2, <2>1, <2>2
  <2>4. \A a, b \in Nat : \A k \in a + 1 .. a + (b + 1) : k - a \in 1 .. b + 1
    OBVIOUS
  <2> QED BY <1>1, <1>3, <1>4, <2>3, <2>4
<1>6. BoundHeld'
  <2>1. Bounded(occurrences, pointers, base, answer.items, bound)
    BY <1>2 DEF Copies, BoundHeld
  <2>2. Bounded(occurrences', pointers', base', answer.items, bound')
    <3> SUFFICES ASSUME NEW k \in 1 .. Len(bound'), bound'[k] # None
                 PROVE  /\ bound'[k] \in HeldSet(occurrences', pointers', base')
                        /\ UrlSet(bound'[k]) \subseteq UrlSet(DocumentAt(answer.items, k))
      BY DEF Bounded
    <3>1. k \in 1 .. Len(bound)
      <4>1. k \notin Len(bound) + 1 .. Len(bound) + (rest + 1)
        BY <1>5
      <4> QED BY <1>3, <1>5, <4>1
    <3>2. bound'[k] = bound[k] /\ bound[k] # None
      BY <1>5, <3>1
    <3>3. /\ bound[k] \in HeldSet(occurrences, pointers, base)
          /\ UrlSet(bound[k]) \subseteq UrlSet(DocumentAt(answer.items, k))
      BY <2>1, <3>1, <3>2 DEF Bounded
    <3> QED BY <3>2, <3>3, GrownHolds
  <2> QED BY <1>1, <2>2 DEF BoundHeld
<1>7. PlanHeld' /\ GotHeld' /\ Needed'
  BY <1>1, <1>2 DEF PlanHeld, GotHeld, Needed
<1>8. Shown(occurrences', plan', attempts')
  <2>1. attempts' = <<>>
    BY <1>1, <1>2
  <2> QED BY <2>1 DEF Shown
<1>9. AcceptedShown'
  BY <1>1, <1>2, AcceptedGrows
<1> QED BY <1>6, <1>7, <1>8, <1>9 DEF Copies

\* An attempt at a locator, that shows two hosts if it needs to.
LEMMA CopiesAttempted ==
  ASSUME Typed, Grown, Copies, Collecting, fresh = 0, fresh' = 0,
         NEW outcome \in Outcome, NEW refs \in Seq(Nat), Attempted(outcome, refs),
         ByChoices /\ outcome = "RETRIEVED" /\ Locator.kind = "url" /\ Locator.basis.kind = "copies" =>
           TwoHosts(occurrences', refs)
  PROVE  Copies'
<1> DEFINE try == [slot |-> LocatorSlot, outcome |-> outcome, refs |-> refs]
<1>1. CASE Fail
  BY <1>1, CopiesFail
<1>2. CASE ~Fail
  <2> SUFFICES ASSUME ByChoices' PROVE Copies'
    BY DEF Copies
  <2>1. /\ attempts' = Append(attempts, try) /\ got' = <<>> /\ at' \in {"finalize", "collect"}
        /\ answer' = answer /\ accepted' = accepted /\ plan' = plan /\ bound' = bound
    BY <1>2 DEF Attempted, stage
  <2>2. /\ at = "collect" /\ ByChoices /\ plan \in Seq(PlanItem) /\ attempts \in Seq(Attempt)
    BY <2>1 DEF Typed, MemoryTyped, Collecting, ByChoices
  <2>3. BoundHeld' /\ GotHeld' /\ Needed'
    BY <2>1 DEF BoundHeld, GotHeld, Needed
  <2>4. PlanHeld'
    <3>1. plan \in Seq(PlanItemOf(HeldSet(occurrences, pointers, base)))
      BY <2>2 DEF Copies, PlanHeld
    <3>2. plan \in Seq(PlanItemOf(HeldSet(occurrences', pointers', base')))
      BY <3>1, GrownHolds, PlansOf
    <3> QED BY <2>1, <3>2 DEF PlanHeld
  <2>5. Shown(occurrences', plan, Append(attempts, try))
    <3>1. Shown(occurrences', plan, attempts)
      BY <2>2, GrownHolds DEF Copies
    <3>2. /\ try.outcome = outcome /\ try.refs = refs
          /\ plan[try.slot[1]].locators[try.slot[2]] = Locator
      BY LocatorsAre DEF LocatorIn
    <3> HIDE DEF try
    <3>3. /\ Len(attempts) \in Nat /\ DOMAIN Append(attempts, try) = 1 .. Len(attempts) + 1
          /\ DOMAIN attempts = 1 .. Len(attempts)
          /\ Append(attempts, try)[Len(attempts) + 1] = try
          /\ \A k \in 1 .. Len(attempts) : Append(attempts, try)[k] = attempts[k]
      BY <2>2
    <3> DEFINE tries == Append(attempts, try)
    <3> HIDE DEF tries
    <3> SUFFICES ASSUME NEW k \in 1 .. Len(attempts) + 1
                 PROVE  LET l == plan[tries[k].slot[1]].locators[tries[k].slot[2]] IN
                        l.kind = "url" /\ l.basis.kind = "copies" /\ tries[k].outcome = "RETRIEVED" =>
                          TwoHosts(occurrences', tries[k].refs)
      BY <3>3 DEF Shown, tries
    <3>4. CASE k = Len(attempts) + 1
      <4>1. tries[k] = try
        BY <3>3, <3>4 DEF tries
      <4> QED BY <2>2, <3>2, <4>1
    <3>5. CASE k # Len(attempts) + 1
      <4>1. k \in 1 .. Len(attempts)
        BY <3>3, <3>5
      <4>2. tries[k] = attempts[k]
        BY <3>3, <4>1 DEF tries
      <4> QED BY <3>1, <3>3, <4>1, <4>2 DEF Shown
    <3> QED BY <3>4, <3>5
  <2>6. AcceptedShown'
    BY <2>1, <2>2, AcceptedGrows
  <2> HIDE DEF try
  <2> QED BY <2>1, <2>3, <2>4, <2>5, <2>6 DEF Copies
<1> QED BY <1>1, <1>2

LEMMA CopiesRetrievalFails ==
  ASSUME Typed, Grown, Copies, Retrieving, fresh' = 0,
         NEW outcome \in Outcome, outcome # "RETRIEVED", NEW refs \in Seq(Nat),
         RetrievalFails(outcome, refs)
  PROVE  Copies'
<1>1. fresh = 0
  BY DEF Retrieving
<1>2. CASE at = "bind"
  <2>1. Binding /\ Unbound
    BY <1>2 DEF Retrieving, Collecting, RetrievalFails
  <2> QED BY <1>1, <2>1, CopiesUnbound
<1>3. CASE at # "bind"
  <2>1. Collecting /\ Attempted(outcome, got \o refs)
    BY <1>3 DEF Retrieving, Binding, RetrievalFails
  <2>2. got \o refs \in Seq(Nat)
    <3>1. got \in Seq(Nat)
      BY GotNat
    <3> QED BY <3>1
  <2> QED BY <1>1, <2>1, <2>2, CopiesAttempted
<1> QED BY <1>2, <1>3

\* What a retrieval of a document, and one of something bound, expects.
LEMMA ThingKinds ==
  ASSUME Typed, Retrieving \/ fresh # 0
  PROVE  /\ at = "bind" => Thing = DocumentAt(answer.items, Len(bound) + 1) /\ Thing \in Choice
                           /\ Thing.kind = "document"
         /\ at = "collect" => Thing = LocatorIn(plan, Len(attempts) + 1) /\ Thing = Locator
         /\ Url = UrlsOf(Thing)[Len(got) + 1]
<1>1. at = "bind" => Thing = Document /\ Binding
  BY ThingHere DEF Thing
<1>2. at = "bind" => Thing \in Choice
  BY <1>1, DocumentHere
<1>3. \A c \in Choice : c.kind = "document"
  BY DEF Choice
<1> QED BY <1>1, <1>2, <1>3, DocumentsAre, LocatorsAre DEF Thing, Url

\* In the retrieval of a locator of a plan that is held, all of its URLs are reused.
LEMMA HeldReusable ==
  ASSUME NEW occ, NEW ptr, NEW bs, NEW l \in BoundUrls, HeldIn(occ, ptr, bs, l),
         NEW g, Len(g) \in Nat, Len(g) < Len(UrlsOf(l)), g = <<>> <=> Len(g) = 0
  PROVE  ReusableIn(occ, ptr, bs, l, g)
<1>1. Len(g) + 1 \in 1 .. Len(UrlsOf(l)) /\ l.kind = "url"
  BY UrlsOfBound DEF BoundUrls
<1>2. StoredIn(occ, ptr, bs, UrlsOf(l)[Len(g) + 1], l.digest)
  BY <1>1, HeldStored
<1>3. ExpectedIn(occ, l, g) = l.digest
  <2>1. CASE g = <<>>
    BY <1>1, <2>1 DEF ExpectedIn
  <2>2. CASE g # <<>>
    <3>1. Len(g) # 0
      BY <2>2
    <3>2. l.basis.kind = "copies"
      <4>1. l.basis.kind # "copies" => Len(UrlsOf(l)) = 1
        BY UrlsOfBound
      <4>2. ASSUME Len(UrlsOf(l)) = 1
            PROVE  FALSE
        <5>1. Len(g) < 1
          BY <4>2
        <5> QED BY <3>1, <5>1
      <4> QED BY <4>1, <4>2
    <3>3. /\ l.basis.copies \in Seq([url : Urls, digest : Digests])
          /\ Len(UrlsOf(l)) = Len(l.basis.copies) + 1
      BY <3>2, UrlsOfBound
    <3>4. Len(g) \in DOMAIN l.basis.copies
      <4>1. Len(g) < Len(l.basis.copies) + 1 /\ Len(l.basis.copies) \in Nat
        BY <3>3
      <4>2. Len(g) \in 1 .. Len(l.basis.copies)
        BY <3>1, <4>1
      <4> QED BY <3>3, <4>2
    <3>5. l.basis.copies[Len(g)].digest = l.digest
      BY <3>2, <3>4 DEF HeldIn
    <3> QED BY <1>1, <2>2, <3>5 DEF ExpectedIn
  <2> QED BY <2>1, <2>2
<1> QED BY <1>2, <1>3 DEF ReusableIn, StoredIn

\* A locator of the plan that is a URL is held.
LEMMA LocatorHeld ==
  ASSUME NEW S \in SUBSET BoundUrls, NEW items \in Seq(PlanItemOf(S)),
         NEW p \in 1 .. Len(LocatorsOf(items)), LocatorIn(items, p).kind = "url"
  PROVE  LocatorIn(items, p) \in S
<1>1. items \in Seq(PlanItem)
  BY NarrowerPlans
<1> DEFINE slot == LocatorsOf(items)[p]
           locators == items[slot[1]].locators
<1>2. slot[1] \in 1 .. Len(items) /\ slot[2] \in 1 .. Len(locators)
  BY <1>1, LocatorSlots
<1> HIDE DEF slot
<1>3. items[slot[1]] \in PlanItemOf(S)
  BY <1>2, ElementOfSeq
<1>4. locators \in Seq(Files \cup References \cup S)
  BY <1>3 DEF PlanItemOf
<1> HIDE DEF locators
<1>5. locators[slot[2]] \in Files \cup References \cup S
  BY <1>2, <1>4, ElementOfSeq
<1>6. LocatorIn(items, p) \in Files \cup References \cup S
  BY <1>5 DEF LocatorIn, slot, locators
<1>7. (\A f \in Files : f.kind = "git") /\ (\A r \in References : r.kind = "reference")
  BY DEF Files, References
<1> QED BY <1>6, <1>7

LEMMA CollectingHeld ==
  ASSUME Typed, Copies, ByChoices, Collecting, Locator.kind = "url"
  PROVE  Locator \in BoundUrls /\ HeldIn(occurrences, pointers, base, Locator)
<1>1. plan \in Seq(PlanItemOf(HeldSet(occurrences, pointers, base)))
  BY DEF Copies, PlanHeld, Collecting
<1>2. Len(attempts) + 1 \in 1 .. Len(LocatorsOf(plan))
  BY LocatorHere, SlotsCounted
<1>3. LocatorIn(plan, Len(attempts) + 1).kind = "url"
  BY LocatorsAre
<1>4. HeldSet(occurrences, pointers, base) \in SUBSET BoundUrls
  BY DEF HeldSet
<1>5. LocatorIn(plan, Len(attempts) + 1) \in HeldSet(occurrences, pointers, base)
  BY <1>1, <1>2, <1>3, <1>4, LocatorHeld
<1> QED BY <1>5, LocatorsAre DEF HeldSet

\* The controller remembers the same of what it retrieves.
LEMMA ThingUnchanged ==
  ASSUME answer' = answer, at' = at, bound' = bound, plan' = plan, attempts' = attempts
  PROVE  Thing' = Thing
<1>1. Document' = Document /\ Locator' = Locator
  BY DEF Document, Locator
<1> QED BY <1>1 DEF Thing

\* What does not depend on the responses to the retrieval under way.
LEMMA CopiesRest ==
  ASSUME Typed, Grown, Copies, ByChoices,
         UNCHANGED <<answer, accepted, at, bound, plan, attempts>>
  PROVE  BoundHeld' /\ PlanHeld' /\ Shown(occurrences', plan', attempts') /\ AcceptedShown'
<1>1. BoundHeld'
  BY GrownHolds DEF Copies, BoundHeld, Bounded
<1>2. PlanHeld'
  <2> SUFFICES ASSUME at \in {"verify", "collect", "finalize"}
               PROVE  plan \in Seq(PlanItemOf(HeldSet(occurrences', pointers', base')))
    BY DEF PlanHeld
  <2>1. plan \in Seq(PlanItemOf(HeldSet(occurrences, pointers, base)))
    BY DEF Copies, PlanHeld
  <2> QED BY <2>1, GrownHolds, PlansOf
<1>3. Shown(occurrences', plan', attempts')
  BY GrownHolds DEF Copies
<1> QED BY <1>1, <1>2, <1>3, AcceptedGrows

LEMMA GotDigest ==
  ASSUME Typed, NEW n \in 1 .. Len(got)
  PROVE  /\ got[n] \in 1 .. Len(occurrences)
         /\ occurrences[got[n]].digest \in Digests /\ occurrences[got[n]].digest # None
<1>1. got \in Seq(1 .. Len(occurrences)) /\ occurrences \in Seq(Occurrence)
  BY DEF Typed, RecordsTyped
<1>2. got[n] \in 1 .. Len(occurrences)
  BY <1>1, ElementOfSeq
<1>3. occurrences[got[n]] \in Occurrence
  BY <1>1, <1>2, ElementOfSeq
<1>4. occurrences[got[n]].digest \in Digests
  BY <1>3 DEF Occurrence
<1> QED BY <1>2, <1>4, ClosureAssumption

LEMMA CopiesReuse ==
  ASSUME Typed, Copies, Reuse
  PROVE  Copies'
<1> DEFINE ref == pointers[Url]
<1>1. /\ Retrieving /\ fresh = 0 /\ Reusable /\ got' = Append(got, ref)
      /\ UNCHANGED <<http, base>>
      /\ UNCHANGED <<answer, accepted, at, bound, plan, attempts>>
  BY DEF Reuse, Retrieving, stage
<1> SUFFICES ASSUME ByChoices' PROVE Copies'
  BY DEF Copies
<1>2. Grown /\ ByChoices
  BY <1>1, GrownSame DEF ByChoices
<1>3. /\ occurrences' = occurrences /\ pointers' = pointers /\ fresh' = 0 /\ base' = base
      /\ Thing' = Thing
  BY <1>1, ThingUnchanged DEF http
<1>4. /\ Len(got) \in Nat /\ Len(got') = Len(got) + 1 /\ got'[Len(got) + 1] = ref
      /\ \A n \in 1 .. Len(got) : got'[n] = got[n]
  <2>1. got \in Seq(1 .. Len(occurrences))
    BY Counting
  <2> QED BY <1>1, <2>1
<1>5. Url = UrlsOf(Thing)[Len(got) + 1]
  BY DEF Url
<1>6. GotHeld'
  <2>1. GotIs(pointers, Thing, got')
    <3> SUFFICES ASSUME Thing.kind # "reference", NEW n \in 1 .. Len(got')
                 PROVE  got'[n] = pointers[UrlsOf(Thing)[n]]
      BY DEF GotIs
    <3>1. CASE n = Len(got) + 1
      BY <1>4, <1>5, <3>1
    <3>2. CASE n # Len(got) + 1
      <4>1. n \in 1 .. Len(got)
        BY <1>4, <3>2
      <4>2. got # <<>>
        BY <4>1
      <4>3. got[n] = pointers[UrlsOf(Thing)[n]]
        BY <1>2, <4>1, <4>2 DEF Copies, GotHeld, GotIs
      <4> QED BY <1>4, <4>1, <4>3
    <3> QED BY <3>1, <3>2
  <2>2. at = "bind" => GotSame(occurrences, base, got')
    <3> SUFFICES ASSUME at = "bind", NEW n \in 1 .. Len(got')
                 PROVE  /\ CurrentIn(occurrences, base, got'[n])
                        /\ occurrences[got'[n]].digest = occurrences[got'[1]].digest
      BY DEF GotSame
    <3>1. ReusableIn(occurrences, pointers, base, Thing, got)
      BY <1>1, ReusableIs
    <3>2. CurrentIn(occurrences, base, ref)
      BY <1>5, <3>1 DEF ReusableIn
    <3>3. CASE got = <<>>
      <4>1. Len(got) = 0
        BY <3>3
      <4>2. n = 1 /\ got'[1] = ref
        BY <1>4, <4>1
      <4> QED BY <3>2, <4>2
    <3>4. CASE got # <<>>
      <4>1. GotSame(occurrences, base, got)
        BY <1>2, <3>4 DEF Copies, GotHeld
      <4>2. 1 \in 1 .. Len(got) /\ got'[1] = got[1]
        <5>1. 1 \in 1 .. Len(got)
          BY <3>4, Counting
        <5> QED BY <1>4, <5>1
      <4>3. occurrences[ref].digest = occurrences[got[1]].digest
        <5>1. ExpectedIn(occurrences, Thing, got) = occurrences[got[1]].digest
          BY <1>1, <3>4, ThingKinds DEF ExpectedIn
        <5>2. occurrences[got[1]].digest # None
          BY <4>2, GotDigest
        <5> QED BY <1>5, <3>1, <5>1, <5>2 DEF ReusableIn
      <4>4. CASE n = Len(got) + 1
        BY <1>4, <3>2, <4>2, <4>3, <4>4
      <4>5. CASE n # Len(got) + 1
        <5>1. n \in 1 .. Len(got)
          BY <1>4, <4>5
        <5> QED BY <1>4, <4>1, <4>2, <5>1 DEF GotSame
      <4> QED BY <4>4, <4>5
    <3> QED BY <3>3, <3>4
  <2> QED BY <1>1, <1>3, <2>1, <2>2 DEF GotHeld
<1>7. Needed'
  BY <1>3 DEF Needed
<1> QED BY <1>1, <1>2, <1>6, <1>7, CopiesRest DEF Copies

LEMMA CopiesDownload ==
  ASSUME Typed, Copies, Download
  PROVE  Copies'
<1> DEFINE page == web[Url]
           taken == Expected \in {None, page.digest}
           new == [url |-> Url, digest |-> page.digest, host |-> page.host, taken |-> taken]
           len == Len(occurrences)
<1>1. /\ Retrieving /\ fresh = 0 /\ ~Reusable
      /\ occurrences' = Append(occurrences, new)
      /\ base' = base /\ pointers' = pointers
      /\ \/ taken /\ fresh' = Len(occurrences') /\ UNCHANGED <<stage, memory>>
         \/ RetrievalFails("CONFLICT", <<Len(occurrences')>>) /\ UNCHANGED fresh
  BY DEF Download, Retrieving
<1>2. new.digest = page.digest
  OBVIOUS
<1>3. /\ len \in Nat /\ base \in 0 .. len /\ Len(occurrences') = len + 1
      /\ occurrences'[len + 1] = new /\ \A k \in 1 .. len : occurrences'[k] = occurrences[k]
      /\ pointers \in [Urls -> 0 .. len]
  <2>1. occurrences \in Seq(Occurrence) /\ base \in 0 .. len /\ pointers \in [Urls -> 0 .. len]
    BY DEF Typed, RecordsTyped
  <2> HIDE DEF new
  <2> QED BY <1>1, <2>1
<1> HIDE DEF new, len
<1>4. Grown
  BY <1>1, <1>3 DEF Grown, len
<1>5. CASE RetrievalFails("CONFLICT", <<Len(occurrences')>>) /\ UNCHANGED fresh
  <2>1. "CONFLICT" \in Outcome /\ "CONFLICT" # "RETRIEVED" /\ <<Len(occurrences')>> \in Seq(Nat)
    BY <1>3 DEF Outcome
  <2> QED BY <1>1, <1>4, <1>5, <2>1, CopiesRetrievalFails
<1>6. CASE taken /\ fresh' = Len(occurrences') /\ UNCHANGED <<stage, memory>>
  <2> SUFFICES ASSUME ByChoices' PROVE Copies'
    BY DEF Copies
  <2>1. /\ UNCHANGED <<answer, accepted, at, bound, plan, attempts>> /\ got' = got
        /\ ByChoices
    BY <1>6 DEF stage, memory, ByChoices
  <2>2. Thing' = Thing /\ Url \in Urls /\ Url = UrlsOf(Thing)[Len(got) + 1]
    BY <1>1, <2>1, ThingUnchanged, ThingHere DEF Url
  <2>3. GotHeld'
    <3>1. got # <<>> /\ at = "bind" => GotSame(occurrences', base, got)
      <4> SUFFICES ASSUME got # <<>>, at = "bind", NEW n \in 1 .. Len(got)
                   PROVE  /\ CurrentIn(occurrences', base, got[n])
                          /\ occurrences'[got[n]].digest = occurrences'[got[1]].digest
        BY DEF GotSame
      <4>1. GotSame(occurrences, base, got)
        BY <2>1 DEF Copies, GotHeld
      <4>2. 1 \in 1 .. Len(got)
        BY Counting
      <4>3. got[n] \in 1 .. len /\ got[1] \in 1 .. len
        BY <4>2, GotDigest DEF len
      <4>4. CurrentIn(occurrences, base, got[n]) /\ occurrences[got[n]].digest = occurrences[got[1]].digest
        BY <4>1 DEF GotSame
      <4> QED BY <1>3, <4>3, <4>4 DEF CurrentIn, len
    <3> QED BY <1>1, <2>1, <2>2, <3>1 DEF Copies, GotHeld
  <2>4. Needed'
    <3>1. ExpectedIn(occurrences', Thing, got) = ExpectedIn(occurrences, Thing, got)
      <4>1. got # <<>> => occurrences'[got[1]] = occurrences[got[1]]
        <5> SUFFICES ASSUME got # <<>> PROVE occurrences'[got[1]] = occurrences[got[1]]
          OBVIOUS
        <5>1. 1 \in 1 .. Len(got)
          BY Counting
        <5>2. got[1] \in 1 .. len
          BY <5>1, GotDigest DEF len
        <5> QED BY <1>3, <5>2
      <4> QED BY <4>1 DEF ExpectedIn
    <3>2. ExpectedIn(occurrences, Thing, got) \in {None, page.digest}
      BY <1>6, ReusableIs
    <3>3. occurrences'[fresh'].digest = page.digest
      BY <1>2, <1>3, <1>6
    <3>4. ~ReusableIn(occurrences', pointers, base, Thing, got)
      <4>1. ~ReusableIn(occurrences, pointers, base, Thing, got)
        BY <1>1, ReusableIs
      <4>2. pointers[Url] \in 0 .. len
        BY <1>3, <2>2
      <4>3. pointers[Url] # 0 => occurrences'[pointers[Url]] = occurrences[pointers[Url]]
        BY <1>3, <4>2
      <4>4. pointers[Url] <= Len(occurrences)
        BY <1>3, <4>2 DEF len
      <4> QED BY <2>2, <3>1, <4>1, <4>3, <4>4 DEF ReusableIn, CurrentIn
    <3>5. base < fresh'
      BY <1>3, <1>6
    <3>6. Needed' = (fresh' # 0 =>
            /\ base' < fresh'
            /\ ~ReusableIn(occurrences', pointers', base', Thing', got')
            /\ ExpectedIn(occurrences', Thing', got') \in {None, occurrences'[fresh'].digest})
      BY DEF Needed
    <3> HIDE DEF taken, page
    <3> QED BY <1>1, <2>1, <2>2, <3>1, <3>2, <3>3, <3>4, <3>5, <3>6
  <2> QED BY <1>4, <2>1, <2>3, <2>4, CopiesRest DEF Copies
<1> QED BY <1>1, <1>5, <1>6

\* A document is bound from responses that are those to reuse for its URLs.
LEMMA BindHeld ==
  ASSUME SeparateDocuments, Typed, Copies, ByChoices, at = "bind", fresh # 0,
         NEW k \in 1 .. Len(bound), bound[k] # None
  PROVE  Url \notin UrlSet(bound[k])
<1> DEFINE p == Len(bound) + 1
           u == Url
<1>1. Binding /\ answer \in Answers /\ answer.form = "choices" /\ Len(bound) < Len(DocumentsOf(answer.items))
  BY ThingHere, DocumentHere DEF ByChoices
<1>2. /\ bound[k] \in BoundUrls /\ HeldIn(occurrences, pointers, base, bound[k])
      /\ UrlSet(bound[k]) \subseteq UrlSet(DocumentAt(answer.items, k))
  BY DEF Copies, BoundHeld, Bounded, HeldSet
<1>3. Thing = DocumentAt(answer.items, p) /\ Thing \in Choice /\ Thing.kind = "document"
      /\ u = UrlsOf(Thing)[Len(got) + 1]
  BY <1>1, ThingKinds DEF Binding
<1>4. Len(got) \in Nat /\ Len(got) < Len(UrlsOf(Thing))
  BY ThingHere
<1>5. UrlsOf(Thing) = <<Thing.url>> \o Thing.copies /\ Thing.copies \in Seq(Urls)
  BY <1>3 DEF UrlsOf, Choice
<1> SUFFICES ASSUME u \in UrlSet(bound[k])
             PROVE  FALSE
  OBVIOUS
<1>6. CASE got = <<>>
  <2>1. PICK n \in 1 .. Len(UrlsOf(bound[k])) : UrlsOf(bound[k])[n] = u
    <3>1. UrlsOf(bound[k]) \in Seq(Urls)
      BY <1>2, UrlsOfBound
    <3> QED BY <3>1 DEF UrlSet
  <2>2. StoredIn(occurrences, pointers, base, u, bound[k].digest)
    BY <1>2, <2>1, HeldStored
  <2>3. ExpectedIn(occurrences, Thing, got) = None
    BY <1>3, <1>6 DEF ExpectedIn
  <2>4. ReusableIn(occurrences, pointers, base, Thing, got)
    BY <1>3, <2>2, <2>3 DEF ReusableIn, StoredIn
  <2> QED BY <2>4 DEF Copies, Needed
<1>7. CASE got # <<>>
  <2>1. Len(got) # 0
    BY <1>7, Counting
  <2>2. Len(UrlsOf(Thing)) = Len(Thing.copies) + 1 /\ Len(Thing.copies) \in Nat
        /\ DOMAIN Thing.copies = 1 .. Len(Thing.copies)
        /\ \A c \in 1 .. Len(Thing.copies) : UrlsOf(Thing)[c + 1] = Thing.copies[c]
    BY <1>3, <1>5 DEF Choice
  <2>3. Len(got) \in DOMAIN Thing.copies /\ u = Thing.copies[Len(got)]
    <3>1. Len(got) \in 1 .. Len(Thing.copies)
      BY <1>4, <2>1, <2>2
    <3> QED BY <1>3, <2>2, <3>1
  <2>4. PICK n \in DOMAIN UrlsOf(DocumentAt(answer.items, k)) : UrlsOf(DocumentAt(answer.items, k))[n] = u
    BY <1>2 DEF UrlSet
  <2>5. p \in DOMAIN DocumentsOf(answer.items) /\ k \in DOMAIN DocumentsOf(answer.items) /\ p # k
    <3>1. DOMAIN DocumentsOf(answer.items) = 1 .. Len(DocumentsOf(answer.items))
      <4>1. DocumentsOf(answer.items) \in Seq(Nat \X Nat)
        BY <1>1, AnswersTyped, DocumentSlots
      <4> QED BY <4>1
    <3>2. Len(bound) \in Nat /\ Len(DocumentsOf(answer.items)) \in Nat
      BY <1>1, SlotsCounted
    <3> QED BY <1>1, <3>1, <3>2
  <2>6. \A c \in DOMAIN Thing.copies, m \in DOMAIN UrlsOf(DocumentAt(answer.items, k)) :
          Thing.copies[c] # UrlsOf(DocumentAt(answer.items, k))[m]
    BY <1>1, <1>3, <2>5 DEF SeparateDocuments
  <2> QED BY <2>3, <2>4, <2>6
<1> QED BY <1>6, <1>7

\* What is retrieved for a plan that is held is only ever what shows nothing.
LEMMA CollectHeld ==
  ASSUME Typed, Copies, ByChoices, at = "collect", fresh # 0
  PROVE  /\ Thing.kind = "reference"
         /\ \A l \in HeldSet(occurrences, pointers, base) : Url \notin UrlSet(l)
<1>1. /\ Collecting /\ Thing = Locator /\ Locator \in Locatable /\ Url = UrlsOf(Thing)[Len(got) + 1]
      /\ Len(got) \in Nat /\ Len(got) < Len(UrlsOf(Thing))
      /\ ~ReusableIn(occurrences, pointers, base, Thing, got)
  BY ThingKinds, ThingHere, LocatorHere DEF Collecting, Copies, Needed
<1>2. Thing.kind # "git"
  <2>1. Thing.kind = "git" => Len(UrlsOf(Thing)) = 0
    BY DEF UrlsOf
  <2>2. ASSUME Len(UrlsOf(Thing)) = 0
        PROVE  FALSE
    BY <1>1, <2>2
  <2> QED BY <2>1, <2>2
<1>3. Thing.kind # "url"
  <2> SUFFICES ASSUME Thing.kind = "url" PROVE FALSE
    OBVIOUS
  <2>1. Thing \in BoundUrls /\ HeldIn(occurrences, pointers, base, Thing)
    BY <1>1, CollectingHeld
  <2>2. got = <<>> <=> Len(got) = 0
    BY Counting
  <2> QED BY <1>1, <2>1, <2>2, HeldReusable
<1>4. Thing.kind = "reference"
  <2>1. /\ \A l \in Files : l.kind = "git"
        /\ \A l \in References : l.kind = "reference"
        /\ \A l \in BoundUrls : l.kind = "url"
    BY DEF Files, References, BoundUrls
  <2> QED BY <1>1, <1>2, <1>3, <2>1 DEF Locatable
<1>5. ASSUME NEW l \in HeldSet(occurrences, pointers, base), Url \in UrlSet(l)
      PROVE  FALSE
  <2>1. l \in BoundUrls /\ HeldIn(occurrences, pointers, base, l)
    BY <1>5 DEF HeldSet
  <2>2. PICK n \in 1 .. Len(UrlsOf(l)) : UrlsOf(l)[n] = Url
    <3>1. UrlsOf(l) \in Seq(Urls)
      BY <2>1, UrlsOfBound
    <3> QED BY <1>5, <3>1 DEF UrlSet
  <2>3. StoredIn(occurrences, pointers, base, Url, l.digest)
    BY <2>1, <2>2, HeldStored
  <2>4. ExpectedIn(occurrences, Thing, got) = None
    BY <1>4 DEF ExpectedIn
  <2> QED BY <1>1, <2>3, <2>4 DEF ReusableIn, StoredIn
<1> QED BY <1>4, <1>5

\* A URL that gave a response of the retrieval under way is not the next one.
LEMMA NextUrlNew ==
  ASSUME Typed, Copies, ByChoices, at = "bind", fresh # 0, NEW n \in 1 .. Len(got)
  PROVE  UrlsOf(Thing)[n] # Url
<1> SUFFICES ASSUME UrlsOf(Thing)[n] = Url PROVE FALSE
  OBVIOUS
<1>1. /\ Thing.kind = "document" /\ Url = UrlsOf(Thing)[Len(got) + 1]
      /\ ~ReusableIn(occurrences, pointers, base, Thing, got)
  BY ThingKinds DEF Copies, Needed
<1>2. got # <<>>
  OBVIOUS
<1>3. GotIs(pointers, Thing, got) /\ GotSame(occurrences, base, got)
  BY <1>2 DEF Copies, GotHeld
<1>4. got[n] = pointers[Url]
  BY <1>1, <1>3 DEF GotIs
<1>5. CurrentIn(occurrences, base, got[n]) /\ occurrences[got[n]].digest = occurrences[got[1]].digest
  BY <1>3 DEF GotSame
<1>6. ExpectedIn(occurrences, Thing, got) = occurrences[got[1]].digest
  BY <1>1, <1>2 DEF ExpectedIn
<1>7. got[n] # 0
  <2>1. \A m : \A k \in 1 .. m : k # 0
    OBVIOUS
  <2>2. got[n] \in 1 .. Len(occurrences)
    BY GotDigest
  <2> QED BY <2>1, <2>2
<1> QED BY <1>1, <1>4, <1>5, <1>6, <1>7 DEF ReusableIn

LEMMA CopiesKeepPointer ==
  ASSUME SeparateDocuments, Typed, Copies, KeepPointer
  PROVE  Copies'
<1>1. /\ fresh # 0 /\ fresh' = 0 /\ pointers' = [pointers EXCEPT ![Url] = fresh]
      /\ got' = Append(got, fresh) /\ occurrences' = occurrences /\ base' = base
      /\ UNCHANGED <<answer, accepted, at, bound, plan, attempts>>
  BY DEF KeepPointer, stage
<1> SUFFICES ASSUME ByChoices' PROVE Copies'
  BY DEF Copies
<1>2. ByChoices /\ Thing' = Thing /\ at \in {"bind", "collect"} /\ Url \in Urls
      /\ UrlsOf(Thing) \in Seq(Urls)
  BY <1>1, ThingUnchanged, ThingHere DEF ByChoices
<1>3. /\ pointers \in [Urls -> 0 .. Len(occurrences)]
      /\ \A u \in Urls : u # Url => pointers'[u] = pointers[u]
      /\ pointers'[Url] = fresh
  <2>1. pointers \in [Urls -> 0 .. Len(occurrences)]
    BY DEF Typed, RecordsTyped
  <2> QED BY <1>1, <1>2, <2>1
<1>4. ASSUME NEW l \in HeldSet(occurrences, pointers, base), Url \notin UrlSet(l)
      PROVE  l \in HeldSet(occurrences', pointers', base')
  <2>1. l \in BoundUrls /\ HeldIn(occurrences, pointers, base, l)
    BY DEF HeldSet
  <2>2. HeldIn(occurrences, [pointers EXCEPT ![Url] = fresh], base, l)
    BY <1>2, <1>3, <1>4, <2>1, HeldBesides
  <2> QED BY <1>1, <2>1, <2>2 DEF HeldSet
<1>5. BoundHeld'
  <2> SUFFICES ASSUME at = "bind"
               PROVE  Bounded(occurrences', pointers', base', answer.items, bound)
    BY <1>1 DEF BoundHeld
  <2> SUFFICES ASSUME NEW k \in 1 .. Len(bound), bound[k] # None
               PROVE  /\ bound[k] \in HeldSet(occurrences', pointers', base')
                      /\ UrlSet(bound[k]) \subseteq UrlSet(DocumentAt(answer.items, k))
    BY DEF Bounded
  <2>1. /\ bound[k] \in HeldSet(occurrences, pointers, base)
        /\ UrlSet(bound[k]) \subseteq UrlSet(DocumentAt(answer.items, k))
    BY <1>2 DEF Copies, BoundHeld, Bounded
  <2>2. Url \notin UrlSet(bound[k])
    BY <1>1, <1>2, BindHeld
  <2> QED BY <1>4, <2>1, <2>2
<1>6. PlanHeld'
  <2> SUFFICES ASSUME at \in {"verify", "collect", "finalize"}
               PROVE  plan \in Seq(PlanItemOf(HeldSet(occurrences', pointers', base')))
    BY <1>1 DEF PlanHeld
  <2>1. at = "collect"
    BY <1>2
  <2>2. HeldSet(occurrences, pointers, base) \subseteq HeldSet(occurrences', pointers', base')
    BY <1>1, <1>2, <1>4, <2>1, CollectHeld
  <2>3. plan \in Seq(PlanItemOf(HeldSet(occurrences, pointers, base)))
    BY <1>2 DEF Copies, PlanHeld
  <2> QED BY <2>2, <2>3, PlansOf
<1>7. /\ Len(got) \in Nat /\ Len(got') = Len(got) + 1 /\ got'[Len(got) + 1] = fresh
      /\ \A n \in 1 .. Len(got) : got'[n] = got[n]
  <2>1. got \in Seq(1 .. Len(occurrences))
    BY Counting
  <2> QED BY <1>1, <2>1
<1>8. GotIs(pointers', Thing, got')
  <2> SUFFICES ASSUME Thing.kind # "reference", NEW n \in 1 .. Len(got')
               PROVE  got'[n] = pointers'[UrlsOf(Thing)[n]]
    BY DEF GotIs
  <2>1. at = "bind"
    BY <1>1, <1>2, CollectHeld
  <2>2. CASE n = Len(got) + 1
    BY <1>3, <1>7, <2>2 DEF Url
  <2>3. CASE n # Len(got) + 1
    <3>1. n \in 1 .. Len(got)
      BY <1>7, <2>3
    <3>2. got # <<>>
      BY <3>1
    <3>3. got[n] = pointers[UrlsOf(Thing)[n]]
      BY <1>2, <3>1, <3>2 DEF Copies, GotHeld, GotIs
    <3>4. UrlsOf(Thing)[n] \in Urls
      <4>1. n \in 1 .. Len(UrlsOf(Thing))
        BY <1>1, <1>2, <3>1, ThingHere
      <4> QED BY <1>2, <4>1, ElementOfSeq
    <3>5. UrlsOf(Thing)[n] # Url
      BY <1>1, <1>2, <2>1, <3>1, NextUrlNew
    <3> QED BY <1>3, <1>7, <3>1, <3>3, <3>4, <3>5
  <2> QED BY <2>2, <2>3
<1>9. at = "bind" => GotSame(occurrences, base, got')
  <2> SUFFICES ASSUME at = "bind", NEW n \in 1 .. Len(got')
               PROVE  /\ CurrentIn(occurrences, base, got'[n])
                      /\ occurrences[got'[n]].digest = occurrences[got'[1]].digest
    BY DEF GotSame
  <2>1. CurrentIn(occurrences, base, fresh)
    BY <1>1, <1>2 DEF Copies, Needed, CurrentIn, Typed, RecordsTyped
  <2>2. CASE got = <<>>
    <3>1. Len(got) = 0
      BY <2>2
    <3>2. n = 1 /\ got'[1] = fresh
      BY <1>7, <3>1
    <3> QED BY <2>1, <3>2
  <2>3. CASE got # <<>>
    <3>1. GotSame(occurrences, base, got)
      BY <1>2, <2>3 DEF Copies, GotHeld
    <3>2. 1 \in 1 .. Len(got) /\ got'[1] = got[1]
      <4>1. 1 \in 1 .. Len(got)
        BY <2>3, Counting
      <4> QED BY <1>7, <4>1
    <3>3. occurrences[fresh].digest = occurrences[got[1]].digest
      <4>1. ExpectedIn(occurrences, Thing, got) = occurrences[got[1]].digest
        BY <1>1, <2>3, ThingKinds DEF ExpectedIn
      <4>2. occurrences[got[1]].digest # None
        BY <3>2, GotDigest
      <4> QED BY <1>1, <1>2, <4>1, <4>2 DEF Copies, Needed
    <3>4. CASE n = Len(got) + 1
      BY <1>7, <2>1, <3>2, <3>3, <3>4
    <3>5. CASE n # Len(got) + 1
      <4>1. n \in 1 .. Len(got)
        BY <1>7, <3>5
      <4> QED BY <1>7, <3>1, <3>2, <4>1 DEF GotSame
    <3> QED BY <3>4, <3>5
  <2> QED BY <2>2, <2>3
<1>10. GotHeld'
  BY <1>1, <1>2, <1>8, <1>9 DEF GotHeld
<1>11. Needed' /\ Shown(occurrences', plan', attempts') /\ AcceptedShown'
  BY <1>1, <1>2 DEF Needed, Copies, AcceptedShown
<1> QED BY <1>5, <1>6, <1>10, <1>11 DEF Copies


LEMMA CopiesDownloadFails ==
  ASSUME Typed, Copies, DownloadFails
  PROVE  Copies'
<1>1. /\ Retrieving /\ fresh = 0 /\ UNCHANGED <<http, base>>
      /\ \/ web[Url].outcome # "SERVED" /\ RetrievalFails(web[Url].outcome, <<>>)
         \/ RetrievalFails("FAILED", <<>>)
  BY DEF DownloadFails, Retrieving
<1>2. Url \in Urls /\ fresh' = 0 /\ Grown
  BY <1>1, ThingHere, GrownSame DEF http
<1>3. \E outcome \in Outcome : outcome # "RETRIEVED" /\ RetrievalFails(outcome, <<>>)
  <2>1. web[Url].outcome # "SERVED" => web[Url].outcome \in Failures
    BY <1>2, PageTyped
  <2>2. "FAILED" \in Failures /\ \A outcome \in Failures : outcome \in Outcome /\ outcome # "RETRIEVED"
    BY DEF Outcome, Failures
  <2> QED BY <1>1, <2>1, <2>2
<1>4. PICK outcome \in Outcome : outcome # "RETRIEVED" /\ RetrievalFails(outcome, <<>>)
  BY <1>3
<1>5. <<>> \in Seq(Nat)
  OBVIOUS
<1> QED BY <1>1, <1>2, <1>4, <1>5, CopiesRetrievalFails

\* What is bound is held by the responses it was bound from.
LEMMA CopiesBindDocument ==
  ASSUME Typed, Copies, BindDocument
  PROVE  Copies'
<1> DEFINE d == Document
           digest == occurrences[got[1]].digest
           copies == [k \in DOMAIN d.copies |-> [url |-> d.copies[k], digest |-> digest]]
           basis == IF d.publisher # None
                    THEN [kind |-> "publisher", host |-> d.publisher]
                    ELSE [kind |-> "copies", copies |-> copies]
           new == [kind |-> "url", url |-> d.url, digest |-> digest, basis |-> basis]
<1>1. /\ Binding /\ fresh = 0 /\ Len(got) = Len(UrlsOf(d))
      /\ \/ /\ d.publisher = None => Independent(d)
            /\ bound' = Append(bound, new) /\ got' = <<>>
            /\ UNCHANGED <<stage, at, plan, attempts>>
         \/ Unbound
      /\ UNCHANGED <<http, base>>
  BY DEF BindDocument
<1>2. Grown /\ fresh' = 0 /\ Typed'
  BY <1>1, GrownSame, BindDocumentTyped DEF http
<1>3. CASE Unbound
  BY <1>1, <1>2, <1>3, CopiesUnbound
<1>4. CASE /\ d.publisher = None => Independent(d)
           /\ bound' = Append(bound, new) /\ got' = <<>>
           /\ UNCHANGED <<stage, at, plan, attempts>>
  <2> SUFFICES ASSUME ByChoices' PROVE Copies'
    BY DEF Copies
  <2>1. /\ ByChoices /\ at = "bind" /\ at' = "bind" /\ attempts' = <<>>
        /\ answer' = answer /\ accepted' = accepted
        /\ occurrences' = occurrences /\ pointers' = pointers /\ base' = base
    BY <1>1, <1>4 DEF Binding, ByChoices, stage, http, Typed, MemoryTyped
  <2>2. /\ d \in Choice /\ answer \in Answers /\ d = DocumentAt(answer.items, Len(bound) + 1)
    BY <1>1, DocumentHere, DocumentsAre
  <2>3. /\ d.kind = "document" /\ d.url \in Urls /\ d.copies \in Seq(Urls)
    BY <2>2 DEF Choice
  <2>4. /\ Len(d.copies) \in Nat /\ DOMAIN d.copies = 1 .. Len(d.copies)
        /\ Len(UrlsOf(d)) = Len(d.copies) + 1 /\ UrlsOf(d)[1] = d.url
        /\ DOMAIN UrlsOf(d) = 1 .. Len(d.copies) + 1
        /\ \A k \in 1 .. Len(d.copies) : UrlsOf(d)[k + 1] = d.copies[k]
    <3>1. UrlsOf(d) = <<d.url>> \o d.copies
      BY <2>3 DEF UrlsOf
    <3> HIDE DEF d
    <3> QED BY <2>3, <3>1
  <2>5. new.url = d.url /\ new.digest = digest /\ new.basis = basis
    OBVIOUS
  <2>6. d.publisher = None => basis.kind = "copies" /\ basis.copies = copies
    OBVIOUS
  <2>7. d.publisher # None => basis.kind = "publisher"
    OBVIOUS
  <2>8. /\ DOMAIN copies = 1 .. Len(d.copies)
        /\ \A k \in 1 .. Len(d.copies) : copies[k].url = d.copies[k] /\ copies[k].digest = digest
    BY <2>4
  <2>9. d.publisher = None =>
          \E k \in 1 .. Len(d.copies) : occurrences[got[k + 1]].host # occurrences[got[1]].host
    BY <1>4, <2>4 DEF Independent, HostGot
  <2>10. Thing = d /\ got # <<>>
    <3>1. Len(got) # 0
      BY <1>1, <2>4
    <3> QED BY <2>1, <3>1, Counting DEF Thing
  <2> HIDE DEF d, basis, copies, new
  <2>11. \A n \in 1 .. Len(d.copies) + 1 :
           /\ got[n] = pointers[UrlsOf(d)[n]] /\ got[n] # 0
           /\ CurrentIn(occurrences, base, got[n]) /\ occurrences[got[n]].digest = digest
    <3> TAKE n \in 1 .. Len(d.copies) + 1
    <3>1. n \in 1 .. Len(got)
      BY <1>1, <2>4
    <3>2. GotIs(pointers, d, got) /\ GotSame(occurrences, base, got)
      BY <2>1, <2>10 DEF Copies, GotHeld
    <3>3. got[n] \in 1 .. Len(occurrences)
      BY <3>1, GotDigest
    <3>4. \A m : \A k \in 1 .. m : k # 0
      OBVIOUS
    <3>5. d.kind # "reference"
      BY <2>3
    <3> QED BY <3>1, <3>2, <3>3, <3>4, <3>5 DEF GotIs, GotSame
  <2> HIDE DEF digest
  <2>12. \A n \in 1 .. Len(d.copies) + 1 : StoredIn(occurrences, pointers, base, UrlsOf(d)[n], digest)
    BY <2>11 DEF StoredIn
  <2>13. \A k \in 1 .. Len(d.copies) : k + 1 \in 1 .. Len(d.copies) + 1
    BY <2>4
  <2>14. 1 \in 1 .. Len(d.copies) + 1
    BY <2>4
  <2>15. HeldIn(occurrences, pointers, base, new)
    <3>1. StoredIn(occurrences, pointers, base, new.url, new.digest)
      BY <2>4, <2>5, <2>12, <2>14
    <3>2. ASSUME new.basis.kind = "copies"
          PROVE  /\ \A k \in DOMAIN new.basis.copies :
                      /\ new.basis.copies[k].digest = new.digest
                      /\ StoredIn(occurrences, pointers, base, new.basis.copies[k].url, new.digest)
                 /\ \E k \in DOMAIN new.basis.copies :
                      occurrences[pointers[new.basis.copies[k].url]].host
                        # occurrences[pointers[new.url]].host
      <4>1. d.publisher = None /\ new.basis.copies = copies
        BY <2>5, <2>6, <2>7, <3>2
      <4>2. \A k \in 1 .. Len(d.copies) : copies[k].url = UrlsOf(d)[k + 1]
        BY <2>4, <2>8
      <4>3. PICK k \in 1 .. Len(d.copies) : occurrences[got[k + 1]].host # occurrences[got[1]].host
        BY <2>9, <4>1
      <4>4. got[k + 1] = pointers[copies[k].url] /\ got[1] = pointers[d.url]
        BY <2>4, <2>11, <2>13, <2>14, <4>2
      <4>5. \E c \in 1 .. Len(d.copies) :
              occurrences[pointers[copies[c].url]].host # occurrences[pointers[d.url]].host
        BY <4>3, <4>4
      <4>6. \A c \in 1 .. Len(d.copies) :
              copies[c].digest = digest /\ StoredIn(occurrences, pointers, base, copies[c].url, digest)
        BY <2>8, <2>12, <2>13, <4>2
      <4> QED BY <2>5, <2>8, <4>1, <4>5, <4>6
    <3> QED BY <3>1, <3>2 DEF HeldIn
  <2>16. ASSUME new \in BoundUrls
         PROVE  UrlSet(new) \subseteq UrlSet(d)
    <3> SUFFICES ASSUME NEW n \in DOMAIN UrlsOf(new)
                 PROVE  \E m \in 1 .. Len(d.copies) + 1 : UrlsOf(d)[m] = UrlsOf(new)[n]
      BY <2>4 DEF UrlSet
    <3>1. DOMAIN UrlsOf(new) = 1 .. Len(UrlsOf(new))
      <4>1. UrlsOf(new) \in Seq(Urls)
        BY <2>16, UrlsOfBound
      <4> QED BY <4>1
    <3>2. CASE n = 1
      <4>1. UrlsOf(new)[1] = new.url
        BY <2>16, UrlsOfBound
      <4> QED BY <2>4, <2>5, <2>14, <3>2, <4>1
    <3>3. CASE n # 1
      <4>1. new.basis.kind = "copies"
        <5>1. new.basis.kind # "copies" => Len(UrlsOf(new)) = 1
          BY <2>16, UrlsOfBound
        <5>2. ASSUME Len(UrlsOf(new)) = 1
              PROVE  FALSE
          <6>1. n \in 1 .. 1
            BY <3>1, <5>2
          <6> QED BY <3>3, <6>1
        <5> QED BY <5>1, <5>2
      <4>2. new.basis.copies = copies
        BY <2>5, <2>6, <2>7, <4>1
      <4>3. /\ Len(UrlsOf(new)) = Len(copies) + 1 /\ copies \in Seq([url : Urls, digest : Digests])
            /\ \A k \in 1 .. Len(copies) : UrlsOf(new)[k + 1] = copies[k].url
        BY <2>16, <4>1, <4>2, UrlsOfBound
      <4>4. DOMAIN copies = 1 .. Len(copies) /\ Len(copies) \in Nat
        BY <4>3
      <4>5. n - 1 \in 1 .. Len(copies) /\ (n - 1) + 1 = n
        BY <3>1, <3>3, <4>3, <4>4
      <4>6. n - 1 \in 1 .. Len(d.copies)
        BY <2>8, <4>4, <4>5
      <4>7. UrlsOf(new)[(n - 1) + 1] = copies[n - 1].url
        BY <4>3, <4>5
      <4>8. UrlsOf(d)[(n - 1) + 1] = copies[n - 1].url
        BY <2>4, <2>8, <4>6
      <4>9. n \in 1 .. Len(d.copies) + 1
        BY <2>13, <4>5, <4>6
      <4> QED BY <4>5, <4>7, <4>8, <4>9
    <3> QED BY <3>2, <3>3
  <2>17. /\ Len(bound) \in Nat /\ Len(bound') = Len(bound) + 1 /\ bound'[Len(bound) + 1] = new
         /\ \A k \in 1 .. Len(bound) : bound'[k] = bound[k]
         /\ bound' \in Seq(BoundUrls \cup {None})
    <3>1. bound \in Seq(BoundUrls \cup {None}) /\ bound' \in Seq(BoundUrls \cup {None})
      BY <1>2 DEF Typed, MemoryTyped
    <3> QED BY <1>4, <3>1
  <2>18. BoundHeld'
    <3> SUFFICES Bounded(occurrences, pointers, base, answer.items, bound')
      BY <2>1 DEF BoundHeld
    <3> SUFFICES ASSUME NEW k \in 1 .. Len(bound'), bound'[k] # None
                 PROVE  /\ bound'[k] \in HeldSet(occurrences, pointers, base)
                        /\ UrlSet(bound'[k]) \subseteq UrlSet(DocumentAt(answer.items, k))
      BY DEF Bounded
    <3>1. CASE k = Len(bound) + 1
      <4>1. new \in BoundUrls
        <5>1. bound'[k] \in BoundUrls \cup {None}
          BY <2>17, ElementOfSeq
        <5> QED BY <2>17, <3>1, <5>1
      <4> QED BY <2>2, <2>15, <2>16, <2>17, <3>1, <4>1 DEF HeldSet
    <3>2. CASE k # Len(bound) + 1
      <4>1. k \in 1 .. Len(bound)
        BY <2>17, <3>2
      <4> QED BY <2>1, <2>17, <4>1 DEF Copies, BoundHeld, Bounded
    <3> QED BY <3>1, <3>2
  <2>19. PlanHeld' /\ GotHeld' /\ Needed' /\ Shown(occurrences', plan', attempts')
    BY <1>2, <1>4, <2>1 DEF PlanHeld, GotHeld, Needed, Shown
  <2>20. AcceptedShown'
    BY <1>2, <2>1, AcceptedGrows
  <2> QED BY <2>18, <2>19, <2>20 DEF Copies
<1> QED BY <1>1, <1>3, <1>4


\* The plan of a choice has no contents but those bound.
LEMMA CopiesImport ==
  ASSUME Typed, Copies, Import
  PROVE  Copies'
<1>1. /\ at = "bind" /\ Len(bound) = Len(Documents) /\ UNCHANGED <<http, base>>
      /\ \/ /\ Valid /\ plan' = Expand(Proposed) /\ bound' = <<>> /\ at' = "verify"
            /\ UNCHANGED <<stage, attempts, got>>
         \/ Fail
  BY DEF Import
<1>2. answer \in Answers /\ attempts = <<>> /\ bound \in Seq(BoundUrls \cup {None})
  BY <1>1 DEF Typed, MemoryTyped
<1>3. got = <<>> /\ fresh = 0
  <2>1. ~(Len(bound) < Len(DocumentsOf(answer.items)))
    BY <1>1, <1>2, SlotsCounted, DocumentsAre
  <2> QED BY <1>1, <2>1 DEF Typed, Within, BindOK
<1>4. Grown /\ fresh' = 0
  BY <1>1, <1>3, GrownSame DEF http
<1>5. CASE Fail
  BY <1>4, <1>5, CopiesFail
<1>6. CASE /\ Valid /\ plan' = Expand(Proposed) /\ bound' = <<>> /\ at' = "verify"
           /\ UNCHANGED <<stage, attempts, got>>
  <2> SUFFICES ASSUME ByChoices' PROVE Copies'
    BY DEF Copies
  <2>1. /\ ByChoices /\ at' = "verify" /\ attempts' = <<>> /\ got' = <<>> /\ accepted' = accepted
        /\ occurrences' = occurrences /\ pointers' = pointers /\ base' = base
    BY <1>1, <1>2, <1>3, <1>6 DEF ByChoices, stage, http
  <2> DEFINE S == HeldSet(occurrences, pointers, base)
  <2>2. S \in SUBSET BoundUrls
    BY DEF HeldSet
  <2>3. \A i \in 1 .. Len(answer.items) : answer.items[i].urls \in Seq(S)
    <3>1. answer.items \in Seq(AnswerItem)
      BY <1>2, AnswersTyped
    <3>2. \A i \in 1 .. Len(answer.items) : answer.items[i].urls = <<>>
      BY <1>2, <2>1, <3>1, AnswerAssumption DEF ByChoices
    <3>3. <<>> \in Seq(S)
      OBVIOUS
    <3> QED BY <3>2, <3>3
  <2>4. bound \in Seq(S \cup {None})
    <3>1. \A k \in 1 .. Len(bound) : bound[k] \in S \cup {None}
      BY <1>1, <2>1 DEF Copies, BoundHeld, Bounded
    <3> HIDE DEF S
    <3>2. bound = [k \in 1 .. Len(bound) |-> bound[k]] /\ Len(bound) \in Nat
      BY <1>2
    <3>3. bound \in [1 .. Len(bound) -> S \cup {None}]
      BY <3>1, <3>2
    <3> QED BY <3>2, <3>3
  <2>5. plan' \in Seq(PlanItemOf(S))
    BY <1>1, <1>2, <1>6, <2>2, <2>3, <2>4, PlanTyped
  <2>6. BoundHeld' /\ PlanHeld' /\ GotHeld' /\ Needed' /\ Shown(occurrences', plan', attempts')
    BY <1>4, <2>1, <2>5 DEF BoundHeld, PlanHeld, GotHeld, Needed, Shown
  <2>7. AcceptedShown'
    BY <1>4, <2>1, AcceptedGrows
  <2> QED BY <2>6, <2>7 DEF Copies
<1> QED BY <1>1, <1>5, <1>6

LEMMA CopiesVerify ==
  ASSUME Typed, Copies, Verify
  PROVE  Copies'
<1>1. /\ at = "verify" /\ UNCHANGED <<http, base>>
      /\ \/ at' = "collect" /\ UNCHANGED <<stage, bound, plan, attempts, got>>
         \/ Fail
  BY DEF Verify
<1>2. got = <<>> /\ fresh = 0 /\ attempts = <<>>
  BY <1>1 DEF Typed, MemoryTyped
<1>3. Grown /\ fresh' = 0
  BY <1>1, <1>2, GrownSame DEF http
<1>4. CASE Fail
  BY <1>3, <1>4, CopiesFail
<1>5. CASE at' = "collect" /\ UNCHANGED <<stage, bound, plan, attempts, got>>
  <2> SUFFICES ASSUME ByChoices' PROVE Copies'
    BY DEF Copies
  <2>1. /\ ByChoices /\ at' = "collect" /\ attempts' = <<>> /\ got' = <<>> /\ accepted' = accepted
        /\ occurrences' = occurrences /\ pointers' = pointers /\ base' = base /\ plan' = plan
    BY <1>1, <1>2, <1>5 DEF ByChoices, stage, http
  <2>2. BoundHeld' /\ PlanHeld' /\ GotHeld' /\ Needed' /\ Shown(occurrences', plan', attempts')
    BY <1>1, <1>3, <2>1 DEF Copies, BoundHeld, PlanHeld, GotHeld, Needed, Shown
  <2>3. AcceptedShown'
    BY <1>3, <2>1, AcceptedGrows
  <2> QED BY <2>2, <2>3 DEF Copies
<1> QED BY <1>1, <1>4, <1>5

\* The collection of what is held sees the two hosts the binding saw.
LEMMA CopiesCollect ==
  ASSUME Typed, Copies, Collect
  PROVE  Copies'
<1>1. /\ Collecting /\ at = "collect" /\ fresh = 0 /\ UNCHANGED <<http, base>>
      /\ Len(got) = Len(UrlsOf(Locator))
      /\ \E outcome \in OutcomesOf(Locator) : Attempted(outcome, got)
  BY DEF Collect, Collecting
<1>2. PICK outcome \in OutcomesOf(Locator) : Attempted(outcome, got)
  BY <1>1
<1>3. outcome \in Outcome
  BY DEF OutcomesOf, GitOutcomes, Outcome, Failures
<1>4. got \in Seq(Nat) /\ Grown /\ fresh' = 0 /\ occurrences' = occurrences
  BY <1>1, GotNat, GrownSame DEF http
<1>5. ASSUME ByChoices, Locator.kind = "url", Locator.basis.kind = "copies"
      PROVE  TwoHosts(occurrences, got)
  <2> DEFINE l == Locator
  <2>1. l \in BoundUrls /\ HeldIn(occurrences, pointers, base, l)
    BY <1>1, <1>5, CollectingHeld
  <2>2. Thing = l
    BY <1>1 DEF Thing
  <2> HIDE DEF l
  <2>3. /\ l.basis.kind = "copies" /\ l.kind = "url"
        /\ l.basis.copies \in Seq([url : Urls, digest : Digests])
        /\ Len(UrlsOf(l)) = Len(l.basis.copies) + 1 /\ UrlsOf(l)[1] = l.url
        /\ \A k \in 1 .. Len(l.basis.copies) : UrlsOf(l)[k + 1] = l.basis.copies[k].url
    BY <1>5, <2>1, UrlsOfBound DEF l
  <2>4. DOMAIN l.basis.copies = 1 .. Len(l.basis.copies) /\ Len(l.basis.copies) \in Nat
    BY <2>3
  <2>5. PICK k \in 1 .. Len(l.basis.copies) :
          occurrences[pointers[l.basis.copies[k].url]].host # occurrences[pointers[l.url]].host
    BY <2>1, <2>3, <2>4 DEF HeldIn
  <2>6. Len(got) = Len(l.basis.copies) + 1
    BY <1>1, <2>3 DEF l
  <2>7. k + 1 \in 1 .. Len(got) /\ 1 \in 1 .. Len(got)
    BY <2>4, <2>6
  <2>8. got # <<>>
    BY <2>7
  <2>9. GotIs(pointers, l, got)
    BY <1>5, <2>2, <2>8 DEF Copies, GotHeld
  <2>10. got[k + 1] = pointers[l.basis.copies[k].url] /\ got[1] = pointers[l.url]
    BY <2>3, <2>7, <2>9 DEF GotIs
  <2>11. got[k + 1] \in 1 .. Len(occurrences) /\ got[1] \in 1 .. Len(occurrences)
    BY <2>7, GotDigest
  <2>12. k + 1 \in DOMAIN got
    <3>1. DOMAIN got = 1 .. Len(got)
      BY <1>4
    <3> QED BY <2>7, <3>1
  <2> QED BY <2>5, <2>10, <2>11, <2>12 DEF TwoHosts
<1> QED BY <1>1, <1>2, <1>3, <1>4, <1>5, CopiesAttempted

LEMMA CopiesFinalize ==
  ASSUME Typed, Copies, Finalize
  PROVE  Copies'
<1>1. /\ at = "finalize" /\ UNCHANGED <<http, base>>
      /\ \/ /\ accepted' = [plan |-> plan, attempts |-> attempts]
            /\ at' = "stopped" /\ bound' = <<>> /\ plan' = <<>> /\ attempts' = <<>> /\ got' = <<>>
            /\ answer' = answer
         \/ Fail
  BY DEF Finalize, Idle
<1>2. fresh = 0 /\ Grown /\ fresh' = 0 /\ occurrences' = occurrences
  BY <1>1, GrownSame DEF Typed, MemoryTyped, http
<1>3. CASE Fail
  BY <1>2, <1>3, CopiesFail
<1>4. CASE /\ accepted' = [plan |-> plan, attempts |-> attempts]
           /\ at' = "stopped" /\ bound' = <<>> /\ plan' = <<>> /\ attempts' = <<>> /\ got' = <<>>
           /\ answer' = answer
  <2> SUFFICES ASSUME ByChoices' PROVE Copies'
    BY DEF Copies
  <2>1. Shown(occurrences, plan, attempts)
    BY <1>4 DEF Copies, ByChoices
  <2>2. accepted'.plan = plan /\ accepted'.attempts = attempts
    BY <1>4
  <2>3. AcceptedShown'
    BY <1>2, <2>1, <2>2 DEF AcceptedShown
  <2> QED BY <1>2, <1>4, <2>3, CopiesIdle
<1> QED BY <1>1, <1>3, <1>4

-----------------------------------------------------------------------------
(* All of the steps.                                                       *)

\* Nothing is accepted while the controller works.
LEMMA WorkingNothing ==
  ASSUME Typed, at # "stopped" \/ status = "READY" \/ status = "RUNNING"
  PROVE  accepted = None
BY DEF Typed, RowTyped

LEMMA CopiesUnchanged ==
  ASSUME Copies, UNCHANGED <<stage, http, base, memory>>
  PROVE  Copies'
<1>1. /\ answer' = answer /\ accepted' = accepted /\ occurrences' = occurrences
      /\ pointers' = pointers /\ fresh' = fresh /\ base' = base
      /\ at' = at /\ bound' = bound /\ plan' = plan /\ attempts' = attempts /\ got' = got
  BY DEF stage, http, memory
<1>2. Thing' = Thing
  BY <1>1, ThingUnchanged
<1> QED BY <1>1, <1>2 DEF Copies, ByChoices, BoundHeld, PlanHeld, GotHeld, Needed, AcceptedShown

\* The controller starts, or is answered.
LEMMA CopiesStart ==
  ASSUME Typed, Run \/ Answer \/ GiveUp
  PROVE  Copies'
<1>1. /\ accepted' = accepted /\ fresh' = fresh /\ bound' = bound /\ plan' = plan
      /\ attempts' = attempts /\ got' = got
      /\ at' \in {"worker", "bind", "stopped"} /\ at \in {"stopped", "worker"}
      /\ at = "stopped" => status \in {"READY", "RUNNING"}
  BY DEF Run, Answer, GiveUp, stage, http
<1>2. accepted = None
  <2>1. at # "stopped" \/ status = "READY" \/ status = "RUNNING"
    BY <1>1
  <2> QED BY <2>1, WorkingNothing
<1>3. bound = <<>> /\ plan = <<>> /\ attempts = <<>> /\ got = <<>> /\ fresh = 0
  BY <1>1 DEF Typed, MemoryTyped
<1>4. AcceptedShown'
  BY <1>1, <1>2 DEF AcceptedShown
<1> QED BY <1>1, <1>3, <1>4, CopiesIdle

LEMMA CopiesStop ==
  ASSUME Typed, Crash \/ Reopen
  PROVE  Copies'
<1>1. CASE Crash
  <2>1. /\ at # "stopped" /\ at' = "stopped" /\ accepted' = accepted /\ fresh' = 0
        /\ bound' = <<>> /\ plan' = <<>> /\ attempts' = <<>> /\ got' = <<>>
    BY <1>1 DEF Crash, Idle, stage
  <2>2. AcceptedShown'
    BY <2>1, WorkingNothing DEF AcceptedShown
  <2> QED BY <2>1, <2>2, CopiesIdle
<1>2. CASE Reopen
  <2>1. /\ at = "stopped" /\ at' = at /\ accepted' = None /\ fresh' = fresh
        /\ bound' = bound /\ plan' = plan /\ attempts' = attempts /\ got' = got
    BY <1>2 DEF Reopen, http, memory
  <2>2. bound = <<>> /\ plan = <<>> /\ attempts = <<>> /\ got = <<>> /\ fresh = 0
    BY <2>1 DEF Typed, MemoryTyped
  <2>3. AcceptedShown'
    BY <2>1 DEF AcceptedShown
  <2> QED BY <2>1, <2>2, <2>3, CopiesIdle
<1> QED BY <1>1, <1>2

LEMMA CopiesInit == Init => Copies
BY DEF Init, Copies, BoundHeld, Bounded, PlanHeld, GotHeld, Needed, Shown, AcceptedShown

LEMMA CopiesNext ==
  ASSUME SeparateDocuments, Typed, Copies, [Next]_vars
  PROVE  Copies'
<1>1. CASE Run \/ Answer \/ GiveUp
  BY <1>1, CopiesStart
<1>2. CASE Reuse
  BY <1>2, CopiesReuse
<1>3. CASE Download
  BY <1>3, CopiesDownload
<1>4. CASE KeepPointer
  BY <1>4, CopiesKeepPointer
<1>5. CASE DownloadFails
  BY <1>5, CopiesDownloadFails
<1>6. CASE BreaksOff
  <2>1. Retrieving /\ Fail /\ UNCHANGED <<http, base>>
    BY <1>6 DEF BreaksOff
  <2>2. Grown /\ fresh' = 0
    BY <2>1, GrownSame DEF Retrieving, http
  <2> QED BY <2>1, <2>2, CopiesFail
<1>7. CASE BindDocument
  BY <1>7, CopiesBindDocument
<1>8. CASE Import
  BY <1>8, CopiesImport
<1>9. CASE Verify
  BY <1>9, CopiesVerify
<1>10. CASE Collect
  BY <1>10, CopiesCollect
<1>11. CASE Finalize
  BY <1>11, CopiesFinalize
<1>12. CASE Crash \/ Reopen
  BY <1>12, CopiesStop
<1>13. CASE Disturb
  BY <1>13, CopiesUnchanged DEF Disturb
<1>14. CASE UNCHANGED vars
  BY <1>14, CopiesUnchanged DEF vars
<1> QED BY <1>1, <1>2, <1>3, <1>4, <1>5, <1>6, <1>7, <1>8, <1>9, <1>10, <1>11, <1>12, <1>13,
           <1>14 DEF Next, Controller

LEMMA CopiesIndependent ==
  ASSUME Typed, Copies
  PROVE  IndependentCopies
<1> SUFFICES ASSUME accepted # None, answer.form = "choices", NEW k \in DOMAIN accepted.attempts
             PROVE  LET tried == accepted.attempts[k]
                        locator == accepted.plan[tried.slot[1]].locators[tried.slot[2]]
                    IN  locator.kind = "url" /\ tried.outcome = "RETRIEVED" =>
                          \/ locator.basis.kind # "copies"
                          \/ \E n \in DOMAIN tried.refs :
                               occurrences[tried.refs[n]].host # occurrences[tried.refs[1]].host
  BY DEF IndependentCopies
<1>1. ByChoices
  BY DEF ByChoices, Typed, RowTyped
<1>2. Shown(occurrences, accepted.plan, accepted.attempts)
  BY <1>1 DEF Copies, AcceptedShown
<1> QED BY <1>2 DEF Shown, TwoHosts

\* port.py, http_content.py: where no copy of a document of an answer is a URL of
\* another of its documents, what the worker chose to corroborate by copies is
\* accepted with responses of two hosts, whatever the web did in between.
THEOREM CopiesStayIndependent ==
  ASSUME SeparateDocuments
  PROVE  Spec => []IndependentCopies
<1>1. Typed /\ Copies /\ [Next]_vars => (Typed /\ Copies)'
  BY CopiesNext, TypedNext
<1>2. Typed /\ Copies => IndependentCopies
  BY CopiesIndependent
<1>3. Init => Typed /\ Copies
  BY TypedInit, CopiesInit
<1> QED BY <1>1, <1>2, <1>3, PTL DEF Spec
=============================================================================
