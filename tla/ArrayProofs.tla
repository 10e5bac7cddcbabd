----------------------------- MODULE ArrayProofs -----------------------------
(***************************************************************************)
(* The block of an array behaves as a vector, for any elements, indices    *)
(* and number of growths.                                                  *)
(***************************************************************************)
EXTENDS Array, SequenceTheorems, WellFoundedInduction, TLAPS

\* The first natural number of a set is one of it.
LEMMA MinIsLeast ==
    ASSUME NEW S \in SUBSET Nat, S # {}
    PROVE  Min(S) \in S /\ \A n \in S : Min(S) <= n
<1>1. PICK R : IsWellFoundedOn(R, Nat) /\ \A m, n \in Nat : m < n => <<m, n>> \in R
  <2>1. IsWellFoundedOn(OpToRel(<, Nat), Nat)
    BY NatLessThanWellFounded
  <2>2. ASSUME NEW m \in Nat, NEW n \in Nat, m < n
        PROVE  <<m, n>> \in {ss \in Nat \X Nat : ss[1] < ss[2]}
    BY <2>2
  <2>3. \A m, n \in Nat : m < n => <<m, n>> \in OpToRel(<, Nat)
    BY <2>2, Zenon DEF OpToRel
  <2> QED
    BY <2>1, <2>3, Zenon
<1>2. IsWellFoundedOn(R, Nat) /\ S \subseteq Nat /\ S # {}
  BY <1>1
<1>3. PICK x \in S : \A y \in S : ~(<<y, x>> \in R)
  BY <1>2, WFMin, Zenon
<1>4. \A y \in S : ~(y < x)
  BY <1>1, <1>3, Zenon
<1>5. \A y \in S : x <= y
  BY <1>4
<1> QED
  BY <1>5, Zenon DEF Min

------------------------------------------------------------------------------
\* The block

\* A block given slot by slot.
LEMMA SlotsType ==
    ASSUME NEW n \in Nat, NEW f \in [1 .. n -> Slots]
    PROVE  f \in Seq(Slots) /\ Len(f) = n /\ DOMAIN f = 1 .. n
<1>1. f \in Seq(Slots) /\ DOMAIN f = 1 .. n
  BY SeqDef
<1> QED
  BY <1>1, LenProperties

LEMMA CapacitiesType == Capacities \subseteq Nat \ {0} /\ \A c \in Capacities : c >= 4
<1>1. Capacities \subseteq 4 .. MaxCapacity
  BY Zenon DEF Capacities
<1> QED
  BY <1>1, ArrayAssumption

\* The block grows to a capacity that will do, and keeps the elements.
LEMMA GrowKeeps ==
    ASSUME TypeOK, NEW index \in 0 .. MaxIndex, NEW full \in BOOLEAN,
           full => count <= MaxIndex /\ count = capacity
    PROVE  LET block == Grow(index, full)
           IN  /\ block \in Seq(Slots)
               /\ Len(block) \in Capacities
               /\ index < Len(block)
               /\ count <= capacity /\ capacity <= Len(block)
               /\ full => count < Len(block)
               /\ \A i \in 1 .. count : block[i] = content[i]
<1> DEFINE fits == {c \in Capacities : /\ c > index
                                       /\ c >= capacity
                                       /\ full => c > capacity}
           new == Min(fits)
           zeroed == IF capacity = 0 THEN 0 .. 3 ELSE count .. 2 * count - 1
           slot(i) == IF i - 1 \in zeroed THEN ZERO
                      ELSE IF i <= capacity THEN content[i] ELSE JUNK
           grown == [i \in 1 .. new |-> slot(i)]
<1>1. /\ content \in Seq(Slots) /\ capacity \in Nat /\ capacity \in Capacities \cup {0}
      /\ count \in 0 .. capacity
      /\ \A i \in 1 .. capacity : content[i] \in Slots
  BY LenProperties, ElementOfSeq DEF TypeOK, capacity
<1>2. fits \in SUBSET Nat /\ fits # {}
  <2>1. PICK c \in Capacities : MaxIndex < c /\ \A d \in Capacities : d <= c
    BY ArrayAssumption
  <2>2. MaxIndex \in Nat /\ c \in Nat
    BY <2>1, ArrayAssumption, CapacitiesType
  <2>3. c > index /\ c >= capacity /\ (full => c > capacity)
    BY <1>1, <2>1, <2>2
  <2> QED
    BY <2>3, CapacitiesType
<1>3. new \in fits
  BY <1>2, MinIsLeast
<1>4. new \in Capacities /\ new \in Nat \ {0} /\ new > index /\ new >= capacity /\ (full => new > capacity)
  BY <1>3, CapacitiesType
<1>5. Grow(index, full) = IF new = capacity THEN content ELSE grown
  BY Zenon DEF Grow
<1> HIDE DEF new
<1>6. ASSUME NEW i \in 1 .. new
      PROVE  slot(i) \in Slots /\ (i <= count => slot(i) = content[i])
  <2>1. i <= count => ~(i - 1 \in zeroed) /\ i <= capacity
    BY <1>1, <1>4
  <2>2. {ZERO, JUNK} \subseteq Slots
    BY DEF Slots
  <2>3. CASE i - 1 \in zeroed
    BY <2>1, <2>2, <2>3
  <2>4. CASE ~(i - 1 \in zeroed)
    <3> HIDE DEF zeroed
    <3>1. slot(i) = IF i <= capacity THEN content[i] ELSE JUNK
      BY <2>4
    <3>2. i <= capacity => content[i] \in Slots
      BY <1>1, <1>4
    <3> QED
      BY <2>1, <2>2, <3>1, <3>2
  <2> QED
    BY <2>3, <2>4, Zenon
<1> HIDE DEF slot
<1>7. grown \in Seq(Slots) /\ Len(grown) = new /\ \A i \in 1 .. count : grown[i] = content[i]
  <2>1. grown \in [1 .. new -> Slots]
    BY <1>6
  <2>2. \A i \in 1 .. count : i \in 1 .. new /\ i <= count
    BY <1>1, <1>4
  <2>3. \A i \in 1 .. count : grown[i] = content[i]
    BY <1>6, <2>2
  <2> QED
    BY <1>4, <2>1, <2>3, SlotsType
<1> HIDE DEF grown
<1> DEFINE block == Grow(index, full)
<1>8. CASE new = capacity
  <2>1. block = content /\ Len(block) = new
    BY <1>5, <1>8 DEF capacity
  <2> HIDE DEF block
  <2>2. index < new /\ count <= capacity /\ capacity <= new /\ (full => count < new)
    BY <1>1, <1>4
  <2> HIDE DEF fits
  <2>3. block \in Seq(Slots) /\ (\A i \in 1 .. count : block[i] = content[i])
    BY <1>1, <2>1
  <2>4. QED
    BY <1>4, <2>1, <2>2, <2>3 DEF block
<1>9. CASE new # capacity
  <2>1. block = grown /\ Len(block) = new
    BY <1>5, <1>7, <1>9
  <2> HIDE DEF block
  <2>2. index < new /\ count <= capacity /\ capacity <= new /\ (full => count < new)
    BY <1>1, <1>4
  <2>3. block \in Seq(Slots) /\ (\A i \in 1 .. count : block[i] = content[i])
    BY <1>7, <2>1
  <2>4. QED
    BY <1>4, <2>1, <2>2, <2>3 DEF block
<1> QED
  BY <1>8, <1>9

------------------------------------------------------------------------------
\* What each operation does to the elements

\* The value is at its index; the elements before it stay, the others move up.
Inserted(index, value) ==
    /\ content' \in Seq(Slots) /\ Len(content') \in Capacities
    /\ index < Len(content') /\ count' \in 1 .. Len(content')
    /\ content'[index + 1] = value
    /\ \A i \in 1 .. count : /\ i <= index => content'[i] = content[i]
                             /\ i > index  => content'[i + 1] = content[i]

LEMMA InsertEffect ==
    ASSUME TypeOK, NEW index \in 0 .. MaxIndex, NEW value \in Elements,
           count <= MaxIndex, insert(index, value)
    PROVE  Inserted(index, value)
<1> DEFINE block == Grow(index, count = capacity)
           move(i) == IF i - 1 > index /\ i - 1 <= count THEN block[i - 1] ELSE block[i]
           moved == [i \in 1 .. Len(block) |-> move(i)]
<1>1. /\ count \in Nat /\ capacity \in Nat /\ index \in Nat /\ MaxIndex \in Nat
      /\ count <= capacity
  BY LenProperties, ArrayAssumption DEF TypeOK, capacity
<1>2. /\ block \in Seq(Slots) /\ Len(block) \in Capacities
      /\ index < Len(block) /\ capacity <= Len(block)
      /\ (count = capacity => count < Len(block))
      /\ \A i \in 1 .. count : block[i] = content[i]
  <2> DEFINE full == (count = capacity)
  <2>1. full \in BOOLEAN /\ (full => count <= MaxIndex /\ count = capacity)
    OBVIOUS
  <2> HIDE DEF full
  <2>2. LET b == Grow(index, full)
        IN  /\ b \in Seq(Slots)
            /\ Len(b) \in Capacities
            /\ index < Len(b)
            /\ count <= capacity /\ capacity <= Len(b)
            /\ full => count < Len(b)
            /\ \A i \in 1 .. count : b[i] = content[i]
    BY <2>1, GrowKeeps, Zenon
  <2> QED
    BY <2>2 DEF full
<1>3. content' = [moved EXCEPT ![index + 1] = value] /\ count' = IF index < count THEN count + 1 ELSE index + 1
  BY Zenon DEF insert
<1> HIDE DEF block
<1>4. Len(block) \in Nat /\ Len(block) > 0 /\ \A i \in 1 .. Len(block) : block[i] \in Slots
  BY <1>2, LenProperties, ElementOfSeq, CapacitiesType
<1>5. \A i \in 1 .. Len(block) : move(i) \in Slots
  <2> SUFFICES ASSUME NEW i \in 1 .. Len(block) PROVE move(i) \in Slots
    OBVIOUS
  <2>1. i - 1 > index => i - 1 \in 1 .. Len(block)
    BY <1>1, <1>4
  <2> QED
    BY <1>4, <2>1
<1>6. moved \in Seq(Slots) /\ Len(moved) = Len(block)
      /\ \A i \in 1 .. Len(block) : moved[i] = move(i)
  <2>1. moved \in [1 .. Len(block) -> Slots]
    BY <1>5
  <2> QED
    BY <1>4, <2>1, SlotsType
<1> HIDE DEF moved
<1>7. index + 1 \in 1 .. Len(block) /\ value \in Slots
  BY <1>1, <1>2, <1>4 DEF Slots
<1>8. /\ content' \in Seq(Slots) /\ Len(content') = Len(block)
      /\ \A j \in 1 .. Len(block) : content'[j] = IF j = index + 1 THEN value ELSE moved[j]
  BY <1>3, <1>6, <1>7, ExceptSeq
<1>9. count' \in 1 .. Len(block)
  BY <1>1, <1>2, <1>3, <1>4
<1>10. ASSUME NEW i \in 1 .. count
       PROVE  /\ i <= index => content'[i] = content[i]
              /\ i > index  => content'[i + 1] = content[i]
  <2>1. CASE i <= index
    <3>1. i \in 1 .. Len(block) /\ i # index + 1 /\ ~(i - 1 > index /\ i - 1 <= count)
      BY <1>1, <1>2, <1>4, <2>1
    <3>2. content'[i] = moved[i] /\ moved[i] = block[i]
      BY <1>6, <1>8, <3>1
    <3> QED
      BY <1>1, <1>2, <2>1, <3>2
  <2>2. CASE i > index
    <3>1. i + 1 \in 1 .. Len(block) /\ i + 1 # index + 1 /\ (i + 1) - 1 = i
      BY <1>1, <1>2, <1>4, <2>2
    <3>2. content'[i + 1] = moved[i + 1] /\ moved[i + 1] = block[i]
      BY <1>1, <1>6, <1>8, <2>2, <3>1
    <3> QED
      BY <1>1, <1>2, <2>2, <3>2
  <2> QED
    BY <1>1, <2>1, <2>2
<1> QED
  BY <1>2, <1>7, <1>8, <1>9, <1>10 DEF Inserted

\* The other elements stay.
LEMMA UpdateEffect ==
    ASSUME TypeOK, NEW index \in 0 .. MaxIndex, NEW value \in Elements, update(index, value)
    PROVE  /\ content' \in Seq(Slots) /\ Len(content') \in Capacities
           /\ index < Len(content') /\ count' \in 1 .. Len(content')
           /\ content'[index + 1] = value
           /\ \A i \in 1 .. count : i # index + 1 => content'[i] = content[i]
<1> DEFINE block == Grow(index, FALSE)
<1>1. /\ count \in Nat /\ capacity \in Nat /\ index \in Nat /\ count <= capacity
  BY LenProperties DEF TypeOK, capacity
<1>2. /\ block \in Seq(Slots) /\ Len(block) \in Capacities
      /\ index < Len(block) /\ capacity <= Len(block)
      /\ \A i \in 1 .. count : block[i] = content[i]
  <2>1. LET b == Grow(index, FALSE)
        IN  /\ b \in Seq(Slots)
            /\ Len(b) \in Capacities
            /\ index < Len(b)
            /\ count <= capacity /\ capacity <= Len(b)
            /\ FALSE => count < Len(b)
            /\ \A i \in 1 .. count : b[i] = content[i]
    BY GrowKeeps, Zenon
  <2> QED
    BY <2>1
<1>3. content' = [block EXCEPT ![index + 1] = value] /\ count' = IF index < count THEN count ELSE index + 1
  BY Zenon DEF update
<1> HIDE DEF block
<1>4. Len(block) \in Nat
  BY <1>2, LenProperties
<1>5. index + 1 \in 1 .. Len(block) /\ value \in Slots
  BY <1>1, <1>2, <1>4 DEF Slots
<1>6. /\ content' \in Seq(Slots) /\ Len(content') = Len(block)
      /\ \A j \in 1 .. Len(block) : content'[j] = IF j = index + 1 THEN value ELSE block[j]
  BY <1>2, <1>3, <1>5, ExceptSeq
<1>7. count' \in 1 .. Len(block)
  BY <1>1, <1>2, <1>3, <1>4
<1>8. \A i \in 1 .. count : i # index + 1 => content'[i] = content[i]
  <2>1. \A i \in 1 .. count : i \in 1 .. Len(block)
    BY <1>1, <1>2, <1>4
  <2> QED
    BY <1>2, <1>6, <2>1
<1> QED
  BY <1>2, <1>5, <1>6, <1>7, <1>8

\* The elements after the index move down.
LEMMA DelEffect ==
    ASSUME TypeOK, NEW index \in 0 .. MaxIndex, del(index)
    PROVE  /\ index < count /\ count' = count - 1
           /\ content' \in Seq(Slots) /\ Len(content') = Len(content) /\ overrun' \in BOOLEAN
           /\ \A i \in 1 .. count - 1 :
                 content'[i] = IF i <= index THEN content[i] ELSE content[i + 1]
<1> DEFINE slot(i) == CASE i - 1 >= index /\ i - 1 < count' -> content[i + 1]
                        [] i - 1 = count' + 1               -> ZERO
                        [] OTHER                            -> content[i]
           left == [i \in 1 .. capacity |-> slot(i)]
<1>1. /\ content \in Seq(Slots) /\ capacity \in Nat /\ capacity = Len(content)
      /\ count \in Nat /\ index \in Nat /\ count <= capacity /\ overrun \in BOOLEAN
      /\ \A i \in 1 .. capacity : content[i] \in Slots
  BY LenProperties, ElementOfSeq DEF TypeOK, capacity
<1>2. index < count /\ count' = count - 1 /\ count' \in Nat
  BY <1>1 DEF del
<1>3. CASE count' > index
  <2>1. content' = left /\ overrun' \in BOOLEAN
    <3>1. content' = left
      BY <1>3, Zenon DEF del
    <3>2. overrun' = (overrun \/ count' + 1 >= capacity)
      BY <1>3, Zenon DEF del
    <3> QED
      BY <3>1, <3>2
  <2>2. ASSUME NEW i \in 1 .. capacity
        PROVE  slot(i) \in Slots
               /\ (i <= count - 1 => slot(i) = IF i <= index THEN content[i] ELSE content[i + 1])
    <3>1. i - 1 >= index /\ i - 1 < count' => i + 1 \in 1 .. capacity
      BY <1>1, <1>2
    <3>2. ZERO \in Slots
      BY DEF Slots
    <3>3. CASE i - 1 >= index /\ i - 1 < count'
      <4>1. ~(i - 1 = count' + 1)
        BY <1>2, <3>3
      <4>2. slot(i) = content[i + 1] /\ ~(i <= index)
        BY <1>1, <3>3, <4>1
      <4> QED
        BY <1>1, <3>1, <3>3, <4>2
    <3>4. CASE i - 1 = count' + 1
      <4>1. ~(i - 1 < count')
        BY <1>2, <3>4
      <4>2. slot(i) = ZERO /\ ~(i <= count - 1)
        BY <1>1, <1>2, <3>4, <4>1
      <4> QED
        BY <3>2, <4>2
    <3>5. CASE ~(i - 1 >= index /\ i - 1 < count') /\ ~(i - 1 = count' + 1)
      <4>1. slot(i) = content[i]
        BY <3>5
      <4>2. i <= count - 1 => i <= index
        BY <1>1, <1>2, <3>5
      <4> QED
        BY <1>1, <4>1, <4>2
    <3> QED
      BY <3>3, <3>4, <3>5, Zenon
  <2> HIDE DEF slot
  <2>3. left \in [1 .. capacity -> Slots]
    BY <2>2
  <2>4. left \in Seq(Slots) /\ Len(left) = capacity
        /\ \A i \in 1 .. count - 1 : left[i] = IF i <= index THEN content[i] ELSE content[i + 1]
    <3>1. \A i \in 1 .. count - 1 : i \in 1 .. capacity /\ i <= count - 1
      BY <1>1
    <3>2. \A i \in 1 .. capacity : left[i] = slot(i)
      OBVIOUS
    <3>3. \A i \in 1 .. count - 1 : left[i] = IF i <= index THEN content[i] ELSE content[i + 1]
      BY <2>2, <3>1, <3>2, Zenon
    <3> QED
      BY <1>1, <2>3, <3>3, SlotsType
  <2> HIDE DEF left
  <2> QED
    BY <1>1, <1>2, <2>1, <2>4
<1>4. CASE ~(count' > index)
  <2>1. content' = content /\ overrun' = overrun
    BY <1>4 DEF del
  <2>2. \A i \in 1 .. count - 1 : i <= index
    BY <1>1, <1>2, <1>4
  <2> QED
    BY <1>1, <1>2, <2>1, <2>2
<1> QED
  BY <1>3, <1>4

\* The elements are permuted, and left in order.
LEMMA SortEffect ==
    ASSUME TypeOK, sort
    PROVE  /\ content' \in Seq(Slots) /\ Len(content') = Len(content)
           /\ count' = count /\ overrun' = overrun
           /\ \E p \in Bijection(1 .. count, 1 .. count) : 
                 \A i \in 1 .. count : p[i] \in 1 .. count /\ content'[i] = content[p[i]]
           /\ \A i \in 1 .. count - 1 : content'[i] <= content'[i + 1]
<1>1. /\ content \in Seq(Slots) /\ capacity \in Nat /\ capacity = Len(content)
      /\ count \in Nat /\ count <= capacity
      /\ \A i \in 1 .. capacity : content[i] \in Slots
  BY LenProperties, ElementOfSeq DEF TypeOK, capacity
<1>2. PICK p \in Bijection(1 .. count, 1 .. count) :
         content' = [i \in 1 .. capacity |-> IF i <= count THEN content[p[i]] ELSE content[i]]
  BY Zenon DEF sort
<1>3. p \in [1 .. count -> 1 .. count]
  BY <1>2, Zenon DEF Bijection, Injection, Surjection
<1>4. content' \in [1 .. capacity -> Slots]
      /\ \A i \in 1 .. count : content'[i] = content[p[i]]
  <2>1. ASSUME NEW i \in 1 .. capacity
        PROVE  (IF i <= count THEN content[p[i]] ELSE content[i]) \in Slots
    BY <1>1, <1>3
  <2> QED
    BY <1>1, <1>2, <2>1
<1>5. content' \in Seq(Slots) /\ Len(content') = capacity
  BY <1>1, <1>4, SlotsType
<1>6. count' = count /\ overrun' = overrun /\ \A i \in 1 .. count - 1 : content'[i] <= content'[i + 1]
  BY Zenon DEF sort
<1> QED
  BY <1>1, <1>3, <1>4, <1>5, <1>6, Zenon

LEMMA Next_Cases ==
    ASSUME [Next]_vars
    PROVE  \/ \E index \in 0 .. MaxIndex, value \in Elements :
                 \/ count <= MaxIndex /\ insert(index, value)
                 \/ update(index, value)
           \/ \E index \in 0 .. MaxIndex : del(index)
           \/ sort
           \/ clear
           \/ UNCHANGED vars
BY Zenon DEF Next

------------------------------------------------------------------------------
\* The types

\* The block has one of the capacities that grow goes through, and the elements fit in it.
THEOREM TypeOKHolds == Spec => []TypeOK
<1>1. Init => TypeOK
  <2> SUFFICES ASSUME Init PROVE TypeOK
    OBVIOUS
  <2>1. content = <<>> /\ count = 0 /\ overrun = FALSE
    BY DEF Init
  <2>2. content \in Seq(Slots) /\ capacity = 0
    BY <2>1, EmptySeq DEF capacity
  <2>3. count \in 0 .. capacity
    BY <2>1, <2>2
  <2> QED
    BY <2>1, <2>2, <2>3 DEF TypeOK
<1>2. TypeOK /\ [Next]_vars => TypeOK'
  <2> SUFFICES ASSUME TypeOK, [Next]_vars PROVE TypeOK'
    OBVIOUS
  <2>1. count \in Nat /\ count <= Len(content) /\ Len(content) \in Nat
        /\ content \in Seq(Slots) /\ Len(content) \in Capacities \cup {0} /\ overrun \in BOOLEAN
    BY LenProperties DEF TypeOK, capacity
  <2>2. SUFFICES /\ content' \in Seq(Slots) /\ Len(content') \in Capacities \cup {0}
                 /\ count' \in 0 .. Len(content')
                 /\ overrun' \in BOOLEAN
    BY DEF TypeOK, capacity
  <2>3. ASSUME NEW index \in 0 .. MaxIndex, NEW value \in Elements,
               count <= MaxIndex, insert(index, value)
        PROVE  /\ content' \in Seq(Slots) /\ Len(content') \in Capacities \cup {0}
               /\ count' \in 0 .. Len(content') /\ overrun' \in BOOLEAN
    <3>1. /\ content' \in Seq(Slots) /\ Len(content') \in Capacities
          /\ count' \in 1 .. Len(content') /\ Len(content') \in Nat
      BY <2>3, InsertEffect, LenProperties DEF Inserted
    <3>2. overrun' = overrun
      BY <2>3 DEF insert
    <3> QED
      BY <2>1, <3>1, <3>2
  <2>4. ASSUME NEW index \in 0 .. MaxIndex, NEW value \in Elements, update(index, value)
        PROVE  /\ content' \in Seq(Slots) /\ Len(content') \in Capacities \cup {0}
               /\ count' \in 0 .. Len(content') /\ overrun' \in BOOLEAN
    <3>1. /\ content' \in Seq(Slots) /\ Len(content') \in Capacities
          /\ count' \in 1 .. Len(content') /\ Len(content') \in Nat
      BY <2>4, UpdateEffect, LenProperties
    <3>2. overrun' = overrun
      BY <2>4 DEF update
    <3> QED
      BY <2>1, <3>1, <3>2
  <2>5. ASSUME NEW index \in 0 .. MaxIndex, del(index)
        PROVE  /\ content' \in Seq(Slots) /\ Len(content') \in Capacities \cup {0}
               /\ count' \in 0 .. Len(content') /\ overrun' \in BOOLEAN
    <3>1. /\ index < count /\ count' = count - 1
          /\ content' \in Seq(Slots) /\ Len(content') = Len(content) /\ overrun' \in BOOLEAN
      BY <2>5, DelEffect
    <3> QED
      BY <2>1, <3>1
  <2>6. CASE sort
    BY <2>1, <2>6, SortEffect
  <2>7. CASE clear
    <3>1. content' \in [1 .. capacity -> Slots] /\ capacity \in Nat
      BY <2>1, <2>7 DEF clear, capacity, Slots
    <3>2. content' \in Seq(Slots) /\ Len(content') = capacity
      BY <3>1, SlotsType
    <3> QED
      BY <2>1, <2>7, <3>2 DEF clear, capacity
  <2>8. CASE UNCHANGED vars
    BY <2>1, <2>8 DEF vars
  <2> QED
    BY <2>3, <2>4, <2>5, <2>6, <2>7, <2>8, Next_Cases, Zenon
<1> QED
  BY <1>1, <1>2, PTL DEF Spec

------------------------------------------------------------------------------
\* The elements, as a vector

\* The first n slots of a block.
LEMMA FirstSlots ==
    ASSUME NEW s \in Seq(Slots), NEW n \in 0 .. Len(s)
    PROVE  /\ SubSeq(s, 1, n) \in Seq(Slots) /\ Len(SubSeq(s, 1, n)) = n
           /\ \A i \in 1 .. n : SubSeq(s, 1, n)[i] = s[i]
<1>1. Len(s) \in Nat /\ n \in Int /\ 1 \in Int /\ \A i \in 1 .. n : s[i] \in Slots
  BY LenProperties, ElementOfSeq
<1>2. /\ SubSeq(s, 1, n) \in Seq(Slots)
      /\ Len(SubSeq(s, 1, n)) = IF 1 <= n THEN n - 1 + 1 ELSE 0
      /\ \A i \in 1 .. n - 1 + 1 : SubSeq(s, 1, n)[i] = s[1 + i - 1]
  BY <1>1, SubSeqProperties
<1> QED
  BY <1>1, <1>2

\* One element more, at i.
LEMMA InsertedAt ==
    ASSUME NEW s \in Seq(Slots), NEW i \in 1 .. Len(s), NEW e \in Slots
    PROVE  LET t == Loose!InsertAt(s, i, e)
           IN  /\ t \in Seq(Slots) /\ Len(t) = Len(s) + 1
               /\ \A k \in 1 .. Len(s) + 1 :
                     t[k] = IF k < i THEN s[k] ELSE IF k = i THEN e ELSE s[k - 1]
<1> DEFINE a == SubSeq(s, 1, i - 1)
           b == SubSeq(s, i, Len(s))
           one == <<e>>
           t == Loose!InsertAt(s, i, e)
<1>1. Len(s) \in Nat /\ i \in Int /\ i - 1 \in Int /\ 1 \in Int /\ \A k \in 1 .. Len(s) : s[k] \in Slots
  BY LenProperties, ElementOfSeq
<1>2. /\ a \in Seq(Slots) /\ Len(a) = i - 1
      /\ \A k \in 1 .. i - 1 : a[k] = s[k]
  <2>1. i - 1 \in 0 .. Len(s)
    BY <1>1
  <2> QED
    BY <2>1, FirstSlots
<1>3. /\ b \in Seq(Slots) /\ Len(b) = Len(s) - i + 1
      /\ \A k \in 1 .. Len(s) - i + 1 : b[k] = s[i + k - 1]
  BY <1>1, SubSeqProperties
<1>4. one \in Seq(Slots) /\ Len(one) = 1 /\ one[1] = e
  OBVIOUS
<1>5. t = (a \o one) \o b
  BY Zenon DEF Loose!InsertAt
<1> HIDE DEF a, b, one, t
<1>6. /\ a \o one \in Seq(Slots) /\ Len(a \o one) = i
      /\ \A k \in 1 .. i : (a \o one)[k] = IF k <= i - 1 THEN a[k] ELSE one[k - (i - 1)]
  <2>1. /\ a \o one \in Seq(Slots) /\ Len(a \o one) = Len(a) + Len(one)
        /\ \A k \in 1 .. Len(a) + Len(one) :
              (a \o one)[k] = IF k <= Len(a) THEN a[k] ELSE one[k - Len(a)]
    BY <1>2, <1>4, ConcatProperties
  <2> QED
    BY <1>1, <1>2, <1>4, <2>1
<1>7. /\ t \in Seq(Slots) /\ Len(t) = Len(s) + 1
      /\ \A k \in 1 .. Len(s) + 1 : t[k] = IF k <= i THEN (a \o one)[k] ELSE b[k - i]
  <2> DEFINE c == a \o one
  <2>0. c \in Seq(Slots) /\ Len(c) = i
    BY <1>6
  <2> HIDE DEF c
  <2>1. /\ c \o b \in Seq(Slots) /\ Len(c \o b) = Len(c) + Len(b)
        /\ \A k \in 1 .. Len(c) + Len(b) :
              (c \o b)[k] = IF k <= Len(c) THEN c[k] ELSE b[k - Len(c)]
    BY <1>3, <2>0, ConcatProperties
  <2> QED
    BY <1>1, <1>3, <1>5, <2>0, <2>1 DEF c
<1>8. ASSUME NEW k \in 1 .. Len(s) + 1
      PROVE  t[k] = IF k < i THEN s[k] ELSE IF k = i THEN e ELSE s[k - 1]
  <2>1. CASE k < i
    BY <1>1, <1>2, <1>6, <1>7, <2>1
  <2>2. CASE k = i
    BY <1>1, <1>4, <1>6, <1>7, <2>2
  <2>3. CASE k > i
    BY <1>1, <1>3, <1>7, <2>3
  <2> QED
    BY <1>1, <2>1, <2>2, <2>3
<1> QED
  BY <1>7, <1>8 DEF t

\* One element less, at i.
LEMMA RemovedAt ==
    ASSUME NEW s \in Seq(Slots), NEW i \in 1 .. Len(s)
    PROVE  LET t == Loose!RemoveAt(s, i)
           IN  /\ t \in Seq(Slots) /\ Len(t) = Len(s) - 1
               /\ \A k \in 1 .. Len(s) - 1 : t[k] = IF k < i THEN s[k] ELSE s[k + 1]
<1> DEFINE a == SubSeq(s, 1, i - 1)
           b == SubSeq(s, i + 1, Len(s))
           t == Loose!RemoveAt(s, i)
<1>1. Len(s) \in Nat /\ i + 1 \in Int /\ 1 \in Int /\ \A k \in 1 .. Len(s) : s[k] \in Slots
  BY LenProperties, ElementOfSeq
<1>2. /\ a \in Seq(Slots) /\ Len(a) = i - 1
      /\ \A k \in 1 .. i - 1 : a[k] = s[k]
  <2>1. i - 1 \in 0 .. Len(s)
    BY <1>1
  <2> QED
    BY <2>1, FirstSlots
<1>3. /\ b \in Seq(Slots) /\ Len(b) = Len(s) - i
      /\ \A k \in 1 .. Len(s) - i : b[k] = s[i + k]
  <2>1. /\ b \in Seq(Slots) /\ Len(b) = IF i + 1 <= Len(s) THEN Len(s) - (i + 1) + 1 ELSE 0
        /\ \A k \in 1 .. Len(s) - (i + 1) + 1 : b[k] = s[(i + 1) + k - 1]
    <3>1. \A k \in i + 1 .. Len(s) : s[k] \in Slots
      BY <1>1
    <3> QED
      BY <1>1, <3>1, SubSeqProperties
  <2> QED
    BY <1>1, <2>1
<1>4. t = a \o b
  BY Zenon DEF Loose!RemoveAt
<1> HIDE DEF a, b, t
<1>5. /\ t \in Seq(Slots) /\ Len(t) = Len(s) - 1
      /\ \A k \in 1 .. Len(s) - 1 : t[k] = IF k <= i - 1 THEN a[k] ELSE b[k - (i - 1)]
  <2>1. /\ a \o b \in Seq(Slots) /\ Len(a \o b) = Len(a) + Len(b)
        /\ \A k \in 1 .. Len(a) + Len(b) :
              (a \o b)[k] = IF k <= Len(a) THEN a[k] ELSE b[k - Len(a)]
    BY <1>2, <1>3, ConcatProperties
  <2> QED
    BY <1>1, <1>2, <1>3, <1>4, <2>1
<1>6. \A k \in 1 .. Len(s) - 1 : t[k] = IF k < i THEN s[k] ELSE s[k + 1]
  BY <1>1, <1>2, <1>3, <1>5
<1> QED
  BY <1>5, <1>6 DEF t

\* What the user reads of the block.
LEMMA ElemsRead ==
    TypeOK => /\ Elems \in Seq(Slots) /\ Len(Elems) = count /\ count \in Nat
              /\ \A i \in 1 .. count : Elems[i] = content[i]
<1> SUFFICES ASSUME TypeOK
             PROVE  /\ Elems \in Seq(Slots) /\ Len(Elems) = count /\ count \in Nat
                    /\ \A i \in 1 .. count : Elems[i] = content[i]
  OBVIOUS
<1>1. content \in Seq(Slots) /\ count \in 0 .. Len(content) /\ Len(content) \in Nat
  BY LenProperties DEF TypeOK, capacity
<1> QED
  BY <1>1, FirstSlots DEF Elems

LEMMA ElemsReadAfter ==
    TypeOK' => /\ Elems' \in Seq(Slots) /\ Len(Elems') = count' /\ count' \in Nat
               /\ \A i \in 1 .. count' : Elems'[i] = content'[i]
<1>1. (TypeOK => /\ Elems \in Seq(Slots) /\ Len(Elems) = count /\ count \in Nat
                 /\ \A i \in 1 .. count : Elems[i] = content[i])'
  BY ElemsRead, PTL
<1> QED
  BY <1>1, Zenon

\* An element set beyond the last one: what lies between them is a gap.
LEMMA Expanded ==
    ASSUME TypeOK, TypeOK', NEW index \in Nat, NEW value \in Elements,
           count <= index, count' = index + 1, content'[index + 1] = value,
           \A i \in 1 .. count : content'[i] = content[i]
    PROVE  Elems' \in {Append(e, value) : e \in Loose!Expansions(index)}
<1>1. /\ Elems \in Seq(Slots) /\ Len(Elems) = count /\ count \in Nat
      /\ \A i \in 1 .. count : Elems[i] = content[i]
  BY ElemsRead
<1>2. /\ Elems' \in Seq(Slots) /\ Len(Elems') = index + 1
      /\ \A i \in 1 .. index + 1 : Elems'[i] = content'[i]
  BY ElemsReadAfter
<1>3. \A i \in 1 .. index + 1 : content'[i] \in Slots
  BY <1>2, ElementOfSeq
<1> DEFINE n == index - Len(Elems)
           g == [k \in 1 .. n |-> content'[count + k]]
           gap == [k \in 1 .. n |-> g[k]]
           e == Elems \o gap
           t == Append(e, value)
<1>4. n \in Nat /\ n = index - count
  BY <1>1
<1>5. g \in [1 .. n -> Slots] /\ gap \in Seq(Slots) /\ Len(gap) = n
      /\ \A k \in 1 .. n : gap[k] = content'[count + k]
  <2> HIDE DEF n
  <2>1. \A k \in 1 .. n : count + k \in 1 .. index + 1
    BY <1>1, <1>4
  <2>2. g \in [1 .. n -> Slots]
    BY <1>3, <2>1
  <2>3. gap = g
    OBVIOUS
  <2> QED
    BY <1>4, <2>2, <2>3, SlotsType
<1>6. e \in Loose!Expansions(index)
  BY <1>5, Zenon DEF Loose!Expansions
<1> HIDE DEF n, g, gap
<1>7. e \in Seq(Slots) /\ Len(e) = index
      /\ \A k \in 1 .. index : e[k] = IF k <= count THEN Elems[k] ELSE gap[k - count]
  <2>1. /\ e \in Seq(Slots) /\ Len(e) = Len(Elems) + Len(gap)
        /\ \A k \in 1 .. Len(Elems) + Len(gap) :
              e[k] = IF k <= Len(Elems) THEN Elems[k] ELSE gap[k - Len(Elems)]
    BY <1>1, <1>5, ConcatProperties
  <2> QED
    BY <1>1, <1>4, <1>5, <2>1
<1> HIDE DEF e
<1>8. value \in Slots
  BY DEF Slots
<1>9. t \in Seq(Slots) /\ Len(t) = index + 1
      /\ \A k \in 1 .. index + 1 : t[k] = IF k = index + 1 THEN value ELSE e[k]
  <2>1. /\ Append(e, value) \in Seq(Slots) /\ Len(Append(e, value)) = Len(e) + 1
        /\ \A k \in 1 .. Len(e) : Append(e, value)[k] = e[k]
        /\ Append(e, value)[Len(e) + 1] = value
    BY <1>7, <1>8, AppendProperties
  <2> QED
    BY <1>7, <2>1
<1>10. ASSUME NEW k \in 1 .. index + 1 PROVE Elems'[k] = t[k]
  <2>1. CASE k <= count
    BY <1>1, <1>2, <1>7, <1>9, <2>1
  <2>2. CASE count < k /\ k <= index
    <3>1. k - count \in 1 .. n /\ count + (k - count) = k
      BY <1>1, <1>4, <2>2
    <3>2. gap[k - count] = content'[k]
      BY <1>5, <3>1
    <3> QED
      BY <1>1, <1>2, <1>7, <1>9, <2>2, <3>2
  <2>3. CASE k = index + 1
    BY <1>2, <1>9, <2>3
  <2>4. k <= count \/ (count < k /\ k <= index) \/ k = index + 1
    <3>1. count \in Nat
      BY <1>1
    <3> QED
      BY <3>1
  <2> QED
    BY <2>1, <2>2, <2>3, <2>4, Zenon
<1> HIDE DEF t
<1>11. Elems' = t
  BY <1>2, <1>9, <1>10, SeqEqual
<1> QED
  BY <1>6, <1>11, Zenon DEF t

\* An insertion is one in the vector.
LEMMA InsertMaps ==
    ASSUME TypeOK, TypeOK', NEW index \in 0 .. MaxIndex, NEW value \in Elements,
           count <= MaxIndex, insert(index, value)
    PROVE  Loose!Next
<1>1. /\ Elems \in Seq(Slots) /\ Len(Elems) = count /\ count \in Nat
      /\ \A i \in 1 .. count : Elems[i] = content[i]
  BY ElemsRead
<1>2. /\ Elems' \in Seq(Slots) /\ Len(Elems') = count' /\ count' \in Nat
      /\ \A i \in 1 .. count' : Elems'[i] = content'[i]
  BY ElemsReadAfter
<1>3. /\ count' = IF index < count THEN count + 1 ELSE index + 1
      /\ content'[index + 1] = value
      /\ \A i \in 1 .. count : /\ i <= index => content'[i] = content[i]
                               /\ i > index  => content'[i + 1] = content[i]
  <2>1. count' = IF index < count THEN count + 1 ELSE index + 1
    BY Zenon DEF insert
  <2>2. Inserted(index, value)
    BY InsertEffect
  <2> QED
    BY <2>1, <2>2 DEF Inserted
<1>4. index \in Nat /\ index \in 0 .. Len(Elems') /\ value \in Slots
  BY <1>1, <1>2, <1>3 DEF Slots
<1>5. CASE index < count
  <2> DEFINE t == Loose!InsertAt(Elems, index + 1, value)
  <2>1. /\ t \in Seq(Slots) /\ Len(t) = Len(Elems) + 1
        /\ \A k \in 1 .. Len(Elems) + 1 :
              t[k] = IF k < index + 1 THEN Elems[k] ELSE IF k = index + 1 THEN value
                     ELSE Elems[k - 1]
    <3>1. index + 1 \in 1 .. Len(Elems)
      BY <1>1, <1>4, <1>5
    <3> QED
      BY <1>1, <1>4, <3>1, InsertedAt
  <2> HIDE DEF t
  <2>2. ASSUME NEW k \in 1 .. count + 1 PROVE Elems'[k] = t[k]
    <3>1. Elems'[k] = content'[k]
      BY <1>2, <1>3, <1>5
    <3>2. CASE k < index + 1
      <4>1. k \in 1 .. count /\ k <= index
        BY <1>1, <1>4, <1>5, <3>2
      <4>2. content'[k] = content[k] /\ content[k] = Elems[k]
        BY <1>1, <1>3, <4>1
      <4> QED
        BY <1>1, <2>1, <3>1, <3>2, <4>2
    <3>3. CASE k = index + 1
      BY <1>1, <1>3, <1>4, <1>5, <2>1, <3>1, <3>3
    <3>4. CASE k > index + 1
      <4>1. k - 1 \in 1 .. count /\ k - 1 > index /\ (k - 1) + 1 = k
        BY <1>1, <1>4, <3>4
      <4>2. content'[k] = content[k - 1] /\ content[k - 1] = Elems[k - 1]
        BY <1>1, <1>3, <4>1
      <4> QED
        BY <1>1, <1>4, <2>1, <3>1, <3>4, <4>2
    <3> QED
      BY <1>4, <3>2, <3>3, <3>4
  <2>3. Elems' = t
    BY <1>1, <1>2, <1>3, <1>5, <2>1, <2>2, SeqEqual
  <2>4. Loose!Insert(index, value)
    BY <1>1, <1>5, <2>3 DEF Loose!Insert, t
  <2> QED
    BY <1>4, <2>4, Zenon DEF Loose!Next
<1>6. CASE ~(index < count)
  <2>1. count <= index /\ count' = index + 1
    BY <1>1, <1>3, <1>4, <1>6
  <2>2. \A i \in 1 .. count : content'[i] = content[i]
    BY <1>1, <1>3, <1>4, <2>1
  <2>3. Elems' \in {Append(e, value) : e \in Loose!Expansions(index)}
    BY <1>3, <1>4, <2>1, <2>2, Expanded
  <2>4. Loose!Insert(index, value)
    BY <1>1, <1>6, <2>3, Zenon DEF Loose!Insert
  <2> QED
    BY <1>4, <2>4, Zenon DEF Loose!Next
<1> QED
  BY <1>5, <1>6

\* So is an update.
LEMMA UpdateMaps ==
    ASSUME TypeOK, TypeOK', NEW index \in 0 .. MaxIndex, NEW value \in Elements, update(index, value)
    PROVE  Loose!Next
<1>1. /\ Elems \in Seq(Slots) /\ Len(Elems) = count /\ count \in Nat
      /\ \A i \in 1 .. count : Elems[i] = content[i]
  BY ElemsRead
<1>2. /\ Elems' \in Seq(Slots) /\ Len(Elems') = count' /\ count' \in Nat
      /\ \A i \in 1 .. count' : Elems'[i] = content'[i]
  BY ElemsReadAfter
<1>3. /\ count' = IF index < count THEN count ELSE index + 1
      /\ content'[index + 1] = value
      /\ \A i \in 1 .. count : i # index + 1 => content'[i] = content[i]
  BY UpdateEffect DEF update
<1>4. index \in Nat /\ index \in 0 .. Len(Elems') /\ value \in Slots
  BY <1>1, <1>2, <1>3 DEF Slots
<1>5. CASE index < count
  <2> DEFINE t == [Elems EXCEPT ![index + 1] = value]
  <2>1. index + 1 \in 1 .. Len(Elems)
    BY <1>1, <1>4, <1>5
  <2>2. /\ t \in Seq(Slots) /\ Len(t) = Len(Elems)
        /\ \A k \in 1 .. Len(Elems) : t[k] = IF k = index + 1 THEN value ELSE Elems[k]
    BY <1>1, <1>4, <2>1, ExceptSeq
  <2> HIDE DEF t
  <2>3. ASSUME NEW k \in 1 .. count PROVE Elems'[k] = t[k]
    BY <1>1, <1>2, <1>3, <1>5, <2>2
  <2>4. Elems' = t
    BY <1>1, <1>2, <1>3, <1>5, <2>2, <2>3, SeqEqual
  <2>5. Loose!Update(index, value)
    BY <1>1, <1>5, <2>4 DEF Loose!Update, t
  <2> QED
    BY <1>4, <2>5, Zenon DEF Loose!Next
<1>6. CASE ~(index < count)
  <2>1. count <= index /\ count' = index + 1
    BY <1>1, <1>3, <1>4, <1>6
  <2>2. \A i \in 1 .. count : content'[i] = content[i]
    BY <1>1, <1>3, <1>4, <2>1
  <2>3. Elems' \in {Append(e, value) : e \in Loose!Expansions(index)}
    BY <1>3, <1>4, <2>1, <2>2, Expanded
  <2>4. Loose!Update(index, value)
    BY <1>1, <1>6, <2>3, Zenon DEF Loose!Update
  <2> QED
    BY <1>4, <2>4, Zenon DEF Loose!Next
<1> QED
  BY <1>5, <1>6

\* So is a deletion.
LEMMA DelMaps ==
    ASSUME TypeOK, TypeOK', NEW index \in 0 .. MaxIndex, del(index)
    PROVE  Loose!Next
<1>1. /\ Elems \in Seq(Slots) /\ Len(Elems) = count /\ count \in Nat
      /\ \A i \in 1 .. count : Elems[i] = content[i]
  BY ElemsRead
<1>2. /\ Elems' \in Seq(Slots) /\ Len(Elems') = count' /\ count' \in Nat
      /\ \A i \in 1 .. count' : Elems'[i] = content'[i]
  BY ElemsReadAfter
<1>3. /\ index < count /\ count' = count - 1
      /\ \A i \in 1 .. count - 1 :
            content'[i] = IF i <= index THEN content[i] ELSE content[i + 1]
  BY DelEffect
<1>4. index \in Nat /\ index + 1 \in 1 .. Len(Elems) /\ index \in 0 .. Len(Elems)
  BY <1>1, <1>3
<1> DEFINE t == Loose!RemoveAt(Elems, index + 1)
<1>5. /\ t \in Seq(Slots) /\ Len(t) = Len(Elems) - 1
      /\ \A k \in 1 .. Len(Elems) - 1 :
            t[k] = IF k < index + 1 THEN Elems[k] ELSE Elems[k + 1]
  BY <1>1, <1>4, RemovedAt
<1> HIDE DEF t
<1>6. ASSUME NEW k \in 1 .. count - 1 PROVE Elems'[k] = t[k]
  BY <1>1, <1>2, <1>3, <1>4, <1>5
<1>7. Elems' = t
  BY <1>1, <1>2, <1>3, <1>5, <1>6, SeqEqual
<1>8. Loose!Del(index)
  BY <1>1, <1>3, <1>7 DEF Loose!Del, t
<1> QED
  BY <1>4, <1>8, Zenon DEF Loose!Next

\* So is a sort.
LEMMA SortMaps ==
    ASSUME TypeOK, TypeOK', sort
    PROVE  Loose!Next
<1>1. /\ Elems \in Seq(Slots) /\ Len(Elems) = count /\ count \in Nat
      /\ \A i \in 1 .. count : Elems[i] = content[i]
  BY ElemsRead
<1>2. /\ Elems' \in Seq(Slots) /\ Len(Elems') = count' /\ count' \in Nat
      /\ \A i \in 1 .. count' : Elems'[i] = content'[i]
  BY ElemsReadAfter
<1>3. PICK p \in Bijection(1 .. count, 1 .. count) :
         \A i \in 1 .. count : p[i] \in 1 .. count /\ content'[i] = content[p[i]]
  BY SortEffect, Zenon
<1>4. count' = count /\ \A i \in 1 .. count - 1 : content'[i] <= content'[i + 1]
  BY SortEffect, Zenon
<1> DEFINE t == [k \in 1 .. Len(Elems) |-> Elems[p[k]]]
<1>5. t \in Seq(Slots) /\ Len(t) = count /\ \A k \in 1 .. count : t[k] = Elems[p[k]]
  <2>1. \A k \in 1 .. count : p[k] \in 1 .. Len(Elems)
    BY <1>1, <1>3
  <2>2. \A k \in 1 .. count : Elems[p[k]] \in Slots
    BY <1>1, <2>1, ElementOfSeq
  <2>3. t \in [1 .. count -> Slots]
    BY <1>1, <2>2
  <2> QED
    BY <1>1, <2>3, SlotsType
<1> HIDE DEF t
<1>6. Elems' = t
  <2>1. ASSUME NEW k \in 1 .. count PROVE Elems'[k] = t[k]
    BY <1>1, <1>2, <1>3, <1>4, <1>5
  <2> QED
    BY <1>1, <1>2, <1>4, <1>5, <2>1, SeqEqual
<1>7. \A k \in 1 .. Len(Elems') - 1 : Elems'[k] <= Elems'[k + 1]
  <2>1. \A k \in 1 .. count - 1 : k \in 1 .. count /\ k + 1 \in 1 .. count
    BY <1>1
  <2>2. \A k \in 1 .. count - 1 : Elems'[k] = content'[k] /\ Elems'[k + 1] = content'[k + 1]
    BY <1>2, <1>4, <2>1
  <2> QED
    BY <1>1, <1>2, <1>4, <2>2
<1>8. p \in Loose!Bijection(1 .. Len(Elems), 1 .. Len(Elems))
  BY <1>1, <1>3, Zenon DEF Loose!Bijection, Loose!Injection, Loose!Surjection, Loose!IsInjective,
     Bijection, Injection, Surjection, IsInjective
<1>9. Loose!Sort
  BY <1>6, <1>7, <1>8, Zenon DEF Loose!Sort, t
<1> QED
  BY <1>9, Zenon DEF Loose!Next

\* Every operation is that of a vector.
LEMMA Maps ==
    ASSUME TypeOK, TypeOK', [Next]_vars
    PROVE  Loose!Next \/ UNCHANGED Elems
<1>1. ASSUME NEW index \in 0 .. MaxIndex, NEW value \in Elements,
             count <= MaxIndex, insert(index, value)
      PROVE  Loose!Next
  BY <1>1, InsertMaps
<1>2. ASSUME NEW index \in 0 .. MaxIndex, NEW value \in Elements, update(index, value)
      PROVE  Loose!Next
  BY <1>2, UpdateMaps
<1>3. ASSUME NEW index \in 0 .. MaxIndex, del(index)
      PROVE  Loose!Next
  BY <1>3, DelMaps
<1>4. CASE sort
  BY <1>4, SortMaps
<1>5. CASE clear
  <2>1. count' = 0
    BY <1>5 DEF clear
  <2>2. Elems' = <<>>
    BY <2>1, ElemsReadAfter, EmptySeq
  <2> QED
    BY <2>2, Zenon DEF Loose!Next, Loose!Clear
<1>6. CASE UNCHANGED vars
  BY <1>6 DEF vars, Elems
<1> QED
  BY <1>1, <1>2, <1>3, <1>4, <1>5, <1>6, Next_Cases, Zenon

\* What the user reads is a vector: an insertion, a replacement, a deletion, a sort and a
\* clear change the elements by what cad_array.h promises and nothing else, through every
\* growth of the block and every shift of its slots.  Gaps may hold anything.
THEOREM ArrayImplementsVector == Spec => ImplementsVector
<1>1. Init => Loose!Init
  <2> SUFFICES ASSUME Init PROVE Elems = <<>>
    BY DEF Loose!Init
  <2> QED
    BY SubSeqEmpty DEF Init, Elems
<1>2. TypeOK /\ TypeOK' /\ [Next]_vars => [Loose!Next]_Elems
  BY Maps
<1> QED
  BY <1>1, <1>2, TypeOKHolds, PTL DEF Spec, ImplementsVector, Loose!Spec
==============================================================================
