---------------------------- MODULE StreamsProofs ----------------------------
(***************************************************************************)
(* What the two ends of a stream keep, for all texts, sizes of blocks and  *)
(* buffers, short reads and writes and failures of the system.             *)
(***************************************************************************)
EXTENDS InputStream, SequenceTheorems, WellFoundedInduction, TLAPS

\* What the run assumes of the user: texts without a NUL.
Plain == \A t \in Texts : \A i \in DOMAIN t : t[i] # NUL

------------------------------------------------------------------------------
\* Blocks

\* The first natural number of a set is one of it.
LEMMA MinIsLeast ==
    ASSUME NEW S \in SUBSET Nat, S # {}
    PROVE  Min(S) \in S /\ \A n \in S : Min(S) <= n
<1>1. PICK R : IsWellFoundedOn(R, Nat) /\ \A m, n \in Nat : m < n => <<m, n>> \in R
  <2>1. IsWellFoundedOn(OpToRel(<, Nat), Nat)
    BY NatLessThanWellFounded
  <2>2. ASSUME NEW m \in Nat, NEW n \in Nat, m < n
        PROVE  <<m, n>> \in {ss \in Nat \X Nat : ss[1] < ss[2]}
    BY <2>2
  <2>3. \A m, n \in Nat : m < n => <<m, n>> \in OpToRel(<, Nat)
    BY <2>2, Zenon DEF OpToRel
  <2> QED
    BY <2>1, <2>3, Zenon
<1>2. IsWellFoundedOn(R, Nat) /\ S \subseteq Nat /\ S # {}
  BY <1>1
<1>3. PICK x \in S : \A y \in S : ~(<<y, x>> \in R)
  BY <1>2, WFMin, Zenon
<1>4. \A y \in S : ~(y < x)
  BY <1>1, <1>3, Zenon
<1>5. \A y \in S : x <= y
  BY <1>4
<1> QED
  BY <1>5, Zenon DEF Min

\* The lesser of two natural numbers.
LEMMA MinOfTwo ==
    ASSUME NEW a \in Nat, NEW b \in Nat
    PROVE  Min({a, b}) \in {a, b} /\ Min({a, b}) <= a /\ Min({a, b}) <= b
<1>1. {a, b} \in SUBSET Nat /\ {a, b} # {}
  OBVIOUS
<1> QED
  BY <1>1, MinIsLeast

\* The capacities are positive.
LEMMA DoublingsType == Doublings \in SUBSET (Nat \ {0})
<1>1. Doublings \subseteq 1 .. MaxCapacity
  BY Zenon DEF Doublings
<1> QED
  BY <1>1, OutputAssumption

\* There is a capacity for what the user may put, and it is the least that will do.
LEMMA CapacityFound ==
    ASSUME NEW block0, Len(block0) \in Doublings \cup {0, Capacity},
           NEW size \in Nat, size <= MaxPuts * MaxText + 1
    PROVE  LET C == {c \in Doublings : c >= Len(block0) /\ size <= c}
           IN  C \in SUBSET Nat /\ C # {}
<1>1. PICK c \in Doublings : /\ MaxPuts * MaxText + 1 < c
                             /\ \A d \in Doublings \cup {Capacity} : d <= c
  BY OutputAssumption
<1>2. MaxPuts * MaxText \in Nat
  BY OutputAssumption
<1>3. c \in Nat /\ size <= c
  BY <1>1, <1>2, DoublingsType
<1>4. Len(block0) <= c
  BY <1>1, <1>3
<1>5. Len(block0) \in Nat
  BY DoublingsType, OutputAssumption
<1> QED
  BY <1>1, <1>3, <1>4, <1>5, DoublingsType

\* What a stream keeps: JUNK, NUL and the bytes of the texts.
Cell == {JUNK, NUL} \cup UNION {{t[i] : i \in DOMAIN t} : t \in Texts}

LEMMA CellType == Cell \subseteq Bytes \cup {JUNK} /\ JUNK \in Cell /\ NUL \in Cell
<1>1. ASSUME NEW t \in Texts, NEW i \in DOMAIN t
      PROVE  t[i] \in Bytes
  <2>1. t \in Seq(Bytes)
    BY OutputAssumption
  <2> QED
    BY <2>1, LenProperties, ElementOfSeq
<1> QED
  BY <1>1 DEF Cell, JUNK, NUL, Bytes

LEMMA TextType ==
    ASSUME NEW t \in Texts
    PROVE  t \in Seq(Cell) /\ Len(t) \in Nat /\ Len(t) <= MaxText /\ DOMAIN t = 1 .. Len(t)
<1>1. t \in Seq(Bytes) /\ Len(t) <= MaxText
  BY OutputAssumption
<1>2. Len(t) \in Nat /\ DOMAIN t = 1 .. Len(t) /\ t \in [1 .. Len(t) -> Bytes]
  BY <1>1, LenProperties
<1>3. ASSUME NEW i \in 1 .. Len(t)
      PROVE  t[i] \in Cell
  <2>1. t[i] \in {t[j] : j \in DOMAIN t}
    BY <1>2
  <2> QED
    BY <2>1, Zenon DEF Cell
<1>4. t \in [1 .. Len(t) -> Cell]
  BY <1>2, <1>3
<1> QED
  BY <1>1, <1>2, <1>4, SeqDef

\* A sequence given cell by cell.
LEMMA CellsType ==
    ASSUME NEW n \in Nat, NEW f, f \in [1 .. n -> Cell]
    PROVE  f \in Seq(Cell) /\ Len(f) = n
<1>1. f \in Seq(Cell)
  BY SeqDef
<1>2. DOMAIN f = 1 .. n
  OBVIOUS
<1> QED
  BY <1>1, <1>2, LenProperties

\* Writing changes the bytes of the text and the NUL behind it.
LEMMA WrittenCells ==
    ASSUME NEW b \in Seq(Cell), NEW at \in Nat, NEW s \in Seq(Cell)
    PROVE  /\ Written(b, at, s) \in Seq(Cell)
           /\ Len(Written(b, at, s)) = Len(b)
           /\ \A i \in 1 .. Len(b) :
                 Written(b, at, s)[i] = IF i - at \in 1 .. Len(s) THEN s[i - at]
                                        ELSE IF i - at = Len(s) + 1 THEN NUL
                                        ELSE b[i]
<1>1. Len(b) \in Nat /\ DOMAIN b = 1 .. Len(b) /\ Len(s) \in Nat /\ DOMAIN s = 1 .. Len(s)
  BY LenProperties
<1>2. \A i \in 1 .. Len(b) : b[i] \in Cell
  BY ElementOfSeq
<1>3. \A i \in 1 .. Len(s) : s[i] \in Cell
  BY ElementOfSeq
<1> DEFINE v(i) == CASE i - at \in DOMAIN s -> s[i - at]
                     [] i - at = Len(s) + 1 -> NUL
                     [] OTHER               -> b[i]
<1>4. Written(b, at, s) = [i \in 1 .. Len(b) |-> v(i)]
  BY <1>1, Zenon DEF Written
<1>5. ASSUME NEW i \in 1 .. Len(b)
      PROVE  v(i) = IF i - at \in 1 .. Len(s) THEN s[i - at]
                    ELSE IF i - at = Len(s) + 1 THEN NUL
                    ELSE b[i]
  BY <1>1
<1>6. ASSUME NEW i \in 1 .. Len(b)
      PROVE  v(i) \in Cell
  BY <1>2, <1>3, <1>5, CellType
<1> HIDE DEF v
<1>7. Written(b, at, s) \in [1 .. Len(b) -> Cell]
  BY <1>4, <1>6
<1>8. \A i \in 1 .. Len(b) : Written(b, at, s)[i] = v(i)
  BY <1>4
<1>9. Written(b, at, s) \in Seq(Cell) /\ Len(Written(b, at, s)) = Len(b)
  BY <1>1, <1>7, CellsType
<1> QED
  BY <1>5, <1>8, <1>9

\* A block that holds a string and its NUL.
Holds(b, s) ==
    /\ Len(b) \in Doublings
    /\ Len(s) < Len(b)
    /\ b[Len(s) + 1] = NUL
    /\ \A i \in 1 .. Len(s) : b[i] = s[i] /\ s[i] # NUL

LEMMA CStringOfHolds ==
    ASSUME NEW b \in Seq(Cell), NEW s \in Seq(Cell), Holds(b, s)
    PROVE  CString(b) = s
<1> DEFINE ends == {i \in DOMAIN b : b[i] = NUL}
<1>1. Len(b) \in Nat /\ DOMAIN b = 1 .. Len(b) /\ Len(s) \in Nat
  BY LenProperties
<1>2. Len(s) + 1 \in ends /\ ends \subseteq Nat
  BY <1>1 DEF Holds
<1>3. \A i \in ends : i > Len(s)
  BY <1>1 DEF Holds
<1>4. CString(b) = SubSeq(b, 1, Min(ends) - 1)
  BY <1>2, Zenon DEF CString
<1> HIDE DEF ends
<1>5. Min(ends) \in ends /\ \A n \in ends : Min(ends) <= n
  BY <1>2, MinIsLeast
<1>6. Min(ends) - 1 = Len(s)
  <2>1. Min(ends) \in Nat /\ Min(ends) > Len(s)
    BY <1>2, <1>3, <1>5, Zenon
  <2>2. Min(ends) <= Len(s) + 1
    BY <1>2, <1>5, Zenon
  <2> QED
    BY <1>1, <2>1, <2>2
<1>7. \A i \in 1 .. Len(s) : b[i] = s[i] /\ b[i] \in Cell
  BY <1>1, ElementOfSeq DEF Holds
<1>8. \A i \in 1 .. Len(s) : b[i] \in Cell
  BY <1>7
<1> DEFINE c == SubSeq(b, 1, Len(s))
<1>9. /\ c \in Seq(Cell)
      /\ Len(c) = IF 1 <= Len(s) THEN Len(s) - 1 + 1 ELSE 0
      /\ \A i \in 1 .. Len(s) - 1 + 1 : c[i] = b[1 + i - 1]
  BY <1>1, <1>8, SubSeqProperties
<1>10. CString(b) = c
  BY <1>4, <1>6
<1> HIDE DEF c
<1>11. Len(c) = Len(s) /\ \A i \in 1 .. Len(c) : c[i] = s[i]
  BY <1>1, <1>7, <1>9
<1>12. c = s
  BY <1>9, <1>11, SeqEqual
<1> QED
  BY <1>10, <1>12

\* A string is written at the start of a block that is long enough.
LEMMA HoldsWritten ==
    ASSUME NEW b \in Seq(Cell), Len(b) \in Doublings,
           NEW s \in Seq(Cell), Len(s) < Len(b),
           \A i \in 1 .. Len(s) : s[i] # NUL
    PROVE  Holds(Written(b, 0, s), s)
<1>1. Len(b) \in Nat /\ Len(s) \in Nat
  BY LenProperties
<1>2. /\ Len(Written(b, 0, s)) = Len(b)
      /\ \A i \in 1 .. Len(b) :
            Written(b, 0, s)[i] = IF i - 0 \in 1 .. Len(s) THEN s[i - 0]
                                  ELSE IF i - 0 = Len(s) + 1 THEN NUL
                                  ELSE b[i]
  BY WrittenCells
<1> QED
  BY <1>1, <1>2 DEF Holds

\* A text is written behind the string that a block holds.
LEMMA HoldsAppended ==
    ASSUME NEW b \in Seq(Cell), NEW s \in Seq(Cell), Holds(b, s),
           NEW t \in Seq(Cell), Len(s) + Len(t) < Len(b),
           \A i \in 1 .. Len(t) : t[i] # NUL
    PROVE  Holds(Written(b, Len(s), t), s \o t)
<1>1. Len(b) \in Nat /\ Len(s) \in Nat /\ Len(t) \in Nat
  BY LenProperties
<1> DEFINE w == Written(b, Len(s), t)
           u == s \o t
<1>2. /\ Len(w) = Len(b)
      /\ \A i \in 1 .. Len(b) : w[i] = IF i - Len(s) \in 1 .. Len(t) THEN t[i - Len(s)]
                                       ELSE IF i - Len(s) = Len(t) + 1 THEN NUL
                                       ELSE b[i]
  BY <1>1, WrittenCells
<1>3. /\ Len(u) = Len(s) + Len(t)
      /\ \A i \in 1 .. Len(s) + Len(t) : u[i] = IF i <= Len(s) THEN s[i] ELSE t[i - Len(s)]
  BY ConcatProperties
<1> HIDE DEF w, u
<1>4. w[Len(u) + 1] = NUL
  BY <1>1, <1>2, <1>3
<1>5. ASSUME NEW i \in 1 .. Len(u)
      PROVE  w[i] = u[i] /\ u[i] # NUL
  <2>1. CASE i <= Len(s)
    BY <1>1, <1>2, <1>3, <2>1 DEF Holds
  <2>2. CASE i > Len(s)
    <3>1. i - Len(s) \in 1 .. Len(t) /\ i \in 1 .. Len(b)
      BY <1>1, <1>3, <2>2
    <3>2. w[i] = t[i - Len(s)]
      BY <1>2, <3>1, Zenon
    <3>3. u[i] = t[i - Len(s)]
      BY <1>1, <1>3, <2>2
    <3>4. t[i - Len(s)] # NUL
      BY <3>1
    <3> QED
      BY <3>2, <3>3, <3>4
  <2> QED
    BY <1>1, <1>3, <2>1, <2>2
<1>6. Holds(w, u)
  BY <1>1, <1>2, <1>3, <1>4, <1>5 DEF Holds
<1> QED
  BY <1>6 DEF w, u

------------------------------------------------------------------------------
\* The writer

Calls == [text : Seq(Cell), m : Int, n : Nat, result : Int, busy : BOOLEAN]

OutType ==
    /\ kind \in Kinds
    /\ block \in Seq(Cell)
    /\ pending \in Seq(Cell)
    /\ device \in Seq(Cell)
    /\ given \in Seq(Cell)
    /\ returned \in Int
    /\ count \in Nat
    /\ puts \in 0 .. MaxPuts
    /\ call \in Calls
    /\ closed \in BOOLEAN

\* Which stream does what, and when.
OutPhase ==
    /\ ~call.busy => call = Idle
    /\ call.busy => kind = "descriptor"
    /\ closed => ~call.busy /\ pending = <<>>
    /\ pending # <<>> => kind = "file"

\* A string: the block holds what was put, or there is no block yet.
StringInv ==
    /\ ~overrun
    /\ kind = "string" =>
          /\ device = <<>>
          /\ count = Len(given)
          /\ returned = count
          /\ count <= puts * MaxText
          /\ (block = <<>> /\ given = <<>>) \/ Holds(block, given)

\* A descriptor: the buffer has room for the text that is being written and its NUL.
CallInv ==
    kind = "descriptor" =>
        /\ Len(block) \in Doublings \cup {Capacity}
        /\ call.n = Len(call.text)
        /\ call.n < Len(block)

\* A file or a descriptor: what the puts returned is on its way, with what the vput
\* under way has written so far.
DeviceInv ==
    kind # "string" /\ ~torn => Len(device) + Len(pending) = returned + call.result

OutInv == OutType /\ OutPhase /\ StringInv /\ CallInv /\ DeviceInv

LEMMA IdleType == Idle \in Calls /\ Idle.result = 0 /\ ~Idle.busy
<1>1. <<>> \in Seq(Cell)
  BY EmptySeq
<1> QED
  BY <1>1 DEF Idle, Calls

LEMMA OutInit_OutInv == OutInit => OutInv
<1> SUFFICES ASSUME OutInit PROVE OutInv
  OBVIOUS
<1>1. <<>> \in Seq(Cell) /\ Len(<<>>) = 0
  BY EmptySeq
<1>2. Capacity \in Nat \ {0} /\ MaxPuts \in Nat /\ MaxText \in Nat
  BY OutputAssumption
<1>3. [i \in 1 .. Capacity |-> JUNK] \in [1 .. Capacity -> Cell]
  BY CellType
<1>4. [i \in 1 .. Capacity |-> JUNK] \in Seq(Cell) /\ Len([i \in 1 .. Capacity |-> JUNK]) = Capacity
  BY <1>2, <1>3, CellsType
<1>5. block \in Seq(Cell) /\ (kind = "descriptor" => Len(block) = Capacity)
  BY <1>1, <1>4 DEF OutInit
<1>6. OutType
  <2>1. puts \in 0 .. MaxPuts /\ count \in Nat /\ returned \in Int
    BY <1>2 DEF OutInit
  <2>2. /\ pending \in Seq(Cell) /\ device \in Seq(Cell) /\ given \in Seq(Cell)
        /\ kind \in Kinds /\ call \in Calls /\ closed \in BOOLEAN
    BY <1>1, IdleType, Zenon DEF OutInit
  <2> QED
    BY <1>5, <2>1, <2>2, Zenon DEF OutType
<1>7. OutPhase
  BY IdleType DEF OutInit, OutPhase
<1>8. StringInv
  <2>1. 0 <= puts * MaxText
    BY <1>2 DEF OutInit
  <2>2. kind = "string" => block = <<>>
    BY DEF OutInit
  <2> QED
    BY <1>1, <2>1, <2>2 DEF OutInit, StringInv
<1>9. CallInv
  BY <1>1, <1>2, <1>5 DEF OutInit, CallInv, Idle
<1>10. DeviceInv
  BY <1>1, IdleType DEF OutInit, DeviceInv
<1> QED
  BY <1>6, <1>7, <1>8, <1>9, <1>10 DEF OutInv

\* One more text still fits in the largest block.
LEMMA OneMore ==
    ASSUME NEW p \in 0 .. MaxPuts, p < MaxPuts, NEW c \in Nat, c <= p * MaxText,
           NEW n \in Nat, n <= MaxText
    PROVE  c + n <= (p + 1) * MaxText /\ (p + 1) * MaxText <= MaxPuts * MaxText
<1>1. MaxText \in Nat /\ MaxPuts \in Nat /\ p \in Nat
  BY OutputAssumption
<1>2. (p + 1) * MaxText = p * MaxText + MaxText /\ p * MaxText \in Nat
  BY <1>1
<1>3. MaxPuts = (p + 1) + (MaxPuts - (p + 1)) /\ MaxPuts - (p + 1) \in Nat
  BY <1>1
<1>4. ((p + 1) + (MaxPuts - (p + 1))) * MaxText = (p + 1) * MaxText + (MaxPuts - (p + 1)) * MaxText
  BY <1>1
<1>5. (MaxPuts - (p + 1)) * MaxText \in Nat
  BY <1>1, <1>3
<1> QED
  BY <1>1, <1>2, <1>3, <1>4, <1>5

\* The block of a string grows to a capacity that will do, and only when it must.
LEMMA GrownType ==
    ASSUME NEW size \in Nat, size <= MaxPuts * MaxText + 1,
           Len(block) \in Doublings \cup {0}
    PROVE  /\ Grown(size) \in Doublings
           /\ Grown(size) >= Len(block)
           /\ Grown(size) >= size
           /\ Len(block) \in Doublings /\ size <= Len(block) => Grown(size) = Len(block)
<1> DEFINE C == {c \in Doublings : c >= Len(block) /\ size <= c}
<1>1. C \in SUBSET Nat /\ C # {}
  BY CapacityFound
<1>2. Grown(size) = Min(C)
  BY Zenon DEF Grown
<1>3. Min(C) \in C /\ \A n \in C : Min(C) <= n
  BY <1>1, MinIsLeast
<1>4. Len(block) \in Nat /\ Doublings \subseteq Nat
  BY DoublingsType
<1>5. Min(C) \in Doublings /\ Min(C) >= Len(block) /\ size <= Min(C)
  BY <1>3
<1>6. Len(block) \in Doublings /\ size <= Len(block) => Min(C) <= Len(block)
  BY <1>3, <1>4
<1> HIDE DEF C
<1>7. Min(C) \in Nat
  BY <1>4, <1>5
<1>8. Len(block) \in Doublings /\ size <= Len(block) => Min(C) = Len(block)
  BY <1>4, <1>5, <1>6, <1>7
<1> QED
  BY <1>2, <1>5, <1>8, Zenon

LEMMA PutString ==
    ASSUME Plain, OutInv, NEW t \in Texts, vput_string(t)
    PROVE  OutInv'
<1> DEFINE size == Len(t) + 1 + count
           new == Grown(size)
           junk == [i \in 1 .. new |-> JUNK]
           copy == IF block = <<>> THEN junk ELSE Written(junk, 0, CString(block))
           room == IF new > Len(block) THEN copy ELSE block
<1>1. t \in Seq(Cell) /\ Len(t) \in Nat /\ Len(t) <= MaxText /\ \A i \in 1 .. Len(t) : t[i] # NUL
  BY TextType DEF Plain
<1>2. kind = "string" /\ MayPut /\ ~call.busy /\ call = Idle
  BY DEF vput_string, MayPut, OutInv, OutPhase
<1>3. /\ device = <<>>
      /\ count \in Nat /\ count = Len(given) /\ count <= puts * MaxText
      /\ returned = count
      /\ (block = <<>> /\ given = <<>>) \/ Holds(block, given)
  BY <1>2 DEF OutInv, StringInv, OutType
<1>4. puts \in 0 .. MaxPuts /\ puts < MaxPuts
  BY <1>2 DEF MayPut, OutInv, OutType
<1>5. count + Len(t) <= (puts + 1) * MaxText /\ (puts + 1) * MaxText <= MaxPuts * MaxText
  BY <1>1, <1>3, <1>4, OneMore
<1>6. size \in Nat /\ size <= MaxPuts * MaxText + 1
  <2>1. MaxPuts * MaxText \in Nat /\ (puts + 1) * MaxText \in Nat
    BY <1>4, OutputAssumption
  <2> QED
    BY <1>1, <1>3, <1>5, <2>1
<1>7. Len(block) \in Doublings \cup {0} /\ Len(block) \in Nat
  BY <1>3, DoublingsType, EmptySeq DEF Holds
<1> HIDE DEF size
<1>8. /\ new \in Doublings /\ new \in Nat \ {0}
      /\ new >= Len(block) /\ new >= size
      /\ Len(block) \in Doublings /\ size <= Len(block) => new = Len(block)
  BY <1>6, <1>7, GrownType, DoublingsType
<1>9. /\ block' = Written(room, count, t)
      /\ overrun' = (overrun \/ size > new)
      /\ count' = count + Len(t)
      /\ given' = given \o t
      /\ returned' = returned + Len(t)
      /\ puts' = puts + 1
      /\ UNCHANGED <<kind, pending, device, closed, call, torn>>
  BY Zenon DEF vput_string, size
<1> HIDE DEF new
<1>10. junk \in Seq(Cell) /\ Len(junk) = new
  <2>1. junk \in [1 .. new -> Cell]
    BY CellType
  <2> QED
    BY <1>8, <2>1, CellsType
<1> HIDE DEF junk
<1>11. given \in Seq(Cell) /\ block \in Seq(Cell)
  BY DEF OutInv, OutType
<1>12. block' \in Seq(Cell) /\ Holds(block', given')
  <2>1. CASE block = <<>> /\ given = <<>>
    <3>1. room = junk /\ count = 0
      BY <1>3, <1>7, <1>8, <2>1, EmptySeq
    <3>2. given' = t
      BY <1>1, <1>9, <2>1, ConcatEmptySeq
    <3>3. Len(t) < Len(junk)
      BY <1>1, <1>8, <1>10, <3>1 DEF size
    <3>4. Holds(Written(junk, 0, t), t)
      BY <1>1, <1>8, <1>10, <3>3, HoldsWritten
    <3>5. Written(junk, 0, t) \in Seq(Cell)
      BY <1>1, <1>10, WrittenCells
    <3>6. block' = Written(junk, 0, t)
      BY <1>9, <3>1, Zenon
    <3> QED
      BY <3>2, <3>4, <3>5, <3>6
  <2>2. CASE Holds(block, given)
    <3>1. CString(block) = given
      BY <1>11, <2>2, CStringOfHolds
    <3>2. block # <<>>
      BY <1>7, <2>2, DoublingsType, EmptySeq DEF Holds
    <3>3. copy = Written(junk, 0, given)
      BY <3>1, <3>2
    <3>4. Len(given) < Len(junk)
      BY <1>1, <1>3, <1>8, <1>10 DEF size
    <3>5. \A i \in 1 .. Len(given) : given[i] # NUL
      BY <2>2 DEF Holds
    <3>6. Holds(copy, given)
      BY <1>8, <1>10, <1>11, <3>3, <3>4, <3>5, HoldsWritten
    <3>7. copy \in Seq(Cell) /\ Len(copy) = new
      BY <1>10, <1>11, <3>3, WrittenCells
    <3> HIDE DEF copy
    <3>8. room \in Seq(Cell) /\ Holds(room, given) /\ Len(room) = new
      BY <1>7, <1>8, <1>11, <2>2, <3>6, <3>7
    <3> HIDE DEF room
    <3>9. Len(given) + Len(t) < Len(room)
      BY <1>1, <1>3, <1>8, <3>8 DEF size
    <3>10. Holds(Written(room, Len(given), t), given \o t)
      BY <1>1, <1>11, <3>8, <3>9, HoldsAppended
    <3>11. Written(room, count, t) \in Seq(Cell)
      BY <1>1, <1>3, <3>8, WrittenCells
    <3> QED
      BY <1>3, <1>9, <3>10, <3>11
  <2> QED
    BY <1>3, <2>1, <2>2
<1>13. given' \in Seq(Cell) /\ Len(given') = Len(given) + Len(t)
  BY <1>1, <1>9, <1>11, ConcatProperties
<1>14. OutType'
  <2>1. count' \in Nat /\ puts' \in 0 .. MaxPuts /\ returned' \in Int
    BY <1>1, <1>3, <1>4, <1>9, OutputAssumption
  <2> QED
    BY <1>9, <1>12, <1>13, <2>1, Zenon DEF OutInv, OutType
<1>15. OutPhase'
  BY <1>9 DEF OutInv, OutPhase
<1>16. StringInv'
  <2>1. ~overrun'
    <3>1. ~(size > new)
      BY <1>6, <1>8
    <3>2. ~overrun
      BY DEF OutInv, StringInv
    <3> QED
      BY <1>9, <3>1, <3>2, Zenon
  <2> QED
    BY <1>3, <1>5, <1>9, <1>12, <1>13, <2>1 DEF StringInv
<1>17. CallInv' /\ DeviceInv'
  BY <1>2, <1>9 DEF CallInv, DeviceInv
<1> QED
  BY <1>14, <1>15, <1>16, <1>17 DEF OutInv

LEMMA PutFile ==
    ASSUME OutInv, NEW t \in Texts, vput_file(t)
    PROVE  OutInv'
<1>1. t \in Seq(Cell)
  BY TextType
<1>2. kind = "file" /\ ~closed /\ call = Idle /\ puts < MaxPuts
  BY DEF vput_file, MayPut, OutInv, OutPhase
<1>3. /\ pending' = pending \o t
      /\ given' = given \o t
      /\ returned' = returned + Len(t)
      /\ puts' = puts + 1
      /\ UNCHANGED <<kind, block, count, device, closed, call, torn, overrun>>
  BY DEF vput_file
<1>4. /\ pending \in Seq(Cell) /\ given \in Seq(Cell) /\ device \in Seq(Cell)
      /\ puts \in 0 .. MaxPuts /\ returned \in Int
  BY DEF OutInv, OutType
<1>5. /\ pending' \in Seq(Cell) /\ given' \in Seq(Cell)
      /\ Len(pending') = Len(pending) + Len(t) /\ Len(t) \in Nat
  BY <1>1, <1>3, <1>4, ConcatProperties, LenProperties
<1>6. OutType'
  <2>1. puts' \in 0 .. MaxPuts /\ returned' \in Int
    BY <1>2, <1>3, <1>4, <1>5, OutputAssumption
  <2> QED
    BY <1>3, <1>5, <2>1, Zenon DEF OutInv, OutType
<1>7. OutPhase'
  BY <1>2, <1>3, Zenon DEF OutInv, OutPhase
<1>8. StringInv' /\ CallInv'
  BY <1>2, <1>3 DEF OutInv, StringInv, CallInv
<1>9. DeviceInv'
  <2>1. Len(device) \in Nat /\ Len(pending) \in Nat /\ call.result = 0
    BY <1>2, <1>4, IdleType, LenProperties
  <2> SUFFICES ASSUME ~torn PROVE Len(device') + Len(pending') = returned' + call'.result
    BY <1>3, Zenon DEF DeviceInv
  <2>2. Len(device) + Len(pending) = returned + call.result
    BY <1>2 DEF OutInv, DeviceInv
  <2>3. device' = device /\ call' = call /\ returned' = returned + Len(t)
    BY <1>3
  <2> QED
    BY <1>4, <1>5, <2>1, <2>2, <2>3
<1> QED
  BY <1>6, <1>7, <1>8, <1>9 DEF OutInv

\* What is pending goes to the device.
LEMMA Flushes ==
    ASSUME OutInv, ~call.busy, device' = device \o pending, pending' = <<>>,
           UNCHANGED <<kind, block, count, call, puts, given, returned, torn, overrun>>,
           closed' \in BOOLEAN
    PROVE  OutInv'
<1>1. pending \in Seq(Cell) /\ device \in Seq(Cell) /\ <<>> \in Seq(Cell)
  BY EmptySeq DEF OutInv, OutType
<1>2. /\ device' \in Seq(Cell) /\ Len(device') = Len(device) + Len(pending)
      /\ Len(pending') = 0 /\ Len(device) \in Nat /\ Len(pending) \in Nat
  BY <1>1, ConcatProperties, LenProperties, EmptySeq
<1>3. OutType'
  BY <1>1, <1>2 DEF OutInv, OutType
<1>4. OutPhase'
  BY DEF OutInv, OutPhase
<1>5. StringInv'
  <2>1. kind = "string" => pending = <<>>
    BY DEF OutInv, OutPhase
  <2>2. kind = "string" => device' = <<>>
    BY <1>1, <2>1, ConcatEmptySeq DEF OutInv, StringInv
  <2> QED
    BY <2>2 DEF OutInv, StringInv
<1>6. CallInv'
  BY DEF OutInv, CallInv
<1>7. DeviceInv'
  <2>1. Len(device') + Len(pending') = Len(device) + Len(pending)
    BY <1>2
  <2> QED
    BY <2>1 DEF OutInv, DeviceInv
<1> QED
  BY <1>3, <1>4, <1>5, <1>6, <1>7 DEF OutInv

\* The buffer of a descriptor grows to a capacity that will do.
LEMMA EnoughType ==
    ASSUME NEW n \in Nat, n <= MaxPuts * MaxText,
           Len(block) \in Doublings \cup {Capacity}
    PROVE  /\ Min(Enough(n)) \in Doublings
           /\ Min(Enough(n)) >= Len(block)
           /\ n < Min(Enough(n))
<1> DEFINE C == {c \in Doublings : c >= Len(block) /\ n + 1 <= c}
<1>1. MaxPuts * MaxText \in Nat
  BY OutputAssumption
<1>2. C \in SUBSET Nat /\ C # {}
  <2>1. n + 1 \in Nat /\ n + 1 <= MaxPuts * MaxText + 1
    BY <1>1
  <2>2. Len(block) \in Doublings \cup {0, Capacity}
    OBVIOUS
  <2> QED
    BY <2>1, <2>2, CapacityFound
<1>3. C \subseteq Enough(n)
  BY <1>2 DEF Enough
<1>4. Enough(n) \in SUBSET Nat /\ Enough(n) # {}
  BY <1>2, <1>3, DoublingsType DEF Enough
<1>5. Min(Enough(n)) \in Enough(n)
  BY <1>4, MinIsLeast
<1> QED
  BY <1>5 DEF Enough

LEMMA PutDescriptor ==
    ASSUME OutInv, NEW t \in Texts, vput_descriptor(t)
    PROVE  OutInv'
<1> DEFINE new == Min(Enough(Len(t)))
           junk == [i \in 1 .. new |-> JUNK]
           fresh == IF new > Len(block) THEN junk ELSE block
           begun(m) == [text |-> t, m |-> m, n |-> Len(t), result |-> 0, busy |-> TRUE]
<1>1. t \in Seq(Cell) /\ Len(t) \in Nat /\ Len(t) <= MaxText
  BY TextType
<1>2. kind = "descriptor" /\ ~closed /\ call = Idle /\ puts < MaxPuts
  BY DEF vput_descriptor, MayPut, OutInv, OutPhase
<1>3. /\ puts \in 0 .. MaxPuts /\ given \in Seq(Cell) /\ block \in Seq(Cell)
      /\ Len(block) \in Doublings \cup {Capacity} /\ Len(block) \in Nat
  BY <1>2, DoublingsType, OutputAssumption DEF OutInv, OutType, CallInv
<1>4. Len(t) <= MaxPuts * MaxText
  <2>1. puts * MaxText \in Nat /\ (puts + 1) * MaxText \in Nat /\ MaxPuts * MaxText \in Nat
    BY <1>3, OutputAssumption
  <2>2. 0 <= puts * MaxText
    BY <2>1
  <2>3. 0 + Len(t) <= (puts + 1) * MaxText /\ (puts + 1) * MaxText <= MaxPuts * MaxText
    BY <1>1, <1>2, <1>3, <2>2, OneMore
  <2> QED
    BY <1>1, <2>1, <2>3
<1>5. new \in Doublings /\ new \in Nat \ {0} /\ new >= Len(block) /\ Len(t) < new
  BY <1>1, <1>3, <1>4, EnoughType, DoublingsType
<1>6. /\ block' = Written(fresh, 0, SubSeq(t, 1, Min({Len(t), new - 1})))
      /\ puts' = puts + 1
      /\ given' = given \o t
      /\ UNCHANGED <<kind, count, pending, device, closed, returned, torn, overrun>>
  BY Zenon DEF vput_descriptor
<1>7. PICK m \in Offsets : call' = begun(m)
  BY DEF vput_descriptor
<1> HIDE DEF new
<1>8. Min({Len(t), new - 1}) = Len(t)
  <2>1. new - 1 \in Nat /\ Len(t) <= new - 1
    BY <1>1, <1>5
  <2>2. /\ Min({Len(t), new - 1}) \in {Len(t), new - 1}
        /\ Min({Len(t), new - 1}) <= Len(t)
    BY <1>1, <2>1, MinOfTwo
  <2> QED
    BY <1>1, <2>1, <2>2
<1>9. block' = Written(fresh, 0, t)
  BY <1>1, <1>6, <1>8, SubSeqFull
<1>10. fresh \in Seq(Cell) /\ Len(fresh) = new
  <2>1. junk \in [1 .. new -> Cell]
    BY CellType
  <2>2. junk \in Seq(Cell) /\ Len(junk) = new
    BY <1>5, <2>1, CellsType
  <2> QED
    BY <1>3, <1>5, <2>2
<1> HIDE DEF fresh
<1>11. block' \in Seq(Cell) /\ Len(block') = new
  BY <1>1, <1>9, <1>10, WrittenCells
<1>12. OutType'
  <2>1. puts' \in 0 .. MaxPuts
    BY <1>2, <1>3, <1>6, OutputAssumption
  <2>2. call' \in Calls
    BY <1>1, <1>7, OutputAssumption DEF Calls
  <2>3. given' \in Seq(Cell)
    BY <1>1, <1>3, <1>6, ConcatProperties
  <2> QED
    BY <1>6, <1>11, <2>1, <2>2, <2>3, Zenon DEF OutInv, OutType
<1>13. OutPhase'
  BY <1>2, <1>6, <1>7 DEF OutInv, OutPhase
<1>14. StringInv'
  BY <1>2, <1>6 DEF OutInv, StringInv
<1>15. CallInv'
  <2>1. call'.text = t /\ call'.n = Len(t)
    BY <1>7
  <2>2. Len(block') \in Doublings /\ Len(t) < Len(block')
    BY <1>5, <1>11
  <2> QED
    BY <2>1, <2>2, Zenon DEF CallInv
<1>16. DeviceInv'
  <2>1. call'.result = 0 /\ call.result = 0
    BY <1>2, <1>7, IdleType
  <2> QED
    BY <1>6, <2>1 DEF OutInv, DeviceInv
<1> QED
  BY <1>12, <1>13, <1>14, <1>15, <1>16 DEF OutInv

\* The vput of a descriptor, under way.
LEMMA Busy ==
    ASSUME OutInv, call.busy
    PROVE  /\ kind = "descriptor" /\ ~closed /\ pending = <<>>
           /\ call.text \in Seq(Cell) /\ call.n = Len(call.text) /\ call.n \in Nat
           /\ call.m \in Int /\ call.result \in Int
           /\ call.n < Len(block) /\ Len(block) \in Nat
<1>1. call \in Calls /\ block \in Seq(Cell)
  BY DEF OutInv, OutType
<1>2. Len(block) \in Nat
  BY <1>1, LenProperties
<1> QED
  BY <1>1, <1>2 DEF OutInv, OutPhase, CallInv, Calls

\* A write takes cells, whatever the offset.
LEMMA WrittenBytes ==
    ASSUME OutInv, call.busy, NEW i \in 1 .. call.n - call.m
    PROVE  LET out == [k \in 1 .. i |-> ByteAt(call.m + k - 1)]
           IN  out \in Seq(Cell) /\ Len(out) = i
<1> DEFINE out == [k \in 1 .. i |-> ByteAt(call.m + k - 1)]
<1>1. block \in Seq(Cell)
  BY DEF OutInv, OutType
<1>2. i \in Nat
  BY Busy
<1>3. ASSUME NEW k \in 1 .. i
      PROVE  ByteAt(call.m + k - 1) \in Cell
  <2>1. DOMAIN block = 1 .. Len(block)
    BY <1>1, LenProperties
  <2>2. \A j \in DOMAIN block : block[j] \in Cell
    BY <1>1, <2>1, ElementOfSeq
  <2> QED
    BY <2>2, CellType DEF ByteAt
<1>4. out \in [1 .. i -> Cell]
  BY <1>3
<1> QED
  BY <1>2, <1>4, CellsType

LEMMA Write ==
    ASSUME OutInv, vput_write
    PROVE  OutInv'
<1>1. call.busy /\ call.m < call.n
  BY DEF vput_write
<1>2. PICK i \in 1 .. call.n - call.m :
          /\ device' = device \o [k \in 1 .. i |-> ByteAt(call.m + k - 1)]
          /\ call' = [call EXCEPT !.m = @ + i, !.result = @ + i]
  BY DEF vput_write
<1>3. UNCHANGED <<kind, block, count, pending, closed, puts, given, returned, torn, overrun>>
  BY DEF vput_write
<1> DEFINE out == [k \in 1 .. i |-> ByteAt(call.m + k - 1)]
<1>4. device \in Seq(Cell) /\ given \in Seq(Cell) /\ block \in Seq(Cell) /\ call \in Calls
  BY DEF OutInv, OutType
<1>5. i \in Nat \ {0} /\ call.m + i \in Int /\ call.result + i \in Int
  BY <1>1, Busy
<1>6. out \in Seq(Cell) /\ Len(out) = i
  BY <1>1, WrittenBytes
<1>7. /\ call'.text = call.text /\ call'.n = call.n /\ call'.busy = call.busy
      /\ call'.m = call.m + i /\ call'.result = call.result + i
      /\ call' \in Calls
  BY <1>1, <1>2, <1>4, <1>5, Busy DEF Calls
<1>8. device' \in Seq(Cell) /\ Len(device') = Len(device) + i
  BY <1>2, <1>4, <1>6, ConcatProperties
<1>9. OutType'
  BY <1>3, <1>7, <1>8, Zenon DEF OutInv, OutType
<1>10. OutPhase'
  BY <1>1, <1>3, <1>7 DEF OutInv, OutPhase
<1>11. StringInv'
  BY <1>1, <1>3, Busy DEF OutInv, StringInv
<1>12. CallInv'
  BY <1>1, <1>3, <1>5, <1>7, Busy DEF OutInv, CallInv
<1>13. DeviceInv'
  <2>1. /\ Len(device) \in Nat /\ Len(pending) \in Nat
        /\ returned \in Int /\ call.result \in Int
    BY <1>1, <1>4, Busy, LenProperties, EmptySeq DEF OutInv, OutType
  <2> SUFFICES ASSUME ~torn PROVE Len(device') + Len(pending') = returned' + call'.result
    BY <1>3, Zenon DEF DeviceInv
  <2>2. Len(device) + Len(pending) = returned + call.result
    BY <1>1, Busy DEF OutInv, DeviceInv
  <2>3. Len(pending') = Len(pending) /\ returned' = returned
    BY <1>3, Zenon
  <2>4. Len(device') = Len(device) + i /\ call'.result = call.result + i
    BY <1>7, <1>8, Zenon
  <2>5. i \in Nat
    BY <1>5, SMT
  <2> HIDE DEF out
  <2> QED
    BY <2>1, <2>2, <2>3, <2>4, <2>5, SMT
<1> QED
  BY <1>9, <1>10, <1>11, <1>12, <1>13 DEF OutInv

LEMMA WriteFails ==
    ASSUME OutInv, vput_write_fails
    PROVE  OutInv'
<1>1. call.busy /\ torn'
  BY DEF vput_write_fails
<1>2. UNCHANGED <<kind, block, count, pending, device, closed, puts, given, returned, overrun>>
  BY DEF vput_write_fails
<1>3. call \in Calls
  BY DEF OutInv, OutType
<1>4. /\ call'.text = call.text /\ call'.n = call.n /\ call'.busy = call.busy
      /\ call'.m = call.m - 1 /\ call'.result = call.result - 1
      /\ call' \in Calls
  <2>1. call' = [call EXCEPT !.m = @ - 1, !.result = @ - 1]
    BY DEF vput_write_fails
  <2> QED
    <3>1. call.m - 1 \in Int /\ call.result - 1 \in Int
      BY <1>1, Busy
    <3> QED
      BY <1>3, <2>1, <3>1 DEF Calls
<1>5. OutType'
  BY <1>2, <1>4, Zenon DEF OutInv, OutType
<1>6. OutPhase'
  BY <1>1, <1>2, <1>4 DEF OutInv, OutPhase
<1>7. StringInv' /\ DeviceInv'
  BY <1>1, <1>2, Busy DEF OutInv, StringInv, DeviceInv
<1>8. CallInv'
  BY <1>1, <1>2, <1>4, Busy DEF OutInv, CallInv
<1> QED
  BY <1>5, <1>6, <1>7, <1>8 DEF OutInv

LEMMA Returns ==
    ASSUME OutInv, vput_returns
    PROVE  OutInv'
<1>1. call.busy
  BY DEF vput_returns
<1>2. /\ returned' = returned + call.result
      /\ call' = Idle
      /\ UNCHANGED <<kind, block, count, pending, device, closed, puts, given, torn, overrun>>
  BY DEF vput_returns
<1>3. returned \in Int /\ returned' \in Int /\ call.result \in Int
  BY <1>1, <1>2, Busy DEF OutInv, OutType
<1>4. OutType'
  BY <1>2, <1>3, IdleType, Zenon DEF OutInv, OutType
<1>5. OutPhase'
  BY <1>2, IdleType DEF OutInv, OutPhase
<1>6. StringInv'
  BY <1>1, <1>2, Busy DEF OutInv, StringInv
<1>7. CallInv'
  <2>1. 0 < Len(block) /\ Len(Idle.text) = 0 /\ Idle.n = 0
    BY <1>1, Busy DEF Idle
  <2> QED
    BY <1>2, <2>1 DEF OutInv, CallInv
<1>8. DeviceInv'
  BY <1>2, <1>3, IdleType DEF OutInv, DeviceInv
<1> QED
  BY <1>4, <1>5, <1>6, <1>7, <1>8 DEF OutInv

LEMMA OutNext_OutInv ==
    ASSUME Plain, OutInv, OutNext
    PROVE  OutInv'
<1>1. ASSUME NEW t \in Texts, vput_string(t) \/ vput_file(t) \/ vput_descriptor(t)
      PROVE  OutInv'
  BY <1>1, PutString, PutFile, PutDescriptor
<1>2. CASE flush_file
  <2>1. ~call.busy /\ closed' \in BOOLEAN
    BY <1>2 DEF flush_file, OutInv, OutPhase, OutType
  <2> QED
    BY <1>2, <2>1, Flushes DEF flush_file
<1>3. CASE vput_write
  BY <1>3, Write
<1>4. CASE vput_write_fails
  BY <1>4, WriteFails
<1>5. CASE vput_returns
  BY <1>5, Returns
<1>6. CASE free_output
  BY <1>6, Flushes DEF free_output
<1> QED
  BY <1>1, <1>2, <1>3, <1>4, <1>5, <1>6, Zenon DEF OutNext

outCore == <<kind, block, count, pending, device, closed, call, puts, given, returned, torn, overrun>>

\* The reader leaves the writer's end alone.
LEMMA Still ==
    ASSUME OutInv, UNCHANGED outCore
    PROVE  OutInv'
BY DEF OutInv, OutType, OutPhase, StringInv, CallInv, DeviceInv, outCore

LEMMA Next_Out == [Next]_vars => (OutNext /\ UNCHANGED inVars) \/ UNCHANGED outCore
BY DEF Next, Writer, Reader, Finished, new_string, new_buffered, next_string, next_buffered,
       next_again, free_input, StillOut, outCore, vars, outVars

\* The writer's side, which does not depend on the reader: the block of a string, the
\* locals of the descriptor's vput and what has gone to the device agree, for texts
\* without a NUL and wherever a descriptor's vput begins.
THEOREM OutInvHolds == ASSUME Plain PROVE Spec => []OutInv
<1>1. Init => OutInv
  BY OutInit_OutInv DEF Init
<1>2. OutInv /\ [Next]_vars => OutInv'
  BY OutNext_OutInv, Still, Next_Out
<1> QED
  BY <1>1, <1>2, PTL DEF Spec

\* A string holds what was put.
LEMMA TakenString ==
    ASSUME OutInv, kind = "string"
    PROVE  Taken = given
<1>1. CASE block = <<>>
  <2>1. given = <<>>
    BY <1>1, EmptySeq, DoublingsType DEF OutInv, StringInv, Holds
  <2>2. CString(<<>>) = <<>>
    <3>1. {i \in DOMAIN <<>> : <<>>[i] = NUL} = {}
      OBVIOUS
    <3> QED
      BY <3>1, Zenon DEF CString
  <2> QED
    BY <1>1, <2>1, <2>2 DEF Taken
<1>2. CASE block # <<>>
  BY <1>2, CStringOfHolds DEF OutInv, OutType, StringInv, Taken
<1> QED
  BY <1>1, <1>2

\* The block of a string is never overrun and holds count bytes and a NUL: the arithmetic
\* of the capacity in vput of cad_stream_string.c, for texts without a NUL.
THEOREM StringHoldsAlways == ASSUME Plain PROVE Spec => []StringHolds
<1>1. OutInv => StringHolds
  <2> SUFFICES ASSUME OutInv PROVE StringHolds
    OBVIOUS
  <2>1. ASSUME kind = "string", block # <<>>
        PROVE  Len(CString(block)) = count /\ count < Len(block)
    <3>1. Holds(block, given) /\ count = Len(given)
      BY <2>1 DEF OutInv, StringInv
    <3>2. CString(block) = given
      BY <3>1, CStringOfHolds DEF OutInv, OutType
    <3> QED
      BY <3>1, <3>2 DEF Holds
  <2> QED
    BY <2>1 DEF OutInv, StringInv, StringHolds
<1> QED
  BY <1>1, OutInvHolds, PTL

\* As long as no write(2) has failed, the vputs of a stream return how many bytes went to
\* the string, the file or the descriptor: for texts without a NUL, and wherever in the
\* buffer the uninitialised offset of a descriptor's vput points.
THEOREM PutReportsAlways == ASSUME Plain PROVE Spec => []PutReports
<1>1. OutInv => PutReports
  <2> SUFFICES ASSUME OutInv, ~torn, ~call.busy PROVE Len(Taken) = returned
    BY DEF PutReports, PutAlwaysReports
  <2>1. CASE kind = "string"
    BY <2>1, TakenString DEF OutInv, StringInv
  <2>2. CASE kind # "string"
    <3>1. device \in Seq(Cell) /\ pending \in Seq(Cell) /\ returned \in Int
      BY DEF OutInv, OutType
    <3>2. Len(device \o pending) = Len(device) + Len(pending)
      BY <3>1, ConcatProperties
    <3>3. call.result = 0
      BY IdleType DEF OutInv, OutPhase
    <3> QED
      BY <2>2, <3>1, <3>2, <3>3 DEF OutInv, DeviceInv, Taken
  <2> QED
    BY <2>1, <2>2
<1> QED
  BY <1>1, OutInvHolds, PTL

------------------------------------------------------------------------------
\* The reader

\* What the runs assume of the texts a reader can tell from the end of the file, and of
\* the first read of a descriptor.
Readable ==
    /\ \A t \in Texts : \A i \in DOMAIN t : t[i] # EOF
    /\ "first_read" \notin Faults

LEMMA NoEOF == ASSUME Readable PROVE \A c \in Cell : c # EOF /\ c \in Int
<1>1. ASSUME NEW t \in Texts, NEW i \in DOMAIN t
      PROVE  t[i] # EOF
  BY DEF Readable
<1>2. JUNK # EOF /\ NUL # EOF
  BY DEF JUNK, NUL, EOF
<1>3. \A c \in Cell : c # EOF
  BY <1>1, <1>2, Zenon DEF Cell
<1> QED
  BY <1>3, CellType DEF Bytes, JUNK

\* The bytes of a sequence up to a position.
Upto(s, k) == /\ got \in Seq(Cell)
              /\ Len(got) = k
              /\ \A j \in 1 .. k : got[j] = s[j]

\* How many bytes of the device were taken.
Position == IF max > 0 THEN fetched - max + index ELSE fetched

\* The buffer holds the last bytes that were fetched, and the reader has all the bytes
\* before its position; it has met the end, or a failure, when the buffer is empty.
BufferedInv ==
    kind # "string" =>
        /\ fetched \in 0 .. Len(device)
        /\ max \in -1 .. BufferSize
        /\ max <= fetched
        /\ index \in Int
        /\ max > 0 => index \in 0 .. max - 1
        /\ \A j \in 1 .. max : buffer[j] = device[fetched - max + j]
        /\ Upto(device, Position)
        /\ max = 0 /\ ~ferror => closed /\ fetched = Len(device)
        /\ reader = "none" => max = -1
        /\ reader = "reading" => max >= 0
        /\ reader = "failed" => max <= 0
        /\ reader = "done" => max = 0

\* The reader of a string has the bytes before its index.
StringReaderInv ==
    kind = "string" =>
        /\ index \in 0 .. Len(given)
        /\ Upto(given, index)
        /\ reader = "none" => index = 0
        /\ reader # "none" => closed /\ block # <<>> /\ buffer = block
        /\ reader # "failed"
        /\ reader = "done" => index = Len(given)
        /\ max = -1 /\ fetched = 0

InInv ==
    /\ reader \in {"none", "reading", "failed", "done"}
    /\ ferror \in BOOLEAN
    /\ BufferedInv
    /\ StringReaderInv

LEMMA Init_InInv == Init => InInv
<1> SUFFICES ASSUME Init PROVE InInv
  OBVIOUS
<1>1. BufferSize \in Nat \ {0}
  BY InputAssumption
<1>2. <<>> \in Seq(Cell) /\ Len(<<>>) = 0
  BY EmptySeq
<1>3. /\ device = <<>> /\ given = <<>> /\ got = <<>>
      /\ reader = "none" /\ max = -1 /\ index = 0 /\ fetched = 0 /\ ferror = FALSE
  BY DEF Init, OutInit
<1>4. BufferedInv
  <2>1. Position = 0 /\ 1 .. max = {}
    BY <1>3 DEF Position
  <2>2. Upto(device, Position)
    BY <1>2, <1>3, <2>1 DEF Upto
  <2> QED
    BY <1>1, <1>2, <1>3, <2>1, <2>2 DEF BufferedInv
<1>5. StringReaderInv
  <2>1. Upto(given, index)
    BY <1>2, <1>3 DEF Upto
  <2> QED
    BY <1>2, <1>3, <2>1 DEF StringReaderInv
<1> QED
  BY <1>3, <1>4, <1>5 DEF InInv

\* One sequence begins with another.
Extends(t, s) == /\ t \in Seq(Cell)
                 /\ Len(s) <= Len(t)
                 /\ \A j \in 1 .. Len(s) : t[j] = s[j]

LEMMA ConcatExtends ==
    ASSUME NEW s \in Seq(Cell), NEW t \in Seq(Cell)
    PROVE  Extends(s \o t, s)
<1>1. Len(s) \in Nat /\ Len(t) \in Nat
  BY LenProperties
<1> QED
  BY <1>1, ConcatProperties DEF Extends

\* What the writer does to what the reader sees.
LEMMA WriterExtends ==
    ASSUME OutInv, OutNext
    PROVE  /\ kind' = kind
           /\ Extends(device', device)
           /\ closed => closed' /\ UNCHANGED <<device, block, given>>
<1>1. pending \in Seq(Cell) /\ device \in Seq(Cell) /\ Len(device) \in Nat
  BY LenProperties DEF OutInv, OutType
<1>2. Extends(device, device) /\ Extends(device \o pending, device)
  BY <1>1, ConcatExtends DEF Extends
<1>3. ASSUME NEW t \in Texts, vput_string(t) \/ vput_file(t) \/ vput_descriptor(t)
      PROVE  kind' = kind /\ device' = device /\ ~closed
  BY <1>3, Zenon DEF vput_string, vput_file, vput_descriptor, MayPut
<1>4. CASE flush_file
  BY <1>2, <1>4 DEF flush_file, OutInv, OutPhase
<1>5. CASE vput_write
  <2>1. device' \in Seq(Cell) /\ call.busy /\ ~closed /\ kind' = kind
    BY <1>5, Write, Busy DEF vput_write, OutInv, OutType
  <2>2. PICK i \in 1 .. call.n - call.m :
            device' = device \o [k \in 1 .. i |-> ByteAt(call.m + k - 1)]
    BY <1>5 DEF vput_write
  <2>3. [k \in 1 .. i |-> ByteAt(call.m + k - 1)] \in Seq(Cell)
    BY <1>5, <2>1, WrittenBytes
  <2> QED
    BY <1>1, <2>1, <2>2, <2>3, ConcatExtends
<1>6. CASE vput_write_fails \/ vput_returns
  BY <1>2, <1>6, Busy, Zenon DEF vput_write_fails, vput_returns
<1>7. CASE free_output
  BY <1>2, <1>7, Zenon DEF free_output
<1> QED
  BY <1>2, <1>3, <1>4, <1>5, <1>6, <1>7, Zenon DEF OutNext

LEMMA Writer_InInv ==
    ASSUME OutInv, OutInv', InInv, OutNext, UNCHANGED inVars
    PROVE  InInv'
<1>1. /\ kind' = kind
      /\ Extends(device', device)
      /\ closed => closed' /\ UNCHANGED <<device, block, given>>
  BY WriterExtends
<1>2. UNCHANGED <<reader, buffer, max, index, fetched, ferror, got>>
  BY DEF inVars
<1>3. /\ device \in Seq(Cell) /\ Len(device) \in Nat /\ device' \in Seq(Cell)
      /\ Len(device) <= Len(device') /\ Len(device') \in Nat
      /\ \A j \in 1 .. Len(device) : device'[j] = device[j]
  BY <1>1, LenProperties DEF Extends, OutInv, OutType
<1>4. BufferedInv'
  <2>1. SUFFICES ASSUME kind # "string" PROVE BufferedInv'
    BY <1>1 DEF BufferedInv
  <2>2. /\ fetched \in 0 .. Len(device) /\ max \in -1 .. BufferSize /\ max <= fetched /\ index \in Int
        /\ max > 0 => index \in 0 .. max - 1
        /\ BufferSize \in Nat
    BY <2>1, InputAssumption DEF InInv, BufferedInv
  <2>3. \A j \in 1 .. max : buffer'[j] = device'[fetched' - max' + j]
    <3>1. ASSUME NEW j \in 1 .. max
          PROVE  buffer[j] = device'[fetched - max + j]
      <4>1. fetched - max + j \in 1 .. Len(device)
        BY <1>3, <2>2
      <4>2. buffer[j] = device[fetched - max + j]
        BY <2>1 DEF InInv, BufferedInv
      <4> QED
        BY <1>3, <4>1, <4>2
    <3> QED
      BY <1>2, <3>1
  <2>4. Position' = Position /\ Position \in 0 .. Len(device)
    BY <1>2, <1>3, <2>2 DEF Position
  <2>5. Upto(device, Position)'
    <3>1. Upto(device, Position)
      BY <2>1 DEF InInv, BufferedInv
    <3>2. \A j \in 1 .. Position : j \in 1 .. Len(device)
      BY <1>3, <2>4
    <3> QED
      BY <1>2, <1>3, <2>4, <3>1, <3>2 DEF Upto
  <2>6. max = 0 /\ ~ferror => closed' /\ fetched = Len(device')
    BY <1>1, <2>1 DEF InInv, BufferedInv
  <2>7. fetched \in 0 .. Len(device')
    BY <1>3, <2>2
  <2>8. (reader = "none" => max = -1) /\ (reader = "reading" => max >= 0)
        /\ (reader = "failed" => max <= 0) /\ (reader = "done" => max = 0)
    BY <2>1 DEF InInv, BufferedInv
  <2> QED
    BY <1>2, <2>2, <2>3, <2>5, <2>6, <2>7, <2>8, Zenon DEF BufferedInv
<1>5. StringReaderInv'
  <2>1. SUFFICES ASSUME kind = "string" PROVE StringReaderInv'
    BY <1>1 DEF StringReaderInv
  <2>2. CASE reader = "none"
    <3>1. index = 0 /\ got \in Seq(Cell) /\ Len(got) = 0 /\ max = -1 /\ fetched = 0
      BY <2>1, <2>2 DEF InInv, StringReaderInv, Upto
    <3>2. Upto(given, index)'
      BY <1>2, <3>1 DEF Upto
    <3>3. Len(given') \in Nat
      BY LenProperties DEF OutInv, OutType
    <3> QED
      BY <1>2, <2>2, <3>1, <3>2, <3>3 DEF StringReaderInv
  <2>3. CASE reader # "none"
    <3>1. closed' /\ UNCHANGED <<device, block, given>>
      BY <1>1, <2>1, <2>3 DEF InInv, StringReaderInv
    <3> QED
      BY <1>1, <1>2, <3>1 DEF InInv, StringReaderInv, Upto
  <2> QED
    BY <2>2, <2>3
<1> QED
  BY <1>2, <1>4, <1>5 DEF InInv

\* What read and fread return: nothing only at the end of a closed device.
LEMMA ReadsType ==
    ASSUME OutInv, fetched \in 0 .. Len(device), NEW n \in Reads
    PROVE  /\ n \in 0 .. BufferSize
           /\ fetched + n \in 0 .. Len(device)
           /\ n = 0 => closed /\ fetched = Len(device)
<1>1. Len(device) \in Nat /\ BufferSize \in Nat \ {0} /\ Available \in Nat
  BY InputAssumption, LenProperties DEF OutInv, OutType, Available
<1> DEFINE most == Min({BufferSize, Available})
<1>2. most \in {BufferSize, Available} /\ most <= BufferSize /\ most <= Available
  BY <1>1, MinOfTwo
<1>3. n \in 0 .. most /\ (n = 0 => closed /\ Available = 0)
  <2>1. CASE kind = "file"
    <3>1. n = most /\ (n = BufferSize \/ closed)
      BY <2>1 DEF Reads
    <3> HIDE DEF most
    <3> QED
      BY <1>1, <1>2, <3>1
  <2>2. CASE kind # "file"
    BY <2>2 DEF Reads
  <2> QED
    BY <2>1, <2>2
<1> HIDE DEF most
<1> QED
  BY <1>1, <1>2, <1>3 DEF Available

\* The buffer after a call of read or fread.
LEMMA RefillResult ==
    ASSUME OutInv, fetched \in 0 .. Len(device), ferror \in BOOLEAN,
           NEW r \in {-1, 0}, Refill(r)
    PROVE  /\ max' \in -1 .. BufferSize
           /\ fetched' \in 0 .. Len(device)
           /\ fetched' = IF max' > 0 THEN fetched + max' ELSE fetched
           /\ index' = 0
           /\ \A j \in 1 .. max' : buffer'[j] = device[fetched' - max' + j]
           /\ ferror' \in BOOLEAN
           /\ max' = 0 /\ ~ferror' => closed /\ fetched' = Len(device)
           /\ r = -1 => max' <= 0
           /\ max' = -1 => r = -1 /\ kind = "descriptor"
<1>1. Len(device) \in Nat /\ BufferSize \in Nat \ {0} /\ Available \in Nat
  BY InputAssumption, LenProperties DEF OutInv, OutType, Available
<1>2. ASSUME NEW n \in 0 .. BufferSize, fetched + n \in 0 .. Len(device), Fill(n)
      PROVE  /\ max' = n /\ index' = 0 /\ fetched' = fetched + n
             /\ fetched' = IF max' > 0 THEN fetched + max' ELSE fetched
             /\ \A j \in 1 .. max' : buffer'[j] = device[fetched' - max' + j]
  <2>1. max' = n /\ index' = 0 /\ fetched' = fetched + n
    BY <1>2 DEF Fill
  <2>2. ASSUME NEW j \in 1 .. n
        PROVE  buffer'[j] = device[fetched + n - n + j]
    <3>1. j \in 1 .. BufferSize /\ j <= n /\ fetched + n - n + j = fetched + j
      BY <1>1, <1>2
    <3>2. buffer' = [i \in 1 .. BufferSize |-> IF i <= n THEN device[fetched + i] ELSE buffer[i]]
      BY <1>2 DEF Fill
    <3> QED
      BY <3>1, <3>2
  <2>3. fetched + n = IF n > 0 THEN fetched + n ELSE fetched
    BY <1>1
  <2> QED
    BY <2>1, <2>2, <2>3
<1>3. CASE \E n \in Reads : /\ Fill(n)
                            /\ r = IF kind = "file" /\ n = 0 /\ ferror THEN -1 ELSE 0
                            /\ UNCHANGED <<ferror, faults>>
  <2>1. PICK n \in Reads : /\ Fill(n)
                           /\ r = -1 => n = 0
                           /\ ferror' = ferror
    BY <1>3
  <2>2. n \in 0 .. BufferSize /\ fetched + n \in 0 .. Len(device) /\ (n = 0 => closed /\ fetched = Len(device))
    BY ReadsType
  <2>3. /\ max' = n /\ index' = 0 /\ fetched' = fetched + n
        /\ fetched' = IF max' > 0 THEN fetched + max' ELSE fetched
        /\ \A j \in 1 .. max' : buffer'[j] = device[fetched' - max' + j]
    BY <1>2, <2>1, <2>2
  <2>4. max' \in -1 .. BufferSize /\ max' # -1 /\ (r = -1 => max' <= 0)
    BY <1>1, <2>1, <2>2, <2>3
  <2>5. max' = 0 => closed /\ fetched' = Len(device)
    BY <2>2, <2>3
  <2> QED
    BY <2>1, <2>2, <2>3, <2>4, <2>5
<1>4. CASE /\ kind = "descriptor"
           /\ Fault("read")
           /\ max' = -1
           /\ index' = 0
           /\ r = -1
           /\ UNCHANGED <<buffer, fetched, ferror>>
  BY <1>1, <1>4
<1>5. CASE /\ kind = "file"
           /\ Fault("read")
           /\ ferror' = TRUE
           /\ \E n \in 0 .. Min({BufferSize - 1, Available}) :
                 /\ Fill(n)
                 /\ r = IF n = 0 THEN -1 ELSE 0
  <2>1. PICK n \in 0 .. Min({BufferSize - 1, Available}) : Fill(n) /\ r = IF n = 0 THEN -1 ELSE 0
    BY <1>5
  <2>2. /\ Min({BufferSize - 1, Available}) \in {BufferSize - 1, Available}
        /\ Min({BufferSize - 1, Available}) <= BufferSize - 1
        /\ Min({BufferSize - 1, Available}) <= Available
    <3>1. BufferSize - 1 \in Nat
      BY <1>1
    <3> QED
      BY <1>1, <3>1, MinOfTwo
  <2>3. n \in 0 .. BufferSize /\ n <= Available
    BY <1>1, <2>2
  <2>4. fetched + n \in 0 .. Len(device)
    BY <1>1, <2>3 DEF Available
  <2>5. /\ max' = n /\ index' = 0 /\ fetched' = fetched + n
        /\ fetched' = IF max' > 0 THEN fetched + max' ELSE fetched
        /\ \A j \in 1 .. max' : buffer'[j] = device[fetched' - max' + j]
    BY <1>2, <2>1, <2>3, <2>4
  <2>6. max' \in -1 .. BufferSize /\ max' # -1 /\ (r = -1 => max' <= 0)
    BY <1>1, <2>1, <2>3, <2>5
  <2> QED
    BY <1>5, <2>4, <2>5, <2>6
<1> QED
  BY <1>3, <1>4, <1>5, Zenon DEF Refill

\* After a read, the reader that has all the bytes that were fetched still has them.
LEMMA Refilled ==
    ASSUME OutInv, kind # "string", fetched \in 0 .. Len(device), ferror \in BOOLEAN,
           got' \in Seq(Cell), Len(got') = fetched, \A j \in 1 .. fetched : got'[j] = device[j],
           NEW r \in {-1, 0}, Refill(r), StillOut,
           \/ reader' = "reading" /\ (r = -1 => kind # "descriptor")
           \/ reader' = "failed" /\ r = -1
    PROVE  InInv'
<1>1. Len(device) \in Nat /\ BufferSize \in Nat \ {0}
  BY InputAssumption, LenProperties DEF OutInv, OutType
<1>2. UNCHANGED <<kind, device, closed, given, block>>
  BY DEF StillOut
<1>3. /\ max' \in -1 .. BufferSize
      /\ fetched' \in 0 .. Len(device)
      /\ fetched' = IF max' > 0 THEN fetched + max' ELSE fetched
      /\ index' = 0
      /\ \A j \in 1 .. max' : buffer'[j] = device[fetched' - max' + j]
      /\ ferror' \in BOOLEAN
      /\ max' = 0 /\ ~ferror' => closed /\ fetched' = Len(device)
      /\ r = -1 => max' <= 0
      /\ max' = -1 => r = -1 /\ kind = "descriptor"
  BY RefillResult
<1>4. Position' = fetched /\ max' <= fetched'
  BY <1>1, <1>3 DEF Position
<1>5. Upto(device, Position)'
  BY <1>2, <1>4 DEF Upto
<1>6. /\ index' \in Int
      /\ max' > 0 => index' \in 0 .. max' - 1
  <2>1. max' \in Int /\ index' = 0
    <3>1. max' \in -1 .. BufferSize /\ index' = 0
      BY <1>3, Zenon
    <3> QED
      BY <1>1, <3>1
  <2>2. index' \in Int
    BY <2>1
  <2>3. ASSUME NEW m \in Int, m > 0 PROVE 0 \in 0 .. m - 1
    BY <2>3
  <2> QED
    BY <2>1, <2>2, <2>3
<1>7. /\ reader' \in {"reading", "failed"}
      /\ reader' = "reading" => max' >= 0
      /\ reader' = "failed" => max' <= 0
  BY <1>1, <1>3
<1>8. \A j \in 1 .. max' : buffer'[j] = device'[fetched' - max' + j]
  BY <1>2, <1>3
<1>9. BufferedInv'
  <2>1. (reader' # "none") /\ (reader' # "done")
    BY <1>7
  <2> QED
    BY <1>2, <1>3, <1>4, <1>5, <1>6, <1>7, <1>8, <2>1, Zenon DEF BufferedInv
<1>10. StringReaderInv'
  BY <1>2 DEF StringReaderInv
<1> QED
  BY <1>3, <1>7, <1>9, <1>10 DEF InInv

LEMMA PositionType ==
    ASSUME InInv, kind # "string"
    PROVE  Position \in Int
<1>1. fetched \in Int /\ max \in Int /\ index \in Int
  BY InputAssumption DEF InInv, BufferedInv
<1> QED
  BY <1>1 DEF Position

\* The current byte of a reader that is not at the end.
LEMMA BufferedItem ==
    ASSUME Readable, OutInv, InInv, kind # "string", reader = "reading"
    PROVE  /\ item = EOF <=> max = 0
           /\ item # EOF => /\ max > 0 /\ index \in 0 .. max - 1
                            /\ Position + 1 \in 1 .. fetched
                            /\ item = device[Position + 1]
                            /\ item \in Cell
<1>1. /\ fetched \in 0 .. Len(device) /\ max \in -1 .. BufferSize /\ max <= fetched /\ max >= 0
      /\ max > 0 => index \in 0 .. max - 1
      /\ BufferSize \in Nat /\ Len(device) \in Nat /\ device \in Seq(Cell)
      /\ \A j \in 1 .. max : buffer[j] = device[fetched - max + j]
  BY InputAssumption, LenProperties DEF InInv, BufferedInv, OutInv, OutType
<1>2. CASE max = 0
  BY <1>2 DEF item
<1>3. CASE max # 0
  <2>1. max > 0 /\ index + 1 \in 1 .. max /\ item = buffer[index + 1]
    BY <1>1, <1>3 DEF item
  <2>2. buffer[index + 1] = device[fetched - max + (index + 1)]
    BY <1>1, <2>1
  <2>3. Position + 1 = fetched - max + (index + 1) /\ Position + 1 \in 1 .. fetched
    <3>1. Position = fetched - max + index /\ index \in 0 .. max - 1
      BY <1>1, <2>1 DEF Position
    <3> HIDE DEF Position
    <3> QED
      BY <1>1, <2>1, <3>1
  <2>4. Position + 1 \in 1 .. Len(device)
    BY <1>1, <2>3
  <2>5. device[Position + 1] \in Cell
    BY <1>1, <2>4, ElementOfSeq
  <2>6. item = device[Position + 1] /\ item # EOF
    BY <2>1, <2>2, <2>3, <2>5, NoEOF
  <2> QED
    BY <1>1, <1>3, <2>1, <2>3, <2>5, <2>6
<1> QED
  BY <1>2, <1>3

LEMMA NewBuffered ==
    ASSUME Readable, OutInv, InInv, new_buffered
    PROVE  InInv'
<1>1. PICK r \in {-1, 0} : Refill(r) /\ (r = -1 /\ kind = "descriptor" => "first_read" \in Faults)
  BY DEF new_buffered
<1>2. kind # "string" /\ reader = "none" /\ reader' = "reading" /\ got' = got /\ StillOut
  BY DEF new_buffered
<1>3. r = -1 => kind # "descriptor"
  BY <1>1 DEF Readable
<1>4. max = -1 /\ fetched \in 0 .. Len(device) /\ Upto(device, Position) /\ ferror \in BOOLEAN
  BY <1>2 DEF InInv, BufferedInv
<1>5. got' \in Seq(Cell) /\ Len(got') = fetched /\ \A j \in 1 .. fetched : got'[j] = device[j]
  BY <1>2, <1>4 DEF Position, Upto
<1> QED
  BY <1>1, <1>2, <1>3, <1>4, <1>5, Refilled

LEMMA NextBuffered ==
    ASSUME Readable, OutInv, InInv, next_buffered
    PROVE  InInv'
<1>1. kind # "string" /\ reader = "reading" /\ item # EOF /\ got' = Append(got, item) /\ StillOut
  BY DEF next_buffered, Takes
<1>2. /\ max > 0 /\ index \in 0 .. max - 1
      /\ Position + 1 \in 1 .. fetched
      /\ item = device[Position + 1] /\ item \in Cell
  BY <1>1, BufferedItem
<1>3. /\ fetched \in 0 .. Len(device) /\ max \in -1 .. BufferSize /\ Upto(device, Position)
      /\ BufferSize \in Nat /\ Len(device) \in Nat /\ ferror \in BOOLEAN
  BY <1>1, InputAssumption, LenProperties DEF InInv, BufferedInv, OutInv, OutType
<1>4. Position = fetched - max + index
  BY <1>2 DEF Position
<1>5. /\ got' \in Seq(Cell) /\ Len(got') = Position + 1
      /\ \A j \in 1 .. Position + 1 : got'[j] = device[j]
  <2>1. got \in Seq(Cell) /\ Len(got) = Position /\ \A j \in 1 .. Position : got[j] = device[j]
    BY <1>3 DEF Upto
  <2>2. /\ got' \in Seq(Cell) /\ Len(got') = Len(got) + 1
        /\ \A j \in 1 .. Len(got) : got'[j] = got[j]
        /\ got'[Len(got) + 1] = item
    BY <1>1, <1>2, <2>1, AppendProperties
  <2> QED
    BY <1>2, <1>3, <1>4, <2>1, <2>2
<1>6. CASE refill(index) /\ \E r \in {-1, 0} : Refill(r) /\ Outcome(r)
  <2>1. Position + 1 = fetched
    BY <1>2, <1>3, <1>4, <1>6 DEF refill
  <2>2. PICK r \in {-1, 0} : Refill(r) /\ Outcome(r)
    BY <1>6
  <2>3. \/ reader' = "reading" /\ (r = -1 => kind # "descriptor")
        \/ reader' = "failed" /\ r = -1
    BY <2>2 DEF Outcome
  <2> QED
    BY <1>1, <1>3, <1>5, <2>1, <2>2, <2>3, Refilled
<1>7. CASE /\ ~refill(index)
           /\ index' = IF max = 0 THEN index ELSE index + 1
           /\ UNCHANGED <<reader, buffer, max, fetched, ferror, faults>>
  <2>1. UNCHANGED <<kind, device, closed, block, given>>
    BY <1>1 DEF StillOut
  <2>2. index' = index + 1 /\ index' \in 0 .. max - 1
    BY <1>2, <1>3, <1>7 DEF refill
  <2>3. Position' = Position + 1
    BY <1>2, <1>3, <1>4, <1>7, <2>2 DEF Position
  <2>4. Upto(device, Position)'
    BY <1>5, <2>1, <2>3 DEF Upto
  <2>5. BufferedInv'
    <3>1. UNCHANGED <<reader, buffer, max, fetched, ferror>> /\ index' \in Int
      BY <1>7, <2>2
    <3>2. \A j \in 1 .. max : buffer[j] = device[fetched - max + j]
      BY <1>1 DEF InInv, BufferedInv
    <3>3. max <= fetched /\ max # 0 /\ max >= 0
      BY <1>1, <1>2, <1>3 DEF InInv, BufferedInv
    <3> QED
      BY <1>1, <1>3, <2>1, <2>2, <2>4, <3>1, <3>2, <3>3 DEF BufferedInv
  <2>6. StringReaderInv'
    BY <1>1, <2>1 DEF StringReaderInv
  <2> QED
    BY <1>7, <2>5, <2>6 DEF InInv
<1> QED
  BY <1>6, <1>7 DEF next_buffered

LEMMA NextAgain ==
    ASSUME OutInv, InInv, next_again
    PROVE  InInv'
<1>1. reader = "failed" /\ got' = got /\ StillOut
  BY DEF next_again
<1>2. kind # "string"
  BY <1>1 DEF InInv, StringReaderInv
<1>3. /\ fetched \in 0 .. Len(device) /\ max \in -1 .. BufferSize /\ max <= 0 /\ Upto(device, Position)
      /\ ferror \in BOOLEAN /\ BufferSize \in Nat
  BY <1>1, <1>2, InputAssumption DEF InInv, BufferedInv
<1>4. CASE refill(index) /\ \E r \in {-1, 0} : Refill(r) /\ Outcome(r)
  <2>1. PICK r \in {-1, 0} : Refill(r) /\ Outcome(r)
    BY <1>4
  <2>2. \/ reader' = "reading" /\ (r = -1 => kind # "descriptor")
        \/ reader' = "failed" /\ r = -1
    BY <2>1 DEF Outcome
  <2>3. got' \in Seq(Cell) /\ Len(got') = fetched /\ \A j \in 1 .. fetched : got'[j] = device[j]
    BY <1>1, <1>3 DEF Position, Upto
  <2> QED
    BY <1>1, <1>2, <1>3, <2>1, <2>2, <2>3, Refilled
<1>5. CASE /\ max = 0
           /\ Outcome(0)
           /\ UNCHANGED <<buffer, max, index, fetched, ferror, faults>>
  <2>1. UNCHANGED <<kind, device, closed, block, given>> /\ reader' = "reading"
    BY <1>1, <1>5 DEF StillOut, Outcome
  <2>2. Upto(device, Position)'
    BY <1>1, <1>3, <1>5, <2>1 DEF Upto, Position
  <2>3. UNCHANGED <<buffer, max, index, fetched, ferror>>
    BY <1>5
  <2>4. BufferedInv'
    BY <1>1, <1>2, <1>5, <2>1, <2>2, <2>3 DEF InInv, BufferedInv
  <2>5. StringReaderInv'
    BY <1>2, <2>1 DEF StringReaderInv
  <2> QED
    BY <1>3, <2>1, <2>3, <2>4, <2>5 DEF InInv
<1> QED
  BY <1>4, <1>5 DEF next_again

\* The current byte of the reader of a string.
LEMMA StringItem ==
    ASSUME Readable, OutInv, InInv, kind = "string", reader = "reading"
    PROVE  /\ item = EOF <=> index = Len(given)
           /\ item # EOF => /\ index + 1 \in 1 .. Len(given)
                            /\ item = given[index + 1]
                            /\ item \in Cell
<1>1. index \in 0 .. Len(given) /\ closed /\ block # <<>> /\ buffer = block
  BY DEF InInv, StringReaderInv
<1>2. given \in Seq(Cell) /\ Len(given) \in Nat
  BY LenProperties DEF OutInv, OutType
<1>3. /\ block[Len(given) + 1] = NUL
      /\ \A i \in 1 .. Len(given) : block[i] = given[i] /\ given[i] # NUL
  BY <1>1 DEF OutInv, StringInv, Holds
<1>4. CASE index = Len(given)
  BY <1>1, <1>3, <1>4 DEF item
<1>5. CASE index # Len(given)
  <2>1. index + 1 \in 1 .. Len(given)
    BY <1>1, <1>2, <1>5
  <2>2. given[index + 1] \in Cell
    BY <1>2, <2>1, ElementOfSeq
  <2>3. item = given[index + 1]
    BY <1>1, <1>3, <2>1 DEF item
  <2> QED
    BY <1>5, <2>1, <2>2, <2>3, NoEOF
<1> QED
  BY <1>4, <1>5

LEMMA ReadString ==
    ASSUME Readable, OutInv, InInv, new_string \/ next_string
    PROVE  InInv'
<1>1. kind = "string" /\ UNCHANGED <<kind, given, closed, block, ferror>>
  BY DEF new_string, next_string, StillOut
<1>2. index \in 0 .. Len(given) /\ Upto(given, index) /\ ferror \in BOOLEAN
  BY <1>1 DEF InInv, StringReaderInv
<1>3. CASE new_string
  <2>1. /\ closed /\ block # <<>> /\ buffer' = block /\ reader' = "reading"
        /\ UNCHANGED <<index, got>>
    BY <1>3 DEF new_string
  <2>2. UNCHANGED <<max, fetched>>
    BY <1>3 DEF new_string
  <2> QED
    BY <1>1, <1>2, <2>1, <2>2 DEF InInv, BufferedInv, StringReaderInv, Upto
<1>4. CASE next_string
  <2>1. /\ reader = "reading" /\ item # EOF /\ got' = Append(got, item)
        /\ index' = index + 1 /\ UNCHANGED <<reader, buffer>>
    BY <1>4 DEF next_string, Takes
  <2>2. index + 1 \in 1 .. Len(given) /\ item = given[index + 1] /\ item \in Cell
    BY <1>1, <2>1, StringItem
  <2>3. given \in Seq(Cell) /\ Len(given) \in Nat
    BY LenProperties DEF OutInv, OutType
  <2>4. Upto(given, index)'
    <3>1. got \in Seq(Cell) /\ Len(got) = index /\ \A j \in 1 .. index : got[j] = given[j]
      BY <1>2 DEF Upto
    <3>2. /\ got' \in Seq(Cell) /\ Len(got') = Len(got) + 1
          /\ \A j \in 1 .. Len(got) : got'[j] = got[j]
          /\ got'[Len(got) + 1] = item
      BY <2>1, <2>2, <3>1, AppendProperties
    <3>3. \A j \in 1 .. index + 1 : got'[j] = given[j]
      BY <1>2, <2>2, <2>3, <3>1, <3>2
    <3> QED
      BY <1>1, <2>1, <3>1, <3>2, <3>3 DEF Upto
  <2>5. closed /\ block # <<>> /\ buffer = block /\ max' = -1 /\ fetched' = 0
    BY <1>1, <1>4, <2>1 DEF InInv, StringReaderInv, next_string
  <2>6. index' \in 0 .. Len(given')
    BY <1>1, <1>2, <2>1, <2>2, <2>3
  <2>7. StringReaderInv'
    BY <1>1, <2>1, <2>4, <2>5, <2>6, Zenon DEF StringReaderInv
  <2> QED
    BY <1>1, <1>2, <2>1, <2>7 DEF InInv, BufferedInv
<1> QED
  BY <1>3, <1>4

LEMMA FreeInput ==
    ASSUME Readable, OutInv, InInv, free_input
    PROVE  InInv'
<1>1. /\ reader = "reading" /\ item = EOF /\ reader' = "done"
      /\ UNCHANGED <<buffer, max, index, fetched, ferror, got>>
      /\ UNCHANGED <<kind, device, closed, block, given>>
  BY DEF free_input, StillOut
<1>2. CASE kind = "string"
  <2>1. index = Len(given)
    BY <1>1, <1>2, StringItem
  <2> QED
    BY <1>1, <1>2, <2>1 DEF InInv, BufferedInv, StringReaderInv, Upto
<1>3. CASE kind # "string"
  <2>1. max = 0
    BY <1>1, <1>3, BufferedItem
  <2>2. Position' = Position
    BY <1>1 DEF Position
  <2> QED
    BY <1>1, <1>3, <2>1, <2>2 DEF InInv, BufferedInv, StringReaderInv, Upto
<1> QED
  BY <1>2, <1>3

LEMMA Next_Cases ==
    [Next]_vars => \/ OutNext /\ UNCHANGED inVars
                   \/ Reader /\ UNCHANGED outCore
                   \/ UNCHANGED vars
BY DEF Next, Writer, Reader, Finished, new_string, new_buffered, next_string, next_buffered,
       next_again, free_input, StillOut, outCore

LEMMA Next_InInv ==
    ASSUME Readable, OutInv, OutInv', InInv, [Next]_vars
    PROVE  InInv'
<1>1. CASE OutNext /\ UNCHANGED inVars
  BY <1>1, Writer_InInv
<1>2. CASE Reader
  BY <1>2, ReadString, NewBuffered, NextBuffered, NextAgain, FreeInput DEF Reader
<1>3. CASE UNCHANGED vars
  <2>1. UNCHANGED <<kind, device, closed, block, given>>
    BY <1>3 DEF vars, outVars
  <2>2. UNCHANGED <<reader, buffer, max, index, fetched, ferror, got>>
    BY <1>3 DEF vars, inVars
  <2> QED
    BY <2>1, <2>2 DEF InInv, BufferedInv, StringReaderInv, Upto, Position
<1> QED
  BY <1>1, <1>2, <1>3, Next_Cases

\* Both sides: what the reader got, what its buffer still holds and what the device still
\* has are together what the writer put, for bytes that are not EOF and a first read that
\* does not fail.
THEOREM InInvHolds == ASSUME Plain, Readable PROVE Spec => [](OutInv /\ InInv)
<1>1. Init => InInv
  BY Init_InInv
<1>2. OutInv /\ OutInv' /\ InInv /\ [Next]_vars => InInv'
  BY Next_InInv
<1> QED
  BY <1>1, <1>2, OutInvHolds, PTL DEF Spec

------------------------------------------------------------------------------
\* The channel

LEMMA TakenStringNext == (OutInv /\ kind = "string" => Taken = given)'
<1>1. OutInv /\ kind = "string" => Taken = given
  BY TakenString
<1> QED
  BY <1>1, PTL

LEMMA TakenType == ASSUME OutInv PROVE Taken \in Seq(Cell)
BY TakenString, ConcatProperties DEF OutInv, OutType, Taken

Over == reader = "done" /\ ~ferror

\* Putting bytes behind others is what the channel does in a Put.
LEMMA Puts ==
    ASSUME OutInv, ~closed, NEW x \in Seq(Cell), Taken' = Taken \o x,
           UNCHANGED <<got, closed, Over>>
    PROVE  Channel!Put
<1>1. Taken \in Seq(Cell) /\ Len(Taken) \in Nat /\ Len(x) \in Nat
  BY TakenType, LenProperties
<1>2. Len(Taken \o x) >= Len(Taken)
  BY <1>1, ConcatProperties
<1>3. SubSeq(Taken \o x, 1, Len(Taken)) = Taken
  <2>1. CASE Len(Taken) = 0
    <3>1. Taken = <<>>
      BY <1>1, <2>1, EmptySeq
    <3>2. SubSeq(Taken \o x, 1, 0) = <<>>
      BY SubSeqEmpty
    <3> QED
      BY <2>1, <3>1, <3>2
  <2>2. CASE Len(Taken) # 0
    <3>1. SubSeq(Taken \o x, 1, Len(Taken)) = SubSeq(Taken, 1, Len(Taken))
      BY <1>1, <2>2, SubSeqOfConcat1
    <3> QED
      BY <1>1, <3>1, SubSeqFull
  <2> QED
    BY <2>1, <2>2
<1> QED
  BY <1>2, <1>3 DEF Channel!Put, Over

\* A flush, also the one of fclose, takes nothing and loses nothing.
LEMMA FlushTaken ==
    ASSUME OutInv, kind' = kind, block' = block, device' = device \o pending, pending' = <<>>
    PROVE  Taken' = Taken
<1>1. CASE kind = "string"
  BY <1>1 DEF Taken
<1>2. CASE kind # "string"
  <2>1. device \o pending \in Seq(Cell)
    BY ConcatProperties DEF OutInv, OutType
  <2>2. device' \o pending' = device \o pending
    BY <2>1, ConcatEmptySeq
  <2> QED
    BY <1>2, <2>2 DEF Taken
<1> QED
  BY <1>1, <1>2

LEMMA WriterMaps ==
    ASSUME OutInv, OutInv', OutNext, UNCHANGED inVars
    PROVE  Channel!Put \/ Channel!Close \/ UNCHANGED Channel!vars
<1>1. UNCHANGED <<got, Over>>
  BY DEF inVars, Over
<1>2. ASSUME NEW t \in Texts, vput_string(t)
      PROVE  Channel!Put
  <2>1. kind = "string" /\ kind' = "string" /\ ~closed /\ closed' = closed /\ given' = given \o t
    BY <1>2 DEF vput_string, MayPut
  <2>2. t \in Seq(Cell)
    BY TextType
  <2>3. Taken' = given'
    BY <2>1, TakenStringNext
  <2>4. Taken' = Taken \o t
    BY <2>1, <2>3, TakenString
  <2> QED
    BY <1>1, <2>1, <2>2, <2>4, Puts
<1>3. ASSUME NEW t \in Texts, vput_file(t)
      PROVE  Channel!Put
  <2>1. /\ kind = "file" /\ kind' = kind /\ ~closed /\ closed' = closed
        /\ device' = device /\ pending' = pending \o t
    BY <1>3 DEF vput_file, MayPut
  <2>2. t \in Seq(Cell) /\ device \in Seq(Cell) /\ pending \in Seq(Cell)
    BY TextType DEF OutInv, OutType
  <2>3. device \o (pending \o t) = (device \o pending) \o t
    BY <2>2, ConcatAssociative
  <2>4. Taken' = Taken \o t
    BY <2>1, <2>3 DEF Taken
  <2> QED
    BY <1>1, <2>1, <2>2, <2>4, Puts
<1>4. ASSUME NEW t \in Texts, vput_descriptor(t)
      PROVE  UNCHANGED Channel!vars
  BY <1>1, <1>4 DEF vput_descriptor, Taken, Over, Channel!vars
<1>5. CASE flush_file
  <2>1. Taken' = Taken /\ closed' = closed
    BY <1>5, FlushTaken DEF flush_file
  <2> QED
    BY <1>1, <2>1 DEF Over, Channel!vars
<1>6. CASE vput_write
  <2>1. call.busy /\ UNCHANGED <<kind, closed, pending>>
    BY <1>6 DEF vput_write
  <2>2. kind = "descriptor" /\ ~closed /\ pending = <<>>
    BY <2>1, Busy
  <2>3. PICK i \in 1 .. call.n - call.m :
            device' = device \o [k \in 1 .. i |-> ByteAt(call.m + k - 1)]
    BY <1>6 DEF vput_write
  <2> DEFINE out == [k \in 1 .. i |-> ByteAt(call.m + k - 1)]
  <2>4. out \in Seq(Cell)
    BY <2>1, WrittenBytes
  <2>5. device' = device \o out
    BY <2>3
  <2> HIDE DEF out
  <2>6. device \in Seq(Cell) /\ device \o out \in Seq(Cell)
    BY <2>4, ConcatProperties DEF OutInv, OutType
  <2>7. Taken = device /\ Taken' = device'
    BY <2>1, <2>2, <2>5, <2>6, ConcatEmptySeq DEF Taken
  <2>8. Taken' = Taken \o out
    BY <2>5, <2>7
  <2> QED
    BY <1>1, <2>1, <2>2, <2>4, <2>8, Puts
<1>7. CASE vput_write_fails \/ vput_returns
  <2>1. call.busy /\ UNCHANGED <<kind, device, pending, closed>>
    BY <1>7 DEF vput_write_fails, vput_returns
  <2>2. kind = "descriptor"
    BY <2>1, Busy
  <2> QED
    BY <1>1, <2>1, <2>2 DEF Taken, Over, Channel!vars
<1>8. CASE free_output
  <2>1. Taken' = Taken /\ ~closed /\ closed' = TRUE
    BY <1>8, FlushTaken DEF free_output
  <2> QED
    BY <1>1, <2>1 DEF Over, Channel!Close
<1> QED
  BY <1>2, <1>3, <1>4, <1>5, <1>6, <1>7, <1>8, Zenon DEF OutNext

\* Everything that the reader of a closed channel could take.
LEMMA AllTaken ==
    ASSUME OutInv, InInv, Upto(Taken, Len(Taken))
    PROVE  got = Taken
<1>1. Taken \in Seq(Cell)
  BY TakenType
<1> QED
  BY <1>1, SeqEqual DEF Upto

LEMMA ReaderMaps ==
    ASSUME Readable, OutInv, OutInv', InInv, Reader, UNCHANGED outCore
    PROVE  Channel!Get \/ Channel!End \/ UNCHANGED Channel!vars
<1>1. Taken' = Taken /\ closed' = closed
  BY DEF Taken, outCore
<1>2. Taken \in Seq(Cell) /\ Len(Taken) \in Nat /\ ferror \in BOOLEAN
  BY TakenType, LenProperties DEF InInv
<1>3. ASSUME NEW k \in Nat, k + 1 \in 1 .. Len(Taken), Upto(Taken, k), reader = "reading",
             got' = Append(got, Taken[k + 1]), reader' # "done"
      PROVE  Channel!Get
  <2>1. Len(got) = k
    BY <1>3 DEF Upto
  <2>2. Len(got) < Len(Taken)
    BY <1>2, <1>3, <2>1
  <2>3. ~Over /\ ~Over'
    BY <1>3 DEF Over
  <2> QED
    BY <1>1, <1>3, <2>1, <2>2, <2>3 DEF Channel!Get, Over
<1>4. CASE new_string \/ new_buffered \/ next_again
  <2>1. got' = got /\ reader \in {"none", "failed"} /\ reader' # "done"
    BY <1>4 DEF new_string, new_buffered, next_again, Outcome
  <2> QED
    BY <1>1, <2>1 DEF Channel!vars
<1>5. CASE next_string
  <2>1. /\ kind = "string" /\ reader = "reading" /\ item # EOF /\ got' = Append(got, item)
        /\ reader' = reader
    BY <1>5 DEF next_string, Takes
  <2>2. Taken = given /\ Upto(given, index) /\ index \in Nat
    BY <2>1, TakenString DEF InInv, StringReaderInv
  <2>3. index + 1 \in 1 .. Len(given) /\ item = given[index + 1]
    BY <2>1, StringItem
  <2> QED
    BY <1>3, <2>1, <2>2, <2>3
<1>6. ASSUME kind # "string"
      PROVE  /\ Len(device) \in Nat /\ fetched \in 0 .. Len(device)
             /\ Len(device) <= Len(Taken)
             /\ \A j \in 1 .. Len(device) : Taken[j] = device[j]
  <2>1. device \in Seq(Cell) /\ pending \in Seq(Cell) /\ Taken = device \o pending
    BY <1>6 DEF OutInv, OutType, Taken
  <2>2. Extends(Taken, device)
    BY <2>1, ConcatExtends
  <2> QED
    BY <1>6, <2>1, <2>2, LenProperties DEF Extends, InInv, BufferedInv
<1>7. CASE next_buffered
  <2>1. kind # "string" /\ reader = "reading" /\ item # EOF /\ got' = Append(got, item)
    BY <1>7 DEF next_buffered, Takes
  <2>2. reader' # "done"
    BY <1>7, <2>1 DEF next_buffered, Outcome
  <2>3. Position + 1 \in 1 .. fetched /\ item = device[Position + 1] /\ Position \in Int
    BY <2>1, BufferedItem, PositionType
  <2>4. Position \in Nat /\ Position + 1 \in 1 .. Len(device)
    BY <1>6, <2>1, <2>3
  <2>5. Position + 1 \in 1 .. Len(Taken) /\ item = Taken[Position + 1]
    BY <1>2, <1>6, <2>1, <2>3, <2>4
  <2>6. Upto(Taken, Position)
    <3>1. Upto(device, Position)
      BY <2>1 DEF InInv, BufferedInv
    <3>2. \A j \in 1 .. Position : j \in 1 .. Len(device)
      BY <1>6, <2>1, <2>4
    <3> QED
      BY <1>6, <2>1, <3>1, <3>2 DEF Upto
  <2> QED
    BY <1>3, <2>1, <2>2, <2>4, <2>5, <2>6
<1>8. CASE free_input
  <2>1. /\ reader = "reading" /\ item = EOF /\ reader' = "done"
        /\ UNCHANGED <<got, ferror>>
    BY <1>8 DEF free_input
  <2>2. ~Over
    BY <2>1 DEF Over
  <2>3. CASE ferror
    <3>1. ~Over'
      BY <2>1, <2>3 DEF Over
    <3> QED
      BY <1>1, <2>1, <2>2, <3>1 DEF Channel!vars, Over
  <2>4. CASE ~ferror
    <3>1. Over'
      BY <2>1, <2>4 DEF Over
    <3>2. closed /\ Upto(Taken, Len(Taken))
      <4>1. CASE kind = "string"
        <5>1. index = Len(given)
          BY <2>1, <4>1, StringItem
        <5> QED
          BY <2>1, <4>1, <5>1, TakenString DEF InInv, StringReaderInv
      <4>2. CASE kind # "string"
        <5>1. max = 0
          BY <2>1, <4>2, BufferedItem
        <5>2. closed /\ fetched = Len(device) /\ Upto(device, fetched)
          BY <2>4, <4>2, <5>1 DEF InInv, BufferedInv, Position
        <5>3. Taken = device
          <6>1. pending = <<>>
            BY <5>2 DEF OutInv, OutPhase
          <6>2. device \in Seq(Cell)
            BY DEF OutInv, OutType
          <6> QED
            BY <4>2, <6>1, <6>2, ConcatEmptySeq DEF Taken
        <5> QED
          BY <5>2, <5>3
      <4> QED
        BY <4>1, <4>2
    <3>3. got = Taken
      BY <3>2, AllTaken
    <3> QED
      BY <1>1, <2>1, <3>1, <3>2, <3>3 DEF Channel!End, Over
  <2> QED
    BY <1>2, <2>3, <2>4
<1> QED
  BY <1>4, <1>5, <1>7, <1>8, Zenon DEF Reader

\* Bytes come out of a stream as they were put in, each once and in order, and EOF is met
\* only at the end, through short, failing and empty reads and writes, for all sizes of
\* blocks and buffers: for texts without a NUL or the byte 0xff, an offset that starts at
\* 0, and a first read that does not fail.
THEOREM StreamIsByteChannel ==
    ASSUME Plain, Readable
    PROVE  Spec => ImplementsByteChannel
<1>1. Init => Channel!Init
  <2> SUFFICES ASSUME Init PROVE Channel!Init
    OBVIOUS
  <2>1. OutInv /\ device = <<>> /\ pending = <<>> /\ given = <<>> /\ got = <<>> /\ closed = FALSE
        /\ reader = "none"
    BY OutInit_OutInv DEF Init, OutInit
  <2>2. Taken = <<>>
    <3>1. <<>> \o <<>> = <<>>
      BY EmptySeq, ConcatEmptySeq
    <3> QED
      BY <2>1, <3>1, TakenString DEF Taken
  <2> QED
    BY <2>1, <2>2 DEF Channel!Init
<1>2. OutInv /\ OutInv' /\ InInv /\ [Next]_vars => [Channel!Next]_(Channel!vars)
  <2> SUFFICES ASSUME OutInv, OutInv', InInv, [Next]_vars
               PROVE  Channel!Next \/ UNCHANGED Channel!vars
    OBVIOUS
  <2>1. CASE OutNext /\ UNCHANGED inVars
    BY <2>1, WriterMaps DEF Channel!Next
  <2>2. CASE Reader /\ UNCHANGED outCore
    BY <2>2, ReaderMaps DEF Channel!Next
  <2>3. CASE UNCHANGED vars
    BY <2>3 DEF vars, outVars, inVars, Channel!vars, Taken
  <2> QED
    BY <2>1, <2>2, <2>3, Next_Cases
<1> QED
  BY <1>1, <1>2, InInvHolds, PTL DEF Spec, ImplementsByteChannel, Channel!Spec

\* The types of the variables, through every growth, refill and failure.
THEOREM TypeOKAlways == ASSUME Plain, Readable PROVE Spec => []TypeOK
<1>1. OutInv /\ InInv => TypeOK
  <2> SUFFICES ASSUME OutInv, InInv PROVE TypeOK
    OBVIOUS
  <2>1. /\ kind \in Kinds
        /\ \A i \in DOMAIN block : block[i] \in Bytes \cup {JUNK}
        /\ device \in Seq(Bytes \cup {JUNK})
        /\ Len(device) \in Nat
    <3>1. block \in Seq(Cell) /\ device \in Seq(Cell) /\ kind \in Kinds
      BY DEF OutInv, OutType
    <3>2. \A i \in DOMAIN block : block[i] \in Cell
      BY <3>1, LenProperties, ElementOfSeq
    <3>3. device \in Seq(Bytes \cup {JUNK})
      BY <3>1, CellType, SeqMonotonic
    <3> QED
      BY <3>1, <3>2, <3>3, CellType, LenProperties
  <2>2. CASE kind = "string"
    BY <2>1, <2>2 DEF InInv, StringReaderInv, TypeOK
  <2>3. CASE kind # "string"
    BY <2>1, <2>3 DEF InInv, BufferedInv, TypeOK
  <2> QED
    BY <2>2, <2>3
<1> QED
  BY <1>1, InInvHolds, PTL
=============================================================================
