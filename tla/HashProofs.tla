----------------------------- MODULE HashProofs ------------------------------
(***************************************************************************)
(* What the hash table of cad_hash.c keeps, for all keys, values, hash     *)
(* functions and numbers of growths: it is a map.  The theorems take the   *)
(* arithmetic of the probe as a hypothesis, which TLC evaluates on the     *)
(* instance: the probe of every hash goes through all the slots.           *)
(***************************************************************************)
EXTENDS Hash, FiniteSetTheorems, WellFoundedInduction, TLAPS

------------------------------------------------------------------------------
\* Natural numbers

\* A set of natural numbers has a least one: what the inductions below rest on.
LEMMA LeastNatural ==
    ASSUME NEW T \in SUBSET Nat, T # {}
    PROVE  \E x \in T : \A y \in T : x <= y
<1> DEFINE R == {pair \in Nat \X Nat : pair[1] < pair[2]}
<1>1. IsWellFoundedOn(R, Nat)
  BY NatLessThanWellFounded DEF OpToRel
<1>2. \A x, y \in Nat : x < y => <<x, y>> \in R
  OBVIOUS
<1> HIDE DEF R
<1>3. PICK x \in T : \A y \in T : ~ (<<y, x>> \in R)
  BY <1>1, WFMin, Zenon
<1>4. ASSUME NEW y \in T PROVE x <= y
  <2>1. ~ (x > y)
    BY <1>2, <1>3, Zenon
  <2> QED
    BY <2>1
<1> QED
  BY <1>4

\* A set that holds 0 and, with a number, the next one up to m, holds them all.
LEMMA UpTo ==
    ASSUME NEW m \in Nat, NEW T, 0 \in T, \A n \in 1 .. m : n - 1 \in T => n \in T
    PROVE  \A n \in 0 .. m : n \in T
<1> SUFFICES ASSUME {n \in 0 .. m : n \notin T} # {} PROVE FALSE
  OBVIOUS
<1> DEFINE B == {n \in 0 .. m : n \notin T}
<1>1. PICK x \in B : \A y \in B : x <= y
  <2>1. B \in SUBSET Nat /\ B # {}
    OBVIOUS
  <2> HIDE DEF B
  <2> QED
    BY <2>1, LeastNatural
<1>2. x # 0 /\ x - 1 \in 0 .. m
  BY <1>1
<1>3. x - 1 \in T
  BY <1>1, <1>2
<1> QED
  BY <1>1, <1>2, <1>3

\* Min is the least number of a set.
LEMMA MinLeast ==
    ASSUME NEW T \in SUBSET Nat, T # {}
    PROVE  Min(T) \in T /\ \A y \in T : Min(T) <= y
BY LeastNatural DEF Min

------------------------------------------------------------------------------
\* Tables and searches

Used(t, c) == {j \in 0 .. c - 1 : t[j].key # NULL}
Content(t, c) == {t[j] : j \in Used(t, c)}

\* A table of c slots, where a key has one slot at most, one slot is free, and every
\* search for a key that is there finds it.
Table(t, c) == c \in Capacities /\ t \in [0 .. c - 1 -> Entries]
Distinct(t, c) == \A j, m \in Used(t, c) : t[j].key = t[m].key => j = m
Room(t, c) == \E j \in 0 .. c - 1 : t[j].key = NULL
Found(t, c) == Lost(t, c) = {}
Sound(t, c) == Table(t, c) /\ Distinct(t, c) /\ Room(t, c) /\ Found(t, c)

\* The hash function is one.
Hashed == hashed \in [Keys -> HashValues]

\* The search for a key in t stops at the nth probe.
StopsAt(t, c, key, n) ==
    /\ n \in 1 .. MaxProbes
    /\ t[ProbeSlot(key, n, c)].key \in {key, NULL}
    /\ \A m \in 1 .. n - 1 : t[ProbeSlot(key, m, c)].key \notin {key, NULL}

\* The number of probes is one.
LEMMA MaxProbesType == MaxProbes \in Nat
BY HashAssumption, CapacitiesAssumption DEF MaxProbes, PERTURB_SHIFT

\* The probe of a key stays in the table, and goes through all of it.
LEMMA ProbeSlots ==
    ASSUME ProbeVisitsAll, Hashed, NEW c \in Capacities, NEW key \in Keys
    PROVE  /\ \A n \in 1 .. MaxProbes : ProbeSlot(key, n, c) \in 0 .. c - 1
           /\ \A j \in 0 .. c - 1 : \E n \in 1 .. MaxProbes : ProbeSlot(key, n, c) = j
<1>1. hashed[key] \in HashValues
  BY DEF Hashed
<1>2. {Probe[hashed[key]][n].index % c : n \in 1 .. MaxProbes} = 0 .. c - 1
  BY <1>1 DEF ProbeVisitsAll
<1>3. \A n \in 1 .. MaxProbes : Probe[hashed[key]][n].index % c \in 0 .. c - 1
  BY <1>2
<1>4. \A j \in 0 .. c - 1 : \E n \in 1 .. MaxProbes : Probe[hashed[key]][n].index % c = j
  BY <1>2
<1> QED
  BY <1>3, <1>4 DEF ProbeSlot

\* A table with a free slot stops every search.
LEMMA SearchStops ==
    ASSUME ProbeVisitsAll, Hashed, NEW t, NEW c \in Capacities, Room(t, c), NEW key \in Keys
    PROVE  Stops(t, c, key) # {} /\ \E n : StopsAt(t, c, key, n)
<1>1. PICK j \in 0 .. c - 1 : t[j].key = NULL
  BY DEF Room
<1>2. PICK p \in 1 .. MaxProbes : ProbeSlot(key, p, c) = j
  BY ProbeSlots
<1>3. p \in Stops(t, c, key)
  BY <1>1, <1>2 DEF Stops
<1>4. Stops(t, c, key) \in SUBSET Nat
  BY DEF Stops
<1>5. PICK n \in Stops(t, c, key) : \A m \in Stops(t, c, key) : n <= m
  BY <1>3, <1>4, LeastNatural
<1>6. n \in 1 .. MaxProbes /\ t[ProbeSlot(key, n, c)].key \in {key, NULL}
  BY <1>5 DEF Stops
<1>7. ASSUME NEW m \in 1 .. n - 1 PROVE t[ProbeSlot(key, m, c)].key \notin {key, NULL}
  <2>1. m \in 1 .. MaxProbes /\ m < n
    BY <1>6, MaxProbesType
  <2>2. m \notin Stops(t, c, key)
    BY <1>5, <1>6, <2>1
  <2> QED
    BY <2>1, <2>2 DEF Stops
<1> QED
  BY <1>3, <1>6, <1>7 DEF StopsAt

\* index_of tells where a search stops.
LEMMA StopIndex ==
    ASSUME NEW t, NEW c, NEW key, NEW n, StopsAt(t, c, key, n)
    PROVE  index_of(t, c, key)
              = IF t[ProbeSlot(key, n, c)].key = NULL THEN -ProbeSlot(key, n, c) - 1
                                                      ELSE ProbeSlot(key, n, c)
<1>1. n \in Stops(t, c, key)
  BY DEF StopsAt, Stops
<1>2. Stops(t, c, key) \in SUBSET Nat
  BY DEF Stops
<1>3. Min(Stops(t, c, key)) \in Stops(t, c, key) /\ Min(Stops(t, c, key)) <= n
  BY <1>1, <1>2, MinLeast
<1>4. \A m \in 1 .. n - 1 : m \notin Stops(t, c, key)
  BY DEF StopsAt, Stops
<1>5. Min(Stops(t, c, key)) = n
  <2>1. n \in Nat /\ Min(Stops(t, c, key)) \in Nat /\ Min(Stops(t, c, key)) >= 1
    BY <1>1, <1>3 DEF Stops
  <2>2. Min(Stops(t, c, key)) \notin 1 .. n - 1
    BY <1>3, <1>4
  <2> QED
    BY <1>3, <2>1, <2>2
<1> QED
  BY <1>5 DEF index_of

\* It is the slot of the key, or says which slot is free.
LEMMA IndexOf ==
    ASSUME ProbeVisitsAll, Hashed, NEW t, NEW c, Table(t, c), Room(t, c), NEW key \in Keys
    PROVE  \/ /\ index_of(t, c, key) \in 0 .. c - 1
              /\ t[index_of(t, c, key)].key = key
           \/ /\ index_of(t, c, key) \in Int /\ index_of(t, c, key) < 0
              /\ -index_of(t, c, key) - 1 \in 0 .. c - 1
              /\ t[-index_of(t, c, key) - 1].key = NULL
<1>1. c \in Capacities /\ c \in Nat
  BY CapacitiesAssumption DEF Table
<1>2. PICK n : StopsAt(t, c, key, n)
  BY <1>1, SearchStops
<1> DEFINE slot == ProbeSlot(key, n, c)
<1>3. slot \in 0 .. c - 1 /\ t[slot].key \in {key, NULL}
  BY <1>1, <1>2, ProbeSlots DEF StopsAt
<1>4. index_of(t, c, key) = IF t[slot].key = NULL THEN -slot - 1 ELSE slot
  BY <1>2, StopIndex
<1> HIDE DEF slot
<1>5. CASE t[slot].key = NULL
  BY <1>1, <1>3, <1>4, <1>5
<1>6. CASE t[slot].key # NULL
  BY <1>1, <1>3, <1>4, <1>6
<1> QED
  BY <1>5, <1>6

\* In a sound table it is the slot of the key if there is one.
LEMMA IndexFound ==
    ASSUME ProbeVisitsAll, Hashed, NEW t, NEW c, Sound(t, c), NEW j \in Used(t, c)
    PROVE  t[j].key \in Keys /\ index_of(t, c, t[j].key) = j
<1>1. Table(t, c) /\ Room(t, c) /\ Distinct(t, c) /\ Found(t, c) /\ j \in 0 .. c - 1
  BY DEF Sound, Used
<1>2. t[j].key \in Keys
  BY <1>1 DEF Table, Used, Entries
<1>3. ~(index_of(t, c, t[j].key) < 0)
  BY <1>1 DEF Found, Lost, Used
<1>4. index_of(t, c, t[j].key) \in 0 .. c - 1 /\ t[index_of(t, c, t[j].key)].key = t[j].key
  BY <1>1, <1>2, <1>3, IndexOf
<1>5. index_of(t, c, t[j].key) \in Used(t, c)
  BY <1>2, <1>4, HashAssumption DEF Used
<1> QED
  BY <1>1, <1>2, <1>4, <1>5 DEF Distinct

\* A key that is not in the table is not found.
LEMMA IndexFree ==
    ASSUME ProbeVisitsAll, Hashed, NEW t, NEW c, Table(t, c), Room(t, c), NEW key \in Keys,
           \A j \in Used(t, c) : t[j].key # key
    PROVE  /\ index_of(t, c, key) < 0 /\ index_of(t, c, key) \in Int
           /\ -index_of(t, c, key) - 1 \in (0 .. c - 1) \ Used(t, c)
           /\ t[-index_of(t, c, key) - 1].key = NULL
BY IndexOf, HashAssumption DEF Used

------------------------------------------------------------------------------
\* What is put in a table

\* How many slots are used.
LEMMA UsedFinite ==
    ASSUME NEW t, NEW c \in Nat
    PROVE  /\ IsFiniteSet(Used(t, c)) /\ Cardinality(Used(t, c)) \in Nat
           /\ Cardinality(Used(t, c)) <= c
           /\ Cardinality(Used(t, c)) < c => Room(t, c)
<1>1. IsFiniteSet(0 .. c - 1) /\ Cardinality(0 .. c - 1) = c
  BY FS_Interval
<1>2. Used(t, c) \in SUBSET (0 .. c - 1)
  BY DEF Used
<1>3. /\ IsFiniteSet(Used(t, c)) /\ Cardinality(Used(t, c)) <= c
      /\ Cardinality(Used(t, c)) = c => Used(t, c) = 0 .. c - 1
  BY <1>1, <1>2, FS_Subset
<1>4. Cardinality(Used(t, c)) \in Nat
  BY <1>3, FS_CardinalityType
<1>5. Used(t, c) # 0 .. c - 1 => Room(t, c)
  BY DEF Used, Room
<1>6. Cardinality(Used(t, c)) < c => Used(t, c) # 0 .. c - 1
  BY <1>1
<1> QED
  BY <1>3, <1>4, <1>5, <1>6

\* An entry that is put where its search ends leaves every other one where it is found.
LEMMA Insert ==
    ASSUME ProbeVisitsAll, Hashed, NEW t, NEW c, Sound(t, c),
           NEW entry \in Entries, entry.key \in Keys,
           \A j \in Used(t, c) : t[j].key # entry.key
    PROVE  LET u == Place(t, c, entry)
           IN  /\ Table(u, c) /\ Distinct(u, c) /\ Found(u, c)
               /\ Content(u, c) = Content(t, c) \cup {entry}
               /\ Cardinality(Used(u, c)) = Cardinality(Used(t, c)) + 1
<1> DEFINE f == -index_of(t, c, entry.key) - 1
           u == Place(t, c, entry)
<1>0. u = [t EXCEPT ![f] = entry]
  BY HashAssumption DEF Place
<1> HIDE DEF u
<1>1. /\ Table(t, c) /\ Room(t, c) /\ Distinct(t, c) /\ c \in Capacities /\ c \in Nat
      /\ NULL \notin Keys
  BY CapacitiesAssumption, HashAssumption DEF Sound, Table
<1>2. f \in (0 .. c - 1) \ Used(t, c) /\ t[f].key = NULL
  BY <1>1, IndexFree
<1>3. PICK n : StopsAt(t, c, entry.key, n)
  BY <1>1, SearchStops
<1>4. ProbeSlot(entry.key, n, c) = f
  <2>1. ProbeSlot(entry.key, n, c) \in 0 .. c - 1
    BY <1>1, <1>3, ProbeSlots DEF StopsAt
  <2>2. index_of(t, c, entry.key) < 0 /\ index_of(t, c, entry.key) \in Int
    BY <1>1, IndexFree
  <2> QED
    BY <1>3, <2>1, <2>2, StopIndex
<1> HIDE DEF f
<1>5. /\ u[f] = entry /\ DOMAIN u = 0 .. c - 1
      /\ \A j \in 0 .. c - 1 : j # f => u[j] = t[j]
  BY <1>1, <1>2, <1>0 DEF Table
<1>6. Table(u, c)
  BY <1>1, <1>2, <1>0 DEF Table
<1>7. Used(u, c) = Used(t, c) \cup {f}
  BY <1>1, <1>2, <1>5 DEF Used
<1>8. Distinct(u, c)
  <2>1. \A j \in Used(t, c) : j # f /\ u[j] = t[j]
    BY <1>2, <1>5 DEF Used
  <2> QED
    BY <1>1, <1>5, <1>7, <2>1 DEF Distinct
<1>9. ASSUME NEW j \in Used(u, c) PROVE ~(index_of(u, c, u[j].key) < 0)
  <2>1. CASE j = f
    <3>1. \A m \in 1 .. n - 1 : u[ProbeSlot(entry.key, m, c)].key \notin {entry.key, NULL}
      <4>1. ASSUME NEW m \in 1 .. n - 1
            PROVE  u[ProbeSlot(entry.key, m, c)].key \notin {entry.key, NULL}
        <5>1. t[ProbeSlot(entry.key, m, c)].key \notin {entry.key, NULL}
          BY <1>3 DEF StopsAt
        <5>2. ProbeSlot(entry.key, m, c) \in 0 .. c - 1
          BY <1>1, <1>3, ProbeSlots, MaxProbesType DEF StopsAt
        <5>3. ProbeSlot(entry.key, m, c) # f
          BY <1>2, <5>1
        <5> QED
          BY <1>5, <5>1, <5>2, <5>3
      <4> QED
        BY <4>1
    <3>2. StopsAt(u, c, entry.key, n)
      BY <1>3, <1>4, <1>5, <3>1 DEF StopsAt
    <3>3. index_of(u, c, entry.key)
             = IF u[ProbeSlot(entry.key, n, c)].key = NULL THEN -ProbeSlot(entry.key, n, c) - 1
                                                           ELSE ProbeSlot(entry.key, n, c)
      BY <3>2, StopIndex
    <3>4. index_of(u, c, entry.key) = f
      BY <1>1, <1>4, <1>5, <3>3
    <3> QED
      BY <1>2, <1>5, <2>1, <3>4
  <2>2. CASE j # f
    <3> DEFINE k == t[j].key
    <3>1. j \in Used(t, c) /\ u[j] = t[j]
      BY <1>5, <1>7, <2>2 DEF Used
    <3>2. k \in Keys /\ index_of(t, c, k) = j /\ k # entry.key
      BY <3>1, IndexFound
    <3> HIDE DEF k
    <3>3. PICK p : StopsAt(t, c, k, p)
      BY <1>1, <3>2, SearchStops
    <3>4. ProbeSlot(k, p, c) \in 0 .. c - 1 /\ j \in 0 .. c - 1
      BY <1>1, <3>1, <3>2, <3>3, ProbeSlots DEF StopsAt, Used
    <3>5. ProbeSlot(k, p, c) = j
      BY <3>2, <3>3, <3>4, StopIndex
    <3>6. ASSUME NEW m \in 1 .. p - 1 PROVE u[ProbeSlot(k, m, c)].key \notin {k, NULL}
      <4>1. t[ProbeSlot(k, m, c)].key \notin {k, NULL}
        BY <3>3 DEF StopsAt
      <4>2. ProbeSlot(k, m, c) \in 0 .. c - 1
        BY <1>1, <3>2, <3>3, ProbeSlots, MaxProbesType DEF StopsAt
      <4>3. ProbeSlot(k, m, c) # f
        BY <1>2, <4>1
      <4> QED
        BY <1>5, <4>1, <4>2, <4>3
    <3>7. u[j].key = k
      BY <3>1 DEF k
    <3>8. StopsAt(u, c, k, p)
      BY <3>3, <3>5, <3>6, <3>7 DEF StopsAt
    <3>9. index_of(u, c, k)
             = IF u[ProbeSlot(k, p, c)].key = NULL THEN -ProbeSlot(k, p, c) - 1
                                                   ELSE ProbeSlot(k, p, c)
      BY <3>8, StopIndex
    <3>10. index_of(u, c, k) = j
      BY <1>1, <3>2, <3>5, <3>7, <3>9
    <3> QED
      BY <3>4, <3>7, <3>10
  <2> QED
    BY <2>1, <2>2
<1>10. Found(u, c)
  BY <1>9 DEF Found, Lost, Used
<1>11. Content(u, c) = Content(t, c) \cup {entry}
  <2>1. \A j \in Used(t, c) : u[j] = t[j]
    BY <1>2, <1>5 DEF Used
  <2>2. Content(u, c) \subseteq Content(t, c) \cup {entry}
    <3>1. ASSUME NEW e \in Content(u, c) PROVE e \in Content(t, c) \cup {entry}
      <4>1. PICK j \in Used(u, c) : e = u[j]
        BY <3>1 DEF Content
      <4>2. CASE j \in Used(t, c)
        BY <2>1, <4>1, <4>2 DEF Content
      <4>3. CASE j = f
        BY <1>5, <4>1, <4>3
      <4> QED
        BY <1>7, <4>1, <4>2, <4>3
    <3> QED
      BY <3>1
  <2>3. entry \in Content(u, c)
    BY <1>5, <1>7 DEF Content
  <2>4. Content(t, c) \subseteq Content(u, c)
    BY <1>7, <2>1 DEF Content
  <2> QED
    BY <2>2, <2>3, <2>4
<1>12. Cardinality(Used(u, c)) = Cardinality(Used(t, c)) + 1
  <2>1. IsFiniteSet(Used(t, c))
    BY <1>1, UsedFinite
  <2> QED
    BY <1>2, <1>7, <2>1, FS_AddElement
<1> QED
  BY <1>6, <1>8, <1>10, <1>11, <1>12 DEF u

\* A table without entries is sound.
LEMMA EmptySound ==
    ASSUME NEW c \in Capacities
    PROVE  Sound(EmptyTable(c), c) /\ Used(EmptyTable(c), c) = {} /\ Content(EmptyTable(c), c) = {}
<1>1. c \in Nat /\ c >= 4
  BY CapacitiesAssumption
<1>2. \A j \in 0 .. c - 1 : EmptyTable(c)[j] = Empty /\ EmptyTable(c)[j].key = NULL
  BY DEF EmptyTable, Empty
<1>3. Used(EmptyTable(c), c) = {}
  BY <1>2 DEF Used
<1>4. Room(EmptyTable(c), c)
  BY <1>1, <1>2 DEF Room
<1>5. Table(EmptyTable(c), c)
  BY DEF Table, EmptyTable, Empty, Entries
<1>6. Found(EmptyTable(c), c)
  BY <1>2 DEF Found, Lost
<1> QED
  BY <1>3, <1>4, <1>5, <1>6 DEF Sound, Distinct, Content

------------------------------------------------------------------------------
\* Growth

\* The tables that the loop of grow goes through, from a table t of c slots on.
CopiedSoFar(f, t, c, m) ==
    f = [n \in 0 .. m |-> IF n = 0 THEN EmptyTable(2 * c) ELSE Place(f[n - 1], 2 * c, t[n - 1])]

\* There are some, as far as one counts.
LEMMA CopiedExists == ASSUME NEW t, NEW c \in Nat PROVE \E f : CopiedSoFar(f, t, c, c)
<1> DEFINE T == {m \in 0 .. c : \E f : CopiedSoFar(f, t, c, m)}
<1>1. 0 \in T
  <2> DEFINE f0 == [n \in 0 .. 0 |-> EmptyTable(2 * c)]
  <2>1. CopiedSoFar(f0, t, c, 0)
    BY DEF CopiedSoFar
  <2> QED
    BY <2>1
<1>2. ASSUME NEW m \in 1 .. c, m - 1 \in T PROVE m \in T
  <2>1. PICK f : CopiedSoFar(f, t, c, m - 1)
    BY <1>2
  <2> DEFINE g == [n \in 0 .. m |-> IF n = m THEN Place(f[m - 1], 2 * c, t[m - 1]) ELSE f[n]]
             h == [n \in 0 .. m |-> IF n = 0 THEN EmptyTable(2 * c)
                                             ELSE Place(g[n - 1], 2 * c, t[n - 1])]
  <2>2. \A n \in 0 .. m - 1 : f[n] = IF n = 0 THEN EmptyTable(2 * c)
                                              ELSE Place(f[n - 1], 2 * c, t[n - 1])
    BY <2>1 DEF CopiedSoFar
  <2>3. ASSUME NEW n \in 0 .. m PROVE g[n] = h[n]
    <3>1. n = 0 \/ g[n - 1] = f[n - 1]
      OBVIOUS
    <3>2. n = m \/ n \in 0 .. m - 1
      OBVIOUS
    <3> QED
      BY <2>2, <3>1, <3>2
  <2>4. g = h
    BY <2>3
  <2>5. CopiedSoFar(g, t, c, m)
    BY <2>4 DEF CopiedSoFar
  <2> QED
    BY <2>5
<1> HIDE DEF T
<1>3. c \in T
  BY <1>1, <1>2, UpTo
<1> QED
  BY <1>3 DEF T

\* grow returns the last of them.
LEMMA GrowIs ==
    ASSUME NEW t, NEW c \in Nat, c # 0
    PROVE  \E f : CopiedSoFar(f, t, c, c) /\ grow(t, c) = f[c]
<1> DEFINE f == CHOOSE f : CopiedSoFar(f, t, c, c)
<1>1. grow(t, c) = f[c]
  BY DEF grow, CopiedSoFar
<1>2. CopiedSoFar(f, t, c, c)
  BY CopiedExists
<1> QED
  BY <1>1, <1>2

\* The slots below n that are used.
Below(t, c, n) == {j \in Used(t, c) : j < n}

\* How many slots there are below one, and below the next.
LEMMA BelowNext ==
    ASSUME NEW t, NEW c \in Nat, NEW n \in 1 .. c
    PROVE  /\ IsFiniteSet(Below(t, c, n - 1)) /\ Cardinality(Below(t, c, n - 1)) \in Nat
           /\ t[n - 1].key = NULL => Below(t, c, n) = Below(t, c, n - 1)
           /\ t[n - 1].key # NULL =>
                 /\ Below(t, c, n) = Below(t, c, n - 1) \cup {n - 1}
                 /\ Cardinality(Below(t, c, n)) = Cardinality(Below(t, c, n - 1)) + 1
<1>1. IsFiniteSet(Below(t, c, n - 1))
  <2>1. Below(t, c, n - 1) \in SUBSET Used(t, c)
    BY DEF Below
  <2> QED
    BY <2>1, UsedFinite, FS_Subset
<1>2. Cardinality(Below(t, c, n - 1)) \in Nat
  BY <1>1, FS_CardinalityType
<1>3. t[n - 1].key = NULL => Below(t, c, n) = Below(t, c, n - 1)
  BY DEF Below, Used
<1>4. t[n - 1].key # NULL => Below(t, c, n) = Below(t, c, n - 1) \cup {n - 1}
  BY DEF Below, Used
<1>5. n - 1 \notin Below(t, c, n - 1)
  BY DEF Below
<1>6. Cardinality(Below(t, c, n - 1) \cup {n - 1}) = Cardinality(Below(t, c, n - 1)) + 1
  BY <1>1, <1>5, FS_AddElement
<1> QED
  BY <1>1, <1>2, <1>3, <1>4, <1>6

\* The entries of a table that grows are in the larger one, each once.
LEMMA Grows ==
    ASSUME ProbeVisitsAll, Hashed, NEW t, NEW c, Table(t, c), Distinct(t, c),
           2 * c \in Capacities
    PROVE  /\ Sound(grow(t, c), 2 * c)
           /\ Content(grow(t, c), 2 * c) = Content(t, c)
           /\ Cardinality(Used(grow(t, c), 2 * c)) = Cardinality(Used(t, c))
<1>1. c \in Nat /\ c >= 4 /\ 2 * c \in Nat /\ NULL \notin Keys
  BY CapacitiesAssumption, HashAssumption DEF Table
<1>2. PICK f : CopiedSoFar(f, t, c, c) /\ grow(t, c) = f[c]
  BY <1>1, GrowIs
<1>3. /\ f[0] = EmptyTable(2 * c)
      /\ \A n \in 1 .. c : f[n] = Place(f[n - 1], 2 * c, t[n - 1])
  BY <1>1, <1>2 DEF CopiedSoFar
<1> DEFINE d == 2 * c
<1>9. d \in Nat /\ d \in Capacities /\ d = 2 * c /\ d = c + c
  BY <1>1
<1> HIDE DEF d
<1> DEFINE Good(n) == /\ Sound(f[n], d)
                      /\ Content(f[n], d) = {t[j] : j \in Below(t, c, n)}
                      /\ Cardinality(Used(f[n], d)) = Cardinality(Below(t, c, n))
           T == {n \in 0 .. c : Good(n)}
<1>4. 0 \in T
  <2>1. Below(t, c, 0) = {}
    BY DEF Below, Used
  <2>2. Good(0)
    BY <1>3, <1>9, <2>1, EmptySound
  <2> QED
    BY <1>1, <2>2
<1>5. ASSUME NEW n \in 1 .. c, n - 1 \in T PROVE n \in T
  <2> DEFINE e == t[n - 1]
             u == f[n - 1]
             w == f[n]
  <2>1. Good(n - 1) /\ w = Place(u, d, e)
    BY <1>3, <1>5, <1>9
  <2>2. /\ Sound(u, d) /\ Content(u, d) = {t[j] : j \in Below(t, c, n - 1)}
        /\ Cardinality(Used(u, d)) = Cardinality(Below(t, c, n - 1))
    BY <2>1
  <2>3. /\ IsFiniteSet(Below(t, c, n - 1)) /\ Cardinality(Below(t, c, n - 1)) \in Nat
        /\ e.key = NULL => Below(t, c, n) = Below(t, c, n - 1)
        /\ e.key # NULL =>
              /\ Below(t, c, n) = Below(t, c, n - 1) \cup {n - 1}
              /\ Cardinality(Below(t, c, n)) = Cardinality(Below(t, c, n - 1)) + 1
    BY <1>1, BelowNext
  <2>4. n - 1 \in 0 .. c - 1 /\ e \in Entries
    BY <1>1 DEF Table
  <2> HIDE DEF w, u
  <2>5. CASE e.key = NULL
    <3>1. w = u
      BY <2>1, <2>5 DEF Place
    <3>2. Good(n)
      BY <2>2, <2>3, <2>5, <3>1 DEF w
    <3> QED
      BY <1>1, <3>2
  <2>6. CASE e.key # NULL
    <3>1. e.key \in Keys
      BY <2>4, <2>6 DEF Entries
    <3>3. ASSUME NEW j \in Used(u, d) PROVE u[j].key # e.key
      <4>1. u[j] \in Content(u, d)
        BY DEF Content
      <4>2. PICK m \in Below(t, c, n - 1) : u[j] = t[m]
        BY <2>2, <4>1
      <4>3. m \in Used(t, c) /\ m # n - 1 /\ n - 1 \in Used(t, c)
        BY <1>1, <2>4, <2>6 DEF Below, Used
      <4> QED
        BY <4>2, <4>3 DEF Distinct
    <3>4. /\ Table(w, d) /\ Distinct(w, d) /\ Found(w, d)
          /\ Content(w, d) = Content(u, d) \cup {e}
          /\ Cardinality(Used(w, d)) = Cardinality(Used(u, d)) + 1
      <4>1. Sound(u, d) /\ e \in Entries
        BY <2>2, <2>4
      <4> HIDE DEF e
      <4> QED
        BY <2>1, <3>1, <3>3, <4>1, Insert
    <3>5. Cardinality(Used(w, d)) = Cardinality(Below(t, c, n))
      BY <2>2, <2>3, <2>6, <3>4
    <3>6. Room(w, d)
      <4>1. Below(t, c, n) \in SUBSET Used(t, c)
        BY DEF Below
      <4>2. Cardinality(Below(t, c, n)) <= Cardinality(Used(t, c))
        BY <1>1, <4>1, UsedFinite, FS_Subset
      <4>3. Cardinality(Used(t, c)) <= c /\ Cardinality(Used(t, c)) \in Nat
        BY <1>1, <1>9, UsedFinite
      <4>4. Cardinality(Used(w, d)) \in Nat
        BY <1>1, <1>9, UsedFinite
      <4>5. Cardinality(Used(w, d)) < d
        BY <1>1, <1>9, <3>5, <4>2, <4>3, <4>4
      <4> QED
        BY <1>9, <4>5, UsedFinite
    <3>7. Content(w, d) = {t[j] : j \in Below(t, c, n)}
      BY <2>2, <2>3, <2>6, <3>4
    <3>8. Good(n)
      BY <3>4, <3>5, <3>6, <3>7 DEF Sound, w
    <3> QED
      BY <1>1, <3>8
  <2> QED
    BY <2>5, <2>6
<1> HIDE DEF T
<1>6. c \in T
  BY <1>1, <1>4, <1>5, UpTo
<1>7. Good(c)
  BY <1>6 DEF T
<1>8. Below(t, c, c) = Used(t, c)
  BY <1>1 DEF Below, Used
<1> QED
  BY <1>2, <1>7, <1>8, <1>9 DEF Content

------------------------------------------------------------------------------
\* Rehash

\* The probes of the keys that precede the one where the key is.
Ahead(t, c) ==
    {kn \in {e.key : e \in Content(t, c)} \X (1 .. MaxProbes) :
        \E j \in Used(t, c) :
            t[j].key = kn[1] /\ \A m \in 1 .. kn[2] : ProbeSlot(kn[1], m, c) # j}

\* There are at most as many as slots and probes.
LEMMA AheadFinite ==
    ASSUME NEW t, NEW c \in Nat
    PROVE  /\ IsFiniteSet(Ahead(t, c)) /\ Cardinality(Ahead(t, c)) \in Nat
           /\ Cardinality(Ahead(t, c)) <= c * MaxProbes
<1> DEFINE K == {e.key : e \in Content(t, c)}
           P == 1 .. MaxProbes
           g == [j \in Used(t, c) |-> t[j].key]
<1>1. /\ IsFiniteSet(Used(t, c)) /\ Cardinality(Used(t, c)) \in Nat
      /\ Cardinality(Used(t, c)) <= c
  BY UsedFinite
<1>2. g \in Surjection(Used(t, c), K)
  <2>1. \A j \in Used(t, c) : g[j] \in K
    BY DEF Content
  <2>2. \A k \in K : \E j \in Used(t, c) : g[j] = k
    BY DEF Content
  <2> HIDE DEF K
  <2> QED
    BY <2>1, <2>2 DEF Surjection
<1>3. IsFiniteSet(K) /\ Cardinality(K) <= Cardinality(Used(t, c))
  BY <1>1, <1>2, FS_Surjection
<1>4. Cardinality(K) \in Nat
  BY <1>3, FS_CardinalityType
<1>5. IsFiniteSet(P) /\ Cardinality(P) = MaxProbes
  BY MaxProbesType, FS_Interval
<1>6. IsFiniteSet(K \X P) /\ Cardinality(K \X P) = Cardinality(K) * Cardinality(P)
  BY <1>3, <1>5, FS_Product
<1>7. Ahead(t, c) \in SUBSET (K \X P)
  BY DEF Ahead
<1>8. IsFiniteSet(Ahead(t, c)) /\ Cardinality(Ahead(t, c)) <= Cardinality(K \X P)
  BY <1>6, <1>7, FS_Subset
<1>9. Cardinality(Ahead(t, c)) \in Nat
  BY <1>8, FS_CardinalityType
<1>10. ASSUME NEW a \in Nat, NEW m \in Nat, a <= c PROVE a * m <= c * m
  BY <1>10
<1>11. Cardinality(K) <= c
  BY <1>1, <1>3, <1>4
<1>12. Cardinality(K) * MaxProbes <= c * MaxProbes
  BY <1>4, <1>10, <1>11, MaxProbesType
<1>13. Cardinality(K) * MaxProbes \in Nat /\ c * MaxProbes \in Nat
  BY <1>4, MaxProbesType
<1> HIDE DEF K, P
<1> QED
  BY <1>5, <1>6, <1>8, <1>9, <1>12, <1>13

\* A table where something is lost, but neither twice nor for want of a free slot.
Loose(t, c) == Table(t, c) /\ Distinct(t, c) /\ Room(t, c)

\* An entry that is lost moves to an earlier probe of its key, and nothing else changes.
LEMMA Repairs ==
    ASSUME ProbeVisitsAll, Hashed, NEW t, NEW c, Loose(t, c), Lost(t, c) # {}
    PROVE  LET u == Repair(t, c)
           IN  /\ Loose(u, c)
               /\ Content(u, c) = Content(t, c)
               /\ Cardinality(Used(u, c)) = Cardinality(Used(t, c))
               /\ Cardinality(Ahead(u, c)) < Cardinality(Ahead(t, c))
<1> DEFINE u == Repair(t, c)
           j == Min(Lost(t, c))
           to == -index_of(t, c, t[j].key) - 1
<1>1. /\ Table(t, c) /\ Room(t, c) /\ Distinct(t, c) /\ c \in Capacities /\ c \in Nat
      /\ NULL \notin Keys
  BY CapacitiesAssumption, HashAssumption DEF Loose, Table
<1>2. j \in Lost(t, c)
  <2>1. Lost(t, c) \in SUBSET Nat
    BY <1>1 DEF Lost
  <2> QED
    BY <2>1, MinLeast
<1>3. u = [t EXCEPT ![to] = t[j], ![j] = Empty]
  BY DEF Repair
<1> HIDE DEF j, u
<1> DEFINE k == t[j].key
<1>4. j \in Used(t, c) /\ j \in 0 .. c - 1 /\ k \in Keys /\ index_of(t, c, k) < 0
  BY <1>1, <1>2 DEF Lost, Used, Table, Entries
<1> HIDE DEF k
<1>5. to = -index_of(t, c, k) - 1
  BY DEF k
<1> HIDE DEF to
<1>6. to \in 0 .. c - 1 /\ t[to].key = NULL /\ to # j /\ to \notin Used(t, c)
  <2>1. to \in 0 .. c - 1 /\ t[to].key = NULL
    BY <1>1, <1>4, <1>5, IndexOf
  <2> QED
    BY <1>4, <2>1 DEF Used
<1>7. /\ u[to] = t[j] /\ u[j] = Empty /\ DOMAIN u = 0 .. c - 1
      /\ \A m \in 0 .. c - 1 : m \notin {to, j} => u[m] = t[m]
  BY <1>1, <1>3, <1>4, <1>6 DEF Table
<1>8. Table(u, c)
  BY <1>1, <1>3, <1>4, <1>6 DEF Table, Empty, Entries
<1>9. Room(u, c)
  BY <1>4, <1>7 DEF Room, Empty
<1>10. Used(u, c) = (Used(t, c) \ {j}) \cup {to}
  BY <1>4, <1>6, <1>7 DEF Used, Empty
<1>11. \A m \in Used(t, c) \ {j} : u[m] = t[m]
  BY <1>6, <1>7 DEF Used
<1>12. Distinct(u, c)
  BY <1>1, <1>4, <1>7, <1>10, <1>11 DEF Distinct
<1>13. Content(u, c) = Content(t, c)
  <2>1. ASSUME NEW e \in Content(u, c) PROVE e \in Content(t, c)
    <3>1. PICK m \in Used(u, c) : e = u[m]
      BY <2>1 DEF Content
    <3> QED
      BY <1>4, <1>7, <1>10, <1>11, <3>1 DEF Content
  <2>2. ASSUME NEW e \in Content(t, c) PROVE e \in Content(u, c)
    <3>1. PICK m \in Used(t, c) : e = t[m]
      BY <2>2 DEF Content
    <3>2. CASE m = j
      BY <1>7, <1>10, <3>1, <3>2 DEF Content
    <3>3. CASE m # j
      BY <1>10, <1>11, <3>1, <3>3 DEF Content
    <3> QED
      BY <3>2, <3>3
  <2> QED
    BY <2>1, <2>2
<1>14. Cardinality(Used(u, c)) = Cardinality(Used(t, c))
  <2>1. IsFiniteSet(Used(t, c)) /\ Cardinality(Used(t, c)) \in Nat
    BY <1>1, UsedFinite
  <2>2. /\ IsFiniteSet(Used(t, c) \ {j})
        /\ Cardinality(Used(t, c) \ {j}) = Cardinality(Used(t, c)) - 1
    BY <1>4, <2>1, FS_RemoveElement
  <2>3. to \notin Used(t, c) \ {j}
    BY <1>6
  <2>4. Cardinality((Used(t, c) \ {j}) \cup {to}) = Cardinality(Used(t, c) \ {j}) + 1
    BY <2>2, <2>3, FS_AddElement
  <2> QED
    BY <1>10, <2>1, <2>2, <2>4
<1>15. PICK n : StopsAt(t, c, k, n)
  BY <1>1, <1>4, SearchStops
<1>16. n \in 1 .. MaxProbes /\ n \in Nat /\ ProbeSlot(k, n, c) = to
  <2>1. ProbeSlot(k, n, c) \in 0 .. c - 1
    BY <1>1, <1>4, <1>15, ProbeSlots DEF StopsAt
  <2>2. index_of(t, c, k)
           = IF t[ProbeSlot(k, n, c)].key = NULL THEN -ProbeSlot(k, n, c) - 1
                                                 ELSE ProbeSlot(k, n, c)
    BY <1>15, StopIndex
  <2> QED
    BY <1>4, <1>5, <1>15, <2>1, <2>2 DEF StopsAt
<1>17. \A m \in 1 .. n : ProbeSlot(k, m, c) # j
  <2>1. ASSUME NEW m \in 1 .. n - 1 PROVE ProbeSlot(k, m, c) # j
    BY <1>15, <2>1 DEF StopsAt, k
  <2> QED
    BY <1>6, <1>16, <2>1
<1>18. <<k, n>> \in Ahead(t, c)
  <2>1. k \in {e.key : e \in Content(t, c)}
    BY <1>4 DEF Content, k
  <2>2. t[j].key = k
    BY DEF k
  <2> QED
    BY <1>4, <1>16, <1>17, <2>1, <2>2 DEF Ahead
<1>19. <<k, n>> \notin Ahead(u, c)
  <2> SUFFICES ASSUME <<k, n>> \in Ahead(u, c) PROVE FALSE
    OBVIOUS
  <2>1. PICK m \in Used(u, c) : u[m].key = k /\ \A p \in 1 .. n : ProbeSlot(k, p, c) # m
    BY DEF Ahead
  <2>2. m # to
    BY <1>16, <2>1
  <2>3. u[to].key = k /\ to \in Used(u, c)
    BY <1>7, <1>10 DEF k
  <2> QED
    BY <1>12, <2>1, <2>2, <2>3 DEF Distinct
<1>20. ASSUME NEW kn \in Ahead(u, c) PROVE kn \in Ahead(t, c)
  <2>1. /\ kn \in {e.key : e \in Content(u, c)} \X (1 .. MaxProbes)
        /\ kn[2] \in 1 .. MaxProbes
    BY DEF Ahead
  <2>2. PICK m \in Used(u, c) :
           u[m].key = kn[1] /\ \A p \in 1 .. kn[2] : ProbeSlot(kn[1], p, c) # m
    BY DEF Ahead
  <2>3. \E m1 \in Used(t, c) :
           t[m1].key = kn[1] /\ \A p \in 1 .. kn[2] : ProbeSlot(kn[1], p, c) # m1
    <3>1. CASE m = to
      <4>1. kn[1] = k
        BY <1>7, <2>2, <3>1 DEF k
      <4>2. ~(n <= kn[2])
        BY <1>16, <2>1, <2>2, <3>1, <4>1
      <4>3. \A p \in 1 .. kn[2] : p \in 1 .. n
        BY <1>16, <2>1, <4>2, MaxProbesType
      <4> QED
        BY <1>4, <1>17, <4>1, <4>3 DEF k
    <3>2. CASE m # to
      <4>1. m \in Used(t, c) \ {j} /\ u[m] = t[m]
        BY <1>10, <1>11, <3>2
      <4> QED
        BY <2>2, <4>1
    <3> QED
      BY <3>1, <3>2
  <2> QED
    BY <1>13, <2>1, <2>3 DEF Ahead
<1>21. Cardinality(Ahead(u, c)) < Cardinality(Ahead(t, c))
  <2>1. /\ IsFiniteSet(Ahead(t, c)) /\ Cardinality(Ahead(t, c)) \in Nat
        /\ Cardinality(Ahead(u, c)) \in Nat
    BY <1>1, AheadFinite
  <2>2. Ahead(u, c) \in SUBSET Ahead(t, c) /\ Ahead(u, c) # Ahead(t, c)
    BY <1>18, <1>19, <1>20
  <2>3. /\ Cardinality(Ahead(u, c)) <= Cardinality(Ahead(t, c))
        /\ Cardinality(Ahead(u, c)) # Cardinality(Ahead(t, c))
    BY <2>1, <2>2, FS_Subset
  <2> QED
    BY <2>1, <2>3
<1> QED
  BY <1>8, <1>9, <1>12, <1>13, <1>14, <1>21 DEF Loose, u

\* The tables that the loop of rehash goes through, from t on.
MovedSoFar(f, t, c, m) ==
    f = [n \in 0 .. m |-> IF n = 0 THEN t ELSE rehash_pass(f[n - 1], c)]

\* There are some, as far as one counts.
LEMMA MovedExists ==
    ASSUME NEW t, NEW c, NEW last \in Nat
    PROVE  \E f : MovedSoFar(f, t, c, last)
<1> DEFINE T == {m \in 0 .. last : \E f : MovedSoFar(f, t, c, m)}
<1>1. 0 \in T
  <2> DEFINE f0 == [n \in 0 .. 0 |-> t]
  <2>1. MovedSoFar(f0, t, c, 0)
    BY DEF MovedSoFar
  <2> QED
    BY <2>1
<1>2. ASSUME NEW m \in 1 .. last, m - 1 \in T PROVE m \in T
  <2>1. PICK f : MovedSoFar(f, t, c, m - 1)
    BY <1>2
  <2> DEFINE g == [n \in 0 .. m |-> IF n = m THEN rehash_pass(f[m - 1], c) ELSE f[n]]
             h == [n \in 0 .. m |-> IF n = 0 THEN t ELSE rehash_pass(g[n - 1], c)]
  <2>2. \A n \in 0 .. m - 1 : f[n] = IF n = 0 THEN t ELSE rehash_pass(f[n - 1], c)
    BY <2>1 DEF MovedSoFar
  <2>3. ASSUME NEW n \in 0 .. m PROVE g[n] = h[n]
    <3>1. n = 0 \/ g[n - 1] = f[n - 1]
      OBVIOUS
    <3>2. n = m \/ n \in 0 .. m - 1
      OBVIOUS
    <3> QED
      BY <2>2, <3>1, <3>2
  <2>4. g = h
    BY <2>3
  <2>5. MovedSoFar(g, t, c, m)
    BY <2>4 DEF MovedSoFar
  <2> QED
    BY <2>5
<1> HIDE DEF T
<1>3. last \in T
  BY <1>1, <1>2, UpTo
<1> QED
  BY <1>3 DEF T

\* The loop of rehash, which restarts after every move, ends: after at most one move for
\* each slot and probe nothing is lost, and what was in the table is there, once.
THEOREM Rehashes ==
    ASSUME ProbeVisitsAll, Hashed, NEW t, NEW c, Loose(t, c)
    PROVE  /\ Sound(rehash(t, c), c)
           /\ Content(rehash(t, c), c) = Content(t, c)
           /\ Cardinality(Used(rehash(t, c), c)) = Cardinality(Used(t, c))
<1> DEFINE last == c * MaxProbes
           f == CHOOSE f : MovedSoFar(f, t, c, last)
<1>1. c \in Nat /\ last \in Nat
  BY CapacitiesAssumption, MaxProbesType DEF Loose, Table
<1>2. rehash(t, c) = f[CHOOSE n \in 0 .. last : Lost(f[n], c) = {}]
  BY DEF rehash, MovedSoFar
<1>3. MovedSoFar(f, t, c, last)
  <2> HIDE DEF last
  <2> QED
    BY <1>1, MovedExists
<1>4. Cardinality(Ahead(t, c)) \in Nat /\ Cardinality(Ahead(t, c)) <= last
  BY <1>1, AheadFinite
<1> HIDE DEF f, last
<1>5. f[0] = t /\ \A n \in 1 .. last : f[n] = rehash_pass(f[n - 1], c)
  BY <1>1, <1>3 DEF MovedSoFar
<1> DEFINE Same(n) == /\ Loose(f[n], c)
                      /\ Content(f[n], c) = Content(t, c)
                      /\ Cardinality(Used(f[n], c)) = Cardinality(Used(t, c))
           Near(n) == Lost(f[n], c) = {} \/ Cardinality(Ahead(f[n], c)) + n <= last
           T == {n \in 0 .. last : Same(n) /\ Near(n)}
<1>6. 0 \in T
  BY <1>1, <1>4, <1>5
<1>7. ASSUME NEW n \in 1 .. last, n - 1 \in T PROVE n \in T
  <2> DEFINE u == f[n - 1]
  <2>1. Same(n - 1) /\ Near(n - 1)
    BY <1>7
  <2>2. f[n] = IF Lost(u, c) = {} THEN u ELSE Repair(u, c)
    BY <1>5 DEF rehash_pass
  <2>3. CASE Lost(u, c) = {}
    BY <1>1, <2>1, <2>2, <2>3
  <2>4. CASE Lost(u, c) # {}
    <3>1. Loose(u, c)
      BY <2>1
    <3>2. Near(n - 1) /\ Lost(f[n - 1], c) # {}
      BY <2>1, <2>4
    <3>3. Cardinality(Ahead(u, c)) + (n - 1) <= last
      BY <3>2
    <3> HIDE DEF u
    <3>4. /\ Loose(Repair(u, c), c) /\ Content(Repair(u, c), c) = Content(u, c)
          /\ Cardinality(Used(Repair(u, c), c)) = Cardinality(Used(u, c))
          /\ Cardinality(Ahead(Repair(u, c), c)) < Cardinality(Ahead(u, c))
      BY <2>4, <3>1, Repairs
    <3>5. Cardinality(Ahead(u, c)) \in Nat /\ Cardinality(Ahead(Repair(u, c), c)) \in Nat
      BY <1>1, AheadFinite
    <3>6. f[n] = Repair(u, c)
      BY <2>2, <2>4
    <3>7. Near(n)
      BY <1>1, <3>3, <3>4, <3>5, <3>6
    <3>8. Same(n)
      BY <2>1, <3>4, <3>6 DEF u
    <3> QED
      BY <3>7, <3>8
  <2> QED
    BY <2>3, <2>4
<1>8. \A n \in 0 .. last : n \in T
  <2> HIDE DEF T
  <2> QED
    BY <1>1, <1>6, <1>7, UpTo
<1>9. Lost(f[last], c) = {}
  <2> SUFFICES ASSUME Lost(f[last], c) # {} PROVE FALSE
    OBVIOUS
  <2>1. Same(last) /\ Near(last)
    BY <1>1, <1>8
  <2>2. Loose(f[last], c) /\ Cardinality(Ahead(f[last], c)) + last <= last
    BY <2>1
  <2>3. Cardinality(Ahead(Repair(f[last], c), c)) < Cardinality(Ahead(f[last], c))
    BY <2>2, Repairs
  <2>4. /\ Cardinality(Ahead(f[last], c)) \in Nat
        /\ Cardinality(Ahead(Repair(f[last], c), c)) \in Nat
    BY <1>1, AheadFinite
  <2> QED
    BY <1>1, <2>2, <2>3, <2>4
<1> DEFINE stop == CHOOSE n \in 0 .. last : Lost(f[n], c) = {}
<1>10. stop \in 0 .. last /\ Lost(f[stop], c) = {}
  BY <1>1, <1>9
<1>11. Same(stop)
  BY <1>8, <1>10
<1> HIDE DEF stop
<1>12. rehash(t, c) = f[stop]
  BY <1>2 DEF stop
<1> QED
  BY <1>10, <1>11, <1>12 DEF Loose, Sound, Found

------------------------------------------------------------------------------
\* A value that is replaced, an entry that is removed

Updated(t, j, value) == [t EXCEPT ![j].value = value]
Removed(t, j) == [t EXCEPT ![j] = Empty]

\* A value that is replaced leaves every key where it is.
LEMMA Updates ==
    ASSUME ProbeVisitsAll, Hashed, NEW t, NEW c, Sound(t, c), NEW j \in Used(t, c),
           NEW value \in Values
    PROVE  LET u == Updated(t, j, value)
           IN  /\ Sound(u, c) /\ Used(u, c) = Used(t, c)
               /\ Content(u, c) = {e \in Content(t, c) : e.key # t[j].key}
                                      \cup {[key |-> t[j].key, value |-> value]}
<1> DEFINE u == Updated(t, j, value)
           entry == [key |-> t[j].key, value |-> value]
<1>1. Table(t, c) /\ Room(t, c) /\ Distinct(t, c) /\ Found(t, c) /\ c \in Capacities /\ c \in Nat
  BY CapacitiesAssumption DEF Sound, Table
<1>2. j \in 0 .. c - 1 /\ t[j] \in Entries /\ t[j].key \in Keys
  BY <1>1 DEF Used, Table, Entries
<1>3. [t[j] EXCEPT !.value = value] = entry
  BY <1>2 DEF Entries
<1>4. u = [t EXCEPT ![j] = entry]
  BY <1>3 DEF Updated
<1>5. entry \in Entries /\ entry.key = t[j].key
  BY <1>2 DEF Entries
<1> HIDE DEF u, entry
<1>6. /\ u[j] = entry /\ DOMAIN u = 0 .. c - 1
      /\ \A m \in 0 .. c - 1 : m # j => u[m] = t[m]
  BY <1>1, <1>2, <1>4 DEF Table
<1>7. Table(u, c)
  BY <1>1, <1>4, <1>5 DEF Table
<1>8. \A m \in 0 .. c - 1 : u[m].key = t[m].key
  BY <1>5, <1>6
<1>9. Used(u, c) = Used(t, c)
  BY <1>8 DEF Used
<1>10. Room(u, c) /\ Distinct(u, c)
  BY <1>1, <1>8, <1>9 DEF Room, Distinct, Used
<1>11. ASSUME NEW key \in Keys PROVE index_of(u, c, key) = index_of(t, c, key)
  <2>1. \A n \in 1 .. MaxProbes : ProbeSlot(key, n, c) \in 0 .. c - 1
    BY <1>1, ProbeSlots
  <2>2. Stops(u, c, key) = Stops(t, c, key)
    BY <1>8, <2>1 DEF Stops
  <2>3. Stops(t, c, key) # {} /\ Stops(t, c, key) \in SUBSET Nat
    BY <1>1, SearchStops DEF Stops
  <2>4. Min(Stops(t, c, key)) \in Stops(t, c, key)
    BY <2>3, MinLeast
  <2>5. Min(Stops(t, c, key)) \in 1 .. MaxProbes
    BY <2>4 DEF Stops
  <2>6. ProbeSlot(key, Min(Stops(t, c, key)), c) \in 0 .. c - 1
    BY <2>1, <2>5
  <2>7. u[ProbeSlot(key, Min(Stops(t, c, key)), c)].key
           = t[ProbeSlot(key, Min(Stops(t, c, key)), c)].key
    BY <1>8, <2>6
  <2> QED
    BY <2>2, <2>7, Zenon DEF index_of
<1>12. Found(u, c)
  <2>1. ASSUME NEW m \in Used(u, c) PROVE ~(index_of(u, c, u[m].key) < 0)
    <3>1. m \in 0 .. c - 1 /\ m \in Used(t, c) /\ u[m].key = t[m].key
      BY <1>8, <1>9 DEF Used
    <3>2. t[m].key \in Keys /\ index_of(t, c, t[m].key) = m
      BY <3>1, IndexFound
    <3> QED
      BY <1>11, <3>1, <3>2
  <2> QED
    BY <2>1 DEF Found, Lost, Used
<1>13. Content(u, c) = {e \in Content(t, c) : e.key # t[j].key} \cup {entry}
  <2>1. ASSUME NEW e \in Content(u, c)
        PROVE  e \in {x \in Content(t, c) : x.key # t[j].key} \cup {entry}
    <3>1. PICK m \in Used(t, c) : e = u[m]
      BY <1>9 DEF Content
    <3>2. CASE m = j
      BY <1>6, <3>1, <3>2
    <3>3. CASE m # j
      <4>1. e = t[m]
        BY <1>6, <3>1, <3>3 DEF Used
      <4>2. t[m].key # t[j].key
        BY <1>1, <3>3 DEF Distinct
      <4> QED
        BY <4>1, <4>2 DEF Content
    <3> QED
      BY <3>2, <3>3
  <2>2. entry \in Content(u, c)
    BY <1>6, <1>9 DEF Content
  <2>3. ASSUME NEW e \in Content(t, c), e.key # t[j].key PROVE e \in Content(u, c)
    <3>1. PICK m \in Used(t, c) : e = t[m]
      BY DEF Content
    <3>2. m # j /\ m \in 0 .. c - 1
      BY <2>3, <3>1 DEF Used
    <3>3. e = u[m] /\ m \in Used(u, c)
      BY <1>6, <1>9, <3>1, <3>2
    <3> QED
      BY <3>3 DEF Content
  <2> QED
    BY <2>1, <2>2, <2>3
<1> QED
  BY <1>7, <1>9, <1>10, <1>12, <1>13 DEF Sound, u, entry

\* An entry that is removed leaves a free slot, and the others.
LEMMA Removes ==
    ASSUME NEW t, NEW c, Sound(t, c), NEW j \in Used(t, c)
    PROVE  LET u == Removed(t, j)
           IN  /\ Loose(u, c)
               /\ Content(u, c) = {e \in Content(t, c) : e.key # t[j].key}
               /\ Cardinality(Used(u, c)) = Cardinality(Used(t, c)) - 1
<1> DEFINE u == Removed(t, j)
<1>1. Table(t, c) /\ Distinct(t, c) /\ c \in Capacities /\ c \in Nat
  BY CapacitiesAssumption DEF Sound, Table
<1>2. j \in 0 .. c - 1
  BY DEF Used
<1>3. u = [t EXCEPT ![j] = Empty]
  BY DEF Removed
<1> HIDE DEF u
<1>4. /\ u[j] = Empty /\ DOMAIN u = 0 .. c - 1
      /\ \A m \in 0 .. c - 1 : m # j => u[m] = t[m]
  BY <1>1, <1>2, <1>3 DEF Table
<1>5. Table(u, c) /\ Room(u, c)
  BY <1>1, <1>2, <1>3, <1>4 DEF Table, Room, Empty, Entries
<1>6. Used(u, c) = Used(t, c) \ {j}
  BY <1>2, <1>4 DEF Used, Empty
<1>7. \A m \in Used(t, c) \ {j} : u[m] = t[m]
  BY <1>4 DEF Used
<1>8. Distinct(u, c)
  BY <1>1, <1>6, <1>7 DEF Distinct
<1>9. Cardinality(Used(u, c)) = Cardinality(Used(t, c)) - 1
  <2>1. IsFiniteSet(Used(t, c))
    BY <1>1, UsedFinite
  <2> QED
    BY <1>6, <2>1, FS_RemoveElement
<1>10. ASSUME NEW e \in Content(u, c) PROVE e \in Content(t, c) /\ e.key # t[j].key
  <2>1. PICK m \in Used(t, c) \ {j} : e = u[m]
    BY <1>6 DEF Content
  <2> QED
    BY <1>1, <1>7, <2>1 DEF Content, Distinct
<1>11. ASSUME NEW e \in Content(t, c), e.key # t[j].key PROVE e \in Content(u, c)
  <2>1. PICK m \in Used(t, c) : e = t[m]
    BY DEF Content
  <2>2. m \in Used(t, c) \ {j}
    BY <1>11, <2>1
  <2> QED
    BY <1>6, <1>7, <2>1, <2>2 DEF Content
<1> QED
  BY <1>5, <1>8, <1>9, <1>10, <1>11 DEF Loose, u

------------------------------------------------------------------------------
\* The table of the program

\* The table has no slots, or it is sound and counts its entries.
Counted(t, c, n) ==
    \/ c = 0 /\ n = 0 /\ t = EmptyTable(0)
    \/ Sound(t, c) /\ n = Cardinality(Used(t, c)) /\ n < c

TableInv == Hashed /\ Counted(entries, capacity, count)

\* The entry of a key among some, and its value.
Of(C, key) == {e \in C : e.key = key}
Value(C, key) == IF Of(C, key) = {} THEN NULL ELSE (CHOOSE e \in Of(C, key) : TRUE).value
Now == Content(entries, capacity)

\* A table without slots has no entries.
LEMMA NoSlots == Used(EmptyTable(0), 0) = {} /\ Content(EmptyTable(0), 0) = {}
BY DEF Used, Content

\* The entry at the slot of a key is the only one of the key.
LEMMA OneOf ==
    ASSUME NEW t, NEW c, Distinct(t, c), NEW j \in Used(t, c)
    PROVE  /\ Of(Content(t, c), t[j].key) = {t[j]}
           /\ Value(Content(t, c), t[j].key) = t[j].value
<1>1. Of(Content(t, c), t[j].key) = {t[j]}
  <2>1. t[j] \in Of(Content(t, c), t[j].key)
    BY DEF Of, Content
  <2>2. ASSUME NEW e \in Of(Content(t, c), t[j].key) PROVE e = t[j]
    <3>1. PICK m \in Used(t, c) : e = t[m]
      BY DEF Of, Content
    <3>2. m = j
      BY <3>1 DEF Of, Distinct
    <3> QED
      BY <3>1, <3>2
  <2> QED
    BY <2>1, <2>2
<1>2. (CHOOSE e \in {t[j]} : TRUE) = t[j]
  OBVIOUS
<1> QED
  BY <1>1, <1>2 DEF Value

\* What a search in a sound table finds.
LEMMA SearchFinds ==
    ASSUME ProbeVisitsAll, Hashed, NEW t, NEW c, Sound(t, c), NEW key \in Keys
    PROVE  \/ /\ ~(index_of(t, c, key) < 0) /\ index_of(t, c, key) \in Used(t, c)
              /\ t[index_of(t, c, key)].key = key
              /\ t[index_of(t, c, key)].value = Value(Content(t, c), key)
           \/ /\ index_of(t, c, key) < 0 /\ ~(index_of(t, c, key) >= 0)
              /\ \A j \in Used(t, c) : t[j].key # key
              /\ Value(Content(t, c), key) = NULL
<1>1. Table(t, c) /\ Room(t, c) /\ Distinct(t, c) /\ c \in Nat /\ NULL \notin Keys
  BY CapacitiesAssumption, HashAssumption DEF Sound, Table
<1>2. CASE \E j \in Used(t, c) : t[j].key = key
  <2>1. PICK j \in Used(t, c) : t[j].key = key
    BY <1>2
  <2>2. index_of(t, c, key) = j
    BY <2>1, IndexFound
  <2>3. t[j].value = Value(Content(t, c), key)
    BY <1>1, <2>1, OneOf
  <2>4. ~(j < 0)
    BY <1>1 DEF Used
  <2> QED
    BY <2>1, <2>2, <2>3, <2>4
<1>3. CASE \A j \in Used(t, c) : t[j].key # key
  <2>1. Of(Content(t, c), key) = {}
    BY <1>3 DEF Of, Content
  <2>2. index_of(t, c, key) < 0 /\ index_of(t, c, key) \in Int
    BY <1>1, <1>3, IndexFree
  <2>3. ~(index_of(t, c, key) >= 0)
    BY <2>2
  <2> QED
    BY <1>3, <2>1, <2>2, <2>3 DEF Value
<1> QED
  BY <1>2, <1>3

\* get returns the value of the entry of the key.
LEMMA GetIs ==
    ASSUME ProbeVisitsAll, TableInv, NEW key \in Keys
    PROVE  get(key) = Value(Now, key)
<1>1. CASE capacity = 0 /\ count = 0 /\ entries = EmptyTable(0)
  BY <1>1, NoSlots DEF get, Value, Of, Now
<1>2. CASE /\ Sound(entries, capacity) /\ count = Cardinality(Used(entries, capacity))
           /\ count < capacity
  <2>1. CASE count = 0
    <3>1. Used(entries, capacity) = {}
      <4>1. capacity \in Nat
        BY <1>2, CapacitiesAssumption DEF Sound, Table
      <4>2. IsFiniteSet(Used(entries, capacity))
        BY <4>1, UsedFinite
      <4> QED
        BY <1>2, <2>1, <4>2, FS_EmptySet
    <3> QED
      BY <2>1, <3>1 DEF get, Value, Of, Now, Content
  <2>2. CASE count # 0
    BY <1>2, <2>2, SearchFinds DEF TableInv, get, Now
  <2> QED
    BY <2>1, <2>2
<1> QED
  BY <1>1, <1>2 DEF TableInv, Counted

\* With the entry of a key replaced the others have the values they had.
LEMMA Replaced ==
    ASSUME NEW C, NEW D, NEW entry, D = {e \in C : e.key # entry.key} \cup {entry}, NEW key
    PROVE  Value(D, key) = IF key = entry.key THEN entry.value ELSE Value(C, key)
<1>1. CASE key = entry.key
  <2>1. Of(D, key) = {entry}
    BY <1>1 DEF Of
  <2>2. (CHOOSE e \in {entry} : TRUE) = entry
    OBVIOUS
  <2> QED
    BY <1>1, <2>1, <2>2 DEF Value
<1>2. CASE key # entry.key
  <2>1. Of(D, key) = Of(C, key)
    BY <1>2 DEF Of
  <2> QED
    BY <1>2, <2>1 DEF Value
<1> QED
  BY <1>1, <1>2

\* And with it removed.
Without(C, key) == {e \in C : e.key # key}

LEMMA Dropped ==
    ASSUME NEW C, NEW gone, NEW key
    PROVE  Value(Without(C, gone), key) = IF key = gone THEN NULL ELSE Value(C, key)
<1>1. CASE key = gone
  <2>1. Of(Without(C, gone), key) = {}
    BY <1>1 DEF Of, Without
  <2> QED
    BY <1>1, <2>1 DEF Value
<1>2. CASE key # gone
  <2>1. Of(Without(C, gone), key) = Of(C, key)
    BY <1>2 DEF Of, Without
  <2> QED
    BY <1>2, <2>1 DEF Value
<1> QED
  BY <1>1, <1>2

------------------------------------------------------------------------------
\* What the operations do

\* The contents after a step are those of the table after it.
LEMMA ContentAfter == Now' = Content(entries', capacity')
BY DEF Now, Content, Used

\* So is the invariant: no step changes the hash function.
LEMMA TableInvAfter ==
    ASSUME TableInv, hashed' = hashed, Counted(entries', capacity', count')
    PROVE  TableInv'
<1>1. Used(entries, capacity)' = Used(entries', capacity')
  BY DEF Used
<1>2. Lost(entries, capacity)' = Lost(entries', capacity')
  BY DEF Lost, index_of, Stops, ProbeSlot, Min
<1>3. Sound(entries, capacity)' <=> Sound(entries', capacity')
  BY <1>1, <1>2 DEF Sound, Table, Distinct, Room, Found
<1>4. EmptyTable(0)' = EmptyTable(0)
  BY DEF EmptyTable, Empty
<1>5. Counted(entries, capacity, count)'
  BY <1>1, <1>3, <1>4 DEF Counted
<1> QED
  BY <1>5 DEF TableInv, Hashed

\* The first table has four slots.
LEMMA FirstTable == grow(entries, 0) = EmptyTable(4) /\ Grown(0) = 4
BY DEF grow, Grown

\* set replaces the entry of the key and returns the value it had.
LEMMA SetStep ==
    ASSUME ProbeVisitsAll, TableInv, NEW key \in Keys, NEW value \in Values, set(key, value)
    PROVE  /\ TableInv'
           /\ Now' = {e \in Now : e.key # key} \cup {[key |-> key, value |-> value]}
           /\ result' = Value(Now, key)
<1> DEFINE c0 == IF capacity = 0 THEN Grown(0) ELSE capacity
           t0 == IF capacity = 0 THEN grow(entries, 0) ELSE entries
           found == index_of(t0, c0, key)
           full == count * 3 >= c0 * 2
           c1 == IF full THEN Grown(c0) ELSE c0
           t1 == IF full THEN grow(t0, c0) ELSE t0
           free == -index_of(t1, c1, key) - 1
           entry == [key |-> key, value |-> value]
<1>1. /\ IF found >= 0
         THEN /\ entries' = [t0 EXCEPT ![found].value = value]
              /\ capacity' = c0
              /\ result' = t0[found].value
              /\ UNCHANGED count
         ELSE /\ c1 <= MaxCapacity
              /\ entries' = [t1 EXCEPT ![free] = entry]
              /\ capacity' = c1
              /\ count' = count + 1
              /\ result' = NULL
      /\ hashed' = hashed
  BY DEF set
<1>2. /\ Sound(t0, c0) /\ Content(t0, c0) = Now
      /\ count = Cardinality(Used(t0, c0)) /\ count < c0
  <2>1. CASE capacity = 0 /\ count = 0 /\ entries = EmptyTable(0)
    <3>1. t0 = EmptyTable(4) /\ c0 = 4
      BY <2>1, FirstTable
    <3>2. Sound(t0, c0) /\ Used(t0, c0) = {} /\ Content(t0, c0) = {}
      BY <3>1, EmptySound, CapacitiesAssumption
    <3>3. Now = {}
      BY <2>1, NoSlots DEF Now
    <3>4. Cardinality({}) = 0
      BY FS_EmptySet
    <3> HIDE DEF t0, c0
    <3> QED
      BY <2>1, <3>1, <3>2, <3>3, <3>4
  <2>2. CASE /\ Sound(entries, capacity) /\ count = Cardinality(Used(entries, capacity))
             /\ count < capacity
    <3>1. capacity # 0
      BY <2>2, CapacitiesAssumption DEF Sound, Table
    <3>2. t0 = entries /\ c0 = capacity
      BY <3>1
    <3> HIDE DEF t0, c0
    <3> QED
      BY <2>2, <3>2 DEF Now
  <2> HIDE DEF t0, c0
  <2> QED
    BY <2>1, <2>2 DEF TableInv, Counted
<1> HIDE DEF t0, c0
<1>3. /\ Table(t0, c0) /\ Distinct(t0, c0) /\ Room(t0, c0) /\ c0 \in Capacities
      /\ c0 \in Nat /\ c0 >= 4 /\ count \in Nat
  <2>1. Table(t0, c0) /\ Distinct(t0, c0) /\ Room(t0, c0) /\ c0 \in Capacities
    BY <1>2 DEF Sound, Table
  <2> QED
    BY <1>2, <2>1, UsedFinite, CapacitiesAssumption
<1>4. Hashed /\ Hashed'
  BY <1>1 DEF TableInv, Hashed
<1>5. /\ ~(found < 0) /\ found \in Used(t0, c0) /\ t0[found].key = key
         /\ t0[found].value = Value(Now, key)
      \/ /\ found < 0 /\ ~(found >= 0)
         /\ \A j \in Used(t0, c0) : t0[j].key # key
         /\ Value(Now, key) = NULL
  BY <1>2, <1>4, SearchFinds
<1> HIDE DEF found, free
<1>6. CASE found \in Used(t0, c0) /\ t0[found].key = key /\ t0[found].value = Value(Now, key)
  <2>1. found >= 0
    BY <1>3, <1>6 DEF Used
  <2>2. /\ entries' = Updated(t0, found, value) /\ capacity' = c0 /\ count' = count
        /\ result' = Value(Now, key)
    BY <1>1, <1>6, <2>1 DEF Updated
  <2>3. /\ Sound(Updated(t0, found, value), c0)
        /\ Used(Updated(t0, found, value), c0) = Used(t0, c0)
        /\ Content(Updated(t0, found, value), c0) = {e \in Content(t0, c0) : e.key # key}
                                                       \cup {entry}
    BY <1>2, <1>4, <1>6, Updates
  <2>4. Counted(entries', capacity', count')
    BY <1>2, <2>2, <2>3 DEF Counted
  <2>5. Content(entries', capacity') = {e \in Now : e.key # key} \cup {entry}
    BY <1>2, <2>2, <2>3
  <2> QED
    BY <1>1, <2>2, <2>4, <2>5, TableInvAfter, ContentAfter
<1>7. CASE ~(found >= 0) /\ (\A j \in Used(t0, c0) : t0[j].key # key) /\ Value(Now, key) = NULL
  <2>1. /\ c1 <= MaxCapacity /\ entries' = [t1 EXCEPT ![free] = entry] /\ capacity' = c1
        /\ count' = count + 1 /\ result' = NULL
    BY <1>1, <1>7
  <2>2. /\ Sound(t1, c1) /\ Content(t1, c1) = Now
        /\ count = Cardinality(Used(t1, c1)) /\ count + 1 < c1
    <3>1. CASE full
      <4>1. t1 = grow(t0, c0) /\ c1 = Grown(c0)
        BY <3>1
      <4>2. c1 = 2 * c0
        BY <1>3, <4>1 DEF Grown
      <4>3. 2 * c0 \in Capacities
        BY <1>3, <2>1, <4>2, CapacitiesAssumption
      <4>4. /\ Sound(grow(t0, c0), 2 * c0)
            /\ Content(grow(t0, c0), 2 * c0) = Content(t0, c0)
            /\ Cardinality(Used(grow(t0, c0), 2 * c0)) = Cardinality(Used(t0, c0))
        BY <1>3, <1>4, <4>3, Grows
      <4>5. count + 1 < 2 * c0
        BY <1>2, <1>3
      <4> HIDE DEF t1, c1
      <4> QED
        BY <1>2, <4>1, <4>2, <4>4, <4>5
    <3>2. CASE ~full
      <4>1. t1 = t0 /\ c1 = c0
        BY <3>2
      <4>2. count + 1 < c0
        BY <1>3, <3>2
      <4> HIDE DEF t1, c1
      <4> QED
        BY <1>2, <4>1, <4>2
    <3> QED
      BY <3>1, <3>2
  <2> HIDE DEF t1, c1
  <2>3. \A j \in Used(t1, c1) : t1[j].key # entry.key
    <3>1. ASSUME NEW j \in Used(t1, c1) PROVE t1[j].key # key
      <4>1. t1[j] \in Content(t0, c0)
        BY <1>2, <2>2 DEF Content
      <4> QED
        BY <1>7, <4>1 DEF Content
    <3> QED
      BY <3>1
  <2>4. entry \in Entries /\ entry.key = key /\ entry.key \in Keys
    BY DEF Entries
  <2>5. entries' = Place(t1, c1, entry)
    BY <2>1, <2>4, HashAssumption DEF Place, free
  <2>6. /\ Table(entries', c1) /\ Distinct(entries', c1) /\ Found(entries', c1)
        /\ Content(entries', c1) = Content(t1, c1) \cup {entry}
        /\ Cardinality(Used(entries', c1)) = Cardinality(Used(t1, c1)) + 1
    <3> HIDE DEF entry
    <3> QED
      BY <1>4, <2>2, <2>3, <2>4, <2>5, Insert
  <2>7. c1 \in Nat
    BY <2>2, CapacitiesAssumption DEF Sound, Table
  <2>8. Room(entries', c1)
    BY <2>2, <2>6, <2>7, UsedFinite
  <2>9. Counted(entries', capacity', count')
    BY <2>1, <2>2, <2>6, <2>8 DEF Counted, Sound
  <2>10. {e \in Now : e.key # key} = Now
    <3>1. \A e \in Now : e.key # key
      BY <2>2, <2>3, <2>4 DEF Content
    <3> QED
      BY <3>1
  <2>11. Content(entries', capacity') = {e \in Now : e.key # key} \cup {entry}
    BY <2>1, <2>2, <2>6, <2>10
  <2> QED
    BY <1>1, <1>7, <2>1, <2>9, <2>11, TableInvAfter, ContentAfter
<1> QED
  BY <1>5, <1>6, <1>7

\* del removes the entry of the key and returns the value it had.
LEMMA DelStep ==
    ASSUME ProbeVisitsAll, TableInv, NEW key \in Keys, del(key)
    PROVE  /\ TableInv'
           /\ Now' = {e \in Now : e.key # key}
           /\ result' = Value(Now, key)
<1> DEFINE found == index_of(entries, capacity, key)
           u == Removed(entries, found)
<1>0. Hashed /\ Hashed' /\ hashed' = hashed
  BY DEF TableInv, Hashed, del
<1>1. CASE count = 0
  <2>1. Used(entries, capacity) = {}
    <3>1. CASE capacity = 0 /\ count = 0 /\ entries = EmptyTable(0)
      BY <3>1, NoSlots
    <3>2. CASE Sound(entries, capacity) /\ count = Cardinality(Used(entries, capacity))
      <4>1. capacity \in Nat
        BY <3>2, CapacitiesAssumption DEF Sound, Table
      <4>2. IsFiniteSet(Used(entries, capacity))
        BY <4>1, UsedFinite
      <4> QED
        BY <1>1, <3>2, <4>2, FS_EmptySet
    <3> QED
      BY <3>1, <3>2 DEF TableInv, Counted
  <2>2. Now = {} /\ Value(Now, key) = NULL
    BY <2>1 DEF Now, Content, Value, Of
  <2>3. result' = NULL /\ entries' = entries /\ capacity' = capacity /\ count' = count
    BY <1>1 DEF del, tableVars
  <2> QED
    BY <1>0, <2>2, <2>3, TableInvAfter, ContentAfter DEF TableInv, Now
<1>2. CASE count # 0
  <2>1. /\ Sound(entries, capacity) /\ count = Cardinality(Used(entries, capacity))
        /\ count < capacity
    BY <1>2 DEF TableInv, Counted
  <2>2. /\ ~(found < 0) /\ found \in Used(entries, capacity) /\ entries[found].key = key
           /\ entries[found].value = Value(Now, key)
        \/ /\ found < 0 /\ ~(found >= 0)
           /\ \A j \in Used(entries, capacity) : entries[j].key # key
           /\ Value(Now, key) = NULL
    BY <1>0, <2>1, SearchFinds DEF Now
  <2> HIDE DEF found
  <2>3. CASE found < 0 /\ (\A j \in Used(entries, capacity) : entries[j].key # key)
             /\ Value(Now, key) = NULL
    <3>1. result' = NULL /\ entries' = entries /\ capacity' = capacity /\ count' = count
      BY <2>3 DEF del, tableVars, found
    <3>2. Now = {e \in Now : e.key # key}
      BY <2>3 DEF Now, Content
    <3>3. TableInv'
      BY <1>0, <3>1, TableInvAfter DEF TableInv
    <3>4. Now' = Now
      BY <3>1, ContentAfter DEF Now
    <3> QED
      BY <2>3, <3>1, <3>2, <3>3, <3>4
  <2>4. CASE ~(found < 0) /\ found \in Used(entries, capacity) /\ entries[found].key = key
             /\ entries[found].value = Value(Now, key)
    <3>1. /\ result' = entries[found].value /\ entries' = rehash(u, capacity)
          /\ count' = count - 1 /\ capacity' = capacity
      BY <1>2, <2>4 DEF del, found, Removed
    <3>2. /\ Loose(u, capacity) /\ Content(u, capacity) = {e \in Now : e.key # key}
          /\ Cardinality(Used(u, capacity)) = Cardinality(Used(entries, capacity)) - 1
      BY <2>1, <2>4, Removes DEF Now
    <3> HIDE DEF u
    <3>3. /\ Sound(rehash(u, capacity), capacity)
          /\ Content(rehash(u, capacity), capacity) = Content(u, capacity)
          /\ Cardinality(Used(rehash(u, capacity), capacity)) = Cardinality(Used(u, capacity))
      BY <1>0, <3>2, Rehashes
    <3>4. capacity \in Nat /\ count \in Nat
      <4>1. capacity \in Nat
        BY <2>1, CapacitiesAssumption DEF Sound, Table
      <4> QED
        BY <2>1, <4>1, UsedFinite
    <3>5. Cardinality(Used(rehash(u, capacity), capacity)) = count - 1
      BY <2>1, <3>2, <3>3
    <3>6. count - 1 < capacity
      BY <2>1, <3>4
    <3>7. Counted(entries', capacity', count')
      BY <3>1, <3>3, <3>5, <3>6 DEF Counted
    <3>8. Content(entries', capacity') = {e \in Now : e.key # key}
      BY <3>1, <3>2, <3>3
    <3> QED
      BY <1>0, <2>4, <3>1, <3>7, <3>8, TableInvAfter, ContentAfter
  <2> QED
    BY <2>2, <2>3, <2>4
<1> QED
  BY <1>1, <1>2

\* clean leaves a table of the same capacity without entries.
LEMMA CleanStep ==
    ASSUME TableInv, clean_ends
    PROVE  TableInv' /\ Now' = {} /\ result' = result
<1>1. /\ entries' = EmptyTable(capacity) /\ capacity' = capacity /\ count' = 0
      /\ hashed' = hashed /\ result' = result
  BY DEF clean_ends
<1>2. CASE capacity = 0
  <2>1. Counted(entries', capacity', count') /\ Content(entries', capacity') = {}
    BY <1>1, <1>2, NoSlots DEF Counted
  <2> QED
    BY <1>1, <2>1, TableInvAfter, ContentAfter
<1>3. CASE capacity \in Capacities
  <2>1. /\ Sound(EmptyTable(capacity), capacity) /\ Used(EmptyTable(capacity), capacity) = {}
        /\ Content(EmptyTable(capacity), capacity) = {}
    BY <1>3, EmptySound
  <2>2. 0 < capacity
    BY <1>3, CapacitiesAssumption
  <2>3. Counted(entries', capacity', count') /\ Content(entries', capacity') = {}
    BY <1>1, <2>1, <2>2, FS_EmptySet DEF Counted
  <2> QED
    BY <1>1, <2>3, TableInvAfter, ContentAfter
<1> QED
  BY <1>2, <1>3 DEF TableInv, Counted, Sound, Table

\* The other steps leave the table alone.
LEMMA TableStep ==
    ASSUME ProbeVisitsAll, TableInv, [Next]_vars
    PROVE  /\ TableInv'
           /\ \/ \E key \in Keys, value \in Values :
                    /\ Now' = {e \in Now : e.key # key} \cup {[key |-> key, value |-> value]}
                    /\ result' = Value(Now, key)
              \/ \E key \in Keys : /\ Now' = {e \in Now : e.key # key}
                                   /\ result' = Value(Now, key)
              \/ Now' = {} /\ result' = result
              \/ Now' = Now /\ result' = result
<1>1. ASSUME NEW key \in Keys, NEW value \in Values, set(key, value)
      PROVE  /\ TableInv'
             /\ Now' = {e \in Now : e.key # key} \cup {[key |-> key, value |-> value]}
             /\ result' = Value(Now, key)
  BY <1>1, SetStep
<1>2. ASSUME NEW key \in Keys, del(key)
      PROVE  TableInv' /\ Now' = {e \in Now : e.key # key} /\ result' = Value(Now, key)
  BY <1>2, DelStep
<1>3. CASE clean_ends
  BY <1>3, CleanStep
<1>4. CASE UNCHANGED <<hashed, tableVars, result>>
  <2>1. hashed' = hashed /\ entries' = entries /\ capacity' = capacity /\ count' = count
    BY <1>4 DEF tableVars
  <2>2. Counted(entries', capacity', count') /\ Content(entries', capacity') = Now
    BY <2>1 DEF TableInv, Now
  <2> QED
    BY <1>4, <2>1, <2>2, TableInvAfter, ContentAfter
<1>5. ASSUME \/ Begin("iterate") \/ Begin("clean") \/ iterate_step
             \/ iterator_returns \/ iterate_ends \/ UNCHANGED vars
      PROVE  UNCHANGED <<hashed, tableVars, result>>
  BY <1>5 DEF Begin, iterate_step, iterator_returns, iterate_ends, vars, tableVars
<1> QED
  BY <1>1, <1>2, <1>3, <1>4, <1>5 DEF Next

------------------------------------------------------------------------------
\* The theorems

LEMMA TableInit == Init => TableInv
BY DEF Init, TableInv, Hashed, Counted

\* The variables keep their types.
LEMMA TypeStep ==
    ASSUME ProbeVisitsAll, TableInv, TableInv', TypeOK, [Next]_vars PROVE TypeOK'
<1>1. ASSUME Counted(entries, capacity, count), capacity # 0
      PROVE  /\ capacity \in Capacities /\ entries \in [0 .. capacity - 1 -> Entries]
             /\ capacity \in Nat
  BY <1>1, CapacitiesAssumption DEF Counted, Sound, Table
<1>2. /\ hashed' \in [Keys -> HashValues] /\ capacity' \in {0} \cup Capacities
      /\ entries' \in [0 .. capacity' - 1 -> Entries] /\ count' \in 0 .. capacity'
  <2>1. hashed' \in [Keys -> HashValues]
    BY DEF TableInv, Hashed
  <2>2. CASE capacity' = 0 /\ count' = 0 /\ entries' = EmptyTable(0)'
    BY <2>2 DEF EmptyTable, Empty, Entries, TableInv, Hashed
  <2>3. CASE /\ Sound(entries, capacity)' /\ count' = Cardinality(Used(entries, capacity))'
             /\ count' < capacity'
    <3>1. capacity' \in Capacities /\ entries' \in [0 .. capacity' - 1 -> Entries]
      BY <2>3 DEF Sound, Table
    <3>2. capacity' \in Nat
      BY <3>1, CapacitiesAssumption
    <3>3. Used(entries, capacity)' = Used(entries', capacity')
      BY DEF Used
    <3>4. count' = Cardinality(Used(entries', capacity'))
      BY <2>3, <3>3
    <3>5. count' \in Nat
      BY <3>2, <3>4, UsedFinite
    <3>6. count' \in 0 .. capacity'
      BY <2>3, <3>2, <3>5
    <3> QED
      BY <2>1, <3>1, <3>6
  <2> QED
    BY <2>2, <2>3 DEF TableInv, Counted
<1>3. result' \in Values \cup {NULL}
  <2>1. \/ \E key \in Keys : result' = Value(Now, key)
        \/ result' = result
    BY TableStep
  <2>2. ASSUME NEW key \in Keys PROVE Value(Now, key) \in Values \cup {NULL}
    <3>1. CASE Of(Now, key) = {}
      BY <3>1 DEF Value
    <3>2. CASE Of(Now, key) # {}
      <4>1. (CHOOSE e \in Of(Now, key) : TRUE) \in Now
        BY <3>2 DEF Of
      <4>2. Now \subseteq Entries
        BY DEF Now, Content, Used, TypeOK
      <4> QED
        BY <3>2, <4>1, <4>2 DEF Value, Entries
    <3> QED
      BY <3>1, <3>2
  <2> QED
    BY <2>1, <2>2 DEF TypeOK
<1>4. /\ pc' \in {"idle", "iterate", "clean", "iterator", "overrun"}
      /\ i' \in Nat /\ index' \in Nat /\ calls' \in Seq(Keys)
  <2>1. CASE UNCHANGED loopVars
    BY <2>1 DEF TypeOK, loopVars
  <2>2. ASSUME NEW label \in {"iterate", "clean"}, Begin(label)
        PROVE  /\ pc' \in {"idle", "iterate", "clean", "iterator", "overrun"}
               /\ i' \in Nat /\ index' \in Nat /\ calls' \in Seq(Keys)
    BY <2>2 DEF Begin
  <2>3. CASE iterate_step
    <3>1. CASE i >= capacity
      BY <2>3, <3>1 DEF iterate_step, TypeOK
    <3>2. CASE ~(i >= capacity)
      <4>1. i \in 0 .. capacity - 1 /\ entries[i] \in Entries
        BY <3>2, CapacitiesAssumption DEF TypeOK
      <4>2. CASE entries[i].key = NULL
        BY <2>3, <3>2, <4>2 DEF iterate_step, TypeOK
      <4>3. CASE entries[i].key # NULL
        <5>1. entries[i].key \in Keys
          BY <4>1, <4>3 DEF Entries
        <5>2. /\ i' = i + 1 /\ calls' = Append(calls, entries[i].key) /\ index' = index + 1
              /\ pc' = IF pc = "iterate" THEN "iterator" ELSE pc
          BY <2>3, <3>2, <4>3, Zenon DEF iterate_step
        <5> QED
          BY <5>1, <5>2 DEF TypeOK
      <4> QED
        BY <4>2, <4>3
    <3> QED
      BY <3>1, <3>2
  <2>4. CASE iterator_returns
    BY <2>4 DEF iterator_returns, TypeOK
  <2>5. ASSUME iterate_ends \/ clean_ends
        PROVE  /\ pc' \in {"idle", "iterate", "clean", "iterator", "overrun"}
               /\ i' \in Nat /\ index' \in Nat /\ calls' \in Seq(Keys)
    <3>1. pc' = "idle" /\ i' = 0 /\ index' = 0 /\ calls' = <<>>
      BY <2>5, Zenon DEF iterate_ends, clean_ends
    <3> QED
      BY <3>1
  <2>6. ASSUME \/ \E key \in Keys, value \in Values : set(key, value)
               \/ \E key \in Keys : del(key)
               \/ UNCHANGED vars
        PROVE  UNCHANGED loopVars
    BY <2>6 DEF set, del, vars, loopVars
  <2> QED
    BY <2>1, <2>2, <2>3, <2>4, <2>5, <2>6 DEF Next
<1> QED
  BY <1>2, <1>3, <1>4 DEF TypeOK

LEMMA TypeInit == Init => TypeOK
<1> SUFFICES ASSUME Init PROVE TypeOK
  OBVIOUS
<1>1. EmptyTable(0) \in [0 .. 0 - 1 -> Entries]
  BY DEF EmptyTable, Empty, Entries
<1> QED
  BY <1>1 DEF Init, TypeOK

\* The table invariant and the types hold in every state.
LEMMA TableHolds == ASSUME ProbeVisitsAll PROVE Spec => [](TableInv /\ TypeOK)
<1>1. TableInv /\ TypeOK /\ [Next]_vars => (TableInv /\ TypeOK)'
  <2> SUFFICES ASSUME TableInv, TypeOK, [Next]_vars PROVE TableInv' /\ TypeOK'
    OBVIOUS
  <2>1. TableInv'
    BY TableStep
  <2> QED
    BY <2>1, TypeStep
<1> QED
  BY <1>1, TableInit, TypeInit, PTL DEF Spec

\* Every search of the table ends: index_of has no other bound on its loop than the
\* free slot that the load of the table leaves.
THEOREM SearchEndsHolds == ASSUME ProbeVisitsAll PROVE Spec => []SearchEnds
<1>1. TableInv => SearchEnds
  <2> SUFFICES ASSUME TableInv, capacity > 0, NEW key \in Keys
               PROVE  Stops(entries, capacity, key) # {}
    BY DEF SearchEnds
  <2>1. Sound(entries, capacity)
    BY DEF TableInv, Counted
  <2> QED
    BY <2>1, SearchStops DEF TableInv, Sound, Table
<1> QED
  BY <1>1, TableHolds, PTL

\* count is the number of the entries, and no key has two, whatever was set, deleted and
\* moved before.
THEOREM CountExactHolds == ASSUME ProbeVisitsAll PROVE Spec => []CountExact
<1>1. TableInv => CountExact
  <2> SUFFICES ASSUME TableInv PROVE CountExact
    OBVIOUS
  <2>1. CASE capacity = 0 /\ count = 0 /\ entries = EmptyTable(0)
    <3>1. Used(entries, capacity) = {}
      BY <2>1, NoSlots
    <3> QED
      BY <2>1, <3>1, FS_EmptySet DEF CountExact, Used
  <2>2. CASE Sound(entries, capacity) /\ count = Cardinality(Used(entries, capacity))
    BY <2>2 DEF CountExact, Used, Sound, Distinct
  <2> QED
    BY <2>1, <2>2 DEF TableInv, Counted
<1> QED
  BY <1>1, TableHolds, PTL

\* The table is a map: get returns what was last set for the key and not deleted, and set
\* and del what get would have returned.
THEOREM HashImplementsMap == ASSUME ProbeVisitsAll PROVE Spec => ImplementsMap
<1> DEFINE M == [key \in Keys |-> get(key)]
           V == [key \in Keys |-> Value(Now, key)]
<1>1. TableInv => M = V
  BY GetIs
<1>2. (TableInv => M = V)'
  BY <1>1, PTL
<1>3. Init => Map!Init
  <2> SUFFICES ASSUME Init PROVE Map!Init
    OBVIOUS
  <2>1. count = 0
    BY DEF Init
  <2>2. \A key \in Keys : get(key) = NULL
    BY <2>1 DEF get
  <2> QED
    BY <2>2 DEF Init, Map!Init
<1>4. TableInv /\ TableInv' /\ [Next]_vars => [Map!Next]_<<M, result>>
  <2> SUFFICES ASSUME TableInv, TableInv', [Next]_vars PROVE [Map!Next]_<<M, result>>
    OBVIOUS
  <2>1. M = V /\ M' = V'
    BY <1>1, <1>2
  <2>2. V' = [key \in Keys |-> Value(Now', key)]
    BY DEF Value, Of
  <2> DEFINE W == Now'
  <2>3. ASSUME NEW key \in Keys, NEW value \in Values,
               Now' = {e \in Now : e.key # key} \cup {[key |-> key, value |-> value]},
               result' = Value(Now, key)
        PROVE  Map!Set(key, value)
    <3> DEFINE entry == [key |-> key, value |-> value]
    <3>1. \A k : Value(Now', k) = IF k = key THEN value ELSE Value(Now, k)
      <4>1. entry.key = key /\ entry.value = value
        OBVIOUS
      <4>2. Now' = {e \in Now : e.key # entry.key} \cup {entry}
        BY <2>3
      <4> HIDE DEF entry
      <4> QED
        BY <4>1, <4>2, Replaced
    <3>2. M' = [M EXCEPT ![key] = value]
      <4>1. V' = [V EXCEPT ![key] = value]
        BY <2>2, <3>1
      <4> QED
        BY <2>1, <4>1
    <3>3. result' = M[key]
      BY <2>1, <2>3
    <3> QED
      BY <3>2, <3>3 DEF Map!Set
  <2>4. ASSUME NEW key \in Keys, Now' = {e \in Now : e.key # key}, result' = Value(Now, key)
        PROVE  Map!Del(key)
    <3>1. \A k : Value(Now', k) = IF k = key THEN NULL ELSE Value(Now, k)
      <4>1. Now' = Without(Now, key)
        BY <2>4 DEF Without
      <4> QED
        BY <4>1, Dropped
    <3>2. M' = [M EXCEPT ![key] = NULL]
      <4>1. V' = [V EXCEPT ![key] = NULL]
        BY <2>2, <3>1
      <4> QED
        BY <2>1, <4>1
    <3>3. result' = M[key]
      BY <2>1, <2>4
    <3> QED
      BY <3>2, <3>3 DEF Map!Del
  <2>5. ASSUME Now' = {}, result' = result PROVE Map!Clean
    <3>1. \A k : Value(Now', k) = NULL
      BY <2>5 DEF Value, Of
    <3> QED
      BY <2>1, <2>2, <2>5, <3>1 DEF Map!Clean
  <2>6. ASSUME Now' = Now, result' = result PROVE UNCHANGED <<M, result>>
    BY <2>1, <2>2, <2>6
  <2> HIDE DEF M, V
  <2> QED
    BY <2>3, <2>4, <2>5, <2>6, TableStep DEF Map!Next
<1> QED
  BY <1>3, <1>4, TableHolds, PTL DEF Spec, ImplementsMap, Map!Spec, Map!vars

------------------------------------------------------------------------------
\* Iteration

\* Inside iterate_ the calls were for the keys of the slots that were passed, each once,
\* and index is how many they are.
LoopInv ==
    /\ pc # "overrun"
    /\ pc # "idle" =>
          /\ i \in 0 .. capacity
          /\ index = Cardinality(Below(entries, capacity, i))
          /\ calls \in Seq(Keys)
          /\ \A k \in 1 .. Len(calls) : \E j \in Below(entries, capacity, i) :
                calls[k] = entries[j].key
          /\ \A j \in Below(entries, capacity, i) : \E k \in 1 .. Len(calls) :
                calls[k] = entries[j].key
          /\ \A k, m \in 1 .. Len(calls) : calls[k] = calls[m] => k = m

\* When as many entries were passed as there are, all were.
LEMMA AllBelow ==
    ASSUME NEW t, NEW c \in Nat, NEW n, Cardinality(Below(t, c, n)) >= Cardinality(Used(t, c))
    PROVE  Below(t, c, n) = Used(t, c)
<1>1. Below(t, c, n) \in SUBSET Used(t, c)
  BY DEF Below
<1>2. /\ IsFiniteSet(Used(t, c)) /\ Cardinality(Used(t, c)) \in Nat
      /\ Cardinality(Below(t, c, n)) <= Cardinality(Used(t, c))
      /\ IsFiniteSet(Below(t, c, n))
  BY <1>1, UsedFinite, FS_Subset
<1>3. Cardinality(Below(t, c, n)) \in Nat
  BY <1>2, FS_CardinalityType
<1>4. Cardinality(Below(t, c, n)) = Cardinality(Used(t, c))
  BY <1>2, <1>3
<1> QED
  BY <1>1, <1>2, <1>4, FS_Subset

\* One more call.
LEMMA CallsOne ==
    ASSUME NEW s \in Seq(Keys), NEW key \in Keys
    PROVE  /\ Append(s, key) \in Seq(Keys) /\ Len(Append(s, key)) = Len(s) + 1
           /\ \A k \in 1 .. Len(s) : Append(s, key)[k] = s[k]
           /\ Append(s, key)[Len(s) + 1] = key
OBVIOUS

\* The loop looks at one slot.
LEMMA LoopStep ==
    ASSUME TableInv, LoopInv, iterate_step
    PROVE  LoopInv'
<1>1. /\ pc \in {"iterate", "clean"} /\ index < count
      /\ hashed' = hashed /\ entries' = entries /\ capacity' = capacity /\ count' = count
  BY DEF iterate_step, tableVars
<1>2. /\ i \in 0 .. capacity
      /\ index = Cardinality(Below(entries, capacity, i))
      /\ calls \in Seq(Keys)
      /\ \A k \in 1 .. Len(calls) : \E j \in Below(entries, capacity, i) :
            calls[k] = entries[j].key
      /\ \A j \in Below(entries, capacity, i) : \E k \in 1 .. Len(calls) :
            calls[k] = entries[j].key
      /\ \A k, m \in 1 .. Len(calls) : calls[k] = calls[m] => k = m
  BY <1>1 DEF LoopInv
<1>3. capacity \in Nat /\ capacity # 0 /\ Sound(entries, capacity)
      /\ count = Cardinality(Used(entries, capacity))
  <2>1. CASE capacity = 0 /\ count = 0 /\ entries = EmptyTable(0)
    <3>1. Below(entries, capacity, i) = {}
      BY <2>1, NoSlots DEF Below
    <3> QED
      BY <1>1, <1>2, <2>1, <3>1, FS_EmptySet
  <2>2. CASE Sound(entries, capacity) /\ count = Cardinality(Used(entries, capacity))
    BY <2>2, CapacitiesAssumption DEF Sound, Table
  <2> QED
    BY <2>1, <2>2 DEF TableInv, Counted
<1>4. ~(i >= capacity)
  <2> SUFFICES ASSUME i >= capacity PROVE FALSE
    OBVIOUS
  <2>1. i = capacity
    BY <1>2, <1>3
  <2>2. Below(entries, capacity, i) = Used(entries, capacity)
    BY <1>3, <2>1 DEF Below, Used
  <2>3. Cardinality(Used(entries, capacity)) \in Nat
    BY <1>3, UsedFinite
  <2> QED
    BY <1>1, <1>2, <1>3, <2>2, <2>3
<1>5. i + 1 \in 1 .. capacity /\ (i + 1) - 1 = i /\ i \in 0 .. capacity - 1
  BY <1>2, <1>3, <1>4
<1>6. /\ Cardinality(Below(entries, capacity, i)) \in Nat
      /\ entries[i].key = NULL => Below(entries, capacity, i + 1) = Below(entries, capacity, i)
      /\ entries[i].key # NULL =>
            /\ Below(entries, capacity, i + 1) = Below(entries, capacity, i) \cup {i}
            /\ Cardinality(Below(entries, capacity, i + 1))
                  = Cardinality(Below(entries, capacity, i)) + 1
  <2> DEFINE n == i + 1
  <2>1. n \in 1 .. capacity /\ n - 1 = i /\ n = i + 1
    BY <1>5
  <2> HIDE DEF n
  <2>2. /\ Cardinality(Below(entries, capacity, n - 1)) \in Nat
        /\ entries[n - 1].key = NULL =>
              Below(entries, capacity, n) = Below(entries, capacity, n - 1)
        /\ entries[n - 1].key # NULL =>
              /\ Below(entries, capacity, n) = Below(entries, capacity, n - 1) \cup {n - 1}
              /\ Cardinality(Below(entries, capacity, n))
                    = Cardinality(Below(entries, capacity, n - 1)) + 1
    BY <1>3, <2>1, BelowNext
  <2> QED
    BY <2>1, <2>2
<1>7. Below(entries, capacity, i)' = Below(entries, capacity, i')
  BY <1>1 DEF Below, Used
<1>8. CASE entries[i].key = NULL
  <2>1. i' = i + 1 /\ pc' = pc /\ index' = index /\ calls' = calls
    BY <1>4, <1>8, Zenon DEF iterate_step
  <2>2. Below(entries, capacity, i)' = Below(entries, capacity, i)
    BY <1>6, <1>7, <1>8, <2>1
  <2>3. i' \in 0 .. capacity'
    BY <1>1, <1>3, <1>5, <2>1
  <2> QED
    BY <1>1, <1>2, <2>1, <2>2, <2>3 DEF LoopInv
<1>9. CASE entries[i].key # NULL
  <2> DEFINE key == entries[i].key
  <2>1. /\ i' = i + 1 /\ index' = index + 1 /\ calls' = Append(calls, key)
        /\ pc' = IF pc = "iterate" THEN "iterator" ELSE pc
    BY <1>4, <1>9, Zenon DEF iterate_step
  <2>2. Below(entries, capacity, i)' = Below(entries, capacity, i) \cup {i}
    BY <1>6, <1>7, <1>9, <2>1
  <2>3. index' = Cardinality(Below(entries, capacity, i)')
    BY <1>2, <1>6, <1>7, <1>9, <2>1
  <2>4. key \in Keys /\ i \in Used(entries, capacity)
    BY <1>3, <1>5, <1>9 DEF Sound, Table, Used, Entries
  <2>5. \A j \in Below(entries, capacity, i) : entries[j].key # key
    BY <1>2, <1>3, <2>4 DEF Below, Sound, Distinct, Used
  <2> HIDE DEF key
  <2>6. /\ calls' \in Seq(Keys) /\ Len(calls') = Len(calls) + 1
        /\ \A k \in 1 .. Len(calls) : calls'[k] = calls[k]
        /\ calls'[Len(calls) + 1] = key
        /\ Len(calls) \in Nat
    BY <1>2, <2>1, <2>4, CallsOne
  <2>7. \A k \in 1 .. Len(calls') : k \in 1 .. Len(calls) \/ k = Len(calls) + 1
    BY <2>6
  <2>8. \A k \in 1 .. Len(calls) : calls[k] # key
    BY <1>2, <2>5
  <2>9. \A k \in 1 .. Len(calls') : \E j \in Below(entries, capacity, i)' :
           calls'[k] = entries'[j].key
    <3>1. ASSUME NEW k \in 1 .. Len(calls)
          PROVE  \E j \in Below(entries, capacity, i) \cup {i} : calls'[k] = entries[j].key
      BY <1>2, <2>6
    <3>2. \E j \in Below(entries, capacity, i) \cup {i} : calls'[Len(calls) + 1] = entries[j].key
      BY <2>6 DEF key
    <3> QED
      BY <1>1, <2>2, <2>7, <3>1, <3>2
  <2>10. \A j \in Below(entries, capacity, i)' : \E k \in 1 .. Len(calls') :
           calls'[k] = entries'[j].key
    <3>1. ASSUME NEW j \in Below(entries, capacity, i)
          PROVE  \E k \in 1 .. Len(calls') : calls'[k] = entries[j].key
      <4>1. PICK k \in 1 .. Len(calls) : calls[k] = entries[j].key
        BY <1>2
      <4>2. k \in 1 .. Len(calls') /\ calls'[k] = entries[j].key
        BY <2>6, <4>1
      <4> QED
        BY <4>2
    <3>2. Len(calls) + 1 \in 1 .. Len(calls') /\ calls'[Len(calls) + 1] = entries[i].key
      BY <2>6 DEF key
    <3> QED
      BY <1>1, <2>2, <3>1, <3>2
  <2>11. \A k, m \in 1 .. Len(calls') : calls'[k] = calls'[m] => k = m
    BY <1>2, <2>6, <2>7, <2>8
  <2>12. i' \in 0 .. capacity' /\ pc' # "overrun"
    BY <1>1, <1>3, <1>5, <2>1
  <2> QED
    BY <2>3, <2>6, <2>9, <2>10, <2>11, <2>12 DEF LoopInv
<1> QED
  BY <1>8, <1>9

\* A loop starts before the first slot; set and del are not called in it.
LEMMA IterateStep ==
    ASSUME Mutating = FALSE, TableInv, LoopInv, [Next]_vars
    PROVE  LoopInv'
<1>1. ASSUME NEW label \in {"iterate", "clean"}, Begin(label) PROVE LoopInv'
  <2>1. pc' = label /\ i' = 0 /\ index' = 0 /\ calls' = <<>> /\ capacity' = capacity
    BY <1>1 DEF Begin, tableVars
  <2>2. Below(entries, capacity, i)' = {}
    BY <2>1 DEF Below, Used
  <2>3. capacity \in Nat
    BY CapacitiesAssumption DEF TableInv, Counted, Sound, Table
  <2>4. Cardinality(Below(entries, capacity, i)') = 0
    BY <2>2, FS_EmptySet
  <2>5. calls' \in Seq(Keys) /\ Len(calls') = 0 /\ i' \in 0 .. capacity'
    BY <2>1, <2>3
  <2> QED
    BY <2>1, <2>2, <2>4, <2>5 DEF LoopInv
<1>2. CASE iterate_step
  BY <1>2, LoopStep
<1>3. CASE iterator_returns
  <2>1. /\ pc = "iterator" /\ pc' = "iterate" /\ i' = i /\ index' = index /\ calls' = calls
        /\ entries' = entries /\ capacity' = capacity
    BY <1>3 DEF iterator_returns, tableVars
  <2>2. Below(entries, capacity, i)' = Below(entries, capacity, i)
    BY <2>1 DEF Below, Used
  <2> QED
    BY <2>1, <2>2 DEF LoopInv
<1>4. CASE iterate_ends \/ clean_ends
  BY <1>4 DEF iterate_ends, clean_ends, LoopInv
<1>5. ASSUME \/ \E key \in Keys, value \in Values : set(key, value)
             \/ \E key \in Keys : del(key)
      PROVE  LoopInv'
  <2>1. pc = "idle" /\ pc' = pc
    BY <1>5 DEF set, del, MayCall, loopVars
  <2> QED
    BY <2>1 DEF LoopInv
<1>6. CASE UNCHANGED vars
  <2>1. /\ pc' = pc /\ i' = i /\ index' = index /\ calls' = calls
        /\ entries' = entries /\ capacity' = capacity
    BY <1>6 DEF vars
  <2>2. Below(entries, capacity, i)' = Below(entries, capacity, i)
    BY <2>1 DEF Below, Used
  <2> QED
    BY <2>1, <2>2 DEF LoopInv
<1> QED
  BY <1>1, <1>2, <1>3, <1>4, <1>5, <1>6 DEF Next

\* When the user's iterator leaves the table alone, iterate and clean call it for every
\* key of the table, once, and never read past its last slot.
THEOREM IteratesOverAllHolds ==
    ASSUME ProbeVisitsAll, Mutating = FALSE PROVE Spec => []IteratesOverAll
<1>1. Init => LoopInv
  BY DEF Init, LoopInv
<1>2. TableInv /\ LoopInv /\ [Next]_vars => LoopInv'
  BY IterateStep
<1>3. TableInv /\ LoopInv => IteratesOverAll
  <2> SUFFICES ASSUME TableInv, LoopInv PROVE IteratesOverAll
    OBVIOUS
  <2>1. ASSUME pc \in {"iterate", "clean"}, index >= count
        PROVE  /\ \A key \in Keys : get(key) # NULL => key \in ToSet(calls)
               /\ IsInjective(calls)
    <3>1. /\ index = Cardinality(Below(entries, capacity, i))
          /\ calls \in Seq(Keys)
          /\ \A j \in Below(entries, capacity, i) : \E k \in 1 .. Len(calls) :
                calls[k] = entries[j].key
          /\ \A k, m \in 1 .. Len(calls) : calls[k] = calls[m] => k = m
      BY <2>1 DEF LoopInv
    <3>2. IsInjective(calls)
      BY <3>1 DEF IsInjective
    <3>3. ASSUME NEW key \in Keys, get(key) # NULL PROVE key \in ToSet(calls)
      <4>1. count # 0 /\ ~(index_of(entries, capacity, key) < 0)
        BY <3>3 DEF get
      <4>2. Sound(entries, capacity) /\ count = Cardinality(Used(entries, capacity))
        BY <4>1 DEF TableInv, Counted
      <4>3. capacity \in Nat
        BY <4>2, CapacitiesAssumption DEF Sound, Table
      <4>4. PICK j \in Used(entries, capacity) : entries[j].key = key
        BY <4>1, <4>2, SearchFinds DEF TableInv
      <4>5. Below(entries, capacity, i) = Used(entries, capacity)
        BY <2>1, <3>1, <4>2, <4>3, AllBelow
      <4>6. PICK k \in 1 .. Len(calls) : calls[k] = key
        BY <3>1, <4>4, <4>5
      <4> QED
        BY <3>1, <4>6 DEF ToSet
    <3> QED
      BY <3>2, <3>3
  <2> QED
    BY <2>1 DEF IteratesOverAll, LoopInv
<1> QED
  BY <1>1, <1>2, <1>3, TableHolds, PTL DEF Spec
==============================================================================
