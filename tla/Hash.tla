-------------------------------- MODULE Hash ---------------------------------
(***************************************************************************)
(* The hash table of src/src/cad_hash.c: open addressing with a perturbed  *)
(* linear congruential probe, and deletion that moves entries back along   *)
(* their probe until every one can be found again.                         *)
(*                                                                         *)
(* set, get and del run to their end; iterate is cut at its calls of the   *)
(* user's iterator, which is given the table and may use it.  clean calls  *)
(* its iterator in one step, as one that leaves the table alone: a key     *)
(* that was passed is freed and yet in its slot until clean ends.  What    *)
(* keys.free does with it is left out, and memory.malloc succeeds.         *)
(***************************************************************************)
EXTENDS Integers, Sequences, SequencesExt, FiniteSets, FiniteSetsExt

CONSTANTS
    Keys,
    Values,
    NULL,
    Width,      \* the bits of an unsigned int: 32 in the code
    HashValues, \* what keys.hash(key) + salt may be
    MaxGrowths, \* bound: how often the table doubles
    Mutating    \* TRUE: the user's iterator calls set and del

\* unsigned int arithmetic wraps around
Modulus == 2 ^ Width
PERTURB_SHIFT == 5
MaxCapacity == 4 * 2 ^ MaxGrowths
Capacities == {4 * 2 ^ n : n \in 0 .. MaxGrowths}
\* enough probes to use up the perturbation, and then to visit every slot
MaxProbes == Width \div PERTURB_SHIFT + 1 + MaxCapacity

ASSUME HashAssumption ==
    /\ Width \in Nat /\ MaxGrowths \in Nat
    /\ Modulus % MaxCapacity = 0
    /\ HashValues \subseteq 0 .. Modulus - 1
    /\ Mutating \in BOOLEAN
    /\ NULL \notin Keys \cup Values

\* The arithmetic of the capacities.
ASSUME CapacitiesAssumption ==
    /\ MaxCapacity \in Nat
    /\ 4 \in Capacities
    /\ \A c \in Capacities : /\ c \in Nat /\ c >= 4
                             /\ 2 * c <= MaxCapacity => 2 * c \in Capacities

VARIABLES
    hashed,    \* the salted hash of each key: any function, never changed
    entries,   \* this->entries, by index from 0
    capacity,  \* this->capacity
    count,     \* this->count
    result,    \* what the last set or del returned
    pc,        \* "idle", "iterate", "clean", or "iterator": in the iterator
    i, index,  \* the local variables of iterate_
    calls      \* the keys the iterator was called with

vars == <<hashed, entries, capacity, count, result, pc, i, index, calls>>
tableVars == <<entries, capacity, count>>
loopVars == <<pc, i, index, calls>>

Entries == [key : Keys \cup {NULL}, value : Values \cup {NULL}]
Empty == [key |-> NULL, value |-> NULL]
EmptyTable(n) == [j \in 0 .. n - 1 |-> Empty]

Init ==
    /\ hashed \in [Keys -> HashValues]
    /\ entries = EmptyTable(0)
    /\ capacity = 0
    /\ count = 0
    /\ result = NULL
    /\ pc = "idle"
    /\ i = 0
    /\ index = 0
    /\ calls = <<>>

------------------------------------------------------------------------------
(* Finding and moving entries                                                *)

next_index_of(context) ==
    [index |-> (5 * context.index + 1 + context.perturb) % Modulus,
     perturb |-> context.perturb \div 2 ^ PERTURB_SHIFT]

\* The indices that a search for a hash goes through.
Probe ==
    [h \in HashValues |->
        LET first == [index |-> h, perturb |-> h]
            contexts[n \in 0 .. MaxProbes] ==
                IF n = 0 THEN <<first>>
                ELSE LET before == contexts[n - 1]
                     IN  Append(before, next_index_of(Last(before)))
        IN  contexts[MaxProbes]]

\* The slot that the nth of them is, of c slots.
ProbeSlot(key, n, c) == Probe[hashed[key]][n].index % c

\* The probes at which a search for key stops in a table of c slots.
Stops(table, c, key) ==
    {n \in 1 .. MaxProbes : table[ProbeSlot(key, n, c)].key \in {key, NULL}}

\* The slot of the key, or -slot - 1 for the free slot where it belongs.
index_of(table, c, key) ==
    LET slot == ProbeSlot(key, Min(Stops(table, c, key)), c)
    IN  IF table[slot].key = NULL THEN -slot - 1 ELSE slot

\* The entries that a search no longer finds.
Lost(table, c) ==
    {j \in 0 .. c - 1 : /\ table[j].key # NULL
                        /\ index_of(table, c, table[j].key) < 0}

\* Mutant: the entry is left where it was, too.
Repair_copies(table, c) ==
    LET j == Min(Lost(table, c))
    IN  [table EXCEPT ![-index_of(table, c, table[j].key) - 1] = table[j]]

\* The first of them moves to the free slot its search ends at.
Repair(table, c) ==
    LET j == Min(Lost(table, c))
        to == -index_of(table, c, table[j].key) - 1
    IN  [table EXCEPT ![to] = table[j], ![j] = Empty]

\* One pass of the loop: an entry moves if one has to.  As a mutant of rehash, one pass
\* without the restart.
rehash_pass(table, c) == IF Lost(table, c) = {} THEN table ELSE Repair(table, c)

\* The loop restarts after every move, until nothing moves.  A move brings an entry to
\* an earlier probe of its key: there are no more moves than probes and slots.
rehash(table, c) ==
    LET moved[n \in 0 .. c * MaxProbes] ==
            IF n = 0 THEN table ELSE rehash_pass(moved[n - 1], c)
    IN  moved[CHOOSE n \in 0 .. c * MaxProbes : Lost(moved[n], c) = {}]

\* An entry is copied to the free slot where its key belongs.
Place(table, c, entry) ==
    IF entry.key = NULL THEN table
    ELSE [table EXCEPT ![-index_of(table, c, entry.key) - 1] = entry]

\* The entries are put into a table twice as large, from slot 0 on.
grow(table, c) ==
    LET copied[n \in 0 .. c] ==
            IF n = 0 THEN EmptyTable(2 * c) ELSE Place(copied[n - 1], 2 * c, table[n - 1])
    IN  IF c = 0 THEN EmptyTable(4) ELSE copied[c]

\* The capacity that goes with it.
Grown(c) == IF c = 0 THEN 4 ELSE 2 * c

------------------------------------------------------------------------------
(* get, set and del                                                          *)

get(key) ==
    IF count = 0 \/ index_of(entries, capacity, key) < 0 THEN NULL
    ELSE entries[index_of(entries, capacity, key)].value

\* The user calls the table when no iteration is running, or in its iterator.
MayCall == pc = "idle" \/ (pc = "iterator" /\ Mutating)

set(key, value) ==
    /\ MayCall
    /\ LET c0 == IF capacity = 0 THEN Grown(0) ELSE capacity
           t0 == IF capacity = 0 THEN grow(entries, 0) ELSE entries
           found == index_of(t0, c0, key)
           full == count * 3 >= c0 * 2
           c1 == IF full THEN Grown(c0) ELSE c0
           t1 == IF full THEN grow(t0, c0) ELSE t0
           free == -index_of(t1, c1, key) - 1
       IN  IF found >= 0
           THEN /\ entries' = [t0 EXCEPT ![found].value = value]
                /\ capacity' = c0
                /\ result' = t0[found].value
                /\ UNCHANGED count
           ELSE /\ c1 <= MaxCapacity
                /\ entries' = [t1 EXCEPT ![free] = [key |-> key, value |-> value]]
                /\ capacity' = c1
                /\ count' = count + 1
                /\ result' = NULL
    /\ UNCHANGED <<hashed, loopVars>>

del(key) ==
    /\ MayCall
    /\ IF count = 0 \/ index_of(entries, capacity, key) < 0
       THEN result' = NULL /\ UNCHANGED tableVars
       ELSE LET found == index_of(entries, capacity, key)
            IN  /\ result' = entries[found].value
                /\ entries' = rehash([entries EXCEPT ![found] = Empty], capacity)
                /\ count' = count - 1
                /\ UNCHANGED capacity
    /\ UNCHANGED <<hashed, loopVars>>

------------------------------------------------------------------------------
(* iterate and clean                                                         *)

\* Mutant: the first call is not counted.
Begin_index_1(label) ==
    /\ pc = "idle"
    /\ pc' = label
    /\ i' = 0
    /\ index' = 1
    /\ calls' = <<>>
    /\ UNCHANGED <<hashed, tableVars, result>>

\* iterate and clean enter the loop of iterate_.
Begin(label) ==
    /\ pc = "idle"
    /\ pc' = label
    /\ i' = 0
    /\ index' = 0
    /\ calls' = <<>>
    /\ UNCHANGED <<hashed, tableVars, result>>

\* The loop of iterate_ looks at the next entry and, if it is in use, calls the
\* iterator for it: that of clean returns at once.  Past the last entry it reads
\* beyond the block.
iterate_step ==
    /\ pc \in {"iterate", "clean"}
    /\ index < count
    /\ IF i >= capacity THEN pc' = "overrun" /\ UNCHANGED <<i, index, calls>>
       ELSE /\ i' = i + 1
            /\ IF entries[i].key = NULL THEN UNCHANGED <<pc, index, calls>>
               ELSE /\ calls' = Append(calls, entries[i].key)
                    /\ index' = index + 1
                    /\ pc' = IF pc = "iterate" THEN "iterator" ELSE pc
    /\ UNCHANGED <<hashed, tableVars, result>>

iterator_returns ==
    /\ pc = "iterator"
    /\ pc' = "iterate"
    /\ UNCHANGED <<hashed, tableVars, result, i, index, calls>>

iterate_ends ==
    /\ pc = "iterate"
    /\ index >= count
    /\ pc' = "idle"
    /\ i' = 0
    /\ index' = 0
    /\ calls' = <<>>
    /\ UNCHANGED <<hashed, tableVars, result>>

\* Mutant: the entries are left in the table.
clean_ends_dirty ==
    /\ pc = "clean"
    /\ index >= count
    /\ count' = 0
    /\ pc' = "idle"
    /\ i' = 0
    /\ index' = 0
    /\ calls' = <<>>
    /\ UNCHANGED <<hashed, entries, capacity, result>>

clean_ends ==
    /\ pc = "clean"
    /\ index >= count
    /\ count' = 0
    /\ entries' = EmptyTable(capacity)
    /\ pc' = "idle"
    /\ i' = 0
    /\ index' = 0
    /\ calls' = <<>>
    /\ UNCHANGED <<hashed, capacity, result>>

Next ==
    \/ \E key \in Keys, value \in Values : set(key, value)
    \/ \E key \in Keys : del(key)
    \/ Begin("iterate")
    \/ Begin("clean")
    \/ iterate_step
    \/ iterator_returns
    \/ iterate_ends
    \/ clean_ends

Spec == Init /\ [][Next]_vars

------------------------------------------------------------------------------

TypeOK ==
    /\ hashed \in [Keys -> HashValues]
    /\ capacity \in {0} \cup Capacities
    /\ entries \in [0 .. capacity - 1 -> Entries]
    /\ count \in 0 .. capacity
    /\ result \in Values \cup {NULL}
    /\ pc \in {"idle", "iterate", "clean", "iterator", "overrun"}
    /\ i \in Nat
    /\ index \in Nat
    /\ calls \in Seq(Keys)

\* The probe of every hash goes through all the slots.
ProbeVisitsAll ==
    \A h \in HashValues, c \in Capacities :
        {Probe[h][n].index % c : n \in 1 .. MaxProbes} = 0 .. c - 1

\* Every search ends, for keys that are in the table and for keys that are not:
\* the probe reaches a free slot, which the table always has.
SearchEnds ==
    capacity > 0 =>
        \A key \in Keys : Stops(entries, capacity, key) # {}

\* count is the number of entries, and no key has two: nothing is counted,
\* cloned or freed twice.
CountExact ==
    LET used == {j \in 0 .. capacity - 1 : entries[j].key # NULL}
    IN  /\ count = Cardinality(used)
        /\ \A j, m \in used : entries[j].key = entries[m].key => j = m

\* A key's search finds the value that was last set for it, and set and del
\* return the previous one, whatever collisions, growths and deletions came
\* before.
Map == INSTANCE KeyValueMap WITH map <- [key \in Keys |-> get(key)]
ImplementsMap == Map!Spec

\* iterate and clean call the iterator for each key of the table, never twice for the
\* same one, and read only entries of the table: counting the calls is enough to end.
IteratesOverAll ==
    /\ pc # "overrun"
    /\ pc \in {"iterate", "clean"} /\ index >= count =>
          /\ \A key \in Keys : get(key) # NULL => key \in ToSet(calls)
          /\ IsInjective(calls)
==============================================================================
