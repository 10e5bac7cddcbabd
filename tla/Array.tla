-------------------------------- MODULE Array --------------------------------
(***************************************************************************)
(* The growing array of src/src/cad_array.c: one block of memory, of which *)
(* the first count slots are the elements.  A slot holds an element, ZERO  *)
(* (what memset leaves, a NULL pointer) or JUNK (what realloc leaves, any  *)
(* bytes).  memory.malloc and memory.realloc are assumed to succeed.       *)
(***************************************************************************)
EXTENDS Integers, Sequences, FiniteSetsExt

CONSTANTS
    Elements,   \* the values the user stores, numbers the comparator orders
    MaxIndex,   \* bound: the largest index the user gives
    MaxCapacity \* bound: the largest block

ZERO == 0
JUNK == Max(Elements) + 1
Slots == Elements \cup {ZERO, JUNK}

\* The capacities grow goes through: 2 * 2, then twice as many each time.
Capacities == {c \in 4 .. MaxCapacity : \E k \in 0 .. 20 : c = 4 * 2 ^ k}

\* A block may grow until it holds every index.
ASSUME ArrayAssumption ==
    /\ Elements \subseteq Nat \ {0}
    /\ {MaxIndex, MaxCapacity} \subseteq Nat
    /\ \E c \in Capacities : /\ MaxIndex < c
                             /\ \A d \in Capacities : d <= c

VARIABLES
    content,  \* the block: capacity slots
    count,    \* this->count
    overrun   \* TRUE once a write went past the block

vars == <<content, count, overrun>>

capacity == Len(content)

Init ==
    /\ content = <<>>
    /\ count = 0
    /\ overrun = FALSE

------------------------------------------------------------------------------

\* The block once it has grown until it holds index, and at least once if
\* `full`.  The first growth zeroes the block; every other zeroes as many slots
\* as there are elements, from the first free one, and no more.
Grow(index, full) ==
    LET fits == {c \in Capacities : /\ c > index
                                    /\ c >= capacity
                                    /\ full => c > capacity}
        new == Min(fits)
        zeroed == IF capacity = 0 THEN 0 .. 3 ELSE count .. 2 * count - 1
        slot(i) == IF i - 1 \in zeroed THEN ZERO
                   ELSE IF i <= capacity THEN content[i] ELSE JUNK
    IN  IF new = capacity THEN content ELSE [i \in 1 .. new |-> slot(i)]

\* The elements from index on move up by one slot, then the slot is set.
insert(index, value) ==
    LET block == Grow(index, count = capacity)
        moved == [i \in 1 .. Len(block) |->
                     IF i - 1 > index /\ i - 1 <= count
                     THEN block[i - 1] ELSE block[i]]
    IN  /\ content' = [moved EXCEPT ![index + 1] = value]
        /\ count' = IF index < count THEN count + 1 ELSE index + 1
        /\ UNCHANGED overrun

update(index, value) ==
    /\ content' = [Grow(index, FALSE) EXCEPT ![index + 1] = value]
    /\ count' = IF index < count THEN count ELSE index + 1
    /\ UNCHANGED overrun

\* Mutant: one element too few moves down.
delMovesTooFew(index) ==
    /\ index < count
    /\ count' = count - 1
    /\ content' = [i \in 1 .. capacity |->
                     IF i - 1 >= index /\ i - 1 < count' - 1
                     THEN content[i + 1] ELSE content[i]]
    /\ UNCHANGED overrun

\* The elements after index move down; the slot that is then zeroed is the one
\* after the last, vacated one, and there is none in a full block.
del(index) ==
    /\ index < count
    /\ count' = count - 1
    /\ IF count' > index
       THEN /\ content' = [i \in 1 .. capacity |->
                  CASE i - 1 >= index /\ i - 1 < count' -> content[i + 1]
                    [] i - 1 = count' + 1               -> ZERO
                    [] OTHER                            -> content[i]]
            /\ overrun' = (overrun \/ count' + 1 >= capacity)
       ELSE UNCHANGED <<content, overrun>>

\* qsort(3), external, with a comparator that orders the slots as numbers: it
\* permutes the elements, and leaves them in order.
sort ==
    /\ \E p \in Bijection(1 .. count, 1 .. count) :
          content' = [i \in 1 .. capacity |->
                         IF i <= count THEN content[p[i]] ELSE content[i]]
    /\ \A i \in 1 .. count - 1 : content'[i] <= content'[i + 1]
    /\ UNCHANGED <<count, overrun>>

clear ==
    /\ content' = [i \in 1 .. capacity |-> ZERO]
    /\ count' = 0
    /\ UNCHANGED overrun

Next ==
    \/ \E index \in 0 .. MaxIndex, value \in Elements :
          \/ count <= MaxIndex /\ insert(index, value)
          \/ update(index, value)
    \/ \E index \in 0 .. MaxIndex : del(index)
    \/ sort
    \/ clear

Spec == Init /\ [][Next]_vars

------------------------------------------------------------------------------

TypeOK ==
    /\ content \in Seq(Slots)
    /\ capacity \in Capacities \cup {0}
    /\ count \in 0 .. capacity
    /\ overrun \in BOOLEAN

\* What the user reads through count and get.
Elems == SubSeq(content, 1, count)

\* The block behaves as a Vector whose gaps hold anything.
Loose == INSTANCE Vector WITH elems <- Elems, Gap <- Slots
ImplementsVector == Loose!Spec

\* The block behaves as a Vector whose gaps are NULL.
Strict == INSTANCE Vector WITH elems <- Elems, Gap <- {ZERO}
GapsAreNull == Strict!Spec

\* del returns "the pointer to the deleted value": the pointer it returns is
\* that of the slot at index, which must still hold that value.
DelReturnsDeleted ==
    [][\A index \in 0 .. MaxIndex :
          del(index) => content'[index + 1] = content[index + 1]]_vars

\* No write goes past the block.
InBlock == ~overrun
==============================================================================
