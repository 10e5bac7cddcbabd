------------------------------- MODULE Vector --------------------------------
(***************************************************************************)
(* What cad_array.h promises: a sequence of elements that can be inserted, *)
(* replaced, removed and sorted by index, and that expands as needed.      *)
(* Indices count from 0, as in the header.  Gap is the set of what the     *)
(* elements between the old end and an index beyond it may hold.           *)
(***************************************************************************)
EXTENDS Naturals, Sequences, SequencesExt

CONSTANTS Elements, Gap

VARIABLE elems

Init == elems = <<>>

\* elems, expanded to n elements.
Expansions(n) ==
    {elems \o [k \in 1 .. n - Len(elems) |-> g[k]] :
        g \in [1 .. n - Len(elems) -> Gap]}

Insert(index, value) ==
    IF index < Len(elems)
    THEN elems' = InsertAt(elems, index + 1, value)
    ELSE elems' \in {Append(e, value) : e \in Expansions(index)}

Update(index, value) ==
    IF index < Len(elems)
    THEN elems' = [elems EXCEPT ![index + 1] = value]
    ELSE elems' \in {Append(e, value) : e \in Expansions(index)}

Del(index) ==
    /\ index < Len(elems)
    /\ elems' = RemoveAt(elems, index + 1)

\* The same elements, each as often, in order.
Sort ==
    /\ \E p \in Bijection(1 .. Len(elems), 1 .. Len(elems)) :
          elems' = [k \in 1 .. Len(elems) |-> elems[p[k]]]
    /\ \A k \in 1 .. Len(elems') - 1 : elems'[k] <= elems'[k + 1]

Clear == elems' = <<>>

Next ==
    \/ \E v \in Elements :
          \E index \in 0 .. Len(elems') : Insert(index, v) \/ Update(index, v)
    \/ \E index \in 0 .. Len(elems) : Del(index)
    \/ Sort
    \/ Clear

Spec == Init /\ [][Next]_elems
==============================================================================
