---------------------------- MODULE ByteChannel ----------------------------
(***************************************************************************)
(* What a pair of streams promises: the bytes that one end takes come out  *)
(* of the other end, each once and in order, and the end is announced only *)
(* when the channel is closed and everything was read.                     *)
(***************************************************************************)
EXTENDS Naturals, Sequences

VARIABLES
    taken,   \* the bytes the channel has taken
    got,     \* the bytes that came out
    closed,  \* nothing more will be put
    over     \* the reader was told that this is the end

vars == <<taken, got, closed, over>>

Init ==
    /\ taken = <<>>
    /\ got = <<>>
    /\ closed = FALSE
    /\ over = FALSE

\* The channel takes some bytes.
Put ==
    /\ ~closed
    /\ Len(taken') >= Len(taken)
    /\ SubSeq(taken', 1, Len(taken)) = taken
    /\ UNCHANGED <<got, closed, over>>

Close ==
    /\ ~closed
    /\ closed' = TRUE
    /\ UNCHANGED <<taken, got, over>>

Get ==
    /\ ~over
    /\ Len(got) < Len(taken)
    /\ got' = Append(got, taken[Len(got) + 1])
    /\ UNCHANGED <<taken, closed, over>>

End ==
    /\ closed
    /\ got = taken
    /\ over' = TRUE
    /\ UNCHANGED <<taken, got, closed>>

Next == Put \/ Close \/ Get \/ End

Spec == Init /\ [][Next]_vars
=============================================================================
