---------------------------- MODULE OutputStream ----------------------------
(***************************************************************************)
(* The output streams of src/src/cad_stream_string.c, cad_stream_file.c    *)
(* and cad_stream_file_descriptor.c.  A text is what printf makes of a     *)
(* format and its arguments: a sequence of bytes, signed as the char of    *)
(* the build.  malloc succeeds, and so does the formatting.                *)
(***************************************************************************)
EXTENDS Integers, Sequences, SequencesExt, FiniteSetsExt

CONSTANTS
    Texts,       \* the texts the user puts
    MaxText,     \* bound: how long they are
    MaxPuts,     \* bound: how many
    Capacity,    \* the first capacity of a block, 128 in the code
    MaxCapacity, \* bound: the largest capacity
    Offsets,     \* what the stack left in the offset m of vput
    Faults,      \* the failures of the system that may happen
    MaxFaults    \* bound: how many

NUL == 0
JUNK == 1000    \* what malloc leaves: no byte
Kinds == {"string", "file", "descriptor"}
Bytes == -128 .. 127
Doublings == {c \in 1 .. MaxCapacity : \E k \in 0 .. 20 : c = Capacity * 2 ^ k}

\* A block may grow until it holds all the texts that are put.
ASSUME OutputAssumption ==
    /\ {Capacity, MaxCapacity} \subseteq Nat \ {0}
    /\ {MaxText, MaxPuts} \subseteq Nat
    /\ Offsets \subseteq Int
    /\ Texts \subseteq Seq(Bytes)
    /\ \A t \in Texts : Len(t) <= MaxText
    /\ \E c \in Doublings : /\ MaxPuts * MaxText + 1 < c
                            /\ \A d \in Doublings \cup {Capacity} : d <= c

VARIABLES
    kind,       \* which of the three streams
    block,      \* string: *(this->string); descriptor: this->buffer
    count,      \* string: this->count
    pending,    \* file: what the FILE keeps until it is flushed
    device,     \* what has reached the file or the descriptor
    closed,     \* the user has freed the stream and closed what it wrote to
    call,       \* the vput under way: its text, its locals m, n and result
    puts,       \* how many puts there were
    faults,     \* how many failures there were
    given,      \* the bytes of all the texts that were put
    returned,   \* the sum of what the puts returned
    torn,       \* TRUE once a write(2) returned -1
    overrun     \* TRUE once a write went past the block

outVars == <<kind, block, count, pending, device, closed, call, puts, faults,
             given, returned, torn, overrun>>

Idle == [text |-> <<>>, m |-> 0, n |-> 0, result |-> 0, busy |-> FALSE]

OutInit ==
    /\ kind \in Kinds
    /\ block = IF kind = "descriptor" THEN [i \in 1 .. Capacity |-> JUNK] ELSE <<>>
    /\ count = 0
    /\ pending = <<>>
    /\ device = <<>>
    /\ closed = FALSE
    /\ call = Idle
    /\ puts = 0
    /\ faults = 0
    /\ given = <<>>
    /\ returned = 0
    /\ torn = FALSE
    /\ overrun = FALSE

\* A failure of the system.
Fault(f) ==
    /\ f \in Faults
    /\ faults < MaxFaults
    /\ faults' = faults + 1

\* What a C string holds: the bytes before the first NUL.
CString(b) ==
    LET ends == {i \in DOMAIN b : b[i] = NUL}
    IN  IF ends = {} THEN b ELSE SubSeq(b, 1, Min(ends) - 1)

\* The block b once s and its NUL were written at offset at, and no further.
Written(b, at, s) ==
    [i \in DOMAIN b |-> CASE i - at \in DOMAIN s  -> s[i - at]
                          [] i - at = Len(s) + 1  -> NUL
                          [] OTHER                -> b[i]]

\* A user may start a put.
MayPut ==
    /\ ~closed
    /\ ~call.busy
    /\ puts < MaxPuts

------------------------------------------------------------------------------
\* String streams

\* Mutant: the closing NUL is not counted when the block must grow.
Grown_no_nul(size) == Min({c \in Doublings : c >= Len(block) /\ size - 1 <= c})

\* The capacity of a string that must hold size bytes.
Grown(size) == Min({c \in Doublings : c >= Len(block) /\ size <= c})

\* Allocates a larger string when this one is too small, copies the old one with
\* strcpy, and writes the text behind it.
vput_string(t) ==
    LET size == Len(t) + 1 + count
        new == Grown(size)
        old == CString(block)
        copy == IF block = <<>> THEN [i \in 1 .. new |-> JUNK]
                ELSE Written([i \in 1 .. new |-> JUNK], 0, old)
        room == IF new > Len(block) THEN copy ELSE block
    IN  /\ MayPut
        /\ kind = "string"
        /\ block' = Written(room, count, t)
        /\ overrun' = (overrun \/ size > new)
        /\ count' = count + Len(t)
        /\ given' = given \o t
        /\ returned' = returned + Len(t)
        /\ puts' = puts + 1
        /\ UNCHANGED <<kind, pending, device, closed, call, faults, torn>>

------------------------------------------------------------------------------
\* File streams

vput_file(t) ==
    /\ MayPut
    /\ kind = "file"
    /\ pending' = pending \o t
    /\ given' = given \o t
    /\ returned' = returned + Len(t)
    /\ puts' = puts + 1
    /\ UNCHANGED <<kind, block, count, device, closed, call, faults, torn, overrun>>

\* fflush.  The flush of the other streams has no effect a reader can see.
flush_file ==
    /\ kind = "file"
    /\ pending # <<>>
    /\ device' = device \o pending
    /\ pending' = <<>>
    /\ UNCHANGED <<kind, block, count, closed, call, puts, faults, given, returned, torn, overrun>>

------------------------------------------------------------------------------
\* File descriptor streams

\* The capacities that vsnprintf fills with n bytes and a NUL.
Enough(n) == {c \in Doublings : c >= Len(block) /\ n < c}

\* Formats the text in the buffer, which grows if it must; the writes follow.
\* The offset m is not initialised.
vput_descriptor(t) ==
    /\ MayPut
    /\ kind = "descriptor"
    /\ LET new == Min(Enough(Len(t)))
           fresh == IF new > Len(block) THEN [i \in 1 .. new |-> JUNK] ELSE block
       IN  block' = Written(fresh, 0, SubSeq(t, 1, Min({Len(t), new - 1})))
    /\ \E m \in Offsets :
          call' = [text |-> t, m |-> m, n |-> Len(t), result |-> 0, busy |-> TRUE]
    /\ given' = given \o t
    /\ puts' = puts + 1
    /\ UNCHANGED <<kind, count, pending, device, closed, faults, returned, torn, overrun>>

\* The byte at an offset, which may be outside the buffer.
ByteAt(i) == IF i + 1 \in DOMAIN block THEN block[i + 1] ELSE JUNK

\* Mutant: the result is that of the last write.
vput_write_last ==
    /\ call.busy
    /\ call.m < call.n
    /\ \E i \in 1 .. call.n - call.m :
          /\ device' = device \o [k \in 1 .. i |-> ByteAt(call.m + k - 1)]
          /\ call' = [call EXCEPT !.m = @ + i, !.result = i]
    /\ UNCHANGED <<kind, block, count, pending, closed, puts, faults, given, returned, torn, overrun>>

\* One write(2): the descriptor takes at least one byte, and maybe not all.
vput_write ==
    /\ call.busy
    /\ call.m < call.n
    /\ \E i \in 1 .. call.n - call.m :
          /\ device' = device \o [k \in 1 .. i |-> ByteAt(call.m + k - 1)]
          /\ call' = [call EXCEPT !.m = @ + i, !.result = @ + i]
    /\ UNCHANGED <<kind, block, count, pending, closed, puts, faults, given, returned, torn, overrun>>

\* write(2) returns -1, which is added to the offset and to the result.
vput_write_fails ==
    /\ call.busy
    /\ call.m < call.n
    /\ Fault("write")
    /\ torn' = TRUE
    /\ call' = [call EXCEPT !.m = @ - 1, !.result = @ - 1]
    /\ UNCHANGED <<kind, block, count, pending, device, closed, puts, given, returned, overrun>>

\* vput returns: everything is written, or write(2) took nothing.
vput_returns ==
    /\ call.busy
    /\ \/ call.m >= call.n /\ UNCHANGED faults
       \/ call.m < call.n /\ Fault("write_zero")
    /\ returned' = returned + call.result
    /\ call' = Idle
    /\ UNCHANGED <<kind, block, count, pending, device, closed, puts, given, torn, overrun>>

------------------------------------------------------------------------------

\* The user frees the stream, then closes the file, which flushes it, or the
\* descriptor; a string is now the user's.
free_output ==
    /\ ~closed
    /\ ~call.busy
    /\ closed' = TRUE
    /\ device' = device \o pending
    /\ pending' = <<>>
    /\ UNCHANGED <<kind, block, count, call, puts, faults, given, returned, torn, overrun>>

OutNext ==
    \/ \E t \in Texts : vput_string(t) \/ vput_file(t) \/ vput_descriptor(t)
    \/ flush_file
    \/ vput_write \/ vput_write_fails \/ vput_returns
    \/ free_output

\* All the bytes the stream took.
Taken == IF kind = "string" THEN CString(block) ELSE device \o pending

\* What vput returns is "the number of bytes written" (cad_stream.h:153): between
\* two puts, as many bytes went to the string, the file or the descriptor as the
\* puts returned, through short writes and writes that take nothing, and wherever
\* in the text the writes began.
PutAlwaysReports == ~call.busy => Len(Taken) = returned

\* The same, as long as no write(2) has failed.
PutReports == ~torn => PutAlwaysReports

\* "Puts bytes to the output stream": while nothing fails, what went to the
\* string, the file or the descriptor is what was put.
PutsItsText == faults = 0 /\ ~call.busy => Taken = given

\* A string stream never writes past its block, and the block holds the count
\* bytes of all the texts and a NUL, through every growth.
StringHolds ==
    /\ ~overrun
    /\ kind = "string" /\ block # <<>> =>
          /\ Len(CString(block)) = count
          /\ count < Len(block)
=============================================================================
