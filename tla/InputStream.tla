---------------------------- MODULE InputStream ----------------------------
(***************************************************************************)
(* The input streams of src/src/cad_stream_string.c, cad_stream_file.c and *)
(* cad_stream_file_descriptor.c, each at the other end of the output       *)
(* stream of its kind: a pipe, a file that is read while it grows, or the  *)
(* string once it is complete.  The reader takes item until it is EOF, and *)
(* when next fails it calls it again: a user's.  The loops of the library  *)
(* stop there (cad_cgi.c:382, cad_stache.c:130), and read a prefix.        *)
(***************************************************************************)
EXTENDS OutputStream

CONSTANT
    BufferSize   \* BUFFER_SIZE, 4096 in the code

ASSUME InputAssumption == BufferSize \in Nat \ {0}

EOF == -1

VARIABLES
    reader,   \* "none", "reading", "failed" (next returned -1) or "done"
    buffer,   \* this->buffer; for a string, the string itself
    max,      \* this->max
    index,    \* this->index
    fetched,  \* how many bytes of the device were read
    ferror,   \* the error indicator of the FILE, which stays set
    got       \* the bytes the reader has taken

inVars == <<reader, buffer, max, index, fetched, ferror, got>>
vars == <<outVars, inVars>>

TypeOK ==
    /\ kind \in Kinds
    /\ \A i \in DOMAIN block : block[i] \in Bytes \cup {JUNK}
    /\ device \in Seq(Bytes \cup {JUNK})
    /\ reader \in {"none", "reading", "failed", "done"}
    /\ kind # "string" => max \in -1 .. BufferSize
    /\ max > 0 => index \in 0 .. max - 1
    /\ fetched \in 0 .. Len(device)

Init ==
    /\ OutInit
    /\ reader = "none"
    /\ buffer = [i \in 1 .. BufferSize |-> JUNK]
    /\ max = -1
    /\ index = 0
    /\ fetched = 0
    /\ ferror = FALSE
    /\ got = <<>>

\* item, of any of the streams.
item ==
    IF kind = "string"
    THEN IF buffer[index + 1] = NUL THEN EOF ELSE buffer[index + 1]
    ELSE IF max = 0 THEN EOF ELSE buffer[index + 1]

Available == Len(device) - fetched

\* The buffer is filled with n bytes of the device; the others stay.
Fill(n) ==
    /\ buffer' = [i \in 1 .. BufferSize |->
                     IF i <= n THEN device[fetched + i] ELSE buffer[i]]
    /\ fetched' = fetched + n
    /\ max' = n
    /\ index' = 0

\* read(2) returns what there is, or part of it, and 0 at the end only; fread
\* waits for a full buffer or the end.
Reads ==
    LET most == Min({BufferSize, Available})
    IN  IF kind = "file"
        THEN {n \in {most} : n = BufferSize \/ closed}
        ELSE {n \in 0 .. most : n = 0 => closed /\ Available = 0}

\* Mutant: the buffer is read once more before its last byte was taken.
refill_early(last) == max # 0 /\ last + 2 >= max

\* next must read: the last byte of the buffer was taken.
refill(last) == max # 0 /\ last + 1 >= max

\* The call of read or fread in next, which returns r.
Refill(r) ==
    \/ \E n \in Reads :
          /\ Fill(n)
          /\ r = IF kind = "file" /\ n = 0 /\ ferror THEN -1 ELSE 0
          /\ UNCHANGED <<ferror, faults>>
    \/ /\ kind = "descriptor"
       /\ Fault("read")
       /\ max' = -1
       /\ index' = 0
       /\ r = -1
       /\ UNCHANGED <<buffer, fetched, ferror>>
    \/ /\ kind = "file"
       /\ Fault("read")
       /\ ferror' = TRUE
       /\ \E n \in 0 .. Min({BufferSize - 1, Available}) :
             /\ Fill(n)
             /\ r = IF n = 0 THEN -1 ELSE 0

StillOut == UNCHANGED <<kind, block, count, pending, device, closed, call, puts,
                        given, returned, torn, overrun>>

Outcome(r) == reader' = IF r = -1 THEN "failed" ELSE "reading"

new_string ==
    /\ kind = "string"
    /\ reader = "none"
    /\ closed
    /\ block # <<>>
    /\ buffer' = block
    /\ reader' = "reading"
    /\ UNCHANGED <<max, index, fetched, ferror, got, faults>>
    /\ StillOut

\* The constructor calls next for the first byte and ignores what it returns.
new_buffered ==
    /\ kind # "string"
    /\ reader = "none"
    /\ \E r \in {-1, 0} :
          /\ Refill(r)
          /\ r = -1 /\ kind = "descriptor" => "first_read" \in Faults
    /\ reader' = "reading"
    /\ UNCHANGED got
    /\ StillOut

\* The reader takes the current byte and asks for the next one.
Takes ==
    /\ reader = "reading"
    /\ item # EOF
    /\ got' = Append(got, item)

next_string ==
    /\ kind = "string"
    /\ Takes
    /\ index' = index + 1
    /\ UNCHANGED <<reader, buffer, max, fetched, ferror, faults>>
    /\ StillOut

next_buffered ==
    /\ kind # "string"
    /\ Takes
    /\ \/ /\ refill(index)
          /\ \E r \in {-1, 0} : Refill(r) /\ Outcome(r)
       \/ /\ ~refill(index)
          /\ index' = IF max = 0 THEN index ELSE index + 1
          /\ UNCHANGED <<reader, buffer, max, fetched, ferror, faults>>
    /\ StillOut

\* Mutant: a failed stream stays failed.
next_again_sticky ==
    /\ reader = "failed"
    /\ UNCHANGED vars

\* A reader that does not give up calls next again, as no loop of the library does.
next_again ==
    /\ reader = "failed"
    /\ \/ /\ refill(index)
          /\ \E r \in {-1, 0} : Refill(r) /\ Outcome(r)
       \/ /\ max = 0
          /\ Outcome(0)
          /\ UNCHANGED <<buffer, max, index, fetched, ferror, faults>>
    /\ UNCHANGED got
    /\ StillOut

\* The reader meets EOF and frees the stream.
free_input ==
    /\ reader = "reading"
    /\ item = EOF
    /\ reader' = "done"
    /\ UNCHANGED <<buffer, max, index, fetched, ferror, got, faults>>
    /\ StillOut

Reader == new_string \/ new_buffered \/ next_string \/ next_buffered \/ next_again \/ free_input

Writer == OutNext /\ UNCHANGED inVars

\* Everybody is done.
Finished ==
    /\ closed
    /\ reader = "done" \/ (kind = "string" /\ block = <<>>)
    /\ UNCHANGED vars

Next == Writer \/ Reader \/ Finished

Spec == Init /\ [][Next]_vars

\* The loop of a reader goes on; the writer need not.
FairSpec == Spec /\ WF_vars(Reader)

------------------------------------------------------------------------------

\* At EOF a reader of a FILE must still ask whether the FILE failed.
Channel ==
    INSTANCE ByteChannel WITH taken <- Taken, over <- (reader = "done" /\ ~ferror)

\* Bytes come out as they were put in, each once and in order, whatever the sizes
\* of reads and writes and whichever reads fail; and EOF is met only at the end.
ImplementsByteChannel == Channel!Spec

\* A reader that goes on after failures meets the end of a closed channel.
ReaderEnds == (closed /\ reader # "none") ~> (reader = "done")
=============================================================================
