----------------------------- MODULE QueryParser -----------------------------
(***************************************************************************)
(* parse_query_or_form of src/src/cad_cgi.c, one action per case of its    *)
(* loop.  The text comes from an input stream: a string stream for         *)
(* QUERY_STRING, whose next succeeds until the end, or the stream of the   *)
(* request for a form, whose next may fail.                                *)
(***************************************************************************)
EXTENDS CgiText, FiniteSetsExt

CONSTANTS
    Inputs,   \* the texts to parse
    Fails,    \* whether next may fail
    Lasting   \* whether a stream that failed once fails for ever

\* A text is a sequence of characters.
ASSUME InputsAssumption == Inputs \subseteq Seq(Int)

VARIABLES
    text, pos,         \* the stream: its text and the place of item
    s,                 \* the state of the parser, negative once it gives up
    attribute, value,  \* the strings that are being put together
    encoded,           \* the character that is being decoded
    pairs,             \* the table: attributes to values
    failed,            \* next has failed
    ended              \* the parser has returned

parserVars == <<text, pos, s, attribute, value, encoded, pairs, failed, ended>>

\* A value is empty while an attribute is read, an attribute never once its value
\* is read; an escape belongs to one or the other.
ParserTypeOK ==
    /\ pos \in 1 .. Len(text) + 1
    /\ s \in {1, 2, 3, 11, 12, 13} \cup {-1, -2, -3, -11, -12, -13}
    /\ ~ended /\ s \in -3 .. 3 => value = <<>>
    /\ ~ended /\ s \notin -3 .. 3 => attribute # <<>>
    /\ encoded \in 0 .. 15

ParserInit ==
    /\ text \in Inputs
    /\ pos = 1
    /\ s = 1
    /\ attribute = <<>>
    /\ value = <<>>
    /\ encoded = 0
    /\ pairs = <<>>
    /\ failed = FALSE
    /\ ended = FALSE

------------------------------------------------------------------------------

Looping == ~ended /\ pos <= Len(text) /\ s > 0
char == text[pos]

\* The end of the loop's body: next, then the next character; if next fails the
\* state is negated, and the character stays.
Advance(state) ==
    /\ Looping
    /\ UNCHANGED <<text, ended>>
    /\ \/ /\ ~(failed /\ Lasting)
          /\ pos' = pos + 1
          /\ s' = state
          /\ UNCHANGED failed
       \/ /\ Fails
          /\ ~failed \/ Lasting
          /\ failed' = TRUE
          /\ s' = -state
          /\ UNCHANGED pos

\* A character goes to the string that is being read.
PutChar(x) ==
    IF s < 10 THEN attribute' = Append(attribute, x) /\ UNCHANGED value
              ELSE value' = Append(value, x) /\ UNCHANGED attribute

\* The table maps the C string of the attribute to that of the value.
Set == pairs' = Put(pairs, CText(attribute), CText(value))

case_equal ==
    /\ s = 1 /\ char = EQUAL
    /\ Advance(IF attribute = <<>> THEN -1 ELSE 11)
    /\ UNCHANGED <<attribute, value, encoded, pairs>>

case_separator ==
    /\ s = 11 /\ char \in {AMP, LF}
    /\ Advance(1)
    /\ Set
    /\ attribute' = <<>>
    /\ value' = <<>>
    /\ UNCHANGED encoded

case_percent ==
    /\ s \in {1, 11} /\ char = PERCENT
    /\ Advance(s + 1)
    /\ encoded' = 0
    /\ UNCHANGED <<attribute, value, pairs>>

case_plain ==
    /\ \/ s = 1 /\ char \notin {EQUAL, PERCENT}
       \/ s = 11 /\ char \notin {AMP, LF, PERCENT}
    /\ Advance(s)
    /\ PutChar(IF char = PLUS THEN SPACE ELSE char)
    /\ UNCHANGED <<encoded, pairs>>

\* Mutant: a character that is no digit is waited over.
case_first_hex_waits ==
    /\ s \in {2, 12}
    /\ \/ /\ IsHex(char)
          /\ Advance(s + 1)
          /\ encoded' = hex(char)
       \/ /\ Looping /\ ~IsHex(char)
          /\ UNCHANGED <<text, pos, s, encoded, failed, ended>>
    /\ UNCHANGED <<attribute, value, pairs>>

case_first_hex ==
    /\ s \in {2, 12}
    /\ Advance(IF IsHex(char) THEN s + 1 ELSE -s)
    /\ encoded' = IF IsHex(char) THEN hex(char) ELSE encoded
    /\ UNCHANGED <<attribute, value, pairs>>

case_second_hex ==
    /\ s \in {3, 13}
    /\ \/ IsHex(char) /\ Advance(s - 2) /\ PutChar(Char(encoded * 16 + hex(char)))
       \/ ~IsHex(char) /\ Advance(-s) /\ UNCHANGED <<attribute, value>>
    /\ UNCHANGED <<encoded, pairs>>

\* Mutant: a value is set although the escape at its end is not complete.
finish_early ==
    /\ ~ended /\ ~Looping
    /\ IF s \notin -3 .. 3 THEN Set ELSE UNCHANGED pairs
    /\ attribute' = <<>>
    /\ value' = <<>>
    /\ ended' = TRUE
    /\ UNCHANGED <<text, pos, s, encoded, failed>>

\* After the loop: the value that was being read is set, anything else is freed.
finish ==
    /\ ~ended /\ ~Looping
    /\ IF s \in {11, -11} THEN Set ELSE UNCHANGED pairs
    /\ attribute' = <<>>
    /\ value' = <<>>
    /\ ended' = TRUE
    /\ UNCHANGED <<text, pos, s, encoded, failed>>

Returned == ended /\ UNCHANGED parserVars

Loop ==
    Looping /\ (\/ case_equal \/ case_separator \/ case_percent \/ case_plain
                \/ case_first_hex \/ case_second_hex)

ParserNext == Loop \/ finish \/ Returned

ParserSpec == ParserInit /\ [][ParserNext]_parserVars /\ WF_parserVars(Loop \/ finish)

------------------------------------------------------------------------------
\* What a form means

Whole(t) == \A i \in DOMAIN t : t[i] = PERCENT =>
    i + 2 <= Len(t) /\ IsHex(t[i + 1]) /\ IsHex(t[i + 2])

\* The characters of a text without incomplete escapes.  An escape stands for one
\* character, put where it ends.
Piece(t, i) ==
    IF t[i] = PERCENT \/ (i > 1 /\ t[i - 1] = PERCENT) THEN <<>>
    ELSE IF i > 2 /\ t[i - 2] = PERCENT THEN <<Char(hex(t[i - 1]) * 16 + hex(t[i]))>>
    ELSE IF t[i] = PLUS THEN <<SPACE>>
    ELSE <<t[i]>>

Decoded(t) == FlattenSeq([i \in DOMAIN t |-> Piece(t, i)])

Separators == {AMP, LF}

\* A separator that ends a value: there is an equal sign before it, and no separator
\* between the two.
EndsPair(t, p) ==
    /\ t[p] \in Separators
    /\ \E e \in 1 .. p - 1 : t[e] = EQUAL /\ \A i \in e .. p - 1 : t[i] \notin Separators

\* Where the pairs of the first n characters of t start.
Starts(t, n) == {1} \cup {p + 1 : p \in {p \in 1 .. n : EndsPair(t, p)}}

\* The place of the first character of S from k on, or n + 1.
First(t, n, k, S) == Min({i \in k .. n : t[i] \in S} \cup {n + 1})

\* The pair that starts at k is cut at the first equal sign, and ends before the first
\* separator behind it.
Equal(t, n, k) == First(t, n, k, {EQUAL})
Attribute(t, n, k) == SubSeq(t, k, Equal(t, n, k) - 1)
Value(t, n, k) ==
    SubSeq(t, Equal(t, n, k) + 1, First(t, n, Equal(t, n, k) + 1, Separators) - 1)

\* It has an attribute and a value, without incomplete escapes.
Good(t, n, k) ==
    /\ Equal(t, n, k) <= n
    /\ Attribute(t, n, k) # <<>>
    /\ Whole(Attribute(t, n, k))
    /\ Whole(Value(t, n, k))

Name(t, n, k) == CText(Decoded(Attribute(t, n, k)))

\* The attributes of the pairs that start at K, each with its last value.
Table(t, n, K) ==
    [x \in {Name(t, n, k) : k \in K} |->
        CText(Decoded(Value(t, n, Max({k \in K : Name(t, n, k) = x}))))]

\* All pairs, up to the first that is not good.
Meaning(t, n) ==
    Table(t, n, {k \in Starts(t, n) : \A j \in Starts(t, n) : j <= k => Good(t, n, j)})

\* The table is what the text means; when next fails it is what the part that was
\* read means, nothing twice and nothing invented, and the failure is not reported.
QueryMeaning ==
    ended => pairs = Meaning(text, IF failed THEN Min({pos, Len(text)}) ELSE Len(text))

\* The parser returns.
ParseEnds == <>ended
=============================================================================
