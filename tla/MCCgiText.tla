------------------------------ MODULE MCCgiText ------------------------------
(***************************************************************************)
(* Every text of a few characters, given to the parser of forms and to the *)
(* conversions of CgiText, which are compared with what they should do.    *)
(***************************************************************************)
EXTENDS QueryParser

A == 97

Queries == BoundedSeq({A, EQUAL, AMP, PERCENT, PLUS, 50, 54}, 5)
Escapes == BoundedSeq({EQUAL, AMP, LF, PERCENT, ZERO}, 5)
Cookies == BoundedSeq({A, EQUAL, SEMICOLON, PERCENT, SPACE, 51, 100}, 4)
Types == BoundedSeq({A, SLASH, SEMICOLON, EQUAL, QUOTE}, 5)
Bodies == BoundedSeq({A, CR, LF}, 6)
AllTexts == Queries \cup Escapes \cup Cookies \cup Types \cup Bodies

ShortTexts == BoundedSeq({A, EQUAL, PERCENT}, 2)

\* The conversions are checked once for each text.
Fresh == pos = 1 /\ ~failed /\ ~ended

\* A value comes back as it was set: encode_value, a browser that sends the two
\* cookies it was given, parse_cookies.
CookieRoundTrip ==
    Fresh =>
        LET other == Reverse(text)
            sent == <<A, EQUAL>> \o encode_value(text) \o <<SEMICOLON, SPACE, A, A, EQUAL>>
                       \o encode_value(other)
        IN  parse_cookies(sent) = [n \in {<<A>>, <<A, A>>} |-> IF n = <<A>> THEN text ELSE other]

\* The type is what stands before the first slash, the subtype what stands between
\* it and the first semicolon behind it, whatever follows.
ContentTypeRead ==
    Fresh =>
        LET slash == First(text, Len(text), 1, {SLASH})
            rest == SubSeq(text, slash + 1, Len(text))
            read == content_type(text)
        IN  /\ read.type = SubSeq(text, 1, slash - 1)
            /\ read.subtype = SubSeq(rest, 1, First(rest, Len(rest), 1, {SEMICOLON}) - 1)

\* Each line of the body, ended by CR, LF or CR LF, is sent ended by CR LF.
Line(t, i) ==
    IF t[i] = LF /\ i > 1 /\ t[i - 1] = CR THEN <<>>
    ELSE IF t[i] \in {CR, LF} THEN <<CR, LF>> ELSE <<t[i]>>

Lines(t) == FlattenSeq([i \in DOMAIN t |-> Line(t, i)])

\* flush_body sends the lines of the body, if it does not end with a lone CR.
BodyLines == Fresh => (text = <<>> \/ Last(text) # CR => flush_body(text) = Lines(text))

\* The same for every body: not so, a last lone CR is left alone.
AllBodyLines == Fresh => flush_body(text) = Lines(text)

\* A parameter a=v is read as it stands: not so, its characters come twice.
ParametersRead ==
    Fresh =>
        LET t == <<A, SLASH, A, SEMICOLON, A, EQUAL>> \o text
        IN  SEMICOLON \notin ToSet(text) /\ QUOTE \notin ToSet(text)
               => content_type(t).parameters = (<<A>> :> text)

\* No parameter is set under NULL: not so, when nothing stands before the =.
ParametersNamed == Fresh => ~content_type(text).null
=============================================================================
