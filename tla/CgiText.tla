------------------------------- MODULE CgiText -------------------------------
(***************************************************************************)
(* The conversions of src/src/cad_cgi.c and src/src/cad_cgi_cookies.c that *)
(* read or write text, as loops over its characters.  A character is its   *)
(* ASCII code, a text the sequence of its characters without the closing   *)
(* NUL.  What each loop keeps between two characters is a record with the  *)
(* names of its variables.  A string stream to which nothing was put       *)
(* leaves NULL, written <<>> here like the empty text.                     *)
(***************************************************************************)
EXTENDS Integers, Sequences, SequencesExt, TLC

LF == 10
CR == 13
SPACE == 32
QUOTE == 34
PERCENT == 37
AMP == 38
PLUS == 43
DOT == 46
SLASH == 47
ZERO == 48
SEMICOLON == 59
EQUAL == 61

Digit(c) == c \in 48 .. 57
Upper(c) == c \in 65 .. 70
Lower(c) == c \in 97 .. 102
IsHex(c) == Digit(c) \/ Upper(c) \/ Lower(c)

\* The value of a hexadecimal digit, and 0 for anything else.
hex(c) ==
    CASE Digit(c) -> c - 48
      [] Upper(c) -> c + 10 - 65
      [] Lower(c) -> c + 10 - 97
      [] OTHER    -> 0

\* An int stored in a char, which is signed and has 8 bits.
Char(n) == ((n + 128) % 256) - 128

\* What a C string holds: the characters before the first NUL.
CText(t) == IF Contains(t, 0) THEN SubSeq(t, 1, SelectInSeq(t, LAMBDA c : c = 0) - 1) ELSE t

\* f with v at x.
Put(f, x, v) == [y \in DOMAIN f \cup {x} |-> IF y = x THEN v ELSE f[y]]

------------------------------------------------------------------------------
\* Cookies

\* Mutant: the percent sign itself is not escaped.
encode_value_raw_percent(value) ==
    FlattenSeq([i \in DOMAIN value |->
        CASE value[i] = EQUAL     -> <<PERCENT, 51, 100>>
          [] value[i] = SEMICOLON -> <<PERCENT, 51, 98>>
          [] OTHER                -> <<value[i]>>])

\* %, = and ; are escaped.
Escaped(c) ==
    CASE c = PERCENT   -> <<PERCENT, 50, 53>>
      [] c = EQUAL     -> <<PERCENT, 51, 100>>
      [] c = SEMICOLON -> <<PERCENT, 51, 98>>
      [] OTHER         -> <<c>>

encode_value(value) == FlattenSeq([i \in DOMAIN value |-> Escaped(value[i])])

value_step(st, c) ==
    CASE st.s = 0 /\ c = PERCENT -> [st EXCEPT !.s = 1]
      [] st.s = 0 /\ c # PERCENT -> [st EXCEPT !.r = Append(@, c)]
      [] st.s = 1                -> [st EXCEPT !.s = 2, !.d = hex(c)]
      [] st.s = 2                -> [st EXCEPT !.s = 0,
                                               !.r = Append(@, Char(st.d * 16 + hex(c)))]

parse_cookie_value(t) ==
    LET at[n \in 0 .. Len(t)] ==
            IF n = 0 THEN [s |-> 0, d |-> 0, r |-> <<>>] ELSE value_step(at[n - 1], t[n])
    IN  at[Len(t)].r

\* A cookie that the browser sent is put in the jar, in place of an older one of
\* the same name.  NoValue stands for the value that is not initialised.
Stored(st, value) == [st EXCEPT !.jar = Put(@, st.name, value), !.name = <<>>]

NoValue == <<0>>

cookies_step(st, c) ==
    CASE st.state = 1 /\ c = EQUAL            -> [st EXCEPT !.state = 2, !.value = <<>>]
      [] st.state = 1 /\ c \in {0, SEMICOLON} -> [Stored(st, NoValue) EXCEPT !.state = 3]
      [] st.state = 1 /\ c \notin {0, SEMICOLON, EQUAL} ->
            [st EXCEPT !.name = Append(@, c)]
      [] st.state = 2 /\ c \in {0, SEMICOLON} ->
            [Stored(st, CText(parse_cookie_value(st.value))) EXCEPT !.state = 3]
      [] st.state = 2 /\ c \notin {0, SEMICOLON} -> [st EXCEPT !.value = Append(@, c)]
      [] st.state = 3 /\ c \in {0, SPACE}     -> st
      [] st.state = 3 /\ c \notin {0, SPACE}  -> [st EXCEPT !.state = 1, !.name = <<c>>]

\* The jar made of HTTP_COOKIE: names to values.  The closing NUL is read too.
parse_cookies(http_cookie) ==
    LET t == Append(http_cookie, 0)
        at[n \in 0 .. Len(t)] ==
            IF n = 0 THEN [state |-> 1, name |-> <<>>, value |-> <<>>, jar |-> <<>>]
            ELSE cookies_step(at[n - 1], t[n])
    IN  IF http_cookie = <<>> THEN <<>> ELSE at[Len(t)].jar

------------------------------------------------------------------------------
\* Content-Type

\* The parameter that was read, set in the table, and an empty attribute.  The
\* table hashes the characters of the attribute, which must not be NULL.
Parameter(st) ==
    [st EXCEPT !.parameters = Put(@, st.attribute, st.value),
               !.null = @ \/ st.attribute = <<>>,
               !.attribute = <<>>, !.value = <<>>, !.s = 2]

\* The code of `case 4`, which `case 3` falls into: the stream that it puts to is
\* that of the value, or that of the next attribute after a semicolon.
quoted_step(st, c) ==
    IF c = QUOTE THEN [st EXCEPT !.s = 5]
    ELSE IF st.s = 2 THEN [st EXCEPT !.attribute = Append(@, c)]
    ELSE [st EXCEPT !.value = Append(@, c)]

\* A quote only leads to state 4 when attribute is NULL: at the start of a value,
\* when nothing stood before the equal sign.
plain_step(st, c) ==
    CASE c = SEMICOLON -> Parameter(st)
      [] c = QUOTE     -> [st EXCEPT !.s = IF st.attribute = <<>> THEN 4 ELSE 3]
      [] OTHER         -> [st EXCEPT !.value = Append(@, c)]

\* Mutant: the subtype ends at the next slash, not at the semicolon.
content_type_step_slash(st, c) ==
    CASE st.s = 0 /\ c = SLASH     -> [st EXCEPT !.s = 1]
      [] st.s = 0 /\ c # SLASH     -> [st EXCEPT !.type = Append(@, c)]
      [] st.s = 1 /\ c = SLASH     -> [st EXCEPT !.s = 2]
      [] st.s = 1 /\ c # SLASH     -> [st EXCEPT !.subtype = Append(@, c)]
      [] OTHER                     -> st

content_type_step(st, c) ==
    CASE st.s = 0 /\ c = SLASH     -> [st EXCEPT !.s = 1]
      [] st.s = 0 /\ c # SLASH     -> [st EXCEPT !.type = Append(@, c)]
      [] st.s = 1 /\ c = SEMICOLON -> [st EXCEPT !.s = 2]
      [] st.s = 1 /\ c # SEMICOLON -> [st EXCEPT !.subtype = Append(@, c)]
      [] st.s = 2 /\ c = EQUAL     -> [st EXCEPT !.s = 3]
      [] st.s = 2 /\ c # EQUAL     -> [st EXCEPT !.attribute = Append(@, c)]
      [] st.s = 3                  -> quoted_step(plain_step(st, c), c)
      [] st.s = 4                  -> quoted_step(st, c)
      [] st.s = 5 /\ c = SEMICOLON -> Parameter(st)
      [] st.s = 5 /\ c # SEMICOLON -> st

\* What is read of CONTENT_TYPE; a last parameter that is complete is set.
content_type(t) ==
    LET at[n \in 0 .. Len(t)] ==
            IF n = 0 THEN [s |-> 0, type |-> <<>>, subtype |-> <<>>, attribute |-> <<>>,
                           value |-> <<>>, parameters |-> <<>>, null |-> FALSE]
            ELSE content_type_step(at[n - 1], t[n])
        end == at[Len(t)]
    IN  IF end.s \in {3, 5} THEN Parameter(end) ELSE end

------------------------------------------------------------------------------
\* Versions

\* The digits of a version are accumulated on what the fields hold already.
version_step(st, c) ==
    CASE st.s = "major" /\ c = DOT -> [st EXCEPT !.s = "minor"]
      [] st.s = "major" /\ c # DOT ->
            [st EXCEPT !.major = @ * 10 + c - 48,
                       !.s = IF st.major * 10 + c < 48 THEN "wrong" ELSE @]
      [] st.s = "minor" ->
            [st EXCEPT !.minor = @ * 10 + c - 48,
                       !.s = IF st.minor * 10 + c < 48 THEN "wrong" ELSE @]
      [] st.s = "wrong" -> st

Version(t, v) ==
    LET end == FoldLeft(version_step, [s |-> "major", major |-> v.major, minor |-> v.minor], t)
    IN  [major |-> end.major, minor |-> end.minor]

\* "CGI/" and a version, accumulated on v.
gateway_interface(t, v) ==
    IF IsPrefix(<<67, 71, 73, SLASH>>, t) THEN Version(SubSeq(t, 5, Len(t)), v) ELSE v

NoVersion == [major |-> 0, minor |-> 0]

\* A name, a slash and a version; the slash is overwritten with a NUL in the
\* environment itself, of which `left` is what remains.
server_protocol(t) ==
    LET slash == SelectInSeq(t, LAMBDA c : c = SLASH)
    IN  IF slash = 0
        THEN [protocol |-> t, version |-> NoVersion, left |-> t]
        ELSE [protocol |-> SubSeq(t, 1, slash - 1),
              version |-> Version(SubSeq(t, slash + 1, Len(t)), NoVersion),
              left |-> SubSeq(t, 1, slash - 1)]

------------------------------------------------------------------------------
\* The body of a response

\* Mutant: a carriage return followed by another one does not end its line.
body_step_one_cr(st, c) ==
    CASE st.status = 0 /\ c = CR -> [status |-> 1, out |-> Append(st.out, CR)]
      [] st.status = 0 /\ c = LF -> [st EXCEPT !.out = @ \o <<CR, LF>>]
      [] st.status = 0 /\ c \notin {CR, LF} -> [st EXCEPT !.out = Append(@, c)]
      [] st.status = 1 /\ c = CR -> st
      [] st.status = 1 /\ c = LF -> [status |-> 0, out |-> Append(st.out, LF)]
      [] st.status = 1 /\ c \notin {CR, LF} -> [status |-> 0, out |-> st.out \o <<LF, c>>]

body_step(st, c) ==
    CASE st.status = 0 /\ c = CR -> [status |-> 1, out |-> Append(st.out, CR)]
      [] st.status = 0 /\ c = LF -> [st EXCEPT !.out = @ \o <<CR, LF>>]
      [] st.status = 0 /\ c \notin {CR, LF} -> [st EXCEPT !.out = Append(@, c)]
      [] st.status = 1 /\ c = CR -> [st EXCEPT !.out = @ \o <<LF, CR>>]
      [] st.status = 1 /\ c = LF -> [status |-> 0, out |-> Append(st.out, LF)]
      [] st.status = 1 /\ c \notin {CR, LF} -> [status |-> 0, out |-> st.out \o <<LF, c>>]

flush_body(body) ==
    LET at[n \in 0 .. Len(body)] ==
            IF n = 0 THEN [status |-> 0, out |-> <<>>] ELSE body_step(at[n - 1], body[n])
    IN  at[Len(body)].out
=============================================================================
