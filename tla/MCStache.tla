------------------------------ MODULE MCStache -------------------------------
(***************************************************************************)
(* The template engine on every template of a few tokens, against the      *)
(* reference.                                                              *)
(***************************************************************************)
EXTENDS Stache

INSTANCE StacheReference

Tag(kind, name) == [kind |-> kind, name |-> name]

String(content) == [type |-> "string", content |-> content]
List(items) == [type |-> "list", items |-> items]
Partial(stream) == [type |-> "partial", stream |-> stream]

Texts(chars) == [i \in DOMAIN chars |-> Text(chars[i])]

\* s is a string, l a list, p a partial or a string.
Env(s, l, p) == [s |-> String(Texts(s)), l |-> List(Texts(l)), p |-> p,
                 failing |-> FALSE, broken |-> FALSE, refusing |-> FALSE]

\* The string of the last one has a tag in it.
MCEnvironments ==
    { Env(<<"<", "a">>, <<"b", "&">>, Partial(<<Text("c"), Tag("escape", "item")>>)),
      Env(<<>>, <<"b">>, Partial(<<>>)),
      Env(<<>>, <<"b", "&", "d">>, Partial(<<Tag("while", "l"), Text("c"), Tag("end", "l")>>)),
      Env(<<">">>, <<>>, String(<<Text("c"), Tag("escape", "s")>>)) }

Broken == {[e EXCEPT !.broken = TRUE] : e \in MCEnvironments}
Failing == {[e EXCEPT !.failing = TRUE] : e \in MCEnvironments}
Faulty == {[e EXCEPT !.failing = TRUE] : e \in Broken}
Refusing == {[e EXCEPT !.refusing = TRUE] : e \in MCEnvironments}

\* The partial is missing, or has one character.
MissingPartial == {Env(<<"<">>, <<"b">>, NotFound), Env(<<"<">>, <<"b">>, Partial(NULL))}
ShortPartial == {Env(<<"<">>, <<"b">>, Partial(<<Text("c")>>))}

Variables == {Tag("raw", "s"), Tag("escape", "s"), Tag("escape", "item")}
Pairs == {Tag("while", "l"), Tag("end", "l"), Tag("while", "s"), Tag("end", "s")}
Sections == Pairs \cup {Tag("else", "l")}
Partials == {Tag("partial", "p")}
SectionsOnPartial == {Tag("while", "p"), Tag("else", "p"), Tag("end", "p")}
WrongTypes == {Tag("raw", "l"), Tag("escape", "p"), Tag("partial", "l"),
               Tag("escape", "")}

\* The calls of render with a template of at most so many of the tokens.
UpTo(length, tokens, environments) ==
    [template : UNION {[1 .. n -> {Text("a")} \cup tokens] : n \in 0 .. length},
     env : environments]

\* Everything a template may hold, on streams that may fail; what is rendered,
\* whatever fails; and longer templates of sections, with nothing that fails.
MCCalls ==
    UpTo(3, {Tag("escape", "item"), Tag("comment", ""), Tag("delimiters", ""),
             Tag("unclosed", "")}
               \cup Sections \cup Partials \cup SectionsOnPartial \cup WrongTypes,
         Broken)
    \cup UpTo(3, Variables \cup Partials, Refusing)
    \cup UpTo(4, {Tag("escape", "item")} \cup Pairs \cup Partials, Faulty)
    \cup UpTo(4, Variables \cup Sections \cup Partials, MCEnvironments)
    \cup UpTo(5, {Tag("escape", "item")} \cup Sections, MCEnvironments)
    \cup UpTo(6, {Tag("escape", "item"), Tag("while", "l"), Tag("end", "l")},
              MCEnvironments)

Splice == {Tag("escape", "item"), Tag("while", "l"), Tag("end", "l")} \cup Partials
MCLast == UpTo(4, Splice, MCEnvironments)
MCCloseFails == UpTo(3, Splice, Failing)
MCMissingPartial == UpTo(3, Partials, MissingPartial)
MCShortPartial == UpTo(4, SectionsOnPartial, ShortPartial)
MCDelimiters == UpTo(2, {Tag("delimiters", "")}, MCEnvironments)
MCUnclosed == UpTo(2, {Tag("unclosed", "")}, MCEnvironments)
MCRefusing == UpTo(2, Variables, Refusing)

------------------------------------------------------------------------------

Returned(r) == status = "returned" /\ result = r

\* Every tag is closed.
Closed == \A i \in DOMAIN template : template[i].kind # "unclosed"

Meaning == Rendered(Flat(template, env), env, NotFound)

\* Of a render that returns 0 a template of closed tags is well formed, and what was given to
\* the output stream, character by character, is what the template means:
\* whatever is nested in what, read again for each item, spliced in from
\* partials, and whichever stream that is read, or release, fails.  What the
\* output stream refuses is missing, and render says nothing of it.
RendersReference ==
    Returned(0) /\ Closed =>
                   /\ Acceptable(template, env)
                   /\ Len(out) = Len(Meaning)
                   /\ \A i \in DOMAIN out : out[i] \in {Meaning[i], REFUSED}

\* "0 if OK, -1 if error": a render that returns 0 put all of its output.
OutputReported == Returned(0) => \A i \in DOMAIN out : out[i] # REFUSED

\* A well-formed template that ends in text is rendered if nothing of the user's
\* fails: the engine reports no error of its own making.
AcceptsTextEnded ==
    LET endsInText == template # <<>> /\ Last(template).kind = "text"
    IN  Returned(-1) /\ ~env.failing /\ ~env.broken /\ endsInText
            => ~Acceptable(template, env)

\* A well-formed template is rendered.
AcceptsWellFormed == Returned(-1) => ~Acceptable(template, env)

\* An invalid tag is reported.
ReportsInvalid == Returned(0) => Closed

\* A change of the delimiters that has its closing equal sign is accepted.
DelimitersChange == status # "failed"
==============================================================================
