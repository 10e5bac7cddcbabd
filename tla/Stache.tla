------------------------------- MODULE Stache --------------------------------
(***************************************************************************)
(* The 'stache template engine (cad_stache.c): one call of render.         *)
(*                                                                         *)
(* A template is a sequence of tokens, each one character of text or a     *)
(* whole tag; what the engine reads ahead is the token after the current   *)
(* one.  A value is made of tokens too: the tags in it are put as they     *)
(* are, and parsed when the value is used as a partial.                    *)
(*                                                                         *)
(* The user's resolver answers for a name what the environment says,       *)
(* except for the name "item", which is the current item of the innermost  *)
(* open list.  The functions the user gives to release a resolved value    *)
(* may fail in an environment that is failing, the streams that are read   *)
(* in one that is broken, and the output in one that is refusing.          *)
(*                                                                         *)
(* Left out: an unclosed tag with three braces, and a change of delimiters *)
(* without a blank in it, for which the code looks past the end of the     *)
(* name (cad_stache.c:487-496).                                            *)
(***************************************************************************)
EXTENDS Integers, Sequences, SequencesExt, FiniteSets, TLC

CONSTANTS
    Calls,   \* what render is called with: a template and an environment
    NULL,    \* no stream
    FREED,   \* the name of a loop, once freed
    REFUSED  \* a character that the output stream did not take

Text(c) == [kind |-> "text", name |-> c]

\* What is left of a tag that lost its first characters: plain text.
Debris == Text("}")

Kinds == {"text", "raw", "escape", "while", "else", "end", "partial",
          "comment", "delimiters", "unclosed"}

\* The names the resolver has an answer for.
Answers(e) == DOMAIN e \ {"failing", "broken", "refusing"}

\* FREED is the name of no section, and a partial that is asked for is resolved.
TokenOK(token, e) ==
    /\ token.kind \in Kinds
    /\ token.kind \in {"while", "else"} => token.name # FREED
    /\ token.kind = "partial" => token.name \in Answers(e) \cup {"item"}

IsSeq(s) == s \in Seq({s[i] : i \in DOMAIN s})

StreamOK(s, e) == IsSeq(s) /\ \A i \in DOMAIN s : TokenOK(s[i], e)

ASSUME CallsAssumption ==
    \A call \in Calls :
        LET e == call.env
        IN  /\ StreamOK(call.template, e)
            /\ e.failing \in BOOLEAN
            /\ e.broken \in BOOLEAN
            /\ e.refusing \in BOOLEAN
            /\ \A name \in Answers(e) :
                  /\ e[name].type \in {"not_found", "string", "list", "partial"}
                  /\ e[name].type = "string" => StreamOK(e[name].content, e)
                  /\ e[name].type = "partial" /\ e[name].stream # NULL =>
                        StreamOK(e[name].stream, e)

VARIABLES
    template,   \* what the input stream holds when render is called
    env,        \* the answers of the resolver, and what may fail
    buffer,     \* struct buffer: data, index, eof, the streams left to read
    loops,      \* the open sections, the innermost last
    out,        \* what was put in the output stream, or refused by it
    held,       \* resolved values the engine got and did not release
    twice,      \* was the name of a loop freed twice?
    status,     \* where render is
    result      \* what render returns

vars == <<template, env, buffer, loops, out, held, twice, status, result>>

Init ==
    /\ \E call \in Calls : template = call.template /\ env = call.env
    /\ buffer = [data |-> <<>>, index |-> 0, eof |-> FALSE,
                 input |-> template, partials |-> <<>>]
    /\ loops = <<>>
    /\ out = <<>>
    /\ held = 0
    /\ twice = FALSE
    /\ status = "called"
    /\ result = 0

------------------------------------------------------------------------------
(* The buffer.  Its index is that of the code plus one, its fill is the     *)
(* length of its data.                                                      *)

\* The innermost partial once a token of it was read.
OneRead(partials) == [partials EXCEPT ![Len(partials)].stream = Tail(@)]

\* Mutant: the last token of a stream is taken for the end.
FilledEarlyEof(b, stream, broken) ==
    LET np == Len(b.partials)
    IN  [b EXCEPT !.index = @ + 1,
                  !.data = Append(@, Head(stream)),
                  !.eof = broken \/ Len(stream) = 1,
                  !.input = IF np = 0 THEN Tail(@) ELSE @,
                  !.partials = IF np = 0 THEN @ ELSE OneRead(@)]

\* A token is read from the stream, that of the innermost partial or that of the
\* template.  If the stream fails once a byte was read, that byte is the last.
Filled(b, stream, broken) ==
    LET np == Len(b.partials)
    IN  [b EXCEPT !.index = @ + 1,
                  !.data = Append(@, Head(stream)),
                  !.eof = broken,
                  !.input = IF np = 0 THEN Tail(@) ELSE @,
                  !.partials = IF np = 0 THEN @ ELSE OneRead(@)]

\* Mutant: what followed the tag of the partial is not put back.
LeavePartialForgets(b) ==
    [b EXCEPT !.index = @ + 1,
              !.data = Append(@, Debris),
              !.partials = Front(@)]

\* The innermost partial has ended: what followed its tag comes next.
LeavePartial(b) ==
    [b EXCEPT !.index = @ + 1,
              !.data = Append(@, Last(b.partials).save),
              !.partials = Front(@)]

\* The buffer once it is one token further, which may already be in the data.
\* At eof the code does nothing of this: see render_cut.
buffer_next(b, broken) ==
    LET i == b.index + 1
        np == Len(b.partials)
        stream == IF np > 0 THEN b.partials[np].stream ELSE b.input
    IN  CASE i <= Len(b.data) -> [b EXCEPT !.index = i]
          [] i > Len(b.data) /\ stream # <<>> -> Filled(b, stream, broken)
          [] i > Len(b.data) /\ stream = <<>> /\ np > 0 -> LeavePartial(b)
          [] i > Len(b.data) /\ stream = <<>> /\ np = 0 ->
                [b EXCEPT !.index = i, !.eof = TRUE]

buffer_eof == buffer.eof /\ buffer.index > Len(buffer.data)

buffer_item == buffer.data[buffer.index]

\* Output is skipped in an empty section, and in the inverse of one that is not.
buffer_skip_output ==
    \E i \in DOMAIN loops : loops[i].empty = (loops[i].type = "while")

\* What vput returns is not looked at: what was refused is missing, that is all.
buffer_output(chars) ==
    \/ buffer_skip_output /\ UNCHANGED out
    \/ /\ ~buffer_skip_output
       /\ \E lost \in IF env.refusing THEN SUBSET DOMAIN chars ELSE {{}} :
             out' = out \o [i \in DOMAIN chars |->
                                IF i \in lost THEN REFUSED ELSE chars[i]]

Reads == IF env.broken THEN BOOLEAN ELSE {FALSE}
Releases == IF env.failing THEN BOOLEAN ELSE {TRUE}

\* Partials are released as they are left.
Left(after) == Len(buffer.partials) - Len(after.partials)

------------------------------------------------------------------------------
(* The user's resolver.                                                      *)

NotFound == [type |-> "not_found"]

\* The current item of the innermost open list that has one.
CurrentItem ==
    LET lists == {i \in DOMAIN loops :
                    /\ loops[i].lookup.type = "list"
                    /\ loops[i].loop_index < Len(loops[i].lookup.items)}
        inner == CHOOSE i \in lists : \A j \in lists : j <= i
    IN  IF lists = {} THEN NotFound
        ELSE [type |-> "string",
              content |-> <<loops[inner].lookup.items[loops[inner].loop_index + 1]>>]

callback(name) == IF name = "item" THEN CurrentItem ELSE env[name]

\* The value of a variable: an empty name is an error, and nothing is asked for.
Variable(name) == IF name = "" THEN [type |-> "no_name"] ELSE callback(name)

------------------------------------------------------------------------------
(* The tags.                                                                 *)

Fails == status' = "failed"

\* The body of render_template once: the token at hand is of that kind, and the
\* buffer is past it.
At(kind) ==
    /\ status = "running"
    /\ buffer.index <= Len(buffer.data)
    /\ ~buffer.eof
    /\ buffer_item.kind = kind

\* The characters of a token.  Those of a tag are one, but for the ">" of a
\* partial's, which is escaped like any other.
Characters(token) ==
    CASE token.kind = "text"    -> token.name
      [] token.kind = "partial" -> "{{>}}"
      [] OTHER                  -> "{{}}"

\* What is put for one character of a value.
Escape(c) ==
    CASE c = "<"  -> "&lt;"
      [] c = ">"  -> "&gt;"
      [] c = "&"  -> "&amp;"
      [] c = "\"" -> "&quot;"
      [] c = "'"  -> "&apos;"
      [] c = "{{>}}" -> "{{&gt;}}"
      [] OTHER    -> c

\* A tag that stands for a value.  A list, a partial or an empty name is an
\* error; a list or a partial that was resolved is not released.
Value(v, chars, after) ==
    /\ buffer' = after
    /\ CASE v.type = "not_found" ->
              /\ held' = held - Left(after)
              /\ UNCHANGED <<out, status>>
         [] v.type = "string" ->
              /\ buffer_output(chars)
              /\ held' = held - Left(after)
              /\ \E ok \in Releases : IF ok THEN UNCHANGED status ELSE Fails
         [] v.type = "no_name" ->
              /\ held' = held - Left(after)
              /\ Fails
              /\ UNCHANGED out
         [] OTHER ->
              /\ held' = held + 1 - Left(after)
              /\ Fails
              /\ UNCHANGED out
    /\ UNCHANGED <<template, env, loops, twice, result>>

render_stache_raw ==
    /\ At("raw")
    /\ \E broken \in Reads :
          LET v == Variable(buffer_item.name)
              chars == IF v.type = "string"
                       THEN [i \in DOMAIN v.content |-> Characters(v.content[i])]
                       ELSE <<>>
          IN  Value(v, chars, buffer_next(buffer, broken))

render_stache_escape ==
    /\ At("escape")
    /\ \E broken \in Reads :
          LET v == Variable(buffer_item.name)
              chars == IF v.type = "string"
                       THEN [i \in DOMAIN v.content |->
                                Escape(Characters(v.content[i]))]
                       ELSE <<>>
          IN  Value(v, chars, buffer_next(buffer, broken))

\* Is the stream of a partial empty, as a section sees it: after one character?
\* A tag has several characters.
OneCharacter(stream) == Len(stream) = 1 /\ stream[1].kind = "text"

\* Is the section on that value empty?
IsEmpty(v) ==
    CASE v.type = "not_found" -> TRUE
      [] v.type = "string"    -> v.content = <<>>
      [] v.type = "list"      -> v.items = <<>>
      [] v.type = "partial"   -> v.stream = NULL \/ OneCharacter(v.stream)

\* A section opens, whatever its value.  A list is kept until the section ends,
\* a string or a partial is released.
render_stache_loop(type) ==
    /\ At(type)
    /\ \E broken \in Reads, ok \in Releases :
          LET v == callback(buffer_item.name)
              after == buffer_next(buffer, broken)
          IN  /\ buffer' = after
              /\ loops' = Append(loops,
                    [type |-> type, name |-> buffer_item.name, lookup |-> v,
                     buffer_index |-> after.index, loop_index |-> 0,
                     empty |-> IsEmpty(v)])
              /\ IF v.type = "list"
                 THEN held' = held + 1 - Left(after)
                 ELSE held' = held - Left(after)
              /\ IF \/ v.type = "partial" /\ v.stream = <<>>
                    \/ v.type \in {"string", "partial"} /\ ~ok
                 THEN Fails ELSE UNCHANGED status
    /\ UNCHANGED <<template, env, out, twice, result>>

render_stache_while == render_stache_loop("while")
render_stache_else == render_stache_loop("else")

\* A section on a list goes on with the next item.
Again(loop) ==
    /\ loop.lookup.type = "list"
    /\ loop.type = "while"
    /\ loop.loop_index + 1 < Len(loop.lookup.items)

\* Mutant: the section stays on the same item.
NextItemSame(loop) == loop

NextItem(loop) == [loop EXCEPT !.loop_index = @ + 1]

\* The loops once the innermost one has ended.  Its name is freed; if its list
\* could not be closed it stays among them.
Ended(ok) ==
    IF Last(loops).lookup.type = "list" /\ ~ok
    THEN [loops EXCEPT ![Len(loops)].name = FREED]
    ELSE Front(loops)

\* Mutant: the list of an inverse section is not closed.
ReleasesWhileOnly(loop) ==
    IF loop.lookup.type = "list" /\ loop.type = "while" THEN 1 ELSE 0

\* What the end of the section releases.
ReleasesList(loop) == IF loop.lookup.type = "list" THEN 1 ELSE 0

render_stache_end ==
    /\ At("end")
    /\ \E broken \in Reads, ok \in Releases :
          LET after == buffer_next(buffer, broken)
              loop == Last(loops)
              closes == /\ loops # <<>>
                        /\ loop.name = buffer_item.name
          IN  \/ \* closing non-open loop, or not that one
                 /\ ~closes
                 /\ buffer' = after
                 /\ held' = held - Left(after)
                 /\ Fails
                 /\ UNCHANGED loops
              \/ \* back to the start of the section
                 /\ closes /\ Again(loop)
                 /\ buffer' = [after EXCEPT !.index = loop.buffer_index]
                 /\ loops' = [loops EXCEPT ![Len(loops)] = NextItem(@)]
                 /\ held' = held - Left(after)
                 /\ UNCHANGED status
              \/ \* the section ends; a list is closed
                 /\ closes /\ ~Again(loop)
                 /\ buffer' = after
                 /\ loops' = Ended(ok)
                 /\ held' = held - ReleasesList(loop) - Left(after)
                 /\ IF loop.lookup.type = "list" /\ ~ok THEN Fails
                    ELSE UNCHANGED status
    /\ UNCHANGED <<template, env, out, twice, result>>

\* The name between = and = has no equal sign, since the first one ends it; the
\* test for one at its end always fails, so the delimiters never change.
render_stache_delimiters ==
    /\ At("delimiters")
    /\ \E broken \in Reads :
          LET after == buffer_next(buffer, broken)
          IN  buffer' = after /\ held' = held - Left(after)
    /\ Fails
    /\ UNCHANGED <<template, env, loops, out, twice, result>>

render_stache_comment ==
    /\ At("comment")
    /\ \E broken \in Reads :
          LET after == buffer_next(buffer, broken)
          IN  buffer' = after /\ held' = held - Left(after)
    /\ UNCHANGED <<template, env, loops, out, twice, status, result>>

\* The innermost partial once these tokens are to be read of it first.
ToRead(partials, tokens) ==
    [partials EXCEPT ![Len(partials)].stream = tokens \o @]

\* What is left of a tag without its first character: {{{name}}} is {{name}}}.
Beheaded(tag) ==
    IF tag.kind = "raw" THEN <<[tag EXCEPT !.kind = "escape"], Debris>>
    ELSE <<Debris>>

\* A buffer whose next token lost its first character.
Behead(b, token) ==
    LET np == Len(b.partials)
    IN  IF token.kind = "text" THEN b
        ELSE IF np = 0 THEN [b EXCEPT !.input = Beheaded(token) \o @]
        ELSE [b EXCEPT !.partials = ToRead(@, Beheaded(token))]

\* The tag, and the first character after it, are taken out of the data.  That
\* character is saved in the partial, or lost if there is none to read.
render_stache_partial ==
    /\ At("partial")
    /\ \E broken \in Reads, again \in Reads :
          LET start == buffer.index
              v == callback(buffer_item.name)
              after == buffer_next(buffer, broken)
              stream == CASE v.type = "string"  -> v.content
                          [] v.type = "partial" -> v.stream
                          [] OTHER              -> NULL
              saved == IF after.index <= Len(after.data)
                       THEN after.data[after.index] ELSE Debris
              cut == [after EXCEPT !.index = start - 1,
                                   !.data = SubSeq(@, 1, start - 1)]
              resumed == IF stream = NULL THEN Behead(cut, saved)
                         ELSE [cut EXCEPT !.partials =
                                  Append(@, [stream |-> stream, save |-> saved])]
              next == IF after.eof THEN resumed ELSE buffer_next(resumed, again)
          IN  /\ buffer' = next
              /\ held' = held - Left(next)
              /\ IF after.eof \/ v.type = "list" THEN Fails ELSE UNCHANGED status
    /\ UNCHANGED <<template, env, loops, out, twice, result>>

\* A tag that does not close as it should is not reported: what follows its
\* opening is text.
render_stache_unclosed ==
    /\ At("unclosed")
    /\ buffer_output(<<Debris.name>>)
    /\ \E broken \in Reads :
          LET after == buffer_next(buffer, broken)
          IN  buffer' = after /\ held' = held - Left(after)
    /\ UNCHANGED <<template, env, loops, twice, status, result>>

------------------------------------------------------------------------------
(* render.                                                                   *)

render_text ==
    /\ At("text")
    /\ buffer_output(<<buffer_item.name>>)
    /\ \E broken \in Reads :
          LET after == buffer_next(buffer, broken)
          IN  buffer' = after /\ held' = held - Left(after)
    /\ UNCHANGED <<template, env, loops, twice, status, result>>

\* At eof, a token still to be read is a character that is put, and the next one
\* is not found: "Buffer end reached".
render_cut ==
    /\ status = "running"
    /\ buffer.eof /\ ~buffer_eof
    /\ buffer_output(<<IF buffer_item.kind = "text" THEN buffer_item.name ELSE "{">>)
    /\ Fails
    /\ UNCHANGED <<template, env, buffer, loops, held, twice, result>>

render_template ==
    \/ render_text
    \/ render_cut
    \/ render_stache_raw
    \/ render_stache_escape
    \/ render_stache_while
    \/ render_stache_else
    \/ render_stache_end
    \/ render_stache_delimiters
    \/ render_stache_comment
    \/ render_stache_partial
    \/ render_stache_unclosed

render ==
    /\ status = "called"
    /\ \E broken \in Reads : buffer' = buffer_next(buffer, broken)
    /\ status' = "running"
    /\ UNCHANGED <<template, env, loops, out, held, twice, result>>

\* The template is rendered, or an error was met: render frees the names of the
\* loops left and returns.
render_returns ==
    /\ \/ status = "failed"
       \/ status = "running" /\ buffer_eof
    /\ result' = IF status = "failed" \/ loops # <<>> THEN -1 ELSE 0
    /\ twice' = (twice \/ \E i \in DOMAIN loops : loops[i].name = FREED)
    /\ loops' = <<>>
    /\ status' = "returned"
    /\ UNCHANGED <<template, env, buffer, out, held>>

Done == status = "returned" /\ UNCHANGED vars

Next == render \/ render_template \/ render_returns \/ Done

Spec == Init /\ [][Next]_vars

\* render is sequential code: it goes on unless it loops.
FairSpec == Spec /\ WF_vars(render \/ render_template \/ render_returns)

------------------------------------------------------------------------------

TypeOK ==
    /\ [template |-> template, env |-> env] \in Calls
    /\ buffer.index \in 0 .. Len(buffer.data) + 1
    /\ buffer.eof \in BOOLEAN
    /\ \A i \in DOMAIN loops :
          /\ loops[i].type \in {"while", "else"}
          /\ loops[i].buffer_index \in 1 .. Len(buffer.data) + 1
          /\ loops[i].loop_index \in Nat
          /\ loops[i].empty \in BOOLEAN
    /\ held \in Nat
    /\ twice \in BOOLEAN
    /\ status \in {"called", "running", "failed", "returned"}
    /\ result \in {0, -1}

\* While it renders, the engine holds the lists of the sections that are open
\* and the partials it is reading, and nothing else of what the resolver gave;
\* when render returns 0 it holds nothing.  Lists are closed by end tags and
\* partials where the buffer leaves them, several tokens later.
HeldExact ==
    /\ status = "running" =>
          held = Cardinality({i \in DOMAIN loops : loops[i].lookup.type = "list"})
                     + Len(buffer.partials)
    /\ status = "returned" /\ result = 0 => held = 0

\* The name of a section is freed once: by the tag that ends it, or when render
\* returns with the section open.
NamesFreedOnce == ~twice

\* render returns, whatever the template, as long as no partial includes itself.
RenderEnds == <>(status = "returned")
==============================================================================
