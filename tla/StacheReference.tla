--------------------------- MODULE StacheReference ---------------------------
(***************************************************************************)
(* What a template means, by recursion on its structure: partials are      *)
(* replaced by their content, then sections nest, and each one stands for  *)
(* its body as many times as its value asks for.                           *)
(***************************************************************************)
EXTENDS Integers, Sequences, SequencesExt, FiniteSets

CONSTANT NULL

\* The characters a value is put as in an escaped tag.
Entities == [c \in {"<", ">", "&", "\"", "'", "{{>}}"} |->
                CASE c = "<"  -> "&lt;"
                  [] c = ">"  -> "&gt;"
                  [] c = "&"  -> "&amp;"
                  [] c = "\"" -> "&quot;"
                  [] c = "'"  -> "&apos;"
                  [] c = "{{>}}" -> "{{&gt;}}"]

\* A value as it is: its tags are characters, and the ">" of a partial's is one
\* that is escaped.
Verbatim(content) ==
    [i \in DOMAIN content |->
        CASE content[i].kind = "text"    -> content[i].name
          [] content[i].kind = "partial" -> "{{>}}"
          [] OTHER                       -> "{{}}"]

Escaped(chars) ==
    [i \in DOMAIN chars |->
        IF chars[i] \in DOMAIN Entities THEN Entities[chars[i]] ELSE chars[i]]

\* What a partial tag stands for.
Included(v) ==
    CASE v.type = "string"  -> v.content
      [] v.type = "partial" -> IF v.stream = NULL THEN <<>> ELSE v.stream
      [] OTHER              -> <<>>

\* The template without its partials.
RECURSIVE Flat(_, _)
Flat(t, env) ==
    IF t = <<>> THEN <<>>
    ELSE (IF Head(t).kind = "partial" THEN Flat(Included(env[Head(t).name]), env)
          ELSE <<Head(t)>>) \o Flat(Tail(t), env)

Opens(token) == token.kind \in {"while", "else"}

\* Where the section that opens at the head of t ends; 0 if nowhere.
EndOf(t) ==
    LET depth(j) == Cardinality({i \in 1 .. j : Opens(t[i])})
                  - Cardinality({i \in 1 .. j : t[i].kind = "end"})
        ends == {j \in DOMAIN t : depth(j) = 0}
    IN  IF ends = {} THEN 0 ELSE CHOOSE j \in ends : \A k \in ends : j <= k

RECURSIVE WellNested(_)
WellNested(t) ==
    \/ t = <<>>
    \/ /\ Head(t).kind # "end" /\ ~Opens(Head(t))
       /\ WellNested(Tail(t))
    \/ /\ Opens(Head(t))
       /\ LET e == EndOf(t)
          IN  /\ e > 0
              /\ t[e].name = Head(t).name
              /\ WellNested(SubSeq(t, 2, e - 1))
              /\ WellNested(SubSeq(t, e + 1, Len(t)))

Absent(v) ==
    CASE v.type = "not_found" -> TRUE
      [] v.type = "string"    -> v.content = <<>>
      [] v.type = "list"      -> v.items = <<>>
      [] v.type = "partial"   -> v.stream = NULL

\* A tag on a value it cannot stand for, and a tag that is none.
IsError(token, env) ==
    LET v == IF token.name = "item" \/ token.kind \in {"text", "comment", "delimiters", "unclosed"}
             THEN [type |-> "not_found"] ELSE env[token.name]
    IN  \/ token.kind \in {"delimiters", "unclosed"}
        \/ token.kind \in {"raw", "escape"} /\ token.name = ""
        \/ token.kind \in {"raw", "escape"} /\ v.type \in {"list", "partial"}
        \/ token.kind = "partial" /\ v.type = "list"
        \/ Opens(token) /\ v.type = "partial" /\ v.stream = <<>>

Acceptable(t, env) ==
    /\ \A i \in DOMAIN t : ~IsError(t[i], env)
    /\ \A i \in DOMAIN Flat(t, env) : ~IsError(Flat(t, env)[i], env)
    /\ WellNested(Flat(t, env))

\* What an acceptable template without partials renders as; `item` is what the
\* item tags stand for.
RECURSIVE Rendered(_, _, _)
Rendered(t, env, item) ==
    IF t = <<>> THEN <<>>
    ELSE LET token == Head(t)
             v == IF token.name = "item" THEN item ELSE env[token.name]
             e == EndOf(t)
             body == SubSeq(t, 2, e - 1)
             rest == SubSeq(t, e + 1, Len(t))
             once(i) == Rendered(body, env,
                                 [type |-> "string", content |-> <<v.items[i]>>])
         IN  CASE token.kind = "text" ->
                    <<token.name>> \o Rendered(Tail(t), env, item)
               [] token.kind = "raw" ->
                    (IF v.type = "string" THEN Verbatim(v.content) ELSE <<>>)
                        \o Rendered(Tail(t), env, item)
               [] token.kind = "escape" ->
                    (IF v.type = "string" THEN Escaped(Verbatim(v.content)) ELSE <<>>)
                        \o Rendered(Tail(t), env, item)
               [] token.kind = "while" ->
                    (IF Absent(v) THEN <<>>
                     ELSE IF v.type = "list"
                     THEN FlattenSeq([i \in DOMAIN v.items |-> once(i)])
                     ELSE Rendered(body, env, item)) \o Rendered(rest, env, item)
               [] token.kind = "else" ->
                    (IF Absent(v) THEN Rendered(body, env, item) ELSE <<>>)
                        \o Rendered(rest, env, item)
               [] OTHER -> Rendered(Tail(t), env, item)
==============================================================================
