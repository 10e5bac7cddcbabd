---------------------------- MODULE StacheProofs -----------------------------
(***************************************************************************)
(* What the template engine holds of what it resolved, for any templates,  *)
(* partials, environments and failures.                                    *)
(***************************************************************************)
EXTENDS Stache, SequenceTheorems, FiniteSetTheorems, TLAPS

------------------------------------------------------------------------------
\* Sequences of whatever elements

LEMMA AnySeq ==
    ASSUME NEW S, NEW s \in Seq(S)
    PROVE  IsSeq(s)
<1>1. Len(s) \in Nat /\ s \in [1 .. Len(s) -> S] /\ DOMAIN s = 1 .. Len(s)
  BY LenProperties
<1>2. s \in [1 .. Len(s) -> {s[i] : i \in DOMAIN s}]
  BY <1>1
<1> QED
  BY <1>1, <1>2, SeqDef DEF IsSeq

LEMMA SeqLen ==
    ASSUME NEW s, IsSeq(s)
    PROVE  Len(s) \in Nat /\ DOMAIN s = 1 .. Len(s) /\ (Len(s) = 0 <=> s = <<>>)
<1> DEFINE S == {s[i] : i \in DOMAIN s}
<1>1. s \in Seq(S)
  BY DEF IsSeq
<1> HIDE DEF S
<1> QED
  BY <1>1, LenProperties, EmptySeq

LEMMA EmptyIsSeq == IsSeq(<<>>) /\ Len(<<>>) = 0
BY AnySeq, EmptySeq

LEMMA SeqAppend ==
    ASSUME NEW s, IsSeq(s), NEW e
    PROVE  /\ IsSeq(Append(s, e)) /\ Len(Append(s, e)) = Len(s) + 1
           /\ \A i \in 1 .. Len(s) : Append(s, e)[i] = s[i]
           /\ Append(s, e)[Len(s) + 1] = e
<1> DEFINE S == {s[i] : i \in DOMAIN s}
           T == S \cup {e}
<1>1. s \in Seq(T) /\ e \in T
  <2>1. s \in Seq(S) /\ S \subseteq T
    BY DEF IsSeq
  <2> QED
    BY <2>1, SeqMonotonic, Zenon
<1> HIDE DEF T
<1>2. /\ Append(s, e) \in Seq(T) /\ Len(Append(s, e)) = Len(s) + 1
      /\ \A i \in 1 .. Len(s) : Append(s, e)[i] = s[i]
      /\ Append(s, e)[Len(s) + 1] = e
  BY <1>1, AppendProperties
<1>3. IsSeq(Append(s, e))
  BY <1>2, AnySeq, Zenon
<1> QED
  BY <1>2, <1>3, Zenon

LEMMA SeqFirst ==
    ASSUME NEW s, IsSeq(s), NEW n \in 0 .. Len(s)
    PROVE  /\ IsSeq(SubSeq(s, 1, n)) /\ Len(SubSeq(s, 1, n)) = n
           /\ \A i \in 1 .. n : SubSeq(s, 1, n)[i] = s[i]
<1> DEFINE S == {s[i] : i \in DOMAIN s}
<1>1. s \in Seq(S) /\ Len(s) \in Nat
  BY SeqLen DEF IsSeq
<1> HIDE DEF S
<1>2. n \in Int /\ 1 \in Int /\ \A i \in 1 .. n : s[i] \in S
  BY <1>1, ElementOfSeq
<1>3. /\ SubSeq(s, 1, n) \in Seq(S)
      /\ Len(SubSeq(s, 1, n)) = IF 1 <= n THEN n - 1 + 1 ELSE 0
      /\ \A i \in 1 .. n - 1 + 1 : SubSeq(s, 1, n)[i] = s[1 + i - 1]
  BY <1>2, SubSeqProperties
<1>4. IsSeq(SubSeq(s, 1, n))
  BY <1>3, AnySeq, Zenon
<1> QED
  BY <1>1, <1>3, <1>4

LEMMA SeqFront ==
    ASSUME NEW s, IsSeq(s), s # <<>>
    PROVE  /\ IsSeq(Front(s)) /\ Len(Front(s)) = Len(s) - 1
           /\ \A i \in 1 .. Len(s) - 1 : Front(s)[i] = s[i]
           /\ Len(s) \in Nat \ {0}
<1>1. Len(s) \in Nat \ {0} /\ Len(s) - 1 \in 0 .. Len(s)
  BY SeqLen
<1> QED
  BY <1>1, SeqFirst DEF Front

LEMMA SeqReplace ==
    ASSUME NEW s, IsSeq(s), NEW n \in 1 .. Len(s), NEW e
    PROVE  /\ IsSeq([s EXCEPT ![n] = e]) /\ Len([s EXCEPT ![n] = e]) = Len(s)
           /\ \A i \in 1 .. Len(s) : [s EXCEPT ![n] = e][i] = IF i = n THEN e ELSE s[i]
<1> DEFINE S == {s[i] : i \in DOMAIN s}
           T == S \cup {e}
<1>1. s \in Seq(T) /\ e \in T
  <2>1. s \in Seq(S) /\ S \subseteq T
    BY DEF IsSeq
  <2> QED
    BY <2>1, SeqMonotonic, Zenon
<1> HIDE DEF T
<1> DEFINE r == [s EXCEPT ![n] = e]
<1>2. /\ r \in Seq(T) /\ Len(r) = Len(s)
      /\ \A i \in 1 .. Len(s) : r[i] = IF i = n THEN e ELSE s[i]
  BY <1>1, ExceptSeq
<1> HIDE DEF r
<1>3. IsSeq(r)
  BY <1>2, AnySeq, Zenon
<1> QED
  BY <1>2, <1>3, Zenon DEF r

------------------------------------------------------------------------------
\* The sections on a list among the open ones

Lists(l) == {i \in DOMAIN l : l[i].lookup.type = "list"}

LEMMA ListsFinite ==
    ASSUME NEW l, IsSeq(l)
    PROVE  IsFiniteSet(Lists(l)) /\ Cardinality(Lists(l)) \in Nat
<1>1. Lists(l) \subseteq 1 .. Len(l) /\ Len(l) \in Nat
  BY SeqLen DEF Lists
<1>2. IsFiniteSet(1 .. Len(l))
  BY <1>1, FS_Interval
<1> QED
  BY <1>1, <1>2, FS_Subset, FS_CardinalityType

LEMMA ListsAppend ==
    ASSUME NEW l, IsSeq(l), NEW e
    PROVE  Cardinality(Lists(Append(l, e))) = Cardinality(Lists(l)) + ReleasesList(e)
<1> DEFINE n == Len(l) + 1
           m == Append(l, e)
<1>1. /\ Len(l) \in Nat /\ DOMAIN l = 1 .. Len(l)
      /\ IsSeq(m) /\ DOMAIN m = 1 .. n /\ m[n] = e
      /\ \A i \in 1 .. Len(l) : m[i] = l[i]
  BY SeqLen, SeqAppend
<1>2. IsFiniteSet(Lists(l)) /\ Cardinality(Lists(l)) \in Nat
  BY ListsFinite
<1> HIDE DEF m
<1>3. n \notin Lists(l)
  BY <1>1 DEF Lists
<1>4. CASE e.lookup.type = "list"
  <2>1. Lists(m) = Lists(l) \cup {n}
    BY <1>1, <1>4 DEF Lists
  <2>2. Cardinality(Lists(l) \cup {n}) = Cardinality(Lists(l)) + 1
    BY <1>2, <1>3, FS_AddElement
  <2> QED
    BY <1>4, <2>1, <2>2 DEF m, ReleasesList
<1>5. CASE e.lookup.type # "list"
  <2>1. Lists(m) = Lists(l)
    BY <1>1, <1>5 DEF Lists
  <2> QED
    BY <1>2, <1>5, <2>1 DEF m, ReleasesList
<1> QED
  BY <1>4, <1>5

LEMMA ListsFront ==
    ASSUME NEW l, IsSeq(l), l # <<>>
    PROVE  Cardinality(Lists(Front(l))) = Cardinality(Lists(l)) - ReleasesList(Last(l))
<1> DEFINE n == Len(l)
           f == Front(l)
<1>1. /\ n \in Nat \ {0} /\ DOMAIN l = 1 .. n
      /\ IsSeq(f) /\ DOMAIN f = 1 .. n - 1
      /\ \A i \in 1 .. n - 1 : f[i] = l[i]
  BY SeqLen, SeqFront
<1>2. IsFiniteSet(Lists(f)) /\ Cardinality(Lists(f)) \in Nat
  BY <1>1, ListsFinite
<1>3. Last(l) = l[n]
  BY DEF Last
<1> HIDE DEF f, n
<1>4. n \notin Lists(f)
  BY <1>1 DEF Lists
<1>5. CASE l[n].lookup.type = "list"
  <2>1. Lists(l) = Lists(f) \cup {n}
    BY <1>1, <1>5 DEF Lists
  <2>2. Cardinality(Lists(f) \cup {n}) = Cardinality(Lists(f)) + 1
    BY <1>2, <1>4, FS_AddElement
  <2> QED
    BY <1>2, <1>3, <1>5, <2>1, <2>2 DEF f, ReleasesList
<1>6. CASE l[n].lookup.type # "list"
  <2>1. Lists(l) = Lists(f)
    BY <1>1, <1>6 DEF Lists
  <2> QED
    BY <1>2, <1>3, <1>6, <2>1 DEF f, ReleasesList
<1> QED
  BY <1>5, <1>6

------------------------------------------------------------------------------
\* The buffer

\* The token at hand is one of the data or the next one, and at the end of the file no
\* partial is left, unless there are tokens left to look at.
BufferOK(b) ==
    /\ DOMAIN b = {"data", "index", "eof", "input", "partials"}
    /\ IsSeq(b.data)
    /\ IsSeq(b.partials)
    /\ b.index \in 0 .. Len(b.data) + 1
    /\ b.eof => b.partials = <<>> \/ b.index <= Len(b.data)

\* A token more.
LEMMA NextBuffer ==
    ASSUME NEW b, BufferOK(b), b.index <= Len(b.data), ~b.eof, NEW broken
    PROVE  LET a == buffer_next(b, broken)
           IN  /\ BufferOK(a) /\ a.index = b.index + 1 /\ Len(a.data) >= Len(b.data)
               /\ b.partials = <<>> => a.partials = <<>>
<1> DEFINE i == b.index + 1
           np == Len(b.partials)
           stream == IF np > 0 THEN b.partials[np].stream ELSE b.input
           a == buffer_next(b, broken)
<1>1. /\ DOMAIN b = {"data", "index", "eof", "input", "partials"}
      /\ IsSeq(b.data) /\ Len(b.data) \in Nat /\ b.index \in Nat
      /\ IsSeq(b.partials) /\ np \in Nat /\ (np = 0 <=> b.partials = <<>>)
  BY SeqLen DEF BufferOK
<1>2. a = CASE i <= Len(b.data) -> [b EXCEPT !.index = i]
            [] i > Len(b.data) /\ stream # <<>> -> Filled(b, stream, broken)
            [] i > Len(b.data) /\ stream = <<>> /\ np > 0 -> LeavePartial(b)
            [] i > Len(b.data) /\ stream = <<>> /\ np = 0 ->
                  [b EXCEPT !.index = i, !.eof = TRUE]
  BY Zenon DEF buffer_next
<1> HIDE DEF a, stream
<1>3. CASE i <= Len(b.data)
  <2>1. a = [b EXCEPT !.index = i]
    BY <1>1, <1>2, <1>3
  <2>2. /\ DOMAIN a = DOMAIN b /\ a.index = i /\ a.data = b.data
        /\ a.partials = b.partials /\ a.eof = b.eof
    BY <1>1, <2>1
  <2> QED
    BY <1>1, <1>3, <2>2 DEF BufferOK, a
<1>4. CASE i > Len(b.data) /\ stream # <<>>
  <2>1. a = Filled(b, stream, broken)
    BY <1>1, <1>2, <1>4
  <2> DEFINE d == Append(b.data, Head(stream))
             p == IF np = 0 THEN b.partials
                  ELSE OneRead(b.partials)
  <2>2. /\ DOMAIN a = DOMAIN b /\ a.index = i /\ a.data = d /\ a.partials = p
    <3>1. DOMAIN a = DOMAIN b
      BY <2>1, Zenon DEF Filled
    <3>2. a.index = i
      BY <1>1, <2>1 DEF Filled
    <3>3. a.data = d
      BY <1>1, <2>1 DEF Filled
    <3>4. a.partials = p
      <4>1. CASE np = 0
        BY <1>1, <2>1, <4>1 DEF Filled
      <4>2. CASE np # 0
        BY <1>1, <2>1, <4>2 DEF Filled
      <4> QED
        BY <4>1, <4>2
    <3> QED
      BY <3>1, <3>2, <3>3, <3>4
  <2>3. IsSeq(d) /\ Len(d) = Len(b.data) + 1
    BY <1>1, SeqAppend
  <2>4. IsSeq(p)
    <3>1. CASE np = 0
      BY <1>1, <3>1
    <3>2. CASE np # 0
      <4> DEFINE e == [b.partials[np] EXCEPT !.stream = Tail(@)]
      <4>1. np \in 1 .. Len(b.partials)
        BY <1>1, <3>2
      <4>2. IsSeq([b.partials EXCEPT ![np] = e])
        <5> HIDE DEF e
        <5> QED
          BY <1>1, <4>1, SeqReplace, Zenon
      <4>3. p = [b.partials EXCEPT ![np] = e]
        BY <3>2 DEF OneRead
      <4> QED
        BY <4>2, <4>3
    <3> QED
      BY <3>1, <3>2
  <2> HIDE DEF d, p
  <2>5. i = Len(b.data) + 1
    BY <1>1, <1>4
  <2>6. b.partials = <<>> => p = <<>>
    BY <1>1 DEF p
  <2> QED
    BY <1>1, <2>2, <2>3, <2>4, <2>5, <2>6 DEF BufferOK, a
<1>5. CASE i > Len(b.data) /\ stream = <<>> /\ np > 0
  <2>1. a = LeavePartial(b)
    BY <1>1, <1>2, <1>5
  <2> DEFINE d == Append(b.data, Last(b.partials).save)
             p == Front(b.partials)
  <2>2. DOMAIN a = DOMAIN b /\ a.index = i /\ a.data = d /\ a.partials = p /\ a.eof = b.eof
    BY <1>1, <2>1 DEF LeavePartial
  <2>3. IsSeq(d) /\ Len(d) = Len(b.data) + 1
    BY <1>1, SeqAppend
  <2>4. IsSeq(p)
    BY <1>1, <1>5, SeqFront
  <2> HIDE DEF d, p
  <2>5. i = Len(b.data) + 1
    BY <1>1, <1>5
  <2> QED
    BY <1>1, <1>5, <2>2, <2>3, <2>4, <2>5 DEF BufferOK, a
<1>6. CASE i > Len(b.data) /\ stream = <<>> /\ np = 0
  <2>1. a = [b EXCEPT !.index = i, !.eof = TRUE]
    BY <1>1, <1>2, <1>6
  <2>2. /\ DOMAIN a = DOMAIN b /\ a.index = i /\ a.data = b.data /\ a.partials = b.partials
    BY <1>1, <2>1
  <2>3. i = Len(b.data) + 1
    BY <1>1, <1>6
  <2> QED
    BY <1>1, <1>6, <2>2, <2>3 DEF BufferOK, a
<1> QED
  <2>1. i <= Len(b.data) \/ (i > Len(b.data) /\ (np > 0 \/ np = 0))
    BY <1>1
  <2> QED
    BY <1>3, <1>4, <1>5, <1>6, <2>1

LEMMA BufferShape ==
    ASSUME NEW b, BufferOK(b)
    PROVE  /\ DOMAIN b = {"data", "index", "eof", "input", "partials"}
           /\ IsSeq(b.data) /\ Len(b.data) \in Nat /\ b.index \in Nat
           /\ b.index <= Len(b.data) + 1
           /\ IsSeq(b.partials) /\ Len(b.partials) \in Nat
           /\ (Len(b.partials) = 0 <=> b.partials = <<>>)
BY SeqLen DEF BufferOK

\* Without the tokens from n on, and with a partial more, or a token less.
LEMMA CutBuffer ==
    ASSUME NEW b, BufferOK(b), ~b.eof, NEW n \in 1 .. Len(b.data) + 1
    PROVE  LET cut == [b EXCEPT !.index = n - 1, !.data = SubSeq(@, 1, n - 1)]
           IN  BufferOK(cut) /\ cut.index = n - 1 /\ Len(cut.data) = n - 1 /\ ~cut.eof
<1> DEFINE d == SubSeq(b.data, 1, n - 1)
           cut == [b EXCEPT !.index = n - 1, !.data = SubSeq(@, 1, n - 1)]
<1>1. n - 1 \in 0 .. Len(b.data)
  BY BufferShape
<1>2. IsSeq(d) /\ Len(d) = n - 1
  BY <1>1, BufferShape, SeqFirst
<1>3. cut = [b EXCEPT !.index = n - 1, !.data = d]
  BY BufferShape
<1> HIDE DEF d, cut
<1>4. /\ DOMAIN cut = DOMAIN b /\ cut.index = n - 1 /\ cut.data = d
      /\ cut.partials = b.partials /\ cut.eof = b.eof
  BY <1>3, BufferShape
<1>5. /\ DOMAIN b = {"data", "index", "eof", "input", "partials"}
      /\ IsSeq(b.partials)
  BY BufferShape
<1>6. cut.index = n - 1 /\ Len(cut.data) = n - 1 /\ ~cut.eof /\ IsSeq(cut.data)
  BY <1>2, <1>4
<1>7. n - 1 \in 0 .. n - 1 + 1
  BY <1>1
<1>8. BufferOK(cut)
  BY <1>4, <1>5, <1>6, <1>7 DEF BufferOK
<1> QED
  BY <1>6, <1>8 DEF cut

LEMMA AddPartial ==
    ASSUME NEW b, BufferOK(b), ~b.eof, NEW p
    PROVE  LET a == [b EXCEPT !.partials = Append(@, p)]
           IN  BufferOK(a) /\ a.index = b.index /\ a.data = b.data /\ ~a.eof
<1> DEFINE q == Append(b.partials, p)
           a == [b EXCEPT !.partials = Append(@, p)]
<1>1. IsSeq(q)
  BY BufferShape, SeqAppend
<1>2. a = [b EXCEPT !.partials = q]
  BY BufferShape
<1> HIDE DEF q, a
<1>3. /\ DOMAIN a = DOMAIN b /\ a.index = b.index /\ a.data = b.data
      /\ a.partials = q /\ a.eof = b.eof
  BY <1>2, BufferShape
<1> QED
  BY <1>1, <1>3, BufferShape DEF BufferOK, a

LEMMA BeheadBuffer ==
    ASSUME NEW b, BufferOK(b), ~b.eof, NEW token
    PROVE  LET a == Behead(b, token)
           IN  BufferOK(a) /\ a.index = b.index /\ a.data = b.data /\ ~a.eof
<1> DEFINE a == Behead(b, token)
           np == Len(b.partials)
<1>1. CASE token.kind = "text"
  BY <1>1 DEF Behead
<1>2. CASE token.kind # "text" /\ np = 0
  <2>1. a = [b EXCEPT !.input = Beheaded(token) \o @]
    BY <1>2 DEF Behead
  <2> HIDE DEF a
  <2>2. /\ DOMAIN a = DOMAIN b /\ a.index = b.index /\ a.data = b.data
        /\ a.partials = b.partials /\ a.eof = b.eof
    BY <2>1, BufferShape
  <2> QED
    BY <2>2, BufferShape DEF BufferOK, a
<1>3. CASE token.kind # "text" /\ np # 0
  <2>1. a = [b EXCEPT !.partials = ToRead(@, Beheaded(token))]
    BY <1>3, Zenon DEF Behead
  <2> DEFINE e == [b.partials[np] EXCEPT !.stream = Beheaded(token) \o @]
             q == [b.partials EXCEPT ![np] = e]
  <2>2. ToRead(b.partials, Beheaded(token)) = q
    BY DEF ToRead
  <2> HIDE DEF a, e
  <2>3. np \in 1 .. Len(b.partials) /\ IsSeq(b.partials)
    BY <1>3, BufferShape
  <2>4. IsSeq(q)
    BY <2>3, SeqReplace, Zenon
  <2> HIDE DEF q
  <2>5. /\ DOMAIN a = DOMAIN b /\ a.index = b.index /\ a.data = b.data
        /\ a.partials = q /\ a.eof = b.eof
    BY <2>1, <2>2, BufferShape
  <2> QED
    BY <2>4, <2>5, BufferShape DEF BufferOK, a
<1> QED
  BY <1>1, <1>2, <1>3

------------------------------------------------------------------------------
\* What is held

\* While render is at work: it holds the lists of the open sections and the partials,
\* and the sections opened one after the other, before the token at hand.
HeldOK(b, l, h) ==
    /\ BufferOK(b) /\ b.index >= 1
    /\ IsSeq(l)
    /\ h = Cardinality(Lists(l)) + Len(b.partials)
    /\ \A i \in DOMAIN l : l[i].buffer_index \in 1 .. b.index
    /\ \A i, j \in DOMAIN l : i <= j => l[i].buffer_index <= l[j].buffer_index

HeldInv ==
    /\ status \in {"called", "running", "failed", "returned"}
    /\ status = "called" =>
          /\ BufferOK(buffer) /\ buffer.index = 0 /\ ~buffer.eof
          /\ buffer.partials = <<>> /\ loops = <<>> /\ held = 0
    /\ status = "running" => HeldOK(buffer, loops, held)
    /\ status = "returned" /\ result = 0 => held = 0

LEMMA HeldInit == Init => HeldInv
<1> SUFFICES ASSUME Init PROVE HeldInv
  OBVIOUS
<1>1. /\ DOMAIN buffer = {"data", "index", "eof", "input", "partials"}
      /\ buffer.data = <<>> /\ buffer.index = 0 /\ buffer.eof = FALSE /\ buffer.partials = <<>>
      /\ status = "called" /\ loops = <<>> /\ held = 0
  BY DEF Init
<1> QED
  BY <1>1, EmptyIsSeq DEF HeldInv, BufferOK

\* The partials left on the way from the buffer to b are released.
LEMMA HeldOnAnother ==
    ASSUME HeldOK(buffer, loops, held), NEW b, BufferOK(b), b.index >= buffer.index
    PROVE  HeldOK(b, loops, held - Left(b))
<1> DEFINE n == Cardinality(Lists(loops))
<1>1. /\ buffer.index \in Nat /\ buffer.index >= 1 /\ b.index \in Nat
      /\ Len(buffer.partials) \in Nat /\ Len(b.partials) \in Nat
      /\ IsSeq(loops) /\ held = n + Len(buffer.partials)
  BY BufferShape DEF HeldOK
<1>2. n \in Nat
  BY <1>1, ListsFinite
<1> HIDE DEF n
<1>3. held - Left(b) = n + Len(b.partials)
  <2> DEFINE p == Len(buffer.partials)
             q == Len(b.partials)
  <2>1. Left(b) = p - q
    BY DEF Left
  <2>2. p \in Nat /\ q \in Nat /\ held = n + p
    BY <1>1
  <2> HIDE DEF p, q
  <2>3. held - (p - q) = n + q
    BY <1>2, <2>2
  <2> QED
    BY <2>1, <2>3 DEF q
<1>4. \A i \in DOMAIN loops : loops[i].buffer_index \in 1 .. b.index
  BY <1>1 DEF HeldOK
<1> QED
  BY <1>1, <1>3, <1>4 DEF HeldOK, n

\* A tag or a character was read.
LEMMA HeldNext ==
    ASSUME HeldInv, NEW kind, At(kind), NEW broken
    PROVE  LET after == buffer_next(buffer, broken)
           IN  /\ BufferOK(after) /\ after.index = buffer.index + 1
               /\ Len(after.data) >= Len(buffer.data)
               /\ HeldOK(buffer, loops, held)
               /\ HeldOK(after, loops, held - Left(after))
               /\ buffer.index <= Len(buffer.data) /\ buffer.index \in Nat \ {0}
<1> DEFINE after == buffer_next(buffer, broken)
<1>1. /\ HeldOK(buffer, loops, held) /\ BufferOK(buffer)
      /\ buffer.index <= Len(buffer.data) /\ ~buffer.eof
      /\ buffer.index \in Nat \ {0}
  BY BufferShape DEF HeldInv, At, HeldOK
<1>2. BufferOK(after) /\ after.index = buffer.index + 1 /\ Len(after.data) >= Len(buffer.data)
  BY <1>1, NextBuffer
<1> HIDE DEF after
<1>3. HeldOK(after, loops, held - Left(after))
  <2>1. after.index >= buffer.index
    BY <1>1, <1>2
  <2> QED
    BY <1>1, <1>2, <2>1, HeldOnAnother
<1> QED
  BY <1>1, <1>2, <1>3 DEF after

LEMMA HeldInt ==
    ASSUME HeldOK(buffer, loops, held), NEW b, NEW l, NEW h, HeldOK(b, l, h)
    PROVE  held \in Int /\ Left(b) \in Int
<1>1. IsSeq(loops) /\ BufferOK(buffer) /\ BufferOK(b)
  BY DEF HeldOK
<1>2. Len(buffer.partials) \in Nat /\ Len(b.partials) \in Nat
  BY <1>1, BufferShape
<1>3. Cardinality(Lists(loops)) \in Nat
  BY <1>1, ListsFinite
<1>4. held = Cardinality(Lists(loops)) + Len(buffer.partials)
  BY DEF HeldOK
<1> QED
  BY <1>2, <1>3, <1>4 DEF Left

\* A section opens at the token at hand.
LEMMA OpenSection ==
    ASSUME NEW b, NEW l, NEW h, HeldOK(b, l, h), NEW e, e.buffer_index = b.index
    PROVE  HeldOK(b, Append(l, e), h + ReleasesList(e))
<1> DEFINE m == Append(l, e)
           n == Cardinality(Lists(l))
           p == Len(b.partials)
           r == ReleasesList(e)
<1>1. /\ BufferOK(b) /\ b.index >= 1 /\ b.index \in Nat /\ p \in Nat
      /\ IsSeq(l) /\ h = n + p
      /\ \A i \in DOMAIN l : l[i].buffer_index \in 1 .. b.index
      /\ \A i, j \in DOMAIN l : i <= j => l[i].buffer_index <= l[j].buffer_index
  BY BufferShape DEF HeldOK
<1>2. /\ Len(l) \in Nat /\ DOMAIN l = 1 .. Len(l)
      /\ IsSeq(m) /\ DOMAIN m = 1 .. Len(l) + 1 /\ m[Len(l) + 1] = e
      /\ \A i \in 1 .. Len(l) : m[i] = l[i]
  BY <1>1, SeqLen, SeqAppend
<1>3. n \in Nat /\ r \in Nat
  BY <1>1, ListsFinite DEF ReleasesList
<1>4. Cardinality(Lists(m)) = n + r
  BY <1>1, ListsAppend
<1> HIDE DEF m, n, p, r
<1>5. h + r = Cardinality(Lists(m)) + p
  BY <1>1, <1>3, <1>4
<1>6. \A i \in DOMAIN m : m[i].buffer_index \in 1 .. b.index
  BY <1>1, <1>2
<1>7. \A i, j \in DOMAIN m : i <= j => m[i].buffer_index <= m[j].buffer_index
  <2> SUFFICES ASSUME NEW i \in DOMAIN m, NEW j \in DOMAIN m, i <= j
               PROVE  m[i].buffer_index <= m[j].buffer_index
    OBVIOUS
  <2>1. CASE j = Len(l) + 1
    BY <1>1, <1>2, <1>6, <2>1
  <2>2. CASE j # Len(l) + 1
    <3>1. i \in DOMAIN l /\ j \in DOMAIN l /\ m[i] = l[i] /\ m[j] = l[j]
      BY <1>2, <2>2
    <3> QED
      BY <1>1, <3>1
  <2> QED
    BY <2>1, <2>2
<1> QED
  BY <1>1, <1>2, <1>5, <1>6, <1>7 DEF HeldOK, m, p, r

\* The innermost section ends.
LEMMA CloseSection ==
    ASSUME NEW b, NEW l, NEW h, HeldOK(b, l, h), l # <<>>
    PROVE  HeldOK(b, Front(l), h - ReleasesList(Last(l)))
<1> DEFINE f == Front(l)
           n == Cardinality(Lists(l))
           p == Len(b.partials)
           r == ReleasesList(Last(l))
<1>1. /\ BufferOK(b) /\ b.index >= 1 /\ p \in Nat
      /\ IsSeq(l) /\ h = n + p
      /\ \A i \in DOMAIN l : l[i].buffer_index \in 1 .. b.index
      /\ \A i, j \in DOMAIN l : i <= j => l[i].buffer_index <= l[j].buffer_index
  BY BufferShape DEF HeldOK
<1>2. /\ Len(l) \in Nat /\ DOMAIN l = 1 .. Len(l)
      /\ IsSeq(f) /\ DOMAIN f = 1 .. Len(l) - 1
      /\ \A i \in 1 .. Len(l) - 1 : f[i] = l[i]
  BY <1>1, SeqLen, SeqFront
<1>3. n \in Nat /\ r \in Nat
  BY <1>1, ListsFinite DEF ReleasesList
<1>4. Cardinality(Lists(f)) = n - r
  BY <1>1, ListsFront
<1> HIDE DEF f, n, p, r
<1>5. h - r = Cardinality(Lists(f)) + p
  BY <1>1, <1>3, <1>4
<1>6. \A i \in DOMAIN f : f[i].buffer_index \in 1 .. b.index
  BY <1>1, <1>2
<1>7. \A i, j \in DOMAIN f : i <= j => f[i].buffer_index <= f[j].buffer_index
  BY <1>1, <1>2
<1> QED
  BY <1>1, <1>2, <1>5, <1>6, <1>7 DEF HeldOK, f, p, r

\* The innermost section goes on with its next item, from its first token.
LEMMA RepeatSection ==
    ASSUME NEW b, NEW l, NEW h, HeldOK(b, l, h), l # <<>>,
           Last(l).buffer_index <= Len(b.data)
    PROVE  HeldOK([b EXCEPT !.index = Last(l).buffer_index],
                  [l EXCEPT ![Len(l)] = NextItem(@)], h)
<1> DEFINE n == Len(l)
           e == NextItem(l[n])
           m == [l EXCEPT ![n] = e]
           a == [b EXCEPT !.index = Last(l).buffer_index]
<1>1. /\ BufferOK(b) /\ b.index \in Nat
      /\ IsSeq(l) /\ h = Cardinality(Lists(l)) + Len(b.partials)
      /\ \A i \in DOMAIN l : l[i].buffer_index \in 1 .. b.index
      /\ \A i, j \in DOMAIN l : i <= j => l[i].buffer_index <= l[j].buffer_index
  BY BufferShape DEF HeldOK
<1>2. n \in Nat \ {0} /\ DOMAIN l = 1 .. n /\ n \in 1 .. n
  BY <1>1, SeqLen
<1>3. e.buffer_index = l[n].buffer_index /\ e.lookup = l[n].lookup
  <2>1. e = [l[n] EXCEPT !.loop_index = @ + 1]
    BY DEF NextItem
  <2> HIDE DEF e
  <2> QED
    BY <2>1
<1>4. IsSeq(m) /\ DOMAIN m = 1 .. n /\ \A i \in 1 .. n : m[i] = IF i = n THEN e ELSE l[i]
  <2> HIDE DEF e
  <2> QED
    BY <1>1, <1>2, SeqReplace
<1>5. \A i \in 1 .. n : m[i].buffer_index = l[i].buffer_index /\ m[i].lookup = l[i].lookup
  <2> HIDE DEF e, m
  <2> QED
    BY <1>3, <1>4
<1>6. [l EXCEPT ![Len(l)] = NextItem(@)] = m
  OBVIOUS
<1>7. Last(l) = l[n]
  BY DEF Last
<1> HIDE DEF m, e
<1>8. Lists(m) = Lists(l)
  BY <1>2, <1>4, <1>5 DEF Lists
<1>9. /\ DOMAIN a = DOMAIN b /\ a.index = l[n].buffer_index /\ a.data = b.data
      /\ a.partials = b.partials /\ a.eof = b.eof
  BY <1>1, <1>7, BufferShape
<1> HIDE DEF a
<1>10. l[n].buffer_index \in 1 .. Len(b.data) /\ Len(b.data) \in Nat
  BY <1>1, <1>2, <1>7, BufferShape
<1>11. BufferOK(a) /\ a.index >= 1
  BY <1>1, <1>9, <1>10 DEF BufferOK
<1>12. \A i \in DOMAIN m : m[i].buffer_index \in 1 .. a.index
  <2>1. \A i \in 1 .. n : l[i].buffer_index <= l[n].buffer_index
    BY <1>1, <1>2
  <2>2. \A i \in 1 .. n : l[i].buffer_index \in Nat \ {0}
    BY <1>1, <1>2
  <2>3. \A i \in 1 .. n : l[i].buffer_index \in 1 .. l[n].buffer_index
    BY <1>10, <2>1, <2>2
  <2> QED
    BY <1>4, <1>5, <1>9, <2>3
<1>13. \A i, j \in DOMAIN m : i <= j => m[i].buffer_index <= m[j].buffer_index
  BY <1>1, <1>2, <1>4, <1>5
<1>14. h = Cardinality(Lists(m)) + Len(a.partials)
  BY <1>1, <1>8, <1>9
<1>15. HeldOK(a, m, h)
  BY <1>4, <1>11, <1>12, <1>13, <1>14 DEF HeldOK
<1> QED
  BY <1>6, <1>15 DEF a

------------------------------------------------------------------------------
\* The actions

LEMMA FailsKeeps == Fails => HeldInv'
BY DEF Fails, HeldInv

\* A step that leaves the sections alone and reads up to b.
LEMMA ReadsOn ==
    ASSUME status' = "running", loops' = loops, HeldOK(buffer', loops, held')
    PROVE  HeldInv'
BY DEF HeldInv, HeldOK

LEMMA RenderKeeps == HeldInv /\ render => HeldInv'
<1> SUFFICES ASSUME HeldInv, render PROVE HeldInv'
  OBVIOUS
<1>1. /\ BufferOK(buffer) /\ buffer.index = 0 /\ ~buffer.eof
      /\ buffer.partials = <<>> /\ loops = <<>> /\ held = 0
  BY DEF HeldInv, render
<1>2. PICK broken \in Reads : buffer' = buffer_next(buffer, broken)
  BY DEF render
<1>3. status' = "running" /\ loops' = <<>> /\ held' = 0
  BY <1>1 DEF render
<1>4. buffer.index <= Len(buffer.data)
  BY <1>1, BufferShape
<1> DEFINE after == buffer_next(buffer, broken)
<1>5. BufferOK(after) /\ after.index = 1 /\ after.partials = <<>>
  BY <1>1, <1>4, NextBuffer
<1> HIDE DEF after
<1>6. Cardinality(Lists(<<>>)) = 0 /\ DOMAIN <<>> = {} /\ IsSeq(<<>>) /\ Len(<<>>) = 0
  <2>1. DOMAIN <<>> = {}
    BY EmptyIsSeq, SeqLen
  <2>2. Lists(<<>>) = {}
    BY <2>1 DEF Lists
  <2> QED
    BY <2>1, <2>2, FS_EmptySet, EmptyIsSeq
<1>7. HeldOK(after, <<>>, 0)
  BY <1>5, <1>6 DEF HeldOK
<1>8. HeldOK(buffer', loops, held')
  BY <1>1, <1>2, <1>3, <1>7 DEF after
<1> QED
  BY <1>1, <1>3, <1>8, ReadsOn

\* A token was read, and nothing else was done.
LEMMA PassedOver ==
    ASSUME HeldInv, NEW kind, At(kind), UNCHANGED <<loops, status>>,
           NEW broken, LET after == buffer_next(buffer, broken)
                       IN  buffer' = after /\ held' = held - Left(after)
    PROVE  HeldInv'
<1>1. HeldOK(buffer', loops, held')
  BY HeldNext
<1>2. status' = "running"
  BY DEF At
<1> QED
  BY <1>1, <1>2, ReadsOn

LEMMA TextKeeps ==
    HeldInv /\ (render_text \/ render_stache_comment \/ render_stache_unclosed) => HeldInv'
<1>1. ASSUME HeldInv, render_text PROVE HeldInv'
  BY <1>1, PassedOver DEF render_text
<1>2. ASSUME HeldInv, render_stache_comment PROVE HeldInv'
  BY <1>2, PassedOver DEF render_stache_comment
<1>3. ASSUME HeldInv, render_stache_unclosed PROVE HeldInv'
  BY <1>3, PassedOver DEF render_stache_unclosed
<1> QED
  BY <1>1, <1>2, <1>3

LEMMA ValueKeeps ==
    ASSUME HeldInv, NEW kind, At(kind), NEW broken, NEW v, NEW chars,
           Value(v, chars, buffer_next(buffer, broken))
    PROVE  HeldInv'
<1> DEFINE after == buffer_next(buffer, broken)
<1>1. /\ buffer' = after
      /\ CASE v.type = "not_found" ->
                /\ held' = held - Left(after)
                /\ UNCHANGED <<out, status>>
           [] v.type = "string" ->
                /\ buffer_output(chars)
                /\ held' = held - Left(after)
                /\ \E ok \in Releases : IF ok THEN UNCHANGED status ELSE Fails
           [] v.type = "no_name" ->
                /\ held' = held - Left(after)
                /\ Fails
                /\ UNCHANGED out
           [] OTHER ->
                /\ held' = held + 1 - Left(after)
                /\ Fails
                /\ UNCHANGED out
      /\ loops' = loops
  BY DEF Value
<1> HIDE DEF after
<1>2. Fails \/ (held' = held - Left(after) /\ status' = status)
  <2>1. CASE v.type = "not_found"
    BY <1>1, <2>1
  <2>2. CASE v.type = "string"
    BY <1>1, <2>2
  <2>3. CASE v.type \notin {"not_found", "string"}
    BY <1>1, <2>3
  <2> QED
    BY <2>1, <2>2, <2>3
<1> QED
  BY <1>1, <1>2, PassedOver, FailsKeeps DEF after

LEMMA TagKeeps ==
    HeldInv /\ (render_stache_raw \/ render_stache_escape) => HeldInv'
<1>1. ASSUME HeldInv, render_stache_raw PROVE HeldInv'
  BY <1>1, ValueKeeps DEF render_stache_raw
<1>2. ASSUME HeldInv, render_stache_escape PROVE HeldInv'
  BY <1>2, ValueKeeps DEF render_stache_escape
<1> QED
  BY <1>1, <1>2

LEMMA LoopKeeps ==
    ASSUME HeldInv, NEW type, render_stache_loop(type)
    PROVE  HeldInv'
<1>1. At(type) /\ status = "running"
  BY DEF render_stache_loop, At
<1>2. PICK broken, ok, e :
        LET after == buffer_next(buffer, broken)
        IN  /\ buffer' = after /\ loops' = Append(loops, e)
            /\ e.buffer_index = after.index
            /\ held' = held + ReleasesList(e) - Left(after)
            /\ Fails \/ status' = status
  <2>1. PICK broken \in Reads, ok \in Releases :
          LET v == callback(buffer_item.name)
              after == buffer_next(buffer, broken)
          IN  /\ buffer' = after
              /\ loops' = Append(loops,
                    [type |-> type, name |-> buffer_item.name, lookup |-> v,
                     buffer_index |-> after.index, loop_index |-> 0,
                     empty |-> IsEmpty(v)])
              /\ IF v.type = "list"
                 THEN held' = held + 1 - Left(after)
                 ELSE held' = held - Left(after)
              /\ IF \/ v.type = "partial" /\ v.stream = <<>>
                    \/ v.type \in {"string", "partial"} /\ ~ok
                 THEN Fails ELSE UNCHANGED status
    BY DEF render_stache_loop
  <2> DEFINE v == callback(buffer_item.name)
             after == buffer_next(buffer, broken)
             e == [type |-> type, name |-> buffer_item.name, lookup |-> v,
                   buffer_index |-> after.index, loop_index |-> 0,
                   empty |-> IsEmpty(v)]
             left == Left(after)
  <2>2. held \in Int /\ left \in Int
    <3>1. HeldOK(after, loops, held - left) /\ HeldOK(buffer, loops, held)
      BY <1>1, HeldNext
    <3> QED
      BY <3>1, HeldInt
  <2>3. e.buffer_index = after.index /\ e.lookup = v
    OBVIOUS
  <2>4. held' = IF v.type = "list" THEN held + 1 - left ELSE held - left
    BY <2>1
  <2>5. buffer' = after /\ loops' = Append(loops, e) /\ (Fails \/ status' = status)
    BY <2>1
  <2> HIDE DEF v, after, left, e
  <2>6. held' = held + ReleasesList(e) - left
    BY <2>2, <2>3, <2>4 DEF ReleasesList
  <2> QED
    BY <2>3, <2>5, <2>6 DEF after, left
<1> DEFINE after == buffer_next(buffer, broken)
<1>3. HeldOK(after, loops, held - Left(after)) /\ HeldOK(buffer, loops, held)
  BY <1>1, HeldNext
<1>4. /\ buffer' = after /\ loops' = Append(loops, e) /\ e.buffer_index = after.index
      /\ held' = held + ReleasesList(e) - Left(after)
      /\ Fails \/ status' = status
  BY <1>2
<1> HIDE DEF after
<1>5. HeldOK(after, Append(loops, e), held - Left(after) + ReleasesList(e))
  BY <1>3, <1>4, OpenSection
<1>6. held' = held - Left(after) + ReleasesList(e)
  <2>1. held \in Int /\ Left(after) \in Int
    BY <1>3, HeldInt
  <2>2. ReleasesList(e) \in Int
    BY DEF ReleasesList
  <2> QED
    BY <1>4, <2>1, <2>2
<1> QED
  BY <1>1, <1>4, <1>5, <1>6, FailsKeeps DEF HeldInv

LEMMA EndKeeps == HeldInv /\ render_stache_end => HeldInv'
<1> SUFFICES ASSUME HeldInv, render_stache_end PROVE HeldInv'
  OBVIOUS
<1>1. At("end") /\ status = "running"
  BY DEF render_stache_end, At
<1> DEFINE loop == Last(loops)
           closes == loops # <<>> /\ loop.name = buffer_item.name
<1>2. PICK broken \in Reads, ok \in Releases :
        LET after == buffer_next(buffer, broken)
        IN  \/ Fails
            \/ /\ closes /\ Again(loop)
               /\ buffer' = [after EXCEPT !.index = loop.buffer_index]
               /\ loops' = [loops EXCEPT ![Len(loops)] = NextItem(@)]
               /\ held' = held - Left(after)
               /\ status' = status
            \/ /\ closes /\ ~Again(loop)
               /\ buffer' = after
               /\ loops' = Ended(ok)
               /\ held' = held - ReleasesList(loop) - Left(after)
               /\ IF loop.lookup.type = "list" /\ ~ok THEN Fails
                  ELSE UNCHANGED status
  BY Zenon DEF render_stache_end
<1> DEFINE after == buffer_next(buffer, broken)
<1>3. /\ HeldOK(after, loops, held - Left(after)) /\ HeldOK(buffer, loops, held)
      /\ buffer.index <= Len(buffer.data) /\ Len(after.data) >= Len(buffer.data)
      /\ BufferOK(after)
  BY <1>1, HeldNext
<1>4. held \in Int /\ Left(after) \in Int
  BY <1>3, HeldInt
<1>5. \/ Fails
      \/ /\ closes
         /\ buffer' = [after EXCEPT !.index = loop.buffer_index]
         /\ loops' = [loops EXCEPT ![Len(loops)] = NextItem(@)]
         /\ held' = held - Left(after)
         /\ status' = status
      \/ /\ closes
         /\ buffer' = after
         /\ loops' = Ended(ok)
         /\ held' = held - ReleasesList(loop) - Left(after)
         /\ ~(loop.lookup.type = "list" /\ ~ok)
         /\ status' = status
  BY <1>2, Zenon
<1> HIDE DEF after
<1>6. ASSUME closes,
             buffer' = [after EXCEPT !.index = loop.buffer_index],
             loops' = [loops EXCEPT ![Len(loops)] = NextItem(@)],
             held' = held - Left(after), status' = status
      PROVE  HeldInv'
  <2>1. loop.buffer_index <= Len(after.data)
    <3>1. loop.buffer_index \in 1 .. buffer.index
      <4>1. Len(loops) \in DOMAIN loops
        <5>1. IsSeq(loops)
          BY <1>3 DEF HeldOK
        <5> QED
          BY <1>6, <5>1, SeqLen
      <4> QED
        BY <1>3, <4>1 DEF HeldOK, Last
    <3>2. /\ buffer.index \in Nat /\ Len(buffer.data) \in Nat
          /\ Len(after.data) \in Nat
      BY <1>3, BufferShape DEF HeldOK
    <3> QED
      BY <1>3, <3>1, <3>2
  <2>2. HeldOK([after EXCEPT !.index = loop.buffer_index],
               [loops EXCEPT ![Len(loops)] = NextItem(@)], held - Left(after))
    BY <1>3, <1>6, <2>1, RepeatSection
  <2>3. HeldOK(buffer', loops', held')
    BY <1>6, <2>2
  <2> QED
    BY <1>1, <1>6, <2>3 DEF HeldInv
<1>7. ASSUME closes, buffer' = after, loops' = Ended(ok),
             held' = held - ReleasesList(loop) - Left(after),
             ~(loop.lookup.type = "list" /\ ~ok), status' = status
      PROVE  HeldInv'
  <2>1. loops' = Front(loops)
    BY <1>7 DEF Ended
  <2>2. HeldOK(after, Front(loops), held - Left(after) - ReleasesList(loop))
    BY <1>3, <1>7, CloseSection
  <2>3. held' = held - Left(after) - ReleasesList(loop)
    <3>1. ReleasesList(loop) \in Int
      BY DEF ReleasesList
    <3> QED
      BY <1>4, <1>7, <3>1
  <2>4. HeldOK(buffer', loops', held')
    BY <1>7, <2>1, <2>2, <2>3
  <2> QED
    BY <1>1, <1>7, <2>4 DEF HeldInv
<1> QED
  BY <1>5, <1>6, <1>7, FailsKeeps

LEMMA PartialKeeps == HeldInv /\ render_stache_partial => HeldInv'
<1> SUFFICES ASSUME HeldInv, render_stache_partial PROVE HeldInv'
  OBVIOUS
<1>1. At("partial") /\ status = "running" /\ loops' = loops
  BY DEF render_stache_partial, At
<1> DEFINE start == buffer.index
           Cut(after) == [after EXCEPT !.index = start - 1,
                                       !.data = SubSeq(@, 1, start - 1)]
<1>2. PICK broken, again, stream, saved :
        LET after == buffer_next(buffer, broken)
            cut == Cut(after)
            resumed == IF stream = NULL THEN Behead(cut, saved)
                       ELSE [cut EXCEPT !.partials =
                                Append(@, [stream |-> stream, save |-> saved])]
            next == buffer_next(resumed, again)
        IN  \/ Fails
            \/ /\ ~after.eof
               /\ buffer' = next
               /\ held' = held - Left(next)
               /\ status' = status
  <2>1. PICK broken \in Reads, again \in Reads :
          LET v == callback(buffer_item.name)
              after == buffer_next(buffer, broken)
              stream == CASE v.type = "string"  -> v.content
                          [] v.type = "partial" -> v.stream
                          [] OTHER              -> NULL
              saved == IF after.index <= Len(after.data)
                       THEN after.data[after.index] ELSE Debris
              cut == Cut(after)
              resumed == IF stream = NULL THEN Behead(cut, saved)
                         ELSE [cut EXCEPT !.partials =
                                  Append(@, [stream |-> stream, save |-> saved])]
              next == IF after.eof THEN resumed ELSE buffer_next(resumed, again)
          IN  /\ buffer' = next
              /\ held' = held - Left(next)
              /\ IF after.eof \/ v.type = "list" THEN Fails ELSE UNCHANGED status
    BY Zenon DEF render_stache_partial
  <2> DEFINE v == callback(buffer_item.name)
             after == buffer_next(buffer, broken)
             stream == CASE v.type = "string"  -> v.content
                         [] v.type = "partial" -> v.stream
                         [] OTHER              -> NULL
             saved == IF after.index <= Len(after.data)
                      THEN after.data[after.index] ELSE Debris
             cut == Cut(after)
             resumed == IF stream = NULL THEN Behead(cut, saved)
                        ELSE [cut EXCEPT !.partials =
                                 Append(@, [stream |-> stream, save |-> saved])]
             next == buffer_next(resumed, again)
             Last3 == IF after.eof THEN resumed ELSE next
  <2>2. /\ buffer' = Last3 /\ held' = held - Left(Last3)
        /\ IF after.eof \/ v.type = "list" THEN Fails ELSE UNCHANGED status
    BY <2>1, Zenon
  <2>3. \/ Fails
        \/ ~after.eof /\ buffer' = next /\ held' = held - Left(next) /\ status' = status
    <3> HIDE DEF v, after, resumed, next
    <3> QED
      BY <2>2
  <2> HIDE DEF stream, saved, v
  <2> QED
    BY <2>3
<1> DEFINE after == buffer_next(buffer, broken)
           cut == Cut(after)
           resumed == IF stream = NULL THEN Behead(cut, saved)
                      ELSE [cut EXCEPT !.partials =
                               Append(@, [stream |-> stream, save |-> saved])]
           next == buffer_next(resumed, again)
<1>3. /\ BufferOK(after) /\ start \in 1 .. Len(after.data) + 1
      /\ HeldOK(buffer, loops, held)
  <2>1. /\ BufferOK(after) /\ Len(after.data) >= Len(buffer.data)
        /\ HeldOK(buffer, loops, held)
        /\ start <= Len(buffer.data) /\ start \in Nat \ {0}
    BY <1>1, HeldNext
  <2>2. BufferOK(buffer) /\ Len(buffer.data) \in Nat /\ Len(after.data) \in Nat
    BY <2>1, BufferShape DEF HeldOK
  <2> QED
    BY <2>1, <2>2
<1>4. \/ Fails
      \/ ~after.eof /\ buffer' = next /\ held' = held - Left(next) /\ status' = status
  BY <1>2, Zenon
<1>5. ASSUME ~after.eof, buffer' = next, held' = held - Left(next), status' = status
      PROVE  HeldInv'
  <2> HIDE DEF after
  <2>1. BufferOK(cut) /\ cut.index = start - 1 /\ Len(cut.data) = start - 1 /\ ~cut.eof
    BY <1>3, <1>5, CutBuffer
  <2> HIDE DEF cut
  <2>2. /\ BufferOK(resumed) /\ resumed.index = start - 1
        /\ Len(resumed.data) = start - 1 /\ ~resumed.eof
    <3>1. CASE stream = NULL
      <4>1. resumed = Behead(cut, saved)
        BY <3>1
      <4> QED
        BY <2>1, <4>1, BeheadBuffer
    <3>2. CASE stream # NULL
      <4> DEFINE p == [stream |-> stream, save |-> saved]
      <4>1. resumed = [cut EXCEPT !.partials = Append(@, p)]
        BY <3>2
      <4> HIDE DEF p, resumed
      <4>2. LET a == [cut EXCEPT !.partials = Append(@, p)]
            IN  BufferOK(a) /\ a.index = cut.index /\ a.data = cut.data /\ ~a.eof
        BY <2>1, AddPartial
      <4> QED
        BY <2>1, <4>1, <4>2
    <3> QED
      BY <3>1, <3>2
  <2> HIDE DEF resumed
  <2>3. start - 1 \in Nat /\ start \in Nat
    BY <1>3
  <2>4. BufferOK(next) /\ next.index = start
    BY <2>2, <2>3, NextBuffer
  <2> HIDE DEF next
  <2>5. HeldOK(next, loops, held - Left(next))
    BY <1>3, <2>3, <2>4, HeldOnAnother
  <2>6. HeldOK(buffer', loops, held')
    BY <1>5, <2>5
  <2> QED
    BY <1>1, <1>5, <2>6, ReadsOn
<1> QED
  BY <1>4, <1>5, FailsKeeps

\* At the end of the template no partial is left.
LEMMA ReturnsKeeps == HeldInv /\ render_returns => HeldInv'
<1> SUFFICES ASSUME HeldInv, render_returns PROVE HeldInv'
  OBVIOUS
<1>1. status' = "returned" /\ held' = held
  BY DEF render_returns
<1>2. ASSUME result' = 0 PROVE held = 0
  <2>1. status = "running" /\ buffer_eof /\ loops = <<>>
    BY <1>2 DEF render_returns
  <2>2. HeldOK(buffer, <<>>, held)
    BY <2>1 DEF HeldInv
  <2>3. buffer.partials = <<>>
    <3>1. BufferOK(buffer) /\ buffer.eof /\ buffer.index > Len(buffer.data)
      BY <2>1, <2>2 DEF buffer_eof, HeldOK
    <3>2. buffer.index \in Nat /\ Len(buffer.data) \in Nat
      BY <3>1, BufferShape
    <3> QED
      BY <3>1, <3>2 DEF BufferOK
  <2>4. Cardinality(Lists(<<>>)) = 0
    <3>1. Lists(<<>>) = {}
      BY EmptyIsSeq, SeqLen DEF Lists
    <3> QED
      BY <3>1, FS_EmptySet
  <2> QED
    BY <2>2, <2>3, <2>4, EmptyIsSeq DEF HeldOK
<1> QED
  BY <1>1, <1>2 DEF HeldInv

LEMMA HeldKept == HeldInv /\ [Next]_vars => HeldInv'
<1> SUFFICES ASSUME HeldInv, [Next]_vars PROVE HeldInv'
  OBVIOUS
<1>1. CASE render
  BY <1>1, RenderKeeps
<1>2. CASE render_template
  <2>1. CASE render_text
    BY <2>1, TextKeeps
  <2>2. CASE render_cut
    BY <2>2, FailsKeeps DEF render_cut
  <2>3. CASE render_stache_raw
    BY <2>3, TagKeeps
  <2>4. CASE render_stache_escape
    BY <2>4, TagKeeps
  <2>5. CASE render_stache_while
    BY <2>5, LoopKeeps DEF render_stache_while
  <2>6. CASE render_stache_else
    BY <2>6, LoopKeeps DEF render_stache_else
  <2>7. CASE render_stache_end
    BY <2>7, EndKeeps
  <2>8. CASE render_stache_delimiters
    BY <2>8, FailsKeeps DEF render_stache_delimiters
  <2>9. CASE render_stache_comment
    BY <2>9, TextKeeps
  <2>10. CASE render_stache_partial
    BY <2>10, PartialKeeps
  <2>11. CASE render_stache_unclosed
    BY <2>11, TextKeeps
  <2> QED
    BY <1>2, <2>1, <2>2, <2>3, <2>4, <2>5, <2>6, <2>7, <2>8, <2>9, <2>10, <2>11
       DEF render_template
<1>3. CASE render_returns
  BY <1>3, ReturnsKeeps
<1>4. CASE Done \/ UNCHANGED vars
  BY <1>4 DEF Done, vars, HeldInv, HeldOK
<1> QED
  BY <1>1, <1>2, <1>3, <1>4 DEF Next

LEMMA HeldInvHolds == Spec => []HeldInv
<1>1. Init => HeldInv
  BY HeldInit
<1>2. HeldInv /\ [Next]_vars => HeldInv'
  BY HeldKept
<1> QED
  BY <1>1, <1>2, PTL DEF Spec

\* The engine holds the lists of the open sections and the partials it is reading, and
\* holds nothing when render succeeds, whatever the template, the environment, the
\* failures of streams and of the user's functions.
THEOREM HeldExactHolds == Spec => []HeldExact
<1>1. HeldInv => HeldExact
  <2> SUFFICES ASSUME HeldInv PROVE HeldExact
    OBVIOUS
  <2>1. Lists(loops) = {i \in DOMAIN loops : loops[i].lookup.type = "list"}
    BY DEF Lists
  <2> QED
    BY <2>1 DEF HeldInv, HeldOK, HeldExact
<1> QED
  BY <1>1, HeldInvHolds, PTL

==============================================================================
