------------------------------ MODULE MCStreams ------------------------------
EXTENDS InputStream

\* A text that fits in the first block, and one that is as long as it.
PlainTexts == {<<97>>, <<98, 99>>}
\* The byte 0xff, and the NUL that "%c" puts.
HighTexts == {<<-1>>}
NulTexts == {<<NUL>>, <<98, 99>>}

\* Before the buffer, at its start, in the text, and past it.
AnyOffset == {-1, 0, 1, 3}
AtStart == {0}
=============================================================================
