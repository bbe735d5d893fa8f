--------------------------- MODULE MCPipePrograms ---------------------------
(* PipePrograms with texts, in ASCII: one character, two of which one is an   *)
(* upper-case letter, as many as the arrays have room for, and one more.      *)
EXTENDS PipePrograms

SampleTexts == {<<98>>, <<97, 66>>, <<97, 66, 99>>, <<97, 98, 99, 100>>}
=============================================================================
