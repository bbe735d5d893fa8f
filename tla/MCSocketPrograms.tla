-------------------------- MODULE MCSocketPrograms --------------------------
(* SocketPrograms with what clients send, as lengths: two short strings, a   *)
(* string that is longer than both buffers before a short one, and an empty  *)
(* one.                                                                       *)
EXTENDS SocketPrograms

SampleArguments == {<<1, 2>>, <<4, 1>>, <<0>>}
=============================================================================
