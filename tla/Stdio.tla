-------------------------------- MODULE Stdio --------------------------------
(***************************************************************************)
(* The standard output of a program and of the processes it forks, as       *)
(* printf() of the C library treats it: each process has a buffer, which is *)
(* flushed at the end of a line if the output is a terminal, and otherwise  *)
(* by exit() alone (the texts of these programs are shorter than the        *)
(* buffer).  The library is not part of src/; every definition is external. *)
(***************************************************************************)
EXTENDS Sequences

\* The processes P write to a terminal, or to a file or a pipe.
Stdout(P, terminal) ==
    [terminal |-> terminal, buffer |-> [p \in P |-> << >>], shown |-> << >>]

\* _exit(), exec() or a signal: the buffer is lost.
Discard(out, p) == [out EXCEPT !.buffer[p] = << >>]

\* exit() by process p: the buffer is written.
Flush(out, p) == [Discard(out, p) EXCEPT !.shown = @ \o out.buffer[p]]

\* printf() of texts that do not end a line, and of texts that do.
Say(out, p, texts) == [out EXCEPT !.buffer[p] = @ \o texts]
SayLine(out, p, texts) ==
    IF out.terminal THEN Flush(Say(out, p, texts), p) ELSE Say(out, p, texts)

\* fork(): the child q has a copy of the buffer.
CopyBuffer(out, p, q) == [out EXCEPT !.buffer[q] = out.buffer[p]]
=============================================================================
