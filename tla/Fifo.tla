-------------------------------- MODULE Fifo --------------------------------
(***************************************************************************)
(* A POSIX FIFO (the inode behind a name made by mkfifo), as the programs   *)
(* of this repository use it: blocking opens, writes no longer than         *)
(* PIPE_BUF (so a record is written whole), no O_NONBLOCK.  The kernel is   *)
(* not part of src/; every definition here is external.                     *)
(*                                                                          *)
(* A FIFO is a record.  Its ends are whatever the client module uses to     *)
(* name an open file description: one process may hold several.             *)
(***************************************************************************)
EXTENDS Sequences

\* readers, writers: the ends that are open or blocked in open();
\* met: those whose open() has found a partner and may return;
\* data: what is written and not yet read.
NewFifo == [readers |-> {}, writers |-> {}, met |-> {}, data |-> << >>]

\* open(O_RDONLY) by end e.  It returns once a writer is there: at once, or
\* when the first writer opens.
OpenForReading(f, e) ==
    [f EXCEPT !.readers = @ \cup {e},
              !.met = IF f.writers = {} THEN @ ELSE @ \cup {e} \cup f.writers]

\* open(O_WRONLY) by end e, which needs a reader in the same way.
OpenForWriting(f, e) ==
    [f EXCEPT !.writers = @ \cup {e},
              !.met = IF f.readers = {} THEN @ ELSE @ \cup {e} \cup f.readers]

\* The open() of end e has returned.
Opened(f, e) == e \in f.met

\* A write to a FIFO nobody reads raises SIGPIPE.
Broken(f) == f.readers = {}

\* write() of one record.
Put(f, m) == [f EXCEPT !.data = Append(@, m)]

\* read() blocks while the FIFO is empty and has a writer, and returns 0 when
\* it is empty and has none.
AtEOF(f) == f.data = << >> /\ f.writers = {}
HasData(f) == f.data # << >>
Drop(f) == [f EXCEPT !.data = Tail(@)]

\* close() of the ends E, by hand or by the death of their process.  The
\* kernel frees the contents with the last end.
CloseEnds(f, E) ==
    LET readers == f.readers \ E
        writers == f.writers \ E
    IN  [readers |-> readers, writers |-> writers, met |-> f.met \ E,
         data |-> IF readers \cup writers = {} THEN << >> ELSE f.data]

\* The records a FIFO may be, over the ends E and the messages M.
Fifos(E, M) == [readers : SUBSET E, writers : SUBSET E, met : SUBSET E,
                data : Seq(M)]
=============================================================================
