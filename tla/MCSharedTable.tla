--------------------------- MODULE MCSharedTable ---------------------------
(* The programs of SharedTable and lists for their writers.                 *)
EXTENDS SharedTable, TLC

CONSTANTS w1, w2, w3, r1

assignment6 == [counted |-> TRUE, readsInside |-> TRUE]
class10 == [counted |-> FALSE, readsInside |-> TRUE]
mypractice == [counted |-> FALSE, readsInside |-> FALSE]
AllPrograms == {assignment6, class10, mypractice}

\* Two lists of two pages and one of a single page.
TwoAndOne == w1 :> 2 @@ w2 :> 2 @@ w3 :> 1
=============================================================================
