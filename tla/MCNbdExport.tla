---------------------------- MODULE MCNbdExport ----------------------------
(* Three sectors: one file, two files, and a file inside another.          *)
EXTENDS NbdExport

MCExtentLists == {<<>>,
                  <<[start |-> 0, count |-> 3], [start |-> 1, count |-> 1]>>,
                  <<[start |-> 0, count |-> 1], [start |-> 1, count |-> 2]>>}
=============================================================================
