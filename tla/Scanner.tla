------------------------------ MODULE Scanner ------------------------------
(***************************************************************************)
(* What the two scanners have in common: the device images they read, and  *)
(* where in its program a scanner is.                                      *)
(***************************************************************************)
EXTENDS Neo4jGraph

VARIABLE disk   \* the device images, fixed while the scanners run

\* At the top of the inode loop; before the file type; in the walk of a
\* directory block that never ends; in the xattr loop; between the SET and the
\* merge of a link or of a fid xattr; between the two SETs of an object's lma;
\* in the loop after the last inode; and four ways of not running: never
\* started, exit at the end, an earlier exit, killed.
Pc == {"inode", "type", "spin", "xattr", "merge", "f_oid", "lov",
       "idle", "done", "exited", "killed"}
Stopped == {"idle", "done", "exited", "killed"}

\* The number of the run, the loop variable i, the index k of the entry in the
\* slot's xattrs, the counter j of the object scanner's last loop, and whether
\* (a history variable) every statement of this run so far took effect.
ScannerState(s) == [pc: Pc, run: 0 .. MaxRuns, i: 1 .. TotalInodes[s] + 1,
                    k: Nat \ {0}, j: Nat \ {0}, clean: BOOLEAN]

Idle == [pc |-> "idle", run |-> 0, i |-> 1, k |-> 1, j |-> 1, clean |-> FALSE]

\* The state in which run number r enters the inode loop, or leaves at once
\* because the device or the database could not be opened.
Started(r, up) == [pc |-> IF up THEN "inode" ELSE "exited", run |-> r,
                   i |-> 1, k |-> 1, j |-> 1, clean |-> TRUE]

=============================================================================
