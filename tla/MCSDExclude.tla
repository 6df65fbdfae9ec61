---------------------------- MODULE MCSDExclude ----------------------------
(* Instantiation of SDExclude: one object a, a single grid point (no      *)
(* G1 lines: motion plays no part), the warm-up extrusion moves done.     *)
EXTENDS SDExclude

CONSTANTS a

MCOrigin == {0}
X == [op |-> "exclude", name |-> a]
S == [op |-> "start", name |-> a]
E == [op |-> "end", name |-> a]

\* EXCLUDE_OBJECT NAME=a, then object a twice: read in 4-byte chunks.
MCShortFile == <<X, NL, S, NL, E, NL, S, NL, E, NL>>

\* EXCLUDE_OBJECT NAME=a, then object a five times, all in one read as in
\* an 8 KiB chunk of a real job.
MCLongFile == <<X, NL, S, NL, E, NL, S, NL, E, NL, S, NL, E, NL,
                S, NL, E, NL, S, NL, E, NL>>
====
