---------------------- MODULE MCExcludeObjectRetraction ----------------------
(* Model-checking instance of ExcludeObjectRetraction.  The extruder      *)
(* starts at E = 0 and the transform is registered before the job moves    *)
(* (an object excluded at the start, or re-excluded by F102 on a          *)
(* power-loss resume): the transform's extrusion maxima start at 0         *)
(* (_register_transform 51-52) and are right from the first move, so the   *)
(* check is about the compensation on leaving an excluded object.          *)
EXTENDS ExcludeObjectRetraction

MCOrigin == {0}
MCEPos2 == 0..2

MCRInit == RInit /\ toolhead[4] = 0

MCRNext == RNext /\ (registered \/ UNCHANGED toolhead)

MCRSpec == MCRInit /\ [][MCRNext]_rvars
====
