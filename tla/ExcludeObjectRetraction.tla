----------------------- MODULE ExcludeObjectRetraction -----------------------
(***************************************************************************)
(* ExcludeObject with two history variables that follow the extruder:      *)
(* the largest E requested of the transform and the largest E it handed  *)
(* to the toolhead since it was registered.  Their difference to the       *)
(* current E is how far the G-code, resp. the physical extruder, is        *)
(* retracted.                                                              *)
(***************************************************************************)
EXTENDS ExcludeObject

VARIABLES
  gMax,   \* largest requested E since registration
  pMax    \* largest delivered E since registration

rvars == <<vars, gMax, pMax>>

RInit == Init /\ gMax = 0 /\ pMax = 0

\* A move updates the maxima; a command that registers the transform starts
\* them at the toolhead's E.
RNext ==
  \/ \E p \in Pos :
       /\ Move(p)
       /\ gMax' = IF registered THEN MaxOf(gMax, p[4]) ELSE gMax
       /\ pMax' = IF registered /\ ~in_excluded_region'
                  THEN MaxOf(pMax, toolhead'[4]) ELSE pMax
  \/ /\ CommandNext
     /\ IF ~registered /\ registered'
        THEN gMax' = toolhead[4] /\ pMax' = toolhead[4]
        ELSE UNCHANGED <<gMax, pMax>>

RSpec == RInit /\ [][RNext]_rvars

====
