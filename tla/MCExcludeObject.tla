--------------------------- MODULE MCExcludeObject ---------------------------
(* Model-checking instance of ExcludeObject.                               *)
EXTENDS ExcludeObject

MCBinary == {0, 1}
MCOrigin == {0}
MCEPos2 == 0..2

====
