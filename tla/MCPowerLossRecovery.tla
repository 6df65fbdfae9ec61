------------------------ MODULE MCPowerLossRecovery ------------------------
(* Two files, each given in its cfg: the line count, the object-start     *)
(* lines, the read step and span of recover_file_position, one or two     *)
(* object names, a queue of one snapshot and the orphan writers allowed.  *)
EXTENDS PowerLossRecovery, TLC

CONSTANTS j1, j2

MCJobs == {j1, j2}

(* The files are interchangeable: nothing compares them but by equality. *)
Symmetry == Permutations(MCJobs)
=============================================================================
