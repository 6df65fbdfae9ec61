--------------------------- MODULE MCResumeLocator ---------------------------
(* Instances of ResumeLocator for TLC. *)
EXTENDS ResumeLocator

MCZVals == 0..1
MCEVals == 0..3
MCFlatZ == {0}
MCEBinary == 0..1
MCQueueSizes == {-1, 0, 2}
MCEOffsets == {0, 1}
MCGravityVals == {0, 1, 2}
MCOne == {1}
MCZero == {0}

(* A job starts with the toolhead at the origin. *)
MCInit == Init /\ pos = [z |-> 0, e |-> 0]
MCSpec == MCInit /\ [][Next]_vars

(* The walk of set_resume_pos over every history of up to MaxLines       *)
(* consecutive lines starting anywhere: such a history is what the SD    *)
(* loop leaves in the deque after dispatching those lines.               *)
Histories ==
    UNION {{[i \in 1..n |-> [offset |-> i, z0 |-> pts[i].z, e0 |-> pts[i].e,
                             z1 |-> pts[i + 1].z, e1 |-> pts[i + 1].e]]
            : pts \in [1..n + 1 -> Point]} : n \in 1..MaxLines}

WalkInit ==
    /\ queue \in Histories
    /\ log = queue
    /\ pos = [z |-> queue[Len(queue)].z1, e |-> queue[Len(queue)].e1]
    /\ max_size = QUEUE_SIZE
    /\ e_offset \in EOffsets
    /\ gravity_min \in GravityVals
    /\ gravity_target \in GravityVals
    /\ saved_states \in EVals
    /\ resume_offset = None
    /\ pause_state = None
    /\ last_locate = None

WalkSpec == WalkInit /\ [][RestoreRuningInfo]_vars
=============================================================================
