---------------------------- MODULE ExcludeObject ----------------------------
(***************************************************************************)
(* The object-exclusion move transform of klippy/extras/exclude_object.py. *)
(*                                                                         *)
(* State: the object bookkeeping (objects, excluded_objects,               *)
(* current_object, is_excluded_object, object_end_count, exclude_enabled), *)
(* whether the transform is at the head of gcode_move's chain              *)
(* (next_transform # None), and the offset algebra of move(): the         *)
(* positions last requested / delivered / suppressed, the per-axis offset, *)
(* the extrusion maxima and the pending extruder_adj.  The toolhead is the *)
(* position the next transform (the toolhead) last received.               *)
(*                                                                         *)
(* A position is a 4-tuple <<X, Y, Z, E>> of integers.  Every G-code       *)
(* command handler and every call of move() / get_position() is one       *)
(* action; the handlers' trailing save_exclude_objects() call is part of   *)
(* the action (the in-memory copy of save_variables is updated at once).   *)
(***************************************************************************)
EXTENDS Integers, FiniteSets, Bags, Functions

CONSTANTS
  Names,                  \* object names appearing in the job (model values)
  None,                   \* Python None
  XPos, YPos, ZPos, EPos, \* values a requested X, Y, Z, E takes
  MAX_OBJECTS_NUM,        \* exclude_object.py:8 (64)
  OBJECT_START_DIFF,      \* exclude_object.py:7 (3)
  InitialExtrusionMoves,  \* initial_extrusion_moves set by _register_transform (5)
  MaxOffset,              \* bound: |offset[i]| never exceeds it (model bound)
  MaxEndCount             \* bound: object_end_count values never exceed it

ASSUME None \notin Names
ASSUME MAX_OBJECTS_NUM \in Nat /\ OBJECT_START_DIFF \in Nat
ASSUME InitialExtrusionMoves \in Nat /\ MaxOffset \in Nat
ASSUME MaxEndCount > OBJECT_START_DIFF

VARIABLES
  objects,                 \* bag of defined names (a sorted list with duplicates)
  excluded_objects,        \* set of excluded names (a sorted list, no duplicates)
  current_object,          \* Names \cup {None}
  is_excluded_object,      \* cached at EXCLUDE_OBJECT_START
  in_excluded_region,
  object_end_count,        \* [Names -> Nat]; a missing key counts as 0
  exclude_enabled,
  registered,              \* next_transform # None
  last_position,           \* last requested position
  last_position_extruded,  \* last position of a delivered move
  last_position_excluded,  \* last position of a suppressed move
  offset,                  \* extrusion_offsets[extruder]
  max_position_extruded,
  max_position_excluded,
  extruder_adj,
  initial_extrusion_moves,
  toolhead,                \* position last sent to next_transform.move()
  saved,                   \* save_variables' view of the two persisted keys
  result,                  \* outcome of the last command for the dispatcher
  \* history variables, read only by properties
  moved                     \* axis groups a delivered move changed since the
                           \* last suppressed move

bookkeeping == <<objects, excluded_objects, current_object, is_excluded_object,
                 object_end_count, exclude_enabled>>
motion == <<registered, last_position, last_position_extruded,
            last_position_excluded, offset, max_position_extruded,
            max_position_excluded, extruder_adj, initial_extrusion_moves,
            in_excluded_region, toolhead>>
ghost == <<moved>>
vars == <<bookkeeping, motion, saved, result, ghost>>

Pos == XPos \X YPos \X ZPos \X EPos
Zero == <<0, 0, 0, 0>>
Groups == {"xy", "z", "e"}
Results == {"ok", "error", "overrun", "crash"}

Minus(p, q) == Pointwise(p, q, LAMBDA a, b : a - b)
Plus(p, q) == Pointwise(p, q, LAMBDA a, b : a + b)
MaxOf(a, b) == IF a >= b THEN a ELSE b
ObjectNames == BagToSet(objects)

\* save_exclude_objects(key, value): save_variables.setVariables updates its
\* in-memory variables at once and queues the file write.
Save(key, value) == saved' = [saved EXCEPT ![key] = value]

TypeOK ==
  /\ IsABag(objects) /\ BagToSet(objects) \subseteq Names
  /\ excluded_objects \subseteq Names
  /\ current_object \in Names \cup {None}
  /\ object_end_count \in [Names -> 0..MaxEndCount]
  /\ {is_excluded_object, in_excluded_region, exclude_enabled, registered}
       \subseteq BOOLEAN
  /\ {last_position, last_position_extruded, last_position_excluded,
      offset, toolhead} \subseteq Int \X Int \X Int \X Int
  /\ initial_extrusion_moves \in 0..InitialExtrusionMoves
  /\ saved \in [objects_enabled : BOOLEAN, excluded_objects : SUBSET Names]
  /\ result \in Results
  /\ moved \subseteq Groups

-----------------------------------------------------------------------------
(* Transform registration                                                  *)

\* _register_transform (40-59), tuning tower inactive: put the transform at
\* the head of the chain, fresh offsets, and read the position back through
\* get_position().
RegisterTransform ==
  IF registered
  THEN UNCHANGED motion /\ UNCHANGED ghost
  ELSE /\ registered' = TRUE
       /\ offset' = Zero
       /\ max_position_extruded' = 0
       /\ max_position_excluded' = 0
       /\ extruder_adj' = 0
       /\ initial_extrusion_moves' = InitialExtrusionMoves
       /\ last_position' = toolhead
       /\ last_position_extruded' = toolhead
       /\ last_position_excluded' = toolhead
       /\ moved' = Groups
       /\ UNCHANGED <<in_excluded_region, toolhead>>

\* _unregister_transform (64-75), tuning tower inactive: next_transform goes
\* back to the head of the chain; gcode_move.reset_last_position() does not
\* touch this module.
UnregisterTransform == registered' = FALSE

\* _reset_file (94-96) = _reset_state (85-92) then _unregister_transform.
ResetFileState ==
  /\ objects' = EmptyBag
  /\ excluded_objects' = {}
  /\ current_object' = None
  /\ in_excluded_region' = FALSE
  /\ object_end_count' = [n \in Names |-> 0]
  /\ exclude_enabled' = TRUE
  /\ is_excluded_object' = FALSE
  /\ UnregisterTransform
  /\ UNCHANGED <<last_position, last_position_extruded, last_position_excluded,
                 offset, max_position_extruded, max_position_excluded,
                 extruder_adj, initial_extrusion_moves, toolhead, ghost>>

\* The virtual_sdcard:reset_file event.
ResetFile ==
  /\ ResetFileState
  /\ result' = "ok"
  /\ UNCHANGED saved
-----------------------------------------------------------------------------
(* The move transform                                                      *)

\* get_position (107-112), called by gcode_move.reset_last_position().
GetPosition ==
  /\ registered
  /\ last_position' = Plus(toolhead, offset)
  /\ result' = "ok"
  /\ UNCHANGED <<bookkeeping, registered, last_position_extruded,
                 last_position_excluded, offset, max_position_extruded,
                 max_position_excluded, extruder_adj, initial_extrusion_moves,
                 in_excluded_region, toolhead, saved, ghost>>

\* Axis groups in which newpos differs from the last suppressed position.
Differs(newpos) ==
  LET lx == last_position_excluded
  IN  {g \in Groups : \/ g = "xy" /\ (newpos[1] # lx[1] \/ newpos[2] # lx[2])
                      \/ g = "z" /\ newpos[3] # lx[3]
                      \/ g = "e" /\ newpos[4] # lx[4]}

\* Mutant of CountInitialMove: counts off without checking the counter.
CountInitialMoveUnguarded(newpos) ==
  IF last_position[4] # newpos[4]
  THEN initial_extrusion_moves - 1 ELSE initial_extrusion_moves

\* initial_extrusion_moves after a delivered move (117-122): the first
\* InitialExtrusionMoves moves that change E are counted off.
CountInitialMove(newpos) ==
  IF initial_extrusion_moves > 0 /\ last_position[4] # newpos[4]
  THEN initial_extrusion_moves - 1 ELSE initial_extrusion_moves

\* The three corrections of _normal_move, on a record of the offset and the
\* pending extruder_adj.  135-142: the first X/Y move away from the last
\* suppressed position drops the X, Y and Z offsets and folds adj into E.
ClearXY(newpos, o, adj) ==
  LET lx == last_position_excluded
  IN  IF /\ o[1] # 0 \/ o[2] # 0
         /\ newpos[1] # lx[1] \/ newpos[2] # lx[2]
      THEN [off |-> <<0, 0, 0, o[4] + adj>>, adj |-> 0]
      ELSE [off |-> o, adj |-> adj]

\* Mutant of ClearZ: compares Z with the last delivered position.
ClearZAgainstExtruded(newpos, st) ==
  IF st.off[3] # 0 /\ newpos[3] # last_position_extruded[3]
  THEN [st EXCEPT !.off[3] = 0] ELSE st

\* 144-145: the first Z move away from it drops the Z offset.
ClearZ(newpos, st) ==
  IF st.off[3] # 0 /\ newpos[3] # last_position_excluded[3]
  THEN [st EXCEPT !.off[3] = 0] ELSE st

\* 147-150: the first E move away from it folds a pending adj into E.
FoldE(newpos, st) ==
  IF st.adj # 0 /\ newpos[4] # last_position_excluded[4]
  THEN [off |-> [st.off EXCEPT ![4] = @ + st.adj], adj |-> 0] ELSE st

\* _normal_move (114-155) with extruder_adj = adj on entry: deliver
\* newpos - offset, after dropping the offsets the move has left behind.
NormalMove(newpos, adj) ==
  LET st == FoldE(newpos, ClearZ(newpos, ClearXY(newpos, offset, adj)))
  IN  /\ initial_extrusion_moves' = CountInitialMove(newpos)
      /\ last_position' = newpos
      /\ last_position_extruded' = newpos
      /\ max_position_extruded' = MaxOf(max_position_extruded, newpos[4])
      /\ offset' = st.off
      /\ extruder_adj' = st.adj
      /\ toolhead' = Minus(newpos, st.off)
      /\ moved' = moved \cup Differs(newpos)
      /\ UNCHANGED <<last_position_excluded, max_position_excluded>>

\* _ignore_move (157-164): nothing is delivered; the offset becomes the
\* distance from the last delivered position, and E accumulates.
IgnoreMove(newpos) ==
  /\ offset' = <<newpos[1] - last_position_extruded[1],
                 newpos[2] - last_position_extruded[2],
                 newpos[3] - last_position_extruded[3],
                 offset[4] + newpos[4] - last_position[4]>>
  /\ last_position' = newpos
  /\ last_position_excluded' = newpos
  /\ max_position_excluded' = MaxOf(max_position_excluded, newpos[4])
  /\ moved' = {}
  /\ UNCHANGED <<last_position_extruded, max_position_extruded, extruder_adj,
                 initial_extrusion_moves, toolhead>>

\* _test_in_excluded_region_for_move (185-187)
MoveInExcludedRegion == is_excluded_object /\ initial_extrusion_moves = 0

\* _move_from_excluded_region (170-178): the retraction difference between
\* the excluded object and the last printed one.
ExitAdjustment ==
  max_position_excluded - last_position_excluded[4]
    - (max_position_extruded - last_position_extruded[4])

\* move (198-211): the transform receives a move from gcode_move.  Without
\* the transform the move goes straight to the toolhead.
Move(newpos) ==
  /\ \/ /\ ~registered
        /\ toolhead' = newpos
        /\ UNCHANGED <<registered, last_position, last_position_extruded,
                       last_position_excluded, offset, max_position_extruded,
                       max_position_excluded, extruder_adj,
                       initial_extrusion_moves, in_excluded_region, ghost>>
     \/ /\ registered
        /\ MoveInExcludedRegion
        /\ in_excluded_region' = TRUE
        /\ IgnoreMove(newpos)
        /\ UNCHANGED registered
     \/ /\ registered
        /\ ~MoveInExcludedRegion
        /\ in_excluded_region
        /\ in_excluded_region' = FALSE
        /\ NormalMove(newpos, ExitAdjustment)
        /\ UNCHANGED registered
     \/ /\ registered
        /\ ~MoveInExcludedRegion
        /\ ~in_excluded_region
        /\ NormalMove(newpos, extruder_adj)
        /\ UNCHANGED <<registered, in_excluded_region>>
  /\ \A i \in 1..4 : offset'[i] \in -MaxOffset..MaxOffset
  /\ result' = "ok"
  /\ UNCHANGED <<bookkeeping, saved>>
-----------------------------------------------------------------------------
(* G-code commands                                                         *)

\* _add_object_definition (323-326)
AddObjectDefinition(n) ==
  /\ objects' = objects (+) SetToBag({n})
  /\ object_end_count' = [object_end_count EXCEPT ![n] = 0]

\* _test_in_excluded_region (180-182) for the new current object n: the
\* cached flag that move() reads; its result only decides the 20 ms pause.
TestInExcludedRegion(n) == is_excluded_object' = (n \in excluded_objects)

\* cmd_EXCLUDE_OBJECT_START (215-223); the 20 ms reactor pause changes nothing
\* here.
ExcludeObjectStart(n) ==
  /\ IF n \notin ObjectNames
     THEN AddObjectDefinition(n)
     ELSE UNCHANGED <<objects, object_end_count>>
  /\ current_object' = n
  /\ TestInExcludedRegion(n)
  /\ result' = "ok"
  /\ UNCHANGED <<excluded_objects, exclude_enabled, motion, saved, ghost>>

\* cmd_EXCLUDE_OBJECT_END (226-252), NAME absent (None) or given.  Ending an
\* excluded object with no NAME reaches None.upper(): an internal error.
ExcludeObjectEnd(name) ==
  /\ IF current_object = None /\ registered
     THEN UNCHANGED <<current_object, object_end_count>> /\ result' = "ok"
     ELSE /\ current_object' = None
          /\ CASE ~MoveInExcludedRegion ->
                    /\ object_end_count' = [n \in Names |-> 0]
                    /\ result' = "ok"
               [] MoveInExcludedRegion /\ name = None ->
                    /\ UNCHANGED object_end_count
                    /\ result' = "crash"
               [] MoveInExcludedRegion /\ name # None ->
                    LET cnt == [object_end_count EXCEPT ![name] = @ + 1]
                    IN  /\ cnt[name] <= MaxEndCount
                        /\ object_end_count' = cnt
                        /\ result' = IF \E k \in Names : cnt[k] > OBJECT_START_DIFF
                                     THEN "overrun" ELSE "ok"
  /\ UNCHANGED <<objects, excluded_objects, is_excluded_object, exclude_enabled,
                 motion, saved, ghost>>

\* Mutant of ExcludeObjectName: the exclusion is not persisted.
ExcludeObjectNameUnsaved(n) ==
  /\ RegisterTransform
  /\ excluded_objects' = excluded_objects \cup {n}
  /\ UNCHANGED saved

\* _exclude_object (328-333), including its _register_transform() call.
ExcludeObjectName(n) ==
  /\ RegisterTransform
  /\ IF n \notin excluded_objects
     THEN /\ excluded_objects' = excluded_objects \cup {n}
          /\ Save("excluded_objects", excluded_objects')
     ELSE UNCHANGED <<excluded_objects, saved>>

\* _unexclude_object (335-341)
UnexcludeObject(n) ==
  IF n \in excluded_objects
  THEN /\ excluded_objects' = excluded_objects \ {n}
       /\ Save("excluded_objects", excluded_objects')
  ELSE UNCHANGED <<excluded_objects, saved>>

\* cmd_EXCLUDE_OBJECT (255-279): RESET with or without NAME, NAME, CURRENT.
\* Listing the excluded objects changes nothing and is left out.
ExcludeObjectReset(n) ==
  /\ UnexcludeObject(n)
  /\ result' = "ok"
  /\ UNCHANGED <<objects, current_object, is_excluded_object, object_end_count,
                 exclude_enabled, motion, ghost>>

ExcludeObjectResetAll ==
  /\ excluded_objects' = {}
  /\ result' = "ok"
  /\ UNCHANGED <<objects, current_object, is_excluded_object, object_end_count,
                 exclude_enabled, motion, saved, ghost>>

ExcludeObject(n) ==
  /\ IF n \notin excluded_objects
     THEN ExcludeObjectName(n)
     ELSE UNCHANGED <<excluded_objects, saved, motion, ghost>>
  /\ result' = "ok"
  /\ UNCHANGED <<objects, current_object, is_excluded_object, object_end_count,
                 exclude_enabled>>

\* Mutant of ExcludeObjectCurrent: no check for a current object.
ExcludeObjectCurrentUnchecked ==
  /\ ExcludeObjectName(current_object)
  /\ result' = "ok"
  /\ UNCHANGED <<objects, current_object, is_excluded_object, object_end_count,
                 exclude_enabled>>

ExcludeObjectCurrent ==
  /\ IF current_object = None
     THEN /\ result' = "error"
          /\ UNCHANGED <<excluded_objects, saved, motion, ghost>>
     ELSE /\ ExcludeObjectName(current_object)
          /\ result' = "ok"
  /\ UNCHANGED <<objects, current_object, is_excluded_object, object_end_count,
                 exclude_enabled>>

\* Mutant of ExcludeObjectDefine: the limit disables exclusion in memory only.
ExcludeObjectDefineUnsaved(n) ==
  /\ CASE ~exclude_enabled ->
            UNCHANGED <<objects, object_end_count, exclude_enabled, saved>>
       [] exclude_enabled /\ BagCardinality(objects) >= MAX_OBJECTS_NUM ->
            /\ exclude_enabled' = FALSE
            /\ UNCHANGED saved
            /\ UNCHANGED <<objects, object_end_count>>
       [] exclude_enabled /\ BagCardinality(objects) < MAX_OBJECTS_NUM ->
            /\ AddObjectDefinition(n)
            /\ UNCHANGED <<exclude_enabled, saved>>
  /\ result' = "ok"
  /\ UNCHANGED <<excluded_objects, current_object, is_excluded_object, motion,
                 ghost>>

\* cmd_EXCLUDE_OBJECT_DEFINE (282-311): a no-op while exclusion is disabled;
\* RESET resets the file state; NAME defines, unless MAX_OBJECTS_NUM objects
\* exist, in which case exclusion is disabled and that is persisted.
ExcludeObjectDefine(n) ==
  /\ CASE ~exclude_enabled ->
            UNCHANGED <<objects, object_end_count, exclude_enabled, saved>>
       [] exclude_enabled /\ BagCardinality(objects) >= MAX_OBJECTS_NUM ->
            /\ exclude_enabled' = FALSE
            /\ Save("objects_enabled", FALSE)
            /\ UNCHANGED <<objects, object_end_count>>
       [] exclude_enabled /\ BagCardinality(objects) < MAX_OBJECTS_NUM ->
            /\ AddObjectDefinition(n)
            /\ UNCHANGED <<exclude_enabled, saved>>
  /\ result' = "ok"
  /\ UNCHANGED <<excluded_objects, current_object, is_excluded_object, motion,
                 ghost>>

ExcludeObjectDefineReset ==
  \/ /\ exclude_enabled
     /\ ResetFile
  \/ /\ ~exclude_enabled
     /\ result' = "ok"
     /\ UNCHANGED <<bookkeeping, motion, saved, ghost>>

\* cmd_SET_EXCLUDE_ENABLE (314-321)
SetExcludeEnable(b) ==
  /\ exclude_enabled' = b
  /\ Save("objects_enabled", b)
  /\ result' = "ok"
  /\ UNCHANGED <<objects, excluded_objects, current_object, is_excluded_object,
                 object_end_count, motion, ghost>>

-----------------------------------------------------------------------------
(* Specification                                                           *)

\* State at klippy start: __init__ (10-23) runs _reset_state; the toolhead
\* is at some position of the grid.
Init ==
  /\ objects = EmptyBag
  /\ excluded_objects = {}
  /\ current_object = None
  /\ is_excluded_object = FALSE
  /\ in_excluded_region = FALSE
  /\ object_end_count = [n \in Names |-> 0]
  /\ exclude_enabled = TRUE
  /\ registered = FALSE
  /\ last_position = Zero
  /\ last_position_extruded = Zero
  /\ last_position_excluded = Zero
  /\ offset = Zero
  /\ max_position_extruded = 0
  /\ max_position_excluded = 0
  /\ extruder_adj = 0
  /\ initial_extrusion_moves = InitialExtrusionMoves
  /\ toolhead \in Pos
  /\ saved = [objects_enabled |-> TRUE, excluded_objects |-> {}]
  /\ result = "ok"
  /\ moved = Groups

CommandNext ==
  \/ GetPosition
  \/ \E n \in Names : ExcludeObjectStart(n)
  \/ \E n \in Names \cup {None} : ExcludeObjectEnd(n)
  \/ \E n \in Names : ExcludeObject(n)
  \/ ExcludeObjectCurrent
  \/ \E n \in Names : ExcludeObjectReset(n)
  \/ ExcludeObjectResetAll
  \/ \E n \in Names : ExcludeObjectDefine(n)
  \/ ExcludeObjectDefineReset
  \/ \E b \in BOOLEAN : SetExcludeEnable(b)
  \/ ResetFile

Next ==
  \/ \E p \in Pos : Move(p)
  \/ CommandNext

Spec == Init /\ [][Next]_vars

-----------------------------------------------------------------------------
(* Properties                                                              *)

\* Offsets left behind by suppressed moves are dropped: once a delivered move
\* has changed X/Y (resp. Z) away from the last suppressed position, the
\* X/Y (resp. Z) offset is zero, and once one has changed E the pending
\* extruder_adj has been folded in (_normal_move, 135-150).
NoResidualOffset ==
  registered /\ ~in_excluded_region =>
    /\ "xy" \in moved => offset[1] = 0 /\ offset[2] = 0
    /\ "z" \in moved => offset[3] = 0
    /\ "e" \in moved => extruder_adj = 0

\* Persisting exclusions: every object excluded in memory is also in the
\* excluded_objects saved for power-loss recovery, which F102 re-excludes
\* (_exclude_object 331-333, _unexclude_object 337-341, cmd_EXCLUDE_OBJECT
\* RESET 265, _reset_state 87); and while exclusion is off, because
\* EXCLUDE_OBJECT_DEFINE hit MAX_OBJECTS_NUM (303-306) or by
\* SET_EXCLUDE_ENABLE, the saved objects_enabled says so, so that F102
\* does not turn it back on after a power loss.
ExcludedPersisted ==
  /\ excluded_objects \subseteq saved.excluded_objects
  /\ ~exclude_enabled => ~saved.objects_enabled

====
