--------------------------- MODULE ResumeLocator ---------------------------
(***************************************************************************)
(* The history-based resume locator of the T1 firmware                    *)
(* (klippy/extras/locate_printing_gcode.py).                               *)
(*                                                                         *)
(* Every line the SD loop dispatches is bracketed by record_gcode_begin /  *)
(* record_gcode_end and pushed into a bounded deque.  On a filament runout *)
(* the sensor snapshots the live extruder position (save_runing_info); F108 *)
(* pops that snapshot (restore_runing_info) and set_resume_pos walks the   *)
(* history newest to oldest to pick the line to resume from, which it      *)
(* hands to virtual_sdcard.set_resume_file_position and to the saved       *)
(* PAUSE_STATE.                                                            *)
(*                                                                         *)
(* A MoveRecord keeps the file offset of its line and the Z and E of the   *)
(* G-code position before and after it.  The code reads Z and E from       *)
(* 'gcode_position' in RollbackCheckZChange and E from 'position' in the   *)
(* walk; the two differ only by the G92 base offset, which the model takes *)
(* as constant over the history.                                           *)
(***************************************************************************)
EXTENDS Integers, Sequences, SequencesExt

CONSTANTS
    ZVals,            \* Z heights a line can reach
    EVals,            \* extruder positions a line can reach
    QueueSizes,       \* values F109 S= may give (may include 0 and negatives)
    EOffsets,         \* values F109 E= may give to e_offset
    GravityVals,      \* values F109 N= / T= may give
    QUEUE_SIZE,       \* queue_size from the config
    E_OFFSET,         \* e_offset from the config
    GRAVITY_MIN,      \* gravity_min from the config
    GRAVITY_TARGET,   \* gravity_target from the config
    MaxLines,         \* bound on the number of dispatched lines
    None

ASSUME QUEUE_SIZE \in Nat /\ MaxLines \in Nat
ASSUME E_OFFSET \in Nat /\ \A e \in EOffsets : e \in Nat

VARIABLES
    queue,            \* the deque of MoveRecords, oldest first
    max_size,         \* its maxlen
    e_offset, gravity_min, gravity_target,
    pos,              \* gcode_move position [z, e] after the last line
    saved_states,     \* the 'RunoutDebounceHelper' snapshot: live E or None
    resume_offset,    \* what set_resume_file_position last wrote, or None
    pause_state,      \* line whose gcode_state was saved as PAUSE_STATE
    log,              \* ghost: every record ever appended, oldest first
    last_locate       \* ghost: inputs and result of the last walk, or None

vars == <<queue, max_size, e_offset, gravity_min, gravity_target, pos,
          saved_states, resume_offset, pause_state, log, last_locate>>

Point == [z : ZVals, e : EVals]
Record == [offset : 1..MaxLines, z0 : ZVals, e0 : EVals, z1 : ZVals, e1 : EVals]

TypeOK ==
    /\ queue \in Seq(Record) /\ Len(queue) <= Len(log)
    /\ max_size \in {QUEUE_SIZE} \cup QueueSizes
    /\ e_offset \in {E_OFFSET} \cup EOffsets
    /\ pos \in Point
    /\ saved_states \in {None} \cup EVals
    /\ resume_offset \in {None} \cup 1..MaxLines
    /\ pause_state \in {None} \cup 1..MaxLines
    /\ log \in Seq(Record) /\ Len(log) <= MaxLines

(* Mutant: keeps the oldest records instead of the newest. *)
KeepOldest(s, n) == IF n <= 0 THEN <<>> ELSE SubSeq(s, 1, Min({n, Len(s)}))

(* deque.append with maxlen: the oldest records are evicted. *)
KeepNewest(s, n) == IF n <= 0 THEN <<>>
                    ELSE SubSeq(s, Max({1, Len(s) - n + 1}), Len(s))

-----------------------------------------------------------------------------
(* The pure part: RollbackCheckZChange.is_break, check_rollback and the   *)
(* loop of set_resume_pos.  Positions are integers, so the 1e-9 threshold *)
(* of the code is a comparison with zero.                                 *)

(* The collision test of is_break for a line that moves Z: going down    *)
(* below the locked printing height, or a layer change up from below it.  *)
ZCollision(st, r) ==
    \/ r.z1 < r.z0 /\ st.lock /\ r.z1 < st.height
    \/ r.z1 > r.z0 /\ r.z0 < st.height

(* is_break: returns whether the lookback must stop here, and the updated *)
(* lock / printing_height of the detector.                                 *)
IsBreak(st, r) ==
    LET dz == r.z1 - r.z0
        de == r.e1 - r.e0
    IN IF dz = 0
       THEN [brk |-> FALSE,
             lock |-> st.lock \/ de > 0,
             height |-> IF de > 0 /\ ~st.lock THEN r.z1 ELSE st.height]
       ELSE [brk |-> ZCollision(st, r) \/ de # 0,
             lock |-> st.lock, height |-> st.height]

CheckRollback(c, gmin, gtarget) ==
    IF c < gmin THEN (IF c < gtarget THEN 1 ELSE -1)
    ELSE (IF c < gtarget THEN 1 ELSE 0)

(* Mutant: the dead length between sensor and nozzle is forgotten. *)
LackNoOffset(posE, eoff) == posE

(* posELack: the extruder coordinate at which filament is missing at the  *)
(* nozzle.                                                                 *)
Lack(posE, eoff) == posE + eoff

(* One iteration of 'for item in reversed(self.queue)' per call, from    *)
(* index i down to 1.  st.loc is the index of extrude_locate (0 = none). *)
RECURSIVE Walk(_, _, _, _, _, _, _)
Walk(h, i, st, posE, lack, gmin, gtarget) ==
    IF i = 0 THEN st ELSE
    LET r      == h[i]
        zc     == IsBreak(st, r)
        remain == lack - r.e1
        dE     == r.e1 - r.e0
        s1     == [st EXCEPT !.lc = st.lc /\ ~zc.brk,
                             !.lock = zc.lock, !.height = zc.height]
        comp   == s1.comp + dE
        s2     == [s1 EXCEPT !.comp = comp]
        cr     == CheckRollback(comp, gmin, gtarget)
        Locate(s) == [s EXCEPT !.loc = i]
        Onward(s) == Walk(h, i - 1,
                        IF dE > 0 THEN [Locate(s) EXCEPT !.roll = TRUE] ELSE s,
                        posE, lack, gmin, gtarget)
    IN CASE remain > 0 /\ ~s1.lc                   -> s1
         [] remain > 0 /\ gmin > 0 /\ cr < 0        -> s2
         [] remain > 0 /\ gmin > 0 /\ cr = 0 /\ ~s1.roll
                                                   -> [Locate(s2) EXCEPT !.roll = TRUE]
         [] remain > 0 /\ gmin > 0                 -> Onward(s2)
         [] remain > 0                             -> s1
         [] lack < r.e0 /\ r.e1 < posE             -> s1
         [] lack < r.e0                            -> Onward(s1)
         [] OTHER                                  -> Locate(s1)

(* The walk of set_resume_pos over history h for live extruder position  *)
(* posE: the index of the selected record, 0 when none is selected.       *)
SetResumePos(h, posE, eoff, gmin, gtarget) ==
    Walk(h, Len(h),
         [lc |-> TRUE, comp |-> 0, roll |-> FALSE, loc |-> 0,
          lock |-> FALSE, height |-> 0],
         posE, Lack(posE, eoff), gmin, gtarget).loc

-----------------------------------------------------------------------------
(* The handlers. *)

Init ==
    /\ queue = <<>>
    /\ max_size = QUEUE_SIZE
    /\ e_offset = E_OFFSET
    /\ gravity_min = GRAVITY_MIN
    /\ gravity_target = GRAVITY_TARGET
    /\ pos \in Point
    /\ saved_states = None
    /\ resume_offset = None
    /\ pause_state = None
    /\ log = <<>>
    /\ last_locate = None

(* Mutant: the record is tagged with the offset of the following line    *)
(* (next_file_position) instead of its own.                               *)
DispatchLineAhead(p) ==
    /\ Len(log) < MaxLines
    /\ LET r == [offset |-> Len(log) + 2, z0 |-> pos.z, e0 |-> pos.e,
                 z1 |-> p.z, e1 |-> p.e]
       IN /\ queue' = KeepNewest(Append(queue, r), max_size)
          /\ log' = Append(log, r)
    /\ pos' = p
    /\ UNCHANGED <<max_size, e_offset, gravity_min, gravity_target,
                   saved_states, resume_offset, pause_state, last_locate>>

(* The SD loop dispatches one line that moves the G-code position to p:   *)
(* record_gcode_begin snapshots the position before, run_script executes  *)
(* the line, record_gcode_end appends the record.                         *)
DispatchLine(p) ==
    /\ Len(log) < MaxLines
    /\ LET r == [offset |-> Len(log) + 1, z0 |-> pos.z, e0 |-> pos.e,
                 z1 |-> p.z, e1 |-> p.e]
       IN /\ queue' = KeepNewest(Append(queue, r), max_size)
          /\ log' = Append(log, r)
    /\ pos' = p
    /\ UNCHANGED <<max_size, e_offset, gravity_min, gravity_target,
                   saved_states, resume_offset, pause_state, last_locate>>

(* A line whose run_script raises: record_gcode_begin ran but            *)
(* record_gcode_end is skipped, so no record is appended although the     *)
(* position may have moved.  The next record_gcode_begin overwrites       *)
(* parseinfo.                                                             *)
DispatchLineFailed(p) ==
    /\ Len(log) < MaxLines
    /\ pos' = p
    /\ UNCHANGED <<queue, max_size, e_offset, gravity_min, gravity_target,
                   saved_states, resume_offset, pause_state, log, last_locate>>

(* F109 S=: resize the deque.  A shrink below the occupancy keeps the     *)
(* newest records; a negative size there is rejected.                     *)
ResizeQueue(s) ==
    IF s < Len(queue) THEN KeepNewest(queue, s) ELSE queue

(* F109 with any of S, E, N, T (None = parameter absent).  An invalid S   *)
(* raises before E, N and T are applied.                                  *)
F109(s, e, n, t) ==
    /\ ~(s # None /\ s # max_size /\ s < Len(queue) /\ s < 0)
    /\ IF s # None /\ s # max_size
       THEN queue' = ResizeQueue(s) /\ max_size' = s
       ELSE UNCHANGED <<queue, max_size>>
    /\ e_offset' = IF e = None THEN e_offset ELSE e
    /\ gravity_min' = IF n = None THEN gravity_min ELSE n
    /\ gravity_target' = IF t = None THEN gravity_target ELSE t
    /\ UNCHANGED <<pos, saved_states, resume_offset, pause_state, log,
                   last_locate>>

(* save_runing_info: the live extruder position at the runout event.     *)
SaveRuningInfo(liveE) ==
    /\ saved_states' = liveE
    /\ UNCHANGED <<queue, max_size, e_offset, gravity_min, gravity_target,
                   pos, resume_offset, pause_state, log, last_locate>>

(* restore_runing_info / set_resume_pos: pop the snapshot; with a         *)
(* non-empty history walk it and apply the selected record.               *)
RestoreRuningInfo ==
    /\ saved_states' = None
    /\ IF saved_states = None \/ queue = <<>>
       THEN UNCHANGED <<resume_offset, pause_state, last_locate>>
       ELSE LET k == SetResumePos(queue, saved_states, e_offset,
                                  gravity_min, gravity_target)
            IN /\ last_locate' = [hist |-> queue, live |-> saved_states,
                                  eoff |-> e_offset, gmin |-> gravity_min,
                                  gtarget |-> gravity_target, loc |-> k]
               /\ IF k = 0 THEN UNCHANGED <<resume_offset, pause_state>>
                  ELSE /\ resume_offset' = queue[k].offset
                       /\ pause_state' = queue[k].offset
    /\ UNCHANGED <<queue, max_size, e_offset, gravity_min, gravity_target,
                   pos, log>>

Opt(S) == S \cup {None}

Next ==
    \/ \E p \in Point : DispatchLine(p)
    \/ \E p \in Point : DispatchLineFailed(p)
    \/ \E s \in Opt(QueueSizes), e \in Opt(EOffsets),
          n \in Opt(GravityVals), t \in Opt(GravityVals) : F109(s, e, n, t)
    \/ \E liveE \in EVals : SaveRuningInfo(liveE)
    \/ RestoreRuningInfo

Spec == Init /\ [][Next]_vars

-----------------------------------------------------------------------------
(* Reference definitions, from spec.md 4.3, for a history of flat (no Z   *)
(* move) lines that never retract.                                         *)

Flat(h) == \A i \in 1..Len(h) : h[i].z1 = h[i].z0
NoRetract(h) == \A i \in 1..Len(h) : h[i].e1 >= h[i].e0

(* Without gravity compensation (spec 4.3 steps 1-5): nothing to do when *)
(* the newest line ended before the missing point; otherwise the newest  *)
(* line that started at or before the missing point; when the walk runs  *)
(* out of history, the oldest record examined (step 5).                  *)
Straddling(h, lack) == SelectLastInSeq(h, LAMBDA r : r.e0 <= lack)

RefResumePos(h, posE, eoff) ==
    LET lack == posE + eoff
    IN IF lack > h[Len(h)].e1 THEN 0
       ELSE IF Straddling(h, lack) # 0 THEN Straddling(h, lack)
       ELSE 1

(* The walk runs out of history over an oldest line that did not extrude: *)
(* set_resume_pos then keeps the oldest line that extruded (the           *)
(* 'if deltaE > 0' at 307-309), or none, where step 5 takes that oldest   *)
(* line.  The README lists this disagreement.                             *)
Step5Disagrees(h, posE, eoff) ==
    /\ posE + eoff <= h[Len(h)].e1
    /\ Straddling(h, posE + eoff) = 0
    /\ h[1].e1 <= h[1].e0

(* The newest record at which the Z-change detector, walking back, sees  *)
(* a collision with the printed height (0 = never).  Records before it    *)
(* that stop the detector for a simultaneous Z and E move are skipped.    *)
RECURSIVE CollisionFrom(_, _, _)
CollisionFrom(h, i, st) ==
    IF i = 0 THEN 0
    ELSE LET zc == IsBreak(st, h[i])
         IN IF h[i].z1 # h[i].z0 /\ ZCollision(st, h[i]) THEN i
            ELSE CollisionFrom(h, i - 1, [st EXCEPT !.lock = zc.lock,
                                                    !.height = zc.height])
FirstCollision(h) == CollisionFrom(h, Len(h), [lock |-> FALSE, height |-> 0])

-----------------------------------------------------------------------------
(* Properties. *)

(* F109 resizing and deque eviction keep exactly the newest records, in   *)
(* order: the history is always a suffix of everything recorded, no       *)
(* longer than its capacity (spec 3: shrinking retains the most recent N). *)
HistoryRetained ==
    /\ IsSuffix(queue, log)
    /\ Len(queue) <= Max({max_size, 0})

(* Without gravity compensation, on flat non-retracting lines, the walk  *)
(* of set_resume_pos (the remainLen tests at 262 and 288, posELack with   *)
(* e_offset) selects the line that spec 4.3 selects, in every case but    *)
(* the one Step5Disagrees names.                                          *)
ResumePosMatchesSpec ==
    last_locate # None
    /\ last_locate.gmin <= 0
    /\ Flat(last_locate.hist) /\ NoRetract(last_locate.hist)
    /\ ~Step5Disagrees(last_locate.hist, last_locate.live, last_locate.eoff)
    => last_locate.loc = RefResumePos(last_locate.hist, last_locate.live,
                                      last_locate.eoff)

(* Collision avoidance takes precedence over material recovery (spec 8):  *)
(* set_resume_pos never selects a line older than the one at which        *)
(* RollbackCheckZChange detects a collision with the printed height.      *)
CollisionPrecedence ==
    last_locate # None /\ last_locate.loc # 0
    /\ FirstCollision(last_locate.hist) # 0
    => last_locate.loc >= FirstCollision(last_locate.hist)


=============================================================================
