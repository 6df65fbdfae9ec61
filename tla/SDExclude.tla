----------------------------- MODULE SDExclude -----------------------------
(***************************************************************************)
(* The streaming loop with the object-exclusion filter as its dispatcher: *)
(* a job line is one of the exclude_object commands and what the line      *)
(* does (returns, raises the overrun "exclude_object over") is what        *)
(* ExcludeObject says the command does in the current exclusion state.    *)
(* The loop and the console commands are VirtualSD's; the                  *)
(* virtual_sdcard:reset_file event and _load_file's save_exclude_objects  *)
(* calls are ExcludeObject's.                                              *)
(***************************************************************************)
EXTENDS Integers, Sequences

CONSTANTS NL, FileBytes, CHUNK, MaxSkips, StrEmpty,
          Names, None, XPos, YPos, ZPos, EPos, MAX_OBJECTS_NUM,
          OBJECT_START_DIFF, InitialExtrusionMoves, MaxOffset, MaxEndCount

VARIABLES current_file, cursor, file_position, next_file_position, file_size,
          work_timer, must_pause_work, cmd_from_sd, lines, partial_input,
          has_pre_check, error_message, waiter, exclude_gcode_runs,
          end_print_runs, cancelled, skips, last_line, crashed, shutdown,
          objects, excluded_objects, current_object, is_excluded_object,
          in_excluded_region, object_end_count, exclude_enabled, registered,
          last_position, last_position_extruded, last_position_excluded,
          offset, max_position_extruded, max_position_excluded, extruder_adj,
          initial_extrusion_moves, toolhead, saved, result, moved,
          job_ends  \* ghost: EXCLUDE_OBJECT_END lines run since SDCARD_PRINT_FILE

SD == INSTANCE VirtualSD
EO == INSTANCE ExcludeObject

sdvars == <<current_file, cursor, file_position, next_file_position, file_size,
           work_timer, must_pause_work, cmd_from_sd, lines, partial_input,
           has_pre_check, error_message, waiter, exclude_gcode_runs,
           end_print_runs, cancelled, skips, last_line, crashed, shutdown>>
eobook == <<objects, excluded_objects, current_object, is_excluded_object,
            object_end_count, exclude_enabled>>
eomotion == <<in_excluded_region, registered, last_position,
              last_position_extruded, last_position_excluded, offset,
              max_position_extruded, max_position_excluded, extruder_adj,
              initial_extrusion_moves, toolhead>>
eovars == <<eobook, eomotion, saved, result, moved>>
vars == <<sdvars, eovars, job_ends>>

(* A job line: EXCLUDE_OBJECT_START NAME=n, EXCLUDE_OBJECT_END NAME=n or   *)
(* EXCLUDE_OBJECT NAME=n.                                                  *)
Commands == [op : {"start", "end", "exclude"}, name : Names]

(* gcode.run_script of one line (425): the exclude_object handler. *)
RunScript(line) ==
    IF line = <<>> THEN UNCHANGED eovars
    ELSE CASE line[1].op = "start" -> EO!ExcludeObjectStart(line[1].name)
           [] line[1].op = "end" -> EO!ExcludeObjectEnd(line[1].name)
           [] line[1].op = "exclude" -> EO!ExcludeObject(line[1].name)

(* How the loop sees the handler's result: a gcode error whose text holds *)
(* "exclude_object over" (433) or another gcode error.                    *)
Outcome(r) == CASE r = "overrun" -> "over"
                [] r = "error" -> "error"
                [] OTHER -> "ok"

IsEnd(line) == line # <<>> /\ line[1].op = "end"

(* One loop iteration that dispatches a line (410-463); the filament      *)
(* pre-check is the filament sensor's concern and finds filament here.    *)
DispatchGcode ==
    /\ lines # <<>>
    /\ RunScript(Head(lines))
    /\ SD!DispatchLine(Outcome(result'), 0, FALSE)
    /\ job_ends' = IF IsEnd(Head(lines)) THEN job_ends + 1 ELSE job_ends

LoopOther ==
    /\ \/ SD!WorkHandlerStart
       \/ SD!LoopPaused
       \/ \E ok \in BOOLEAN : SD!ReadChunk(ok)
    /\ UNCHANGED <<eovars, job_ends>>

\* Mutant of PrintFile: _reset_file sends no reset_file event.
PrintFileNoEvent ==
    /\ SD!SdcardPrintFile
    /\ UNCHANGED <<eobook, eomotion, moved>>
    /\ saved' = [objects_enabled |-> exclude_enabled,
                  excluded_objects |-> excluded_objects]
    /\ UNCHANGED result
    /\ job_ends' = 0

(* SDCARD_PRINT_FILE: _reset_file sends virtual_sdcard:reset_file, then   *)
(* _load_file at position 0 persists the (now empty) exclusion state      *)
(* (virtual_sdcard.py 156-163, 231-235).                                  *)
PrintFile ==
    /\ SD!SdcardPrintFile
    /\ EO!ResetFileState
    /\ saved' = [objects_enabled |-> TRUE, excluded_objects |-> {}]
    /\ UNCHANGED result
    /\ job_ends' = 0

(* The end of a blocked do_pause: SDCARD_RESET_FILE's _reset_file sends   *)
(* the reset_file event, do_cancel does not.                              *)
FinishWait ==
    /\ SD!EndWait
    /\ IF waiter = "reset" THEN EO!ResetFile ELSE UNCHANGED eovars
    /\ UNCHANGED job_ends

(* Console commands of the two components between loop iterations. *)
ConsoleSD ==
    /\ \/ SD!DoResume
       \/ \E k \in SD!Waits \ {"none"} : SD!BeginWait(k)
    /\ UNCHANGED <<eovars, job_ends>>

ConsoleExclude ==
    /\ waiter = "none" /\ ~crashed
    /\ \E n \in Names : EO!ExcludeObject(n) \/ EO!ExcludeObjectReset(n)
    /\ UNCHANGED <<sdvars, job_ends>>

Init == SD!Init /\ EO!Init /\ job_ends = 0

Next ==
    \/ DispatchGcode
    \/ LoopOther
    \/ PrintFile
    \/ FinishWait
    \/ ConsoleSD
    \/ ConsoleExclude

Spec == Init /\ [][Next]_vars

-----------------------------------------------------------------------------
(* Properties *)

(* The overrun heuristic (exclude_object 248-259) ends a job only after  *)
(* more than OBJECT_START_DIFF EXCLUDE_OBJECT_END lines of that job have   *)
(* run: END counts of an earlier job, paused, cancelled or finished,       *)
(* whatever the console excluded or reset in between, never finish the     *)
(* next one early (SDCARD_PRINT_FILE -> _reset_file -> reset_file event -> *)
(* exclude_object._reset_file, virtual_sdcard 156-163).                    *)
OverrunCountsOwnJob ==
    [][DispatchGcode /\ result' = "overrun" =>
           job_ends' > OBJECT_START_DIFF]_vars

(* Spec 4.1 and 9: an exclusion overrun runs the finish sequence once and  *)
(* completes the job (work_handler 435-443 runs exclude_object_gcode and   *)
(* continues the loop).                                                    *)
FinishSequenceOnce == exclude_gcode_runs <= 1

(* Spec 5: cancel waits for the command in progress, so no resource is     *)
(* released under a running loop: the job file is open whenever           *)
(* work_handler is running (do_cancel 146-152 waits in do_pause 135-139   *)
(* while the loop runs and cmd_from_sd is False).                         *)
CancelWaitsForLoop == work_timer = "running" => current_file
====
