----------------------------- MODULE VirtualSD -----------------------------
(***************************************************************************)
(* The job-streaming loop of the T1 firmware                              *)
(* (klippy/extras/virtual_sdcard.py, class VirtualSD).                    *)
(*                                                                         *)
(* The file is a sequence of bytes: command bytes (model values, one per   *)
(* line) and NL.  work_handler reads CHUNK bytes at a time, splits them at *)
(* NL, carries the trailing partial line into the next read, and          *)
(* dispatches one line per loop iteration.  The reactor is cooperative:    *)
(* console commands run between two iterations (the loop yields when      *)
(* gcode_mutex.test() sees them waiting), so an iteration is one step.    *)
(*                                                                         *)
(* What a dispatched line does is an input of DispatchLine: it returns    *)
(* normally ("ok"), asks to pause ("pause": PAUSE / M25 from the file,     *)
(* do_pause returns at once because cmd_from_sd is True), moves the read  *)
(* position ("skip": set_file_position), raises a G-code error ("error"),  *)
(* raises the exclusion overrun ("over", exclude_object.py:252), or       *)
(* raises another exception ("raise": a line that is not UTF-8 fails in   *)
(* line.decode, an internal error of a command).                          *)
(***************************************************************************)
EXTENDS Integers, Sequences, SequencesExt

CONSTANTS
    NL,             \* the newline byte
    FileBytes,      \* contents of the job file
    CHUNK,          \* bytes per read (8192 in the code)
    MaxSkips,       \* bound on set_file_position skips per job
    StrEmpty        \* the str "" that line 463 assigns to partial_input

ASSUME CHUNK \in Nat \ {0} /\ MaxSkips \in Nat

Size == Len(FileBytes)
Bytes == ToSet(FileBytes) \ {NL}
Waits == {"none", "pause", "cancel", "reset"}
Outcomes == {"ok", "pause", "skip", "error", "over", "raise"}
\* What an arbitrary line may do; the overrun comes only from
\* EXCLUDE_OBJECT_END and is left to the composition with ExcludeObject.
LineOutcomes == Outcomes \ {"over"}

(* Byte offsets at which a line starts, and the line starting there. *)
LineStarts == {0} \cup {i \in 1..Size - 1 : FileBytes[i] = NL}
LineAt(b) ==
    LET e == SelectInSubSeq(FileBytes, b + 1, Size, LAMBDA x : x = NL)
    IN IF e = 0 THEN SubSeq(FileBytes, b + 1, Size)
       ELSE SubSeq(FileBytes, b + 1, e - 1)

VARIABLES
    current_file,       \* TRUE while the file is open
    cursor,             \* read/seek position of the open file
    file_position, next_file_position, file_size,
    work_timer,         \* "none", "timer" (registered) or "running"
    must_pause_work, cmd_from_sd,
    lines,              \* lines split from the last read, next one first
    partial_input,      \* trailing bytes of the last read, or StrEmpty
    has_pre_check,
    error_message,      \* TRUE when the loop is leaving with an error
    waiter,             \* console command blocked in do_pause, or "none"
    \* history variables, read only by properties
    exclude_gcode_runs, \* exclude_object_gcode runs in this job
    end_print_runs,     \* END_PRINT runs in this job
    cancelled,          \* do_cancel ran in this job
    skips,              \* set_file_position skips in this job
    last_line,          \* [offset, content] of the last dispatched line
    crashed,            \* an exception escaped work_handler
    shutdown            \* klippy is in the shutdown state

vars == <<current_file, cursor, file_position, next_file_position, file_size,
          work_timer, must_pause_work, cmd_from_sd, lines, partial_input,
          has_pre_check, error_message, waiter, exclude_gcode_runs,
          end_print_runs, cancelled, skips, last_line, crashed, shutdown>>
loop == <<lines, partial_input, has_pre_check, error_message>>
job == <<exclude_gcode_runs, end_print_runs, cancelled, skips>>

TypeOK ==
    /\ current_file \in BOOLEAN /\ cursor \in 0..Size
    /\ file_position \in Nat /\ next_file_position \in Nat
    /\ file_size \in {0, Size}
    /\ work_timer \in {"none", "timer", "running"}
    /\ {must_pause_work, cmd_from_sd, has_pre_check, error_message,
        cancelled, crashed, shutdown} \subseteq BOOLEAN
    /\ lines \in Seq(Seq(Bytes))
    /\ partial_input \in Seq(Bytes) \cup {StrEmpty}
    /\ waiter \in Waits
    /\ skips \in 0..MaxSkips
    /\ last_line \in {<<>>} \cup [offset : Nat, content : Seq(Bytes)]

\* Mutant of Split: the pieces keep their terminating NL.
SplitKeepNL(d) ==
    LET nl == {i \in 1..Len(d) : d[i] = NL}
        k == Cardinality(nl)
        cuts == [j \in 1..k |-> CHOOSE i \in nl :
                                  Cardinality({m \in nl : m <= i}) = j]
    IN [j \in 1..k + 1 |->
          SubSeq(d, IF j = 1 THEN 1 ELSE cuts[j - 1] + 1,
                    IF j = k + 1 THEN Len(d) ELSE cuts[j])]

(* data.split(b'\n'): the pieces between NL bytes (one more than NLs). *)
Split(d) ==
    LET nl == {i \in 1..Len(d) : d[i] = NL}
        k == Cardinality(nl)
        cuts == [j \in 1..k |-> CHOOSE i \in nl :
                                  Cardinality({m \in nl : m <= i}) = j]
    IN [j \in 1..k + 1 |->
          SubSeq(d, IF j = 1 THEN 1 ELSE cuts[j - 1] + 1,
                    IF j = k + 1 THEN Len(d) ELSE cuts[j] - 1)]

-----------------------------------------------------------------------------
(* work_handler *)

\* Mutant of ExitLoop: work_timer is not cleared.
ExitLoopKeepTimer(err, open) ==
    /\ UNCHANGED work_timer
    /\ cmd_from_sd' = FALSE
    /\ end_print_runs' = IF ~err /\ ~open THEN end_print_runs + 1
                         ELSE end_print_runs

(* The loop's exit (464-476): work_timer cleared, then note_error, note_pause *)
(* with the file still open, or note_complete and END_PRINT.               *)
ExitLoop(err, open) ==
    /\ work_timer' = "none"
    /\ cmd_from_sd' = FALSE
    /\ end_print_runs' = IF ~err /\ ~open THEN end_print_runs + 1
                         ELSE end_print_runs

\* Mutant of WorkHandlerStart: the failed seek leaves work_timer set.
WorkHandlerStartKeepTimer ==
    /\ work_timer = "timer" /\ ~crashed
    /\ IF ~current_file
       THEN UNCHANGED <<work_timer, cursor, loop>>
       ELSE /\ work_timer' = "running"
            /\ cursor' = Min({file_position, Size})
            /\ lines' = <<>> /\ partial_input' = <<>>
            /\ has_pre_check' = FALSE /\ error_message' = FALSE
    /\ UNCHANGED <<current_file, file_position, next_file_position, file_size,
                   must_pause_work, cmd_from_sd, waiter, job, last_line,
                   crashed, shutdown>>

(* The timer fires (351-380): seek to file_position (an exception when no *)
(* file is open ends the handler), note_start, fresh loop locals.          *)
WorkHandlerStart ==
    /\ work_timer = "timer" /\ ~crashed
    /\ IF ~current_file
       THEN /\ work_timer' = "none"
            /\ UNCHANGED <<cursor, loop>>
       ELSE /\ work_timer' = "running"
            /\ cursor' = Min({file_position, Size})
            /\ lines' = <<>> /\ partial_input' = <<>>
            /\ has_pre_check' = FALSE /\ error_message' = FALSE
    /\ UNCHANGED <<current_file, file_position, next_file_position, file_size,
                   must_pause_work, cmd_from_sd, waiter, job, last_line,
                   crashed, shutdown>>

(* 'while not self.must_pause_work' fails. *)
LoopPaused ==
    /\ work_timer = "running" /\ ~crashed /\ must_pause_work
    /\ ExitLoop(error_message, current_file)
    /\ UNCHANGED <<current_file, cursor, file_position, next_file_position,
                   file_size, must_pause_work, loop, waiter,
                   exclude_gcode_runs, cancelled, skips, last_line, crashed,
                   shutdown>>

(* _thread_read_handler (270-278), run on the pool's one worker: read     *)
(* CHUNK bytes at the cursor.                                              *)
ReadData == SubSeq(FileBytes, cursor + 1, Min({cursor + CHUNK, Size}))

(* _read_data (280-305) raises when the worker stored a result: "Error:   *)
(* File closed" with no file open, or a failed read (ok = FALSE).  It    *)
(* raises a str, which is itself a TypeError; a read slower than the 1 s *)
(* poll is retried (a stutter) from Python 3.11, and raises before it.   *)
ReadFails(ok) == ~ok \/ ~current_file

(* No buffered line: read a chunk (382-409).  End of file closes the file  *)
(* and leaves; a read error (also a closed file or, before Python 3.11, a *)
(* read slower than the 1 s poll) runs on_error_gcode and leaves.  A str  *)
(* partial_input cannot be joined with bytes: the TypeError escapes       *)
(* work_handler.                                                           *)
ReadChunk(ok) ==
    /\ work_timer = "running" /\ ~crashed /\ ~must_pause_work
    /\ lines = <<>>
    /\ LET data == ReadData
           pieces == Split(data)
       IN CASE ReadFails(ok) ->
                 /\ error_message' = TRUE
                 /\ ExitLoop(TRUE, current_file)
                 /\ UNCHANGED <<current_file, cursor, lines, partial_input,
                                crashed>>
            [] data = <<>> ->
                 /\ current_file' = FALSE
                 /\ ExitLoop(error_message, FALSE)
                 /\ UNCHANGED <<cursor, lines, partial_input, error_message,
                                crashed>>
            [] partial_input = StrEmpty ->
                 /\ crashed' = TRUE
                 /\ cursor' = cursor + Len(data)
                 /\ UNCHANGED <<current_file, work_timer, cmd_from_sd, lines,
                                partial_input, error_message, end_print_runs>>
            [] OTHER ->
                 /\ cursor' = cursor + Len(data)
                 /\ LET joined == [pieces EXCEPT ![1] = partial_input \o @]
                    IN /\ lines' = Front(joined)
                       /\ partial_input' = Last(joined)
                 /\ UNCHANGED <<current_file, work_timer, cmd_from_sd,
                                error_message, end_print_runs, crashed>>
    /\ UNCHANGED <<file_position, next_file_position, file_size,
                   must_pause_work, has_pre_check, waiter, exclude_gcode_runs,
                   cancelled, skips, last_line, shutdown>>

\* Mutant of NextPosition: the newline byte is not counted.
NextPositionNoNewline(line) == file_position + Len(line)

(* next_file_position of a dispatched line (417). *)
NextPosition(line) == file_position + Len(line) + 1

(* Dispatch the next buffered line (410-463) with outcome o; target is the *)
(* position a "skip" line passes to set_file_position; runout is what the *)
(* first line's filament pre-check finds.  A pre-check that pauses and an  *)
(* exception other than a G-code error (the bare except, 449-451) both     *)
(* 'break' with error_message as it is.                                    *)
DispatchLine(o, target, runout) ==
    /\ work_timer = "running" /\ ~crashed /\ ~must_pause_work
    /\ lines # <<>> /\ waiter = "none"
    /\ o = "skip" => skips < MaxSkips
    /\ LET line == Head(lines)
           next == NextPosition(line)
           np == IF o = "skip" THEN target ELSE next
       IN IF (~has_pre_check /\ runout) \/ o = "raise"
          THEN \* 'break' before the line has run to its end
               /\ has_pre_check' = TRUE
               /\ lines' = Tail(lines)
               /\ next_file_position' = next
               /\ ExitLoop(error_message, current_file)
               /\ UNCHANGED <<current_file, cursor, file_position,
                              must_pause_work, partial_input, error_message,
                              exclude_gcode_runs, cancelled, skips, last_line>>
          ELSE
          /\ has_pre_check' = TRUE
          /\ last_line' = [offset |-> file_position, content |-> line]
          /\ CASE o \in {"ok", "pause", "skip"} ->
                    /\ cmd_from_sd' = FALSE
                    /\ must_pause_work' = (must_pause_work \/ o = "pause")
                    /\ next_file_position' = np
                    /\ file_position' = np
                    /\ IF np # next
                       THEN /\ cursor' = Min({np, Size})
                            /\ lines' = <<>>
                            /\ partial_input' = StrEmpty
                            /\ skips' = skips + 1
                       ELSE /\ lines' = Tail(lines)
                            /\ UNCHANGED <<cursor, partial_input, skips>>
                    /\ UNCHANGED <<work_timer, error_message,
                                   exclude_gcode_runs, end_print_runs>>
               [] o = "over" ->
                    \* 435-443: jump to the end, run the finish sequence,
                    \* 'continue' with the lines already buffered
                    /\ cmd_from_sd' = TRUE
                    /\ next_file_position' = next
                    /\ file_position' = file_size
                    /\ cursor' = Min({file_size, Size})
                    /\ exclude_gcode_runs' = exclude_gcode_runs + 1
                    /\ lines' = Tail(lines)
                    /\ UNCHANGED <<work_timer, must_pause_work, partial_input,
                                   error_message, end_print_runs, skips>>
               [] o = "error" ->
                    \* 444-448: on_error_gcode, then leave with the error
                    /\ error_message' = TRUE
                    /\ next_file_position' = next
                    /\ lines' = Tail(lines)
                    /\ ExitLoop(TRUE, current_file)
                    /\ UNCHANGED <<cursor, file_position, must_pause_work,
                                   partial_input, exclude_gcode_runs, skips>>
          /\ UNCHANGED <<current_file, cancelled>>
    /\ UNCHANGED <<file_size, waiter, crashed, shutdown>>

-----------------------------------------------------------------------------
(* Commands.  A console command runs between two loop iterations.  An      *)
(* exception escaping a reactor timer callback ends klippy's reactor.run()  *)
(* and the host process exits: no action is enabled once crashed.          *)

\* _load_file at position 0 (207-238): file opened, START_PRINT.
LoadFile ==
    /\ current_file' = TRUE /\ cursor' = 0
    /\ file_position' = 0 /\ file_size' = Size

(* SDCARD_PRINT_FILE (173-181): busy check, _reset_file (nothing to wait  *)
(* for, work_timer is None), load, do_resume.  A new job starts.           *)
SdcardPrintFile ==
    /\ ~crashed /\ ~shutdown
    /\ waiter = "none" /\ work_timer = "none"
    /\ LoadFile
    /\ must_pause_work' = FALSE
    /\ work_timer' = "timer"
    /\ exclude_gcode_runs' = 0 /\ end_print_runs' = 0
    /\ cancelled' = FALSE /\ skips' = 0 /\ last_line' = <<>>
    /\ UNCHANGED <<next_file_position, cmd_from_sd, loop, waiter, crashed,
                   shutdown>>

(* M23 (192-200): refused while the timer exists; _reset_file, then       *)
(* _load_file at 0, which already runs START_PRINT.  The job waits for M24. *)
(* print_stats.reset() clears the error state of the previous job.        *)
SelectFile ==
    /\ ~crashed /\ ~shutdown
    /\ waiter = "none" /\ work_timer = "none"
    /\ LoadFile
    /\ error_message' = FALSE
    /\ exclude_gcode_runs' = 0 /\ end_print_runs' = 0
    /\ cancelled' = FALSE /\ skips' = 0 /\ last_line' = <<>>
    /\ UNCHANGED <<next_file_position, work_timer, must_pause_work,
                   cmd_from_sd, lines, partial_input, has_pre_check, waiter,
                   crashed, shutdown>>

(* SDCARD_PRINT_FILE or M23 naming a file that does not open (_load_file *)
(* 211-220 raises "Unable to open file"): _reset_file has already closed  *)
(* the previous job's file, zeroed the positions and reset print_stats.   *)
LoadFileFails ==
    /\ ~crashed /\ ~shutdown
    /\ waiter = "none" /\ work_timer = "none"
    /\ current_file' = FALSE /\ file_position' = 0 /\ file_size' = 0
    /\ error_message' = FALSE
    /\ exclude_gcode_runs' = 0 /\ end_print_runs' = 0
    /\ cancelled' = FALSE /\ skips' = 0 /\ last_line' = <<>>
    /\ UNCHANGED <<cursor, next_file_position, work_timer, must_pause_work,
                   cmd_from_sd, lines, partial_input, has_pre_check, waiter,
                   crashed, shutdown>>

(* M24 / do_resume (140-145): SD busy while the timer exists. *)
DoResume ==
    /\ ~crashed /\ ~shutdown
    /\ waiter = "none" /\ work_timer = "none"
    /\ must_pause_work' = FALSE
    /\ work_timer' = "timer"
    /\ UNCHANGED <<current_file, cursor, file_position, next_file_position,
                   file_size, cmd_from_sd, loop, waiter, job, last_line,
                   crashed, shutdown>>

(* M26 S / set_resume_file_position while no loop runs: a new read        *)
(* position, a line start (the locator passes record offsets).            *)
SetResumeFilePosition(pos) ==
    /\ ~crashed /\ ~shutdown
    /\ waiter = "none" /\ work_timer = "none"
    /\ file_position' = pos
    /\ UNCHANGED <<current_file, cursor, next_file_position, file_size,
                   work_timer, must_pause_work, cmd_from_sd, loop, waiter,
                   job, last_line, crashed, shutdown>>

(* do_pause (135-139) entered by M25, do_cancel (146-152) or              *)
(* SDCARD_RESET_FILE (166-170, refused while cmd_from_sd).  The caller     *)
(* blocks until the loop is gone or cmd_from_sd is True.                  *)
BeginWait(kind) ==
    /\ ~crashed /\ ~shutdown
    /\ waiter = "none"
    /\ kind = "reset" => ~cmd_from_sd
    /\ kind = "cancel" => current_file
    /\ must_pause_work' = (must_pause_work \/ work_timer # "none")
    /\ waiter' = kind
    /\ UNCHANGED <<current_file, cursor, file_position, next_file_position,
                   file_size, work_timer, cmd_from_sd, loop, job, last_line,
                   crashed, shutdown>>

\* Mutant of EndWait: the caller does not wait for the loop to stop.
EndWaitNoWait ==
    /\ ~crashed
    /\ waiter # "none"
    /\ waiter' = "none"
    /\ IF waiter = "pause"
       THEN UNCHANGED <<current_file, file_position, file_size, cancelled>>
       ELSE /\ current_file' = FALSE
            /\ file_position' = 0 /\ file_size' = 0
            /\ cancelled' = (cancelled \/ waiter = "cancel")
    /\ UNCHANGED <<cursor, next_file_position, work_timer, must_pause_work,
                   cmd_from_sd, loop, exclude_gcode_runs, end_print_runs,
                   skips, last_line, crashed, shutdown>>

(* The wait ends; do_cancel / _reset_file close the file and clear the    *)
(* positions, do_cancel notes the cancel.                                 *)
EndWait ==
    /\ ~crashed
    /\ waiter # "none"
    /\ work_timer = "none" \/ cmd_from_sd
    /\ waiter' = "none"
    /\ IF waiter = "pause"
       THEN UNCHANGED <<current_file, file_position, file_size, cancelled>>
       ELSE /\ current_file' = FALSE
            /\ file_position' = 0 /\ file_size' = 0
            /\ cancelled' = (cancelled \/ waiter = "cancel")
    /\ UNCHANGED <<cursor, next_file_position, work_timer, must_pause_work,
                   cmd_from_sd, loop, exclude_gcode_runs, end_print_runs,
                   skips, last_line, crashed, shutdown>>

-----------------------------------------------------------------------------
Init ==
    /\ current_file = FALSE /\ cursor = 0
    /\ file_position = 0 /\ next_file_position = 0 /\ file_size = 0
    /\ work_timer = "none"
    /\ must_pause_work = FALSE /\ cmd_from_sd = FALSE
    /\ lines = <<>> /\ partial_input = <<>>
    /\ has_pre_check = FALSE /\ error_message = FALSE
    /\ waiter = "none"
    /\ exclude_gcode_runs = 0 /\ end_print_runs = 0
    /\ cancelled = FALSE /\ skips = 0 /\ last_line = <<>> /\ crashed = FALSE
    /\ shutdown = FALSE

LoopStep ==
    \/ WorkHandlerStart
    \/ LoopPaused
    \/ \E ok \in BOOLEAN : ReadChunk(ok)
    \/ \E o \in LineOutcomes, t \in LineStarts, r \in BOOLEAN : DispatchLine(o, t, r)

Console ==
    \/ SdcardPrintFile
    \/ SelectFile
    \/ LoadFileFails
    \/ DoResume
    \/ \E p \in LineStarts : SetResumeFilePosition(p)
    \/ \E k \in Waits \ {"none"} : BeginWait(k)
    \/ EndWait

(* klippy:shutdown (handle_shutdown, 73-86): with the timer registered   *)
(* the loop is told to stop, and the 1 KiB before file_position and 128   *)
(* bytes after it are read for the log, which leaves the cursor there (a  *)
(* closed file makes the seek fail, caught).  In the shutdown state klippy *)
(* accepts no further command of this module.                             *)
HandleShutdown ==
    /\ ~crashed /\ ~shutdown
    /\ shutdown' = TRUE
    /\ IF work_timer = "none"
       THEN UNCHANGED <<must_pause_work, cursor>>
       ELSE /\ must_pause_work' = TRUE
            /\ cursor' = IF current_file THEN Min({file_position + 128, Size})
                         ELSE cursor
    /\ UNCHANGED <<current_file, file_position, next_file_position, file_size,
                   work_timer, cmd_from_sd, loop, waiter, job, last_line,
                   crashed>>

Next == LoopStep \/ Console \/ HandleShutdown

Spec == Init /\ [][Next]_vars

(* The reactor runs the work timer whenever it is due and the loop only    *)
(* yields to commands that finish; do_pause's polling loop returns once   *)
(* its condition holds.                                                    *)
FairSpec == Spec /\ WF_vars(LoopStep) /\ WF_vars(EndWait)

-----------------------------------------------------------------------------
(* Properties *)

(* Offset tracking of the loop (417, 451, 404-407, 362): every line the   *)
(* loop dispatches is a whole line of the file, and file_position, the    *)
(* offset the locator records for it and the position a pause resumes     *)
(* from, is where that line starts.  Chunk boundaries inside a line, the  *)
(* carried partial_input, skips, and pause/resume seeks all bear on it.   *)
(* An exclusion overrun moves file_position to the end on purpose.        *)
LineIntegrity ==
    last_line # <<>> /\ exclude_gcode_runs = 0 =>
        /\ last_line.offset \in LineStarts
        /\ LineAt(last_line.offset) = last_line.content

(* Every run of work_handler ends: the work timer is eventually cleared,  *)
(* so the SD card is not left "busy" (do_resume, SDCARD_PRINT_FILE and    *)
(* M23 refuse while it is set), unless the host process has exited.       *)
JobTerminates == (work_timer = "running") ~> (work_timer = "none" \/ crashed)

(* A console PAUSE, CANCEL_PRINT or SDCARD_RESET_FILE blocked in do_pause *)
(* is eventually released, unless the host process has exited.           *)
PauseReturns == (waiter # "none") ~> (waiter = "none" \/ crashed)

(* The job's state as print_stats and the console see it: the loop runs  *)
(* while the work timer is set on an open file; with the timer gone an    *)
(* open file is paused, or in error when the loop left with an error; a   *)
(* closed file is cancelled, completed (END_PRINT ran) or idle.  An       *)
(* exception that escaped work_handler ends the job in error.             *)
JobPhase ==
    CASE crashed -> "error"
      [] work_timer # "none" /\ current_file -> "running"
      [] current_file /\ error_message -> "error"
      [] current_file -> "paused"
      [] cancelled -> "cancelled"
      [] end_print_runs > 0 -> "completed"
      [] OTHER -> "idle"

JL == INSTANCE JobLifecycle WITH phase <- JobPhase, caller <- waiter

(* VirtualSD implements JobLifecycle: every step of the loop and of the   *)
(* console commands (SDCARD_PRINT_FILE, M24, M25, CANCEL_PRINT,           *)
(* SDCARD_RESET_FILE, M26) is a step of the job state machine or leaves   *)
(* it unchanged; in particular do_pause's caller returns, and do_cancel   *)
(* and _reset_file close the file, only after work_handler has left.      *)
JobLifecycleRefined == JL!Spec

=============================================================================
