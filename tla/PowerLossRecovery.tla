------------------------- MODULE PowerLossRecovery -------------------------
(***************************************************************************)
(* Power-loss recovery of the T1 firmware: F103 (power_loss_recover.py)   *)
(* saves the print's resume data through save_variables; after a power    *)
(* loss or a Klipper restart RESUME_INTERRUPTED reads it back and         *)
(* recover_print reopens the file at the saved offset (virtual_sdcard.py); *)
(* work_handler then runs F102, which re-applies the saved exclusions,    *)
(* and recover_file_position moves the offset to an object start.         *)
(*                                                                         *)
(* The print is the state virtual_sdcard keeps of it: the file, the      *)
(* offset of the next line (lines are numbered 0..MaxPos-1) and the work  *)
(* timer.  print_stats is "printing" exactly while work_handler's loop    *)
(* runs (note_start on entry, note_pause/complete/error on exit); the     *)
(* other states are not told apart by any code modelled here.  The store  *)
(* is SaveVariables.  Temperatures, coordinates and the fan travel with  *)
(* file_position in F103's one setVariables, so "F103 keys missing" is    *)
(* file_position = None.  plr_flag, which F102 saves and no code of the   *)
(* repository reads, is a save whose value is not tracked.                *)
(***************************************************************************)
EXTENDS Integers, Sequences, SequencesExt, FiniteSets

CONSTANTS
    Jobs,         \* the G-code files
    Names,        \* object names (numbers, so that they sort)
    MaxPos,       \* lines per file
    ObjStarts,    \* lines that are "EXCLUDE_OBJECT_START NAME=..."
    ReadStep,     \* lines in the 8192 bytes recover_file_position steps back
    ReadSpan,     \* lines touched by its 8192+25-byte read
    QUEUE_SIZE,   \* save_variables queue size
    None,         \* a missing variable / no file
    MaxOrphans    \* bound on writer threads outliving their restart

ASSUME /\ Names \subseteq Nat /\ MaxPos \in Nat \ {0}
       /\ ObjStarts \subseteq 0..(MaxPos - 1)
       /\ ReadStep \in Nat \ {0} /\ ReadSpan \in Nat /\ ReadSpan > ReadStep
       /\ MaxOrphans \in Nat

Keys == {"sd_filename", "file_position", "excluded_objects",
         "objects_enabled"}
Values == [sd_filename |-> Jobs, file_position |-> 0..MaxPos,
           excluded_objects |-> SUBSET Names, objects_enabled |-> BOOLEAN]
EmptyFile == [k \in Keys |-> None]

VARIABLES
    allVariables, vars_queue, writing, orphans, disk,  \* save_variables
    work,                \* work_timer: "idle", "armed" (registered, not
                         \* yet run) or "loop" (work_handler's loop)
    current_file,        \* the open file, or None
    file_position,       \* v_sd.file_position
    power_loss_restart,  \* v_sd.power_loss_restart
    excluded_objects,    \* exclude_object.excluded_objects
    exclude_enabled,     \* exclude_object.exclude_enabled
    shutdown             \* the host is shut down by an internal error

SV == INSTANCE SaveVariables WITH InitialFile <- EmptyFile

store == <<allVariables, vars_queue, writing, orphans, disk>>
printer == <<work, current_file, file_position, power_loss_restart,
             excluded_objects, exclude_enabled, shutdown>>
vars == <<store, printer>>

StoreIdle == UNCHANGED <<writing, orphans, disk>>
printing == work = "loop"

Init ==
    /\ SV!Init
    /\ work = "idle" /\ current_file = None
    /\ file_position = 0 /\ power_loss_restart = FALSE
    /\ excluded_objects = {} /\ exclude_enabled = TRUE
    /\ shutdown = FALSE

-----------------------------------------------------------------------------
(* recover_file_position (330-350) with _recover_file_position (306-328): *)
(* read from fp; the first line piece is skipped; the result is the start *)
(* of the last EXCLUDE_OBJECT_START line in the read.  None found: step   *)
(* back 8192 bytes (not below 0) and read again; at 0, keep the offset.   *)
RECURSIVE RecoverFrom(_, _)
RecoverFrom(fp, orig) ==
    LET found == {q \in ObjStarts : fp < q /\ q < fp + ReadSpan} IN
    IF found # {} THEN Max(found)
    ELSE IF fp = 0 THEN orig
    ELSE RecoverFrom(IF fp - ReadStep < 0 THEN 0 ELSE fp - ReadStep, orig)

recover_file_position(orig, excluded) ==
    IF excluded # {} THEN RecoverFrom(orig, orig) ELSE orig

(* _load_file (207-240): the file opens at fileposition; at 0 it runs     *)
(* START_PRINT and saves the exclusion state (two setVariables), above 0  *)
(* it marks a power-loss restart.                                         *)
LoadFile(j, pos, excluded, enabled) ==
    /\ current_file' = j /\ file_position' = pos
    /\ power_loss_restart' = (pos # 0)
    /\ IF pos = 0
       THEN SV!SetVariables(<<("excluded_objects" :> excluded),
                              ("objects_enabled" :> enabled)>>)
       ELSE UNCHANGED <<allVariables, vars_queue>>

(* The volatile state a new Printer starts with (_reset_state sets        *)
(* exclude_enabled True).                                                 *)
FreshPrinter ==
    /\ work' = "idle" /\ current_file' = None
    /\ file_position' = 0 /\ power_loss_restart' = FALSE
    /\ excluded_objects' = {} /\ exclude_enabled' = TRUE
    /\ shutdown' = FALSE

-----------------------------------------------------------------------------
(* Print side (virtual_sdcard.py, exclude_object.py).                     *)

(* SDCARD_PRINT_FILE (173-181): refused while the work timer is set;      *)
(* _reset_file resets print_stats and, through virtual_sdcard:reset_file, *)
(* exclude_object's state; the file opens at 0; do_resume arms the timer. *)
PrintFile(j) ==
    /\ ~shutdown /\ work = "idle"
    /\ excluded_objects' = {} /\ exclude_enabled' = TRUE
    /\ LoadFile(j, 0, {}, TRUE)
    /\ work' = "armed"
    /\ StoreIdle /\ UNCHANGED shutdown

(* F103 (181-219) inside a dispatched line: while printing, save the file *)
(* (str(file_path()), which recover_print strips back to the name), the   *)
(* offset of this line, the exclusions and the enable flag, with the      *)
(* temperatures and coordinates, in one setVariables.                     *)
F103Vars ==
    ("sd_filename" :> current_file) @@ ("file_position" :> file_position)
    @@ ("excluded_objects" :> excluded_objects)
    @@ ("objects_enabled" :> exclude_enabled)

(* One line of work_handler's loop (418-448): F103 or any other line, then *)
(* file_position moves to the next line.  An object-start line is not     *)
(* F103.                                                                  *)
Dispatch(isF103) ==
    /\ ~shutdown /\ printing /\ file_position < MaxPos
    /\ isF103 => file_position \notin ObjStarts
    /\ IF isF103 THEN SV!SetVariables(<<F103Vars>>)
       ELSE UNCHANGED <<allVariables, vars_queue>>
    /\ file_position' = file_position + 1
    /\ StoreIdle
    /\ UNCHANGED <<work, current_file, power_loss_restart, excluded_objects,
                   exclude_enabled, shutdown>>

(* End of file (391-397, 464-473): the file closes, note_complete.        *)
EndOfFile ==
    /\ ~shutdown /\ printing /\ file_position = MaxPos
    /\ current_file' = None /\ work' = "idle"
    /\ StoreIdle /\ UNCHANGED <<allVariables, vars_queue>>
    /\ UNCHANGED <<file_position, power_loss_restart, excluded_objects,
                   exclude_enabled, shutdown>>

(* PAUSE: do_pause (135-139) sets must_pause_work and waits until the     *)
(* loop exits with the file open: note_pause.                             *)
Pause ==
    /\ ~shutdown /\ printing
    /\ work' = "idle"
    /\ StoreIdle /\ UNCHANGED <<allVariables, vars_queue>>
    /\ UNCHANGED <<current_file, file_position, power_loss_restart,
                   excluded_objects, exclude_enabled, shutdown>>

(* RESUME / M24: do_resume (140-145) arms the work timer.                 *)
ResumePrint ==
    /\ ~shutdown /\ work = "idle" /\ current_file # None
    /\ work' = "armed"
    /\ StoreIdle /\ UNCHANGED <<allVariables, vars_queue>>
    /\ UNCHANGED <<current_file, file_position, power_loss_restart,
                   excluded_objects, exclude_enabled, shutdown>>

(* EXCLUDE_OBJECT NAME=n (255-269, _exclude_object 326-331): a name not   *)
(* yet excluded is added and the list saved.                              *)
Exclude(n) ==
    /\ ~shutdown /\ n \notin excluded_objects
    /\ excluded_objects' = excluded_objects \cup {n}
    /\ SV!SetVariables(<<("excluded_objects" :> excluded_objects')>>)
    /\ StoreIdle
    /\ UNCHANGED <<work, current_file, file_position, power_loss_restart,
                   exclude_enabled, shutdown>>

(* F102 (66-178), as far as the store and the exclusions see it:          *)
(* objects_enabled missing or False runs SET_EXCLUDE_ENABLE ENABLE=0 (a   *)
(* save); the F103 group missing raises gcmd.error; excluded_objects      *)
(* missing is len(None), a TypeError; else EXCLUDE_OBJECT NAME=n for each *)
(* saved name in order (a save per name not yet excluded), then the       *)
(* heating, homing and moves, with SAVE_VARIABLE plr_flag=True after G28. *)
F102Completes(mem) ==
    mem["file_position"] # None /\ mem["excluded_objects"] # None

F102(mem) ==
    LET disable == mem["objects_enabled"] \in {None, FALSE}
        savedEx == mem["excluded_objects"]
        ok == F102Completes(mem)
        adds == IF ok THEN SetToSortSeq(savedEx \ excluded_objects, <)
                ELSE <<>>
        exUpds == [i \in 1..Len(adds) |->
                      ("excluded_objects" :>
                          excluded_objects \cup {adds[m] : m \in 1..i})]
        plrFlag == [k \in {} |-> None]
        upds == (IF disable THEN <<("objects_enabled" :> FALSE)>> ELSE <<>>)
                \o (IF ok THEN exUpds \o <<plrFlag>> ELSE <<>>)
    IN /\ SV!SetVariables(upds)
       /\ exclude_enabled' = (exclude_enabled /\ ~disable)
       /\ excluded_objects' = IF ok THEN excluded_objects \cup savedEx
                              ELSE excluded_objects

(* work_handler's start (351-376): note_start; on a power-loss restart    *)
(* run F102 and move the offset with recover_file_position; an exception *)
(* from F102 is caught: note_error, the timer is dropped.                 *)
WorkStart ==
    /\ ~shutdown /\ work = "armed"
    /\ power_loss_restart' = FALSE
    /\ IF ~power_loss_restart
       THEN /\ work' = "loop"
            /\ UNCHANGED <<allVariables, vars_queue, file_position,
                           excluded_objects, exclude_enabled>>
       ELSE /\ F102(allVariables)
            /\ IF F102Completes(allVariables)
               THEN /\ work' = "loop"
                    /\ file_position' =
                           recover_file_position(file_position,
                                                 excluded_objects')
               ELSE /\ work' = "idle" /\ UNCHANGED file_position
    /\ StoreIdle
    /\ UNCHANGED <<current_file, shutdown>>

(* RESUME_INTERRUPTED (51-63): refused while printing; int(None) of a     *)
(* missing file_position (or the missing file name in recover_print) is   *)
(* a TypeError, an internal error that shuts the host down.  Otherwise    *)
(* recover_print (201-206): _load_file at the saved offset, without       *)
(* _reset_file, then do_resume, which raises "SD busy" (the file stays    *)
(* loaded) if the work timer is set.                                      *)
RESUME_INTERRUPTED ==
    /\ ~shutdown /\ ~printing
    /\ LET job == allVariables["sd_filename"]
           pos == allVariables["file_position"]
       IN IF job = None \/ pos = None
          THEN /\ shutdown' = TRUE
               /\ UNCHANGED <<allVariables, vars_queue, current_file,
                              file_position, power_loss_restart, work>>
          ELSE /\ LoadFile(job, pos, excluded_objects, exclude_enabled)
               /\ work' = IF work = "idle" THEN "armed" ELSE work
               /\ UNCHANGED shutdown
    /\ StoreIdle
    /\ UNCHANGED <<excluded_objects, exclude_enabled>>

-----------------------------------------------------------------------------
(* Restarts and the writer thread (save_variables.py).                    *)

(* RESTART / FIRMWARE_RESTART (also the way out of a shutdown): the old   *)
(* SaveVariables disconnects, a new Printer is built.                     *)
Restart(joined) ==
    /\ ~joined /\ writing # None => Cardinality(orphans) < MaxOrphans
    /\ SV!Restart(joined) /\ FreshPrinter

PowerLoss ==
    /\ SV!PowerLoss /\ FreshPrinter

Writer ==
    /\ \/ SV!WriterGet
       \/ \E ok \in BOOLEAN : SV!WriterWrite(ok)
       \/ \E s \in orphans, ok \in BOOLEAN : SV!OrphanWrite(s, ok)
    /\ UNCHANGED printer

Next ==
    \/ \E j \in Jobs : PrintFile(j)
    \/ WorkStart
    \/ \E f \in BOOLEAN : Dispatch(f)
    \/ EndOfFile \/ Pause \/ ResumePrint
    \/ \E n \in Names : Exclude(n)
    \/ RESUME_INTERRUPTED
    \/ \E joined \in BOOLEAN : Restart(joined)
    \/ PowerLoss
    \/ Writer

Spec == Init /\ [][Next]_vars

-----------------------------------------------------------------------------
TypeOK ==
    /\ SV!StoreTypeOK
    /\ work \in {"idle", "armed", "loop"}
    /\ current_file \in Jobs \cup {None}
    /\ file_position \in 0..MaxPos /\ power_loss_restart \in BOOLEAN
    /\ excluded_objects \subseteq Names /\ exclude_enabled \in BOOLEAN
    /\ shutdown \in BOOLEAN

(* recover_file_position never moves the offset past the line at which    *)
(* the print was interrupted: work_handler does not skip lines that were  *)
(* never run.                                                             *)
ResumeNotPastInterruption ==
    [][WorkStart /\ power_loss_restart => file_position' <= file_position]_vars

=============================================================================
