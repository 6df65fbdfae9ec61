---------------------------- MODULE JobLifecycle ----------------------------
(***************************************************************************)
(* What the print-job streamer promises its callers (spec 4.1 and 5): a   *)
(* job moves Idle -> Loading -> Running <-> Paused -> {Completed,         *)
(* Cancelled, Error}, Loading being a selected job that waits, as Paused; *)
(* a new job is refused while one runs; and a console pause, cancel or    *)
(* reset returns, and a cancel or reset releases the file, only once the  *)
(* dispatch loop has stopped ("no resource is released while a command is *)
(* executing against it").                                                *)
(*                                                                         *)
(* One liberty is taken with spec 4.1, which makes Error final: the code's *)
(* do_resume checks only the work timer, so M24 resumes a job whose loop  *)
(* left with an error while its file is still open.  The abstraction      *)
(* allows it, so that the rest of the contract can be checked.            *)
(***************************************************************************)
VARIABLES
    phase,   \* the job's state
    caller   \* the console request blocked until the loop stops, or "none"

Phases == {"idle", "running", "paused", "completed", "cancelled", "error"}
Requests == {"pause", "cancel", "reset"}
Stopped == {"paused", "error"}   \* the loop is gone, the file is open

(* load + resume: refused while a job runs or a caller waits. *)
Load ==
    /\ caller = "none" /\ phase # "running"
    /\ phase' = "running" /\ UNCHANGED caller

(* load without resume (M23): the spec's Loading, a job that waits for   *)
(* resume as a paused one does.                                           *)
Select ==
    /\ caller = "none" /\ phase # "running"
    /\ phase' = "paused" /\ UNCHANGED caller

(* a load that fails after the previous job was discarded. *)
Discard ==
    /\ caller = "none" /\ phase # "running"
    /\ phase' = "idle" /\ UNCHANGED caller

(* resume of a stopped job. *)
Resume ==
    /\ caller = "none" /\ phase \in Stopped
    /\ phase' = "running" /\ UNCHANGED caller

(* The dispatch loop stops: paused, end of file, or a fatal error. *)
Stop(to) ==
    /\ phase = "running" /\ to \in {"paused", "completed", "error"}
    /\ phase' = to /\ UNCHANGED caller

(* A console pause / cancel / reset starts waiting; cancel needs a job. *)
Request(k) ==
    /\ caller = "none"
    /\ k = "cancel" => phase \in Stopped \cup {"running"}
    /\ caller' = k /\ UNCHANGED phase

(* The waiting caller returns, never while the loop runs; cancel and      *)
(* reset then discard the job.                                            *)
Release ==
    /\ caller # "none" /\ phase # "running"
    /\ caller' = "none"
    /\ phase' = CASE caller = "cancel" -> "cancelled"
                  [] caller = "reset" /\ phase \in Stopped -> "idle"
                  [] OTHER -> phase

Init == phase = "idle" /\ caller = "none"

Next ==
    \/ Load \/ Select \/ Discard \/ Resume \/ \E to \in Phases : Stop(to)
    \/ \E k \in Requests : Request(k)
    \/ Release

Spec == Init /\ [][Next]_<<phase, caller>>

=============================================================================
