-------------------------- MODULE MCRunoutDebounce --------------------------
(* Properties of RunoutDebounce checked by TLC. *)
EXTENDS RunoutDebounce

(* Events are never shut off for good: once note_filament_present sets    *)
(* min_event_systime to NEVER, a handler or the debounce thread reopens   *)
(* them.                                                                  *)
SensorRearms == (min_event = NEVER) ~> (min_event # NEVER)
(* A runout the sensor reports while printing is acted on: once           *)
(* note_filament_present registers _runout_check_thread, the debounce     *)
(* thread (this one, or the one already holding the lock that makes this *)
(* one give up) either sees the filament again or registers               *)
(* _runout_event_handler after DEBOUNCE_COUNT intervals.  Time passes     *)
(* only while no callback is pending, so the property assumes the console *)
(* eventually stops toggling SET_FILAMENT_SENSOR.                         *)
Toggling == \E enable, p \in BOOLEAN : SetFilamentSensor(enable, p)
RunoutActedOn ==
    <>[][~Toggling]_vars =>
        (BagIn("check_thread", pending)
            ~> (filament_present \/ BagIn("runout", pending)))
=============================================================================
