--------------------------- MODULE RunoutDebounce ---------------------------
(***************************************************************************)
(* The debounced filament-runout sensor of the T1 firmware                *)
(* (klippy/extras/filament_switch_sensor.py, RunoutDebounceHelper and the *)
(* RunoutHelper it wraps).                                                 *)
(*                                                                         *)
(* Two kinds of actor share the helper's fields: the reactor (button      *)
(* callbacks, console commands, and the callbacks registered with         *)
(* register_callback / register_async_callback) and the OS thread that    *)
(* _runout_check_thread starts to debounce a runout.  Time advances in    *)
(* Ticks of DEBOUNCE_INTERVAL (0.2 s).  Work the reactor or a runnable    *)
(* thread does at once happens before the next Tick; a handler's G-code  *)
(* (run_script, which waits for the G-code mutex) may span Ticks.         *)
(*                                                                         *)
(* min_event_systime is kept as the Ticks left before events are         *)
(* processed again: NEVER, a count, or 0 (open).  The resume snapshot of  *)
(* locate_printing_gcode (saved_states['RunoutDebounceHelper']) is a      *)
(* flag: saved by the note that starts a debounce, popped by F108.        *)
(***************************************************************************)
EXTENDS Integers, Bags, BagsExt

CONSTANTS
    DEBOUNCE_COUNT,  \* RunoutDebounceHelper.DEBOUNCE_COUNT (5)
    EventDelay,      \* event_delay in Ticks (config, above 0; 3 s = 15)
    ReadyDelay,      \* the 2 s that _handle_ready waits, in Ticks
    InsertGcode,     \* insert_gcode is configured
    OnDisableGcode,  \* on_disable_gcode is configured
    MaxCallbacks     \* bound on callbacks queued or running at once

\* With on_disable_gcode configured, a filament change while the sensor is
\* disabled raises AttributeError at line 228 (the helper has no reactor
\* field) and ends the host; the model covers configurations without it.
ASSUME /\ DEBOUNCE_COUNT \in Nat /\ EventDelay \in Nat \ {0}
       /\ ReadyDelay \in Nat /\ InsertGcode \in BOOLEAN
       /\ OnDisableGcode = FALSE /\ MaxCallbacks \in Nat \ {0}

NEVER == -1
Callbacks == {"check_thread", "runout", "helper_runout", "insert",
              "switch_off"}
Handlers == Callbacks \ {"check_thread"}
RunoutHandlers == {"runout", "helper_runout"}

VARIABLES
    filament_present,  \* runout_helper.filament_present
    sensor_enabled,    \* runout_helper.sensor_enabled
    min_event,         \* runout_helper.min_event_systime, in Ticks left
    pending,           \* bag of callbacks registered with the reactor
    running,           \* bag of handlers inside their _exec_gcode
    starting,          \* threads started, not yet at lock.acquire
    lock,              \* self.lock is held
    thread,            \* the lock holder: "none", "check" or "sleep"
    debounce_count,    \* self.debounce_count
    runout_state,      \* self.runout_state
    saved              \* locate_printing_gcode holds the runout snapshot

vars == <<filament_present, sensor_enabled, min_event, pending, running,
          starting, lock, thread, debounce_count, runout_state, saved>>
debounce == <<starting, lock, thread, debounce_count>>

Registered(k) == BagAdd(pending, k)
Outstanding == BagCardinality(pending) + BagCardinality(running)
Open == min_event = 0

Init ==
    /\ filament_present = FALSE
    /\ sensor_enabled = TRUE
    /\ min_event = ReadyDelay
    /\ pending = EmptyBag
    /\ running = EmptyBag
    /\ starting = 0
    /\ lock = FALSE
    /\ thread = "none"
    /\ debounce_count = 0
    /\ runout_state = FALSE
    /\ saved = FALSE

-----------------------------------------------------------------------------
(* Reactor side.                                                           *)

(* RunoutDebounceHelper.note_filament_present, the button callback.       *)
(* buttons.py reports changes only, so the lazy return (217) is not taken.*)
(* is_printing is idle_timeout's "Printing" state at that time.           *)
Note(present, is_printing) ==
    /\ present # filament_present
    /\ filament_present' = present
    /\ IF ~Open \/ ~sensor_enabled
       THEN UNCHANGED <<min_event, pending, saved>>
       ELSE IF present
       THEN IF InsertGcode
            THEN /\ min_event' = NEVER /\ pending' = Registered("insert")
                 /\ UNCHANGED saved
            ELSE UNCHANGED <<min_event, pending, saved>>
       ELSE IF is_printing
       THEN /\ saved' = TRUE
            /\ min_event' = NEVER
            /\ pending' = Registered("check_thread")
       ELSE UNCHANGED <<min_event, pending, saved>>
    /\ UNCHANGED <<sensor_enabled, running, runout_state>>
    /\ UNCHANGED debounce

(* RunoutHelper.note_filament_present(lazy=False), reached only from      *)
(* SET_FILAMENT_SENSOR ENABLE=1: its self is the inner RunoutHelper, so   *)
(* a runout registers RunoutHelper._runout_event_handler directly.        *)
HelperNote(is_printing) ==
    IF ~Open
    THEN UNCHANGED <<min_event, pending>>
    ELSE IF filament_present
    THEN IF InsertGcode
         THEN min_event' = NEVER /\ pending' = Registered("insert")
         ELSE UNCHANGED <<min_event, pending>>
    ELSE IF is_printing
    THEN min_event' = NEVER /\ pending' = Registered("helper_runout")
    ELSE UNCHANGED <<min_event, pending>>

(* cmd_SET_FILAMENT_SENSOR. *)
SetFilamentSensor(enable, is_printing) ==
    /\ Outstanding < MaxCallbacks
    /\ sensor_enabled' = enable
    /\ IF enable THEN HelperNote(is_printing)
       ELSE pending' = Registered("switch_off") /\ UNCHANGED min_event
    /\ UNCHANGED <<filament_present, running, runout_state, saved>>
    /\ UNCHANGED debounce

(* cmd_F108 from the console: recalculate only while runout_state. *)
F108 ==
    /\ runout_state /\ saved
    /\ saved' = FALSE
    /\ UNCHANGED <<filament_present, sensor_enabled, min_event, pending,
                   running, runout_state>>
    /\ UNCHANGED debounce

(* The reactor runs a registered callback.  _runout_check_thread starts  *)
(* a thread; the debounce _runout_event_handler sets runout_state, then  *)
(* (as RunoutHelper's handler) sends the pause and yields in              *)
(* reactor.pause before its G-code; the others go straight to their      *)
(* _exec_gcode.                                                           *)
RunCallback(k) ==
    /\ BagIn(k, pending)
    /\ pending' = BagRemove(pending, k)
    /\ IF k = "check_thread"
       THEN starting' = starting + 1 /\ UNCHANGED running
       ELSE running' = BagAdd(running, k) /\ UNCHANGED starting
    /\ runout_state' = (k = "runout" \/ runout_state)
    /\ UNCHANGED <<filament_present, sensor_enabled, min_event, lock, thread,
                   debounce_count, saved>>

(* A handler's _exec_gcode completes: the runout handlers run "PAUSE" and *)
(* runout_gcode, whose F108 recalculates the resume point if              *)
(* runout_state is set; every handler then reopens events after           *)
(* event_delay (76); the debounce handler clears runout_state (174).      *)
FinishHandler(k) ==
    /\ BagIn(k, running)
    /\ running' = BagRemove(running, k)
    /\ min_event' = EventDelay
    /\ IF k \in RunoutHandlers
       THEN saved' = (saved /\ ~runout_state)
       ELSE UNCHANGED saved
    /\ runout_state' = (runout_state /\ k # "runout")
    /\ UNCHANGED <<filament_present, sensor_enabled, pending>>
    /\ UNCHANGED debounce

-----------------------------------------------------------------------------
(* Debounce thread side (thread_debounce, 181-214).                       *)

(* A started thread tries lock.acquire(blocking=False); if another thread *)
(* holds it, it logs and ends.                                            *)
TryLock ==
    /\ starting > 0
    /\ starting' = starting - 1
    /\ IF lock THEN UNCHANGED <<lock, thread>>
       ELSE lock' = TRUE /\ thread' = "check"
    /\ UNCHANGED <<filament_present, sensor_enabled, min_event, pending,
                   running, debounce_count, runout_state, saved>>

(* Leaving the loop: debounce_count = 0 and the lock released (210-212). *)
Release ==
    /\ debounce_count' = 0 /\ lock' = FALSE /\ thread' = "none"

(* Mutants of Check: the false alarm leaves min_event_systime at NEVER;   *)
(* the count test is off by one; the runout handler is never registered. *)
CheckNoReopen ==
    /\ thread = "check"
    /\ IF filament_present
       THEN /\ Release /\ UNCHANGED <<min_event, pending>>
       ELSE IF debounce_count >= DEBOUNCE_COUNT
       THEN /\ pending' = Registered("runout") /\ Release
            /\ UNCHANGED min_event
       ELSE /\ debounce_count' = debounce_count + 1 /\ thread' = "sleep"
            /\ UNCHANGED <<min_event, pending, lock>>
    /\ UNCHANGED <<filament_present, sensor_enabled, running, starting,
                   runout_state, saved>>

CheckCountPastLimit ==
    /\ thread = "check"
    /\ IF filament_present
       THEN /\ min_event' = EventDelay /\ Release
            /\ UNCHANGED pending
       ELSE IF debounce_count > DEBOUNCE_COUNT
       THEN /\ pending' = Registered("runout") /\ Release
            /\ UNCHANGED min_event
       ELSE /\ debounce_count' = debounce_count + 1 /\ thread' = "sleep"
            /\ UNCHANGED <<min_event, pending, lock>>
    /\ UNCHANGED <<filament_present, sensor_enabled, running, starting,
                   runout_state, saved>>

CheckDropRunout ==
    /\ thread = "check"
    /\ IF filament_present
       THEN /\ min_event' = EventDelay /\ Release
            /\ UNCHANGED pending
       ELSE IF debounce_count >= DEBOUNCE_COUNT
       THEN /\ Release /\ UNCHANGED <<min_event, pending>>
       ELSE /\ debounce_count' = debounce_count + 1 /\ thread' = "sleep"
            /\ UNCHANGED <<min_event, pending, lock>>
    /\ UNCHANGED <<filament_present, sensor_enabled, running, starting,
                   runout_state, saved>>

(* One iteration of the loop.  Filament seen again: a false alarm, events *)
(* reopen after event_delay.  Still missing: after DEBOUNCE_COUNT sleeps  *)
(* register the runout handler, else count and sleep.  The M117 messages *)
(* are display only.                                                      *)
Check ==
    /\ thread = "check"
    /\ IF filament_present
       THEN /\ min_event' = EventDelay /\ Release
            /\ UNCHANGED pending
       ELSE IF debounce_count >= DEBOUNCE_COUNT
       THEN /\ pending' = Registered("runout") /\ Release
            /\ UNCHANGED min_event
       ELSE /\ debounce_count' = debounce_count + 1 /\ thread' = "sleep"
            /\ UNCHANGED <<min_event, pending, lock>>
    /\ UNCHANGED <<filament_present, sensor_enabled, running, starting,
                   runout_state, saved>>

(* DEBOUNCE_INTERVAL passes once the reactor and a woken thread are idle. *)
Tick ==
    /\ pending = EmptyBag /\ starting = 0 /\ thread # "check"
    /\ min_event' = IF min_event > 0 THEN min_event - 1 ELSE min_event
    /\ thread' = IF thread = "sleep" THEN "check" ELSE thread
    /\ UNCHANGED <<filament_present, sensor_enabled, pending, running,
                   starting, lock, debounce_count, runout_state, saved>>

-----------------------------------------------------------------------------
Reactor ==
    \/ \E k \in Callbacks : RunCallback(k)
    \/ \E k \in Handlers : FinishHandler(k)

Environment ==
    \/ \E present, p \in BOOLEAN : Note(present, p)
    \/ \E enable, p \in BOOLEAN : SetFilamentSensor(enable, p)
    \/ F108

Next == Reactor \/ TryLock \/ Check \/ Tick \/ Environment

Spec == Init /\ [][Next]_vars

(* The reactor runs every registered callback, handlers' G-code ends,    *)
(* threads run, and time passes; the user and the filament need not act. *)
FairSpec ==
    /\ Spec
    /\ \A k \in Callbacks : WF_vars(RunCallback(k))
    /\ \A k \in Handlers : WF_vars(FinishHandler(k))
    /\ WF_vars(TryLock) /\ WF_vars(Check) /\ WF_vars(Tick)

-----------------------------------------------------------------------------
TypeOK ==
    /\ filament_present \in BOOLEAN /\ sensor_enabled \in BOOLEAN
    /\ min_event \in {NEVER} \cup 0..(IF EventDelay > ReadyDelay THEN EventDelay ELSE ReadyDelay)
    /\ IsABag(pending) /\ BagToSet(pending) \subseteq Callbacks
    /\ IsABag(running) /\ BagToSet(running) \subseteq Handlers
    /\ starting \in Nat /\ lock \in BOOLEAN
    /\ thread \in {"none", "check", "sleep"}
    /\ debounce_count \in 0..DEBOUNCE_COUNT
    /\ runout_state \in BOOLEAN /\ saved \in BOOLEAN

=============================================================================
