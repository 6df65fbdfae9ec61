---------------------------- MODULE SaveVariables ----------------------------
(***************************************************************************)
(* The variable store of the firmware (klippy/extras/save_variables.py).  *)
(*                                                                         *)
(* allVariables is the in-memory dict; every SAVE_VARIABLE / setVariables  *)
(* puts a whole copy of the new dict on vars_queue (put_nowait, dropped   *)
(* when the queue is full) and a writer thread takes them off one by one  *)
(* and replaces the file (safe_write: temp file, fsync, os.replace), so   *)
(* the file always holds one whole snapshot.  On klippy:disconnect the    *)
(* thread is told to stop and joined for 0.2 s; the Klipper restart then  *)
(* builds a new SaveVariables that loads the file.  A thread still inside *)
(* safe_write after the join goes on writing (it is not a daemon).        *)
(***************************************************************************)
EXTENDS Integers, Sequences, SequencesExt

CONSTANTS
    Keys,        \* variable names
    Values,      \* the values each variable takes (literals), per key
    None,        \* a key absent from the dict
    QUEUE_SIZE,  \* queue.Queue(maxsize=100)
    InitialFile  \* the variable file at first start

IsSnapshot(m) ==
    DOMAIN m = Keys /\ \A k \in Keys : m[k] = None \/ m[k] \in Values[k]

ASSUME QUEUE_SIZE \in Nat \ {0} /\ IsSnapshot(InitialFile)

VARIABLES
    allVariables,  \* self.allVariables
    vars_queue,    \* self.vars_queue
    writing,       \* the snapshot the writer thread has taken, or None
    orphans,       \* snapshots still being written by threads of earlier
                   \* instances
    disk           \* the contents of the variable file

store == <<allVariables, vars_queue, writing, orphans, disk>>

(* The dict after updating some keys: newvars = dict(self.allVariables)   *)
(* then newvars[name] = val.                                              *)
Updated(m, upd) ==
    [k \in Keys |-> IF k \in DOMAIN upd THEN upd[k] ELSE m[k]]

(* put_nowait: a full queue raises queue.Full and the snapshot is lost    *)
(* ("Variable Queue Full").                                               *)
EnqueueUnbounded(q, s) == Append(q, s)

Enqueue(q, s) == IF Len(q) < QUEUE_SIZE THEN Append(q, s) ELSE q

(* The dicts that successive setVariables calls build, each from the one  *)
(* before.                                                                *)
RECURSIVE Chain(_, _)
Chain(m, upds) ==
    IF upds = <<>> THEN <<>>
    ELSE LET m1 == Updated(m, Head(upds)) IN <<m1>> \o Chain(m1, Tail(upds))

(* setVariables (111-129) and cmd_SAVE_VARIABLE (88-107), called once per *)
(* update in upds within one step of the caller: each puts its dict, then *)
(* sets self.allVariables, which is updated even when the put was lost.   *)
(* A parse error of VALUE raises before anything changes; values here are *)
(* literals.                                                              *)
SetVariables(upds) ==
    LET snaps == Chain(allVariables, upds) IN
    /\ vars_queue' = FoldLeft(Enqueue, vars_queue, snaps)
    /\ allVariables' = IF snaps = <<>> THEN allVariables ELSE Last(snaps)

(* _save_vars_thread takes the next snapshot (56; the 0.1 s get timeout   *)
(* just loops).  No caller puts None, so the break at 57-58 is not taken. *)
WriterGet ==
    /\ writing = None /\ vars_queue # <<>>
    /\ writing' = Head(vars_queue)
    /\ vars_queue' = Tail(vars_queue)
    /\ UNCHANGED <<allVariables, orphans, disk>>

(* safe_write (34-50) replaces the file, or raises ("Unable to save       *)
(* variable", 65-67) with the file left as it was.                        *)
WriterWrite(ok) ==
    /\ writing # None
    /\ disk' = IF ok THEN writing ELSE disk
    /\ writing' = None
    /\ UNCHANGED <<allVariables, vars_queue, orphans>>

(* A thread of an earlier instance finishes its safe_write and exits.    *)
OrphanWrite(s, ok) ==
    /\ s \in orphans
    /\ disk' = IF ok THEN s ELSE disk
    /\ orphans' = orphans \ {s}
    /\ UNCHANGED <<allVariables, vars_queue, writing>>

(* klippy:disconnect (30-32) and the restart: thread_stop ends the loop   *)
(* before the next get, so the queued snapshots are never written; a     *)
(* write in progress ends within the 0.2 s join or outlives it.  The new  *)
(* instance loads the file (14-18, loadVariables 73-86) and starts an    *)
(* empty queue and a new thread.                                          *)
Restart(joined) ==
    /\ disk' = IF joined /\ writing # None THEN writing ELSE disk
    /\ orphans' = IF ~joined /\ writing # None
                  THEN orphans \cup {writing} ELSE orphans
    /\ allVariables' = disk'
    /\ vars_queue' = <<>>
    /\ writing' = None

(* Power loss: memory, the queue and every thread are gone; the next     *)
(* start loads the file, which os.replace left whole.                    *)
PowerLoss ==
    /\ allVariables' = disk
    /\ vars_queue' = <<>>
    /\ writing' = None
    /\ orphans' = {}
    /\ UNCHANGED disk

Init ==
    /\ disk = InitialFile
    /\ allVariables = InitialFile
    /\ vars_queue = <<>>
    /\ writing = None
    /\ orphans = {}

StoreTypeOK ==
    /\ IsSnapshot(allVariables) /\ IsSnapshot(disk)
    /\ Len(vars_queue) <= QUEUE_SIZE
    /\ \A i \in DOMAIN vars_queue : IsSnapshot(vars_queue[i])
    /\ writing = None \/ IsSnapshot(writing)
    /\ \A s \in orphans : IsSnapshot(s)

=============================================================================
