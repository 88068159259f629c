-------------------------- MODULE StatePersistence --------------------------
(***************************************************************************)
(* How the master and the slave write their state file: snapshots are      *)
(* encoded and numbered under commandMu, and written after the unlock, by  *)
(* any number of goroutines, serialised by persistMu; a snapshot older     *)
(* than one already written is dropped.  atomicfile.WriteFile writes a     *)
(* temporary file, renames it over the state file and syncs the directory. *)
(* (internal/master/state.go, internal/slave/state.go, internal/atomicfile)*)
(*                                                                         *)
(* The content of the state is abstracted to a version, the number of      *)
(* changes made to it.  A crash is a loss of power: what was renamed but   *)
(* not synced may or may not be there afterwards.                          *)
(***************************************************************************)
EXTENDS Naturals

CONSTANTS
  Writer,       \* goroutines that change the state
  MaxVersion    \* bound: changes made to the state

NoWriter == "nobody"   \* persistMu is free

ASSUME PersistenceAssumption == MaxVersion \in Nat /\ NoWriter \notin Writer

VARIABLES
  latest,         \* the version of the state in memory
  persistSeq,     \* sequence number of the last snapshot, counted from the start
  persistedSeq,   \* sequence number of the last snapshot written
  writer,         \* what each goroutine is doing, and the snapshot it holds
  mutex,          \* the goroutine that holds persistMu
  visible,        \* the version in the state file
  durable,        \* the version in the state file that a crash cannot undo
  base,           \* observer: the version this process started from
  missed          \* observer: what failed in this process: a write, a directory sync

vars == <<latest, persistSeq, persistedSeq, writer, mutex, visible, durable, base, missed>>

Idle == [pc |-> "idle", seq |-> 0, content |-> 0]
Waiting(w) == writer[w].pc = "snapped"

\* The goroutine is inside persistState, or about to call it.
InProgress(w) == writer[w].pc \in {"snapped", "writing", "renamed"}

Init ==
  /\ latest = 0
  /\ persistSeq = 0
  /\ persistedSeq = 0
  /\ writer = [w \in Writer |-> Idle]
  /\ mutex = NoWriter
  /\ visible = 0
  /\ durable = 0
  /\ base = 0
  /\ missed = {}

\* A change of the state and the snapshot of it, in one critical section.
snapshotStateLocked(w) ==
  /\ ~InProgress(w)
  /\ latest < MaxVersion
  /\ latest' = latest + 1
  /\ persistSeq' = persistSeq + 1
  /\ writer' = [writer EXCEPT ![w] = [pc |-> "snapped", seq |-> persistSeq + 1,
                                      content |-> latest + 1]]
  /\ UNCHANGED <<persistedSeq, mutex, visible, durable, base, missed>>

Stale_Bug(w) == FALSE

\* A newer snapshot, or this one, is in the file already.
Stale(w) == writer[w].seq <= persistedSeq

DropStale(w) ==
  /\ Waiting(w) /\ mutex = NoWriter
  /\ Stale(w)
  /\ writer' = [writer EXCEPT ![w].pc = "ok"]
  /\ UNCHANGED <<latest, persistSeq, persistedSeq, mutex, visible, durable, base, missed>>

\* Bug: the snapshot is taken for written before it is.
StartWrite_Bug(w) ==
  /\ Waiting(w) /\ mutex = NoWriter
  /\ ~Stale(w)
  /\ mutex' = w
  /\ persistedSeq' = writer[w].seq
  /\ writer' = [writer EXCEPT ![w].pc = "writing"]
  /\ UNCHANGED <<latest, persistSeq, visible, durable, base, missed>>

StartWrite(w) ==
  /\ Waiting(w) /\ mutex = NoWriter
  /\ ~Stale(w)
  /\ mutex' = w
  /\ writer' = [writer EXCEPT ![w].pc = "writing"]
  /\ UNCHANGED <<latest, persistSeq, persistedSeq, visible, durable, base, missed>>

\* The temporary file cannot be created, written, synced or renamed.
WriteFails(w) ==
  /\ writer[w].pc = "writing"
  /\ mutex' = NoWriter
  /\ missed' = missed \cup {"write"}
  /\ writer' = [writer EXCEPT ![w].pc = "error"]
  /\ UNCHANGED <<latest, persistSeq, persistedSeq, visible, durable, base>>

\* The temporary file is complete and synced, and replaces the state file.
Rename(w) ==
  /\ writer[w].pc = "writing"
  /\ visible' = writer[w].content
  /\ writer' = [writer EXCEPT ![w].pc = "renamed"]
  /\ UNCHANGED <<latest, persistSeq, persistedSeq, mutex, durable, base, missed>>

\* The directory is synced; an error there is ignored.  The write has succeeded.
SyncDirectory(w) ==
  /\ writer[w].pc = "renamed"
  /\ \/ durable' = visible /\ missed' = missed
     \/ durable' = durable /\ missed' = missed \cup {"sync"}
  /\ persistedSeq' = writer[w].seq
  /\ mutex' = NoWriter
  /\ writer' = [writer EXCEPT ![w].pc = "ok"]
  /\ UNCHANGED <<latest, persistSeq, visible, base>>

\* Power is lost and the program starts again: loadState reads the file.
loadState ==
  \E found \in {durable, visible} :
    /\ latest' = found
    /\ visible' = found
    /\ durable' = found
    /\ base' = found
    /\ persistSeq' = 0
    /\ persistedSeq' = 0
    /\ writer' = [w \in Writer |-> Idle]
    /\ mutex' = NoWriter
    /\ missed' = {}

WriterStep(w) ==
  \/ DropStale(w)
  \/ StartWrite(w)
  \/ WriteFails(w)
  \/ Rename(w)
  \/ SyncDirectory(w)

Next ==
  \/ \E w \in Writer : snapshotStateLocked(w) \/ WriterStep(w)
  \/ loadState

Spec == Init /\ [][Next]_vars

(***************************************************************************)
(* Properties.                                                             *)
(***************************************************************************)

\* Snapshots written out of order, failed writes and crashes in the middle of
\* one never take the file back to a version older than one it was known to
\* hold: the file is a durable register.
Register == INSTANCE DurableRegister WITH latest <- latest, acked <- durable
ImplementsRegister == Register!Spec

\* When persistState returns without an error the snapshot, or a newer one,
\* survives a crash, unless a directory sync failed: what the local shutdown
\* and the enrollment of a slave wait for.
ReturnedIsDurable ==
  "sync" \notin missed =>
    \A w \in Writer : writer[w].pc = "ok" => writer[w].content <= durable

\* Once every goroutine has returned, and none failed, the file is up to date.
NothingForgotten ==
  (\A w \in Writer : ~InProgress(w)) /\ missed = {} => durable = latest
=============================================================================
