---------------------- MODULE StatePersistenceProofs ----------------------
(***************************************************************************)
(* The state file is a durable register, and a write that returned without *)
(* an error is durable, for any number of writers, changes and crashes,    *)
(* checked by TLAPS.                                                       *)
(***************************************************************************)
EXTENDS StatePersistence, TLAPS

WriterType ==
  [pc : {"idle", "snapped", "writing", "renamed", "ok", "error"}, seq : Nat, content : Nat]

TypeInv ==
  /\ latest \in Nat /\ persistSeq \in Nat /\ persistedSeq \in Nat
  /\ visible \in Nat /\ durable \in Nat /\ base \in Nat
  /\ writer \in [Writer -> WriterType]

Holds(w) == writer[w].pc \in {"writing", "renamed"}

\* A snapshot's number says which version it holds; only the goroutine that
\* holds persistMu writes, and what it writes is newer than the file.
Numbered ==
  /\ latest = base + persistSeq
  /\ \A w \in Writer : writer[w].pc # "idle" =>
       writer[w].content = base + writer[w].seq /\ writer[w].seq <= persistSeq

Exclusive ==
  \A w \in Writer : Holds(w) =>
    /\ mutex = w /\ w # NoWriter
    /\ persistedSeq < writer[w].seq
    /\ writer[w].pc = "renamed" => visible = writer[w].content

\* What the file holds is bounded by what was taken for written, or by the
\* snapshot that was just renamed into place.
Bounded ==
  /\ durable <= visible /\ visible <= latest
  /\ durable <= base + persistedSeq
  /\ (\A w \in Writer : writer[w].pc # "renamed") => visible <= base + persistedSeq

Written ==
  "sync" \notin missed =>
    /\ base + persistedSeq <= durable
    /\ \A w \in Writer : writer[w].pc = "ok" => writer[w].seq <= persistedSeq

Inv == TypeInv /\ Numbered /\ Exclusive /\ Bounded /\ Written

\* A snapshot that is being taken or written leaves the invariant.
LEMMA InvStep ==
  ASSUME Inv, NEW w \in Writer, snapshotStateLocked(w) \/ WriterStep(w) PROVE Inv'
  <1> USE DEF Inv
  <1>0. writer[w] \in WriterType
    BY DEF TypeInv
  <1>1. CASE snapshotStateLocked(w)
    <2>1. TypeInv'
      BY <1>1 DEF snapshotStateLocked, TypeInv, WriterType
    <2>2. Numbered'
      BY <1>1 DEF snapshotStateLocked, TypeInv, Numbered, WriterType
    <2>3. Exclusive' /\ Bounded' /\ Written'
      BY <1>1 DEF snapshotStateLocked, TypeInv, Exclusive, Bounded, Written, Holds,
                  InProgress, WriterType
    <2>4. QED
      BY <2>1, <2>2, <2>3
  <1>2. CASE DropStale(w)
    <2>1. /\ \A v \in Writer : v # w => writer'[v] = writer[v]
          /\ writer'[w] = [writer[w] EXCEPT !.pc = "ok"]
          /\ writer[w].pc = "snapped" /\ writer[w].seq <= persistedSeq
          /\ UNCHANGED <<latest, persistSeq, persistedSeq, mutex, visible, durable, base, missed>>
      BY <1>2 DEF DropStale, Waiting, Stale, TypeInv
    <2>2. TypeInv'
      BY <1>2, <1>0 DEF DropStale, TypeInv, WriterType
    <2>3. Numbered' /\ Written'
      BY <1>0, <2>1 DEF Numbered, Written, WriterType
    <2>4. Exclusive' /\ Bounded'
      BY <1>0, <2>1 DEF Exclusive, Bounded, Holds, WriterType
    <2>5. QED
      BY <2>2, <2>3, <2>4
  <1>3. CASE StartWrite(w)
    <2>1. /\ \A v \in Writer : v # w => writer'[v] = writer[v]
          /\ writer'[w] = [writer[w] EXCEPT !.pc = "writing"]
          /\ writer[w].pc = "snapped" /\ ~(writer[w].seq <= persistedSeq)
          /\ mutex = NoWriter /\ mutex' = w
          /\ UNCHANGED <<latest, persistSeq, persistedSeq, visible, durable, base, missed>>
      BY <1>3 DEF StartWrite, Waiting, Stale, TypeInv
    <2>2. TypeInv'
      BY <1>3, <1>0 DEF StartWrite, TypeInv, WriterType
    <2>3. Numbered' /\ Written'
      BY <1>0, <2>1 DEF Numbered, Written, WriterType
    <2>4. Exclusive' /\ Bounded'
      BY <1>0, <2>1, PersistenceAssumption DEF Exclusive, Bounded, Holds, WriterType, TypeInv
    <2>5. QED
      BY <2>2, <2>3, <2>4
  <1>4. CASE WriteFails(w)
    <2>1. /\ \A v \in Writer : v # w => writer'[v] = writer[v]
          /\ writer'[w] = [writer[w] EXCEPT !.pc = "error"]
          /\ writer[w].pc = "writing" /\ missed \subseteq missed'
          /\ UNCHANGED <<latest, persistSeq, persistedSeq, visible, durable, base>>
      BY <1>4 DEF WriteFails, TypeInv
    <2>2. TypeInv'
      BY <1>4, <1>0 DEF WriteFails, TypeInv, WriterType
    <2>3. Numbered' /\ Written'
      BY <1>0, <2>1 DEF Numbered, Written, WriterType
    <2>4. Exclusive' /\ Bounded'
      BY <1>0, <2>1 DEF Exclusive, Bounded, Holds, WriterType
    <2>5. QED
      BY <2>2, <2>3, <2>4
  <1>5. CASE Rename(w)
    <2>1. /\ \A v \in Writer : v # w => writer'[v] = writer[v]
          /\ writer'[w] = [writer[w] EXCEPT !.pc = "renamed"]
          /\ writer[w].pc = "writing" /\ visible' = writer[w].content
          /\ UNCHANGED <<latest, persistSeq, persistedSeq, mutex, durable, base, missed>>
      BY <1>5 DEF Rename, TypeInv
    <2>2. TypeInv'
      BY <1>5, <1>0 DEF Rename, TypeInv, WriterType
    <2>3. Numbered' /\ Written'
      BY <1>0, <2>1 DEF Numbered, Written, WriterType
    <2>4. Exclusive'
      BY <1>0, <2>1 DEF Exclusive, Holds, WriterType
    <2>5. Bounded'
      BY <1>0, <2>1 DEF Bounded, Numbered, Exclusive, Holds, TypeInv, WriterType
    <2>6. QED
      BY <2>2, <2>3, <2>4, <2>5
  <1>6. CASE SyncDirectory(w)
    <2>1. /\ \A v \in Writer : v # w => writer'[v] = writer[v]
          /\ writer'[w] = [writer[w] EXCEPT !.pc = "ok"]
          /\ writer[w].pc = "renamed" /\ persistedSeq' = writer[w].seq
          /\ \/ durable' = visible /\ missed' = missed
             \/ durable' = durable /\ "sync" \in missed'
          /\ UNCHANGED <<latest, persistSeq, visible, base>>
      BY <1>6 DEF SyncDirectory, TypeInv
    <2>2. TypeInv'
      BY <1>6, <1>0 DEF SyncDirectory, TypeInv, WriterType
    <2>3. \A v \in Writer : v # w => ~Holds(v)
      BY <2>1 DEF Exclusive, Holds
    <2>4. visible = base + writer[w].seq /\ persistedSeq < writer[w].seq
      BY <2>1 DEF Exclusive, Numbered, Holds
    <2>5. Numbered'
      BY <1>0, <2>1 DEF Numbered, WriterType
    <2>6. Exclusive' /\ Bounded'
      BY <1>0, <2>1, <2>3, <2>4 DEF Exclusive, Bounded, Holds, TypeInv, WriterType
    <2>7. Written'
      BY <1>0, <2>1, <2>4 DEF Written, TypeInv, WriterType
    <2>8. QED
      BY <2>2, <2>5, <2>6, <2>7
  <1>7. QED
    BY <1>1, <1>2, <1>3, <1>4, <1>5, <1>6 DEF WriterStep

\* A crash starts from what the file then holds.
LEMMA InvLoad == Inv /\ loadState => Inv'
  <1> SUFFICES ASSUME Inv, loadState PROVE Inv'
    OBVIOUS
  <1>1. PICK found \in {durable, visible} :
          /\ latest' = found /\ visible' = found /\ durable' = found /\ base' = found
          /\ persistSeq' = 0 /\ persistedSeq' = 0
          /\ writer' = [w \in Writer |-> Idle]
    BY DEF loadState
  <1>2. found \in Nat
    BY DEF Inv, TypeInv
  <1>3. \A w \in Writer : writer'[w] = Idle
    BY <1>1
  <1>4. TypeInv'
    BY <1>1, <1>2 DEF TypeInv, WriterType, Idle
  <1>5. Numbered' /\ Exclusive' /\ Bounded' /\ Written'
    BY <1>1, <1>2, <1>3 DEF Numbered, Exclusive, Bounded, Written, Holds, Idle
  <1>6. QED
    BY <1>4, <1>5 DEF Inv

\* The inductive invariant.
LEMMA Invariant == Spec => []Inv
  <1>1. Init => Inv
    BY DEF Init, Inv, TypeInv, WriterType, Numbered, Exclusive, Bounded, Written, Holds, Idle
  <1>2. Inv /\ [Next]_vars => Inv'
    <2> SUFFICES ASSUME Inv, [Next]_vars PROVE Inv'
      OBVIOUS
    <2>1. CASE Next
      BY <2>1, InvStep, InvLoad DEF Next
    <2>2. CASE UNCHANGED vars
      BY <2>2 DEF vars, Inv, TypeInv, Numbered, Exclusive, Bounded, Written, Holds
    <2>3. QED
      BY <2>1, <2>2
  <1>3. QED
    BY <1>1, <1>2, PTL DEF Spec

\* What persistState returned without an error for survives a crash, unless a
\* directory sync failed.
THEOREM ReturnedDurable == Spec => []ReturnedIsDurable
  <1>1. Inv => ReturnedIsDurable
    <2> SUFFICES ASSUME Inv, "sync" \notin missed, NEW w \in Writer, writer[w].pc = "ok"
                 PROVE  writer[w].content <= durable
      BY DEF ReturnedIsDurable
    <2>1. writer[w].seq \in Nat /\ writer[w].content = base + writer[w].seq
      BY DEF Inv, TypeInv, WriterType, Numbered
    <2>2. base + persistedSeq <= durable /\ writer[w].seq <= persistedSeq
      BY DEF Inv, Written
    <2>3. QED
      BY <2>1, <2>2 DEF Inv, TypeInv
  <1>2. QED
    BY <1>1, Invariant, PTL

\* What a step of the writers is to the register: a snapshot a Change, the sync
\* of the directory an Acknowledge, a crash a Restart, anything else a stutter.
LEMMA RegisterStep == ASSUME Inv, Next PROVE [Register!Next]_<<latest, durable>>
  <1>crash. ASSUME loadState PROVE Register!Restart
    <2>1. PICK found \in {durable, visible} : latest' = found /\ durable' = found
      BY <1>crash DEF loadState
    <2>2. found \in durable..latest
      BY DEF Inv, TypeInv, Bounded
    <2>3. QED
      BY <2>1, <2>2 DEF Register!Restart
  <1>writer. ASSUME NEW w \in Writer, snapshotStateLocked(w) \/ WriterStep(w)
             PROVE  Register!Change \/ Register!Acknowledge \/ UNCHANGED <<latest, durable>>
    <2>change. snapshotStateLocked(w) => Register!Change
      BY DEF snapshotStateLocked, Register!Change
    <2>synced. SyncDirectory(w) => Register!Acknowledge
      BY DEF SyncDirectory, Register!Acknowledge, Inv, TypeInv, Bounded
    <2>quiet. DropStale(w) \/ StartWrite(w) \/ WriteFails(w) \/ Rename(w)
                => UNCHANGED <<latest, durable>>
      BY DEF DropStale, StartWrite, WriteFails, Rename
    <2> QED
      BY <1>writer, <2>change, <2>synced, <2>quiet DEF WriterStep
  <1> QED
    BY <1>crash, <1>writer DEF Next, Register!Next

\* The writers implement the durable register.
THEOREM Refinement == Spec => ImplementsRegister
  <1>init. Init => Register!Init
    BY DEF Init, Register!Init
  <1>step. Inv /\ [Next]_vars => [Register!Next]_<<latest, durable>>
    BY RegisterStep DEF vars
  <1> QED
    BY <1>init, <1>step, Invariant, PTL DEF Spec, ImplementsRegister, Register!Spec

\* The newest snapshot is on its way, or no newer one is missing from the file.
LastIsUnderWay ==
  missed = {} => \/ persistSeq <= persistedSeq
                 \/ \E w \in Writer : InProgress(w) /\ writer[w].seq = persistSeq

LEMMA UnderWayStep ==
  ASSUME Inv, LastIsUnderWay, NEW w \in Writer, snapshotStateLocked(w) \/ WriterStep(w)
  PROVE  LastIsUnderWay'
  <1>0. /\ writer \in [Writer -> WriterType] /\ writer[w] \in WriterType
        /\ persistSeq \in Nat /\ persistedSeq \in Nat
    BY DEF Inv, TypeInv
  <1>snapshot. CASE snapshotStateLocked(w)
    <2>1. writer'[w].pc = "snapped" /\ writer'[w].seq = persistSeq'
      BY <1>snapshot, <1>0 DEF snapshotStateLocked
    <2> QED
      BY <2>1 DEF LastIsUnderWay, InProgress
  <1>dropped. CASE DropStale(w)
    <2>1. /\ \A v \in Writer \ {w} : writer'[v] = writer[v]
          /\ writer[w].seq <= persistedSeq
          /\ UNCHANGED <<persistSeq, persistedSeq, missed>>
      BY <1>dropped, <1>0 DEF DropStale, Stale
    <2> QED
      BY <1>0, <2>1 DEF LastIsUnderWay, InProgress, WriterType
  <1>moves. CASE StartWrite(w) \/ Rename(w)
    <2>1. /\ \A v \in Writer : writer'[v].seq = writer[v].seq
          /\ \A v \in Writer : InProgress(v) => writer'[v].pc \in {"snapped", "writing", "renamed"}
          /\ UNCHANGED <<persistSeq, persistedSeq, missed>>
      BY <1>moves, <1>0 DEF StartWrite, Rename, InProgress, WriterType
    <2> QED
      BY <2>1 DEF LastIsUnderWay, InProgress
  <1>fails. CASE WriteFails(w)
    BY <1>fails DEF WriteFails, LastIsUnderWay
  <1>synced. CASE SyncDirectory(w)
    <2>1. /\ \A v \in Writer \ {w} : writer'[v] = writer[v]
          /\ persistedSeq' = writer[w].seq /\ persistSeq' = persistSeq
          /\ missed \subseteq missed'
      BY <1>synced, <1>0 DEF SyncDirectory
    <2>2. persistedSeq < writer[w].seq
      BY <1>synced DEF SyncDirectory, Inv, Exclusive, Holds
    <2> QED
      BY <1>0, <2>1, <2>2 DEF LastIsUnderWay, InProgress, WriterType
  <1> QED
    BY <1>snapshot, <1>dropped, <1>moves, <1>fails, <1>synced DEF WriterStep

\* Once every goroutine has returned from persistState, and no write and no sync
\* has failed, the newest state is in the file: dropping a stale snapshot never
\* drops the last one.
THEOREM LastIsWritten == Spec => []NothingForgotten
  <1>init. Init => LastIsUnderWay
    BY DEF Init, LastIsUnderWay
  <1>step. Inv /\ LastIsUnderWay /\ [Next]_vars => LastIsUnderWay'
    <2>load. ASSUME loadState PROVE LastIsUnderWay'
      BY <2>load DEF loadState, LastIsUnderWay
    <2>quiet. ASSUME LastIsUnderWay, UNCHANGED vars PROVE LastIsUnderWay'
      BY <2>quiet DEF vars, LastIsUnderWay, InProgress
    <2> QED
      BY <2>load, <2>quiet, UnderWayStep DEF Next
  <1>safe. Inv /\ LastIsUnderWay => NothingForgotten
    <2> SUFFICES ASSUME Inv, LastIsUnderWay, \A w \in Writer : ~InProgress(w), missed = {}
                 PROVE  durable = latest
      BY DEF NothingForgotten
    <2>1. persistSeq <= persistedSeq
      BY DEF LastIsUnderWay
    <2>2. base + persistedSeq <= durable
      BY DEF Inv, Written
    <2>3. durable <= latest /\ latest = base + persistSeq
      BY DEF Inv, Bounded, Numbered, TypeInv
    <2> QED
      BY <2>1, <2>2, <2>3 DEF Inv, TypeInv
  <1> QED
    BY <1>init, <1>step, <1>safe, Invariant, PTL DEF Spec
=============================================================================
