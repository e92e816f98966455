------------------------------ MODULE WalProofs -----------------------------
(***************************************************************************)
(* The write-ahead log against the store (core/src/wal.rs, store.rs and    *)
(* flush_wal in the sidecar's handlers): when sessions share no block, the *)
(* WAL replays to the memory whenever no append is outstanding, and every  *)
(* ACK that left is in the records a crash leaves.                         *)
(***************************************************************************)
EXTENDS ReceiverProofs

-----------------------------------------------------------------------------
\* What a record does to an image, whatever its variant.
LEMMA ReplayEffect ==
  ASSUME NEW im \in Image, NEW rec \in Record
  PROVE  /\ \A id \in BlockId : id \in replay(im, rec).blocks <=>
              id \in im.blocks \/ (rec.variant \in {"INSERT", "CONTENT"} /\ id = rec.ids[1])
         /\ \A r \in Session \ {rec.s} : replay(im, rec).log[r] = im.log[r]
  <1> USE RecordFields
  <1>1. CASE rec.variant = "INSERT"
    BY Zenon, <1>1 DEF replay, insert_with_id, LogAppend, Image
  <1>2. CASE rec.variant = "REFERENCE"
    BY Zenon, <1>2 DEF replay, reference, LogAppend, Image
  <1>3. CASE rec.variant = "SEED"
    BY Zenon, <1>3 DEF replay, seed_session, Image
  <1>4. CASE rec.variant = "CONTENT"
    BY Zenon, <1>4 DEF replay, store_content, Image
  <1> QED
    BY Zenon, <1>1, <1>2, <1>3, <1>4

\* A record does the same to the same log, as long as a reference is resolved
\* in both images or in neither.
LEMMA ReplaySame ==
  ASSUME NEW im \in Image, NEW jm \in Image, NEW rec \in Record,
         im.log[rec.s] = jm.log[rec.s],
         rec.variant = "REFERENCE" => (rec.ids[1] \in im.blocks <=> rec.ids[1] \in jm.blocks)
  PROVE  replay(im, rec).log[rec.s] = replay(jm, rec).log[rec.s]
  <1> USE RecordFields
  <1>1. CASE rec.variant = "INSERT"
    BY Zenon, <1>1 DEF replay, insert_with_id, LogAppend, Image
  <1>2. CASE rec.variant = "REFERENCE"
    BY Zenon, <1>2 DEF replay, reference, LogAppend, Image, contains
  <1>3. CASE rec.variant = "SEED"
    BY Zenon, <1>3 DEF replay, seed_session, Image
  <1>4. CASE rec.variant = "CONTENT"
    BY Zenon, <1>4 DEF replay, store_content, Image
  <1> QED
    BY Zenon, <1>1, <1>2, <1>3, <1>4

LEMMA ReplayKeeps ==
  ASSUME NEW im \in Image, NEW rec \in Record, NEW own, KeepsTo(im, own),
         Range(rec.ids) \subseteq own[rec.s]
  PROVE  KeepsTo(replay(im, rec), own)
  <1> USE RecordFields
  <1>1. rec.variant # "SEED" => rec.ids[1] \in own[rec.s]
    <2>1. ASSUME rec.variant # "SEED" PROVE 1 \in DOMAIN rec.ids
      BY <2>1 DEF Record
    <2> QED
      BY Zenon, <2>1 DEF Range
  <1>2. ASSUME NEW id \in BlockId, id \in own[rec.s]
        PROVE  KeepsTo(LogAppend(im, rec.s, id), own) /\ KeepsTo(insert_with_id(im, rec.s, id), own)
    <2>1. session_ids(im, rec.s) \in Seq(BlockId) /\ Range(session_ids(im, rec.s)) \subseteq own[rec.s]
      BY Zenon, RootType DEF KeepsTo
    <2>2. Range(Append(session_ids(im, rec.s), id)) \subseteq own[rec.s]
      BY <1>2, <2>1, RangeAppend
    <2>3. /\ session_ids(LogAppend(im, rec.s, id), rec.s) = Append(session_ids(im, rec.s), id)
          /\ session_ids(insert_with_id(im, rec.s, id), rec.s) = Append(session_ids(im, rec.s), id)
      BY OwnLog
    <2>4. \A r \in Session \ {rec.s} : /\ session_ids(LogAppend(im, rec.s, id), r) = session_ids(im, r)
                                      /\ session_ids(insert_with_id(im, rec.s, id), r) = session_ids(im, r)
      BY Zenon, OtherLogs
    <2> QED
      BY Zenon, <2>2, <2>3, <2>4 DEF KeepsTo
  <1>3. CASE rec.variant = "INSERT"
    BY Zenon, <1>1, <1>2, <1>3 DEF replay
  <1>4. CASE rec.variant = "REFERENCE"
    BY Zenon, <1>1, <1>2, <1>4 DEF replay, reference
  <1>5. CASE rec.variant = "SEED"
    BY <1>5, SeedEffect DEF replay, KeepsTo
  <1>6. CASE rec.variant = "CONTENT"
    BY <1>6, ContentEffect DEF replay, KeepsTo
  <1> QED
    BY Zenon, <1>3, <1>4, <1>5, <1>6

-----------------------------------------------------------------------------
(***************************************************************************)
(* A step of a handler changes the memory and owes the record of that, or  *)
(* appends the record it owes, or leaves both the memory and the WAL alone. *)
(***************************************************************************)
Makes(t) ==
  /\ pc[t] \in Locked \ Logging /\ pc'[t] \in Logging
  /\ mem' = replay(mem, due'[t]) /\ UNCHANGED <<disk, torn>>
  /\ \A u \in Thread \ {t} : due'[u] = due[u]
  /\ due'[t].s = req[t].s /\ Range(due'[t].ids) \subseteq Range(req[t].ids)
  /\ pc'[t] = "applyLog" => due'[t].variant \in {"INSERT", "REFERENCE"}
  /\ pc'[t] = "seedLog" => due'[t].variant = "SEED"
  /\ pc'[t] = "storeLog" => due'[t].variant = "CONTENT"

Writes(t) ==
  /\ pc[t] \in Logging /\ pc'[t] \notin Logging /\ UNCHANGED <<mem, due>>
  /\ \E im \in Image : /\ disk' = Append(disk, im)
                       /\ \/ torn' = TRUE /\ im \in {Last(disk), replay(Last(disk), due[t])}
                          \/ torn' = FALSE /\ torn = FALSE /\ im = replay(Last(disk), due[t])

Rests(t) == pc[t] \notin Logging /\ pc'[t] \notin Logging /\ UNCHANGED <<mem, disk, torn, due>>

\* What insert logs: for a block that is stored already, a reference to it.
LEMMA InsertIsReplay ==
  ASSUME NEW im \in Image, NEW s \in Session, NEW id \in BlockId
  PROVE  /\ insert_with_id(im, s, id) = replay(im, InsertRecord(im, s, id))
         /\ reference(im, s, id) = replay(im, BlockRecord("REFERENCE", s, id))
         /\ store_content(im, id) = replay(im, BlockRecord("CONTENT", s, id))
         /\ id \in im.blocks => store_content(im, id) = im
  <1>1. ASSUME NEW v \in {"INSERT", "REFERENCE", "CONTENT"}
        PROVE  /\ BlockRecord(v, s, id).variant = v /\ BlockRecord(v, s, id).s = s
               /\ BlockRecord(v, s, id).ids[1] = id
    BY Zenon DEF BlockRecord
  <1>2. id \in im.blocks => [im EXCEPT !.blocks = @ \cup {id}] = im
    BY Zenon DEF Image
  <1>3. CASE id \in im.blocks
    <2>1. InsertRecord(im, s, id) = BlockRecord("REFERENCE", s, id)
      BY Zenon, <1>3 DEF InsertRecord, contains
    <2>2. insert_with_id(im, s, id) = LogAppend(im, s, id)
      BY Zenon, <1>2, <1>3 DEF insert_with_id
    <2>3. replay(im, BlockRecord("REFERENCE", s, id)) = LogAppend(im, s, id)
      BY Zenon, <1>1, <1>3 DEF replay, reference, contains
    <2> QED
      BY Zenon, <1>1, <1>2, <1>3, <2>1, <2>2, <2>3 DEF replay, store_content
  <1>4. CASE id \notin im.blocks
    <2>1. InsertRecord(im, s, id) = BlockRecord("INSERT", s, id)
      BY Zenon, <1>4 DEF InsertRecord, contains
    <2> QED
      BY Zenon, <1>1, <1>4, <2>1 DEF replay
  <1> QED
    BY Zenon, <1>3, <1>4

LEMMA RangeOne ==
  ASSUME NEW v, NEW s, NEW id
  PROVE  Range(BlockRecord(v, s, id).ids) = {id}
  BY DEF BlockRecord, Range

LEMMA MakesOrRests ==
  ASSUME IInv, NEW t \in Thread, AppendApply(t) \/ ResyncSeed(t) \/ BulkStore(t)
  PROVE  Makes(t) \/ Rests(t)
  <1> DEFINE f == req[t]
  <1>1. /\ mem \in Image /\ f.s \in Session /\ f.ids \in Seq(BlockId) /\ done[t] \in Nat
        /\ pc \in [Thread -> PC] /\ due \in [Thread -> Record]
    BY Zenon DEF IInv, TypeOK, Frame
  <1>2. ASSUME NEW id, id = f.ids[done[t] + 1], done[t] + 1 <= Len(f.ids)
        PROVE  id \in BlockId /\ {id} \subseteq Range(f.ids)
    <2>1. done[t] + 1 \in 1..Len(f.ids) /\ DOMAIN f.ids = 1..Len(f.ids)
      BY <1>1, <1>2
    <2> QED
      BY <1>1, <1>2, <2>1 DEF Range
  <1>3. \A label : Goto(t, label) => pc'[t] = label
    BY Zenon, <1>1 DEF Goto
  <1>4. \A rec : due' = [due EXCEPT ![t] = rec] => due'[t] = rec /\ \A u \in Thread \ {t} : due'[u] = due[u]
    BY Zenon, <1>1
  <1>5. CASE AppendApply(t)
    <2> PICK id : id = f.ids[done[t] + 1]
      BY Zenon
    <2>1. id \in BlockId /\ {id} \subseteq Range(f.ids)
      BY Zenon, <1>2, <1>5 DEF AppendApply
    <2>2. pc[t] = "apply" /\ pc'[t] = "applyLog" /\ UNCHANGED <<disk, torn>>
      BY Zenon, <1>3, <1>5 DEF AppendApply, walVars
    <2>3. /\ mem' = replay(mem, due'[t]) /\ \A u \in Thread \ {t} : due'[u] = due[u]
          /\ \E v \in {"INSERT", "REFERENCE"} : due'[t] = BlockRecord(v, f.s, id)
      <3>1. CASE done[t] + 1 \in f.refs
        <4>1. mem' = reference(mem, f.s, id) /\ due' = [due EXCEPT ![t] = BlockRecord("REFERENCE", f.s, id)]
          BY Zenon, <1>5, <3>1 DEF AppendApply
        <4> QED
          BY SMTT(60), <1>1, <1>4, <2>1, <4>1, InsertIsReplay
      <3>2. CASE done[t] + 1 \notin f.refs
        <4>1. mem' = insert_with_id(mem, f.s, id) /\ due' = [due EXCEPT ![t] = InsertRecord(mem, f.s, id)]
          BY Zenon, <1>5, <3>2 DEF AppendApply
        <4>2. \E v \in {"INSERT", "REFERENCE"} : InsertRecord(mem, f.s, id) = BlockRecord(v, f.s, id)
          BY Zenon DEF InsertRecord
        <4> QED
          BY SMTT(60), <1>1, <1>4, <2>1, <4>1, <4>2, InsertIsReplay
      <3> QED
        BY Zenon, <3>1, <3>2
    <2>4. PICK v \in {"INSERT", "REFERENCE"} : due'[t] = BlockRecord(v, f.s, id)
      BY Zenon, <2>3
    <2>5. due'[t].s = f.s /\ due'[t].variant = v /\ Range(due'[t].ids) = {id}
      BY <2>4, RangeOne DEF BlockRecord
    <2> QED
      BY Zenon, <2>1, <2>2, <2>3, <2>5 DEF Makes, Locked, Logging
  <1>6. CASE ResyncSeed(t)
    <2>1. pc[t] = "seed" /\ pc'[t] = "seedLog" /\ UNCHANGED <<disk, torn>>
      BY Zenon, <1>3, <1>6 DEF ResyncSeed, walVars
    <2>2. /\ mem' = seed_session(mem, f.s, f.ids, f.base) /\ due'[t] = SeedRecord(f.s, f.ids, f.base)
          /\ \A u \in Thread \ {t} : due'[u] = due[u]
      BY Zenon, <1>4, <1>6 DEF ResyncSeed
    <2>3. due'[t].s = f.s /\ due'[t].variant = "SEED" /\ due'[t].ids = f.ids /\ mem' = replay(mem, due'[t])
      BY <2>2 DEF SeedRecord, replay
    <2> QED
      BY Zenon, <2>1, <2>2, <2>3 DEF Makes, Locked, Logging
  <1>7. CASE BulkStore(t)
    <2> PICK id : id = f.ids[done[t] + 1]
      BY Zenon
    <2>1. id \in BlockId /\ {id} \subseteq Range(f.ids)
      BY Zenon, <1>2, <1>7 DEF BulkStore
    <2>2. pc[t] = "store" /\ mem' = store_content(mem, id) /\ UNCHANGED <<disk, torn>>
      BY Zenon, <1>7 DEF BulkStore, walVars
    <2>3. CASE id \in mem.blocks
      <3>1. UNCHANGED <<pc, due>>
        BY Zenon, <1>7, <2>3 DEF BulkStore, contains
      <3> QED
        BY Zenon, <1>1, <2>1, <2>2, <2>3, <3>1, InsertIsReplay DEF Rests, Logging
    <2>4. CASE id \notin mem.blocks
      <3>1. /\ due'[t] = BlockRecord("CONTENT", f.s, id) /\ pc'[t] = "storeLog"
            /\ \A u \in Thread \ {t} : due'[u] = due[u]
        BY Zenon, <1>3, <1>4, <1>7, <2>4 DEF BulkStore, contains
      <3>2. due'[t].s = f.s /\ due'[t].variant = "CONTENT" /\ Range(due'[t].ids) = {id}
        BY SMTT(60), <3>1, RangeOne DEF BlockRecord
      <3>3. mem' = replay(mem, due'[t])
        BY <1>1, <2>1, <2>2, <3>1, InsertIsReplay
      <3> QED
        BY Zenon, <2>1, <2>2, <3>1, <3>2, <3>3 DEF Makes, Locked, Logging
    <2> QED
      BY Zenon, <2>3, <2>4
  <1> QED
    BY Zenon, <1>5, <1>6, <1>7

LEMMA WriteKind ==
  ASSUME IInv, NEW t \in Thread, AppendLog(t) \/ ResyncLog(t) \/ BulkLog(t)
  PROVE  Writes(t)
  <1>1. /\ Last(disk) \in Image /\ due[t] \in Record /\ pc \in [Thread -> PC] /\ torn \in BOOLEAN
    BY Zenon, LastType DEF IInv, TypeOK
  <1>2. replay(Last(disk), due[t]) \in Image
    BY Zenon, <1>1, ReplayType
  <1>3. PICK next, latch : /\ WriteRecord(t, next, latch) /\ {next, latch} \cap Logging = {}
                           /\ pc[t] \in Logging /\ UNCHANGED <<mem, due>>
    <2>1. CASE AppendLog(t)
      BY Zenon, <2>1 DEF AppendLog, Logging, memVars, runVars
    <2>2. CASE ResyncLog(t)
      BY Zenon, <2>2 DEF ResyncLog, Logging, memVars, runVars
    <2>3. CASE BulkLog(t)
      BY Zenon, <2>3 DEF BulkLog, Logging, memVars, runVars
    <2> QED
      BY Zenon, <2>1, <2>2, <2>3
  <1>4. pc'[t] \notin Logging
    BY Zenon, <1>1, <1>3 DEF WriteRecord, Goto
  <1>5. \E im \in Image : /\ disk' = Append(disk, im)
                          /\ \/ torn' = TRUE /\ im \in {Last(disk), replay(Last(disk), due[t])}
                             \/ torn' = FALSE /\ torn = FALSE /\ im = replay(Last(disk), due[t])
    <2>1. CASE torn' = TRUE /\ disk' = Append(disk, Last(disk))
      BY Zenon, <1>1, <2>1
    <2>2. CASE torn' = torn /\ \E im \in Appended(due[t]) : disk' = Append(disk, im)
      <3>1. CASE torn = TRUE
        BY Zenon, <1>1, <1>2, <2>2, <3>1 DEF Appended
      <3>2. CASE torn = FALSE
        BY Zenon, <1>2, <2>2, <3>2 DEF Appended
      <3> QED
        BY Zenon, <1>1, <3>1, <3>2
    <2> QED
      BY Zenon, <1>3, <2>1, <2>2 DEF WriteRecord
  <1> QED
    BY Zenon, <1>3, <1>4, <1>5 DEF Writes

LEMMA StepKind ==
  ASSUME IInv, NEW t \in Thread, Step(t)
  PROVE  Makes(t) \/ Writes(t) \/ Rests(t)
  <1>1. pc \in [Thread -> PC]
    BY Zenon DEF IInv, TypeOK
  <1>2. CASE AppendApply(t) \/ ResyncSeed(t) \/ BulkStore(t)
    BY Zenon, <1>2, MakesOrRests
  <1>3. CASE AppendLog(t) \/ ResyncLog(t) \/ BulkLog(t)
    BY Zenon, <1>3, WriteKind
  <1>4. \A label : Goto(t, label) => pc'[t] = label
    BY Zenon, <1>1 DEF Goto
  <1>5. CASE AppendCheck(t) \/ AppendDone(t) \/ ResyncNote(t) \/ ResyncRoot(t) \/ BulkDone(t) \/ Flush(t)
    <2>1. pc[t] \in {"check", "apply", "note", "root", "store", "flush"}
      BY Zenon, <1>5 DEF AppendCheck, AppendDone, ResyncNote, ResyncRoot, BulkDone, Flush
    <2>2. UNCHANGED <<mem, disk, torn, due>>
      BY ZenonT(60), <1>5 DEF AppendCheck, AppendDone, ResyncNote, ResyncRoot, BulkDone, Flush,
                              memVars, walVars
    <2>3. pc'[t] \in {"apply", "reply", "flush", "root"}
      BY ZenonT(60), <1>4, <1>5 DEF AppendCheck, AppendDone, ResyncNote, ResyncRoot, BulkDone, Flush, Answer
    <2> QED
      BY Zenon, <2>1, <2>2, <2>3 DEF Rests, Logging
  <1>6. ASSUME NEW latch, NEW next, LatchError(t, latch, next), {latch, next} \cap Logging = {}
        PROVE  Rests(t)
    BY Zenon, <1>4, <1>6 DEF LatchError, Rests, memVars, runVars
  <1>7. /\ {"applyLatch", "apply"} \cap Logging = {} /\ {"seedLatch", "note"} \cap Logging = {}
        /\ {"storeLatch", "store"} \cap Logging = {}
    BY Zenon DEF Logging
  <1> QED
    BY Zenon, <1>2, <1>3, <1>5, <1>6, <1>7 DEF Step

-----------------------------------------------------------------------------
\* Frames that keep to the blocks own gives to their session.
OwnFrames(own) == {f \in WellFormed : Range(f.ids) \subseteq own[f.s]}

OwnNext(own) ==
  \/ \E t \in Thread : Step(t) \/ Respond(t)
  \/ \E t \in Thread, f \in OwnFrames(own) : Handle(t, f)
  \/ Readyz \/ Crash \/ Shutdown

LEMMA OwnIsAny ==
  ASSUME NEW own
  PROVE  [OwnNext(own)]_vars => [AnyNext]_vars
  BY Zenon DEF OwnNext, AnyNext, OwnFrames

LEMMA NextIsOwn == [Next]_vars => [OwnNext(Named)]_vars
  <1>1. Frames \subseteq OwnFrames(Named)
    <2> SUFFICES ASSUME NEW f \in Frames PROVE f \in WellFormed /\ Range(f.ids) \subseteq Named[f.s]
      BY Zenon DEF OwnFrames
    <2>1. f \in WellFormed /\ f.s \in Session
      BY Zenon, FramesAssumption DEF WellFormed, Frame
    <2>2. Named[f.s] = UNION {Range(g.ids) : g \in {h \in Frames : h.s = f.s}}
      BY Zenon, <2>1 DEF Named
    <2> QED
      BY Zenon, <2>1, <2>2
  <1> QED
    BY Zenon, <1>1 DEF Next, OwnNext

\* No thread but t works on the session whose lock t holds.
LEMMA LockedAlone ==
  ASSUME IInv, NEW t \in Thread, pc[t] \in Locked, NEW u \in Thread \ {t}, pc[u] \in Logging
  PROVE  req[u].s # req[t].s
  <1>1. Logging \subseteq Locked
    BY Zenon DEF Logging, Locked
  <1> QED
    BY Zenon, <1>1 DEF IInv, LocksExclusive

\* A block of s is not among the unlogged ones of other sessions.
LEMMA OthersUnlogged ==
  ASSUME IInv, NEW own, Apart(own), \A u \in Thread : OwnWork(u, own),
         NEW s \in Session, NEW id \in own[s],
         \A u \in Thread : pc[u] \in Logging => req[u].s # s
  PROVE  ~Unlogged(id)
  <1> SUFFICES ASSUME NEW u \in Thread, pc[u] \in Logging, due[u].variant \in {"INSERT", "CONTENT"},
                      due[u].ids[1] = id
               PROVE  FALSE
    BY Zenon DEF Unlogged
  <1>1. due[u] \in Record /\ due[u].s = req[u].s /\ req[u].s # s /\ due[u].s \in Session
    BY Zenon, RecordFields DEF OwnWork, IInv, TypeOK
  <1>2. 1 \in DOMAIN due[u].ids
    BY <1>1 DEF Record
  <1>3. id \in own[due[u].s]
    BY Zenon, <1>2 DEF OwnWork, Range
  <1> QED
    BY Zenon, <1>1, <1>3 DEF Apart

-----------------------------------------------------------------------------
(***************************************************************************)
(* The memory stays in step with the WAL.                                  *)
(***************************************************************************)
LEMMA MakeInStep ==
  ASSUME IInv, NEW own, Apart(own), WalInv(own), InStep, NEW t \in Thread, Step(t), Makes(t)
  PROVE  InStep'
  <1> PICK s \in Session : s = req[t].s
    BY Zenon DEF IInv, TypeOK, Frame
  <1> PICK rec \in Record : rec = due'[t]
    BY Zenon, StepType DEF IInv, TypeOK
  <1> PICK file \in Image : file = Last(disk)
    BY Zenon, LastType DEF IInv
  <1>1. /\ mem \in Image /\ mem' = replay(mem, rec) /\ rec.s = s /\ req' = req
        /\ file = Last(disk') /\ pc[t] \in Locked \ Logging /\ pc'[t] \in Logging
        /\ \A u \in Thread \ {t} : due'[u] = due[u] /\ pc'[u] = pc[u]
    BY Zenon, StepShape DEF Makes, IInv, TypeOK
  <1>2. \A u \in Thread : pc[u] \in Logging => req[u].s # s /\ u # t
    BY Zenon, <1>1, LockedAlone
  <1>3. mem.log[s] = file.log[s]
    BY Zenon, <1>2 DEF InStep
  <1>4. rec.variant = "REFERENCE" => (rec.ids[1] \in mem.blocks <=> rec.ids[1] \in file.blocks)
    <2> SUFFICES ASSUME rec.variant = "REFERENCE"
                 PROVE  rec.ids[1] \in mem.blocks <=> rec.ids[1] \in file.blocks
      BY Zenon
    <2>1. rec.ids[1] \in BlockId
      BY Zenon, RecordFields
    <2>2. rec.ids[1] \in own[s]
      <3>1. 1 \in DOMAIN rec.ids
        BY DEF Record
      <3>2. Range(rec.ids) \subseteq own[s]
        BY Zenon, <1>1 DEF Makes, WalInv, OwnWork
      <3> QED
        BY Zenon, <3>1, <3>2 DEF Range
    <2>3. ~Unlogged(rec.ids[1])
      BY SMTT(60), <1>2, <2>2, OthersUnlogged DEF WalInv
    <2> QED
      BY Zenon, <2>1, <2>3 DEF InStep
  <1>5. mem'.log[s] = replay(file, rec).log[s]
    BY <1>1, <1>3, <1>4, ReplaySame
  <1>6. \A r \in Session \ {s} : mem'.log[r] = mem.log[r]
    BY <1>1, ReplayEffect
  <1>7. \A id \in BlockId : id \in mem'.blocks <=> id \in file.blocks \/ Unlogged(id)'
    <2> TAKE id \in BlockId
    <2>1. id \in mem'.blocks <=> id \in mem.blocks \/ (rec.variant \in {"INSERT", "CONTENT"} /\ id = rec.ids[1])
      BY <1>1, ReplayEffect
    <2>2. Unlogged(id)' <=> Unlogged(id) \/ (rec.variant \in {"INSERT", "CONTENT"} /\ id = rec.ids[1])
      BY Zenon, <1>1, <1>2 DEF Unlogged
    <2>3. id \in mem.blocks <=> id \in file.blocks \/ Unlogged(id)
      BY Zenon DEF InStep
    <2> QED
      BY Zenon, <2>1, <2>2, <2>3
  <1>8. ASSUME NEW u \in Thread, pc'[u] \in Logging
        PROVE  mem'.log[req'[u].s] = replay(file, due'[u]).log[req'[u].s]
    <2>1. CASE u = t
      BY Zenon, <1>1, <1>5, <2>1
    <2>2. CASE u # t
      <3>1. pc[u] \in Logging /\ req'[u].s = req[u].s /\ due'[u] = due[u] /\ req[u].s \in Session \ {s}
        BY Zenon, <1>1, <1>2, <1>8, <2>2 DEF IInv, TypeOK, Frame
      <3> QED
        BY <1>6, <3>1 DEF InStep
    <2> QED
      BY Zenon, <2>1, <2>2
  <1>9. ASSUME NEW r \in Session, \A u \in Thread : pc'[u] \in Logging => req'[u].s # r
        PROVE  mem'.log[r] = file.log[r]
    <2>1. r # s /\ \A u \in Thread : pc[u] \in Logging => req[u].s # r
      BY Zenon, <1>1, <1>2, <1>9
    <2> QED
      BY Zenon, <1>6, <2>1 DEF InStep
  <1> QED
    BY <1>1, <1>7, <1>8, <1>9 DEF InStep

LEMMA WriteInStep ==
  ASSUME IInv, NEW own, Apart(own), WalInv(own), InStep, NEW t \in Thread, Step(t), Writes(t), ~torn'
  PROVE  InStep'
  <1> PICK s \in Session : s = req[t].s
    BY Zenon DEF IInv, TypeOK, Frame
  <1> PICK rec \in Record : rec = due[t]
    BY Zenon DEF IInv, TypeOK
  <1> PICK file \in Image : file = Last(disk)
    BY Zenon, LastType DEF IInv
  <1>1. PICK im \in Image : disk' = Append(disk, im) /\ im = replay(file, rec)
    BY Zenon DEF Writes
  <1>2. im = Last(disk')
    BY <1>1 DEF Last, IInv, TypeOK
  <1>3. /\ mem' = mem /\ due' = due /\ rec.s = s /\ req' = req
        /\ pc[t] \in Logging /\ pc'[t] \notin Logging
        /\ \A u \in Thread \ {t} : pc'[u] = pc[u]
    BY Zenon, StepShape DEF Writes, IInv, WalInv, OwnWork
  <1>4. \A u \in Thread \ {t} : pc[u] \in Logging => req[u].s # s
    BY Zenon, <1>3, LockedAlone DEF Logging, Locked
  <1>5. /\ \A r \in Session \ {s} : im.log[r] = file.log[r]
        /\ \A id \in BlockId : id \in im.blocks <=>
             id \in file.blocks \/ (rec.variant \in {"INSERT", "CONTENT"} /\ id = rec.ids[1])
    BY <1>1, <1>3, ReplayEffect
  <1>6. \A id \in BlockId : id \in mem'.blocks <=> id \in im.blocks \/ Unlogged(id)'
    <2> TAKE id \in BlockId
    <2>1. Unlogged(id) <=> Unlogged(id)' \/ (rec.variant \in {"INSERT", "CONTENT"} /\ id = rec.ids[1])
      BY Zenon, <1>3 DEF Unlogged
    <2>2. id \in mem.blocks <=> id \in file.blocks \/ Unlogged(id)
      BY Zenon DEF InStep
    <2> QED
      BY Zenon, <1>3, <1>5, <2>1, <2>2
  <1>7. ASSUME NEW u \in Thread, pc'[u] \in Logging
        PROVE  mem'.log[req'[u].s] = replay(im, due'[u]).log[req'[u].s]
    <2> PICK other \in Record : other = due[u]
      BY Zenon DEF IInv, TypeOK
    <2>1. u # t /\ pc[u] \in Logging /\ other.s = req[u].s /\ other.s \in Session \ {s}
          /\ Range(other.ids) \subseteq own[other.s] /\ Range(rec.ids) \subseteq own[s]
      BY Zenon, <1>3, <1>4, <1>7, RecordFields DEF WalInv, OwnWork
    <2>2. im.log[other.s] = file.log[other.s]
      BY Zenon, <1>5, <2>1
    <2>3. other.variant = "REFERENCE" => (other.ids[1] \in im.blocks <=> other.ids[1] \in file.blocks)
      <3> SUFFICES ASSUME other.variant = "REFERENCE", rec.variant \in {"INSERT", "CONTENT"}
                   PROVE  other.ids[1] # rec.ids[1]
        BY Zenon, <1>5, RecordFields
      <3>1. 1 \in DOMAIN other.ids /\ 1 \in DOMAIN rec.ids
        BY DEF Record
      <3>2. other.ids[1] \in own[other.s] /\ rec.ids[1] \in own[s]
        BY Zenon, <2>1, <3>1 DEF Range
      <3> QED
        BY Zenon, <2>1, <3>2 DEF Apart
    <2>4. replay(im, other).log[other.s] = replay(file, other).log[other.s]
      BY Zenon, <2>2, <2>3, ReplaySame
    <2>5. mem.log[req[u].s] = replay(file, due[u]).log[req[u].s]
      BY Zenon, <2>1 DEF InStep
    <2> QED
      BY Zenon, <1>3, <2>1, <2>4, <2>5
  <1>8. ASSUME NEW r \in Session, \A u \in Thread : pc'[u] \in Logging => req'[u].s # r
        PROVE  mem'.log[r] = im.log[r]
    <2>1. CASE r = s
      BY Zenon, <1>1, <1>3, <2>1 DEF InStep
    <2>2. CASE r # s
      <3>1. \A u \in Thread : pc[u] \in Logging => req[u].s # r
        BY Zenon, <1>3, <1>8, <2>2
      <3> QED
        BY Zenon, <1>3, <1>5, <2>2, <3>1 DEF InStep
    <2> QED
      BY Zenon, <2>1, <2>2
  <1> QED
    BY Zenon, <1>2, <1>6, <1>7, <1>8 DEF InStep

\* Everything else touches neither, nor a record that is owed.
LEMMA RestInStep ==
  ASSUME InStep, UNCHANGED <<mem, disk>>,
         \A u \in Thread : pc'[u] \in Logging <=> pc[u] \in Logging,
         \A u \in Thread : pc[u] \in Logging => req'[u] = req[u] /\ due'[u] = due[u]
  PROVE  InStep'
  <1>1. \A id : Unlogged(id)' <=> Unlogged(id)
    BY Zenon DEF Unlogged
  <1> QED
    BY <1>1 DEF InStep, Last

LEMMA WalStep ==
  ASSUME IInv, NEW own, Apart(own), WalInv(own), NEW t \in Thread, Step(t)
  PROVE  WalInv(own)'
  <1>0. /\ mem \in Image /\ disk \in Seq(Image) /\ Len(disk) > 0 /\ torn' \in BOOLEAN /\ torn \in BOOLEAN
        /\ req[t].s \in Session /\ due'[t] \in Record /\ due[t] \in Record
    BY Zenon, StepType DEF IInv, TypeOK, Frame
  <1>1. /\ req' = req /\ \A u \in Thread \ {t} : pc'[u] = pc[u]
        /\ pc'[t] \in Locked => pc[t] \in Locked
    BY Zenon, StepShape DEF IInv
  <1>2. CASE Makes(t)
    <2>1. Range(req[t].ids) \subseteq own[req[t].s]
      BY Zenon, <1>2 DEF Makes, WalInv, OwnWork
    <2>2. OwnWork(t, own)'
      BY Zenon, <1>1, <1>2, <2>1 DEF Makes, OwnWork
    <2>3. \A u \in Thread \ {t} : OwnWork(u, own)'
      BY <1>1, <1>2 DEF Makes, WalInv, OwnWork
    <2>4. KeepsTo(mem', own)
      BY Zenon, <1>0, <1>2, <2>1, ReplayKeeps DEF Makes, WalInv
    <2>5. torn' \/ InStep'
      BY Zenon, <1>2, MakeInStep DEF WalInv, Makes
    <2> QED
      BY Zenon, <1>2, <2>2, <2>3, <2>4, <2>5 DEF WalInv, Makes, KeepsTo, session_ids
  <1>3. CASE Writes(t)
    <2>1. \A u \in Thread : OwnWork(u, own)'
      <3>1. \A u \in Thread \ {t} : OwnWork(u, own)'
        BY Zenon, <1>1, <1>3 DEF Writes, WalInv, OwnWork
      <3>2. OwnWork(t, own)'
        BY Zenon, <1>1, <1>3 DEF Writes, WalInv, OwnWork, Logging
      <3> QED
        BY Zenon, <3>1, <3>2
    <2>2. PICK im \in Image : disk' = Append(disk, im) /\ im \in {Last(disk), replay(Last(disk), due[t])}
      BY Zenon, <1>3 DEF Writes
    <2>3. KeepsTo(im, own)
      <3>1. Last(disk) \in Image /\ KeepsTo(Last(disk), own)
        BY <1>0, LastType DEF Last, WalInv, IInv
      <3>2. due[t].s \in Session /\ Range(due[t].ids) \subseteq own[due[t].s]
        BY Zenon, <1>0, <1>3, RecordFields DEF Writes, WalInv, OwnWork
      <3> QED
        BY Zenon, <1>0, <2>2, <3>1, <3>2, ReplayKeeps
    <2>4. \A n \in 1..Len(disk') : KeepsTo(disk'[n], own)
      <3>1. /\ Len(disk') = Len(disk) + 1 /\ \A n \in 1..Len(disk) : disk'[n] = disk[n]
            /\ disk'[Len(disk) + 1] = im
        BY <1>0, <2>2
      <3> QED
        BY <1>0, <2>3, <3>1 DEF WalInv
    <2>5. torn' \/ InStep'
      <3>1. CASE ~torn'
        BY Zenon, <1>3, <3>1, WriteInStep DEF WalInv, Writes
      <3> QED
        BY Zenon, <3>1
    <2> QED
      BY Zenon, <1>3, <2>1, <2>4, <2>5 DEF WalInv, Writes, KeepsTo, session_ids
  <1>4. CASE Rests(t)
    <2>1. \A u \in Thread : OwnWork(u, own)'
      <3>1. \A u \in Thread \ {t} : OwnWork(u, own)'
        BY Zenon, <1>1, <1>4 DEF Rests, WalInv, OwnWork
      <3>2. OwnWork(t, own)'
        BY Zenon, <1>1, <1>4 DEF Rests, WalInv, OwnWork, Logging
      <3> QED
        BY Zenon, <3>1, <3>2
    <2>2. torn' \/ InStep'
      BY Zenon, <1>1, <1>4, RestInStep DEF WalInv, Rests
    <2> QED
      BY Zenon, <1>4, <2>1, <2>2 DEF WalInv, Rests, KeepsTo, session_ids
  <1> QED
    BY Zenon, <1>2, <1>3, <1>4, StepKind

\* A request that comes or goes owes nothing to the WAL at that moment.
LEMMA WalRest ==
  ASSUME NEW own, WalInv(own), UNCHANGED <<mem, disk, torn>>,
         \A u \in Thread : pc'[u] \in Logging <=> pc[u] \in Logging,
         \A u \in Thread : pc[u] \in Logging => req'[u] = req[u] /\ due'[u] = due[u] /\ pc'[u] = pc[u],
         \A u \in Thread : pc'[u] \in Locked => Range(req'[u].ids) \subseteq own[req'[u].s]
  PROVE  WalInv(own)'
  <1>1. \A u \in Thread : OwnWork(u, own)'
    <2> TAKE u \in Thread
    <2>1. CASE pc[u] \in Logging
      BY Zenon, <2>1 DEF WalInv, OwnWork
    <2>2. CASE pc[u] \notin Logging
      <3>1. pc'[u] \notin Logging
        BY Zenon, <2>2
      <3> QED
        BY Zenon, <3>1 DEF OwnWork, Logging
    <2> QED
      BY Zenon, <2>1, <2>2
  <1>2. torn' \/ InStep'
    BY Zenon, RestInStep DEF WalInv
  <1> QED
    BY Zenon, <1>1, <1>2 DEF WalInv, KeepsTo, session_ids

LEMMA WalRestart ==
  ASSUME IInv, NEW own, WalInv(own), NEW n \in Nat, n < Len(disk), RestartFrom(n)
  PROVE  WalInv(own)'
  <1>1. disk \in Seq(Image) /\ n + 1 \in 1..Len(disk)
    BY DEF IInv, TypeOK
  <1>2. /\ Len(disk') = n + 1 /\ \A m \in 1..(n + 1) : disk'[m] = disk[m]
        /\ mem' = disk[n + 1] /\ \A t \in Thread : pc'[t] = "idle"
    BY <1>1 DEF RestartFrom
  <1>3. Last(disk') = mem'
    BY <1>2 DEF Last
  <1>4. /\ KeepsTo(mem', own) /\ \A m \in 1..Len(disk') : KeepsTo(disk'[m], own)
    BY <1>1, <1>2 DEF WalInv
  <1>5. \A t \in Thread : OwnWork(t, own)'
    BY Zenon, <1>2 DEF OwnWork, Locked, Logging
  <1>6. InStep'
    BY Zenon, <1>2, <1>3 DEF InStep, Unlogged, Logging
  <1> QED
    BY Zenon, <1>4, <1>5, <1>6 DEF WalInv, KeepsTo, session_ids

LEMMA WalInvStep ==
  ASSUME IInv, NEW own, Apart(own), WalInv(own), [OwnNext(own)]_vars
  PROVE  WalInv(own)'
  <1>1. ASSUME NEW t \in Thread, Step(t) PROVE WalInv(own)'
    BY Zenon, <1>1, WalStep
  <1>2. ASSUME NEW t \in Thread, Respond(t) PROVE WalInv(own)'
    <2>1. /\ pc[t] = "reply" /\ pc'[t] = "idle" /\ UNCHANGED <<mem, disk, torn>>
          /\ \A u \in Thread \ {t} : pc'[u] = pc[u] /\ req'[u] = req[u] /\ due'[u] = due[u]
      BY Zenon, <1>2 DEF Respond, Goto, IInv, TypeOK, memVars, walVars
    <2>2. \A u \in Thread : pc'[u] \in Locked => Range(req'[u].ids) \subseteq own[req'[u].s]
      BY Zenon, <2>1 DEF Locked, WalInv, OwnWork
    <2>3. \A u \in Thread : pc'[u] \in Logging <=> pc[u] \in Logging
      BY Zenon, <2>1 DEF Logging
    <2>4. \A u \in Thread : pc[u] \in Logging => req'[u] = req[u] /\ due'[u] = due[u] /\ pc'[u] = pc[u]
      BY Zenon, <2>1 DEF Logging
    <2> QED
      BY Zenon, <2>1, <2>2, <2>3, <2>4, WalRest
  <1>3. ASSUME NEW t \in Thread, NEW f \in OwnFrames(own), Handle(t, f) PROVE WalInv(own)'
    <2>1. PICK label \in {"reply", "check", "seed", "store"} : Begin(t, f, label)
      BY Zenon, <1>3 DEF Handle, AppendBegin, ResyncBegin, BulkBegin
    <2>2. UNCHANGED <<mem, disk, torn, due>>
      BY Zenon, <1>3 DEF Handle, AppendBegin, ResyncBegin, BulkBegin, memVars, walVars
    <2>3. /\ pc[t] = "idle" /\ pc'[t] = label /\ req'[t] = f
          /\ \A u \in Thread \ {t} : pc'[u] = pc[u] /\ req'[u] = req[u]
      BY Zenon, <2>1 DEF Begin, Goto, IInv, TypeOK
    <2>4. \A u \in Thread : pc'[u] \in Locked => Range(req'[u].ids) \subseteq own[req'[u].s]
      BY Zenon, <2>3 DEF OwnFrames, WalInv, OwnWork
    <2>5. \A u \in Thread : pc'[u] \in Logging <=> pc[u] \in Logging
      BY Zenon, <2>3 DEF Logging
    <2>6. \A u \in Thread : pc[u] \in Logging => req'[u] = req[u] /\ due'[u] = due[u] /\ pc'[u] = pc[u]
      BY Zenon, <2>2, <2>3 DEF Logging
    <2> QED
      BY Zenon, <2>2, <2>4, <2>5, <2>6, WalRest
  <1>4. CASE Readyz \/ UNCHANGED vars
    <2>1. UNCHANGED <<mem, disk, torn, pc, req, due>>
      BY Zenon, <1>4 DEF Readyz, vars, memVars, runVars
    <2> QED
      BY Zenon, <2>1, WalRest DEF WalInv, OwnWork
  <1>5. CASE Crash \/ Shutdown
    BY Zenon, <1>5, RestartIdle, WalRestart
  <1> QED
    BY Zenon, <1>1, <1>2, <1>3, <1>4, <1>5 DEF OwnNext

LEMMA InitWal ==
  ASSUME Init, NEW own
  PROVE  WalInv(own)
  <1>1. /\ disk = <<EmptyStore>> /\ mem = EmptyStore /\ Len(disk) = 1 /\ disk[1] = EmptyStore
        /\ \A t \in Thread : pc[t] = "idle"
    BY Zenon DEF Init
  <1>2. Last(disk) = mem
    BY Zenon, <1>1 DEF Last
  <1>3. KeepsTo(EmptyStore, own)
    BY DEF KeepsTo, EmptyStore, NoSessionLog, session_ids, Range
  <1>4. \A t \in Thread : OwnWork(t, own)
    BY Zenon, <1>1 DEF OwnWork, Locked, Logging
  <1>5. InStep
    BY Zenon, <1>1, <1>2 DEF InStep, Unlogged, Logging
  <1> QED
    BY <1>1, <1>3, <1>4, <1>5 DEF WalInv

\* When sessions share no block, memory and WAL stay in step through handlers
\* that run at once, failed appends, probes, crashes and restarts.
THEOREM WalInvariance ==
  ASSUME Apart(Named)
  PROVE  Spec => [](IInv /\ WalInv(Named))
  <1>1. Init => IInv /\ WalInv(Named)
    BY Zenon, InitInv, InitWal
  <1>2. IInv /\ WalInv(Named) /\ [Next]_vars => (IInv /\ WalInv(Named))'
    BY Zenon, InvStep, NextIsAny, NextIsOwn, WalInvStep
  <1> QED
    BY <1>1, <1>2, PTL DEF Spec

\* Replaying the WAL rebuilds the store exactly whenever no append to it is
\* outstanding (wal.rs:24-28), if sessions share no block; receiver_wal_order
\* shows that they must not.
THEOREM WalReplaysToMemory ==
  ASSUME Apart(Named)
  PROVE  Spec => []ReplayFaithful
  <1>1. IInv /\ WalInv(Named) => ReplayFaithful
    <2> SUFFICES ASSUME IInv, InStep, \A t \in Thread : pc[t] \notin Logging
                 PROVE  Last(disk) = mem
      BY Zenon DEF ReplayFaithful, WalInv, Logging
    <2>1. mem \in Image /\ Last(disk) \in Image
      BY Zenon, LastType DEF IInv, TypeOK
    <2>2. mem.blocks = Last(disk).blocks
      BY Zenon, <2>1 DEF InStep, Unlogged, Image
    <2>3. mem.log = Last(disk).log
      BY <2>1 DEF InStep, Image
    <2> QED
      BY <2>1, <2>2, <2>3 DEF Image
  <1> QED
    BY <1>1, WalInvariance, PTL

-----------------------------------------------------------------------------
(***************************************************************************)
(* Acknowledgements are durable.  A WAL error is latched only after the    *)
(* writer lock is released: another request may append behind the torn     *)
(* record and be ACKed in between.  So where appends fail this is said of  *)
(* one request at a time.                                                  *)
(***************************************************************************)
FaultsAlone == MaxFaults = 0 \/ \A t, u \in Thread : t = u

\* The log of a session at rest is in the file, with the content it has.
LEMMA HoldsNow ==
  ASSUME IInv, NEW own, Apart(own), WalInv(own), ~torn, NEW s \in Session,
         \A u \in Thread : pc[u] \in Logging => req[u].s # s,
         Range(session_ids(mem, s)) \subseteq mem.blocks
  PROVE  \E n \in 1..Len(disk) : Holds(disk[n], s, session_root(mem, s))
  <1>1. /\ InStep /\ mem \in Image /\ mem.blocks \subseteq BlockId /\ Len(disk) \in 1..Len(disk)
        /\ session_root(mem, s) = session_ids(mem, s)
    BY DEF WalInv, IInv, TypeOK, Image, RootMatchesLog, Sound
  <1>2. session_root(Last(disk), s) = session_root(mem, s)
    BY Zenon, <1>1 DEF InStep, session_root
  <1>3. Range(session_ids(mem, s)) \subseteq Last(disk).blocks
    <2> SUFFICES ASSUME NEW id \in Range(session_ids(mem, s)) PROVE id \in Last(disk).blocks
      BY Zenon
    <2>1. id \in mem.blocks /\ id \in BlockId /\ id \in own[s]
      BY Zenon, <1>1 DEF WalInv, KeepsTo
    <2>2. ~Unlogged(id)
      BY Zenon, <2>1, OthersUnlogged DEF WalInv
    <2> QED
      BY Zenon, <1>1, <2>1, <2>2 DEF InStep
  <1> QED
    BY Zenon, <1>1, <1>2, <1>3 DEF Holds, Last

\* ... and so it is for a handler about to answer, unless an error is latched.
LEMMA HoldsLocked ==
  ASSUME IInv, NEW own, Apart(own), WalInv(own), DurableInv, FaultsAlone, NEW t \in Thread,
         pc[t] \in Locked \ (Logging \cup Latching), ~walError,
         Range(session_ids(mem, req[t].s)) \subseteq mem.blocks
  PROVE  \E n \in 1..Len(disk) : Holds(disk[n], req[t].s, session_root(mem, req[t].s))
  <1>1. ~torn
    BY Zenon DEF DurableInv, Latched, FaultsAlone
  <1>2. req[t].s \in Session
    BY Zenon DEF IInv, TypeOK, Frame
  <1>3. \A u \in Thread : pc[u] \in Logging => req[u].s # req[t].s
    BY Zenon, LockedAlone
  <1> QED
    BY Zenon, <1>1, <1>2, <1>3, HoldsNow

\* The file only grows at its end, and less of it is lost in a crash.
Grows ==
  /\ \A n \in 1..Len(disk) : n \in 1..Len(disk') /\ disk'[n] = disk[n]
  /\ Saved <= Saved'
  /\ walError => walError'

LEMMA AckKept ==
  ASSUME IInv, IInv', Grows, NEW u \in Thread, AckInv(u),
         pc'[u] = pc[u], req'[u] = req[u], reply'[u] = reply[u]
  PROVE  AckInv(u)'
  <1>1. Saved \in Nat /\ Saved' \in Nat /\ Saved + 1 <= Len(disk) /\ Len(disk) \in Nat
    BY DEF IInv, TypeOK, Saved
  <1>2. \A n \in 1..(Saved + 1) : n \in 1..(Saved' + 1) /\ disk'[n] = disk[n]
    BY <1>1 DEF Grows
  <1>3. Moved(u)' <=> Moved(u)
    BY Zenon DEF Moved
  <1> QED
    BY Zenon, <1>2, <1>3 DEF AckInv, Grows

LEMMA ExposedKept ==
  ASSUME IInv, IInv', Grows, DurableAck, exposed' = exposed
  PROVE  DurableAck'
  <1>1. Saved \in Nat /\ Saved' \in Nat /\ Saved + 1 <= Len(disk) /\ Len(disk) \in Nat
    BY DEF IInv, TypeOK, Saved
  <1>2. \A n \in 1..(Saved + 1) : n \in 1..(Saved' + 1) /\ disk'[n] = disk[n]
    BY <1>1 DEF Grows
  <1> QED
    BY Zenon, <1>2 DEF DurableAck

LEMMA StepGrows ==
  ASSUME IInv, NEW t \in Thread, Step(t)
  PROVE  Grows /\ exposed' = exposed
  <1>0. /\ disk \in Seq(Image) /\ Len(disk) \in Nat /\ flushed \in Nat /\ synced \in Nat
        /\ flushed <= Len(disk) - 1 /\ synced <= Len(disk) - 1 /\ Saved \in Nat
    BY DEF IInv, TypeOK, Saved
  <1>1. exposed' = exposed
    <2>1. CASE Flush(t)
      BY Zenon, <2>1 DEF Flush
    <2>2. CASE ~Flush(t)
      BY ZenonT(60), <2>2 DEF Step, AppendCheck, AppendApply, AppendLog, AppendDone, ResyncSeed,
           ResyncLog, ResyncNote, ResyncRoot, BulkStore, BulkLog, BulkDone, LatchError, histVars
    <2> QED
      BY Zenon, <2>1, <2>2
  <1>2. disk' = disk \/ \E im : disk' = Append(disk, im)
    BY Zenon, StepKind DEF Makes, Writes, Rests
  <1>3. \A n \in 1..Len(disk) : n \in 1..Len(disk') /\ disk'[n] = disk[n]
    BY SMTT(60), <1>0, <1>2
  <1>4. CASE Flush(t)
    <2>1. Saved <= Saved'
      BY <1>0, <1>4 DEF Flush, Saved, Records
    <2>2. walError => walError'
      BY Zenon, <1>4 DEF Flush
    <2> QED
      BY Zenon, <1>1, <1>3, <2>1, <2>2 DEF Grows
  <1>5. CASE ~Flush(t)
    <2>1. UNCHANGED <<flushed, synced>>
      BY ZenonT(60), <1>5 DEF Step, AppendCheck, AppendApply, AppendLog, AppendDone, ResyncSeed,
           ResyncLog, ResyncNote, ResyncRoot, BulkStore, BulkLog, BulkDone, LatchError, walVars
    <2>2. walError => walError'
      BY ZenonT(60), <1>5 DEF Step, AppendCheck, AppendApply, AppendLog, AppendDone, ResyncSeed,
           ResyncLog, ResyncNote, ResyncRoot, BulkStore, BulkLog, BulkDone, LatchError, walVars
    <2> QED
      BY SMTT(60), <1>0, <1>1, <1>3, <2>1, <2>2 DEF Grows, Saved
  <1> QED
    BY Zenon, <1>4, <1>5

LEMMA AckDurable ==
  ASSUME IInv, IInv', NEW own, Apart(own), WalInv(own), DurableInv, FaultsAlone,
         NEW t \in Thread, Step(t)
  PROVE  AckInv(t)'
  <1>1. /\ req[t].s \in Session /\ pc \in [Thread -> PC] /\ reply \in [Thread -> Reply]
        /\ req' = req /\ disk \in Seq(Image) /\ Len(disk) \in Nat /\ flushed \in Nat /\ synced \in Nat
        /\ ThreadInv(t) /\ AckInv(t)
    BY SMTT(60), StepShape DEF IInv, TypeOK, Frame, DurableInv
  <1>2. \A label : Goto(t, label) => pc'[t] = label
    BY Zenon, <1>1 DEF Goto
  <1>3. \A label, r : Answer(t, label, r) => pc'[t] = label /\ reply'[t] = r
    BY Zenon, <1>1, <1>2 DEF Answer
  <1>4. /\ \A root : Ack(root).kind = "Ack" /\ Ack(root).root = root
        /\ Failed.kind # "Ack" /\ Conflict.kind # "Ack" /\ \A ids : Missing(ids).kind # "Ack"
    BY Zenon DEF Ack, Failed, Conflict, Missing
  <1>5. ASSUME pc'[t] \notin {"root", "flush", "reply"} \/ (reply'[t].kind # "Ack" /\ pc'[t] # "root")
        PROVE  AckInv(t)'
    BY Zenon, <1>5 DEF AckInv
  <1>6. ASSUME disk' = disk, walError' = walError, pc[t] \in Locked \ (Logging \cup Latching),
               session_root(mem, req[t].s) = session_ids(mem, req[t].s),
               Range(session_ids(mem, req[t].s)) \subseteq mem.blocks,
               \/ pc'[t] = "flush" /\ reply'[t].root = session_root(mem, req[t].s)
               \/ pc'[t] = "root" /\ req[t].base = session_root(mem, req[t].s)
        PROVE  AckInv(t)'
    <2>1. walError \/ \E n \in 1..Len(disk) : Holds(disk[n], req[t].s, session_root(mem, req[t].s))
      BY Zenon, <1>6, HoldsLocked
    <2> QED
      BY Zenon, <1>1, <1>6, <2>1 DEF AckInv
  <1>7. CASE AppendCheck(t) \/ AppendDone(t) \/ BulkDone(t)
    <2>1. pc'[t] \in {"apply", "flush"} \/ (pc'[t] = "reply" /\ reply'[t].kind # "Ack")
      <3>1. ASSUME NEW r, Answer(t, "flush", r) PROVE pc'[t] = "flush"
        BY Zenon, <1>3, <3>1
      <3>2. Answer(t, "reply", Conflict) => pc'[t] = "reply" /\ reply'[t].kind # "Ack"
        BY Zenon, <1>3, <1>4
      <3>3. Goto(t, "apply") => pc'[t] = "apply"
        BY Zenon, <1>2
      <3>4. CASE AppendCheck(t)
        BY ZenonT(60), <3>1, <3>2, <3>3, <3>4 DEF AppendCheck
      <3>5. CASE AppendDone(t) \/ BulkDone(t)
        BY ZenonT(60), <3>1, <3>5 DEF AppendDone, BulkDone
      <3> QED
        BY Zenon, <1>7, <3>4, <3>5
    <2>2. CASE pc'[t] = "flush" /\ reply'[t].kind = "Ack"
      BY Zenon, <1>6, <1>7, <2>2, AckNames DEF Locked, Logging, Latching
    <2> QED
      BY Zenon, <1>5, <2>1, <2>2
  <1>8. CASE ResyncNote(t)
    <2>1. pc[t] = "note" /\ disk' = disk /\ walError' = walError
      BY Zenon, <1>8 DEF ResyncNote, walVars
    <2>2. CASE miss[t] = {}
      <3>1. /\ Range(session_ids(mem, req[t].s)) \subseteq mem.blocks
            /\ req[t].base = session_ids(mem, req[t].s)
        BY Zenon, <1>1, <2>1, <2>2 DEF ThreadInv
      <3>2. session_root(mem, req[t].s) = session_ids(mem, req[t].s)
        BY Zenon, <1>1 DEF IInv, RootMatchesLog, Sound
      <3>3. pc'[t] = "root"
        BY Zenon, <1>2, <1>8, <2>2 DEF ResyncNote
      <3> QED
        BY Zenon, <1>6, <2>1, <3>1, <3>2, <3>3 DEF Locked, Logging, Latching
    <2>3. CASE miss[t] # {}
      BY Zenon, <1>3, <1>4, <1>5, <1>8, <2>3 DEF ResyncNote
    <2> QED
      BY Zenon, <2>2, <2>3
  <1>9. CASE ResyncRoot(t)
    <2>1. pc[t] = "root" /\ pc'[t] = "flush" /\ UNCHANGED <<disk, walError>> /\ req[t].kind = "Resync"
      BY Zenon, <1>1, <1>3, <1>9 DEF ResyncRoot, walVars, ThreadInv
    <2>2. ASSUME ~Moved(t)' PROVE reply'[t].root = req[t].base
      BY Zenon, <1>1, <2>1, <2>2 DEF Moved
    <2> QED
      BY Zenon, <1>1, <2>1, <2>2 DEF AckInv
  <1>10. CASE Flush(t)
    <2>1. pc[t] = "flush" /\ pc'[t] = "reply" /\ disk' = disk
      BY Zenon, <1>2, <1>3, <1>10 DEF Flush
    <2>2. CASE reply'[t].kind = "Ack"
      <3>1. ~walError /\ flushed' = Records /\ (SyncWal => synced' = Records) /\ reply' = reply
        BY Zenon, <1>3, <1>4, <1>10, <2>2 DEF Flush
      <3>2. Saved' + 1 = Len(disk)
        BY <1>1, <3>1 DEF Saved, Records
      <3>3. Moved(t)' <=> Moved(t)
        BY Zenon, <1>1, <3>1 DEF Moved
      <3> QED
        BY Zenon, <1>1, <2>1, <3>1, <3>2, <3>3 DEF AckInv
    <2> QED
      BY Zenon, <1>5, <2>1, <2>2
  <1>11. CASE AppendApply(t) \/ ResyncSeed(t) \/ BulkStore(t)
    <2>1. pc'[t] \in {"applyLog", "seedLog", "storeLog", "store"}
      BY Zenon, <1>2, <1>11 DEF AppendApply, ResyncSeed, BulkStore
    <2> QED
      BY Zenon, <1>5, <2>1
  <1>12. CASE AppendLog(t) \/ ResyncLog(t) \/ BulkLog(t)
    <2>1. pc'[t] \in {"apply", "note", "store"} \cup Latching
      BY Zenon, <1>2, <1>12 DEF AppendLog, ResyncLog, BulkLog, WriteRecord, Latching
    <2> QED
      BY Zenon, <1>5, <2>1 DEF Latching
  <1>13. ASSUME NEW latch, NEW next \in {"apply", "note", "store"}, LatchError(t, latch, next)
         PROVE  AckInv(t)'
    BY Zenon, <1>2, <1>5, <1>13 DEF LatchError
  <1> QED
    BY Zenon, <1>7, <1>8, <1>9, <1>10, <1>11, <1>12, <1>13 DEF Step

LEMMA LatchStep ==
  ASSUME IInv, Latched, NEW t \in Thread, Step(t)
  PROVE  Latched'
  <1>1. /\ pc \in [Thread -> PC] /\ faults \in Nat /\ \A u \in Thread \ {t} : pc'[u] = pc[u]
    BY Zenon, StepShape DEF IInv, TypeOK
  <1>2. \A label : Goto(t, label) => pc'[t] = label
    BY Zenon, <1>1 DEF Goto
  <1>3. ASSUME torn' = torn, pc[t] \notin Latching PROVE Latched'
    BY Zenon, <1>1, <1>3, StepGrows DEF Latched, Grows
  <1>4. ASSUME NEW next, NEW latch \in Latching, WriteRecord(t, next, latch), pc[t] \in Logging
        PROVE  Latched'
    <2>1. CASE torn' = torn
      BY Zenon, <1>3, <1>4, <2>1 DEF Logging, Latching
    <2>2. CASE torn' # torn
      <3>1. faults < MaxFaults /\ pc'[t] \in Latching
        BY Zenon, <1>2, <1>4, <2>2 DEF WriteRecord
      <3> QED
        BY <1>1, <3>1 DEF Latched
    <2> QED
      BY Zenon, <2>1, <2>2
  <1>5. CASE AppendLog(t) \/ ResyncLog(t) \/ BulkLog(t)
    BY Zenon, <1>4, <1>5 DEF AppendLog, ResyncLog, BulkLog, Logging, Latching
  <1>6. ASSUME NEW latch, NEW next, LatchError(t, latch, next)
        PROVE  Latched'
    BY Zenon, <1>6 DEF LatchError, Latched
  <1>7. CASE AppendApply(t) \/ ResyncSeed(t) \/ BulkStore(t)
    BY Zenon, <1>3, <1>7, MakesOrRests DEF Makes, Rests, AppendApply, ResyncSeed, BulkStore, Latching
  <1>8. CASE AppendCheck(t) \/ AppendDone(t) \/ ResyncNote(t) \/ ResyncRoot(t) \/ BulkDone(t) \/ Flush(t)
    <2>1. pc[t] \in {"check", "apply", "note", "root", "store", "flush"}
      BY Zenon, <1>8 DEF AppendCheck, AppendDone, ResyncNote, ResyncRoot, BulkDone, Flush
    <2>2. torn' = torn
      BY ZenonT(60), <1>8 DEF AppendCheck, AppendDone, ResyncNote, ResyncRoot, BulkDone, Flush, walVars
    <2> QED
      BY Zenon, <1>3, <2>1, <2>2 DEF Latching
  <1> QED
    BY Zenon, <1>5, <1>6, <1>7, <1>8 DEF Step

LEMMA RestartGrows ==
  ASSUME IInv, Crash \/ Shutdown
  PROVE  /\ ~torn' /\ exposed' = exposed /\ Saved <= Saved' /\ Saved \in Nat
         /\ \A m \in 1..(Saved + 1) : m \in 1..(Saved' + 1) /\ disk'[m] = disk[m]
  <1>0. /\ disk \in Seq(Image) /\ Len(disk) \in Nat /\ flushed \in Nat /\ synced \in Nat
        /\ flushed <= Len(disk) - 1 /\ synced <= Len(disk) - 1 /\ Saved \in Nat
    BY DEF IInv, TypeOK, Saved
  <1>1. PICK n \in Saved..Records : RestartFrom(n) /\ synced <= synced' /\ synced' \in Nat
    <2>1. CASE Crash
      BY <1>0, <2>1 DEF Crash
    <2>2. CASE Shutdown
      <3>1. Records \in Saved..Records /\ Records \in Nat /\ synced <= Records
        BY <1>0 DEF Saved, Records
      <3> QED
        BY Zenon, <2>2, <3>1 DEF Shutdown
    <2> QED
      BY Zenon, <2>1, <2>2
  <1>2. n \in Nat /\ n + 1 <= Len(disk) /\ Saved <= n
    BY SMTT(60), <1>0, <1>1 DEF Records
  <1>3. \A m \in 1..(n + 1) : disk'[m] = disk[m]
    BY SMTT(60), <1>0, <1>1, <1>2 DEF RestartFrom
  <1>4. flushed' = n /\ exposed' = exposed
    BY Zenon, <1>1 DEF RestartFrom
  <1>5. ~torn'
    BY Zenon, <1>1 DEF RestartFrom
  <1>6. Saved <= Saved' /\ Saved' \in Nat
    BY Zenon, <1>0, <1>1, <1>2, <1>4 DEF Saved, Records
  <1> QED
    <2>1. \A i, j \in Nat : i <= j => \A m \in 1..(i + 1) : m \in 1..(j + 1)
      OBVIOUS
    <2>2. \A m \in 1..(Saved + 1) : m \in 1..(Saved' + 1) /\ m \in 1..(n + 1)
      BY Zenon, <1>0, <1>2, <1>6, <2>1
    <2> QED
      BY Zenon, <1>0, <1>3, <1>4, <1>5, <1>6, <2>2

LEMMA DurableStep ==
  ASSUME IInv, NEW own, Apart(own), WalInv(own), DurableInv, FaultsAlone, [OwnNext(own)]_vars
  PROVE  DurableInv'
  <1>0. IInv' /\ Latched /\ DurableAck /\ \A u \in Thread : AckInv(u)
    BY Zenon, InvStep, OwnIsAny DEF DurableInv
  <1>1. ASSUME NEW t \in Thread, Step(t) PROVE DurableInv'
    <2>1. Grows /\ exposed' = exposed
      BY Zenon, <1>1, StepGrows
    <2>2. \A u \in Thread \ {t} : AckInv(u)'
      <3>1. req' = req /\ \A u \in Thread \ {t} : pc'[u] = pc[u] /\ reply'[u] = reply[u]
        BY Zenon, <1>1, StepShape DEF IInv
      <3> QED
        BY Zenon, <1>0, <2>1, <3>1, AckKept
    <2>3. AckInv(t)'
      BY Zenon, <1>0, <1>1, AckDurable
    <2> QED
      BY Zenon, <1>0, <1>1, <2>1, <2>2, <2>3, ExposedKept, LatchStep DEF DurableInv
  <1>2. ASSUME UNCHANGED <<disk, flushed, synced, torn, walError>> PROVE Grows
    <2>1. Saved \in Nat /\ Saved' = Saved /\ Len(disk) \in Nat
      BY <1>2 DEF Saved, IInv, TypeOK
    <2> QED
      BY SMTT(60), <1>2, <2>1 DEF Grows
  <1>3. ASSUME NEW t \in Thread, Respond(t) PROVE DurableInv'
    <2>1. /\ pc[t] = "reply" /\ pc'[t] = "idle" /\ UNCHANGED <<disk, flushed, synced, torn, walError>>
          /\ \A u \in Thread \ {t} : pc'[u] = pc[u] /\ req'[u] = req[u] /\ reply'[u] = reply[u]
      BY Zenon, <1>3 DEF Respond, Goto, IInv, TypeOK, walVars
    <2>2. \A u \in Thread : AckInv(u)'
      <3>1. AckInv(t)'
        BY Zenon, <2>1 DEF AckInv
      <3> QED
        BY Zenon, <1>0, <1>2, <2>1, <3>1, AckKept
    <2>3. Latched'
      BY Zenon, <1>0, <2>1 DEF Latched, Latching
    <2>4. DurableAck'
      <3>1. Saved' = Saved
        BY Zenon, <2>1 DEF Saved
      <3>2. PICK a : a = [s |-> req[t].s, root |-> reply[t].root, moved |-> Moved(t)]
        BY Zenon
      <3>3. a.s = req[t].s /\ a.root = reply[t].root /\ (a.moved <=> Moved(t))
        BY Zenon, <3>2
      <3>4. exposed' = (IF reply[t].kind = "Ack" THEN exposed \cup {a} ELSE exposed)
        BY Zenon, <1>3, <3>2 DEF Respond
      <3>5. reply[t].kind = "Ack" => a.moved \/ \E n \in 1..(Saved + 1) : Holds(disk[n], a.s, a.root)
        BY Zenon, <1>0, <2>1, <3>3 DEF AckInv
      <3> QED
        BY Zenon, <1>0, <2>1, <3>1, <3>4, <3>5 DEF DurableAck
    <2> QED
      BY Zenon, <2>2, <2>3, <2>4 DEF DurableInv
  <1>4. ASSUME NEW t \in Thread, NEW f \in OwnFrames(own), Handle(t, f) PROVE DurableInv'
    <2>1. PICK label \in {"reply", "check", "seed", "store"} :
            Begin(t, f, label) /\ (label = "reply" => reply'[t] = Conflict)
      BY Zenon, <1>4 DEF Handle, AppendBegin, ResyncBegin, BulkBegin, IInv, TypeOK
    <2>2. /\ UNCHANGED <<disk, flushed, synced, torn, walError, exposed>>
          /\ \A u \in Thread \ {t} : reply'[u] = reply[u]
      BY Zenon, <1>4 DEF Handle, AppendBegin, ResyncBegin, BulkBegin, walVars, histVars, IInv, TypeOK
    <2>3. /\ pc[t] = "idle" /\ pc'[t] = label
          /\ \A u \in Thread \ {t} : pc'[u] = pc[u] /\ req'[u] = req[u]
      BY Zenon, <2>1 DEF Begin, Goto, IInv, TypeOK
    <2>4. \A u \in Thread : AckInv(u)'
      <3>1. AckInv(t)'
        BY <2>1, <2>3 DEF AckInv, Conflict
      <3> QED
        BY Zenon, <1>0, <1>2, <2>2, <2>3, <3>1, AckKept
    <2>5. Latched'
      BY Zenon, <1>0, <2>2, <2>3 DEF Latched, Latching
    <2> QED
      BY Zenon, <1>0, <1>2, <2>2, <2>4, <2>5, ExposedKept DEF DurableInv
  <1>5. CASE Readyz \/ UNCHANGED vars
    <2>1. /\ UNCHANGED <<disk, synced, torn, walError, pc, req, reply, exposed>>
          /\ flushed' = flushed \/ flushed' = Records
      BY Zenon, <1>5 DEF Readyz, vars, runVars, histVars
    <2>2. Grows
      <3>1. Saved <= Saved' /\ Len(disk) \in Nat
        BY <2>1 DEF Saved, Records, IInv, TypeOK
      <3> QED
        BY Zenon, <2>1, <3>1 DEF Grows
    <2> QED
      BY Zenon, <1>0, <2>1, <2>2, AckKept, ExposedKept DEF DurableInv, Latched
  <1>6. CASE Crash \/ Shutdown
    <2>1. /\ \A u \in Thread : AckInv(u)'
      BY Zenon, <1>6, RestartIdle DEF AckInv
    <2> QED
      BY Zenon, <1>0, <1>6, <2>1, RestartGrows DEF DurableInv, DurableAck, Latched
  <1> QED
    BY Zenon, <1>1, <1>3, <1>4, <1>5, <1>6 DEF OwnNext

(***************************************************************************)
(* An ACK that left the sidecar is in the records that every crash leaves  *)
(* (sidecar/src/lib.rs:641-642), through handlers that run at once, failed *)
(* appends and restarts, if sessions share no block.                       *)
(***************************************************************************)
THEOREM AcksAreDurable ==
  ASSUME Apart(Named), FaultsAlone
  PROVE  Spec => []DurableAck
  <1>1. Init => DurableInv
    BY Zenon DEF Init, DurableInv, Latched, AckInv, DurableAck
  <1>2. IInv /\ WalInv(Named) /\ DurableInv /\ [Next]_vars => DurableInv'
    BY Zenon, NextIsOwn, DurableStep
  <1>3. DurableInv => DurableAck
    BY Zenon DEF DurableInv
  <1> QED
    BY <1>1, <1>2, <1>3, WalInvariance, PTL DEF Spec
=============================================================================
