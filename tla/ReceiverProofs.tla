---------------------------- MODULE ReceiverProofs --------------------------
(***************************************************************************)
(* The receiver, for any sets of sessions, blocks, threads and frames and  *)
(* any bounds.  What each handler relies on between its steps survives its *)
(* own steps and everybody else's; so content the receiver lacks is always *)
(* waited for and never ACKed by APPEND or BULK, and an APPEND is ACKed    *)
(* with the root of exactly its own blocks on its base.                    *)
(***************************************************************************)
EXTENDS Receiver, StoreProofs

\* Frames whoever sends them: a RESYNC carries the root of its manifest.
WellFormed == {f \in Frame : f.kind = "Resync" => f.base = f.ids}

\* The receiver under any well-formed frames.  A client that computes its
\* frames as it goes, like the ones of ChatClient and Sidecar, takes these steps.
AnyNext ==
  \/ \E t \in Thread : Step(t) \/ Respond(t)
  \/ \E t \in Thread, f \in WellFormed : Handle(t, f)
  \/ Readyz \/ Crash \/ Shutdown

LEMMA NextIsAny == [Next]_vars => [AnyNext]_vars
  BY Zenon, FramesAssumption DEF Next, AnyNext, WellFormed

LEMMA RecoveredType ==
  ASSUME NEW im \in Image
  PROVE  Recovered(im) \in [Session -> SessionState]
  <1>1. \A s \in Session : session_ids(im, s) \in Seq(BlockId)
    <2>1. \A s \in Session : im.log[s] \in SessionLog
      BY Zenon DEF Image
    <2> QED
      BY Zenon, <2>1, SessionLogFields DEF session_ids
  <1>2. \A s \in Session : Range(session_ids(im, s)) \subseteq BlockId
    BY <1>1 DEF Range
  <1> DEFINE Waiting(s) == Range(session_ids(im, s)) \ im.blocks
             Entered(s) == [live |-> TRUE, pending |-> Waiting(s),
                            acked |-> Waiting(s) = {}]
  <1>3. \A s \in Session : Waiting(s) \in SUBSET BlockId
    BY Zenon, <1>2
  <1>4. \A s \in Session : Entered(s) \in SessionState
    <2> HIDE DEF Waiting
    <2> QED
      BY Zenon, <1>3 DEF SessionState
  <1>5. NoSession \in SessionState
    BY Zenon DEF NoSession, SessionState
  <1>6. Recovered(im) = [s \in Session |-> IF im.log[s].live THEN Entered(s) ELSE NoSession]
    BY Zenon DEF Recovered
  <1> HIDE DEF Entered
  <1> QED
    BY Zenon, <1>4, <1>5, <1>6

LEMMA IdleType ==
  NoFrame \in Frame /\ NoRecord \in Record /\ NoContent \in Reply
  <1>1. <<>> \in Seq(BlockId)
    OBVIOUS
  <1>2. (CHOOSE s \in Session : TRUE) \in Session
    BY Zenon, FramesAssumption
  <1>3. NoFrame \in Frame
    BY Zenon, <1>1, <1>2 DEF NoFrame, Frame, ROOT_ZERO, Root
  <1>4. NoRecord \in Record
    BY ZenonT(60), <1>1, <1>2, SeedRecordType DEF NoRecord, NoFrame, ROOT_ZERO, Root
  <1>5. NoContent \in Reply
    BY Zenon, <1>1 DEF NoContent, Reply, ROOT_ZERO, Root
  <1> QED
    BY Zenon, <1>3, <1>4, <1>5

LEMMA ReplyType ==
  /\ \A root \in Root : Ack(root) \in Reply
  /\ \A ids \in SUBSET BlockId : Missing(ids) \in Reply
  /\ Conflict \in Reply
  /\ Failed \in Reply
  <1>1. ROOT_ZERO \in Root
    BY DEF ROOT_ZERO, Root
  <1> QED
    BY Zenon, <1>1 DEF Ack, Missing, Conflict, Failed, Reply

LEMMA EntryType ==
  ASSUME sess \in [Session -> SessionState], NEW s \in Session
  PROVE  Entry(s) \in SessionState
  <1>1. NewSession \in SessionState
    BY Zenon DEF NewSession, SessionState
  <1> QED
    BY Zenon, <1>1 DEF Entry

LEMMA LastType ==
  ASSUME TypeOK
  PROVE  Last(disk) \in Image
  <1>1. disk \in Seq(Image) /\ Len(disk) > 0
    BY Zenon DEF TypeOK
  <1>2. Len(disk) \in 1..Len(disk)
    BY <1>1
  <1> QED
    BY <1>1, <1>2 DEF Last

\* What a WAL append assigns.
LEMMA WriteType ==
  ASSUME TypeOK, NEW t \in Thread, NEW next \in PC, NEW latch \in PC,
         WriteRecord(t, next, latch)
  PROVE  /\ disk' \in Seq(Image) /\ Len(disk') = Len(disk) + 1
         /\ torn' \in BOOLEAN /\ faults' \in Nat /\ pc' \in [Thread -> PC]
  <1>1. Last(disk) \in Image
    BY Zenon, LastType
  <1>2. replay(Last(disk), due[t]) \in Image
    BY Zenon, <1>1, ReplayType DEF TypeOK
  <1>3. \A im \in Image : Append(disk, im) \in Seq(Image) /\ Len(Append(disk, im)) = Len(disk) + 1
    BY DEF TypeOK
  <1>4. Appended(due[t]) \subseteq Image
    BY Zenon, <1>1, <1>2 DEF Appended
  <1>5. disk' \in Seq(Image) /\ Len(disk') = Len(disk) + 1
    BY Zenon, <1>1, <1>3, <1>4 DEF WriteRecord
  <1>6. torn' \in BOOLEAN
    BY Zenon DEF WriteRecord, TypeOK
  <1>7. faults' \in Nat
    BY DEF WriteRecord, TypeOK
  <1>8. pc' \in [Thread -> PC]
    BY ZenonT(60) DEF WriteRecord, Goto, TypeOK
  <1> QED
    BY <1>5, <1>6, <1>7, <1>8, Zenon

(***************************************************************************)
(* Type correctness.                                                       *)
(***************************************************************************)
LEMMA InitType == Init => TypeOK
  <1> SUFFICES ASSUME Init PROVE TypeOK
    BY Zenon
  <1>1. mem \in Image /\ sess \in [Session -> SessionState]
    BY Zenon, EmptyStoreType, RecoveredType DEF Init
  <1>2. disk \in Seq(Image) /\ Len(disk) = 1
    BY EmptyStoreType DEF Init
  <1>3. /\ req \in [Thread -> Frame] /\ due \in [Thread -> Record]
        /\ reply \in [Thread -> Reply]
    BY Zenon, IdleType DEF Init
  <1>4. pc \in [Thread -> PC] /\ done \in [Thread -> Nat] /\ miss \in [Thread -> SUBSET BlockId]
    BY Zenon DEF Init, PC
  <1>5. torn \in BOOLEAN /\ walError \in BOOLEAN
    BY Zenon DEF Init
  <1>6. /\ synced \in Nat /\ flushed \in Nat /\ synced <= flushed /\ flushed < Len(disk)
        /\ faults \in Nat /\ crashes \in Nat /\ Len(disk) > 0
    BY <1>2 DEF Init
  <1>7. exposed \subseteq [s: Session, root: Root, moved: BOOLEAN]
    BY Zenon DEF Init
  <1> QED
    BY <1>1, <1>2, <1>3, <1>4, <1>5, <1>6, <1>7, Zenon DEF TypeOK

LEMMA HandleType ==
  ASSUME TypeOK, NEW t \in Thread, NEW f \in WellFormed, Handle(t, f)
  PROVE  TypeOK'
  <1>1. f \in Frame /\ f.s \in Session
    BY Zenon DEF WellFormed, Frame
  <1>2. \A label \in PC : Begin(t, f, label) =>
          /\ pc' \in [Thread -> PC] /\ req' \in [Thread -> Frame]
          /\ done' \in [Thread -> Nat]
    BY <1>1 DEF Begin, Goto, TypeOK
  <1>3. CASE AppendBegin(t, f)
    <2>1. pc' \in [Thread -> PC] /\ req' \in [Thread -> Frame] /\ done' \in [Thread -> Nat]
      BY Zenon, <1>2, <1>3 DEF AppendBegin, PC, Locked
    <2>2. reply' \in [Thread -> Reply]
      BY ZenonT(60), <1>3, ReplyType DEF AppendBegin, TypeOK
    <2> QED
      BY Zenon, <1>3, <2>1, <2>2 DEF AppendBegin, TypeOK, memVars, walVars, histVars
  <1>4. CASE ResyncBegin(t, f)
    <2>1. pc' \in [Thread -> PC] /\ req' \in [Thread -> Frame] /\ done' \in [Thread -> Nat]
      BY Zenon, <1>2, <1>4 DEF ResyncBegin, PC, Locked
    <2>2. Range(f.ids) \subseteq BlockId
      BY <1>1 DEF Frame, Range
    <2>3. miss' \in [Thread -> SUBSET BlockId]
      BY Zenon, <1>4, <2>2 DEF ResyncBegin, TypeOK
    <2> QED
      BY Zenon, <1>4, <2>1, <2>3 DEF ResyncBegin, TypeOK, memVars, walVars, histVars
  <1>5. CASE BulkBegin(t, f)
    <2>1. pc' \in [Thread -> PC] /\ req' \in [Thread -> Frame] /\ done' \in [Thread -> Nat]
      BY Zenon, <1>2, <1>5 DEF BulkBegin, PC, Locked
    <2>2. sess' \in [Session -> SessionState]
      BY Zenon, <1>1, <1>5, EntryType DEF BulkBegin, TypeOK
    <2> QED
      BY Zenon, <1>5, <2>1, <2>2 DEF BulkBegin, TypeOK, walVars, histVars
  <1> QED
    BY Zenon, <1>3, <1>4, <1>5 DEF Handle

\* A restart keeps a prefix of the file and resets everything else.
LEMMA RestartType ==
  ASSUME TypeOK, NEW n \in Nat, n < Len(disk), RestartFrom(n),
         synced' \in Nat, synced' <= n
  PROVE  TypeOK'
  <1>1. disk \in Seq(Image) /\ n + 1 \in 1..Len(disk)
    BY DEF TypeOK
  <1>2. disk[n + 1] \in Image
    BY <1>1
  <1>3. mem' \in Image /\ sess' \in [Session -> SessionState]
    BY Zenon, <1>2, RecoveredType DEF RestartFrom
  <1>4. disk' \in Seq(Image) /\ Len(disk') = n + 1
    BY <1>1 DEF RestartFrom
  <1>5. /\ req' \in [Thread -> Frame] /\ due' \in [Thread -> Record]
        /\ reply' \in [Thread -> Reply]
    BY Zenon, IdleType DEF RestartFrom
  <1>6. pc' \in [Thread -> PC] /\ done' \in [Thread -> Nat] /\ miss' \in [Thread -> SUBSET BlockId]
    BY Zenon DEF RestartFrom, PC
  <1>7. torn' \in BOOLEAN /\ walError' \in BOOLEAN
    BY Zenon DEF RestartFrom
  <1>8. /\ synced' \in Nat /\ flushed' \in Nat
        /\ synced' <= flushed' /\ flushed' < Len(disk') /\ Len(disk') > 0
        /\ faults' \in Nat /\ crashes' \in Nat
    BY <1>4 DEF RestartFrom, TypeOK
  <1>9. exposed' \subseteq [s: Session, root: Root, moved: BOOLEAN]
    BY Zenon DEF RestartFrom, TypeOK
  <1> QED
    BY <1>3, <1>4, <1>5, <1>6, <1>7, <1>8, <1>9, Zenon DEF TypeOK

LEMMA StepType ==
  ASSUME TypeOK, NEW t \in Thread, Step(t)
  PROVE  TypeOK'
  <1> DEFINE f == req[t]
  <1>0. /\ f \in Frame /\ f.s \in Session /\ f.base \in Root /\ f.ids \in Seq(BlockId)
        /\ done[t] \in Nat
    BY Zenon DEF TypeOK, Frame
  <1>1. \A q \in Seq(BlockId), n \in Nat : n + 1 <= Len(q) => q[n + 1] \in BlockId
    BY Zenon, IndexType
  <1>2. session_root(mem, f.s) \in Root
    BY Zenon, <1>0, RootType DEF TypeOK
  <1>3. \A label \in PC : Goto(t, label) => pc' \in [Thread -> PC]
    BY Zenon DEF Goto, TypeOK
  <1>4. \A label \in PC, r \in Reply : Answer(t, label, r) =>
          pc' \in [Thread -> PC] /\ reply' \in [Thread -> Reply]
    BY Zenon DEF Answer, Goto, TypeOK
  <1>5. {"apply", "applyLog", "applyLatch", "seedLog", "seedLatch", "note",
         "store", "storeLog", "storeLatch", "root", "flush", "reply"} \subseteq PC
    BY ZenonT(60) DEF PC, Locked
  <1>6. CASE AppendCheck(t)
    <2>1. sess' \in [Session -> SessionState]
      BY Zenon, <1>0, <1>6, EntryType DEF AppendCheck, TypeOK
    <2>2. pc' \in [Thread -> PC] /\ reply' \in [Thread -> Reply]
      BY ZenonT(60), <1>2, <1>3, <1>4, <1>5, <1>6, ReplyType DEF AppendCheck, TypeOK
    <2> QED
      BY ZenonT(60), <1>6, <2>1, <2>2 DEF AppendCheck, TypeOK, walVars, histVars
  <1>7. CASE AppendApply(t)
    <2> DEFINE id == f.ids[done[t] + 1]
    <2>0. done[t] + 1 <= Len(f.ids)
      BY ZenonT(60), <1>7 DEF AppendApply
    <2>1. id \in BlockId
      BY ZenonT(60), <1>0, <1>1, <2>0
    <2> HIDE DEF id
    <2>2. mem' \in Image
      <3>1. mem' = reference(mem, f.s, id) \/ mem' = insert_with_id(mem, f.s, id)
        BY ZenonT(60), <1>7 DEF AppendApply, id
      <3>2. mem \in Image
        BY ZenonT(60) DEF TypeOK
      <3> QED
        BY ZenonT(60), <1>0, <2>1, <3>1, <3>2, InsertType, ReferenceType
    <2>3. due' \in [Thread -> Record]
      <3>1. BlockRecord("REFERENCE", f.s, id) \in Record /\ BlockRecord("INSERT", f.s, id) \in Record
        BY ZenonT(60), <1>0, <2>1, BlockRecordType
      <3>2. InsertRecord(mem, f.s, id) \in Record
        BY ZenonT(60), <3>1 DEF InsertRecord
      <3> QED
        BY ZenonT(60), <1>7, <3>1, <3>2 DEF AppendApply, TypeOK, id
    <2>4. pc' \in [Thread -> PC] /\ done' \in [Thread -> Nat]
      BY <1>0, <1>3, <1>5, <1>7 DEF AppendApply, TypeOK
    <2> QED
      BY ZenonT(60), <1>7, <2>2, <2>3, <2>4 DEF AppendApply, TypeOK, walVars, histVars
  <1>8. CASE AppendLog(t) \/ ResyncLog(t) \/ BulkLog(t)
    <2>1. PICK next \in PC, latch \in PC :
             /\ WriteRecord(t, next, latch)
             /\ UNCHANGED <<memVars, flushed, synced, walError, runVars, exposed, crashes>>
      BY Zenon, <1>5, <1>8 DEF AppendLog, ResyncLog, BulkLog
    <2>2. /\ disk' \in Seq(Image) /\ Len(disk') = Len(disk) + 1
          /\ torn' \in BOOLEAN /\ faults' \in Nat /\ pc' \in [Thread -> PC]
      BY Zenon, <2>1, WriteType
    <2> QED
      BY <2>1, <2>2 DEF TypeOK, memVars, runVars
  <1>9. CASE AppendDone(t)
    BY Zenon, <1>2, <1>4, <1>5, <1>9, ReplyType DEF AppendDone, TypeOK, memVars, walVars, histVars
  <1>10. CASE ResyncSeed(t)
    <2>1. mem' \in Image
      BY Zenon, <1>0, <1>10, SeedType DEF ResyncSeed, TypeOK
    <2>2. due' \in [Thread -> Record]
      BY Zenon, <1>0, <1>10, SeedRecordType DEF ResyncSeed, TypeOK
    <2> QED
      BY Zenon, <1>3, <1>5, <1>10, <2>1, <2>2 DEF ResyncSeed, TypeOK, walVars, histVars
  <1>11. CASE ResyncNote(t)
    <2>1. miss[t] \in SUBSET BlockId
      BY Zenon DEF TypeOK
    <2>2. [live |-> TRUE, pending |-> miss[t], acked |-> miss[t] = {}] \in SessionState
      BY Zenon, <2>1 DEF SessionState
    <2>3. sess' \in [Session -> SessionState]
      BY ZenonT(60), <1>11, <2>2 DEF ResyncNote, TypeOK
    <2>4. pc' \in [Thread -> PC] /\ reply' \in [Thread -> Reply]
      BY ZenonT(60), <1>3, <1>4, <1>5, <1>11, <2>1, ReplyType DEF ResyncNote, TypeOK
    <2> QED
      BY Zenon, <1>11, <2>3, <2>4 DEF ResyncNote, TypeOK, walVars, histVars
  <1>12. CASE ResyncRoot(t)
    BY ZenonT(60), <1>2, <1>4, <1>5, <1>12, ReplyType DEF ResyncRoot, TypeOK, memVars, walVars, histVars
  <1>13. CASE BulkStore(t)
    <2>0. done[t] + 1 <= Len(f.ids)
      BY ZenonT(60), <1>13 DEF BulkStore
    <2>1. f.ids[done[t] + 1] \in BlockId
      BY ZenonT(60), <1>0, <1>1, <2>0
    <2>2. mem' \in Image
      BY Zenon, <1>13, <2>1, ContentType DEF BulkStore, TypeOK
    <2>3. due' \in [Thread -> Record]
      BY ZenonT(60), <1>0, <1>13, <2>1, BlockRecordType DEF BulkStore, TypeOK
    <2>4. done[t] + 1 \in Nat
      BY <1>0
    <2>5. pc' \in [Thread -> PC] /\ done' \in [Thread -> Nat]
      BY ZenonT(60), <1>0, <1>3, <1>5, <1>13, <2>4 DEF BulkStore, TypeOK
    <2> QED
      BY ZenonT(60), <1>13, <2>2, <2>3, <2>5 DEF BulkStore, TypeOK, walVars, histVars
  <1>14. CASE BulkDone(t)
    <2>1. sess' \in [Session -> SessionState]
      <3>1. sess[f.s] \in SessionState
        BY Zenon, <1>0 DEF TypeOK
      <3>2. \A e \in SessionState, ids \in SUBSET BlockId, b \in BOOLEAN :
               [e EXCEPT !.pending = e.pending \ ids, !.acked = b] \in SessionState
        BY ZenonT(60) DEF SessionState
      <3> DEFINE pending == sess[f.s].pending \ Range(f.ids)
                 acked == sess[f.s].acked \/ (pending = {} /\ ~sess[f.s].acked)
      <3>3. acked \in BOOLEAN
        BY Zenon
      <3>4. sess' = [sess EXCEPT ![f.s] = [sess[f.s] EXCEPT !.pending = pending, !.acked = acked]]
        BY ZenonT(60), <1>0, <1>14 DEF BulkDone, TypeOK
      <3>5. [sess[f.s] EXCEPT !.pending = pending, !.acked = acked] \in SessionState
        <4>1. Range(f.ids) \in SUBSET BlockId
          BY SMTT(60), <1>0 DEF Range
        <4> HIDE DEF acked
        <4> QED
          BY ZenonT(60), <3>1, <3>2, <3>3, <4>1
      <3> QED
        BY ZenonT(60), <3>4, <3>5 DEF TypeOK
    <2>2. pc' \in [Thread -> PC] /\ reply' \in [Thread -> Reply]
      BY Zenon, <1>2, <1>4, <1>5, <1>14, ReplyType, IdleType DEF BulkDone, TypeOK
    <2> QED
      BY ZenonT(60), <1>14, <2>1, <2>2 DEF BulkDone, TypeOK, walVars, histVars
  <1>15. CASE \E latch, next \in PC : LatchError(t, latch, next)
    <2>1. walError' \in BOOLEAN
      BY <1>15, Zenon DEF LatchError
    <2>2. pc' \in [Thread -> PC]
      BY Zenon, <1>3, <1>15 DEF LatchError
    <2> QED
      BY Zenon, <1>15, <2>1, <2>2 DEF LatchError, TypeOK, memVars, runVars, histVars
  <1>16. CASE Flush(t)
    <2>1. walError' \in BOOLEAN
      BY <1>16, Zenon DEF Flush, TypeOK
    <2>2. pc' \in [Thread -> PC] /\ reply' \in [Thread -> Reply]
      BY Zenon, <1>3, <1>4, <1>5, <1>16, ReplyType DEF Flush, TypeOK
    <2>3. /\ flushed' \in Nat /\ synced' \in Nat /\ synced' <= flushed' /\ flushed' < Len(disk)
          /\ faults' \in Nat
      BY <1>16 DEF Flush, Records, TypeOK
    <2> QED
      BY Zenon, <1>16, <2>1, <2>2, <2>3 DEF Flush, TypeOK, memVars
  <1> QED
    BY Zenon, <1>5, <1>6, <1>7, <1>8, <1>9, <1>10, <1>11, <1>12, <1>13, <1>14, <1>15, <1>16 DEF Step

LEMMA NextType == TypeOK /\ [AnyNext]_vars => TypeOK'
  <1> SUFFICES ASSUME TypeOK, [AnyNext]_vars PROVE TypeOK'
    BY Zenon
  <1>1. ASSUME NEW t \in Thread, Step(t) PROVE TypeOK'
    BY Zenon, <1>1, StepType
  <1>2. ASSUME NEW t \in Thread, Respond(t) PROVE TypeOK'
    <2>1. exposed' \subseteq [s: Session, root: Root, moved: BOOLEAN]
      <3>1. req[t].s \in Session /\ reply[t].root \in Root
        BY Zenon DEF TypeOK, Frame, Reply
      <3>2. Moved(t) \in BOOLEAN
        BY Zenon DEF Moved
      <3>3. [s |-> req[t].s, root |-> reply[t].root, moved |-> Moved(t)] \in [s: Session, root: Root, moved: BOOLEAN]
        BY Zenon, <3>1, <3>2
      <3> QED
        BY Zenon, <1>2, <3>3 DEF Respond, TypeOK
    <2>2. /\ req' \in [Thread -> Frame] /\ due' \in [Thread -> Record]
          /\ reply' \in [Thread -> Reply]
      BY Zenon, <1>2, IdleType DEF Respond, TypeOK
    <2>3. /\ pc' \in [Thread -> PC] /\ done' \in [Thread -> Nat]
          /\ miss' \in [Thread -> SUBSET BlockId]
      BY Zenon, <1>2 DEF Respond, Goto, TypeOK, PC
    <2> QED
      BY ZenonT(60), <1>2, <2>1, <2>2, <2>3 DEF Respond, TypeOK, memVars, walVars
  <1>3. ASSUME NEW t \in Thread, NEW f \in WellFormed, Handle(t, f) PROVE TypeOK'
    BY Zenon, <1>3, HandleType
  <1>4. CASE Readyz
    <2>1. flushed' \in Nat /\ synced <= flushed' /\ flushed' < Len(disk)
      BY <1>4 DEF Readyz, Records, TypeOK
    <2> QED
      BY Zenon, <1>4, <2>1 DEF Readyz, TypeOK, memVars, runVars, histVars
  <1>5. CASE Crash
    <2>1. PICK n \in Saved..Records :
             RestartFrom(n) /\ UNCHANGED synced
      BY Zenon, <1>5 DEF Crash
    <2>2. n \in Nat /\ n < Len(disk) /\ synced' \in Nat /\ synced' <= n
      BY <2>1 DEF TypeOK, Records, Saved
    <2> QED
      BY Zenon, <2>1, <2>2, RestartType
  <1>6. CASE Shutdown
    <2>1. Records \in Nat /\ Records < Len(disk) /\ synced' = Records
      BY SMTT(60), <1>6 DEF Shutdown, TypeOK, Records
    <2> QED
      BY <1>6, <2>1, RestartType DEF Shutdown
  <1>7. CASE UNCHANGED vars
    BY Zenon, <1>7 DEF vars, TypeOK
  <1> QED
    BY Zenon, <1>1, <1>2, <1>3, <1>4, <1>5, <1>6, <1>7 DEF AnyNext

(***************************************************************************)
(* The receiver's state stays well typed; in particular the synced records *)
(* are among the flushed ones and those among the records of the file.     *)
(***************************************************************************)
THEOREM TypeCorrect == Spec => []TypeOK
  BY InitType, NextType, NextIsAny, PTL DEF Spec

(***************************************************************************)
(* The inductive invariant, conjunct by conjunct.                          *)
(***************************************************************************)
LEMMA RootRestart ==
  ASSUME IInv, NEW n \in Nat, n < Len(disk), RestartFrom(n)
  PROVE  RootMatchesLog'
  <1>1. disk \in Seq(Image) /\ n + 1 \in 1..Len(disk)
    BY DEF IInv, TypeOK
  <1>2. Len(disk') = n + 1 /\ \A m \in 1..(n + 1) : disk'[m] = disk[m]
    BY <1>1 DEF RestartFrom
  <1>3. \A m \in 1..Len(disk') : Sound(disk'[m])
    BY <1>1, <1>2 DEF IInv, RootMatchesLog
  <1>4. Sound(mem')
    BY Zenon, <1>1 DEF RestartFrom, IInv, RootMatchesLog
  <1>5. \A t \in Thread : due'[t].root = due'[t].ids
    BY Zenon DEF RestartFrom, NoRecord, SeedRecord, ROOT_ZERO
  <1> QED
    BY Zenon, <1>3, <1>4, <1>5 DEF RootMatchesLog, Sound, session_root, session_ids

LEMMA RootWrite ==
  ASSUME IInv, NEW t \in Thread, NEW next, NEW latch, WriteRecord(t, next, latch)
  PROVE  \A n \in 1..Len(disk') : Sound(disk'[n])
  <1>1. Last(disk) \in Image /\ Sound(Last(disk))
    <2>1. disk \in Seq(Image) /\ Len(disk) \in 1..Len(disk)
      BY DEF IInv, TypeOK
    <2> QED
      BY <2>1 DEF Last, IInv, RootMatchesLog
  <1>2. due[t] \in Record
    BY Zenon DEF IInv, TypeOK
  <1>3. Sound(replay(Last(disk), due[t]))
    BY Zenon, <1>1, <1>2, SoundReplay DEF IInv, RootMatchesLog
  <1>4. PICK im : Sound(im) /\ disk' = Append(disk, im)
    BY Zenon, <1>1, <1>3 DEF WriteRecord, Appended
  <1>5. disk \in Seq(Image)
    BY Zenon DEF IInv, TypeOK
  <1>6. /\ Len(disk') = Len(disk) + 1
        /\ \A n \in 1..Len(disk) : disk'[n] = disk[n]
        /\ disk'[Len(disk) + 1] = im
    BY <1>4, <1>5
  <1> QED
    BY <1>4, <1>5, <1>6 DEF IInv, RootMatchesLog

LEMMA RootStep == IInv /\ [AnyNext]_vars => RootMatchesLog'
  <1> SUFFICES ASSUME IInv, [AnyNext]_vars PROVE RootMatchesLog'
    BY Zenon
  <1>1. ASSUME UNCHANGED <<mem, disk, due>> PROVE RootMatchesLog'
    BY Zenon, <1>1 DEF IInv, RootMatchesLog, Sound, session_root, session_ids
  <1>2. ASSUME Sound(mem'), UNCHANGED disk,
               NEW t \in Thread, NEW rec, due' = [due EXCEPT ![t] = rec],
               rec.variant = "SEED" => rec.root = rec.ids
        PROVE  RootMatchesLog'
    BY ZenonT(60), <1>2 DEF IInv, TypeOK, RootMatchesLog, Sound, session_root, session_ids
  <1>3. ASSUME NEW t \in Thread, Step(t) PROVE RootMatchesLog'
    <2> DEFINE f == req[t]
               id == f.ids[done[t] + 1]
    <2>1. mem \in Image /\ Sound(mem) /\ f.s \in Session /\ f.ids \in Seq(BlockId) /\ done[t] \in Nat
      BY Zenon DEF IInv, TypeOK, Frame, RootMatchesLog
    <2>2. done[t] + 1 <= Len(f.ids) => id \in BlockId
      BY SMTT(60), <2>1
    <2>3. CASE AppendApply(t)
      <3>1. id \in BlockId
        BY Zenon, <2>2, <2>3 DEF AppendApply
      <3>2. Sound(LogAppend(mem, f.s, id)) /\ Sound(insert_with_id(mem, f.s, id))
        BY Zenon, <2>1, <3>1, SoundAppend
      <3>3. Sound(mem')
        BY Zenon, <2>1, <2>3, <3>2 DEF AppendApply, reference
      <3>4. PICK v \in {"INSERT", "REFERENCE"} :
               due' = [due EXCEPT ![t] = BlockRecord(v, f.s, id)]
        BY Zenon, <2>3 DEF AppendApply, InsertRecord
      <3>5. BlockRecord(v, f.s, id).variant # "SEED"
        BY Zenon DEF BlockRecord
      <3> QED
        BY ZenonT(60), <1>2, <2>3, <3>3, <3>4, <3>5 DEF AppendApply, walVars
    <2>4. CASE ResyncSeed(t)
      <3>1. f.base = f.ids
        BY Zenon, <2>4 DEF ResyncSeed, IInv, ThreadInv
      <3>2. Sound(seed_session(mem, f.s, f.ids, f.base))
        BY <2>1, <3>1, SeedEffect DEF Sound
      <3>3. due' = [due EXCEPT ![t] = SeedRecord(f.s, f.ids, f.base)]
        BY Zenon, <2>4 DEF ResyncSeed
      <3>4. SeedRecord(f.s, f.ids, f.base).root = SeedRecord(f.s, f.ids, f.base).ids
        BY Zenon, <3>1 DEF SeedRecord
      <3> QED
        BY ZenonT(60), <1>2, <2>4, <3>2, <3>3, <3>4 DEF ResyncSeed, walVars
    <2>5. CASE BulkStore(t)
      <3>1. id \in BlockId
        BY Zenon, <2>2, <2>5 DEF BulkStore
      <3>2. Sound(mem') /\ UNCHANGED disk
        BY Zenon, <2>1, <2>5, <3>1, ContentEffect DEF BulkStore, Sound, walVars
      <3>3. CASE UNCHANGED due
        BY Zenon, <3>2, <3>3 DEF IInv, RootMatchesLog, Sound, session_root, session_ids
      <3>4. CASE due' = [due EXCEPT ![t] = BlockRecord("CONTENT", f.s, id)]
        BY ZenonT(60), <1>2, <3>2, <3>4 DEF BlockRecord
      <3> QED
        BY Zenon, <2>5, <3>3, <3>4 DEF BulkStore
    <2>6. CASE AppendLog(t) \/ ResyncLog(t) \/ BulkLog(t)
      <3>1. (\E next, latch : WriteRecord(t, next, latch)) /\ UNCHANGED <<mem, due>>
        BY Zenon, <2>6 DEF AppendLog, ResyncLog, BulkLog, memVars, runVars
      <3>2. \A n \in 1..Len(disk') : Sound(disk'[n])
        BY Zenon, <3>1, RootWrite
      <3> QED
        BY Zenon, <3>1, <3>2 DEF IInv, RootMatchesLog, Sound, session_root, session_ids
    <2> QED
      BY ZenonT(60), <1>1, <1>3, <2>3, <2>4, <2>5, <2>6
      DEF Step, AppendCheck, AppendDone, ResyncNote, ResyncRoot, BulkDone, LatchError, Flush,
          memVars, walVars, runVars
  <1>4. ASSUME NEW t \in Thread, Respond(t) PROVE RootMatchesLog'
    <2>1. NoRecord.root = NoRecord.ids
      BY Zenon DEF NoRecord, SeedRecord, ROOT_ZERO
    <2>2. Sound(mem') /\ UNCHANGED disk
      BY Zenon, <1>4 DEF Respond, memVars, walVars, IInv, RootMatchesLog, Sound, session_root, session_ids
    <2> QED
      BY ZenonT(60), <1>2, <1>4, <2>1, <2>2 DEF Respond
  <1>5. ASSUME NEW t \in Thread, NEW f \in WellFormed, Handle(t, f) PROVE RootMatchesLog'
    BY Zenon, <1>1, <1>5 DEF Handle, AppendBegin, ResyncBegin, BulkBegin, memVars, walVars
  <1>6. CASE Readyz
    BY Zenon, <1>1, <1>6 DEF Readyz, memVars, runVars
  <1>7. CASE Crash \/ Shutdown
    <2>1. \E n \in Nat : n < Len(disk) /\ RestartFrom(n)
      BY <1>7 DEF Crash, Shutdown, Records, Saved, IInv, TypeOK
    <2> QED
      BY Zenon, <2>1, RootRestart
  <1>8. CASE UNCHANGED vars
    BY Zenon, <1>1, <1>8 DEF vars
  <1> QED
    BY Zenon, <1>3, <1>4, <1>5, <1>6, <1>7, <1>8 DEF AnyNext

\* A step of t moves no other thread, and takes no mutation lock.
LEMMA StepShape ==
  ASSUME TypeOK, NEW t \in Thread, Step(t)
  PROVE  /\ req' = req
         /\ \A u \in Thread \ {t} : /\ pc'[u] = pc[u] /\ done'[u] = done[u]
                                    /\ miss'[u] = miss[u] /\ reply'[u] = reply[u]
         /\ pc[t] \in Locked \cup {"root", "flush"}
         /\ pc'[t] \in Locked => pc[t] \in Locked
  <1>1. req' = req
    BY ZenonT(60) DEF Step, AppendCheck, AppendApply, AppendLog, AppendDone, ResyncSeed, ResyncLog,
           ResyncNote, ResyncRoot, BulkStore, BulkLog, BulkDone, LatchError, Flush, runVars
  <1>2. \A u \in Thread \ {t} : pc'[u] = pc[u]
    BY ZenonT(60) DEF TypeOK, Step, AppendCheck, AppendApply, AppendLog, AppendDone, ResyncSeed, ResyncLog,
           ResyncNote, ResyncRoot, BulkStore, BulkLog, BulkDone, LatchError, Flush,
           WriteRecord, Goto, Answer
  <1>3. \A u \in Thread \ {t} : done'[u] = done[u] /\ miss'[u] = miss[u]
    BY ZenonT(60) DEF TypeOK, Step, AppendCheck, AppendApply, AppendLog, AppendDone, ResyncSeed, ResyncLog,
           ResyncNote, ResyncRoot, BulkStore, BulkLog, BulkDone, LatchError, Flush, runVars
  <1>4. \A u \in Thread \ {t} : reply'[u] = reply[u]
    BY ZenonT(60) DEF TypeOK, Step, AppendCheck, AppendApply, AppendLog, AppendDone, ResyncSeed, ResyncLog,
           ResyncNote, ResyncRoot, BulkStore, BulkLog, BulkDone, LatchError, Flush, Answer, runVars
  <1>5. pc[t] \in Locked \cup {"root", "flush"}
    BY ZenonT(60) DEF Step, AppendCheck, AppendApply, AppendLog, AppendDone, ResyncSeed, ResyncLog,
           ResyncNote, ResyncRoot, BulkStore, BulkLog, BulkDone, LatchError, Flush, Locked
  <1>6. pc[t] \in {"root", "flush"} => pc'[t] \in {"flush", "reply"}
    <2>1. ASSUME pc[t] \in {"root", "flush"} PROVE ResyncRoot(t) \/ Flush(t)
      BY ZenonT(60), <2>1 DEF Step, AppendCheck, AppendApply, AppendLog, AppendDone, ResyncSeed, ResyncLog,
                  ResyncNote, BulkStore, BulkLog, BulkDone, LatchError
    <2> QED
      BY ZenonT(60), <2>1 DEF ResyncRoot, Flush, Answer, Goto, TypeOK
  <1> QED
    BY Zenon, <1>1, <1>2, <1>3, <1>4, <1>5, <1>6 DEF Locked

\* After a restart no handler runs.
LEMMA RestartIdle ==
  ASSUME IInv, Crash \/ Shutdown
  PROVE  /\ \A t \in Thread : pc'[t] = "idle"
         /\ \E n \in Nat : n < Len(disk) /\ RestartFrom(n)
  <1>1. \E n \in Nat : n < Len(disk) /\ RestartFrom(n)
    BY SMTT(60) DEF Crash, Shutdown, Records, Saved, IInv, TypeOK
  <1> QED
    BY <1>1 DEF RestartFrom

LEMMA LockStep == IInv /\ [AnyNext]_vars => LocksExclusive'
  <1> SUFFICES ASSUME IInv, [AnyNext]_vars PROVE LocksExclusive'
    BY Zenon
  <1> USE DEF IInv, LocksExclusive
  <1>1. ASSUME NEW t \in Thread, Step(t) PROVE LocksExclusive'
    BY <1>1, StepShape
  <1>2. ASSUME NEW t \in Thread, Respond(t) PROVE LocksExclusive'
    <2>1. /\ pc'[t] = "idle"
          /\ \A u \in Thread \ {t} : pc'[u] = pc[u] /\ req'[u] = req[u]
      BY Zenon, <1>2 DEF Respond, Goto, TypeOK
    <2> QED
      BY SMTT(60), <2>1 DEF Locked
  <1>3. ASSUME NEW t \in Thread, NEW f \in WellFormed, Handle(t, f) PROVE LocksExclusive'
    <2>1. \E label : Begin(t, f, label)
      BY Zenon, <1>3 DEF Handle, AppendBegin, ResyncBegin, BulkBegin
    <2>2. /\ MutationLockFree(f.s)
          /\ req'[t] = f
          /\ \A u \in Thread \ {t} : pc'[u] = pc[u] /\ req'[u] = req[u]
      BY Zenon, <2>1 DEF Begin, Goto, TypeOK
    <2> QED
      BY ZenonT(60), <2>2 DEF MutationLockFree
  <1>4. CASE Readyz
    BY Zenon, <1>4 DEF Readyz, runVars
  <1>5. CASE Crash \/ Shutdown
    BY Zenon, <1>5, RestartIdle DEF Locked
  <1>6. CASE UNCHANGED vars
    BY Zenon, <1>6 DEF vars
  <1> QED
    BY Zenon, <1>1, <1>2, <1>3, <1>4, <1>5, <1>6 DEF AnyNext

\* Blocks only accumulate, and t touches the log and the bookkeeping of its
\* own session, under that session's mutation lock.
LEMMA StepStore ==
  ASSUME IInv, NEW t \in Thread, Step(t)
  PROVE  /\ mem.blocks \subseteq mem'.blocks
         /\ \A r \in Session \ {req[t].s} : /\ session_ids(mem', r) = session_ids(mem, r)
                                           /\ sess'[r] = sess[r]
         /\ pc[t] \notin Locked => UNCHANGED <<mem, sess>>
  <1> DEFINE f == req[t]
             id == f.ids[done[t] + 1]
  <1>1. /\ mem \in Image /\ sess \in [Session -> SessionState] /\ f.s \in Session
        /\ f.ids \in Seq(BlockId) /\ done[t] \in Nat
    BY Zenon DEF IInv, TypeOK, Frame
  <1>2. done[t] + 1 <= Len(f.ids) => id \in BlockId
    BY ZenonT(60), <1>1, IndexType
  <1>3. CASE AppendApply(t)
    <2>1. id \in BlockId /\ pc[t] \in Locked /\ sess' = sess
      BY Zenon, <1>2, <1>3 DEF AppendApply, Locked
    <2>2. mem' = mem \/ mem' = LogAppend(mem, f.s, id) \/ mem' = insert_with_id(mem, f.s, id)
      BY Zenon, <1>3 DEF AppendApply, reference
    <2>3. mem \in Image /\ f.s \in Session /\ id \in BlockId
      BY ZenonT(60), <1>1, <2>1
    <2>4. mem.blocks \subseteq mem'.blocks
      BY <2>2, <2>3, OwnLog
    <2>5. \A r \in Session \ {f.s} : session_ids(mem', r) = session_ids(mem, r)
      BY <2>2, <2>3, OtherLogs
    <2> QED
      BY ZenonT(60), <2>1, <2>4, <2>5
  <1>4. CASE ResyncSeed(t)
    <2>1. pc[t] \in Locked /\ sess' = sess /\ mem' = seed_session(mem, f.s, f.ids, f.base)
      BY Zenon, <1>4 DEF ResyncSeed, Locked
    <2> QED
      BY SMTT(60), <1>1, <2>1, SeedEffect
  <1>5. CASE BulkStore(t)
    <2>1. /\ id \in BlockId /\ pc[t] \in Locked /\ sess' = sess
          /\ mem' = store_content(mem, id)
      BY ZenonT(60), <1>2, <1>5 DEF BulkStore, Locked
    <2> QED
      BY SMTT(60), <1>1, <2>1, ContentEffect
  <1>6. CASE AppendCheck(t) \/ ResyncNote(t) \/ BulkDone(t)
    <2>1. pc[t] \in Locked /\ mem' = mem
      BY ZenonT(60), <1>6 DEF AppendCheck, ResyncNote, BulkDone, Locked
    <2>2. \A r \in Session \ {f.s} : sess'[r] = sess[r]
      BY ZenonT(60), <1>1, <1>6 DEF AppendCheck, ResyncNote, BulkDone
    <2> QED
      BY ZenonT(60), <2>1, <2>2
  <1>7. CASE UNCHANGED <<mem, sess>>
    BY Zenon, <1>7
  <1> QED
    BY ZenonT(60), <1>3, <1>4, <1>5, <1>6, <1>7
    DEF Step, AppendLog, AppendDone, ResyncLog, ResyncRoot, BulkLog, LatchError, Flush, memVars

-----------------------------------------------------------------------------
\* What a thread that does not move relies on survives if its session's log
\* and pending set do and no block disappears.
LEMMA Undisturbed ==
  ASSUME NEW u \in Thread, ThreadInv(u),
         pc'[u] = pc[u], req'[u] = req[u], done'[u] = done[u], miss'[u] = miss[u],
         mem.blocks \subseteq mem'.blocks,
         pc[u] \in Locked => /\ session_ids(mem', req[u].s) = session_ids(mem, req[u].s)
                             /\ sess'[req[u].s] = sess[req[u].s]
  PROVE  ThreadInv(u)'
  <1>1. {"seedLog", "seedLatch", "note"} \cup Applying \subseteq Locked
    BY Zenon DEF Locked, Applying
  <1> QED
    BY Zenon, <1>1 DEF ThreadInv, session_ids

LEMMA EntryPending ==
  ASSUME NEW s \in Session, sess[s] \in SessionState
  PROVE  Entry(s).pending = sess[s].pending
  BY Zenon DEF Entry, NewSession, SessionState

LEMMA ThreadSelf ==
  ASSUME IInv, NEW t \in Thread, Step(t)
  PROVE  ThreadInv(t)'
  <1> DEFINE f == req[t]
             id == f.ids[done[t] + 1]
  <1>1. /\ mem \in Image /\ sess \in [Session -> SessionState] /\ f.s \in Session
        /\ f.ids \in Seq(BlockId) /\ done[t] \in Nat
    BY Zenon DEF IInv, TypeOK, Frame
  <1>2. ThreadInv(t) /\ req' = req /\ pc \in [Thread -> PC]
    BY Zenon, StepShape DEF IInv, TypeOK
  <1>3. \A label : Goto(t, label) => pc'[t] = label
    BY Zenon, <1>2 DEF Goto
  <1>4. \A label, r : Answer(t, label, r) => pc'[t] = label
    BY Zenon, <1>3 DEF Answer
  <1>5. pc'[t] \in {"flush", "reply"} => ThreadInv(t)'
    BY Zenon DEF ThreadInv, Applying
  <1>6. CASE AppendCheck(t)
    <2>1. CASE pc'[t] \in {"flush", "reply"}
      BY Zenon, <1>5, <2>1
    <2>2. CASE pc'[t] = "apply"
      <3>1. sess'[f.s] = Entry(f.s) /\ Entry(f.s).pending = {}
        BY Zenon, <1>1, <1>4, <1>6, <2>2 DEF AppendCheck
      <3> QED
        BY Zenon, <1>2, <2>2, <3>1 DEF ThreadInv, Applying
    <2> QED
      BY Zenon, <1>3, <1>4, <1>6, <2>1, <2>2 DEF AppendCheck
  <1>7. CASE AppendApply(t) \/ AppendLog(t)
    <2>1. pc[t] \in Applying /\ pc'[t] \in Applying /\ sess' = sess
      BY ZenonT(60), <1>3, <1>7 DEF AppendApply, AppendLog, WriteRecord, Applying, memVars
    <2> QED
      BY Zenon, <1>2, <2>1 DEF ThreadInv, Applying
  <1>8. CASE ResyncSeed(t)
    <2>1. /\ pc[t] = "seed" /\ pc'[t] = "seedLog" /\ miss' = miss
          /\ mem' = seed_session(mem, f.s, f.ids, f.base)
      BY Zenon, <1>3, <1>8 DEF ResyncSeed
    <2>2. mem'.blocks = mem.blocks /\ session_ids(mem', f.s) = f.ids
      BY SMTT(60), <1>1, <2>1, SeedEffect
    <2> QED
      BY Zenon, <1>2, <2>1, <2>2 DEF ThreadInv, Applying, session_ids
  <1>9. CASE ResyncLog(t)
    <2>1. pc[t] = "seedLog" /\ pc'[t] \in {"note", "seedLatch"} /\ UNCHANGED <<mem, miss>>
      BY Zenon, <1>3, <1>9 DEF ResyncLog, WriteRecord, memVars, runVars
    <2> QED
      BY Zenon, <1>2, <2>1 DEF ThreadInv, Applying, session_ids
  <1>10. CASE ResyncNote(t)
    <2>1. pc[t] = "note" /\ pc'[t] \in {"root", "flush"}
      BY ZenonT(60), <1>3, <1>4, <1>10 DEF ResyncNote
    <2> QED
      BY Zenon, <1>2, <2>1 DEF ThreadInv, Applying
  <1>11. CASE BulkStore(t)
    <2>1. /\ pc[t] = "store" /\ pc'[t] \in {"store", "storeLog"} /\ done'[t] = done[t] + 1
          /\ done[t] + 1 <= Len(f.ids) /\ mem' = store_content(mem, id)
      BY Zenon, <1>3, <1>11 DEF BulkStore, IInv, TypeOK
    <2>2. mem'.blocks = mem.blocks \cup {id}
      BY SMTT(60), <1>1, <2>1, ContentEffect
    <2>3. \A i \in 1..done'[t] : f.ids[i] \in mem'.blocks
      <3>1. \A i \in 1..done'[t] : i \in 1..done[t] \/ i = done[t] + 1
        BY <1>1, <2>1
      <3> QED
        BY Zenon, <1>2, <2>1, <2>2, <3>1 DEF ThreadInv
    <2> QED
      BY Zenon, <1>2, <2>1, <2>3 DEF ThreadInv, Applying
  <1>12. CASE BulkLog(t)
    <2>1. pc[t] = "storeLog" /\ pc'[t] \in {"store", "storeLatch"} /\ UNCHANGED <<mem, done>>
      BY Zenon, <1>3, <1>12 DEF BulkLog, WriteRecord, memVars, runVars
    <2> QED
      BY Zenon, <1>2, <2>1 DEF ThreadInv, Applying
  <1>13. ASSUME NEW latch, NEW next, LatchError(t, latch, next),
                <<latch, next>> \in {<<"applyLatch", "apply">>, <<"seedLatch", "note">>,
                                     <<"storeLatch", "store">>}
         PROVE  ThreadInv(t)'
    <2>1. pc[t] = latch /\ pc'[t] = next /\ UNCHANGED <<mem, sess, done, miss>>
      BY ZenonT(60), <1>3, <1>13 DEF LatchError, memVars, runVars
    <2> QED
      BY ZenonT(60), <1>2, <1>13, <2>1 DEF ThreadInv, Applying, session_ids
  <1>14. CASE AppendDone(t) \/ ResyncRoot(t) \/ BulkDone(t) \/ Flush(t)
    BY ZenonT(60), <1>3, <1>4, <1>5, <1>14 DEF AppendDone, ResyncRoot, BulkDone, Flush
  <1> QED
    BY Zenon, <1>6, <1>7, <1>8, <1>9, <1>10, <1>11, <1>12, <1>13, <1>14 DEF Step

LEMMA ThreadStep == IInv /\ [AnyNext]_vars => \A u \in Thread : ThreadInv(u)'
  <1> SUFFICES ASSUME IInv, [AnyNext]_vars, NEW u \in Thread PROVE ThreadInv(u)'
    BY Zenon
  <1>0. ThreadInv(u) /\ req[u].s \in Session
    BY Zenon DEF IInv, TypeOK, Frame
  <1>1. ASSUME NEW t \in Thread, Step(t) PROVE ThreadInv(u)'
    <2>1. CASE u = t
      BY Zenon, <1>1, <2>1, ThreadSelf
    <2>2. CASE u # t
      <3>1. /\ pc'[u] = pc[u] /\ req'[u] = req[u] /\ done'[u] = done[u] /\ miss'[u] = miss[u]
        BY Zenon, <1>1, <2>2, StepShape DEF IInv
      <3>2. pc[t] \in Locked /\ pc[u] \in Locked => req[u].s # req[t].s
        BY Zenon, <2>2 DEF IInv, LocksExclusive
      <3>3. pc[u] \in Locked => /\ session_ids(mem', req[u].s) = session_ids(mem, req[u].s)
                                /\ sess'[req[u].s] = sess[req[u].s]
        BY Zenon, <1>0, <1>1, <3>2, StepStore
      <3>4. mem.blocks \subseteq mem'.blocks
        BY Zenon, <1>1, StepStore
      <3> QED
        BY Zenon, <1>0, <3>1, <3>3, <3>4, Undisturbed
    <2> QED
      BY Zenon, <2>1, <2>2
  <1>2. ASSUME NEW t \in Thread, Respond(t) PROVE ThreadInv(u)'
    <2>1. CASE u = t
      <3>1. pc'[u] = "idle"
        BY Zenon, <1>2, <2>1 DEF Respond, Goto, IInv, TypeOK
      <3> QED
        BY Zenon, <3>1 DEF ThreadInv, Applying
    <2>2. CASE u # t
      <3>1. /\ pc'[u] = pc[u] /\ req'[u] = req[u] /\ done'[u] = done[u] /\ miss'[u] = miss[u]
            /\ UNCHANGED <<mem, sess>>
        BY Zenon, <1>2, <2>2 DEF Respond, Goto, IInv, TypeOK, memVars
      <3> QED
        BY Zenon, <1>0, <3>1, Undisturbed
    <2> QED
      BY Zenon, <2>1, <2>2
  <1>3. ASSUME NEW t \in Thread, NEW f \in WellFormed, Handle(t, f) PROVE ThreadInv(u)'
    <2>1. /\ f \in Frame /\ f.s \in Session /\ f.ids \in Seq(BlockId)
          /\ f.kind = "Resync" => f.base = f.ids
      BY Zenon DEF WellFormed, Frame
    <2>2. PICK label : Begin(t, f, label)
      BY Zenon, <1>3 DEF Handle, AppendBegin, ResyncBegin, BulkBegin
    <2>3. mem' = mem /\ \A r \in Session \ {f.s} : sess'[r] = sess[r]
      BY Zenon, <1>3, <2>1 DEF Handle, AppendBegin, ResyncBegin, BulkBegin, memVars, IInv, TypeOK
    <2>4. CASE u = t
      <3>1. req'[u] = f /\ done'[u] = 0
        BY Zenon, <2>2, <2>4 DEF Begin, IInv, TypeOK
      <3>2. CASE AppendBegin(t, f)
        <4>1. pc'[u] \in {"check", "reply"}
          BY Zenon, <2>4, <3>2 DEF AppendBegin, Begin, Goto, IInv, TypeOK
        <4> QED
          BY Zenon, <4>1 DEF ThreadInv, Applying
      <3>3. CASE ResyncBegin(t, f)
        <4>1. /\ pc'[u] = "seed" /\ f.kind = "Resync"
              /\ miss'[u] = {id \in Range(f.ids) : ~contains(mem, id)}
          BY Zenon, <2>4, <3>3 DEF ResyncBegin, Begin, Goto, IInv, TypeOK
        <4>2. Range(f.ids) \subseteq mem'.blocks \cup miss'[u]
          BY Zenon, <2>3, <4>1 DEF contains
        <4> QED
          BY Zenon, <2>1, <3>1, <4>1, <4>2 DEF ThreadInv, Applying
      <3>4. CASE BulkBegin(t, f)
        <4>1. pc'[u] = "store"
          BY ZenonT(60), <2>4, <3>4 DEF BulkBegin, Begin, Goto, IInv, TypeOK
        <4> QED
          BY SMTT(60), <2>1, <3>1, <4>1 DEF ThreadInv, Applying
      <3> QED
        BY Zenon, <1>3, <3>2, <3>3, <3>4 DEF Handle
    <2>5. CASE u # t
      <3>1. /\ pc'[u] = pc[u] /\ req'[u] = req[u] /\ done'[u] = done[u]
            /\ pc[u] \in Locked => req[u].s # f.s
        BY Zenon, <2>2, <2>5 DEF Begin, Goto, MutationLockFree, IInv, TypeOK
      <3>2. miss'[u] = miss[u]
        BY Zenon, <1>3, <2>5 DEF Handle, AppendBegin, ResyncBegin, BulkBegin, IInv, TypeOK
      <3> QED
        BY Zenon, <1>0, <2>3, <3>1, <3>2, Undisturbed
    <2> QED
      BY Zenon, <2>4, <2>5
  <1>4. CASE Readyz
    BY ZenonT(60), <1>0, <1>4, Undisturbed DEF Readyz, memVars, runVars
  <1>5. CASE Crash \/ Shutdown
    <2>1. pc'[u] = "idle"
      BY Zenon, <1>5, RestartIdle
    <2> QED
      BY Zenon, <2>1 DEF ThreadInv, Applying
  <1>6. CASE UNCHANGED vars
    BY ZenonT(60), <1>0, <1>6, Undisturbed DEF vars
  <1> QED
    BY Zenon, <1>1, <1>2, <1>3, <1>4, <1>5, <1>6 DEF AnyNext

\* A thread that holds the mutation lock outside a RESYNC's window sees its
\* session's missing content in the pending set.
LEMMA LockedSees ==
  ASSUME IInv, NEW t \in Thread, pc[t] \in Locked,
         pc[t] \notin {"seedLog", "seedLatch", "note"}
  PROVE  Range(session_ids(mem, req[t].s)) \subseteq mem.blocks \cup sess[req[t].s].pending
  <1>1. req[t].s \in Session
    BY Zenon DEF IInv, TypeOK, Frame
  <1>2. ~Reseeding(req[t].s)
    BY ZenonT(60) DEF Reseeding, IInv, LocksExclusive, Locked
  <1> QED
    BY Zenon, <1>1, <1>2 DEF IInv, MissingIsPending

LEMMA MissingSelf ==
  ASSUME IInv, NEW t \in Thread, Step(t), ~Reseeding(req[t].s)'
  PROVE  \/ UNCHANGED <<mem, sess>> /\ ~Reseeding(req[t].s)
         \/ Range(session_ids(mem', req[t].s)) \subseteq mem'.blocks \cup sess'[req[t].s].pending
  <1> DEFINE f == req[t]
             id == f.ids[done[t] + 1]
  <1>1. /\ mem \in Image /\ sess \in [Session -> SessionState] /\ f.s \in Session
        /\ f.ids \in Seq(BlockId) /\ done[t] \in Nat /\ session_ids(mem, f.s) \in Seq(BlockId)
    BY Zenon, RootType DEF IInv, TypeOK, Frame
  <1>2. ThreadInv(t) /\ req' = req /\ pc \in [Thread -> PC]
    BY Zenon, StepShape DEF IInv, TypeOK
  <1>3. \A label : Goto(t, label) => pc'[t] = label
    BY Zenon, <1>2 DEF Goto
  <1>4. pc'[t] \notin {"seedLog", "seedLatch", "note"}
    BY Zenon, <1>2 DEF Reseeding
  <1>5. CASE AppendCheck(t)
    <2>1. mem' = mem /\ sess'[f.s].pending = sess[f.s].pending /\ pc[t] = "check"
      BY ZenonT(60), <1>1, <1>5, EntryPending DEF AppendCheck
    <2> QED
      BY Zenon, <2>1, LockedSees DEF Locked
  <1>6. CASE AppendApply(t)
    <2>1. id \in BlockId /\ sess' = sess /\ pc[t] = "apply"
      BY <1>1, <1>6 DEF AppendApply
    <2>0. mem \in Image /\ f.s \in Session /\ id \in BlockId
      BY ZenonT(60), <1>1, <2>1
    <2>2. CASE mem' = mem
      BY ZenonT(60), <2>1, <2>2, LockedSees DEF Locked
    <2>3. CASE mem' = LogAppend(mem, f.s, id) /\ id \in mem.blocks
      <3>1. mem'.blocks = mem.blocks /\ session_ids(mem', f.s) = Append(session_ids(mem, f.s), id)
        BY <2>0, <2>3, OwnLog
      <3>2. Range(session_ids(mem', f.s)) = Range(session_ids(mem, f.s)) \cup {id}
        BY Zenon, <1>1, <2>1, <3>1, RangeAppend
      <3>3. Range(session_ids(mem, f.s)) \subseteq mem.blocks \cup sess[f.s].pending
        BY Zenon, <2>1, LockedSees DEF Locked
      <3> QED
        BY ZenonT(60), <2>1, <2>3, <3>1, <3>2, <3>3
    <2>4. CASE mem' = insert_with_id(mem, f.s, id)
      <3>1. /\ mem'.blocks = mem.blocks \cup {id}
            /\ session_ids(mem', f.s) = Append(session_ids(mem, f.s), id)
        BY <2>0, <2>4, OwnLog
      <3>2. Range(session_ids(mem', f.s)) = Range(session_ids(mem, f.s)) \cup {id}
        BY Zenon, <1>1, <2>1, <3>1, RangeAppend
      <3>3. Range(session_ids(mem, f.s)) \subseteq mem.blocks \cup sess[f.s].pending
        BY Zenon, <2>1, LockedSees DEF Locked
      <3> QED
        BY ZenonT(60), <2>1, <3>1, <3>2, <3>3
    <2> QED
      BY Zenon, <1>6, <2>2, <2>3, <2>4 DEF AppendApply, reference, contains
  <1>7. CASE ResyncSeed(t) \/ ResyncLog(t)
    BY Zenon, <1>3, <1>4, <1>7 DEF ResyncSeed, ResyncLog, WriteRecord
  <1>8. CASE ResyncNote(t)
    <2>1. mem' = mem /\ sess'[f.s].pending = miss[t] /\ pc[t] = "note"
      BY Zenon, <1>1, <1>8 DEF ResyncNote
    <2> QED
      BY Zenon, <1>2, <2>1 DEF ThreadInv
  <1>9. CASE BulkStore(t)
    <2>1. /\ id \in BlockId /\ sess' = sess /\ pc[t] = "store" /\ mem' = store_content(mem, id)
      BY SMTT(60), <1>1, <1>9 DEF BulkStore
    <2>2. mem'.blocks = mem.blocks \cup {id} /\ session_ids(mem', f.s) = session_ids(mem, f.s)
      BY Zenon, <1>1, <2>1, ContentEffect
    <2> QED
      BY Zenon, <2>1, <2>2, LockedSees DEF Locked
  <1>10. CASE BulkDone(t)
    <2>1. /\ mem' = mem /\ sess'[f.s].pending = sess[f.s].pending \ Range(f.ids)
          /\ pc[t] = "store" /\ done[t] = Len(f.ids)
      BY ZenonT(60), <1>1, <1>10 DEF BulkDone, SessionState
    <2>2. Range(f.ids) \subseteq mem.blocks
      BY SMTT(60), <1>1, <1>2, <2>1 DEF ThreadInv, Range
    <2> QED
      BY Zenon, <2>1, <2>2, LockedSees DEF Locked
  <1>11. CASE AppendLog(t) \/ AppendDone(t) \/ BulkLog(t)
              \/ LatchError(t, "applyLatch", "apply") \/ LatchError(t, "storeLatch", "store")
    <2>1. /\ pc[t] \in {"apply", "applyLog", "store", "storeLog", "applyLatch", "storeLatch"}
          /\ mem' = mem /\ sess' = sess
      BY Zenon, <1>11 DEF AppendLog, AppendDone, BulkLog, LatchError, memVars
    <2> QED
      BY Zenon, <2>1, LockedSees DEF Locked
  <1>12. CASE LatchError(t, "seedLatch", "note")
    BY Zenon, <1>3, <1>4, <1>12 DEF LatchError
  <1>13. CASE ResyncRoot(t) \/ Flush(t)
    <2>1. pc[t] \in {"root", "flush"} /\ UNCHANGED <<mem, sess>>
      BY Zenon, <1>13 DEF ResyncRoot, Flush, memVars
    <2>2. ~Reseeding(f.s)
      <3>1. SUFFICES ASSUME NEW u \in Thread, pc[u] \in {"seedLog", "seedLatch", "note"},
                            req[u].s = f.s
                     PROVE  FALSE
        BY Zenon DEF Reseeding
      <3>2. u # t
        BY Zenon, <2>1, <3>1
      <3> QED
        BY Zenon, <1>2, <3>1, <3>2, StepShape DEF Reseeding, IInv
    <2> QED
      BY Zenon, <2>1, <2>2
  <1> QED
    BY ZenonT(60), <1>5, <1>6, <1>7, <1>8, <1>9, <1>10, <1>11, <1>12, <1>13 DEF Step

LEMMA RecoveredWaits ==
  ASSUME NEW im \in Image, NEW s \in Session
  PROVE  Range(session_ids(im, s)) \subseteq im.blocks \cup Recovered(im)[s].pending
  <1>1. im.log[s] \in SessionLog
    BY Zenon DEF Image
  <1>2. CASE im.log[s].live
    BY Zenon, <1>2 DEF Recovered
  <1>3. CASE ~im.log[s].live
    <2>1. im.log[s] = NoSessionLog
      BY ZenonT(60), <1>1, <1>3 DEF SessionLog
    <2>2. session_ids(im, s) = <<>>
      BY <2>1 DEF session_ids, NoSessionLog
    <2> QED
      BY <2>2 DEF Range
  <1> QED
    BY Zenon, <1>2, <1>3

LEMMA MissingStep == IInv /\ [AnyNext]_vars => MissingIsPending'
  <1> SUFFICES ASSUME IInv, [AnyNext]_vars, NEW s \in Session, ~Reseeding(s)'
               PROVE  Range(session_ids(mem', s)) \subseteq mem'.blocks \cup sess'[s].pending
    BY Zenon DEF MissingIsPending, session_ids
  <1>1. ~Reseeding(s) => Range(session_ids(mem, s)) \subseteq mem.blocks \cup sess[s].pending
    BY Zenon DEF IInv, MissingIsPending
  <1>2. ASSUME NEW t \in Thread, Step(t)
        PROVE  Range(session_ids(mem', s)) \subseteq mem'.blocks \cup sess'[s].pending
    <2>1. CASE s = req[t].s
      <3>1. ~Reseeding(req[t].s)'
        BY Zenon, <1>2, <2>1, StepShape DEF IInv, Reseeding
      <3> QED
        BY Zenon, <1>1, <1>2, <2>1, <3>1, MissingSelf
    <2>2. CASE s # req[t].s
      <3>1. ~Reseeding(s)
        BY Zenon, <1>2, <2>2, StepShape DEF Reseeding, IInv
      <3>2. /\ mem.blocks \subseteq mem'.blocks /\ sess'[s] = sess[s]
            /\ session_ids(mem', s) = session_ids(mem, s)
        BY Zenon, <1>2, <2>2, StepStore
      <3> QED
        BY Zenon, <1>1, <3>1, <3>2
    <2> QED
      BY Zenon, <2>1, <2>2
  <1>3. ASSUME NEW t \in Thread, Respond(t)
        PROVE  Range(session_ids(mem', s)) \subseteq mem'.blocks \cup sess'[s].pending
    <2>1. ~Reseeding(s)
      BY Zenon, <1>3 DEF Reseeding, Respond, Goto, IInv, TypeOK
    <2> QED
      BY Zenon, <1>1, <1>3, <2>1 DEF Respond, memVars
  <1>4. ASSUME NEW t \in Thread, NEW f \in WellFormed, Handle(t, f)
        PROVE  Range(session_ids(mem', s)) \subseteq mem'.blocks \cup sess'[s].pending
    <2>1. \E label : Begin(t, f, label)
      BY Zenon, <1>4 DEF Handle, AppendBegin, ResyncBegin, BulkBegin
    <2>2. ~Reseeding(s)
      BY Zenon, <2>1 DEF Begin, Goto, Reseeding, IInv, TypeOK
    <2>3. sess \in [Session -> SessionState] /\ f.s \in Session
      BY Zenon DEF WellFormed, IInv, TypeOK, Frame
    <2>4. mem' = mem /\ (sess' = sess \/ sess' = [sess EXCEPT ![f.s] = Entry(f.s)])
      BY Zenon, <1>4 DEF Handle, AppendBegin, ResyncBegin, BulkBegin, memVars
    <2>5. sess'[s].pending = sess[s].pending
      BY Zenon, <2>3, <2>4, EntryPending
    <2> QED
      BY Zenon, <1>1, <2>2, <2>4, <2>5
  <1>5. CASE Readyz
    BY Zenon, <1>1, <1>5 DEF Readyz, Reseeding, memVars, runVars
  <1>6. CASE Crash \/ Shutdown
    <2>1. PICK n \in Nat : n < Len(disk) /\ RestartFrom(n)
      BY Zenon, <1>6, RestartIdle
    <2>2. mem' = disk[n + 1] /\ sess' = Recovered(disk[n + 1])
      BY Zenon, <2>1 DEF RestartFrom
    <2>3. disk[n + 1] \in Image
      <3>1. disk \in Seq(Image) /\ n + 1 \in 1..Len(disk)
        BY SMTT(60), <2>1 DEF IInv, TypeOK
      <3> QED
        BY <3>1
    <2> QED
      BY Zenon, <2>2, <2>3, RecoveredWaits
  <1>7. CASE UNCHANGED vars
    BY Zenon, <1>1, <1>7 DEF vars, Reseeding
  <1> QED
    BY Zenon, <1>2, <1>3, <1>4, <1>5, <1>6, <1>7 DEF AnyNext

\* APPEND and BULK ACK the log of their session, which has its content.
LEMMA AckNames ==
  ASSUME IInv, NEW t \in Thread, AppendCheck(t) \/ AppendDone(t) \/ BulkDone(t),
         reply'[t].kind = "Ack", pc'[t] \in {"flush", "reply"}
  PROVE  /\ pc[t] \in {"check", "apply", "store"} /\ UNCHANGED <<mem, disk, torn, walError>>
         /\ reply'[t].root = session_root(mem, req[t].s)
         /\ session_root(mem, req[t].s) = session_ids(mem, req[t].s)
         /\ Range(session_ids(mem, req[t].s)) \subseteq mem.blocks
  <1> DEFINE f == req[t]
  <1>1. /\ mem \in Image /\ sess \in [Session -> SessionState] /\ f.s \in Session
        /\ f.ids \in Seq(BlockId) /\ pc \in [Thread -> PC] /\ reply \in [Thread -> Reply]
    BY Zenon DEF IInv, TypeOK, Frame
  <1>2. session_root(mem, f.s) = session_ids(mem, f.s) /\ ThreadInv(t)
    BY Zenon, <1>1 DEF IInv, RootMatchesLog, Sound
  <1>3. \A label : Goto(t, label) => pc'[t] = label
    BY Zenon, <1>1 DEF Goto
  <1>4. \A label, r : Answer(t, label, r) => pc'[t] = label /\ reply'[t] = r
    BY Zenon, <1>1, <1>3 DEF Answer
  <1>5. Conflict.kind # "Ack" /\ Failed.kind # "Ack" /\ NoContent.kind # "Ack"
        /\ \A root : Ack(root).root = root
    BY Zenon DEF Conflict, Failed, NoContent, Ack
  <1>6. UNCHANGED <<mem, disk, torn, walError>>
    BY ZenonT(60) DEF AppendCheck, AppendDone, BulkDone, memVars, walVars
  <1>7. CASE AppendCheck(t)
    <2>1. pc[t] = "check"
      BY Zenon, <1>7 DEF AppendCheck
    <2>2. sess[f.s].pending = {} /\ reply'[t].root = session_root(mem, f.s)
      BY Zenon, <1>1, <1>3, <1>4, <1>5, <1>7, EntryPending DEF AppendCheck
    <2> QED
      BY Zenon, <1>2, <1>6, <2>1, <2>2, LockedSees DEF Locked
  <1>8. CASE AppendDone(t)
    <2>1. pc[t] = "apply" /\ reply'[t].root = session_root(mem, f.s)
      BY Zenon, <1>4, <1>5, <1>8 DEF AppendDone, memVars
    <2> QED
      BY ZenonT(60), <1>2, <1>6, <2>1, LockedSees DEF Locked, Applying, ThreadInv
  <1>9. CASE BulkDone(t)
    <2>1. /\ pc[t] = "store" /\ done[t] = Len(f.ids)
          /\ sess[f.s].pending \ Range(f.ids) = {}
          /\ reply'[t].root = session_root(mem, f.s)
      BY Zenon, <1>4, <1>5, <1>9 DEF BulkDone
    <2>2. Range(f.ids) \subseteq mem.blocks
      BY SMTT(60), <1>1, <1>2, <2>1 DEF ThreadInv, Range
    <2> QED
      BY Zenon, <1>2, <1>6, <2>1, <2>2, LockedSees DEF Locked
  <1> QED
    BY Zenon, <1>7, <1>8, <1>9

LEMMA AckSelf ==
  ASSUME IInv, NEW t \in Thread, Step(t), pc'[t] \in {"flush", "reply"},
         reply'[t].kind = "Ack", req[t].kind # "Resync"
  PROVE  Range(reply'[t].root) \subseteq mem'.blocks
  <1> DEFINE f == req[t]
  <1>1. /\ mem \in Image /\ sess \in [Session -> SessionState] /\ f.s \in Session
        /\ f.ids \in Seq(BlockId) /\ pc \in [Thread -> PC] /\ reply \in [Thread -> Reply]
    BY Zenon DEF IInv, TypeOK, Frame
  <1>2. session_root(mem, f.s) = session_ids(mem, f.s) /\ ThreadInv(t)
    BY Zenon, <1>1 DEF IInv, RootMatchesLog, Sound
  <1>3. \A label : Goto(t, label) => pc'[t] = label
    BY Zenon, <1>1 DEF Goto
  <1>4. \A label, r : Answer(t, label, r) => pc'[t] = label /\ reply'[t] = r
    BY Zenon, <1>1, <1>3 DEF Answer
  <1>5. Conflict.kind # "Ack" /\ Failed.kind # "Ack" /\ NoContent.kind # "Ack"
        /\ \A root : Ack(root).root = root
    BY Zenon DEF Conflict, Failed, NoContent, Ack
  <1>6. CASE AppendCheck(t) \/ AppendDone(t) \/ BulkDone(t)
    <2>1. /\ reply'[t].root = session_ids(mem, f.s) /\ mem' = mem
          /\ Range(session_ids(mem, f.s)) \subseteq mem.blocks
      BY Zenon, <1>6, AckNames
    <2> QED
      BY Zenon, <2>1
  <1>7. CASE Flush(t)
    <2>1. pc[t] = "flush" /\ mem' = mem /\ reply'[t] = reply[t]
      BY Zenon, <1>4, <1>5, <1>7 DEF Flush, memVars
    <2> QED
      BY Zenon, <2>1 DEF IInv, AckHasContent
  <1>8. CASE ResyncNote(t) \/ ResyncRoot(t)
    <2>1. pc[t] \in {"note", "root"}
      BY ZenonT(60), <1>8 DEF ResyncNote, ResyncRoot
    <2> QED
      BY Zenon, <1>2, <2>1 DEF ThreadInv
  <1>9. CASE AppendApply(t) \/ AppendLog(t) \/ ResyncSeed(t) \/ ResyncLog(t) \/ BulkLog(t)
              \/ BulkStore(t) \/ \E latch, next \in Locked : LatchError(t, latch, next)
    BY ZenonT(60), <1>1, <1>3, <1>9 DEF AppendApply, AppendLog, ResyncSeed, ResyncLog, BulkLog, BulkStore,
                             LatchError, WriteRecord, Locked
  <1> QED
    BY Zenon, <1>6, <1>7, <1>8, <1>9 DEF Step, Locked

LEMMA AckStep == IInv /\ [AnyNext]_vars => AckHasContent'
  <1> SUFFICES ASSUME IInv, [AnyNext]_vars, NEW u \in Thread, pc'[u] \in {"flush", "reply"},
                      reply'[u].kind = "Ack", req'[u].kind # "Resync"
               PROVE  Range(reply'[u].root) \subseteq mem'.blocks
    BY Zenon DEF AckHasContent
  <1>1. ASSUME pc'[u] = pc[u], reply'[u] = reply[u], req'[u] = req[u],
               mem.blocks \subseteq mem'.blocks
        PROVE  Range(reply'[u].root) \subseteq mem'.blocks
    BY Zenon, <1>1 DEF IInv, AckHasContent
  <1>2. ASSUME NEW t \in Thread, Step(t)
        PROVE  Range(reply'[u].root) \subseteq mem'.blocks
    <2>1. CASE u = t
      BY Zenon, <1>2, <2>1, AckSelf, StepShape DEF IInv
    <2>2. CASE u # t
      BY SMTT(60), <1>1, <1>2, <2>2, StepShape, StepStore DEF IInv
    <2> QED
      BY Zenon, <2>1, <2>2
  <1>3. ASSUME NEW t \in Thread, Respond(t)
        PROVE  Range(reply'[u].root) \subseteq mem'.blocks
    <2>1. u # t
      BY Zenon, <1>3 DEF Respond, Goto, IInv, TypeOK
    <2> QED
      BY Zenon, <1>1, <1>3, <2>1 DEF Respond, Goto, IInv, TypeOK, memVars
  <1>4. ASSUME NEW t \in Thread, NEW f \in WellFormed, Handle(t, f)
        PROVE  Range(reply'[u].root) \subseteq mem'.blocks
    <2>1. PICK label : Begin(t, f, label)
      BY ZenonT(60), <1>4 DEF Handle, AppendBegin, ResyncBegin, BulkBegin
    <2>2. u # t
      <3>1. SUFFICES ASSUME u = t PROVE FALSE
        BY Zenon
      <3>2. AppendBegin(t, f) /\ MissingRef(f) /\ reply'[t] = Conflict
        BY Zenon, <1>4, <3>1 DEF Handle, AppendBegin, ResyncBegin, BulkBegin, Begin, Goto, IInv, TypeOK
      <3> QED
        BY <3>1, <3>2 DEF Conflict
    <2>3. pc'[u] = pc[u] /\ req'[u] = req[u]
      BY ZenonT(60), <2>1, <2>2 DEF Begin, Goto, IInv, TypeOK
    <2>4. reply'[u] = reply[u] /\ mem' = mem
      BY ZenonT(60), <1>4, <2>2 DEF Handle, AppendBegin, ResyncBegin, BulkBegin, IInv, TypeOK, memVars
    <2> QED
      BY Zenon, <1>1, <2>3, <2>4
  <1>5. CASE Readyz
    BY ZenonT(60), <1>1, <1>5 DEF Readyz, memVars, runVars
  <1>6. CASE Crash \/ Shutdown
    BY Zenon, <1>6, RestartIdle
  <1>7. CASE UNCHANGED vars
    BY ZenonT(60), <1>1, <1>7 DEF vars
  <1> QED
    BY Zenon, <1>2, <1>3, <1>4, <1>5, <1>6, <1>7 DEF AnyNext

-----------------------------------------------------------------------------
\* How a handler enters and leaves.
LEMMA HandleShape ==
  ASSUME TypeOK, NEW t \in Thread, NEW f, Handle(t, f)
  PROVE  /\ pc[t] = "idle" /\ UNCHANGED <<mem, disk, torn>> /\ MutationLockFree(f.s)
         /\ req' = [req EXCEPT ![t] = f] /\ done' = [done EXCEPT ![t] = 0]
         /\ \A u \in Thread \ {t} : /\ pc'[u] = pc[u] /\ reply'[u] = reply[u]
                                    /\ req'[u] = req[u] /\ done'[u] = done[u]
         /\ \/ f.kind = "Append" /\ pc'[t] \in {"check", "reply"}
            \/ f.kind = "Resync" /\ pc'[t] = "seed"
            \/ f.kind = "Bulk" /\ pc'[t] = "store"
         /\ pc'[t] = "reply" => reply'[t] = Conflict
  <1>1. /\ pc \in [Thread -> PC] /\ req \in [Thread -> Frame]
        /\ done \in [Thread -> Nat] /\ reply \in [Thread -> Reply]
    BY Zenon DEF TypeOK
  <1>2. CASE AppendBegin(t, f)
    BY Zenon, <1>1, <1>2 DEF AppendBegin, Begin, Goto, memVars, walVars
  <1>3. CASE ResyncBegin(t, f)
    BY Zenon, <1>1, <1>3 DEF ResyncBegin, Begin, Goto, memVars, walVars
  <1>4. CASE BulkBegin(t, f)
    BY Zenon, <1>1, <1>4 DEF BulkBegin, Begin, Goto, walVars
  <1> QED
    BY Zenon, <1>2, <1>3, <1>4 DEF Handle

LEMMA RespondShape ==
  ASSUME TypeOK, NEW t \in Thread, Respond(t)
  PROVE  /\ pc[t] = "reply" /\ pc'[t] = "idle" /\ UNCHANGED <<mem, disk, torn>>
         /\ \A u \in Thread \ {t} : /\ pc'[u] = pc[u] /\ reply'[u] = reply[u]
                                    /\ req'[u] = req[u] /\ done'[u] = done[u]
  BY Zenon DEF Respond, TypeOK, Goto, memVars, walVars

-----------------------------------------------------------------------------
\* What an APPEND relies on survives the steps of others, if its session's log
\* does while it applies its blocks.
LEMMA AppendKept ==
  ASSUME NEW u \in Thread, AppendInv(u),
         pc'[u] = pc[u], req'[u] = req[u], done'[u] = done[u], reply'[u] = reply[u],
         mem.blocks \subseteq mem'.blocks,
         pc[u] \in Applying => session_ids(mem', req[u].s) = session_ids(mem, req[u].s)
  PROVE  AppendInv(u)'
  <1>1. ASSUME Resolved(req[u], done[u]) PROVE Resolved(req[u], done[u])'
    BY <1>1 DEF Resolved
  <1> QED
    BY Zenon, <1>1 DEF AppendInv

\* The next block of a resolved frame is inline or known, and what is left
\* stays resolved.
LEMMA ResolvedNext ==
  ASSUME NEW f \in Frame, NEW n \in Nat, n + 1 <= Len(f.ids), Resolved(f, n),
         mem \in Image, mem' \in Image,
         mem' = IF n + 1 \in f.refs THEN reference(mem, f.s, f.ids[n + 1])
                                    ELSE insert_with_id(mem, f.s, f.ids[n + 1])
  PROVE  /\ session_ids(mem', f.s) = Append(session_ids(mem, f.s), f.ids[n + 1])
         /\ Resolved(f, n + 1)'
  <1>1. PICK id : id = f.ids[n + 1]
    BY Zenon
  <1>2. f.s \in Session /\ f.ids \in Seq(BlockId) /\ f.refs \subseteq Nat
    BY Zenon DEF Frame
  <1>3. id \in BlockId /\ n + 1 \in DOMAIN f.ids
    BY <1>1, <1>2, IndexType
  <1>4. CASE n + 1 \in f.refs
    <2>1. id \in mem.blocks
      <3>1. \A j \in (n + 1)..((n + 1) - 1) : FALSE
        OBVIOUS
      <3> QED
        BY <1>1, <1>3, <1>4, <3>1 DEF Resolved
    <2>2. mem' = LogAppend(mem, f.s, id)
      BY Zenon, <1>1, <1>4, <2>1 DEF reference, contains
    <2>3. session_ids(mem', f.s) = Append(session_ids(mem, f.s), id) /\ mem'.blocks = mem.blocks
      BY <1>2, <1>3, <2>2, OwnLog
    <2>4. ASSUME NEW i \in DOMAIN f.ids \cap f.refs, ~(i <= n + 1), f.ids[i] \notin mem'.blocks
          PROVE  \E j \in ((n + 1) + 1)..(i - 1) : j \notin f.refs /\ f.ids[j] = f.ids[i]
      <3>1. i \in Nat /\ ~(i <= n)
        BY <1>2, <2>4
      <3>2. PICK j \in (n + 1)..(i - 1) : j \notin f.refs /\ f.ids[j] = f.ids[i]
        BY Zenon, <2>3, <2>4, <3>1 DEF Resolved
      <3>3. j # n + 1
        BY Zenon, <1>4, <3>2
      <3> QED
        BY <3>1, <3>2, <3>3
    <2> QED
      BY Zenon, <1>1, <2>3, <2>4 DEF Resolved
  <1>5. CASE n + 1 \notin f.refs
    <2>1. mem' = insert_with_id(mem, f.s, id)
      BY Zenon, <1>1, <1>5
    <2>2. /\ session_ids(mem', f.s) = Append(session_ids(mem, f.s), id)
          /\ mem'.blocks = mem.blocks \cup {id}
      BY <1>2, <1>3, <2>1, OwnLog
    <2>3. ASSUME NEW i \in DOMAIN f.ids \cap f.refs, ~(i <= n + 1), f.ids[i] \notin mem'.blocks
          PROVE  \E j \in ((n + 1) + 1)..(i - 1) : j \notin f.refs /\ f.ids[j] = f.ids[i]
      <3>1. i \in Nat /\ ~(i <= n) /\ f.ids[i] \notin mem.blocks /\ f.ids[i] # id
        BY <1>2, <2>2, <2>3
      <3>2. PICK j \in (n + 1)..(i - 1) : j \notin f.refs /\ f.ids[j] = f.ids[i]
        BY Zenon, <2>3, <3>1 DEF Resolved
      <3>3. j # n + 1
        BY Zenon, <1>1, <3>1, <3>2
      <3> QED
        BY SMTT(60), <3>1, <3>2, <3>3
    <2> QED
      BY Zenon, <1>1, <2>2, <2>3 DEF Resolved
  <1> QED
    BY Zenon, <1>4, <1>5
LEMMA AppendSelf ==
  ASSUME IInv, NEW t \in Thread, Step(t)
  PROVE  AppendInv(t)'
  <1>1. /\ pc \in [Thread -> PC] /\ req \in [Thread -> Frame] /\ done \in [Thread -> Nat]
        /\ reply \in [Thread -> Reply] /\ mem \in Image
    BY Zenon DEF IInv, TypeOK
  <1>2. req' = req /\ pc[t] \in Locked \cup {"root", "flush"}
    BY Zenon, StepShape DEF IInv
  <1>3. PICK f : f = req[t]
    BY Zenon
  <1>4. /\ f \in Frame /\ f.s \in Session /\ f.base \in Seq(BlockId) /\ f.ids \in Seq(BlockId)
        /\ done[t] \in Nat
    BY Zenon, <1>1, <1>3 DEF Frame, Root
  <1>5. session_root(mem, f.s) = session_ids(mem, f.s)
    BY Zenon, <1>4 DEF IInv, RootMatchesLog, Sound
  <1>6. AppendInv(t) /\ ThreadInv(t)
    BY Zenon DEF IInv
  <1>7. ASSUME UNCHANGED <<mem, done>>, Resolved(req[t], done[t]) PROVE Resolved(req[t], done[t])'
    BY Zenon, <1>2, <1>7 DEF Resolved
  <1>8. CASE AppendCheck(t)
    <2>1. done[t] = 0 /\ f.kind = "Append" /\ UNCHANGED <<mem, done>>
      BY Zenon, <1>3, <1>6, <1>8 DEF AppendCheck, AppendInv
    <2>2. \/ pc'[t] = "reply" /\ reply'[t] = Conflict
          \/ pc'[t] = "flush" /\ reply'[t] = Ack(root_over(f.base, f.ids))
          \/ pc'[t] = "apply" /\ f.base = session_root(mem, f.s)
      BY <1>1, <1>3, <1>4, <1>8 DEF AppendCheck, Answer, Goto
    <2>3. f.base \o SubSeq(f.ids, 1, 0) = f.base /\ 0 <= Len(f.ids)
      BY <1>4
    <2>5. pc[t] = "check"
      BY Zenon, <1>8 DEF AppendCheck
    <2>4. Conflict.kind = "Conflict" /\ Ack(root_over(f.base, f.ids)).root = root_over(f.base, f.ids)
      BY Zenon DEF Conflict, Ack
    <2> QED
      BY Zenon, <1>2, <1>3, <1>5, <1>6, <1>7, <2>1, <2>2, <2>3, <2>4, <2>5 DEF AppendInv, Applying
  <1>9. CASE AppendApply(t)
    <2>1. PICK i : i = done[t] + 1
      BY Zenon
    <2>2. /\ pc[t] = "apply" /\ i <= Len(f.ids) /\ done'[t] = i /\ pc'[t] = "applyLog"
          /\ mem' = IF i \in f.refs THEN reference(mem, f.s, f.ids[i]) ELSE insert_with_id(mem, f.s, f.ids[i])
      BY Zenon, <1>1, <1>3, <1>9, <2>1 DEF AppendApply, Goto
    <2>3. /\ f.kind = "Append" /\ Resolved(f, done[t])
          /\ session_ids(mem, f.s) = f.base \o SubSeq(f.ids, 1, done[t])
      BY Zenon, <1>3, <1>6, <2>2 DEF AppendInv, Applying
    <2>4. mem' \in Image
      BY Zenon, <1>4, <2>1, <2>2, IndexType, InsertType, ReferenceType, <1>1
    <2>5. session_ids(mem', f.s) = Append(session_ids(mem, f.s), f.ids[i]) /\ Resolved(f, i)'
      BY Zenon, <1>1, <1>4, <2>1, <2>2, <2>3, <2>4, ResolvedNext
    <2>6. Append(f.base \o SubSeq(f.ids, 1, done[t]), f.ids[done[t] + 1]) = f.base \o SubSeq(f.ids, 1, done[t] + 1)
      BY Zenon, <1>4, <2>1, <2>2, PartNext
    <2> QED
      BY Zenon, <1>2, <1>3, <2>1, <2>2, <2>3, <2>5, <2>6 DEF AppendInv
  <1>10. CASE AppendLog(t)
    <2>1. pc[t] = "applyLog" /\ pc'[t] \in {"apply", "applyLatch"} /\ UNCHANGED <<mem, done>>
      BY Zenon, <1>1, <1>10 DEF AppendLog, WriteRecord, Goto, memVars, runVars
    <2> QED
      BY Zenon, <1>2, <1>6, <1>7, <2>1 DEF AppendInv, Applying
  <1>11. CASE AppendDone(t)
    <2>1. /\ pc[t] = "apply" /\ done[t] = Len(f.ids) /\ pc'[t] = "flush"
          /\ reply'[t] = Ack(session_root(mem, f.s))
      BY Zenon, <1>1, <1>3, <1>4, <1>11 DEF AppendDone, Answer, Goto
    <2>2. session_ids(mem, f.s) = f.base \o SubSeq(f.ids, 1, Len(f.ids))
      BY Zenon, <1>3, <1>6, <2>1 DEF AppendInv, Applying
    <2>3. SubSeq(f.ids, 1, Len(f.ids)) = f.ids
      BY Zenon, <1>4, SubSeqFull
    <2>4. reply'[t].root = root_over(f.base, f.ids)
      <3>1. reply'[t].root = session_ids(mem, f.s)
        BY <1>5, <2>1 DEF Ack
      <3> QED
        BY ZenonT(60), <2>2, <2>3, <3>1 DEF root_over
    <2> QED
      BY Zenon, <1>2, <1>3, <2>1, <2>4 DEF AppendInv, Applying
  <1>12. CASE LatchError(t, "applyLatch", "apply")
    <2>1. pc[t] = "applyLatch" /\ pc'[t] = "apply" /\ UNCHANGED <<mem, done>>
      BY Zenon, <1>1, <1>12 DEF LatchError, Goto, memVars, runVars
    <2> QED
      BY Zenon, <1>2, <1>6, <1>7, <2>1 DEF AppendInv, Applying
  <1>13. CASE ResyncSeed(t) \/ ResyncLog(t) \/ ResyncNote(t) \/ ResyncRoot(t) \/ LatchError(t, "seedLatch", "note")
    <2>1. pc[t] \in {"seed", "seedLog", "seedLatch", "note", "root"}
          /\ pc'[t] \in {"seedLog", "seedLatch", "note", "root", "flush"}
      BY Zenon, <1>1, <1>13 DEF ResyncSeed, ResyncLog, ResyncNote, ResyncRoot, LatchError, WriteRecord, Answer, Goto
    <2>2. req[t].kind = "Resync"
      BY Zenon, <1>6, <2>1 DEF ThreadInv
    <2> QED
      BY Zenon, <1>2, <2>1, <2>2 DEF AppendInv, Applying
  <1>14. CASE BulkStore(t) \/ BulkLog(t) \/ BulkDone(t) \/ LatchError(t, "storeLatch", "store")
    <2>1. pc[t] \in {"store", "storeLog", "storeLatch"}
          /\ pc'[t] \in {"store", "storeLog", "storeLatch", "flush"}
      BY Zenon, <1>1, <1>14 DEF BulkStore, BulkLog, BulkDone, LatchError, WriteRecord, Answer, Goto
    <2>2. req[t].kind = "Bulk"
      BY Zenon, <1>6, <2>1 DEF AppendInv
    <2> QED
      BY Zenon, <1>2, <2>1, <2>2 DEF AppendInv, Applying
  <1>15. CASE Flush(t)
    <2>1. pc[t] = "flush" /\ pc'[t] = "reply" /\ (reply'[t] = reply[t] \/ reply'[t] = Failed)
      BY Zenon, <1>1, <1>15 DEF Flush, Answer, Goto
    <2>2. Failed.kind = "Failed"
      BY Zenon DEF Failed
    <2> QED
      BY Zenon, <1>2, <1>6, <2>1, <2>2 DEF AppendInv, Applying
  <1> QED
    BY Zenon, <1>8, <1>9, <1>10, <1>11, <1>12, <1>13, <1>14, <1>15 DEF Step


LEMMA AppendStep == IInv /\ [AnyNext]_vars => \A u \in Thread : AppendInv(u)'
  <1> SUFFICES ASSUME IInv, [AnyNext]_vars, NEW u \in Thread PROVE AppendInv(u)'
    BY Zenon
  <1>1. TypeOK /\ AppendInv(u) /\ LocksExclusive /\ pc \in [Thread -> PC]
    BY Zenon DEF IInv, TypeOK
  <1>2. ASSUME NEW t \in Thread, Step(t) PROVE AppendInv(u)'
    <2>1. CASE u = t
      BY Zenon, <1>2, <2>1, AppendSelf
    <2>2. CASE u # t
      <3>1. /\ req' = req /\ pc'[u] = pc[u] /\ done'[u] = done[u] /\ reply'[u] = reply[u]
        BY Zenon, <1>1, <1>2, <2>2, StepShape
      <3>2. ASSUME pc[u] \in Applying PROVE session_ids(mem', req[u].s) = session_ids(mem, req[u].s)
        <4>1. pc[u] \in Locked /\ req[u].s \in Session
          BY Zenon, <1>1, <3>2 DEF Applying, Locked, TypeOK, Frame
        <4>2. CASE pc[t] \in Locked
          <5>1. req[u].s # req[t].s
            BY Zenon, <1>1, <2>2, <4>1, <4>2 DEF LocksExclusive
          <5> QED
            BY Zenon, <1>2, <4>1, <5>1, StepStore
        <4>3. CASE pc[t] \notin Locked
          BY Zenon, <1>2, <4>3, StepStore
        <4> QED
          BY Zenon, <4>2, <4>3
      <3>3. mem.blocks \subseteq mem'.blocks
        BY Zenon, <1>2, StepStore
      <3> QED
        BY Zenon, <1>1, <3>1, <3>2, <3>3, AppendKept
    <2> QED
      BY Zenon, <2>1, <2>2
  <1>3. ASSUME NEW t \in Thread, Respond(t) PROVE AppendInv(u)'
    <2>1. CASE u = t
      BY Zenon, <1>1, <1>3, <2>1, RespondShape DEF AppendInv, Applying
    <2>2. CASE u # t
      BY Zenon, <1>1, <1>3, <2>2, RespondShape, AppendKept
    <2> QED
      BY Zenon, <2>1, <2>2
  <1>4. ASSUME NEW t \in Thread, NEW f \in WellFormed, Handle(t, f) PROVE AppendInv(u)'
    <2>1. CASE u = t
      <3>1. req'[u] = f /\ done'[u] = 0 /\ mem' = mem
        <4>1. req \in [Thread -> Frame] /\ done \in [Thread -> Nat]
          BY Zenon, <1>1 DEF TypeOK
        <4>2. req' = [req EXCEPT ![t] = f] /\ done' = [done EXCEPT ![t] = 0] /\ mem' = mem
          BY Zenon, <1>1, <1>4, HandleShape
        <4> QED
          BY Zenon, <2>1, <4>1, <4>2
      <3>2. \/ f.kind = "Append" /\ pc'[u] \in {"check", "reply"}
            \/ f.kind = "Resync" /\ pc'[u] = "seed"
            \/ f.kind = "Bulk" /\ pc'[u] = "store"
        BY Zenon, <1>1, <1>4, <2>1, HandleShape
      <3>3. pc'[u] = "reply" => reply'[u].kind # "Ack"
        <4>1. Conflict.kind # "Ack"
          BY Zenon DEF Conflict
        <4> QED
          BY Zenon, <1>1, <1>4, <2>1, <4>1, HandleShape
      <3>4. ASSUME pc'[u] = "check" PROVE Resolved(f, 0)'
        <4>1. ~MissingRef(f)
          BY Zenon, <1>1, <1>4, <2>1, <3>4 DEF Handle, AppendBegin, ResyncBegin, BulkBegin, Begin, Goto
        <4>2. f.ids \in Seq(BlockId) /\ f.refs \subseteq Nat
          BY Zenon DEF WellFormed, Frame
        <4> QED
          BY <3>1, <4>1, <4>2 DEF MissingRef, Resolved, contains
      <3> QED
        BY Zenon, <3>1, <3>2, <3>3, <3>4 DEF AppendInv, Applying
    <2>2. CASE u # t
      <3>1. /\ pc'[u] = pc[u] /\ reply'[u] = reply[u] /\ req'[u] = req[u] /\ done'[u] = done[u]
            /\ mem' = mem
        BY ZenonT(60), <1>1, <1>4, <2>2, HandleShape
      <3> QED
        BY Zenon, <1>1, <3>1, AppendKept
    <2> QED
      BY Zenon, <2>1, <2>2
  <1>5. CASE Readyz
    BY Zenon, <1>1, <1>5, AppendKept DEF Readyz, memVars, runVars
  <1>6. CASE Crash \/ Shutdown
    BY Zenon, <1>6, RestartIdle DEF AppendInv, Applying
  <1>7. CASE UNCHANGED vars
    BY Zenon, <1>1, <1>7, AppendKept DEF vars
  <1> QED
    BY Zenon, <1>2, <1>3, <1>4, <1>5, <1>6, <1>7 DEF AnyNext

-----------------------------------------------------------------------------
LEMMA InitInv == Init => IInv
  <1> SUFFICES ASSUME Init PROVE IInv
    BY Zenon
  <1>1. TypeOK
    BY Zenon, InitType
  <1>2. \A t \in Thread : pc[t] = "idle" /\ due[t] = NoRecord
    BY Zenon DEF Init
  <1>3. Sound(EmptyStore)
    BY Zenon DEF Sound, EmptyStore, NoSessionLog, session_root, session_ids, ROOT_ZERO
  <1>4. RootMatchesLog
    <2>1. disk = <<EmptyStore>> /\ mem = EmptyStore
      BY Zenon DEF Init
    <2>2. \A n \in 1..Len(disk) : disk[n] = EmptyStore
      BY SMTT(60), <2>1
    <2> QED
      BY <1>2, <1>3, <2>1, <2>2, SMTT(30) DEF RootMatchesLog, NoRecord, SeedRecord, ROOT_ZERO
  <1>5. LocksExclusive /\ \A t \in Thread : ThreadInv(t) /\ AppendInv(t)
    BY Zenon, <1>2 DEF LocksExclusive, ThreadInv, AppendInv, Locked, Applying
  <1>6. MissingIsPending
    BY Zenon, EmptyStoreType, RecoveredWaits DEF MissingIsPending, Init
  <1>7. AckHasContent
    BY Zenon, <1>2 DEF AckHasContent
  <1> QED
    BY Zenon, <1>1, <1>4, <1>5, <1>6, <1>7 DEF IInv

(***************************************************************************)
(* The invariant behind the next two theorems is inductive: the handlers,  *)
(* the WAL, readiness probes, crashes and restarts all preserve it.        *)
(***************************************************************************)
LEMMA InvStep == IInv /\ [AnyNext]_vars => IInv'
  <1> SUFFICES ASSUME IInv, [AnyNext]_vars PROVE IInv'
    BY Zenon
  <1>1. TypeOK'
    BY Zenon, NextType DEF IInv
  <1>2. \A t \in Thread : ThreadInv(t)' /\ AppendInv(t)'
    BY Zenon, ThreadStep, AppendStep
  <1> QED
    BY Zenon, <1>1, <1>2, RootStep, LockStep, MissingStep, AckStep DEF IInv

\* Every reachable state of the receiver satisfies it.
THEOREM Invariance == Spec => []IInv
  BY InitInv, InvStep, NextIsAny, PTL DEF Spec

(***************************************************************************)
(* Whatever handlers run at once, however often clients repeat their       *)
(* frames and wherever the process crashes, content a session log names    *)
(* and the store lacks is in the session's pending set.                    *)
(***************************************************************************)
THEOREM MissingContentIsAwaited == Spec => []MissingIsPending
  <1>1. IInv => MissingIsPending
    BY Zenon DEF IInv
  <1> QED
    BY <1>1, Invariance, PTL

(***************************************************************************)
(* An APPEND or a cold-start completion is never ACKed with a root the     *)
(* receiver could not reconstruct.                                         *)
(***************************************************************************)
THEOREM AckedRootsHaveContent == Spec => []AckHasContent
  <1>1. IInv => AckHasContent
    BY Zenon DEF IInv
  <1> QED
    BY <1>1, Invariance, PTL

(***************************************************************************)
(* The root an APPEND is ACKed with is the one its client computes: the    *)
(* frame's base with exactly the frame's blocks on it, whether they are    *)
(* applied now or were by the same frame before (handle_append).           *)
(***************************************************************************)
THEOREM AppendsAckTheirBlocks ==
  Spec => [](\A t \in Thread :
               (pc[t] = "reply" /\ reply[t].kind = "Ack" /\ req[t].kind = "Append")
                  => reply[t].root = root_over(req[t].base, req[t].ids))
  <1>1. IInv => \A t \in Thread :
                  (pc[t] = "reply" /\ reply[t].kind = "Ack" /\ req[t].kind = "Append")
                     => reply[t].root = root_over(req[t].base, req[t].ids)
    BY Zenon DEF IInv, AppendInv
  <1> QED
    BY <1>1, Invariance, PTL
=============================================================================
