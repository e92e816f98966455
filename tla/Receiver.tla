------------------------------ MODULE Receiver ------------------------------
(***************************************************************************)
(* The receiver (receiver/src/lib.rs) behind the sidecar's HTTP handlers   *)
(* (sidecar/src/lib.rs), with its durable store: threads run the handlers  *)
(* for APPEND, RESYNC and BULK frames concurrently, every step between two *)
(* accesses to shared state is an action, and the process may crash        *)
(* between any two of them.                                                *)
(*                                                                         *)
(* Two kinds of lock order the steps.  A handler holds the mutation lock   *)
(* of its session from Begin until its reply is known; an APPEND also      *)
(* holds the global sessions lock while it applies its blocks, RESYNC and  *)
(* BULK take it for one step.  Both are read off the program counters.     *)
(*                                                                         *)
(* The WAL file is kept as what replay makes of it: disk[n + 1] is the     *)
(* store rebuilt from the first n records.  Appending a record replays it  *)
(* onto the last image, recovery from n records is a lookup.               *)
(***************************************************************************)
EXTENDS ContentStore

CONSTANTS
  Thread,      \* request threads of the sidecar
  Frames,      \* the frames clients may send, any number of times
  SyncWal,     \* DLR_SYNC_WAL: fsync before an ACK is exposed
  MaxWal,      \* bound: a new handler starts only below this many records
  MaxFaults,   \* bound: WAL write or flush errors
  MaxCrashes   \* bound: restarts

VARIABLES
  mem,      \* the in-memory store
  sess,     \* Receiver.sessions: the cold-start bookkeeping
  disk,     \* images of the WAL's prefixes, see above
  flushed,  \* records the operating system has
  synced,   \* records an fsync covers
  torn,     \* a record was cut short by a write error, others may follow it
  walError, \* the latched WAL error
  pc,       \* where each thread is
  req,      \* the frame a thread handles
  done,     \* how many of its blocks have been applied or stored
  due,      \* the record a thread is about to append to the WAL
  miss,     \* handle_resync's missing ids
  reply,    \* what the thread will answer
  exposed,  \* history: the ACKs that left the sidecar
  faults,   \* WAL errors so far
  crashes   \* restarts so far

memVars  == <<mem, sess>>
walVars  == <<disk, flushed, synced, torn, walError>>
runVars  == <<req, done, due, miss, reply>>
histVars == <<exposed, faults, crashes>>
vars == <<mem, sess, disk, flushed, synced, torn, walError,
          pc, req, done, due, miss, reply, exposed, faults, crashes>>

-----------------------------------------------------------------------------
(***************************************************************************)
(* Frames.  An APPEND has a base root and block ids, the ones at the       *)
(* positions in refs sent as references.  A RESYNC's ids are the manifest  *)
(* and its base is client_root.  A BULK frame carries the content of ids,  *)
(* a whole generation: the shim puts all k systematic symbols in a frame.  *)
(***************************************************************************)
Frame == [kind: {"Append", "Resync", "Bulk"}, s: Session,
          base: Root, ids: Seq(BlockId), refs: SUBSET Nat]

ASSUME FramesAssumption ==
  /\ Frames \subseteq Frame
  /\ \A f \in Frames : f.kind = "Resync" => f.base = f.ids
  /\ Session # {}
  /\ SyncWal \in BOOLEAN

\* What the registers of an idle thread hold; nothing reads them.
NoFrame == [kind |-> "Bulk", s |-> CHOOSE s \in Session : TRUE,
            base |-> ROOT_ZERO, ids |-> <<>>, refs |-> {}]

NoRecord == SeedRecord(NoFrame.s, <<>>, ROOT_ZERO)

NoSession == [live |-> FALSE, pending |-> {}, acked |-> FALSE]

SessionState ==
  {e \in [live: BOOLEAN, pending: SUBSET BlockId, acked: BOOLEAN] :
     e.live \/ e.pending = {}}

NewSession == [live |-> TRUE, pending |-> {}, acked |-> FALSE]

Reply == [kind: {"None", "Ack", "Missing", "Conflict", "Failed"},
          root: Root, ids: SUBSET BlockId]

NoContent == [kind |-> "None", root |-> ROOT_ZERO, ids |-> {}]
Ack(root) == [kind |-> "Ack", root |-> root, ids |-> {}]
Missing(ids) == [kind |-> "Missing", root |-> ROOT_ZERO, ids |-> ids]
Conflict == [kind |-> "Conflict", root |-> ROOT_ZERO, ids |-> {}]
Failed == [kind |-> "Failed", root |-> ROOT_ZERO, ids |-> {}]

\* Program counters at which a thread holds its session's mutation lock.
Locked == {"check", "apply", "applyLog", "seed", "seedLog", "note",
           "store", "storeLog", "applyLatch", "seedLatch", "storeLatch"}

PC == Locked \cup {"idle", "root", "flush", "reply"}

\* ... and at which an APPEND holds the global sessions lock.
Applying == {"apply", "applyLog", "applyLatch"}

\* Mutant: handlers of one session are not serialised.
NoMutationLock(s) == TRUE

MutationLockFree(s) == \A u \in Thread : pc[u] \in Locked => req[u].s # s

SessionsLockFree == \A u \in Thread : pc[u] \notin Applying

Last(images) == images[Len(images)]

Goto(t, label) == pc' = [pc EXCEPT ![t] = label]

\* sessions.entry(session_id).or_insert_with(..)
Entry(s) == IF sess[s].live THEN sess[s] ELSE NewSession

-----------------------------------------------------------------------------
(***************************************************************************)
(* The WAL.  An append that fails leaves a torn record behind, and its     *)
(* error is latched only after the writer lock is released.  What replay   *)
(* makes of records behind a torn one depends on its bytes: it may swallow *)
(* them or find its way back to a record boundary.                         *)
(***************************************************************************)
Appended(rec) ==
  IF torn THEN {Last(disk), replay(Last(disk), rec)}
          ELSE {replay(Last(disk), rec)}

WriteRecord(t, next, latch) ==
  \/ /\ \E im \in Appended(due[t]) : disk' = Append(disk, im)
     /\ Goto(t, next)
     /\ UNCHANGED <<torn, faults>>
  \/ /\ faults < MaxFaults
     /\ faults' = faults + 1
     /\ disk' = Append(disk, Last(disk))
     /\ torn' = TRUE
     /\ Goto(t, latch)

\* Mutant: a failed append is logged and forgotten.
ErrorForgotten(t, latch, next) ==
  /\ pc[t] = latch
  /\ Goto(t, next)
  /\ UNCHANGED <<memVars, walVars, runVars, histVars>>

LatchError(t, latch, next) ==
  /\ pc[t] = latch
  /\ walError' = TRUE
  /\ Goto(t, next)
  /\ UNCHANGED <<memVars, disk, flushed, synced, torn, runVars, histVars>>

-----------------------------------------------------------------------------
(***************************************************************************)
(* Recovery (Receiver::new over ContentStore::with_wal): a logged session  *)
(* waits for the ids of its log whose content is not in the store.         *)
(***************************************************************************)
Recovered(im) ==
  [s \in Session |->
     LET pending == Range(session_ids(im, s)) \ im.blocks
     IN IF im.log[s].live
        THEN [live |-> TRUE, pending |-> pending, acked |-> pending = {}]
        ELSE NoSession]

Init ==
  /\ mem = EmptyStore
  /\ sess = Recovered(EmptyStore)
  /\ disk = <<EmptyStore>>
  /\ flushed = 0 /\ synced = 0
  /\ torn = FALSE /\ walError = FALSE
  /\ pc = [t \in Thread |-> "idle"]
  /\ req = [t \in Thread |-> NoFrame]
  /\ done = [t \in Thread |-> 0]
  /\ due = [t \in Thread |-> NoRecord]
  /\ miss = [t \in Thread |-> {}]
  /\ reply = [t \in Thread |-> NoContent]
  /\ exposed = {} /\ faults = 0 /\ crashes = 0

\* A handler enters: it takes the mutation lock of the frame's session.
Begin(t, f, label) ==
  /\ pc[t] = "idle"
  /\ Len(disk) <= MaxWal
  /\ MutationLockFree(f.s)
  /\ req' = [req EXCEPT ![t] = f]
  /\ done' = [done EXCEPT ![t] = 0]
  /\ Goto(t, label)

Answer(t, label, r) ==
  /\ reply' = [reply EXCEPT ![t] = r]
  /\ Goto(t, label)

-----------------------------------------------------------------------------
(***************************************************************************)
(* handle_append                                                           *)
(***************************************************************************)

\* A reference to content neither in the store nor inline earlier in f.
MissingRef(f) ==
  \E i \in DOMAIN f.ids \cap f.refs :
     /\ ~contains(mem, f.ids[i])
     /\ \A j \in 1..(i - 1) : j \in f.refs \/ f.ids[j] # f.ids[i]

AppendBegin(t, f) ==
  /\ f.kind = "Append"
  /\ IF MissingRef(f)
     THEN /\ Begin(t, f, "reply")
          /\ reply' = [reply EXCEPT ![t] = Conflict]
     ELSE /\ Begin(t, f, "check")
          /\ UNCHANGED reply
  /\ UNCHANGED <<memVars, walVars, due, miss, histVars>>

\* Under the sessions lock, which a frame that passes keeps.
AppendCheck(t) ==
  LET f == req[t]
      current == session_root(mem, f.s)
  IN /\ pc[t] = "check"
     /\ SessionsLockFree
     /\ sess' = [sess EXCEPT ![f.s] = Entry(f.s)]
     /\ \/ /\ Entry(f.s).pending # {}            \* ColdStartInProgress
           /\ Answer(t, "reply", Conflict)
        \/ /\ Entry(f.s).pending = {}
           /\ f.base # current
           /\ IF root_over(f.base, f.ids) = current
              THEN Answer(t, "flush", Ack(current)) \* lost-ACK replay
              ELSE Answer(t, "reply", Conflict)     \* BaseRootMismatch
        \/ /\ Entry(f.s).pending = {}
           /\ f.base = current
           /\ Goto(t, "apply")
           /\ UNCHANGED reply
     /\ UNCHANGED <<mem, walVars, req, done, due, miss, histVars>>

\* insert_with_id or reference, up to their WAL append.
AppendApply(t) ==
  LET f == req[t]
      i == done[t] + 1
      id == f.ids[i]
  IN /\ pc[t] = "apply"
     /\ i <= Len(f.ids)
     /\ IF i \in f.refs
        THEN /\ mem' = reference(mem, f.s, id)
             /\ due' = [due EXCEPT ![t] = BlockRecord("REFERENCE", f.s, id)]
        ELSE /\ mem' = insert_with_id(mem, f.s, id)
             /\ due' = [due EXCEPT ![t] = InsertRecord(mem, f.s, id)]
     /\ done' = [done EXCEPT ![t] = i]
     /\ Goto(t, "applyLog")
     /\ UNCHANGED <<sess, walVars, req, miss, reply, histVars>>

AppendLog(t) ==
  /\ pc[t] = "applyLog"
  /\ WriteRecord(t, "apply", "applyLatch")
  /\ UNCHANGED <<memVars, flushed, synced, walError, runVars, exposed, crashes>>

AppendDone(t) ==
  /\ pc[t] = "apply"
  /\ done[t] = Len(req[t].ids)
  /\ Answer(t, "flush", Ack(session_root(mem, req[t].s)))
  /\ UNCHANGED <<memVars, walVars, req, done, due, miss, histVars>>

-----------------------------------------------------------------------------
(***************************************************************************)
(* handle_resync, and the ACK or MISSING that handle_frame makes of it.    *)
(***************************************************************************)
ResyncBegin(t, f) ==
  /\ f.kind = "Resync"
  /\ Begin(t, f, "seed")
  /\ miss' = [miss EXCEPT ![t] = {id \in Range(f.ids) : ~contains(mem, id)}]
  /\ UNCHANGED <<memVars, walVars, due, reply, histVars>>

ResyncSeed(t) ==
  LET f == req[t]
  IN /\ pc[t] = "seed"
     /\ mem' = seed_session(mem, f.s, f.ids, f.base)
     /\ due' = [due EXCEPT ![t] = SeedRecord(f.s, f.ids, f.base)]
     /\ Goto(t, "seedLog")
     /\ UNCHANGED <<sess, walVars, req, done, miss, reply, histVars>>

ResyncLog(t) ==
  /\ pc[t] = "seedLog"
  /\ WriteRecord(t, "note", "seedLatch")
  /\ UNCHANGED <<memVars, flushed, synced, walError, runVars, exposed, crashes>>

\* The bookkeeping; the mutation lock is released on return.
ResyncNote(t) ==
  LET f == req[t]
  IN /\ pc[t] = "note"
     /\ SessionsLockFree
     /\ sess' = [sess EXCEPT ![f.s] = [live |-> TRUE, pending |-> miss[t],
                                       acked |-> miss[t] = {}]]
     /\ IF miss[t] = {}
        THEN Goto(t, "root") /\ UNCHANGED reply
        ELSE Answer(t, "flush", Missing(miss[t]))
     /\ UNCHANGED <<mem, walVars, req, done, due, miss, histVars>>

\* handle_frame reads the root to ACK after handle_resync gave up its lock.
ResyncRoot(t) ==
  /\ pc[t] = "root"
  /\ Answer(t, "flush", Ack(session_root(mem, req[t].s)))
  /\ UNCHANGED <<memVars, walVars, req, done, due, miss, histVars>>

-----------------------------------------------------------------------------
(***************************************************************************)
(* handle_bulk, for a frame whose generation decodes on arrival.           *)
(***************************************************************************)
BulkBegin(t, f) ==
  /\ f.kind = "Bulk"
  /\ Begin(t, f, "store")
  /\ SessionsLockFree
  /\ sess' = [sess EXCEPT ![f.s] = Entry(f.s)]
  /\ UNCHANGED <<mem, walVars, due, miss, reply, histVars>>

\* store_content_with_id, up to its WAL append; a known block logs nothing.
BulkStore(t) ==
  LET f == req[t]
      i == done[t] + 1
  IN /\ pc[t] = "store"
     /\ i <= Len(f.ids)
     /\ mem' = store_content(mem, f.ids[i])
     /\ done' = [done EXCEPT ![t] = i]
     /\ IF contains(mem, f.ids[i])
        THEN UNCHANGED <<pc, due>>
        ELSE /\ due' = [due EXCEPT ![t] = BlockRecord("CONTENT", f.s, f.ids[i])]
             /\ Goto(t, "storeLog")
     /\ UNCHANGED <<sess, walVars, req, miss, reply, histVars>>

BulkLog(t) ==
  /\ pc[t] = "storeLog"
  /\ WriteRecord(t, "store", "storeLatch")
  /\ UNCHANGED <<memVars, flushed, synced, walError, runVars, exposed, crashes>>

\* Retire the recovered ids; the frame that retires the last one is ACKed.
BulkDone(t) ==
  LET f == req[t]
      pending == sess[f.s].pending \ Range(f.ids)
      completes == pending = {} /\ ~sess[f.s].acked
  IN /\ pc[t] = "store"
     /\ done[t] = Len(f.ids)
     /\ SessionsLockFree
     /\ sess' = [sess EXCEPT ![f.s].pending = pending,
                             ![f.s].acked = @ \/ completes]
     /\ Answer(t, "flush", IF completes THEN Ack(session_root(mem, f.s))
                                        ELSE NoContent)
     /\ UNCHANGED <<mem, walVars, req, done, due, miss, histVars>>

-----------------------------------------------------------------------------
(***************************************************************************)
(* The sidecar's end of a request: flush_wal, then the response.           *)
(***************************************************************************)
\* Mutant: the empty file is counted as a record.
RecordsOffByOne == Len(disk)

Records == Len(disk) - 1

\* A latched error, or one met now and latched, turns the ACK into a 500.
Flush(t) ==
  /\ pc[t] = "flush"
  /\ \/ /\ walError
        /\ Answer(t, "reply", Failed)
        /\ UNCHANGED <<flushed, synced, walError, faults>>
     \/ /\ ~walError
        /\ flushed' = Records
        /\ synced' = IF SyncWal THEN Records ELSE synced
        /\ Goto(t, "reply")
        /\ UNCHANGED <<walError, reply, faults>>
     \/ /\ ~walError
        /\ faults < MaxFaults
        /\ faults' = faults + 1
        /\ walError' = TRUE
        /\ Answer(t, "reply", Failed)
        /\ UNCHANGED <<flushed, synced>>
  /\ UNCHANGED <<memVars, disk, torn, req, done, due, miss, exposed, crashes>>

\* A RESYNC is ACKed with another root than its manifest's, see ResyncRoot.
Moved(t) == req[t].kind = "Resync" /\ reply[t].root # req[t].base

Respond(t) ==
  /\ pc[t] = "reply"
  /\ exposed' = IF reply[t].kind = "Ack"
                THEN exposed \cup {[s |-> req[t].s, root |-> reply[t].root, moved |-> Moved(t)]}
                ELSE exposed
  /\ Goto(t, "idle")
  /\ req' = [req EXCEPT ![t] = NoFrame]
  /\ done' = [done EXCEPT ![t] = 0]
  /\ due' = [due EXCEPT ![t] = NoRecord]
  /\ miss' = [miss EXCEPT ![t] = {}]
  /\ reply' = [reply EXCEPT ![t] = NoContent]
  /\ UNCHANGED <<memVars, walVars, faults, crashes>>

\* The readiness probe hands the buffer to the operating system.
Readyz ==
  /\ ~walError
  /\ flushed # Records
  /\ flushed' = Records
  /\ UNCHANGED <<memVars, disk, synced, torn, walError, pc, runVars, histVars>>

\* A new process over the first n records of the file.
RestartFrom(n) ==
  /\ crashes < MaxCrashes
  /\ crashes' = crashes + 1
  /\ mem' = disk[n + 1]
  /\ sess' = Recovered(disk[n + 1])
  /\ disk' = SubSeq(disk, 1, n + 1)
  /\ flushed' = n
  /\ torn' = FALSE /\ walError' = FALSE
  /\ pc' = [t \in Thread |-> "idle"]
  /\ req' = [t \in Thread |-> NoFrame]
  /\ done' = [t \in Thread |-> 0]
  /\ due' = [t \in Thread |-> NoRecord]
  /\ miss' = [t \in Thread |-> {}]
  /\ reply' = [t \in Thread |-> NoContent]
  /\ UNCHANGED <<exposed, faults>>

\* Records that every crash leaves.
Saved == IF SyncWal THEN synced ELSE flushed

\* A crash keeps what the operating system has or, on a power loss, what
\* was synced, and any longer prefix; a partial last record is truncated.
Crash ==
  \E n \in Saved..Records :
     RestartFrom(n) /\ UNCHANGED synced

\* Graceful shutdown drains the requests and syncs; then a restart.
Shutdown ==
  /\ \A t \in Thread : pc[t] = "idle"
  /\ ~walError
  /\ synced' = Records
  /\ RestartFrom(Records)

Handle(t, f) == AppendBegin(t, f) \/ ResyncBegin(t, f) \/ BulkBegin(t, f)

Step(t) ==
  \/ AppendCheck(t) \/ AppendApply(t) \/ AppendLog(t) \/ AppendDone(t)
  \/ ResyncSeed(t) \/ ResyncLog(t) \/ ResyncNote(t) \/ ResyncRoot(t)
  \/ BulkStore(t) \/ BulkLog(t) \/ BulkDone(t)
  \/ LatchError(t, "applyLatch", "apply")
  \/ LatchError(t, "seedLatch", "note")
  \/ LatchError(t, "storeLatch", "store")
  \/ Flush(t)

Next ==
  \/ \E t \in Thread : Step(t) \/ Respond(t)
  \/ \E t \in Thread, f \in Frames : Handle(t, f)
  \/ Readyz \/ Crash \/ Shutdown

Spec == Init /\ [][Next]_vars

-----------------------------------------------------------------------------
\* im has root for s, with all of its content.
Holds(im, s, root) == session_root(im, s) = root /\ Range(root) \subseteq im.blocks

TypeOK ==
  /\ mem \in Image
  /\ sess \in [Session -> SessionState]
  /\ disk \in Seq(Image) /\ Len(disk) > 0
  /\ synced \in Nat /\ flushed \in Nat
  /\ synced <= flushed /\ flushed < Len(disk)
  /\ torn \in BOOLEAN /\ walError \in BOOLEAN
  /\ pc \in [Thread -> PC]
  /\ req \in [Thread -> Frame]
  /\ done \in [Thread -> Nat]
  /\ due \in [Thread -> Record]
  /\ miss \in [Thread -> SUBSET BlockId]
  /\ reply \in [Thread -> Reply]
  /\ exposed \subseteq [s: Session, root: Root, moved: BOOLEAN]
  /\ faults \in Nat /\ crashes \in Nat

\* A RESYNC of s has seeded the log and not yet noted what is missing.
Reseeding(s) ==
  \E t \in Thread : pc[t] \in {"seedLog", "seedLatch", "note"} /\ req[t].s = s

(***************************************************************************)
(* Content the log names and the store lacks is always waited for: outside *)
(* the window of a RESYNC, an id of a session log without content is in    *)
(* the session's pending set.  This is what lets handle_append trust an    *)
(* empty pending set (receiver/src/lib.rs:235-243), across concurrent      *)
(* handlers of other sessions, repeated RESYNCs and restarts.              *)
(***************************************************************************)
MissingIsPending ==
  \A s \in Session :
     \/ Reseeding(s)
     \/ Range(session_ids(mem, s)) \subseteq mem.blocks \cup sess[s].pending

(***************************************************************************)
(* A root ACKed for an APPEND or a completed cold start (handle_append,    *)
(* handle_bulk) names only blocks whose content the receiver holds.        *)
(***************************************************************************)
AckHasContent ==
  \A t \in Thread :
     (pc[t] \in {"flush", "reply"} /\ reply[t].kind = "Ack" /\ req[t].kind # "Resync")
        => Range(reply[t].root) \subseteq mem.blocks

(***************************************************************************)
(* When no append to the WAL is outstanding, replaying the WAL rebuilds    *)
(* the store exactly: every log, every root, every block (wal.rs:24-28).   *)
(***************************************************************************)
ReplayFaithful ==
  \/ torn
  \/ \E t \in Thread : pc[t] \in {"applyLog", "seedLog", "storeLog"}
  \/ Last(disk) = mem

(***************************************************************************)
(* An ACK that left the sidecar is durable: some prefix of the records     *)
(* that survive a crash replays to the ACKed root with all its content, so *)
(* the client may drop its retry body (sidecar/src/lib.rs:641-642).  A     *)
(* RESYNC's ACK is, if it carries the root of the manifest.                *)
(***************************************************************************)
DurableAck ==
  \A a \in exposed : a.moved \/ \E n \in 1..(Saved + 1) : Holds(disk[n], a.s, a.root)

-----------------------------------------------------------------------------
(***************************************************************************)
(* The inductive invariant behind MissingIsPending and AckHasContent.      *)
(***************************************************************************)

\* Every root is the fold over its log, in memory and in every image.
RootMatchesLog ==
  /\ Sound(mem)
  /\ \A n \in 1..Len(disk) : Sound(disk[n])
  /\ \A t \in Thread : due[t].variant = "SEED" => due[t].root = due[t].ids

LocksExclusive ==
  \A t, u \in Thread :
     (t # u /\ pc[t] \in Locked /\ pc[u] \in Locked) => req[t].s # req[u].s

\* Where a thread is says what its registers and the store have in common.
ThreadInv(t) ==
  /\ pc[t] \in {"seed", "seedLog", "seedLatch", "note"} =>
       /\ req[t].base = req[t].ids
       /\ Range(req[t].ids) \subseteq mem.blocks \cup miss[t]
  /\ pc[t] \in {"seedLog", "seedLatch", "note"} =>
       session_ids(mem, req[t].s) = req[t].ids
  /\ pc[t] \in {"store", "storeLog", "storeLatch"} =>
       /\ done[t] <= Len(req[t].ids)
       /\ \A i \in 1..done[t] : req[t].ids[i] \in mem.blocks
  /\ pc[t] \in Applying => sess[req[t].s].pending = {}
  /\ pc[t] \in {"seed", "seedLog", "seedLatch", "note", "root"} => req[t].kind = "Resync"

\* What f refers to behind its first n blocks is in the store, or comes inline
\* before the reference.
Resolved(f, n) ==
  \A i \in DOMAIN f.ids \cap f.refs :
     \/ i <= n
     \/ f.ids[i] \in mem.blocks
     \/ \E j \in (n + 1)..(i - 1) : j \notin f.refs /\ f.ids[j] = f.ids[i]

\* An APPEND finds the log at its base and ACKs what it has made of it.
AppendInv(t) ==
  /\ pc[t] = "check" => done[t] = 0
  /\ pc[t] \in {"check"} \cup Applying => req[t].kind = "Append" /\ Resolved(req[t], done[t])
  /\ pc[t] \in {"store", "storeLog", "storeLatch"} => req[t].kind = "Bulk"
  /\ pc[t] \in Applying =>
       /\ done[t] <= Len(req[t].ids)
       /\ session_ids(mem, req[t].s) = req[t].base \o SubSeq(req[t].ids, 1, done[t])
  /\ (pc[t] \in {"flush", "reply"} /\ reply[t].kind = "Ack" /\ req[t].kind = "Append") =>
       reply[t].root = root_over(req[t].base, req[t].ids)

IInv ==
  /\ TypeOK
  /\ RootMatchesLog
  /\ LocksExclusive
  /\ \A t \in Thread : ThreadInv(t) /\ AppendInv(t)
  /\ MissingIsPending
  /\ AckHasContent

-----------------------------------------------------------------------------
(***************************************************************************)
(* The inductive invariant behind ReplayFaithful and DurableAck, for       *)
(* frames that keep to the blocks own gives to their session.              *)
(***************************************************************************)
Logging == {"applyLog", "seedLog", "storeLog"}

Latching == {"applyLatch", "seedLatch", "storeLatch"}

\* What the frames of a session name.
Named == [s \in Session |-> UNION {Range(f.ids) : f \in {g \in Frames : g.s = s}}]

\* No two sessions name the same block.
Apart(own) ==
  /\ own \in [Session -> SUBSET BlockId]
  /\ \A r, s \in Session : r # s => own[r] \cap own[s] = {}

KeepsTo(im, own) == \A s \in Session : Range(session_ids(im, s)) \subseteq own[s]

\* A thread's frame, and the record it is about to append, keep to own.
OwnWork(t, own) ==
  /\ pc[t] \in Locked => Range(req[t].ids) \subseteq own[req[t].s]
  /\ pc[t] \in Logging => due[t].s = req[t].s /\ Range(due[t].ids) \subseteq own[due[t].s]
  /\ pc[t] = "applyLog" => due[t].variant \in {"INSERT", "REFERENCE"}
  /\ pc[t] = "seedLog" => due[t].variant = "SEED"
  /\ pc[t] = "storeLog" => due[t].variant = "CONTENT"

\* Blocks in memory whose record is not written yet.
Unlogged(id) ==
  \E t \in Thread : pc[t] \in Logging /\ due[t].variant \in {"INSERT", "CONTENT"} /\ due[t].ids[1] = id

\* The memory is the WAL plus one record for each thread about to append one.
InStep ==
  /\ \A id \in BlockId : id \in mem.blocks <=> id \in Last(disk).blocks \/ Unlogged(id)
  /\ \A t \in Thread : pc[t] \in Logging =>
       mem.log[req[t].s] = replay(Last(disk), due[t]).log[req[t].s]
  /\ \A s \in Session :
       (\A t \in Thread : pc[t] \in Logging => req[t].s # s) => mem.log[s] = Last(disk).log[s]

WalInv(own) ==
  /\ KeepsTo(mem, own)
  /\ \A n \in 1..Len(disk) : KeepsTo(disk[n], own)
  /\ \A t \in Thread : OwnWork(t, own)
  /\ torn \/ InStep

\* What t will ACK is in the file, unless an error keeps it from being ACKed.
AckInv(t) ==
  /\ pc[t] = "root" => walError \/ \E n \in 1..Len(disk) : Holds(disk[n], req[t].s, req[t].base)
  /\ (pc[t] = "flush" /\ reply[t].kind = "Ack" /\ ~Moved(t)) =>
       walError \/ \E n \in 1..Len(disk) : Holds(disk[n], req[t].s, reply[t].root)
  /\ (pc[t] = "reply" /\ reply[t].kind = "Ack" /\ ~Moved(t)) =>
       \E n \in 1..(Saved + 1) : Holds(disk[n], req[t].s, reply[t].root)

\* A torn record is latched, or is about to be.
Latched == torn => MaxFaults # 0 /\ (walError \/ \E t \in Thread : pc[t] \in Latching)

DurableInv ==
  /\ Latched
  /\ \A t \in Thread : AckInv(t)
  /\ DurableAck
=============================================================================
