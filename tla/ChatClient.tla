----------------------------- MODULE ChatClient -----------------------------
(***************************************************************************)
(* One conversation end to end: a ChatSession driven by DlrChatClient      *)
(* (sidecar/src/lib.rs) over a SessionShim (shim/src/lib.rs), an HTTP      *)
(* network on which a request the client gave up on may still arrive at    *)
(* any later time, and the Receiver that handles what arrives.             *)
(*                                                                         *)
(* The client is sequential: it has one request outstanding and a response *)
(* reaches it only on the connection it waits on.  Its messages carry a    *)
(* running seq number, so all blocks of a conversation differ and every    *)
(* APPEND is inline.                                                       *)
(***************************************************************************)
EXTENDS Receiver

CONSTANTS
  Conv,         \* the conversation's session id
  Turns,        \* the messages of each turn: a sequence of sequences of ids
  GenBlocks,    \* blocks that fit in one BULK generation
  MaxAbandon,   \* bound: requests the client gives up on while they may live
  MaxRebuilds   \* bound: restarts of the terminal

ASSUME ChatAssumption ==
  /\ Conv \in Session
  /\ Turns \in Seq(Seq(BlockId))
  /\ GenBlocks \in Nat \ {0}
  /\ IsFiniteSet(Thread)

VARIABLES
  shim,         \* SessionShim: ids and base_root (root is the fold of ids)
  pendingRoot,  \* ChatSession.pending_root, as a set of at most one root
  prepared,     \* the PreparedChatRequest: its APPEND frame
  phase,        \* what the client does next
  bulk,         \* synchronize: BULK frames still to send
  completion,   \* synchronize: the ACK seen among the BULK responses
  turn,         \* how many turns were prepared
  net,          \* requests sent and not yet at the receiver
  from,         \* the request each receiver thread handles
  waiting,      \* the request the client waits for, 0 if none
  answer,       \* the response that arrived, as a set of at most one reply
  abandoned,    \* requests given up on so far
  rebuilds      \* terminal restarts so far

chatVars   == <<shim, pendingRoot, prepared, turn, rebuilds>>
syncVars   == <<bulk, completion>>
wireVars   == <<net, waiting>>
clientVars == <<chatVars, phase, syncVars, wireVars, from, answer, abandoned>>
allVars    == <<vars, shim, pendingRoot, prepared, phase, bulk, completion, turn,
                net, from, waiting, answer, abandoned, rebuilds>>

AppendFrame(base, ids) ==
  [kind |-> "Append", s |-> Conv, base |-> base, ids |-> ids, refs |-> {}]

-----------------------------------------------------------------------------
(***************************************************************************)
(* SessionShim.                                                            *)
(***************************************************************************)
NewShim == [ids |-> <<>>, base |-> ROOT_ZERO]

\* The frame carries this turn's blocks on top of the last ACKed root.
ingest_turn(ids) == AppendFrame(shim.base, ids)

\* Mutant: the scan over the prefixes stops before the whole log.
KnownShort(root) ==
  root = shim.base \/ \E i \in 1..(Len(shim.ids) - 1) : root = SubSeq(shim.ids, 1, i)

\* The roots apply_ack finds: the current one, the base, every prefix.
Known(root) == root = shim.base \/ \E i \in DOMAIN shim.ids : root = SubSeq(shim.ids, 1, i)

resync_frame ==
  [kind |-> "Resync", s |-> Conv, base |-> shim.ids, ids |-> shim.ids, refs |-> {}]

BulkFrame(ids) ==
  [kind |-> "Bulk", s |-> Conv, base |-> ROOT_ZERO, ids |-> ids, refs |-> {}]

\* The missing ids, in the order in which the manifest names them.
InOrder(missing) == Select(shim.ids, {i \in DOMAIN shim.ids : shim.ids[i] \in missing})

\* Whole records are packed into generations in that order.
bulk_frames_for(missing) ==
  LET ids == InOrder(missing)
      Generation(g) == SubSeq(ids, (g - 1) * GenBlocks + 1,
                              IF g * GenBlocks < Len(ids) THEN g * GenBlocks ELSE Len(ids))
  IN [g \in 1..((Len(ids) + GenBlocks - 1) \div GenBlocks) |-> BulkFrame(Generation(g))]

-----------------------------------------------------------------------------
(***************************************************************************)
(* ChatSession.                                                            *)
(***************************************************************************)

\* prepare_ref: refused while an append is pending.
prepare(ids) ==
  /\ pendingRoot = {}
  /\ prepared' = ingest_turn(ids)
  /\ shim' = [shim EXCEPT !.ids = @ \o ids]
  /\ pendingRoot' = {shim.ids \o ids}

\* Mutant: any ACK settles the pending append.
AnyAckSettles(root) ==
  /\ Known(root)
  /\ shim' = [shim EXCEPT !.base = root]
  /\ pendingRoot' = {}

apply_ack(root) ==
  /\ Known(root)
  /\ shim' = [shim EXCEPT !.base = root]
  /\ pendingRoot' = pendingRoot \ {root}

-----------------------------------------------------------------------------
(***************************************************************************)
(* The wire.                                                               *)
(***************************************************************************)
\* A number for a new request: one that no live request has.
Fresh ==
  CHOOSE n \in 1..(Cardinality(net) + Cardinality(Thread) + 1) :
     /\ \A m \in net : m.n # n
     /\ \A t \in Thread : from[t] # n

Send(f) ==
  /\ waiting' = Fresh
  /\ net' = net \cup {[n |-> Fresh, f |-> f]}

Hear ==
  /\ answer' = {}
  /\ waiting' = 0
  /\ UNCHANGED <<vars, net, from, abandoned>>

\* The request the client waits for is nowhere any more: its thread died.
Reset == /\ waiting # 0 /\ answer = {}
         /\ \A m \in net : m.n # waiting
         /\ \A t \in Thread : from[t] # waiting

-----------------------------------------------------------------------------
ChatInit ==
  /\ Init
  /\ shim = NewShim /\ pendingRoot = {} /\ prepared = AppendFrame(ROOT_ZERO, <<>>)
  /\ phase = "ready" /\ bulk = <<>> /\ completion = {} /\ turn = 0
  /\ net = {} /\ from = [t \in Thread |-> 0] /\ waiting = 0
  /\ answer = {} /\ abandoned = 0 /\ rebuilds = 0

(***************************************************************************)
(* The terminal: a turn, or the empty append that invokes the model after  *)
(* a repair; the prepared bytes are posted again until they are ACKed.     *)
(***************************************************************************)
Prepare ==
  /\ \/ /\ phase = "ready" /\ turn < Len(Turns)
        /\ prepare(Turns[turn + 1])
        /\ turn' = turn + 1
     \/ /\ phase = "invoke"
        /\ prepare(<<>>)
        /\ UNCHANGED turn
  /\ phase' = "post"
  /\ UNCHANGED <<vars, syncVars, wireVars, from, answer, abandoned, rebuilds>>

\* A new process rebuilds the ChatSession from the whole conversation.
Rebuild ==
  /\ rebuilds < MaxRebuilds
  /\ turn > 0
  /\ rebuilds' = rebuilds + 1
  /\ shim' = [NewShim EXCEPT !.ids = shim.ids]
  /\ prepared' = AppendFrame(NewShim.base, shim.ids)
  /\ pendingRoot' = {shim.ids}
  /\ phase' = "post" /\ bulk' = <<>> /\ completion' = {}
  /\ waiting' = 0 /\ answer' = {}
  /\ UNCHANGED <<vars, turn, net, from, abandoned>>

(***************************************************************************)
(* DlrChatClient::send_chat.                                               *)
(***************************************************************************)
Post ==
  /\ phase = "post"
  /\ Send(prepared)
  /\ phase' = "chat"
  /\ UNCHANGED <<vars, chatVars, syncVars, from, answer, abandoned>>

ChatReply ==
  /\ phase = "chat"
  /\ \E r \in answer :
       \/ /\ r.kind = "Ack"
          /\ r.root = root_over(prepared.base, prepared.ids)
          /\ apply_ack(r.root)
          /\ phase' = "ready"
       \/ /\ r.kind = "Conflict"
          /\ phase' = "sync"
          /\ UNCHANGED <<shim, pendingRoot>>
       \/ /\ r.kind = "Failed"
          /\ phase' = "post"
          /\ UNCHANGED <<shim, pendingRoot>>
  /\ Hear
  /\ UNCHANGED <<prepared, turn, rebuilds, syncVars>>

(***************************************************************************)
(* DlrChatClient::synchronize, started again when it fails.                *)
(***************************************************************************)
Synchronize ==
  /\ phase = "sync"
  /\ Send(resync_frame)
  /\ phase' = "resync"
  /\ bulk' = <<>> /\ completion' = {}
  /\ UNCHANGED <<vars, chatVars, from, answer, abandoned>>

\* A repaired client whose append is settled still owes the model a call.
ApplyProtocolAck(root) ==
  IF Known(root)
  THEN /\ apply_ack(root)
       /\ phase' = IF pendingRoot' = {} THEN "invoke" ELSE "post"
  ELSE /\ phase' = "sync"
       /\ UNCHANGED <<shim, pendingRoot>>

ResyncReply ==
  /\ phase = "resync"
  /\ \E r \in answer :
       \/ /\ r.kind = "Ack"
          /\ ApplyProtocolAck(r.root)
          /\ UNCHANGED bulk
       \/ /\ r.kind = "Missing"
          /\ bulk' = bulk_frames_for(r.ids)
          /\ phase' = "bulk"
          /\ UNCHANGED <<shim, pendingRoot>>
       \/ /\ r.kind = "Failed"
          /\ phase' = "sync"
          /\ UNCHANGED <<shim, pendingRoot, bulk>>
  /\ Hear
  /\ UNCHANGED <<prepared, turn, rebuilds, completion>>

SendBulk ==
  /\ phase = "bulk" /\ bulk # <<>>
  /\ Send(Head(bulk))
  /\ bulk' = Tail(bulk)
  /\ phase' = "bulkWait"
  /\ UNCHANGED <<vars, chatVars, completion, from, answer, abandoned>>

BulkReply ==
  /\ phase = "bulkWait"
  /\ \E r \in answer :
       /\ completion' = IF r.kind = "Ack" THEN {r.root} ELSE completion
       /\ phase' = IF r.kind = "Failed" THEN "sync" ELSE "bulk"
  /\ Hear
  /\ UNCHANGED <<chatVars, bulk>>

\* Without a completion ACK the repair failed (UnexpectedFrame).
SyncEnd ==
  /\ phase = "bulk" /\ bulk = <<>>
  /\ \/ /\ completion = {}
        /\ phase' = "sync"
        /\ UNCHANGED <<shim, pendingRoot>>
     \/ \E root \in completion : ApplyProtocolAck(root)
  /\ UNCHANGED <<vars, prepared, turn, rebuilds, syncVars, wireVars, from, answer, abandoned>>

\* The connection breaks, or the caller stops waiting for a live request.
Abandon ==
  /\ waiting # 0 /\ answer = {}
  /\ \/ Reset /\ UNCHANGED abandoned
     \/ ~Reset /\ abandoned < MaxAbandon /\ abandoned' = abandoned + 1
  /\ waiting' = 0
  /\ phase' = IF phase = "chat" THEN "post" ELSE "sync"
  /\ UNCHANGED <<vars, chatVars, syncVars, net, from, answer>>

-----------------------------------------------------------------------------
(***************************************************************************)
(* The network and the receiver.                                           *)
(***************************************************************************)
Deliver(t) ==
  \E m \in net :
     /\ Handle(t, m.f)
     /\ net' = net \ {m}
     /\ from' = [from EXCEPT ![t] = m.n]
     /\ UNCHANGED <<chatVars, phase, syncVars, waiting, answer, abandoned>>

\* A request nobody waits for may vanish.
Drop ==
  \E m \in net :
     /\ m.n # waiting
     /\ net' = net \ {m}
     /\ UNCHANGED <<vars, chatVars, phase, syncVars, waiting, from, answer, abandoned>>

Return(t) ==
  /\ Respond(t)
  /\ answer' = IF from[t] = waiting THEN {reply[t]} ELSE answer
  /\ from' = [from EXCEPT ![t] = 0]
  /\ UNCHANGED <<chatVars, phase, syncVars, wireVars, abandoned>>

Restart ==
  /\ Crash \/ Shutdown
  /\ from' = [t \in Thread |-> 0]
  /\ UNCHANGED <<chatVars, phase, syncVars, wireVars, answer, abandoned>>

Client ==
  \/ Prepare \/ Post \/ ChatReply \/ Synchronize \/ ResyncReply
  \/ SendBulk \/ BulkReply \/ SyncEnd

Server(t) == Deliver(t) \/ Return(t) \/ (Step(t) /\ UNCHANGED clientVars)

ChatNext ==
  \/ Client \/ Rebuild \/ Abandon \/ Drop \/ Restart
  \/ \E t \in Thread : Server(t)

ChatSpec == ChatInit /\ [][ChatNext]_allVars

(***************************************************************************)
(* Fairness.  The terminal goes on, a broken connection is noticed (TCP    *)
(* keepalive), a request on a live connection reaches a handler, and a     *)
(* handler that can take a step takes it.  Nothing obliges the client to   *)
(* give up, late requests to arrive or the process to crash.               *)
(***************************************************************************)
DeliverAwaited ==
  \E t \in Thread : Deliver(t) /\ \E m \in net \ net' : m.n = waiting

FairChatSpec ==
  /\ ChatSpec
  /\ WF_allVars(Client)
  /\ WF_allVars(Abandon /\ Reset)
  /\ WF_allVars(DeliverAwaited)
  /\ \A t \in Thread : WF_allVars(Return(t) \/ (Step(t) /\ UNCHANGED clientVars))

-----------------------------------------------------------------------------
Prefix(a, b) == Len(a) <= Len(b) /\ a = SubSeq(b, 1, Len(a))

(***************************************************************************)
(* Replays, late deliveries, repairs and restarts never duplicate, reorder *)
(* or invent history: the receiver's log, and every log a crash can bring  *)
(* back, is a prefix of the conversation (docs/SIDECAR.md:83-84).          *)
(***************************************************************************)
HistoryIsPrefix ==
  \A im \in {mem} \cup Range(disk) : Prefix(session_ids(im, Conv), shim.ids)

(***************************************************************************)
(* A client with nothing pending builds the next delta on its whole        *)
(* conversation: no message is ever left out between two deltas            *)
(* (ChatSession::apply_ack, sidecar/src/lib.rs:270-276).                   *)
(***************************************************************************)
SettledBase == pendingRoot = {} => shim.base = shim.ids

(***************************************************************************)
(* The ACK of a chat request is the root its client expects: send_chat     *)
(* never ends in UnexpectedAckRoot (sidecar/src/lib.rs:349-351), however   *)
(* late requests of earlier attempts interleave with this one.             *)
(***************************************************************************)
ChatAckExpected ==
  phase = "chat" => \A r \in answer :
     r.kind = "Ack" => r.root = root_over(prepared.base, prepared.ids) /\ Known(r.root)

(***************************************************************************)
(* Every prepared append is settled and every turn gets through: retries,  *)
(* 409s and repairs (send_chat, synchronize) end, in spite of lost         *)
(* responses, late requests, a crashed sidecar and a restarted terminal.   *)
(***************************************************************************)
TurnsGetThrough == <>(turn = Len(Turns) /\ phase = "ready")

-----------------------------------------------------------------------------
(***************************************************************************)
(* The inductive invariant behind the three.                               *)
(***************************************************************************)
Settled == {"ready", "invoke"}

Asking == {"chat", "resync", "bulkWait"}

Phases == Settled \cup Asking \cup {"post", "sync", "bulk"}

\* A frame says what the conversation says.
Fits(f, talk) ==
  /\ f \in Frame /\ f.s = Conv /\ f.refs = {}
  /\ f.kind = "Append" => Prefix(f.base \o f.ids, talk)
  /\ f.kind = "Resync" => f.base = f.ids /\ Prefix(f.ids, talk)

\* Until it is settled, the prepared APPEND is the end of the conversation.
Unsettled ==
  /\ pendingRoot = {shim.ids}
  /\ Fits(prepared, shim.ids) /\ prepared.kind = "Append"
  /\ root_over(prepared.base, prepared.ids) = shim.ids

ClientInv ==
  /\ shim \in [ids: Seq(BlockId), base: Root] /\ Prefix(shim.base, shim.ids)
  /\ turn \in Nat /\ phase \in Phases
  /\ IF phase \in Settled THEN pendingRoot = {} /\ shim.base = shim.ids ELSE Unsettled
  /\ bulk \in Seq(Frame) /\ \A i \in DOMAIN bulk : Fits(bulk[i], shim.ids)

\* A request that has the number the client waits for is the one it sent.
WireInv ==
  /\ IsFiniteSet(net) /\ \A m \in net : m.n \in Nat \ {0} /\ Fits(m.f, shim.ids)
  /\ from \in [Thread -> Nat]
  /\ \A t \in Thread : pc[t] # "idle" => from[t] # 0 /\ Fits(req[t], shim.ids)
  /\ phase \notin Asking => waiting = 0 /\ answer = {}
  /\ phase = "chat" =>
       /\ waiting # 0
       /\ \A m \in net : m.n = waiting => m.f = prepared
       /\ \A t \in Thread : from[t] = waiting => req[t] = prepared
       /\ \A r \in answer : r.kind = "Ack" => r.root = shim.ids

ChatInv == ClientInv /\ WireInv

\* All blocks are the conversation's.
Own == [s \in Session |-> IF s = Conv THEN BlockId ELSE {}]
=============================================================================
