---------------------------- MODULE ShimRegistry ----------------------------
(***************************************************************************)
(* The multi-session shim (Shim and SessionShim in shim/src/lib.rs) and a  *)
(* gateway that may lose its memory.  The sessions of a host share one     *)
(* content store and one cuckoo filter, so a session refers to blocks that *)
(* only another session has sent, in a frame that may be on its way, late  *)
(* or gone.  ingest holds its session's entry and steps through the shared *)
(* structures block by block; the handlers of the gateway are single steps *)
(* here (Receiver has their interleavings).  Each session is driven as the *)
(* tests and the chat client do it: a turn at a time, and a RESYNC when    *)
(* its APPEND is refused or unanswered.                                    *)
(***************************************************************************)
EXTENDS ContentStore

CONSTANTS MaxTurn,     \* bound: blocks of a turn
          MaxIds,      \* bound: blocks of each session
          MaxRestarts  \* bound: restarts of the gateway

ASSUME BoundsAssumption ==
  /\ MaxTurn \in Nat /\ MaxRestarts \in Nat
  /\ MaxIds \in [Session -> Nat]

VARIABLES shimStore,  \* Shim.store
          filter,     \* ids that a query of Shim.filter is sure to find
          shim,       \* SessionShim: ids, root, base_root, base_len
          turn,       \* ingest_turn: blocks to come and frame blocks so far
          stage,      \* where the driver of a session, or ingest_turn, is
          mail,       \* APPEND frames under way
          named,      \* the missing ids of the last RESYNC's answer
          gateway,    \* the receiver's store
          state,      \* its SessionState
          restarts

regVars == <<shimStore, filter, shim, turn, stage, mail, named, gateway, state, restarts>>

NoState == [pending |-> {}, acked |-> FALSE]

NoTurn == [todo |-> <<>>, blocks |-> <<>>]

Ref(id) == [ref |-> TRUE, id |-> id]

Inline(id) == [ref |-> FALSE, id |-> id]

RegInit ==
  /\ shimStore = EmptyStore /\ gateway = EmptyStore /\ filter = {} /\ mail = {}
  /\ shim = [s \in Session |-> [ids |-> <<>>, root |-> ROOT_ZERO, base_root |-> ROOT_ZERO, base_len |-> 0]]
  /\ turn = [s \in Session |-> NoTurn]
  /\ stage = [s \in Session |-> "idle"]
  /\ named = [s \in Session |-> {}]
  /\ state = [s \in Session |-> NoState]
  /\ restarts = 0

At(s, here) == stage[s] = here

Go(s, there) == stage' = [stage EXCEPT ![s] = there]

-----------------------------------------------------------------------------
\* ingest, and ingest_batch for several turns in one.
Ingest(s) ==
  /\ At(s, "idle")
  /\ \E n \in 1..MaxTurn : \E todo \in [1..n -> BlockId] :
       /\ Len(shim[s].ids) + n <= MaxIds[s]
       /\ turn' = [turn EXCEPT ![s].todo = todo]
  /\ Go(s, "look")
  /\ UNCHANGED <<shimStore, filter, shim, mail, named, gateway, state, restarts>>

\* "A 'maybe present' answer falls back to the authoritative store lookup."
found(hit, id) == hit /\ contains(shimStore, id)

\* The filter may also answer for an id that it is not sure to find.
Look(s) ==
  /\ At(s, "look") /\ turn[s].todo # <<>>
  /\ LET id == Head(turn[s].todo)
     IN /\ shim' = [shim EXCEPT ![s].ids = Append(@, id), ![s].root = append_root(@, id)]
        /\ \E hit \in BOOLEAN : (id \in filter => hit) /\ Go(s, IF found(hit, id) THEN "ref" ELSE "inline")
  /\ UNCHANGED <<shimStore, filter, turn, mail, named, gateway, state, restarts>>

\* The frame block of the block in hand, and on to the next.
Emit(s, fb) ==
  turn' = [turn EXCEPT ![s] = [todo |-> Tail(@.todo), blocks |-> Append(@.blocks, fb)]]

\* Mutant: a known block is not entered in the log of this session.
log_known_not(im, s, id) == im

\* "still reference it in *this* session's log so the root matches"
log_known(im, s, id) == reference(im, s, id)

PutRef(s) ==
  /\ At(s, "ref")
  /\ shimStore' = log_known(shimStore, s, Head(turn[s].todo))
  /\ Emit(s, Ref(Head(turn[s].todo)))
  /\ Go(s, "look")
  /\ UNCHANGED <<filter, shim, mail, named, gateway, state, restarts>>

PutInline(s) ==
  /\ At(s, "inline")
  /\ shimStore' = insert_with_id(shimStore, s, Head(turn[s].todo))
  /\ Go(s, "tell")
  /\ UNCHANGED <<filter, shim, turn, mail, named, gateway, state, restarts>>

\* To make room, the insertion carries fingerprints of other ids between
\* buckets, or grows the table and misplaces them: those may be missed.
Tell(s) ==
  /\ At(s, "tell")
  /\ \E sure \in SUBSET filter : filter' = sure \cup {Head(turn[s].todo)}
  /\ Emit(s, Inline(Head(turn[s].todo)))
  /\ Go(s, "look")
  /\ UNCHANGED <<shimStore, shim, mail, named, gateway, state, restarts>>

Post(s) ==
  /\ At(s, "look") /\ turn[s].todo = <<>>
  /\ mail' = mail \cup {[s |-> s, base |-> shim[s].base_root, blocks |-> turn[s].blocks]}
  /\ turn' = [turn EXCEPT ![s] = NoTurn]
  /\ Go(s, "posted")
  /\ UNCHANGED <<shimStore, filter, shim, named, gateway, state, restarts>>

-----------------------------------------------------------------------------
\* apply_ack
acked_shim(sh, root) ==
  LET lens == {n \in 1..Len(sh.ids) : root_over(ROOT_ZERO, SubSeq(sh.ids, 1, n)) = root}
  IN IF root = sh.root THEN [sh EXCEPT !.base_root = root, !.base_len = Len(sh.ids)]
     ELSE IF root = sh.base_root \/ lens = {} THEN sh
     ELSE [sh EXCEPT !.base_root = root, !.base_len = CHOOSE n \in lens : \A m \in lens : n <= m]

\* An answer reaches the driver if it still waits: an ACK of the whole session
\* ends the turn, anything else calls for a RESYNC.
Answer(s, at, root) ==
  /\ shim' = [shim EXCEPT ![s] = IF At(s, at) THEN acked_shim(@, root) ELSE @]
  /\ IF At(s, at) THEN Go(s, IF root = shim[s].root THEN "idle" ELSE "resync") ELSE UNCHANGED stage

Refuse(s) ==
  /\ UNCHANGED <<shim, gateway>>
  /\ IF At(s, "posted") THEN Go(s, "resync") ELSE UNCHANGED stage

\* Mutant: references are not looked up before the log is written.
missing_ref_never(blocks) == FALSE

\* A reference to what is neither stored nor inline in front of it.
missing_ref(blocks) ==
  \E i \in DOMAIN blocks :
    /\ blocks[i].ref /\ ~contains(gateway, blocks[i].id)
    /\ \A j \in 1..(i - 1) : blocks[j] # Inline(blocks[i].id)

BlockIds(blocks) == [i \in DOMAIN blocks |-> blocks[i].id]

\* The loop over the blocks: each is logged, and an inline one stored first.
apply_blocks(im, s, blocks) ==
  LET inline == {id \in BlockId : \E i \in DOMAIN blocks : blocks[i] = Inline(id)}
  IN [im EXCEPT !.blocks = @ \cup inline,
                !.log[s] = [live |-> TRUE, ids |-> @.ids \o BlockIds(blocks),
                            root |-> root_over(@.root, BlockIds(blocks))]]

\* handle_append, on time or late; the frame is gone afterwards.
Deliver(f) ==
  LET s      == f.s
      ids    == BlockIds(f.blocks)
      cur    == session_root(gateway, s)
      after  == apply_blocks(gateway, s, f.blocks)
  IN /\ f \in mail /\ mail' = mail \ {f}
     /\ \/ missing_ref(f.blocks) /\ Refuse(s)
        \/ ~missing_ref(f.blocks) /\ state[s].pending # {} /\ Refuse(s)
        \/ /\ ~missing_ref(f.blocks) /\ state[s].pending = {} /\ f.base # cur
           /\ IF root_over(f.base, ids) = cur THEN Answer(s, "posted", cur) /\ UNCHANGED gateway
              ELSE Refuse(s)
        \/ /\ ~missing_ref(f.blocks) /\ state[s].pending = {} /\ f.base = cur
           /\ gateway' = after
           /\ Answer(s, "posted", session_root(after, s))
     /\ UNCHANGED <<shimStore, filter, turn, named, state, restarts>>

\* The driver stops waiting; its frame may still arrive.
GiveUp(s) ==
  /\ At(s, "posted") /\ Go(s, "resync")
  /\ UNCHANGED <<shimStore, filter, shim, turn, mail, named, gateway, state, restarts>>

\* The manifest's blocks that the gateway does not have.
lacking(s) == {id \in Range(shim[s].ids) : ~contains(gateway, id)}

\* resync_frame and handle_resync; nothing missing is acknowledged at once.
Resync(s) ==
  LET lacks == lacking(s)
  IN /\ At(s, "resync")
     /\ gateway' = seed_session(gateway, s, shim[s].ids, shim[s].root)
     /\ state' = [state EXCEPT ![s] = [pending |-> lacks, acked |-> lacks = {}]]
     /\ named' = [named EXCEPT ![s] = lacks]
     /\ IF lacks = {} THEN Answer(s, "resync", shim[s].root) ELSE Go(s, "bulk") /\ UNCHANGED shim
     /\ UNCHANGED <<shimStore, filter, turn, mail, restarts>>

\* Mutant: what lies behind the base is sent, whatever is missing.
served_tail(s) == Range(SubSeq(shim[s].ids, shim[s].base_len + 1, Len(shim[s].ids)))

\* bulk_frames_for passes over an id that the store does not hold.
served(s) == {id \in named[s] : contains(shimStore, id)}

\* handle_bulk for all of the frames; unless it completes the cold start there
\* is no ACK, and the driver starts over.
Bulk(s) ==
  LET got      == [gateway EXCEPT !.blocks = @ \cup served(s)]
      left     == state[s].pending \ served(s)
      complete == left = {} /\ ~state[s].acked
  IN /\ At(s, "bulk")
     /\ gateway' = got
     /\ state' = [state EXCEPT ![s] = [pending |-> left, acked |-> @.acked \/ complete]]
     /\ named' = [named EXCEPT ![s] = {}]
     /\ IF complete THEN Answer(s, "bulk", session_root(got, s))
        ELSE Go(s, "resync") /\ UNCHANGED shim
     /\ UNCHANGED <<shimStore, filter, turn, mail, restarts>>

\* A gateway without a WAL starts again with nothing.
Restart ==
  /\ restarts < MaxRestarts /\ restarts' = restarts + 1
  /\ gateway' = EmptyStore
  /\ state' = [s \in Session |-> NoState]
  /\ UNCHANGED <<shimStore, filter, shim, turn, stage, mail, named>>

Handle(s) == (\E f \in mail : f.s = s /\ Deliver(f)) \/ Resync(s) \/ Bulk(s)

Step(s) == Look(s) \/ PutRef(s) \/ PutInline(s) \/ Tell(s) \/ Post(s) \/ Handle(s)

RegNext == Restart \/ \E s \in Session : Ingest(s) \/ Step(s) \/ GiveUp(s)

\* A call of the shim or of a handler returns; nobody has to begin a turn.
RegSpec == RegInit /\ [][RegNext]_regVars /\ \A s \in Session : WF_regVars(Step(s))
-----------------------------------------------------------------------------
\* Between two ingests the host's store has the log and the root of the session
\* as the shim has them, though sessions insert the same blocks at once and the
\* filter knows of a block only after the store.
RegistryLogs ==
  \A s \in Session :
    stage[s] \notin {"look", "ref", "inline", "tell"} =>
      session_ids(shimStore, s) = shim[s].ids /\ session_root(shimStore, s) = shim[s].root

\* What the gateway holds of a session is a prefix of what the shim produced,
\* with the content of every block unless a cold start is under way: no
\* reference to another session's block is taken on trust.
GatewayFollows ==
  \A s \in Session :
    /\ StartsWith(shim[s].ids, session_ids(gateway, s))
    /\ state[s].pending = {} => Range(session_ids(gateway, s)) \subseteq gateway.blocks

\* Every turn ends with an ACK of the whole session, through references that
\* outran their content, frames that came late and a gateway that forgot.
TurnsSettle == \A s \in Session : stage[s] # "idle" ~> stage[s] = "idle"

-----------------------------------------------------------------------------
(***************************************************************************)
(* The inductive invariant behind RegistryLogs and GatewayFollows.         *)
(***************************************************************************)
FrameBlock == [ref: BOOLEAN, id: BlockId]

Stage == {"idle", "look", "ref", "inline", "tell", "posted", "resync", "bulk"}

RegTypeOK ==
  /\ shimStore \in Image /\ gateway \in Image
  /\ filter \subseteq BlockId
  /\ shim \in [Session -> [ids: Root, root: Root, base_root: Root, base_len: Nat]]
  /\ turn \in [Session -> [todo: Seq(BlockId), blocks: Seq(FrameBlock)]]
  /\ stage \in [Session -> Stage]
  /\ mail \subseteq [s: Session, base: Root, blocks: Seq(FrameBlock)]
  /\ named \in [Session -> SUBSET BlockId]
  /\ state \in [Session -> [pending: SUBSET BlockId, acked: BOOLEAN]]
  /\ restarts \in Nat

\* The block in hand: the shim has it in its log, the turn not in its frame.
InHand(s) == IF stage[s] \in {"ref", "inline", "tell"} THEN <<Head(turn[s].todo)>> ELSE <<>>

\* How far the host's store and the frame are behind the log of the shim.
ShimInv(s) ==
  /\ shim[s].root = shim[s].ids
  /\ stage[s] \in {"ref", "inline", "tell"} => turn[s].todo # <<>>
  /\ stage[s] = "ref" => contains(shimStore, Head(turn[s].todo))
  /\ stage[s] \in {"ref", "inline"} => shim[s].ids = session_ids(shimStore, s) \o InHand(s)
  /\ stage[s] \notin {"ref", "inline"} => shim[s].ids = session_ids(shimStore, s)
  /\ stage[s] \in {"idle", "look", "ref", "inline", "tell"} =>
       shim[s].ids = shim[s].base_root \o BlockIds(turn[s].blocks) \o InHand(s)
  /\ stage[s] \notin {"look", "ref", "inline", "tell"} => turn[s] = NoTurn

GatewayInv(s) ==
  /\ StartsWith(shim[s].ids, session_ids(gateway, s))
  /\ Range(session_ids(gateway, s)) \subseteq gateway.blocks \cup state[s].pending

RegInv ==
  /\ RegTypeOK
  /\ Sound(shimStore) /\ Sound(gateway)
  /\ \A s \in Session : ShimInv(s) /\ GatewayInv(s)
  /\ \A f \in mail : StartsWith(shim[f.s].ids, f.base \o BlockIds(f.blocks))
=============================================================================
