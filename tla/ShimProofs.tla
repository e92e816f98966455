----------------------------- MODULE ShimProofs -----------------------------
(***************************************************************************)
(* What runs in the process of a host, for any numbers of sessions,        *)
(* threads, blocks and jobs: the registry of the shims in front of a       *)
(* gateway, and the queues of prune jobs.                                  *)
(***************************************************************************)
EXTENDS StoreProofs, ShimRegistry, PruneScheduler

\* The backend of every step that names no other.
USE ZenonT(60)

-----------------------------------------------------------------------------
\* Sequences of ids: prefixes by index, and what one more block does.
LEMMA PrefixByIndex ==
  ASSUME NEW a \in Root, NEW b \in Root
  PROVE  StartsWith(b, a) <=> Len(a) <= Len(b) /\ \A i \in 1..Len(a) : a[i] = b[i]
  <1>1. CASE Len(a) <= Len(b)
    <2>1. /\ SubSeq(b, 1, Len(a)) \in Seq(BlockId) /\ a \in Seq(BlockId) /\ Len(SubSeq(b, 1, Len(a))) = Len(a)
          /\ \A i \in 1..Len(a) : SubSeq(b, 1, Len(a))[i] = b[i]
      BY SMTT(60), <1>1 DEF Root
    <2>2. SubSeq(b, 1, Len(a)) = a => \A i \in 1..Len(a) : a[i] = b[i]
      BY <2>1
    <2>3. (\A i \in 1..Len(a) : a[i] = b[i]) => SubSeq(b, 1, Len(a)) = a
      BY <2>1, SeqEqual
    <2> QED
      BY <1>1, <2>2, <2>3 DEF StartsWith
  <1>2. CASE ~(Len(a) <= Len(b))
    BY <1>2 DEF StartsWith
  <1> QED
    BY <1>1, <1>2

LEMMA PrefixGrows ==
  ASSUME NEW a \in Root, NEW b \in Root, NEW id \in BlockId, StartsWith(b, a)
  PROVE  StartsWith(Append(b, id), a)
  <1> DEFINE longer == Append(b, id)
  <1>1. /\ longer \in Root /\ Len(longer) = Len(b) + 1 /\ Len(a) \in Nat /\ Len(b) \in Nat
        /\ \A i \in 1..Len(b) : longer[i] = b[i]
    BY SMTT(60) DEF Root
  <1> HIDE DEF longer
  <1>2. Len(a) <= Len(b) /\ \A i \in 1..Len(a) : a[i] = b[i]
    BY PrefixByIndex
  <1>3. StartsWith(longer, a)
    BY SMTT(60), <1>1, <1>2, PrefixByIndex
  <1> QED
    BY <1>3 DEF longer

LEMMA PrefixSelf ==
  ASSUME NEW a \in Root
  PROVE  StartsWith(a, a) /\ StartsWith(a, <<>>)
  <1>1. <<>> \in Root /\ Len(<<>>) = 0 /\ Len(a) \in Nat
    BY SMTT(60) DEF Root
  <1> QED
    BY SMTT(60), <1>1, PrefixByIndex

LEMMA BlockIdsType ==
  ASSUME NEW blocks \in Seq(FrameBlock)
  PROVE  /\ BlockIds(blocks) \in Root /\ Len(BlockIds(blocks)) = Len(blocks)
         /\ \A i \in 1..Len(blocks) : BlockIds(blocks)[i] = blocks[i].id
  <1>1. Len(blocks) \in Nat /\ DOMAIN blocks = 1..Len(blocks)
    BY SMTT(60)
  <1>2. \A i \in 1..Len(blocks) : blocks[i] \in FrameBlock
    BY SMTT(60)
  <1>3. BlockIds(blocks) \in [1..Len(blocks) -> BlockId]
    BY <1>1, <1>2 DEF BlockIds, FrameBlock
  <1> QED
    BY SMTT(60), <1>1, <1>3 DEF BlockIds, Root

LEMMA BlockIdsAppend ==
  ASSUME NEW blocks \in Seq(FrameBlock), NEW fb \in FrameBlock
  PROVE  BlockIds(Append(blocks, fb)) = Append(BlockIds(blocks), fb.id)
  <1> DEFINE more == Append(blocks, fb)
             ids == BlockIds(blocks)
             longer == Append(ids, fb.id)
  <1>1. /\ more \in Seq(FrameBlock) /\ Len(more) = Len(blocks) + 1 /\ Len(blocks) \in Nat
        /\ \A i \in 1..Len(blocks) : more[i] = blocks[i]
        /\ more[Len(blocks) + 1] = fb
    BY SMTT(60)
  <1>2. ids \in Seq(BlockId) /\ Len(ids) = Len(blocks) /\ \A i \in 1..Len(blocks) : ids[i] = blocks[i].id
    BY BlockIdsType DEF Root
  <1> HIDE DEF more, ids
  <1>3. /\ longer \in Seq(BlockId) /\ Len(longer) = Len(blocks) + 1
        /\ \A i \in 1..Len(blocks) : longer[i] = blocks[i].id
        /\ longer[Len(blocks) + 1] = fb.id
    BY SMTT(60), <1>1, <1>2 DEF FrameBlock
  <1>4. /\ BlockIds(more) \in Seq(BlockId) /\ Len(BlockIds(more)) = Len(blocks) + 1
        /\ \A i \in 1..(Len(blocks) + 1) : BlockIds(more)[i] = more[i].id
    BY <1>1, BlockIdsType DEF Root
  <1> HIDE DEF longer
  <1>5. \A i \in 1..(Len(blocks) + 1) : BlockIds(more)[i] = longer[i]
    BY SMTT(60), <1>1, <1>3, <1>4
  <1>6. BlockIds(more) = longer
    BY <1>3, <1>4, <1>5, SeqEqual
  <1> QED
    BY <1>6 DEF more, longer, ids

\* A block that moves from the hand to the end of the frame, or into the hand.
LEMMA HandOver ==
  ASSUME NEW p \in Root, NEW q \in Root, NEW id \in BlockId
  PROVE  /\ Append(p \o q \o <<>>, id) = p \o q \o <<id>>
         /\ p \o Append(q, id) \o <<>> = p \o q \o <<id>>
  <1>1. p \o q \in Seq(BlockId) /\ Append(q, id) \in Seq(BlockId) /\ <<id>> \in Seq(BlockId)
        /\ p \in Seq(BlockId) /\ q \in Seq(BlockId) /\ p \o Append(q, id) \in Seq(BlockId)
    BY SMTT(60) DEF Root
  <1>2. p \o q \o <<>> = p \o q /\ p \o Append(q, id) \o <<>> = p \o Append(q, id)
    BY <1>1, ConcatEmptySeq
  <1>3. Append(q, id) = q \o <<id>> /\ Append(p \o q, id) = p \o q \o <<id>>
    BY <1>1, AppendIsConcat
  <1>4. (p \o q) \o <<id>> = p \o (q \o <<id>>)
    BY SMTT(60), <1>1, IdsAssociate
  <1> QED
    BY SMTT(60), <1>2, <1>3, <1>4

\* apply_ack moves the base of the shim and nothing else.
LEMMA AckedShim ==
  ASSUME NEW sh \in [ids: Root, root: Root, base_root: Root, base_len: Nat], NEW root \in Root
  PROVE  /\ acked_shim(sh, root) \in [ids: Root, root: Root, base_root: Root, base_len: Nat]
         /\ acked_shim(sh, root).ids = sh.ids /\ acked_shim(sh, root).root = sh.root
         /\ root = sh.root => acked_shim(sh, root).base_root = root
  <1> DEFINE lens == {n \in 1..Len(sh.ids) : root_over(ROOT_ZERO, SubSeq(sh.ids, 1, n)) = root}
             least == CHOOSE n \in lens : \A m \in lens : n <= m
  <1>1. Len(sh.ids) \in Nat /\ lens \subseteq Nat
    BY SMTT(60) DEF Root
  <1>2. lens # {} => least \in Nat
    <2> HIDE DEF lens
    <2>1. ASSUME lens # {} PROVE \E n \in lens : \A m \in lens : n <= m
      <3> DEFINE R == OpToRel(<, Nat)
      <3>1. \A a, b \in Nat : <<b, a>> \notin R => a <= b
        BY SMTT(60) DEF OpToRel
      <3>2. IsWellFoundedOn(R, Nat)
        BY NatLessThanWellFounded
      <3> HIDE DEF R
      <3>3. \E n \in lens : \A m \in lens : ~ (<<m, n>> \in R)
        BY <1>1, <2>1, <3>2, WFMin
      <3> QED
        BY <1>1, <3>1, <3>3
    <2> QED
      BY <1>1, <2>1
  <1> HIDE DEF lens, least
  <1>3. \/ acked_shim(sh, root) = [sh EXCEPT !.base_root = root, !.base_len = Len(sh.ids)]
        \/ acked_shim(sh, root) = sh /\ root # sh.root
        \/ acked_shim(sh, root) = [sh EXCEPT !.base_root = root, !.base_len = least] /\ lens # {} /\ root # sh.root
    BY DEF acked_shim, lens, least
  <1> QED
    BY <1>1, <1>2, <1>3

-----------------------------------------------------------------------------
\* What a session relies on survives the steps of the others: its entry is its
\* own, and blocks only accumulate in the shared store.
LEMMA ShimKept ==
  ASSUME NEW r \in Session, ShimInv(r),
         shim'[r] = shim[r], turn'[r] = turn[r], stage'[r] = stage[r],
         session_ids(shimStore', r) = session_ids(shimStore, r),
         shimStore.blocks \subseteq shimStore'.blocks
  PROVE  ShimInv(r)'
  BY DEF ShimInv, InHand, contains, session_ids, BlockIds

LEMMA GatewayKept ==
  ASSUME NEW r \in Session, GatewayInv(r), shim'[r].ids = shim[r].ids,
         session_ids(gateway', r) = session_ids(gateway, r),
         gateway.blocks \subseteq gateway'.blocks, state'[r] = state[r]
  PROVE  GatewayInv(r)'
  BY DEF GatewayInv, session_ids

\* The fields of what a session has, by the type invariant.
LEMMA Fields ==
  ASSUME RegTypeOK, NEW s \in Session
  PROVE  /\ shim[s] \in [ids: Root, root: Root, base_root: Root, base_len: Nat]
         /\ shim[s].ids \in Root /\ shim[s].root \in Root /\ shim[s].base_root \in Root
         /\ turn[s].todo \in Seq(BlockId) /\ turn[s].blocks \in Seq(FrameBlock)
         /\ session_ids(shimStore, s) \in Root /\ session_ids(gateway, s) \in Root
         /\ session_root(gateway, s) \in Root
         /\ state[s].pending \in SUBSET BlockId
  <1>1. session_ids(shimStore, s) \in Root /\ session_ids(gateway, s) \in Root
        /\ session_root(gateway, s) \in Root
    BY RootType DEF RegTypeOK, Root
  <1> QED
    BY <1>1 DEF RegTypeOK

LEMMA RegInitInv == RegInit => RegInv
  <1> SUFFICES ASSUME RegInit PROVE RegInv
    OBVIOUS
  <1>1. <<>> \in Root /\ <<>> \in Seq(FrameBlock) /\ <<>> \in Seq(BlockId)
    BY SMTT(60) DEF Root
  <1>2. RegTypeOK
    <2>1. shimStore \in Image /\ gateway \in Image /\ filter \subseteq BlockId /\ restarts \in Nat
      BY EmptyStoreType DEF RegInit
    <2>2. shim \in [Session -> [ids: Root, root: Root, base_root: Root, base_len: Nat]]
      BY <1>1 DEF RegInit, ROOT_ZERO
    <2>3. turn \in [Session -> [todo: Seq(BlockId), blocks: Seq(FrameBlock)]]
      BY <1>1 DEF RegInit, NoTurn
    <2>4. stage \in [Session -> Stage] /\ named \in [Session -> SUBSET BlockId]
      BY DEF RegInit, Stage
    <2>5. NoState \in [pending: SUBSET BlockId, acked: BOOLEAN]
      BY DEF NoState
    <2>6. state \in [Session -> [pending: SUBSET BlockId, acked: BOOLEAN]]
      BY <2>5 DEF RegInit
    <2>7. mail \subseteq [s: Session, base: Root, blocks: Seq(FrameBlock)]
      BY DEF RegInit
    <2> QED
      BY <2>1, <2>2, <2>3, <2>4, <2>6, <2>7 DEF RegTypeOK
  <1>3. \A s \in Session : session_ids(EmptyStore, s) = <<>> /\ session_root(EmptyStore, s) = <<>>
    BY DEF EmptyStore, NoSessionLog, session_ids, session_root, ROOT_ZERO
  <1>4. ASSUME NEW s \in Session PROVE ShimInv(s) /\ GatewayInv(s)
    <2>1. /\ stage[s] = "idle" /\ turn[s] = NoTurn /\ shim[s].ids = <<>> /\ shim[s].root = <<>>
          /\ shim[s].base_root = <<>> /\ session_ids(shimStore, s) = <<>> /\ session_ids(gateway, s) = <<>>
      BY <1>3 DEF RegInit, ROOT_ZERO
    <2>2. BlockIds(<<>>) = <<>> /\ <<>> \o <<>> \o <<>> = <<>>
      BY SMTT(60) DEF BlockIds
    <2>3. ShimInv(s)
      BY SMTT(60), <2>1, <2>2 DEF ShimInv, InHand, NoTurn
    <2>4. GatewayInv(s)
      BY SMTT(60), <1>1, <2>1, PrefixSelf DEF GatewayInv, Range
    <2> QED
      BY <2>3, <2>4
  <1>5. mail = {} /\ Sound(EmptyStore) /\ shimStore = EmptyStore /\ gateway = EmptyStore
    BY <1>3 DEF RegInit, Sound
  <1> QED
    BY <1>2, <1>4, <1>5 DEF RegInv

-----------------------------------------------------------------------------
(***************************************************************************)
(* The steps of ingest.  They leave the gateway alone; one session moves,  *)
(* and its log stays as it is or grows by a block.                         *)
(***************************************************************************)
LEMMA IngestStep ==
  ASSUME RegInv, NEW s \in Session, RegTypeOK', Sound(shimStore'), ShimInv(s)',
         UNCHANGED <<gateway, state>>,
         shimStore.blocks \subseteq shimStore'.blocks,
         \A r \in Session \ {s} : /\ shim'[r] = shim[r] /\ turn'[r] = turn[r] /\ stage'[r] = stage[r]
                                  /\ session_ids(shimStore', r) = session_ids(shimStore, r),
         shim'[s].ids = shim[s].ids \/ \E id \in BlockId : shim'[s].ids = Append(shim[s].ids, id),
         \A f \in mail' : f \in mail \/ StartsWith(shim'[f.s].ids, f.base \o BlockIds(f.blocks))
  PROVE  RegInv'
  <1>1. ASSUME NEW r \in Session, NEW a \in Root, StartsWith(shim[r].ids, a)
        PROVE  StartsWith(shim'[r].ids, a)
    <2>1. shim[r].ids \in Root
      BY Fields DEF RegInv
    <2>2. shim'[r].ids = shim[r].ids \/ \E id \in BlockId : shim'[r].ids = Append(shim[r].ids, id)
      OBVIOUS
    <2> QED
      BY <1>1, <2>1, <2>2, PrefixGrows
  <1>2. \A r \in Session : ShimInv(r)'
    <2>1. \A r \in Session \ {s} : ShimInv(r)'
      BY ShimKept DEF RegInv
    <2> QED
      BY <2>1
  <1>3. \A r \in Session : GatewayInv(r)'
    <2> TAKE r \in Session
    <2>1. GatewayInv(r) /\ session_ids(gateway, r) \in Root
      BY Fields DEF RegInv
    <2>2. StartsWith(shim'[r].ids, session_ids(gateway, r))
      BY <1>1, <2>1 DEF GatewayInv
    <2> QED
      BY <2>1, <2>2 DEF GatewayInv, session_ids
  <1>4. \A f \in mail' : StartsWith(shim'[f.s].ids, f.base \o BlockIds(f.blocks))
    <2> TAKE f \in mail'
    <2>1. CASE f \in mail
      <3>1. f.s \in Session /\ f.base \in Root /\ BlockIds(f.blocks) \in Root
        BY <2>1, BlockIdsType DEF RegInv, RegTypeOK
      <3>2. f.base \o BlockIds(f.blocks) \in Root
        BY SMTT(60), <3>1 DEF Root
      <3> QED
        BY <1>1, <2>1, <3>1, <3>2 DEF RegInv
    <2> QED
      BY <2>1
  <1>5. Sound(gateway')
    BY DEF RegInv, Sound, session_ids, session_root
  <1> QED
    BY <1>2, <1>3, <1>4, <1>5 DEF RegInv, Sound, session_ids, session_root, BlockIds

LEMMA IngestInv ==
  ASSUME RegInv, NEW s \in Session, Ingest(s)
  PROVE  RegInv'
  <1>0. RegTypeOK /\ ShimInv(s) /\ stage[s] = "idle" /\ turn[s] = NoTurn
    BY DEF RegInv, Ingest, At, ShimInv
  <1>1. PICK todo \in Seq(BlockId) : turn' = [turn EXCEPT ![s].todo = todo]
    <2>1. PICK n \in 1..MaxTurn : \E todo \in [1..n -> BlockId] : turn' = [turn EXCEPT ![s].todo = todo]
      BY DEF Ingest
    <2>2. n \in Nat
      BY SMTT(60), BoundsAssumption
    <2>3. [1..n -> BlockId] \subseteq Seq(BlockId)
      BY SMTT(60), <2>2
    <2> QED
      BY <2>1, <2>3
  <1>2. /\ stage' = [stage EXCEPT ![s] = "look"]
        /\ UNCHANGED <<shimStore, filter, shim, mail, named, gateway, state, restarts>>
    BY DEF Ingest, Go
  <1>3. /\ turn'[s] = [todo |-> todo, blocks |-> <<>>] /\ stage'[s] = "look"
        /\ \A r \in Session \ {s} : turn'[r] = turn[r] /\ stage'[r] = stage[r]
    BY SMTT(60), <1>0, <1>1, <1>2 DEF RegTypeOK, NoTurn
  <1>4. RegTypeOK'
    <2>1. turn' \in [Session -> [todo: Seq(BlockId), blocks: Seq(FrameBlock)]]
      BY <1>0, <1>1 DEF RegTypeOK
    <2>2. stage' \in [Session -> Stage]
      BY <1>0, <1>2 DEF RegTypeOK, Stage
    <2> QED
      BY <1>0, <1>2, <2>1, <2>2 DEF RegTypeOK
  <1>5. ShimInv(s)'
    <2>1. InHand(s) = <<>> /\ InHand(s)' = <<>>
      BY <1>0, <1>3 DEF InHand
    <2>2. BlockIds(turn[s].blocks)' = BlockIds(turn[s].blocks)
      BY SMTT(60), <1>0, <1>3 DEF BlockIds, NoTurn
    <2>3. session_ids(shimStore', s) = session_ids(shimStore, s)
      BY <1>2
    <2> QED
      BY <1>0, <1>2, <1>3, <2>1, <2>2, <2>3 DEF ShimInv, session_ids
  <1>6. Sound(shimStore')
    BY <1>2 DEF RegInv, Sound, session_ids, session_root
  <1> QED
    BY <1>2, <1>3, <1>4, <1>5, <1>6, IngestStep

LEMMA LookInv ==
  ASSUME RegInv, NEW s \in Session, Look(s)
  PROVE  RegInv'
  <1> DEFINE id == Head(turn[s].todo)
  <1>0. RegTypeOK /\ ShimInv(s) /\ stage[s] = "look" /\ turn[s].todo # <<>> /\ id \in BlockId
    BY SMTT(60), Fields DEF RegInv, Look, At
  <1>1. /\ shim' = [shim EXCEPT ![s].ids = Append(@, id), ![s].root = append_root(@, id)]
        /\ UNCHANGED <<shimStore, filter, turn, mail, named, gateway, state, restarts>>
    BY DEF Look
  <1>2. PICK there \in {"ref", "inline"} :
           stage' = [stage EXCEPT ![s] = there] /\ (there = "ref" => contains(shimStore, id))
    BY DEF Look, found, Go
  <1> HIDE DEF id
  <1>3. /\ shim'[s].ids = Append(shim[s].ids, id) /\ shim'[s].root = Append(shim[s].root, id)
        /\ shim'[s].base_root = shim[s].base_root
        /\ stage'[s] = there /\ turn'[s] = turn[s]
        /\ \A r \in Session \ {s} : shim'[r] = shim[r] /\ turn'[r] = turn[r] /\ stage'[r] = stage[r]
    BY SMTT(60), <1>0, <1>1, <1>2 DEF RegTypeOK, append_root
  <1>4. RegTypeOK'
    <2>1. Append(shim[s].ids, id) \in Root /\ Append(shim[s].root, id) \in Root
      BY SMTT(60), <1>0, Fields DEF Root
    <2>2. shim' \in [Session -> [ids: Root, root: Root, base_root: Root, base_len: Nat]]
      BY <1>0, <1>1, <2>1 DEF RegTypeOK, append_root
    <2>3. stage' \in [Session -> Stage]
      BY <1>0, <1>2 DEF RegTypeOK, Stage
    <2> QED
      BY <1>0, <1>1, <2>2, <2>3 DEF RegTypeOK
  <1>5. ShimInv(s)'
    <2>1. InHand(s) = <<>> /\ InHand(s)' = <<id>>
      BY <1>0, <1>2, <1>3 DEF InHand, id
    <2>2. /\ shim[s].base_root \in Root /\ BlockIds(turn[s].blocks) \in Root
          /\ session_ids(shimStore, s) \in Root
      BY <1>0, Fields, BlockIdsType
    <2>3. shim'[s].ids = shim'[s].base_root \o BlockIds(turn[s].blocks) \o <<id>>
      <3> DEFINE B == BlockIds(turn[s].blocks)
      <3>1. shim[s].ids = shim[s].base_root \o B \o <<>>
        BY <1>0, <2>1 DEF ShimInv
      <3>2. \A p, q \in Root : Append(p \o q \o <<>>, id) = p \o q \o <<id>>
        BY <1>0, HandOver
      <3>3. Append(shim[s].base_root \o B \o <<>>, id) = shim[s].base_root \o B \o <<id>>
        BY <2>2, <3>2
      <3> QED
        BY <1>3, <3>1, <3>3
    <2>4. shim'[s].ids = session_ids(shimStore, s) \o <<id>>
      BY <1>0, <1>3, <2>2, AppendIsConcat DEF ShimInv, Root
    <2>5. session_ids(shimStore', s) = session_ids(shimStore, s)
      BY <1>1
    <2>6. BlockIds(turn[s].blocks)' = BlockIds(turn[s].blocks)
      BY <1>1 DEF BlockIds
    <2> QED
      BY <1>0, <1>1, <1>2, <1>3, <2>1, <2>3, <2>4, <2>5, <2>6 DEF ShimInv, contains, id, session_ids
  <1>6. Sound(shimStore')
    BY <1>1 DEF RegInv, Sound, session_ids, session_root
  <1> QED
    BY <1>0, <1>1, <1>3, <1>4, <1>5, <1>6, IngestStep

\* While ingest has a block in hand it is the next of the turn's blocks.
LEMMA BlockInHand ==
  ASSUME RegInv, NEW s \in Session, stage[s] \in {"ref", "inline", "tell"}
  PROVE  /\ RegTypeOK /\ ShimInv(s) /\ turn[s].todo # <<>> /\ Head(turn[s].todo) \in BlockId
         /\ shimStore \in Image /\ Sound(shimStore) /\ session_ids(shimStore, s) \in Root
         /\ stage[s] = "ref" => contains(shimStore, Head(turn[s].todo))
         /\ stage[s] = "tell" => shim[s].ids = session_ids(shimStore, s)
         /\ stage[s] # "tell" => shim[s].ids = session_ids(shimStore, s) \o <<Head(turn[s].todo)>>
  <1>1. RegTypeOK /\ ShimInv(s) /\ Sound(shimStore)
    BY DEF RegInv
  <1>2. turn[s].todo # <<>> /\ turn[s].todo \in Seq(BlockId)
    BY <1>1, Fields DEF ShimInv
  <1>3. Head(turn[s].todo) \in BlockId
    BY SMTT(60), <1>2
  <1>4. shimStore \in Image /\ session_ids(shimStore, s) \in Root
    BY <1>1, Fields DEF RegTypeOK
  <1> QED
    BY <1>1, <1>2, <1>3, <1>4 DEF ShimInv, InHand

\* The block in hand goes to the end of the frame.
LEMMA EmitEffect ==
  ASSUME RegInv, NEW s \in Session, stage[s] \in {"ref", "tell"}, NEW fb \in FrameBlock,
         fb.id = Head(turn[s].todo), Emit(s, fb), Go(s, "look"), UNCHANGED shim
  PROVE  /\ turn' \in [Session -> [todo: Seq(BlockId), blocks: Seq(FrameBlock)]]
         /\ stage' \in [Session -> Stage]
         /\ \A r \in Session \ {s} : turn'[r] = turn[r] /\ stage'[r] = stage[r]
         /\ stage'[s] = "look"
         /\ shim'[s].ids = shim'[s].base_root \o BlockIds(turn'[s].blocks) \o <<>>
  <1>0. RegTypeOK /\ ShimInv(s) /\ turn[s].todo # <<>> /\ turn[s].todo \in Seq(BlockId)
        /\ turn[s].blocks \in Seq(FrameBlock) /\ fb.id \in BlockId /\ shim[s].base_root \in Root
    BY Fields DEF RegInv, ShimInv, FrameBlock
  <1>1. Tail(turn[s].todo) \in Seq(BlockId) /\ Append(turn[s].blocks, fb) \in Seq(FrameBlock)
    BY SMTT(60), <1>0
  <1>2. /\ turn' = [turn EXCEPT ![s] = [todo |-> Tail(turn[s].todo), blocks |-> Append(turn[s].blocks, fb)]]
        /\ stage' = [stage EXCEPT ![s] = "look"]
    BY DEF Emit, Go
  <1>3. /\ turn' \in [Session -> [todo: Seq(BlockId), blocks: Seq(FrameBlock)]]
        /\ stage' \in [Session -> Stage]
        /\ \A r \in Session \ {s} : turn'[r] = turn[r] /\ stage'[r] = stage[r]
        /\ stage'[s] = "look"
        /\ turn'[s].blocks = Append(turn[s].blocks, fb)
    BY <1>0, <1>1, <1>2 DEF RegTypeOK, Stage
  <1> DEFINE B == BlockIds(turn[s].blocks)
  <1>4. B \in Root /\ BlockIds(turn'[s].blocks) = Append(B, fb.id)
    BY <1>0, <1>3, BlockIdsAppend, BlockIdsType
  <1>5. shim[s].ids = shim[s].base_root \o B \o <<fb.id>>
    BY <1>0 DEF ShimInv, InHand
  <1>6. \A p, q \in Root, id \in BlockId : p \o Append(q, id) \o <<>> = p \o q \o <<id>>
    BY HandOver
  <1>7. shim[s].base_root \o Append(B, fb.id) \o <<>> = shim[s].base_root \o B \o <<fb.id>>
    BY <1>0, <1>4, <1>6
  <1> HIDE DEF B
  <1> QED
    BY <1>3, <1>4, <1>5, <1>7

LEMMA PutRefInv ==
  ASSUME RegInv, NEW s \in Session, PutRef(s)
  PROVE  RegInv'
  <1> DEFINE id == Head(turn[s].todo)
  <1>0. /\ RegTypeOK /\ ShimInv(s) /\ stage[s] = "ref" /\ id \in BlockId /\ turn[s].todo # <<>>
        /\ contains(shimStore, id) /\ shim[s].ids = session_ids(shimStore, s) \o <<id>>
        /\ session_ids(shimStore, s) \in Root /\ shimStore \in Image /\ Sound(shimStore)
    BY BlockInHand DEF PutRef, At
  <1> HIDE DEF id
  <1>1. /\ shimStore' = LogAppend(shimStore, s, id) /\ Emit(s, Ref(id)) /\ Go(s, "look")
        /\ UNCHANGED <<filter, shim, mail, named, gateway, state, restarts>>
    BY <1>0 DEF PutRef, log_known, reference, id
  <1>2. Ref(id) \in FrameBlock /\ Ref(id).id = id
    BY <1>0 DEF Ref, FrameBlock
  <1>3. /\ turn' \in [Session -> [todo: Seq(BlockId), blocks: Seq(FrameBlock)]]
        /\ stage' \in [Session -> Stage]
        /\ \A r \in Session \ {s} : turn'[r] = turn[r] /\ stage'[r] = stage[r]
        /\ stage'[s] = "look"
        /\ shim'[s].ids = shim'[s].base_root \o BlockIds(turn'[s].blocks) \o <<>>
    BY <1>0, <1>1, <1>2, EmitEffect DEF id
  <1>4. /\ shimStore' \in Image /\ Sound(shimStore') /\ shimStore'.blocks = shimStore.blocks
        /\ session_ids(shimStore', s) = Append(session_ids(shimStore, s), id)
        /\ \A r \in Session \ {s} : session_ids(shimStore', r) = session_ids(shimStore, r)
    BY <1>0, <1>1, LogAppendType, LogAppendEffect, SoundAppend
  <1>5. RegTypeOK'
    BY <1>0, <1>1, <1>3, <1>4 DEF RegTypeOK
  <1>6. shim'[s].ids = session_ids(shimStore', s)
    BY <1>0, <1>1, <1>4, AppendIsConcat DEF Root
  <1>7. ShimInv(s)'
    BY <1>0, <1>1, <1>3, <1>6 DEF ShimInv, InHand, session_ids, BlockIds
  <1> QED
    BY <1>1, <1>3, <1>4, <1>5, <1>7, IngestStep

LEMMA PutInlineInv ==
  ASSUME RegInv, NEW s \in Session, PutInline(s)
  PROVE  RegInv'
  <1> DEFINE id == Head(turn[s].todo)
  <1>0. /\ RegTypeOK /\ ShimInv(s) /\ stage[s] = "inline" /\ id \in BlockId /\ turn[s].todo # <<>>
        /\ shim[s].ids = session_ids(shimStore, s) \o <<id>>
        /\ session_ids(shimStore, s) \in Root /\ shimStore \in Image /\ Sound(shimStore)
    BY BlockInHand DEF PutInline, At
  <1> HIDE DEF id
  <1>1. /\ shimStore' = insert_with_id(shimStore, s, id) /\ stage' = [stage EXCEPT ![s] = "tell"]
        /\ UNCHANGED <<filter, shim, turn, mail, named, gateway, state, restarts>>
    BY DEF PutInline, Go, id
  <1>2. /\ stage' \in [Session -> Stage] /\ stage'[s] = "tell"
        /\ \A r \in Session \ {s} : stage'[r] = stage[r]
    BY <1>0, <1>1 DEF RegTypeOK, Stage
  <1>3. /\ shimStore' \in Image /\ Sound(shimStore') /\ shimStore'.blocks = shimStore.blocks \cup {id}
        /\ session_ids(shimStore', s) = Append(session_ids(shimStore, s), id)
        /\ \A r \in Session \ {s} : session_ids(shimStore', r) = session_ids(shimStore, r)
    BY SMTT(60), <1>0, <1>1, InsertType, InsertEffect, SoundAppend
  <1>4. RegTypeOK'
    BY <1>0, <1>1, <1>2, <1>3 DEF RegTypeOK
  <1>5. shim'[s].ids = session_ids(shimStore', s)
    BY SMTT(60), <1>0, <1>1, <1>3, AppendIsConcat DEF Root
  <1>6. ShimInv(s)'
    <2>1. InHand(s)' = InHand(s) /\ BlockIds(turn[s].blocks)' = BlockIds(turn[s].blocks)
      BY <1>0, <1>1, <1>2 DEF InHand, BlockIds
    <2> QED
      BY <1>0, <1>1, <1>2, <1>5, <2>1 DEF ShimInv, session_ids
  <1> QED
    BY <1>1, <1>2, <1>3, <1>4, <1>6, IngestStep

LEMMA TellInv ==
  ASSUME RegInv, NEW s \in Session, Tell(s)
  PROVE  RegInv'
  <1> DEFINE id == Head(turn[s].todo)
  <1>0. /\ RegTypeOK /\ ShimInv(s) /\ stage[s] = "tell" /\ id \in BlockId /\ turn[s].todo # <<>>
        /\ shim[s].ids = session_ids(shimStore, s)
    BY BlockInHand DEF Tell, At
  <1> HIDE DEF id
  <1>1. /\ filter' \subseteq filter \cup {id} /\ Emit(s, Inline(id)) /\ Go(s, "look")
        /\ UNCHANGED <<shimStore, shim, mail, named, gateway, state, restarts>>
    BY DEF Tell, id
  <1>2. Inline(id) \in FrameBlock /\ Inline(id).id = id
    BY <1>0 DEF Inline, FrameBlock
  <1>3. /\ turn' \in [Session -> [todo: Seq(BlockId), blocks: Seq(FrameBlock)]]
        /\ stage' \in [Session -> Stage]
        /\ \A r \in Session \ {s} : turn'[r] = turn[r] /\ stage'[r] = stage[r]
        /\ stage'[s] = "look"
        /\ shim'[s].ids = shim'[s].base_root \o BlockIds(turn'[s].blocks) \o <<>>
    BY <1>0, <1>1, <1>2, EmitEffect DEF id
  <1>4. RegTypeOK'
    BY <1>0, <1>1, <1>3 DEF RegTypeOK
  <1>5. ShimInv(s)'
    BY <1>0, <1>1, <1>3 DEF ShimInv, InHand, session_ids, BlockIds
  <1>6. Sound(shimStore')
    BY <1>1 DEF RegInv, Sound, session_ids, session_root
  <1> QED
    BY <1>1, <1>3, <1>4, <1>5, <1>6, IngestStep

LEMMA PostInv ==
  ASSUME RegInv, NEW s \in Session, Post(s)
  PROVE  RegInv'
  <1> DEFINE f == [s |-> s, base |-> shim[s].base_root, blocks |-> turn[s].blocks]
  <1>0. /\ RegTypeOK /\ ShimInv(s) /\ stage[s] = "look" /\ shim[s].ids = session_ids(shimStore, s)
        /\ shim[s].base_root \in Root /\ turn[s].blocks \in Seq(FrameBlock) /\ shim[s].ids \in Root
    BY Fields DEF RegInv, Post, At, ShimInv, RegTypeOK
  <1>1. /\ mail' = mail \cup {f} /\ turn' = [turn EXCEPT ![s] = NoTurn]
        /\ stage' = [stage EXCEPT ![s] = "posted"]
        /\ UNCHANGED <<shimStore, filter, shim, named, gateway, state, restarts>>
    BY DEF Post, Go
  <1>2. /\ f \in [s: Session, base: Root, blocks: Seq(FrameBlock)]
        /\ f.s = s /\ f.base = shim[s].base_root /\ f.blocks = turn[s].blocks
    BY <1>0
  <1>3. StartsWith(shim[s].ids, f.base \o BlockIds(f.blocks))
    <2>1. BlockIds(turn[s].blocks) \in Root
      BY <1>0, BlockIdsType
    <2>2. shim[s].ids = shim[s].base_root \o BlockIds(turn[s].blocks) \o <<>>
      BY <1>0 DEF ShimInv, InHand
    <2>3. shim[s].base_root \o BlockIds(turn[s].blocks) \in Seq(BlockId)
      BY SMTT(60), <1>0, <2>1 DEF Root
    <2>4. shim[s].ids = f.base \o BlockIds(f.blocks)
      BY <1>2, <2>2, <2>3, ConcatEmptySeq
    <2> HIDE DEF f
    <2> QED
      BY <1>0, <2>4, PrefixSelf
  <1> HIDE DEF f
  <1>4. <<>> \in Seq(BlockId) /\ <<>> \in Seq(FrameBlock)
    BY SMTT(60)
  <1>5. /\ turn' \in [Session -> [todo: Seq(BlockId), blocks: Seq(FrameBlock)]]
        /\ stage' \in [Session -> Stage] /\ stage'[s] = "posted" /\ turn'[s] = NoTurn
        /\ \A r \in Session \ {s} : turn'[r] = turn[r] /\ stage'[r] = stage[r]
    BY <1>0, <1>1, <1>4 DEF RegTypeOK, Stage, NoTurn
  <1>6. RegTypeOK'
    BY <1>0, <1>1, <1>2, <1>5 DEF RegTypeOK
  <1>7. ShimInv(s)'
    BY <1>0, <1>1, <1>5 DEF ShimInv, InHand, session_ids
  <1>8. Sound(shimStore')
    BY <1>1 DEF RegInv, Sound, session_ids, session_root
  <1>9. \A g \in mail' : g \in mail \/ StartsWith(shim'[g.s].ids, g.base \o BlockIds(g.blocks))
    BY <1>1, <1>2, <1>3
  <1> QED
    BY <1>1, <1>5, <1>6, <1>7, <1>8, <1>9, IngestStep

-----------------------------------------------------------------------------
(***************************************************************************)
(* The steps of the gateway and of the driver that talks to it: one        *)
(* session's entries move, and its log in the shim stays as it is.         *)
(***************************************************************************)
LEMMA GatewayStep ==
  ASSUME RegInv, NEW s \in Session, RegTypeOK', Sound(gateway'),
         UNCHANGED <<shimStore, turn>>, ShimInv(s)', GatewayInv(s)',
         gateway.blocks \subseteq gateway'.blocks, mail' \subseteq mail,
         shim'[s].ids = shim[s].ids,
         \A r \in Session \ {s} : /\ shim'[r] = shim[r] /\ stage'[r] = stage[r] /\ state'[r] = state[r]
                                  /\ session_ids(gateway', r) = session_ids(gateway, r)
  PROVE  RegInv'
  <1>1. \A r \in Session : ShimInv(r)' /\ GatewayInv(r)'
    <2>1. \A r \in Session \ {s} : ShimInv(r)'
      BY ShimKept DEF RegInv
    <2>2. \A r \in Session \ {s} : GatewayInv(r)'
      BY GatewayKept DEF RegInv
    <2> QED
      BY <2>1, <2>2
  <1>2. \A f \in mail' : StartsWith(shim'[f.s].ids, f.base \o BlockIds(f.blocks))
    <2> TAKE f \in mail'
    <2>1. f \in mail /\ f.s \in Session
      BY DEF RegInv, RegTypeOK
    <2>2. shim'[f.s].ids = shim[f.s].ids
      BY <2>1
    <2> QED
      BY <2>1, <2>2 DEF RegInv
  <1>3. Sound(shimStore')
    BY DEF RegInv, Sound, session_ids, session_root
  <1> QED
    BY <1>1, <1>2, <1>3 DEF RegInv, Sound, session_ids, session_root, BlockIds

\* A driver that gets an ACK of the whole session is idle on top of it.
LEMMA AnswerEffect ==
  ASSUME RegInv, NEW s \in Session, NEW at \in {"posted", "resync", "bulk"}, NEW root \in Root,
         Answer(s, at, root), UNCHANGED <<shimStore, turn>>
  PROVE  /\ shim' \in [Session -> [ids: Root, root: Root, base_root: Root, base_len: Nat]]
         /\ stage' \in [Session -> Stage]
         /\ shim'[s].ids = shim[s].ids
         /\ \A r \in Session \ {s} : shim'[r] = shim[r] /\ stage'[r] = stage[r]
         /\ ShimInv(s)'
  <1>0. /\ RegTypeOK /\ ShimInv(s) /\ shim[s].root = shim[s].ids /\ shim[s].ids \in Root
        /\ shim[s] \in [ids: Root, root: Root, base_root: Root, base_len: Nat]
    BY Fields DEF RegInv, ShimInv
  <1>1. CASE stage[s] # at
    <2>1. shim' = shim /\ stage' = stage
      BY <1>0, <1>1 DEF Answer, At, RegTypeOK
    <2>2. ShimInv(s)'
      BY <1>0, <2>1, ShimKept
    <2> QED
      BY <1>0, <2>1, <2>2 DEF RegTypeOK
  <1>2. CASE stage[s] = at
    <2> DEFINE sh == acked_shim(shim[s], root)
               there == IF root = shim[s].root THEN "idle" ELSE "resync"
    <2>1. /\ sh \in [ids: Root, root: Root, base_root: Root, base_len: Nat]
          /\ sh.ids = shim[s].ids /\ sh.root = shim[s].root
          /\ root = shim[s].root => sh.base_root = root
      BY <1>0, AckedShim
    <2> HIDE DEF sh
    <2>2. shim' = [shim EXCEPT ![s] = sh] /\ stage' = [stage EXCEPT ![s] = there]
      BY <1>2 DEF Answer, At, Go, sh
    <2>3. there \in {"idle", "resync"} /\ (there = "idle" => root = shim[s].root)
      OBVIOUS
    <2> HIDE DEF there
    <2>4. /\ shim' \in [Session -> [ids: Root, root: Root, base_root: Root, base_len: Nat]]
          /\ stage' \in [Session -> Stage] /\ shim'[s] = sh /\ stage'[s] = there
          /\ \A r \in Session \ {s} : shim'[r] = shim[r] /\ stage'[r] = stage[r]
      BY <1>0, <2>1, <2>2, <2>3 DEF RegTypeOK, Stage
    <2>5. turn[s] = NoTurn /\ shim[s].ids = session_ids(shimStore, s)
      BY <1>0, <1>2 DEF ShimInv
    <2>6. there = "idle" => sh.ids = sh.base_root \o BlockIds(NoTurn.blocks) \o <<>>
      <3>1. BlockIds(NoTurn.blocks) = <<>>
        BY SMTT(60) DEF BlockIds, NoTurn
      <3>2. \A q \in Seq(BlockId) : q = q \o <<>> \o <<>>
        BY ConcatEmptySeq
      <3> QED
        BY <1>0, <2>1, <2>3, <3>1, <3>2 DEF Root
    <2>7. ShimInv(s)'
      BY <1>0, <2>1, <2>3, <2>4, <2>5, <2>6 DEF ShimInv, InHand, session_ids, BlockIds
    <2> QED
      BY <2>1, <2>4, <2>7
  <1> QED
    BY <1>1, <1>2

\* A driver that is refused, or stops waiting, turns to a RESYNC.
LEMMA TurnToResync ==
  ASSUME RegInv, NEW s \in Session, stage[s] \in {"posted", "bulk", "resync"},
         NEW there \in {"resync", "bulk"},
         stage' = [stage EXCEPT ![s] = there], UNCHANGED <<shimStore, turn, shim>>
  PROVE  /\ stage' \in [Session -> Stage]
         /\ \A r \in Session \ {s} : stage'[r] = stage[r]
         /\ ShimInv(s)'
  <1>1. /\ stage' \in [Session -> Stage] /\ stage'[s] = there
        /\ \A r \in Session \ {s} : stage'[r] = stage[r]
    BY DEF RegInv, RegTypeOK, Stage
  <1>2. ShimInv(s)
    BY DEF RegInv
  <1>3. ShimInv(s)'
    BY <1>1, <1>2 DEF ShimInv, session_ids
  <1> QED
    BY <1>1, <1>3

LEMMA GiveUpInv ==
  ASSUME RegInv, NEW s \in Session, GiveUp(s)
  PROVE  RegInv'
  <1>1. /\ stage[s] = "posted" /\ stage' = [stage EXCEPT ![s] = "resync"]
        /\ UNCHANGED <<shimStore, filter, shim, turn, mail, named, gateway, state, restarts>>
    BY DEF GiveUp, At, Go
  <1>2. /\ stage' \in [Session -> Stage] /\ ShimInv(s)'
        /\ \A r \in Session \ {s} : stage'[r] = stage[r]
    BY <1>1, TurnToResync
  <1>3. RegTypeOK'
    BY <1>1, <1>2 DEF RegInv, RegTypeOK
  <1>4. Sound(gateway') /\ GatewayInv(s)'
    BY <1>1 DEF RegInv, GatewayInv, Sound, session_ids, session_root
  <1> QED
    BY <1>1, <1>2, <1>3, <1>4, GatewayStep

\* What the loop over the blocks of an APPEND leaves in the store.
LEMMA ApplyEffect ==
  ASSUME NEW im \in Image, Sound(im), NEW s \in Session, NEW blocks \in Seq(FrameBlock),
         NEW after, after = apply_blocks(im, s, blocks)
  PROVE  /\ after \in Image /\ Sound(after) /\ im.blocks \subseteq after.blocks
         /\ \A id \in BlockId : (\E i \in DOMAIN blocks : blocks[i] = Inline(id)) => id \in after.blocks
         /\ session_ids(after, s) = session_ids(im, s) \o BlockIds(blocks)
         /\ session_root(after, s) = session_ids(after, s)
         /\ \A r \in Session \ {s} : session_ids(after, r) = session_ids(im, r)
  <1> DEFINE inline == {id \in BlockId : \E i \in DOMAIN blocks : blocks[i] = Inline(id)}
             log == session_ids(im, s) \o BlockIds(blocks)
             entry == [live |-> TRUE, ids |-> log, root |-> log]
  <1>1. session_ids(im, s) \in Root /\ BlockIds(blocks) \in Root /\ session_root(im, s) = session_ids(im, s)
    BY RootType, BlockIdsType DEF Sound, Root
  <1>2. log \in Seq(BlockId)
    BY SMTT(60), <1>1 DEF Root
  <1>3. after = [im EXCEPT !.blocks = @ \cup inline, !.log[s] = entry]
    BY <1>1 DEF apply_blocks, root_over, session_ids, session_root
  <1> HIDE DEF log, inline
  <1>4. entry \in SessionLog /\ inline \subseteq BlockId
    BY <1>2 DEF SessionLog, Root, inline
  <1>5. /\ after.blocks = im.blocks \cup inline /\ after.log = [im.log EXCEPT ![s] = entry]
        /\ after = [blocks |-> im.blocks \cup inline, log |-> [im.log EXCEPT ![s] = entry]]
        /\ im.log \in [Session -> SessionLog] /\ im.blocks \subseteq BlockId
    BY <1>3 DEF Image
  <1> HIDE DEF entry
  <1>6. after \in Image
    BY <1>4, <1>5 DEF Image
  <1>7. after.log[s] = entry /\ \A r \in Session \ {s} : after.log[r] = im.log[r]
    BY <1>5
  <1>8. /\ session_ids(after, s) = log /\ session_root(after, s) = log
        /\ \A r \in Session \ {s} : session_ids(after, r) = session_ids(im, r)
        /\ \A r \in Session \ {s} : session_root(after, r) = session_root(im, r)
    BY SMTT(60), <1>7 DEF session_ids, session_root, entry
  <1> QED
    BY <1>5, <1>6, <1>8 DEF Sound, log, inline

\* References are looked up first: every block of an accepted frame is stored.
LEMMA NothingMissing ==
  ASSUME RegInv, NEW s \in Session, NEW blocks \in Seq(FrameBlock), ~missing_ref(blocks),
         NEW after, after = apply_blocks(gateway, s, blocks)
  PROVE  \A i \in 1..Len(blocks) : blocks[i].id \in after.blocks
  <1>1. /\ gateway.blocks \subseteq after.blocks
        /\ \A id \in BlockId : (\E i \in DOMAIN blocks : blocks[i] = Inline(id)) => id \in after.blocks
    BY ApplyEffect DEF RegInv, RegTypeOK
  <1> TAKE i \in 1..Len(blocks)
  <1>2. blocks[i] \in FrameBlock /\ DOMAIN blocks = 1..Len(blocks) /\ Len(blocks) \in Nat
    BY SMTT(60)
  <1>3. CASE blocks[i].ref = TRUE
    <2>1. contains(gateway, blocks[i].id) \/ \E j \in 1..(i - 1) : blocks[j] = Inline(blocks[i].id)
      BY <1>2, <1>3 DEF missing_ref
    <2>2. \A j \in 1..(i - 1) : j \in DOMAIN blocks
      BY SMTT(60), <1>2
    <2> QED
      BY <1>1, <1>2, <2>1, <2>2 DEF contains, FrameBlock
  <1>4. CASE blocks[i].ref = FALSE
    <2>1. blocks[i] = Inline(blocks[i].id) /\ blocks[i].id \in BlockId
      BY <1>2, <1>4 DEF FrameBlock, Inline
    <2> QED
      BY <1>1, <1>2, <2>1
  <1> QED
    BY <1>2, <1>3, <1>4 DEF FrameBlock

LEMMA RangeConcat ==
  ASSUME NEW p \in Root, NEW q \in Root, NEW B,
         Range(p) \subseteq B, \A i \in 1..Len(q) : q[i] \in B
  PROVE  Range(p \o q) \subseteq B
  <1>1. /\ DOMAIN (p \o q) = 1..(Len(p) + Len(q)) /\ Len(p) \in Nat /\ Len(q) \in Nat
        /\ DOMAIN p = 1..Len(p)
    BY SMTT(60) DEF Root
  <1>2. \A i \in 1..(Len(p) + Len(q)) : (p \o q)[i] = IF i <= Len(p) THEN p[i] ELSE q[i - Len(p)]
    BY SMTT(60) DEF Root
  <1>3. \A i \in 1..(Len(p) + Len(q)) : (p \o q)[i] \in B
    BY SMTT(60), <1>1, <1>2 DEF Range
  <1> QED
    BY <1>1, <1>3 DEF Range

LEMMA RefuseInv ==
  ASSUME RegInv, NEW s \in Session, Refuse(s), mail' \subseteq mail,
         UNCHANGED <<shimStore, filter, turn, named, state, restarts>>
  PROVE  RegInv'
  <1>0. UNCHANGED <<shim, gateway>>
    BY DEF Refuse
  <1>1. /\ stage' \in [Session -> Stage] /\ ShimInv(s)'
        /\ \A r \in Session \ {s} : stage'[r] = stage[r]
    <2>1. CASE stage[s] = "posted"
      <3>1. stage' = [stage EXCEPT ![s] = "resync"]
        BY <2>1 DEF Refuse, At, Go
      <3> QED
        BY <1>0, <2>1, <3>1, TurnToResync
    <2>2. CASE stage[s] # "posted"
      <3>1. stage' = stage
        BY <2>2 DEF Refuse, At
      <3> QED
        BY <1>0, <3>1, ShimKept DEF RegInv, RegTypeOK
    <2> QED
      BY <2>1, <2>2
  <1>2. RegTypeOK'
    BY <1>0, <1>1 DEF RegInv, RegTypeOK
  <1>3. Sound(gateway') /\ GatewayInv(s)'
    BY <1>0 DEF RegInv, GatewayInv, Sound, session_ids, session_root
  <1> QED
    BY <1>0, <1>1, <1>2, <1>3, GatewayStep

LEMMA DeliverInv ==
  ASSUME RegInv, NEW f \in mail, Deliver(f)
  PROVE  RegInv'
  <1> f.s \in Session
    BY DEF RegInv, RegTypeOK
  <1> PICK s \in Session : s = f.s
    OBVIOUS
  <1> DEFINE cur == session_root(gateway, s)
  <1> PICK after : after = apply_blocks(gateway, s, f.blocks)
    OBVIOUS
  <1>0. /\ RegTypeOK /\ Sound(gateway) /\ gateway \in Image
        /\ s \in Session /\ f.base \in Root /\ f.blocks \in Seq(FrameBlock) /\ cur \in Root
        /\ cur = session_ids(gateway, s)
    <2>1. RegTypeOK /\ s \in Session /\ f.base \in Root /\ f.blocks \in Seq(FrameBlock)
      BY DEF RegInv, RegTypeOK
    <2> QED
      BY <2>1, Fields DEF RegInv, RegTypeOK, Sound
  <1>1. mail' \subseteq mail /\ UNCHANGED <<shimStore, filter, turn, named, state, restarts>>
    BY DEF Deliver
  <1>2. \/ Refuse(s)
        \/ Answer(s, "posted", cur) /\ UNCHANGED gateway
        \/ /\ ~missing_ref(f.blocks) /\ state[s].pending = {} /\ f.base = cur
           /\ gateway' = after /\ Answer(s, "posted", session_root(after, s))
    BY DEF Deliver
  <1> HIDE DEF cur
  <1>3. CASE Refuse(s)
    BY <1>0, <1>1, <1>3, RefuseInv
  <1>4. CASE Answer(s, "posted", cur) /\ UNCHANGED gateway
    <2>1. /\ shim' \in [Session -> [ids: Root, root: Root, base_root: Root, base_len: Nat]]
          /\ stage' \in [Session -> Stage] /\ shim'[s].ids = shim[s].ids /\ ShimInv(s)'
          /\ \A r \in Session \ {s} : shim'[r] = shim[r] /\ stage'[r] = stage[r]
      BY <1>0, <1>1, <1>4, AnswerEffect
    <2>2. RegTypeOK'
      BY <1>0, <1>1, <1>4, <2>1 DEF RegTypeOK
    <2>3. Sound(gateway') /\ GatewayInv(s)'
      BY <1>0, <1>1, <1>4, <2>1 DEF RegInv, GatewayInv, Sound, session_ids, session_root
    <2> QED
      BY <1>0, <1>1, <1>4, <2>1, <2>2, <2>3, GatewayStep
  <1>5. CASE /\ ~missing_ref(f.blocks) /\ state[s].pending = {} /\ f.base = cur
             /\ gateway' = after /\ Answer(s, "posted", session_root(after, s))
    <2>1. /\ after \in Image /\ Sound(after) /\ gateway.blocks \subseteq after.blocks
          /\ session_ids(after, s) = session_ids(gateway, s) \o BlockIds(f.blocks)
          /\ \A r \in Session \ {s} : session_ids(after, r) = session_ids(gateway, r)
      <3>1. gateway \in Image /\ Sound(gateway) /\ f.blocks \in Seq(FrameBlock)
        BY <1>0
      <3>2. after \in Image /\ Sound(after) /\ gateway.blocks \subseteq after.blocks
        BY SMTT(60), <3>1, ApplyEffect
      <3>3. \A r \in Session \ {s} : session_ids(after, r) = session_ids(gateway, r)
        BY SMTT(60), <3>1, ApplyEffect
      <3>4. session_ids(after, s) = session_ids(gateway, s) \o BlockIds(f.blocks)
        BY <3>1, ApplyEffect
      <3> QED
        BY <3>2, <3>3, <3>4
    <2>2. session_root(after, s) \in Root
      BY <1>0, <2>1, RootType
    <2>3. /\ shim' \in [Session -> [ids: Root, root: Root, base_root: Root, base_len: Nat]]
          /\ stage' \in [Session -> Stage] /\ shim'[s].ids = shim[s].ids /\ ShimInv(s)'
          /\ \A r \in Session \ {s} : shim'[r] = shim[r] /\ stage'[r] = stage[r]
      BY <1>0, <1>1, <1>5, <2>2, AnswerEffect
    <2>4. RegTypeOK'
      BY <1>0, <1>1, <1>5, <2>1, <2>3 DEF RegTypeOK
    <2>5. StartsWith(shim[s].ids, session_ids(after, s))
      <3>1. StartsWith(shim[f.s].ids, f.base \o BlockIds(f.blocks))
        BY DEF RegInv
      <3> QED
        BY <1>0, <1>5, <2>1, <3>1
    <2>6. Range(session_ids(after, s)) \subseteq after.blocks
      <3>1. Range(session_ids(gateway, s)) \subseteq after.blocks
        BY <1>0, <1>5, <2>1 DEF RegInv, GatewayInv
      <3>2. /\ BlockIds(f.blocks) \in Root
            /\ \A i \in 1..Len(BlockIds(f.blocks)) : BlockIds(f.blocks)[i] \in after.blocks
        BY SMTT(60), <1>0, <1>5, NothingMissing, BlockIdsType
      <3>3. session_ids(gateway, s) \in Root
        BY <1>0
      <3> QED
        BY <2>1, <3>1, <3>2, <3>3, RangeConcat
    <2>7. Sound(gateway') /\ GatewayInv(s)'
      <3>1. Sound(gateway')
        BY <1>5, <2>1
      <3>2. session_ids(gateway, s)' = session_ids(after, s)
        BY <1>5 DEF session_ids
      <3>3. gateway'.blocks = after.blocks /\ s \in Session
        BY <1>0, <1>5
      <3> QED
        BY <2>3, <2>5, <2>6, <3>1, <3>2, <3>3 DEF GatewayInv, session_ids
    <2> QED
      BY <1>0, <1>1, <1>5, <2>1, <2>3, <2>4, <2>7, GatewayStep
  <1> QED
    BY <1>2, <1>3, <1>4, <1>5

LEMMA ResyncInv ==
  ASSUME RegInv, NEW s \in Session, Resync(s)
  PROVE  RegInv'
  <1> PICK lacks : lacks = lacking(s)
    OBVIOUS
  <1>0. /\ RegTypeOK /\ gateway \in Image /\ Sound(gateway) /\ shim[s].ids \in Root
        /\ shim[s].root = shim[s].ids /\ stage[s] = "resync" /\ shim[s].ids \in Seq(BlockId)
    BY Fields DEF RegInv, RegTypeOK, ShimInv, Resync, At, Root
  <1>1. /\ gateway' = seed_session(gateway, s, shim[s].ids, shim[s].root)
        /\ state' = [state EXCEPT ![s] = [pending |-> lacks, acked |-> lacks = {}]]
        /\ named' = [named EXCEPT ![s] = lacks]
        /\ \/ Answer(s, "resync", shim[s].root)
           \/ stage' = [stage EXCEPT ![s] = "bulk"] /\ shim' = shim
        /\ UNCHANGED <<shimStore, filter, turn, mail, restarts>>
    BY DEF Resync, Go
  <1>2. lacks \subseteq BlockId /\ Range(shim[s].ids) \subseteq gateway.blocks \cup lacks
    BY SMTT(60), <1>0 DEF lacking, contains, Range
  <1>3. /\ shim' \in [Session -> [ids: Root, root: Root, base_root: Root, base_len: Nat]]
        /\ stage' \in [Session -> Stage] /\ shim'[s].ids = shim[s].ids /\ ShimInv(s)'
        /\ \A r \in Session \ {s} : shim'[r] = shim[r] /\ stage'[r] = stage[r]
    <2>1. CASE Answer(s, "resync", shim[s].root)
      BY <1>0, <1>1, <2>1, AnswerEffect
    <2>2. CASE stage' = [stage EXCEPT ![s] = "bulk"] /\ shim' = shim
      BY <1>0, <1>1, <2>2, TurnToResync DEF RegTypeOK
    <2> QED
      BY <1>1, <2>1, <2>2
  <1>4. /\ gateway' \in Image /\ gateway'.blocks = gateway.blocks
        /\ session_ids(gateway', s) = shim[s].ids /\ session_root(gateway', s) = shim[s].ids
        /\ \A r \in Session \ {s} : /\ session_ids(gateway', r) = session_ids(gateway, r)
                                    /\ session_root(gateway', r) = session_root(gateway, r)
    BY SMTT(60), <1>0, <1>1, SeedType, SeedEffect
  <1>5. Sound(gateway')
    BY <1>0, <1>4 DEF Sound
  <1>6. RegTypeOK'
    <2>1. named' \in [Session -> SUBSET BlockId]
      BY <1>0, <1>1, <1>2 DEF RegTypeOK
    <2>2. [pending |-> lacks, acked |-> lacks = {}] \in [pending: SUBSET BlockId, acked: BOOLEAN]
      BY <1>2
    <2>3. state' \in [Session -> [pending: SUBSET BlockId, acked: BOOLEAN]]
      BY <1>0, <1>1, <2>2 DEF RegTypeOK
    <2> QED
      BY <1>0, <1>1, <1>3, <1>4, <2>1, <2>3 DEF RegTypeOK
  <1>7. state'[s].pending = lacks /\ \A r \in Session \ {s} : state'[r] = state[r]
    BY <1>0, <1>1 DEF RegTypeOK
  <1>8. GatewayInv(s)'
    <2>1. StartsWith(shim[s].ids, shim[s].ids)
      BY <1>0, PrefixSelf
    <2>2. session_ids(gateway, s)' = shim[s].ids
      BY <1>4 DEF session_ids
    <2> QED
      BY <1>2, <1>3, <1>4, <1>7, <2>1, <2>2 DEF GatewayInv
  <1> QED
    BY <1>1, <1>3, <1>4, <1>5, <1>6, <1>7, <1>8, GatewayStep

LEMMA BulkInv ==
  ASSUME RegInv, NEW s \in Session, Bulk(s)
  PROVE  RegInv'
  <1> PICK left : left = state[s].pending \ served(s)
    OBVIOUS
  <1> PICK got : got = [gateway EXCEPT !.blocks = @ \cup served(s)]
    OBVIOUS
  <1> DEFINE acked == state[s].acked \/ (left = {} /\ ~state[s].acked)
  <1>0. /\ RegTypeOK /\ gateway \in Image /\ Sound(gateway) /\ stage[s] = "bulk"
        /\ served(s) \subseteq BlockId /\ left \subseteq BlockId
    BY Fields DEF RegInv, RegTypeOK, Bulk, At, served
  <1>1. /\ gateway' = got
        /\ state' = [state EXCEPT ![s] = [pending |-> left, acked |-> acked]]
        /\ named' = [named EXCEPT ![s] = {}]
        /\ \/ Answer(s, "bulk", session_root(got, s))
           \/ stage' = [stage EXCEPT ![s] = "resync"] /\ shim' = shim
        /\ UNCHANGED <<shimStore, filter, turn, mail, restarts>>
    BY DEF Bulk, Go
  <1>2. acked \in BOOLEAN
    OBVIOUS
  <1> HIDE DEF acked
  <1>3. /\ got \in Image /\ got.blocks = gateway.blocks \cup served(s) /\ got.log = gateway.log
        /\ gateway.blocks \subseteq got.blocks
    BY <1>0 DEF Image
  <1>4. \A r \in Session : /\ session_ids(got, r) = session_ids(gateway, r)
                          /\ session_root(got, r) = session_root(gateway, r)
    BY <1>3 DEF session_ids, session_root
  <1>5. /\ shim' \in [Session -> [ids: Root, root: Root, base_root: Root, base_len: Nat]]
        /\ stage' \in [Session -> Stage] /\ shim'[s].ids = shim[s].ids /\ ShimInv(s)'
        /\ \A r \in Session \ {s} : shim'[r] = shim[r] /\ stage'[r] = stage[r]
    <2>1. CASE Answer(s, "bulk", session_root(got, s))
      <3>1. session_root(got, s) \in Root
        BY <1>3, RootType
      <3> QED
        BY <1>1, <2>1, <3>1, AnswerEffect
    <2>2. CASE stage' = [stage EXCEPT ![s] = "resync"] /\ shim' = shim
      BY <1>0, <1>1, <2>2, TurnToResync DEF RegTypeOK
    <2> QED
      BY <1>1, <2>1, <2>2
  <1>6. Sound(gateway')
    BY <1>0, <1>1, <1>4 DEF Sound
  <1>7. RegTypeOK'
    <2>1. named' \in [Session -> SUBSET BlockId]
      BY <1>0, <1>1 DEF RegTypeOK
    <2>2. [pending |-> left, acked |-> acked] \in [pending: SUBSET BlockId, acked: BOOLEAN]
      BY <1>0, <1>2
    <2>3. state' \in [Session -> [pending: SUBSET BlockId, acked: BOOLEAN]]
      BY <1>0, <1>1, <2>2 DEF RegTypeOK
    <2> QED
      BY <1>0, <1>1, <1>3, <1>5, <2>1, <2>3 DEF RegTypeOK
  <1>8. state'[s].pending = left /\ \A r \in Session \ {s} : state'[r] = state[r]
    BY <1>0, <1>1 DEF RegTypeOK
  <1>9. GatewayInv(s)'
    <2>1. session_ids(gateway, s)' = session_ids(gateway, s)
      BY <1>1, <1>4 DEF session_ids
    <2>2. GatewayInv(s)
      BY DEF RegInv
    <2>3. Range(session_ids(gateway, s)) \subseteq got.blocks \cup left
      BY <1>3, <2>2 DEF GatewayInv
    <2> QED
      BY <1>1, <1>5, <1>8, <2>1, <2>2, <2>3 DEF GatewayInv
  <1>10. \A r \in Session \ {s} : session_ids(gateway', r) = session_ids(gateway, r)
    BY <1>1, <1>4
  <1> QED
    BY <1>1, <1>3, <1>5, <1>6, <1>7, <1>8, <1>9, <1>10, GatewayStep

LEMMA RestartInv ==
  ASSUME RegInv, Restart
  PROVE  RegInv'
  <1>1. /\ gateway' = EmptyStore /\ state' = [s \in Session |-> NoState] /\ restarts' \in Nat
        /\ UNCHANGED <<shimStore, filter, shim, turn, stage, mail, named>>
    BY SMTT(60) DEF Restart, RegInv, RegTypeOK
  <1>2. RegTypeOK'
    <2>1. NoState \in [pending: SUBSET BlockId, acked: BOOLEAN]
      BY DEF NoState
    <2>2. state' \in [Session -> [pending: SUBSET BlockId, acked: BOOLEAN]]
      BY <1>1, <2>1
    <2> QED
      BY <1>1, <2>2, EmptyStoreType DEF RegInv, RegTypeOK
  <1>3. \A s \in Session : session_ids(gateway', s) = <<>> /\ session_root(gateway', s) = <<>>
    BY <1>1 DEF EmptyStore, NoSessionLog, session_ids, session_root, ROOT_ZERO
  <1>4. ASSUME NEW s \in Session PROVE GatewayInv(s)'
    <2>1. StartsWith(shim[s].ids, <<>>)
      BY Fields, PrefixSelf DEF RegInv
    <2>2. session_ids(gateway, s)' = <<>>
      BY <1>3 DEF session_ids
    <2> QED
      BY SMTT(60), <1>1, <2>1, <2>2 DEF GatewayInv, Range
  <1>5. \A s \in Session : ShimInv(s)'
    BY <1>1, ShimKept DEF RegInv
  <1>6. Sound(gateway') /\ Sound(shimStore')
    BY <1>1, <1>3 DEF RegInv, Sound, session_ids, session_root
  <1> QED
    BY <1>1, <1>2, <1>4, <1>5, <1>6 DEF RegInv, BlockIds, Sound, session_ids, session_root

-----------------------------------------------------------------------------
LEMMA RegInvStep == RegInv /\ [RegNext]_regVars => RegInv'
  <1> SUFFICES ASSUME RegInv, [RegNext]_regVars PROVE RegInv'
    OBVIOUS
  <1>1. CASE Restart
    BY <1>1, RestartInv
  <1>2. ASSUME NEW s \in Session, Ingest(s) PROVE RegInv'
    BY <1>2, IngestInv
  <1>3. ASSUME NEW s \in Session, GiveUp(s) PROVE RegInv'
    BY <1>3, GiveUpInv
  <1>4. ASSUME NEW s \in Session, Step(s) PROVE RegInv'
    <2>1. CASE Look(s)
      BY <2>1, LookInv
    <2>2. CASE PutRef(s)
      BY <2>2, PutRefInv
    <2>3. CASE PutInline(s)
      BY <2>3, PutInlineInv
    <2>4. CASE Tell(s)
      BY <2>4, TellInv
    <2>5. CASE Post(s)
      BY <2>5, PostInv
    <2>6. CASE \E f \in mail : f.s = s /\ Deliver(f)
      BY <2>6, DeliverInv
    <2>7. CASE Resync(s)
      BY <2>7, ResyncInv
    <2>8. CASE Bulk(s)
      BY <2>8, BulkInv
    <2> QED
      BY <1>4, <2>1, <2>2, <2>3, <2>4, <2>5, <2>6, <2>7, <2>8 DEF Step, Handle
  <1>5. CASE UNCHANGED regVars
    BY <1>5 DEF regVars, RegInv, RegTypeOK, ShimInv, GatewayInv, InHand, Sound, contains,
                session_ids, session_root, BlockIds
  <1> QED
    BY <1>1, <1>2, <1>3, <1>4, <1>5 DEF RegNext

\* The host's store, the shims, the frames under way and the gateway stay
\* consistent with each other through every interleaving of ingests, late or
\* lost frames, cold starts and restarts of the gateway.
THEOREM RegInvariance == RegSpec => []RegInv
  BY RegInitInv, RegInvStep, PTL DEF RegSpec

\* Whenever ingest is not running for a session, the shared store's log and
\* root of it are those of its shim (shim/src/lib.rs, ingest_turn).
THEOREM HostLogsAreShimLogs == RegSpec => []RegistryLogs
  <1>1. RegInv => RegistryLogs
    <2> SUFFICES ASSUME RegInv, NEW s \in Session, stage[s] \notin {"look", "ref", "inline", "tell"}
                 PROVE  session_ids(shimStore, s) = shim[s].ids /\ session_root(shimStore, s) = shim[s].root
      BY DEF RegistryLogs
    <2> QED
      BY DEF RegInv, ShimInv, Sound
  <1> QED
    BY <1>1, RegInvariance, PTL

\* The gateway's log of a session is a prefix of the shim's, and outside a cold
\* start it has every block of it: the references that ingest makes to blocks
\* only another session has sent are never taken on trust.
THEOREM GatewayFollowsShims == RegSpec => []GatewayFollows
  <1>1. RegInv => GatewayFollows
    BY DEF RegInv, GatewayInv, GatewayFollows
  <1> QED
    BY <1>1, RegInvariance, PTL

-----------------------------------------------------------------------------
(***************************************************************************)
(* PruneScheduler.  A job is in one place until its window is returned.    *)
(***************************************************************************)
\* A number has a holder exactly when some place has a job of that number.
Booked == \A n : n \in JobNumbers <=> Holders(n) # {}

LEMMA NumberHeld == Booked
  <1> USE DEF Booked
  <1> SUFFICES ASSUME NEW n PROVE n \in JobNumbers <=> Holders(n) # {}
    OBVIOUS
  <1>1. n \in {pending[i].n : i \in DOMAIN pending} <=> InPending(n) # {}
    BY DEF InPending
  <1>2. n \in {j.n : j \in heap} <=> InHeap(n) # {}
    BY DEF InHeap
  <1>3. n \in {taken[t].n : t \in {t \in Client : taken[t] # NoJob}} <=> Unpushed(n) # {}
    BY DEF Unpushed
  <1>4. n \in UNION {{active[r][i].job.n : i \in DOMAIN active[r]} : r \in Runner}
          <=> UNION {InBatch(r, n) : r \in Runner} # {}
    <2>1. n \in UNION {{active[r][i].job.n : i \in DOMAIN active[r]} : r \in Runner}
            <=> \E r \in Runner : \E i \in DOMAIN active[r] : active[r][i].job.n = n
      <3> DEFINE S(r) == {active[r][i].job.n : i \in DOMAIN active[r]}
      <3>1. \A r : n \in S(r) <=> \E i \in DOMAIN active[r] : active[r][i].job.n = n
        OBVIOUS
      <3> HIDE DEF S
      <3>2. n \in UNION {S(r) : r \in Runner} <=> \E r \in Runner : n \in S(r)
        OBVIOUS
      <3> QED
        BY <3>1, <3>2 DEF S
    <2>2. \A r : InBatch(r, n) # {} <=> \E i \in DOMAIN active[r] : active[r][i].job.n = n
      BY DEF InBatch
    <2>3. UNION {InBatch(r, n) : r \in Runner} # {} <=> \E r \in Runner : InBatch(r, n) # {}
      OBVIOUS
    <2> QED
      BY <2>1, <2>2, <2>3
  <1>5. n \in delivered <=> Returned(n) # {}
    BY DEF Returned
  <1>6. n \in JobNumbers <=>
          \/ n \in {pending[i].n : i \in DOMAIN pending} \/ n \in {j.n : j \in heap}
          \/ n \in {taken[t].n : t \in {t \in Client : taken[t] # NoJob}}
          \/ n \in UNION {{active[r][i].job.n : i \in DOMAIN active[r]} : r \in Runner}
          \/ n \in delivered
    BY DEF JobNumbers
  <1>7. Holders(n) # {} <=>
          \/ InPending(n) # {} \/ InHeap(n) # {} \/ Unpushed(n) # {}
          \/ UNION {InBatch(r, n) : r \in Runner} # {} \/ Returned(n) # {}
    BY DEF Holders
  <1> QED
    BY <1>1, <1>2, <1>3, <1>4, <1>5, <1>6, <1>7

\* The places of a job before and after a step: it is somewhere after only if
\* it was before, and in one place after if it was in one before.
KeepsOne(A, Z) ==
  /\ Z # {} => A # {}
  /\ (\E x \in A : A = {x}) => \E y \in Z : Z = {y}

MovesOne(P, Q) == (P = {} => Q = {}) /\ \A x : P = {x} => \E y : Q = {y}

Apart(P, K) == P \cap K = {}

\* A job that moves from one place to another, and all others stay.
LEMMA OneMoves ==
  ASSUME NEW P, NEW Q, NEW K, Apart(P, K), MovesOne(P, Q)
  PROVE  KeepsOne(P \cup K, Q \cup K)
  <1>1. Q \cup K # {} => P \cup K # {}
    BY DEF MovesOne
  <1>2. ASSUME NEW x \in P \cup K, P \cup K = {x} PROVE \E y \in Q \cup K : Q \cup K = {y}
    <2>1. CASE P = {}
      BY <1>2, <2>1 DEF MovesOne
    <2>2. CASE P # {}
      <3>1. P = {x} /\ K = {}
        BY <1>2, <2>2 DEF Apart
      <3>2. PICK y : Q = {y}
        BY <3>1 DEF MovesOne
      <3> QED
        BY <3>1, <3>2
    <2> QED
      BY <2>1, <2>2
  <1> QED
    BY <1>1, <1>2 DEF KeepsOne

\* The job books are kept by a step that gives out no number.
LEMMA BooksMoved ==
  ASSUME JobsInv, seq' = seq, pending' \in Seq(JobSet), heap' \subseteq JobSet, IsFiniteSet(heap'),
         taken' \in [Client -> JobSet \cup {NoJob}], DOMAIN active' = Runner,
         \A n : KeepsOne(Holders(n), Holders(n)')
  PROVE  JobsInv'
  <1>1. Booked'
    BY NumberHeld, PTL
  <1>2. JobNumbers' \subseteq JobNumbers
    BY <1>1, NumberHeld DEF Booked, KeepsOne
  <1>3. JobNumbers' \subseteq 1..seq'
    BY <1>2 DEF JobsInv
  <1>4. \A n \in 1..seq' : \E x \in Holders(n)' : Holders(n)' = {x}
    BY DEF JobsInv, KeepsOne
  <1>5. seq' \in Nat
    BY DEF JobsInv
  <1> QED
    BY <1>3, <1>4, <1>5 DEF JobsInv

\* The jobs the heap pops are the jobs it holds, each once.
LEMMA PopsEachOnce ==
  ASSUME NEW jobs \in SUBSET JobSet, IsFiniteSet(jobs), \A j, k \in jobs : j.n = k.n => j = k
  PROVE  /\ \A i \in DOMAIN NewestFirst(jobs) : NewestFirst(jobs)[i] \in jobs
         /\ \A j \in jobs : \E i \in DOMAIN NewestFirst(jobs) : NewestFirst(jobs)[i] = j
         /\ IsInjective(NewestFirst(jobs))
  <1> DEFINE N == Cardinality(jobs)
             Above(j) == {k \in jobs : k.n >= j.n}
             rank == [j \in jobs |-> Cardinality(Above(j))]
  <1>1. N \in Nat /\ IsFiniteSet(1..N) /\ Cardinality(1..N) = N
    <2>1. N \in Nat
      BY FS_CardinalityType
    <2> HIDE DEF N
    <2> QED
      BY SMTT(60), <2>1, FS_Interval
  <1>2. \A j \in jobs : j.n \in Nat
    BY SMTT(60) DEF JobSet
  <1>3. ASSUME NEW j \in jobs PROVE IsFiniteSet(Above(j)) /\ Cardinality(Above(j)) \in 1..N /\ j \in Above(j)
    <2>1. j \in Above(j)
      BY SMTT(60), <1>2
    <2>2. IsFiniteSet(Above(j)) /\ Cardinality(Above(j)) <= N
      BY FS_Subset
    <2>3. Cardinality(Above(j)) \in Nat /\ Cardinality(Above(j)) # 0
      BY <2>1, <2>2, FS_CardinalityType, FS_EmptySet
    <2>4. PICK c \in Nat : c = Cardinality(Above(j)) /\ c # 0 /\ c <= N
      BY <2>2, <2>3
    <2> HIDE DEF N, Above
    <2>5. c \in 1..N
      BY SMTT(60), <1>1, <2>4
    <2> QED
      BY <2>1, <2>2, <2>4, <2>5
  <1>4. ASSUME NEW j \in jobs, NEW k \in jobs, j.n >= k.n, Cardinality(Above(j)) = Cardinality(Above(k))
        PROVE  j = k
    <2>1. Above(j) \subseteq Above(k)
      BY SMTT(60), <1>2, <1>4
    <2>2. Above(j) = Above(k)
      BY <1>3, <1>4, <2>1, FS_Subset
    <2>3. k.n >= j.n
      BY <1>3, <2>2
    <2>4. j.n = k.n
      BY SMTT(60), <1>2, <1>4, <2>3
    <2> QED
      BY <2>4
  <1>5. \A j, k \in jobs : Cardinality(Above(j)) = Cardinality(Above(k)) => j = k
    <2>1. \A j, k \in jobs : j.n >= k.n \/ k.n >= j.n
      BY SMTT(60), <1>2
    <2> QED
      BY <1>4, <2>1
  <1> HIDE DEF Above
  <1>6. rank \in Injection(jobs, 1..N)
    BY <1>3, <1>5 DEF Injection, IsInjective
  <1>7. rank \in Surjection(jobs, 1..N)
    BY <1>1, <1>6, FS_Injection
  <1>8. \A i \in 1..N : \E j \in jobs : Cardinality(Above(j)) = i
    BY <1>7 DEF Surjection
  <1> DEFINE q == [i \in 1..N |-> CHOOSE j \in jobs : Cardinality(Above(j)) = i]
  <1>9. NewestFirst(jobs) = q
    BY SMTT(60) DEF NewestFirst, Above
  <1>10. DOMAIN q = 1..N /\ \A i \in 1..N : q[i] \in jobs /\ Cardinality(Above(q[i])) = i
    BY <1>8
  <1>11. ASSUME NEW j \in jobs PROVE q[Cardinality(Above(j))] = j /\ Cardinality(Above(j)) \in DOMAIN q
    BY <1>3, <1>5, <1>10
  <1> HIDE DEF q, N
  <1>12. IsInjective(q)
    <2> SUFFICES ASSUME NEW a \in DOMAIN q, NEW b \in DOMAIN q, q[a] = q[b] PROVE a = b
      BY DEF IsInjective
    <2>1. Cardinality(Above(q[a])) = a /\ Cardinality(Above(q[b])) = b
      BY <1>10
    <2> QED
      BY <2>1
  <1>13. \A j \in jobs : \E i \in DOMAIN q : q[i] = j
    BY <1>11
  <1> QED
    BY <1>9, <1>10, <1>12, <1>13

\* The components of Holders carry tags of their own.
LEMMA HolderTags ==
  ASSUME NEW n, NEW x
  PROVE  /\ x \in InPending(n) => x[1] = "pending"
         /\ x \in InHeap(n) => x[1] = "heap"
         /\ x \in Unpushed(n) => x[1] = "taken"
         /\ \A r : x \in InBatch(r, n) => x[1] = "batch" /\ x[2] = r
         /\ x \in Returned(n) => x[1] = "delivered"
  <1>1. x \in InPending(n) => x[1] = "pending"
    BY SMTT(60) DEF InPending
  <1>2. x \in InHeap(n) => x[1] = "heap"
    BY SMTT(60) DEF InHeap
  <1>3. x \in Unpushed(n) => x[1] = "taken"
    BY SMTT(60) DEF Unpushed
  <1>4. \A r : x \in InBatch(r, n) => x[1] = "batch" /\ x[2] = r
    BY SMTT(60) DEF InBatch
  <1>5. x \in Returned(n) => x[1] = "delivered"
    BY SMTT(60) DEF Returned
  <1> QED
    BY <1>1, <1>2, <1>3, <1>4, <1>5

\* The jobs that other runners run.
Others(r, n) == UNION {InBatch(u, n) : u \in Runner \ {r}}

LEMMA OthersSplit ==
  ASSUME NEW r \in Runner, NEW n
  PROVE  (UNION {InBatch(u, n) : u \in Runner}) = InBatch(r, n) \cup Others(r, n)
  BY DEF Others

LEMMA OthersTags ==
  ASSUME NEW r, NEW n, NEW x \in Others(r, n)
  PROVE  x[1] = "batch" /\ x[2] # r
  <1>1. PICK u \in Runner \ {r} : x \in InBatch(u, n)
    BY DEF Others
  <1>2. x[1] = "batch" /\ x[2] = u
    BY <1>1, HolderTags
  <1> QED
    BY <1>2

\* Where a batch of jobs puts the ones numbered n.
Batched(r, jobs, n) == {<<"batch", r, i>> : i \in {i \in DOMAIN jobs : jobs[i].n = n}}

\* A runner whose batch is empty takes jobs, and the others go on.
LEMMA BatchTaken ==
  ASSUME JobsInv, NEW r \in Runner, active[r] = <<>>, NEW jobs, RunJobs(r, jobs)
  PROVE  /\ DOMAIN active' = Runner
         /\ \A n : /\ InBatch(r, n) = {}
                   /\ InBatch(r, n)' = Batched(r, jobs, n)
                   /\ Others(r, n)' = Others(r, n)
  <1>1. /\ DOMAIN active' = Runner /\ active'[r] = [i \in DOMAIN jobs |-> Running(jobs[i])]
        /\ \A u \in Runner \ {r} : active'[u] = active[u]
    BY DEF RunJobs, JobsInv
  <1>2. DOMAIN active[r] = {}
    <2>1. DOMAIN <<>> = {}
      BY SMTT(60)
    <2> QED
      BY <2>1
  <1>3. DOMAIN active'[r] = DOMAIN jobs /\ \A i \in DOMAIN jobs : active'[r][i].job = jobs[i]
    <2>1. \A i \in DOMAIN jobs : Running(jobs[i]).job = jobs[i]
      BY SMTT(60) DEF Running
    <2> QED
      BY <1>1, <2>1
  <1>4. ASSUME NEW n PROVE InBatch(r, n) = {}
    BY <1>2 DEF InBatch
  <1>5. ASSUME NEW n PROVE InBatch(r, n)' = Batched(r, jobs, n)
    <2>1. {i \in DOMAIN active'[r] : active'[r][i].job.n = n} = {i \in DOMAIN jobs : jobs[i].n = n}
      BY <1>3
    <2> QED
      BY <2>1 DEF InBatch, Batched
  <1>6. ASSUME NEW n PROVE Others(r, n)' = Others(r, n)
    <2>1. \A u \in Runner \ {r} : InBatch(u, n)' = InBatch(u, n)
      BY <1>1 DEF InBatch
    <2>2. {InBatch(u, n)' : u \in Runner \ {r}} = {InBatch(u, n) : u \in Runner \ {r}}
      BY <2>1
    <2> QED
      BY <2>2 DEF Others
  <1> QED
    BY <1>1, <1>4, <1>5, <1>6

\* Two heap jobs have different numbers, since each number has one holder.
LEMMA HeapNumbersDiffer ==
  ASSUME JobsInv
  PROVE  \A j, k \in heap : j.n = k.n => j = k
  <1> SUFFICES ASSUME NEW j \in heap, NEW k \in heap, j.n = k.n PROVE j = k
    OBVIOUS
  <1>1. j.n \in JobNumbers
    BY DEF JobNumbers
  <1>2. PICK x \in Holders(j.n) : Holders(j.n) = {x}
    BY <1>1 DEF JobsInv
  <1>3. <<"heap", j>> \in InHeap(j.n) /\ <<"heap", k>> \in InHeap(j.n)
    BY DEF InHeap
  <1>4. InHeap(j.n) \subseteq Holders(j.n)
    BY DEF Holders
  <1>5. <<"heap", j>> = <<"heap", k>>
    BY <1>2, <1>3, <1>4
  <1> QED
    BY SMTT(60), <1>5

\* The jobs of number n in a sequence of jobs, against the place P they are in.
SameCount(P, jobs, n) ==
  /\ P = {} => \A i \in DOMAIN jobs : jobs[i].n # n
  /\ \A x : P = {x} => \E i \in DOMAIN jobs : /\ jobs[i].n = n
                                              /\ \A k \in DOMAIN jobs : jobs[k].n = n => k = i

\* A runner takes jobs out of the place that held them.
LEMMA JobsTaken ==
  ASSUME JobsInv, NEW r \in Runner, active[r] = <<>>, NEW jobs, RunJobs(r, jobs), NEW n, NEW P, NEW K,
         Holders(n) = P \cup K, Holders(n)' = InBatch(r, n)' \cup K,
         Apart(P, K), SameCount(P, jobs, n)
  PROVE  KeepsOne(Holders(n), Holders(n)')
  <1> DEFINE Q == Batched(r, jobs, n)
  <1>1. InBatch(r, n)' = Q
    BY BatchTaken
  <1>2. MovesOne(P, Q)
    <2>1. P = {} => Q = {}
      BY DEF SameCount, Batched
    <2> SUFFICES ASSUME NEW x, P = {x} PROVE \E y : Q = {y}
      BY <2>1 DEF MovesOne
    <2>2. PICK i \in DOMAIN jobs : jobs[i].n = n /\ \A k \in DOMAIN jobs : jobs[k].n = n => k = i
      BY DEF SameCount
    <2>3. Q = {<<"batch", r, i>>}
      BY <2>2 DEF Batched
    <2> QED
      BY <2>3
  <1> HIDE DEF Q
  <1>3. KeepsOne(P \cup K, Q \cup K)
    BY <1>2, OneMoves
  <1>4. PICK A : A = P \cup K
    OBVIOUS
  <1>5. PICK Z : Z = Q \cup K
    OBVIOUS
  <1>6. A = Holders(n) /\ Z = Holders(n)'
    BY <1>1, <1>4, <1>5
  <1>7. KeepsOne(A, Z)
    BY <1>3, <1>4, <1>5
  <1> QED
    BY <1>6, <1>7

\* What stays where it is, for a step that leaves some of the places alone.
LEMMA Stays ==
  ASSUME NEW n
  PROVE  /\ pending' = pending => InPending(n)' = InPending(n)
         /\ heap' = heap => InHeap(n)' = InHeap(n)
         /\ taken' = taken => Unpushed(n)' = Unpushed(n)
         /\ delivered' = delivered => Returned(n)' = Returned(n)
         /\ active' = active => \A r : InBatch(r, n)' = InBatch(r, n)
  BY DEF InPending, InHeap, Unpushed, Returned, InBatch

LEMMA SplitHolders ==
  ASSUME NEW r \in Runner, NEW n
  PROVE  Holders(n) = InPending(n) \cup InHeap(n) \cup Unpushed(n) \cup InBatch(r, n) \cup Others(r, n) \cup Returned(n)
  <1> DEFINE U == UNION {InBatch(u, n) : u \in Runner}
  <1>1. U = InBatch(r, n) \cup Others(r, n)
    BY OthersSplit
  <1>2. Holders(n) = InPending(n) \cup InHeap(n) \cup Unpushed(n) \cup U \cup Returned(n)
    BY DEF Holders
  <1> HIDE DEF U
  <1> QED
    BY SMTT(60), <1>1, <1>2

HoldersSplit ==
  \A r \in Runner : \A n :
    Holders(n) = InPending(n) \cup InHeap(n) \cup Unpushed(n) \cup InBatch(r, n) \cup Others(r, n) \cup Returned(n)

LEMMA HoldersAreSplit == HoldersSplit
  BY SplitHolders DEF HoldersSplit

LEMMA NextHoldersSplit ==
  ASSUME NEW r \in Runner, NEW n
  PROVE  Holders(n)' = InPending(n)' \cup InHeap(n)' \cup Unpushed(n)' \cup InBatch(r, n)'
                         \cup Others(r, n)' \cup Returned(n)'
  <1>1. HoldersSplit'
    BY HoldersAreSplit, PTL
  <1> QED
    BY <1>1 DEF HoldersSplit

\* Each place apart from the others.
LEMMA PendingApart ==
  ASSUME NEW r \in Runner, NEW n
  PROVE  Apart(InPending(n), InHeap(n) \cup Unpushed(n) \cup Returned(n) \cup Others(r, n))
  <1> DEFINE P == InPending(n)
             K == InHeap(n) \cup Unpushed(n) \cup Returned(n) \cup Others(r, n)
  <1>1. \A x \in P : x[1] = "pending"
    BY HolderTags
  <1>2. \A x \in K : x[1] = "heap" \/ x[1] = "taken" \/ x[1] = "delivered" \/ x[1] = "batch"
    BY HolderTags, OthersTags
  <1> HIDE DEF P, K
  <1>3. P \cap K = {}
    BY SMTT(60), <1>1, <1>2
  <1> QED
    BY <1>3 DEF Apart, P, K

LEMMA HeapApart ==
  ASSUME NEW r \in Runner, NEW n
  PROVE  Apart(InHeap(n), InPending(n) \cup Unpushed(n) \cup Returned(n) \cup Others(r, n))
  <1> DEFINE P == InHeap(n)
             K == InPending(n) \cup Unpushed(n) \cup Returned(n) \cup Others(r, n)
  <1>1. \A x \in P : x[1] = "heap"
    BY HolderTags
  <1>2. \A x \in K : x[1] = "pending" \/ x[1] = "taken" \/ x[1] = "delivered" \/ x[1] = "batch"
    BY HolderTags, OthersTags
  <1> HIDE DEF P, K
  <1>3. P \cap K = {}
    BY SMTT(60), <1>1, <1>2
  <1> QED
    BY <1>3 DEF Apart, P, K

\* run_all takes every pending job.
LEMMA RunAllBooks ==
  ASSUME JobsInv, NEW r \in Runner, run_all(r)
  PROVE  JobsInv'
  <1>1. /\ active[r] = <<>> /\ RunJobs(r, pending) /\ pending' = <<>>
        /\ heap' = heap /\ seq' = seq /\ taken' = taken /\ delivered' = delivered
    BY DEF run_all
  <1>2. ASSUME NEW n PROVE KeepsOne(Holders(n), Holders(n)')
    <2> DEFINE P == InPending(n)
               K == InHeap(n) \cup Unpushed(n) \cup Returned(n) \cup Others(r, n)
    <2>1. InPending(n)' = {}
      <3>1. DOMAIN pending' = {}
        BY SMTT(60), <1>1
      <3> QED
        BY <3>1 DEF InPending
    <2>2. InBatch(r, n) = {} /\ Others(r, n)' = Others(r, n)
      BY <1>1, BatchTaken
    <2>3. Holders(n) = P \cup K
      BY <2>2, SplitHolders
    <2>4. InHeap(n)' = InHeap(n) /\ Unpushed(n)' = Unpushed(n) /\ Returned(n)' = Returned(n)
      BY <1>1, Stays
    <2>5. Holders(n)' = InBatch(r, n)' \cup K
      <3>1. Holders(n)' = InPending(n)' \cup InHeap(n)' \cup Unpushed(n)' \cup InBatch(r, n)'
                            \cup Others(r, n)' \cup Returned(n)'
        BY NextHoldersSplit
      <3> QED
        BY SMTT(60), <2>1, <2>2, <2>4, <3>1
    <2>6. Apart(P, K)
      BY PendingApart
    <2>7. SameCount(P, pending, n)
      <3>1. P = {} => \A i \in DOMAIN pending : pending[i].n # n
        BY DEF InPending
      <3> SUFFICES ASSUME NEW x, P = {x}
                   PROVE  \E i \in DOMAIN pending : /\ pending[i].n = n
                                                    /\ \A k \in DOMAIN pending : pending[k].n = n => k = i
        BY <3>1 DEF SameCount
      <3>2. \A k \in DOMAIN pending : pending[k].n = n => <<"pending", k>> \in P
        BY DEF InPending
      <3>3. PICK i \in DOMAIN pending : pending[i].n = n /\ x = <<"pending", i>>
        <4>1. x \in InPending(n)
          OBVIOUS
        <4> QED
          BY <4>1 DEF InPending
      <3>4. \A k \in DOMAIN pending : pending[k].n = n => <<"pending", k>> = <<"pending", i>>
        BY <3>2, <3>3
      <3>5. \A k \in DOMAIN pending : pending[k].n = n => k = i
        BY SMTT(60), <3>4
      <3> QED
        BY <3>3, <3>5
    <2> HIDE DEF P, K
    <2> QED
      BY <1>1, <2>3, <2>5, <2>6, <2>7, JobsTaken
  <1>4. pending' \in Seq(JobSet)
    BY SMTT(60), <1>1
  <1>5. DOMAIN active' = Runner
    BY <1>1, BatchTaken
  <1>6. heap' \subseteq JobSet /\ IsFiniteSet(heap') /\ taken' \in [Client -> JobSet \cup {NoJob}]
    BY <1>1 DEF JobsInv
  <1> QED
    BY <1>1, <1>2, <1>4, <1>5, <1>6, BooksMoved

\* run_one takes the last pending job.
LEMMA RunOneBooks ==
  ASSUME JobsInv, NEW r \in Runner, run_one(r)
  PROVE  JobsInv'
  <1> DEFINE L == Len(pending)
             jobs == <<pending[Len(pending)]>>
  <1>1. /\ active[r] = <<>> /\ RunJobs(r, jobs) /\ pending # <<>> /\ pending' = SubSeq(pending, 1, Len(pending) - 1)
        /\ heap' = heap /\ seq' = seq /\ taken' = taken /\ delivered' = delivered
    BY DEF run_one
  <1>2. pending \in Seq(JobSet)
    BY DEF JobsInv
  <1>3. L \in Nat \ {0} /\ DOMAIN pending = 1..L
    BY SMTT(60), <1>1, <1>2
  <1>4. pending' = SubSeq(pending, 1, L - 1) /\ pending[Len(pending)] = pending[L]
    BY SMTT(60), <1>1
  <1>5. /\ pending' \in Seq(JobSet) /\ DOMAIN pending' = 1..(L - 1)
        /\ \A i \in 1..(L - 1) : pending'[i] = pending[i]
    BY SMTT(60), <1>2, <1>3, <1>4
  <1>6. DOMAIN jobs = {1} /\ jobs[1] = pending[L]
    BY SMTT(60), <1>4
  <1>7. L \in DOMAIN pending /\ L \notin DOMAIN pending' /\ DOMAIN pending = DOMAIN pending' \cup {L}
    BY SMTT(60), <1>3, <1>5
  <1> HIDE DEF L, jobs
  <1>8. ASSUME NEW n PROVE KeepsOne(Holders(n), Holders(n)')
    <2> DEFINE P == IF pending[L].n = n THEN {<<"pending", L>>} ELSE {}
               R == InHeap(n) \cup Unpushed(n) \cup Returned(n) \cup Others(r, n)
               K == InPending(n)' \cup R
    <2>1. InPending(n) = P \cup InPending(n)'
      <3>1. \A i : i \in DOMAIN pending /\ pending[i].n = n
                     <=> (i = L /\ pending[L].n = n) \/ (i \in DOMAIN pending' /\ pending'[i].n = n)
        BY <1>5, <1>7
      <3>2. \A x : x \in InPending(n) <=> \E i : x = <<"pending", i>> /\ i \in DOMAIN pending /\ pending[i].n = n
        BY DEF InPending
      <3>3. \A x : x \in InPending(n)' <=> \E i : x = <<"pending", i>> /\ i \in DOMAIN pending' /\ pending'[i].n = n
        BY DEF InPending
      <3>4. \A x : x \in P <=> x = <<"pending", L>> /\ pending[L].n = n
        OBVIOUS
      <3> HIDE DEF P
      <3>5. \A x : x \in InPending(n) => x \in P \/ x \in InPending(n)'
        BY <3>1, <3>2, <3>3, <3>4
      <3>6. \A x : x \in P \/ x \in InPending(n)' => x \in InPending(n)
        BY <3>1, <3>2, <3>3, <3>4
      <3> QED
        BY <3>5, <3>6
    <2>2. InBatch(r, n) = {} /\ Others(r, n)' = Others(r, n)
      BY <1>1, BatchTaken
    <2>3. Holders(n) = P \cup K
      <3>1. Holders(n) = InPending(n) \cup R
        BY <2>2, SplitHolders
      <3> HIDE DEF P, R
      <3> QED
        BY SMTT(60), <2>1, <3>1
    <2>4. InHeap(n)' = InHeap(n) /\ Unpushed(n)' = Unpushed(n) /\ Returned(n)' = Returned(n)
      BY <1>1, Stays
    <2>5. Holders(n)' = InBatch(r, n)' \cup K
      <3>1. Holders(n)' = InPending(n)' \cup InHeap(n)' \cup Unpushed(n)' \cup InBatch(r, n)'
                            \cup Others(r, n)' \cup Returned(n)'
        BY NextHoldersSplit
      <3> QED
        BY SMTT(60), <2>2, <2>4, <3>1
    <2>6. Apart(P, K)
      <3>1. Apart(InPending(n), R)
        BY PendingApart
      <3>2. P \subseteq InPending(n)
        BY <2>1
      <3>3. \A x \in P : x = <<"pending", L>>
        OBVIOUS
      <3>4. <<"pending", L>> \notin InPending(n)'
        <4> SUFFICES ASSUME <<"pending", L>> \in InPending(n)' PROVE FALSE
          OBVIOUS
        <4>1. PICK i \in DOMAIN pending' : <<"pending", L>> = <<"pending", i>>
          BY DEF InPending
        <4>2. L = i
          BY SMTT(60), <4>1
        <4> QED
          BY <1>7, <4>2
      <3> HIDE DEF P, R
      <3>5. P \cap (InPending(n)' \cup R) = {}
        BY <3>1, <3>2, <3>3, <3>4 DEF Apart
      <3> QED
        BY <3>5 DEF Apart
    <2>7. SameCount(P, jobs, n)
      <3>1. P = {} => \A i \in DOMAIN jobs : jobs[i].n # n
        BY <1>6
      <3>2. ASSUME NEW x, P = {x}
            PROVE  1 \in DOMAIN jobs /\ jobs[1].n = n /\ \A k \in DOMAIN jobs : jobs[k].n = n => k = 1
        BY <1>6, <3>2
      <3> HIDE DEF P
      <3> QED
        BY <3>1, <3>2 DEF SameCount
    <2> HIDE DEF P, K
    <2> QED
      BY <1>1, <2>3, <2>5, <2>6, <2>7, JobsTaken
  <1>9. DOMAIN active' = Runner
    BY <1>1, BatchTaken
  <1>10. heap' \subseteq JobSet /\ IsFiniteSet(heap') /\ taken' \in [Client -> JobSet \cup {NoJob}]
    BY <1>1 DEF JobsInv
  <1> QED
    BY <1>1, <1>5, <1>8, <1>9, <1>10, BooksMoved

\* priority_run_all takes every job of the heap.
LEMMA PriorityBooks ==
  ASSUME JobsInv, NEW r \in Runner, priority_run_all(r)
  PROVE  JobsInv'
  <1> DEFINE jobs == NewestFirst(heap)
  <1>1. /\ active[r] = <<>> /\ RunJobs(r, jobs) /\ heap' = {}
        /\ pending' = pending /\ seq' = seq /\ taken' = taken /\ delivered' = delivered
    BY DEF priority_run_all
  <1>2. /\ \A i \in DOMAIN jobs : jobs[i] \in heap
        /\ \A j \in heap : \E i \in DOMAIN jobs : jobs[i] = j
        /\ IsInjective(jobs)
    <2>1. heap \in SUBSET JobSet /\ IsFiniteSet(heap)
      BY DEF JobsInv
    <2> QED
      BY <2>1, HeapNumbersDiffer, PopsEachOnce
  <1> HIDE DEF jobs
  <1>3. ASSUME NEW n PROVE KeepsOne(Holders(n), Holders(n)')
    <2> DEFINE P == InHeap(n)
               K == InPending(n) \cup Unpushed(n) \cup Returned(n) \cup Others(r, n)
    <2>1. InHeap(n)' = {}
      BY <1>1 DEF InHeap
    <2>2. InBatch(r, n) = {} /\ Others(r, n)' = Others(r, n)
      BY <1>1, BatchTaken
    <2>3. Holders(n) = P \cup K
      BY <2>2, SplitHolders
    <2>4. InPending(n)' = InPending(n) /\ Unpushed(n)' = Unpushed(n) /\ Returned(n)' = Returned(n)
      BY <1>1, Stays
    <2>5. Holders(n)' = InBatch(r, n)' \cup K
      <3>1. Holders(n)' = InPending(n)' \cup InHeap(n)' \cup Unpushed(n)' \cup InBatch(r, n)'
                            \cup Others(r, n)' \cup Returned(n)'
        BY NextHoldersSplit
      <3> QED
        BY SMTT(60), <2>1, <2>2, <2>4, <3>1
    <2>6. Apart(P, K)
      BY HeapApart
    <2>7. SameCount(P, jobs, n)
      <3>1. P = {} => \A i \in DOMAIN jobs : jobs[i].n # n
        BY <1>2 DEF InHeap
      <3> SUFFICES ASSUME NEW x, P = {x}
                   PROVE  \E i \in DOMAIN jobs : /\ jobs[i].n = n
                                                 /\ \A k \in DOMAIN jobs : jobs[k].n = n => k = i
        BY <3>1 DEF SameCount
      <3>2. PICK j \in heap : j.n = n /\ x = <<"heap", j>>
        <4>1. x \in InHeap(n)
          OBVIOUS
        <4> QED
          BY <4>1 DEF InHeap
      <3>3. \A m \in heap : m.n = n => <<"heap", m>> = <<"heap", j>>
        BY <3>2 DEF InHeap
      <3>4. \A m \in heap : m.n = n => m = j
        BY SMTT(60), <3>3
      <3>5. PICK i \in DOMAIN jobs : jobs[i] = j
        BY <1>2
      <3>6. \A k \in DOMAIN jobs : jobs[k].n = n => jobs[k] = jobs[i]
        BY <1>2, <3>4, <3>5
      <3>7. \A k \in DOMAIN jobs : jobs[k].n = n => k = i
        BY <1>2, <3>6 DEF IsInjective
      <3> QED
        BY <3>2, <3>5, <3>7
    <2> HIDE DEF P, K
    <2> QED
      BY <1>1, <2>3, <2>5, <2>6, <2>7, JobsTaken
  <1>4. DOMAIN active' = Runner
    BY <1>1, BatchTaken
  <1>5. heap' \subseteq JobSet /\ IsFiniteSet(heap')
    BY <1>1, FS_EmptySet
  <1>6. pending' \in Seq(JobSet) /\ taken' \in [Client -> JobSet \cup {NoJob}]
    BY <1>1 DEF JobsInv
  <1> QED
    BY <1>1, <1>3, <1>4, <1>5, <1>6, BooksMoved

AllBatches(n) == UNION {InBatch(r, n) : r \in Runner}

\* A step that runs no job and leaves the batches alone.
LEMMA HoldersApart ==
  ASSUME NEW n
  PROVE  /\ Holders(n) = InPending(n) \cup InHeap(n) \cup Unpushed(n) \cup AllBatches(n) \cup Returned(n)
         /\ Holders(n)' = InPending(n)' \cup InHeap(n)' \cup Unpushed(n)' \cup AllBatches(n)' \cup Returned(n)'
         /\ (active' = active => AllBatches(n)' = AllBatches(n))
         /\ \A x \in AllBatches(n) : x[1] = "batch"
  <1>1. Holders(n) = InPending(n) \cup InHeap(n) \cup Unpushed(n) \cup AllBatches(n) \cup Returned(n)
    BY DEF Holders, AllBatches
  <1>2. Holders(n)' = InPending(n)' \cup InHeap(n)' \cup Unpushed(n)' \cup AllBatches(n)' \cup Returned(n)'
    BY DEF Holders, AllBatches
  <1>3. ASSUME active' = active PROVE AllBatches(n)' = AllBatches(n)
    <2>1. \A r : InBatch(r, n)' = InBatch(r, n)
      BY <1>3, Stays
    <2>2. {InBatch(r, n)' : r \in Runner} = {InBatch(r, n) : r \in Runner}
      BY <2>1
    <2> QED
      BY <2>2 DEF AllBatches
  <1>4. ASSUME NEW x \in AllBatches(n) PROVE x[1] = "batch"
    <2>1. PICK r \in Runner : x \in InBatch(r, n)
      BY DEF AllBatches
    <2> QED
      BY <2>1, HolderTags
  <1> QED
    BY <1>1, <1>2, <1>3, <1>4

LEMMA SameHolders ==
  ASSUME NEW A
  PROVE  KeepsOne(A, A)
  BY DEF KeepsOne

\* An append to a log moves no job.
LEMMA AppendBooks ==
  ASSUME JobsInv, UNCHANGED <<pending, heap, seq, taken, active, delivered>>
  PROVE  JobsInv'
  <1>1. ASSUME NEW n PROVE KeepsOne(Holders(n), Holders(n)')
    <2>1. Holders(n)' = Holders(n)
      <3>1. /\ InPending(n)' = InPending(n) /\ InHeap(n)' = InHeap(n) /\ Unpushed(n)' = Unpushed(n)
            /\ AllBatches(n)' = AllBatches(n) /\ Returned(n)' = Returned(n)
        BY HoldersApart, Stays
      <3> QED
        BY <3>1, HoldersApart
    <2> QED
      BY <2>1, SameHolders
  <1>2. /\ pending' \in Seq(JobSet) /\ heap' \subseteq JobSet /\ IsFiniteSet(heap')
        /\ taken' \in [Client -> JobSet \cup {NoJob}] /\ DOMAIN active' = Runner /\ seq' = seq
    BY DEF JobsInv
  <1> QED
    BY <1>1, <1>2, BooksMoved

\* A job that ran stays where it is in its batch.
LEMMA RunJobBooks ==
  ASSUME JobsInv, NEW r \in Runner, NEW i \in DOMAIN active[r], RunJob(r, i)
  PROVE  JobsInv'
  <1> DEFINE y == [job |-> active[r][i].job, len |-> Len(logs[active[r][i].job.s]),
                   w |-> prune(logs[active[r][i].job.s], active[r][i].job.budget)]
  <1>1. /\ active' = [active EXCEPT ![r][i] = y]
        /\ pending' = pending /\ heap' = heap /\ seq' = seq /\ taken' = taken /\ delivered' = delivered
    BY DEF RunJob
  <1>2. y.job = active[r][i].job
    BY SMTT(60)
  <1> HIDE DEF y
  <1>3. DOMAIN active = Runner
    BY DEF JobsInv
  <1>4. /\ DOMAIN active' = Runner /\ active'[r] = [active[r] EXCEPT ![i] = y]
        /\ \A u \in Runner \ {r} : active'[u] = active[u]
    BY <1>1, <1>3
  <1>5. \A u \in Runner : /\ DOMAIN active'[u] = DOMAIN active[u]
                          /\ \A k \in DOMAIN active[u] : active'[u][k].job = active[u][k].job
    BY <1>2, <1>4
  <1>6. ASSUME NEW n PROVE KeepsOne(Holders(n), Holders(n)')
    <2>1. ASSUME NEW u \in Runner PROVE InBatch(u, n)' = InBatch(u, n)
      <3>1. {k \in DOMAIN active'[u] : active'[u][k].job.n = n} = {k \in DOMAIN active[u] : active[u][k].job.n = n}
        BY <1>5
      <3> QED
        BY <3>1 DEF InBatch
    <2>2. {InBatch(u, n)' : u \in Runner} = {InBatch(u, n) : u \in Runner}
      BY <2>1
    <2>3. AllBatches(n)' = AllBatches(n)
      BY <2>2 DEF AllBatches
    <2>4. Holders(n)' = Holders(n)
      <3>1. /\ InPending(n)' = InPending(n) /\ InHeap(n)' = InHeap(n) /\ Unpushed(n)' = Unpushed(n)
            /\ Returned(n)' = Returned(n)
        BY <1>1, Stays
      <3> QED
        BY <2>3, <3>1, HoldersApart
    <2> QED
      BY <2>4, SameHolders
  <1>7. /\ pending' \in Seq(JobSet) /\ heap' \subseteq JobSet /\ IsFiniteSet(heap')
        /\ taken' \in [Client -> JobSet \cup {NoJob}]
    BY <1>1 DEF JobsInv
  <1> QED
    BY <1>1, <1>4, <1>6, <1>7, BooksMoved

\* The books of a step that takes P out, puts Q in and leaves K.
LEMMA Moved ==
  ASSUME NEW n, NEW P, NEW Q, NEW K, Holders(n) = P \cup K, Holders(n)' = Q \cup K, Apart(P, K), MovesOne(P, Q)
  PROVE  KeepsOne(Holders(n), Holders(n)')
  <1>1. KeepsOne(P \cup K, Q \cup K)
    BY OneMoves
  <1>2. PICK A : A = P \cup K
    OBVIOUS
  <1>3. PICK Z : Z = Q \cup K
    OBVIOUS
  <1>4. A = Holders(n) /\ Z = Holders(n)'
    BY <1>2, <1>3
  <1>5. KeepsOne(A, Z)
    BY <1>1, <1>2, <1>3
  <1> QED
    BY <1>4, <1>5

\* Push moves a numbered job to the heap.
LEMMA PushBooks ==
  ASSUME JobsInv, NEW t \in Client, Push(t)
  PROVE  JobsInv'
  <1> DEFINE j == taken[t]
  <1>1. /\ j # NoJob /\ heap' = heap \cup {j} /\ taken' = [taken EXCEPT ![t] = NoJob]
        /\ pending' = pending /\ seq' = seq /\ active' = active /\ delivered' = delivered
    BY DEF Push
  <1>2. j \in JobSet /\ taken \in [Client -> JobSet \cup {NoJob}]
    BY <1>1 DEF JobsInv
  <1>3. taken' \in [Client -> JobSet \cup {NoJob}] /\ taken'[t] = NoJob /\ \A u \in Client \ {t} : taken'[u] = taken[u]
    BY <1>1, <1>2
  <1>4. ASSUME NEW n PROVE KeepsOne(Holders(n), Holders(n)')
    <2> DEFINE P == {x \in {<<"taken", t>>} : j.n = n}
               Q == {x \in {<<"heap", j>>} : j.n = n}
               R == InPending(n) \cup InHeap(n) \cup AllBatches(n) \cup Returned(n)
               K == Unpushed(n)' \cup R
    <2>1. Unpushed(n) = P \cup Unpushed(n)'
      <3>1. \A u : u \in Client /\ taken[u] # NoJob /\ taken[u].n = n
                     <=> (u = t /\ j.n = n) \/ (u \in Client /\ taken'[u] # NoJob /\ taken'[u].n = n)
        BY <1>1, <1>3
      <3>2. \A x : x \in Unpushed(n) <=> \E u : x = <<"taken", u>> /\ u \in Client /\ taken[u] # NoJob /\ taken[u].n = n
        BY DEF Unpushed
      <3>3. \A x : x \in Unpushed(n)' <=> \E u : x = <<"taken", u>> /\ u \in Client /\ taken'[u] # NoJob /\ taken'[u].n = n
        BY DEF Unpushed
      <3>4. \A x : x \in P <=> x = <<"taken", t>> /\ j.n = n
        OBVIOUS
      <3> HIDE DEF P, j
      <3>5. \A x : x \in Unpushed(n) => x \in P \/ x \in Unpushed(n)'
        BY <3>1, <3>2, <3>3, <3>4
      <3>6. \A x : x \in P \/ x \in Unpushed(n)' => x \in Unpushed(n)
        BY <3>1, <3>2, <3>3, <3>4
      <3> QED
        BY <3>5, <3>6
    <2>2. InHeap(n)' = InHeap(n) \cup Q
      <3>1. \A x : x \in InHeap(n) <=> \E k : x = <<"heap", k>> /\ k \in heap /\ k.n = n
        BY DEF InHeap
      <3>2. \A x : x \in InHeap(n)' <=> \E k : x = <<"heap", k>> /\ k \in heap' /\ k.n = n
        BY DEF InHeap
      <3>3. \A x : x \in Q <=> x = <<"heap", j>> /\ j.n = n
        OBVIOUS
      <3>4. \A k : k \in heap' <=> k \in heap \/ k = j
        BY <1>1
      <3> HIDE DEF Q, j
      <3>5. \A x : x \in InHeap(n)' => x \in InHeap(n) \/ x \in Q
        BY <3>1, <3>2, <3>3, <3>4
      <3>6. \A x : x \in InHeap(n) \/ x \in Q => x \in InHeap(n)'
        BY <3>1, <3>2, <3>3, <3>4
      <3> QED
        BY <3>5, <3>6
    <2> HIDE DEF P, Q
    <2>3. InPending(n)' = InPending(n) /\ AllBatches(n)' = AllBatches(n) /\ Returned(n)' = Returned(n)
      BY <1>1, Stays, HoldersApart
    <2>4. Holders(n) = P \cup K
      <3>1. Holders(n) = InPending(n) \cup InHeap(n) \cup Unpushed(n) \cup AllBatches(n) \cup Returned(n)
        BY HoldersApart
      <3> QED
        BY SMTT(60), <2>1, <3>1
    <2>5. Holders(n)' = Q \cup K
      <3>1. Holders(n)' = InPending(n)' \cup InHeap(n)' \cup Unpushed(n)' \cup AllBatches(n)' \cup Returned(n)'
        BY HoldersApart
      <3> QED
        BY SMTT(60), <2>2, <2>3, <3>1
    <2>6. Apart(P, K)
      <3>1. \A x \in P : x = <<"taken", t>> /\ x[1] = "taken"
        BY SMTT(60) DEF P
      <3>2. \A x \in R : x[1] = "pending" \/ x[1] = "heap" \/ x[1] = "delivered" \/ x[1] = "batch"
        BY HolderTags, HoldersApart
      <3>3. <<"taken", t>> \notin Unpushed(n)'
        <4> SUFFICES ASSUME <<"taken", t>> \in Unpushed(n)' PROVE FALSE
          OBVIOUS
        <4>1. PICK u \in Client : <<"taken", t>> = <<"taken", u>> /\ taken'[u] # NoJob
          BY DEF Unpushed
        <4>2. t = u
          BY SMTT(60), <4>1
        <4> QED
          BY <1>3, <4>1, <4>2
      <3> HIDE DEF R
      <3>4. P \cap R = {}
        BY SMTT(60), <3>1, <3>2
      <3>5. P \cap (Unpushed(n)' \cup R) = {}
        BY <3>1, <3>3, <3>4
      <3> QED
        BY <3>5 DEF Apart
    <2>7. MovesOne(P, Q)
      <3>1. CASE j.n = n
        <4>1. P = {<<"taken", t>>} /\ Q = {<<"heap", j>>}
          BY <3>1 DEF P, Q
        <4> QED
          BY <4>1 DEF MovesOne
      <3>2. CASE j.n # n
        <4>1. P = {} /\ Q = {}
          BY <3>2 DEF P, Q
        <4> QED
          BY <4>1 DEF MovesOne
      <3> QED
        BY <3>1, <3>2
    <2> HIDE DEF K
    <2> QED
      BY <2>4, <2>5, <2>6, <2>7, Moved
  <1>5. heap' \subseteq JobSet /\ IsFiniteSet(heap')
    <2>1. heap \subseteq JobSet /\ IsFiniteSet(heap)
      BY DEF JobsInv
    <2> QED
      BY <1>1, <1>2, <2>1, FS_AddElement
  <1>6. pending' \in Seq(JobSet) /\ DOMAIN active' = Runner
    BY <1>1 DEF JobsInv
  <1> QED
    BY <1>1, <1>3, <1>4, <1>5, <1>6, BooksMoved

\* collect returns the windows of a batch.
LEMMA CollectBooks ==
  ASSUME JobsInv, NEW r \in Runner, CollectWindows(r)
  PROVE  JobsInv'
  <1>1. /\ delivered' = delivered \cup {active[r][i].job.n : i \in DOMAIN active[r]}
        /\ active' = [active EXCEPT ![r] = <<>>]
        /\ pending' = pending /\ heap' = heap /\ seq' = seq /\ taken' = taken
    BY DEF CollectWindows
  <1>2. DOMAIN active' = Runner /\ active'[r] = <<>> /\ \A u \in Runner \ {r} : active'[u] = active[u]
    BY <1>1 DEF JobsInv
  <1>3. DOMAIN active'[r] = {}
    BY SMTT(60), <1>2
  <1>4. ASSUME NEW n PROVE KeepsOne(Holders(n), Holders(n)')
    <2> DEFINE P == InBatch(r, n)
               Q == {x \in {<<"delivered", n>>} : P # {}}
               K == InPending(n) \cup InHeap(n) \cup Unpushed(n) \cup Others(r, n) \cup Returned(n)
    <2>1. InBatch(r, n)' = {}
      BY <1>3 DEF InBatch
    <2>2. Others(r, n)' = Others(r, n)
      <3>1. \A u \in Runner \ {r} : InBatch(u, n)' = InBatch(u, n)
        BY <1>2 DEF InBatch
      <3>2. {InBatch(u, n)' : u \in Runner \ {r}} = {InBatch(u, n) : u \in Runner \ {r}}
        BY <3>1
      <3> QED
        BY <3>2 DEF Others
    <2>3. Returned(n)' = Returned(n) \cup Q
      <3>1. P # {} <=> \E i \in DOMAIN active[r] : active[r][i].job.n = n
        BY DEF InBatch
      <3>2. n \in delivered' <=> n \in delivered \/ P # {}
        BY <1>1, <3>1
      <3>3. \A x : x \in Returned(n) <=> x = <<"delivered", n>> /\ n \in delivered
        BY DEF Returned
      <3>4. \A x : x \in Returned(n)' <=> x = <<"delivered", n>> /\ n \in delivered'
        BY DEF Returned
      <3>5. \A x : x \in Q <=> x = <<"delivered", n>> /\ P # {}
        OBVIOUS
      <3> HIDE DEF P, Q
      <3> QED
        BY <3>2, <3>3, <3>4, <3>5
    <2>4. InPending(n)' = InPending(n) /\ InHeap(n)' = InHeap(n) /\ Unpushed(n)' = Unpushed(n)
      BY <1>1, Stays
    <2>5. Holders(n) = P \cup K
      <3>1. Holders(n) = InPending(n) \cup InHeap(n) \cup Unpushed(n) \cup InBatch(r, n) \cup Others(r, n) \cup Returned(n)
        BY SplitHolders
      <3> QED
        BY SMTT(60), <3>1
    <2>6. Holders(n)' = Q \cup K
      <3>1. Holders(n)' = InPending(n)' \cup InHeap(n)' \cup Unpushed(n)' \cup InBatch(r, n)'
                            \cup Others(r, n)' \cup Returned(n)'
        BY NextHoldersSplit
      <3> HIDE DEF Q
      <3> QED
        BY SMTT(60), <2>1, <2>2, <2>3, <2>4, <3>1
    <2>7. Apart(P, K)
      <3>1. \A x \in P : x[1] = "batch" /\ x[2] = r
        BY HolderTags
      <3>2. \A x \in K : x[1] = "pending" \/ x[1] = "heap" \/ x[1] = "taken" \/ x[1] = "delivered"
                           \/ (x[1] = "batch" /\ x[2] # r)
        BY HolderTags, OthersTags
      <3> HIDE DEF P, K
      <3>3. P \cap K = {}
        BY SMTT(60), <3>1, <3>2
      <3> QED
        BY <3>3 DEF Apart
    <2>8. MovesOne(P, Q)
      <3> HIDE DEF P
      <3>1. P = {} => Q = {}
        OBVIOUS
      <3>2. P # {} => Q = {<<"delivered", n>>}
        OBVIOUS
      <3>3. \A x : P = {x} => P # {}
        OBVIOUS
      <3> HIDE DEF Q
      <3> QED
        BY <3>1, <3>2, <3>3 DEF MovesOne
    <2> HIDE DEF P, Q, K
    <2> QED
      BY <2>5, <2>6, <2>7, <2>8, Moved
  <1>5. /\ pending' \in Seq(JobSet) /\ heap' \subseteq JobSet /\ IsFiniteSet(heap')
        /\ taken' \in [Client -> JobSet \cup {NoJob}]
    BY <1>1 DEF JobsInv
  <1> QED
    BY <1>1, <1>2, <1>4, <1>5, BooksMoved

\* A number given out is new: nothing holds a job of that number.
LEMMA BooksNew ==
  ASSUME JobsInv, seq' = seq + 1, pending' \in Seq(JobSet), heap' = heap, active' = active, delivered' = delivered,
         taken' \in [Client -> JobSet \cup {NoJob}],
         NEW y, NEW m, m = seq + 1, Holders(m) = {} => Holders(m)' = {y}, \A n : n # m => Holders(n)' = Holders(n)
  PROVE  JobsInv'
  <1>1. Booked'
    BY NumberHeld, PTL
  <1>2. seq \in Nat /\ JobNumbers \subseteq 1..seq /\ \A n \in 1..seq : \E x \in Holders(n) : Holders(n) = {x}
    BY DEF JobsInv
  <1>3. m \notin 1..seq /\ m \in Nat /\ 1..m = 1..seq \cup {m}
    BY SMTT(60), <1>2
  <1>4. Holders(m) = {}
    BY <1>2, <1>3, NumberHeld DEF Booked
  <1>5. ASSUME NEW n \in JobNumbers' PROVE n \in 1..m
    <2>1. CASE n = m
      BY <1>3, <2>1
    <2>2. CASE n # m
      <3>1. Holders(n)' # {}
        BY <1>1 DEF Booked
      <3>2. n \in JobNumbers
        BY <2>2, <3>1, NumberHeld DEF Booked
      <3> QED
        BY <1>2, <1>3, <3>2
    <2> QED
      BY <2>1, <2>2
  <1>6. ASSUME NEW n \in 1..m PROVE \E x \in Holders(n)' : Holders(n)' = {x}
    <2>1. CASE n = m
      <3>1. Holders(n)' = {y}
        BY <1>4, <2>1
      <3> QED
        BY <3>1
    <2>2. CASE n # m
      <3>1. n \in 1..seq /\ Holders(n)' = Holders(n)
        BY <1>3, <2>2
      <3> QED
        BY <1>2, <3>1
    <2> QED
      BY <2>1, <2>2
  <1>7. JobNumbers' \subseteq 1..seq' /\ (\A n \in 1..seq' : \E x \in Holders(n)' : Holders(n)' = {x}) /\ seq' \in Nat
    BY <1>3, <1>5, <1>6
  <1>8. heap' \subseteq JobSet /\ IsFiniteSet(heap') /\ DOMAIN active' = Runner
    BY DEF JobsInv
  <1> QED
    BY <1>7, <1>8 DEF JobsInv

LEMMA NewJob ==
  ASSUME JobsInv, NEW s \in SessionId, NEW b \in Budget
  PROVE  /\ Job(seq + 1, s, b) \in JobSet /\ Job(seq + 1, s, b).n = seq + 1
         /\ Job(seq + 1, s, b) # NoJob
  <1>1. seq \in Nat
    BY DEF JobsInv
  <1>2. Job(seq + 1, s, b) \in JobSet /\ Job(seq + 1, s, b).n = seq + 1
    BY SMTT(60), <1>1 DEF Job, JobSet
  <1> QED
    BY <1>2, NoJobAssumption

\* schedule numbers a job and puts it last in pending.
LEMMA ScheduleBooks ==
  ASSUME JobsInv, NEW s \in SessionId, NEW b \in Budget, schedule(s, b)
  PROVE  JobsInv'
  <1> DEFINE j == Job(seq + 1, s, b)
             L == Len(pending) + 1
             y == <<"pending", L>>
  <1>1. /\ seq' = seq + 1 /\ pending' = Append(pending, j)
        /\ heap' = heap /\ taken' = taken /\ active' = active /\ delivered' = delivered
    BY DEF schedule
  <1>2. j \in JobSet /\ j.n = seq + 1
    BY NewJob
  <1>3. pending \in Seq(JobSet) /\ taken \in [Client -> JobSet \cup {NoJob}]
    BY DEF JobsInv
  <1> HIDE DEF j
  <1>4. /\ pending' \in Seq(JobSet) /\ DOMAIN pending' = DOMAIN pending \cup {L} /\ L \notin DOMAIN pending
        /\ pending'[L] = j /\ \A i \in DOMAIN pending : pending'[i] = pending[i]
    BY SMTT(60), <1>1, <1>2, <1>3
  <1> HIDE DEF L
  <1>5. ASSUME NEW n
        PROVE  /\ n # seq + 1 => Holders(n)' = Holders(n)
               /\ n = seq + 1 => Holders(n)' = Holders(n) \cup {y}
    <2> DEFINE R == InHeap(n) \cup Unpushed(n) \cup AllBatches(n) \cup Returned(n)
    <2>1. /\ InHeap(n)' = InHeap(n) /\ Unpushed(n)' = Unpushed(n)
          /\ AllBatches(n)' = AllBatches(n) /\ Returned(n)' = Returned(n)
      BY <1>1, HoldersApart, Stays
    <2>2. \A i : i \in DOMAIN pending' /\ pending'[i].n = n
                   <=> (i \in DOMAIN pending /\ pending[i].n = n) \/ (i = L /\ n = seq + 1)
      BY <1>2, <1>4
    <2>3. \A x : x \in InPending(n) <=> \E i : x = <<"pending", i>> /\ i \in DOMAIN pending /\ pending[i].n = n
      BY DEF InPending
    <2>4. \A x : x \in InPending(n)' <=> \E i : x = <<"pending", i>> /\ i \in DOMAIN pending' /\ pending'[i].n = n
      BY DEF InPending
    <2>5. n # seq + 1 => InPending(n)' = InPending(n)
      BY <2>2, <2>3, <2>4
    <2>6. n = seq + 1 => InPending(n)' = InPending(n) \cup {y}
      BY <2>2, <2>3, <2>4
    <2>7. Holders(n) = InPending(n) \cup R
      <3>1. Holders(n) = InPending(n) \cup InHeap(n) \cup Unpushed(n) \cup AllBatches(n) \cup Returned(n)
        BY HoldersApart
      <3> QED
        BY SMTT(60), <3>1
    <2>8. Holders(n)' = InPending(n)' \cup R
      <3>1. Holders(n)' = InPending(n)' \cup InHeap(n)' \cup Unpushed(n)' \cup AllBatches(n)' \cup Returned(n)'
        BY HoldersApart
      <3> QED
        BY SMTT(60), <2>1, <3>1
    <2> HIDE DEF R, y
    <2> QED
      BY SMTT(60), <2>5, <2>6, <2>7, <2>8
  <1> PICK m : m = seq + 1
    OBVIOUS
  <1>6. Holders(m) = {} => Holders(m)' = {y}
    <2> HIDE DEF y
    <2> QED
      BY <1>5
  <1>7. taken' \in [Client -> JobSet \cup {NoJob}]
    BY <1>1, <1>3
  <1>8. \A n : n # m => Holders(n)' = Holders(n)
    BY <1>5
  <1> HIDE DEF y
  <1> QED
    BY <1>1, <1>4, <1>6, <1>7, <1>8, BooksNew

\* PriorityPruneScheduler::schedule numbers a job before it pushes it.
LEMMA TakeSeqBooks ==
  ASSUME JobsInv, NEW t \in Client, NEW s \in SessionId, NEW b \in Budget, TakeSeq(t, s, b)
  PROVE  JobsInv'
  <1> DEFINE j == Job(seq + 1, s, b)
             y == <<"taken", t>>
  <1>1. /\ seq' = seq + 1 /\ taken[t] = NoJob /\ taken' = [taken EXCEPT ![t] = j]
        /\ heap' = heap /\ pending' = pending /\ active' = active /\ delivered' = delivered
    BY DEF TakeSeq
  <1>2. j \in JobSet /\ j.n = seq + 1 /\ j # NoJob
    BY NewJob
  <1>3. pending \in Seq(JobSet) /\ taken \in [Client -> JobSet \cup {NoJob}]
    BY DEF JobsInv
  <1> HIDE DEF j
  <1>4. taken' \in [Client -> JobSet \cup {NoJob}] /\ taken'[t] = j /\ \A u \in Client \ {t} : taken'[u] = taken[u]
    BY <1>1, <1>2, <1>3
  <1>5. ASSUME NEW n
        PROVE  /\ n # seq + 1 => Holders(n)' = Holders(n)
               /\ n = seq + 1 => Holders(n)' = Holders(n) \cup {y}
    <2> DEFINE R == InHeap(n) \cup InPending(n) \cup AllBatches(n) \cup Returned(n)
    <2>1. /\ InHeap(n)' = InHeap(n) /\ InPending(n)' = InPending(n)
          /\ AllBatches(n)' = AllBatches(n) /\ Returned(n)' = Returned(n)
      BY <1>1, HoldersApart, Stays
    <2>2. \A u : u \in Client /\ taken'[u] # NoJob /\ taken'[u].n = n
                   <=> (u \in Client /\ taken[u] # NoJob /\ taken[u].n = n) \/ (u = t /\ n = seq + 1)
      BY <1>1, <1>2, <1>4
    <2>3. \A x : x \in Unpushed(n) <=> \E u : x = <<"taken", u>> /\ u \in Client /\ taken[u] # NoJob /\ taken[u].n = n
      BY DEF Unpushed
    <2>4. \A x : x \in Unpushed(n)' <=> \E u : x = <<"taken", u>> /\ u \in Client /\ taken'[u] # NoJob /\ taken'[u].n = n
      BY DEF Unpushed
    <2>5. n # seq + 1 => Unpushed(n)' = Unpushed(n)
      BY <2>2, <2>3, <2>4
    <2>6. n = seq + 1 => Unpushed(n)' = Unpushed(n) \cup {y}
      BY <2>2, <2>3, <2>4
    <2>7. Holders(n) = Unpushed(n) \cup R
      <3>1. Holders(n) = InPending(n) \cup InHeap(n) \cup Unpushed(n) \cup AllBatches(n) \cup Returned(n)
        BY HoldersApart
      <3> QED
        BY SMTT(60), <3>1
    <2>8. Holders(n)' = Unpushed(n)' \cup R
      <3>1. Holders(n)' = InPending(n)' \cup InHeap(n)' \cup Unpushed(n)' \cup AllBatches(n)' \cup Returned(n)'
        BY HoldersApart
      <3> QED
        BY SMTT(60), <2>1, <3>1
    <2> HIDE DEF R, y
    <2> QED
      BY SMTT(60), <2>5, <2>6, <2>7, <2>8
  <1> PICK m : m = seq + 1
    OBVIOUS
  <1>6. Holders(m) = {} => Holders(m)' = {y}
    <2> HIDE DEF y
    <2> QED
      BY <1>5
  <1>7. pending' \in Seq(JobSet)
    BY <1>1, <1>3
  <1>8. \A n : n # m => Holders(n)' = Holders(n)
    BY <1>5
  <1> HIDE DEF y
  <1> QED
    BY <1>1, <1>4, <1>6, <1>7, <1>8, BooksNew

\* The books of both schedulers balance in every reachable state, whatever the
\* numbers of callers, runners, sessions and jobs.
THEOREM JobsInvariance == JobsSpec => []JobsInv
  <1>1. JobsInit => JobsInv
    <2> SUFFICES ASSUME JobsInit PROVE JobsInv
      BY SMTT(60)
    <2>1. /\ seq = 0 /\ pending = <<>> /\ heap = {} /\ delivered = {}
          /\ taken = [t \in Client |-> NoJob] /\ active = [r \in Runner |-> <<>>]
      BY DEF JobsInit
    <2>2. seq \in Nat /\ pending \in Seq(JobSet) /\ DOMAIN pending = {} /\ 1..seq = {}
      BY SMTT(60), <2>1
    <2>3. heap \subseteq JobSet /\ IsFiniteSet(heap)
      BY <2>1, FS_EmptySet
    <2>4. taken \in [Client -> JobSet \cup {NoJob}] /\ {t \in Client : taken[t] # NoJob} = {}
      BY <2>1
    <2>5. DOMAIN active = Runner /\ \A r \in Runner : DOMAIN active[r] = {}
      BY SMTT(60), <2>1
    <2>6. JobNumbers = {}
      <3>1. \A r \in Runner : {active[r][i].job.n : i \in DOMAIN active[r]} = {}
        BY <2>5
      <3>2. (UNION {{active[r][i].job.n : i \in DOMAIN active[r]} : r \in Runner}) = {}
        BY <3>1
      <3>3. {pending[i].n : i \in DOMAIN pending} = {} /\ {j.n : j \in heap} = {} /\ delivered = {}
        BY <2>1, <2>2
      <3>4. {taken[t].n : t \in {t \in Client : taken[t] # NoJob}} = {}
        BY <2>4
      <3> QED
        BY <3>2, <3>3, <3>4 DEF JobNumbers
    <2> QED
      BY <2>2, <2>3, <2>4, <2>5, <2>6 DEF JobsInv
  <1>2. JobsInv /\ [JobsNext]_jobVars => JobsInv'
    <2> SUFFICES ASSUME JobsInv, [JobsNext]_jobVars PROVE JobsInv'
      BY SMTT(60)
    <2>1. CASE JobsNext
      <3>1. ASSUME NEW s \in SessionId, NEW b \in Block, AppendTo(s, b) PROVE JobsInv'
        BY <3>1, AppendBooks DEF AppendTo
      <3>2. ASSUME NEW s \in SessionId, NEW b \in Budget, schedule(s, b) PROVE JobsInv'
        BY <3>2, ScheduleBooks
      <3>3. ASSUME NEW s \in SessionId, NEW b \in Budget, NEW t \in Client, TakeSeq(t, s, b) PROVE JobsInv'
        BY <3>3, TakeSeqBooks
      <3>4. ASSUME NEW t \in Client, Push(t) PROVE JobsInv'
        BY <3>4, PushBooks
      <3>5. ASSUME NEW r \in Runner, run_one(r) PROVE JobsInv'
        BY <3>5, RunOneBooks
      <3>6. ASSUME NEW r \in Runner, run_all(r) PROVE JobsInv'
        BY <3>6, RunAllBooks
      <3>7. ASSUME NEW r \in Runner, priority_run_all(r) PROVE JobsInv'
        BY <3>7, PriorityBooks
      <3>8. ASSUME NEW r \in Runner, CollectWindows(r) PROVE JobsInv'
        BY <3>8, CollectBooks
      <3>9. ASSUME NEW r \in Runner, NEW i \in DOMAIN active[r], RunJob(r, i) PROVE JobsInv'
        BY <3>9, RunJobBooks
      <3> QED
        BY <2>1, <3>1, <3>2, <3>3, <3>4, <3>5, <3>6, <3>7, <3>8, <3>9 DEF JobsNext
    <2>2. CASE UNCHANGED jobVars
      BY <2>2, AppendBooks DEF jobVars
    <2> QED
      BY <2>1, <2>2
  <1> QED
    BY <1>1, <1>2, PTL DEF JobsSpec

\* Every job scheduled is in exactly one place until its window is returned.
THEOREM EveryJobOnce == JobsSpec => []EachJobOnce
  <1>1. JobsInv => EachJobOnce
    <2>1. ASSUME JobsInv, NEW n \in 1..seq PROVE Cardinality(Holders(n)) = 1
      <3>1. PICK x \in Holders(n) : Holders(n) = {x}
        BY <2>1 DEF JobsInv
      <3>2. Cardinality({x}) = 1
        BY SMTT(60), FS_Singleton
      <3> QED
        BY <3>1, <3>2
    <2> QED
      BY <2>1 DEF EachJobOnce
  <1> QED
    BY <1>1, JobsInvariance, PTL
=============================================================================
