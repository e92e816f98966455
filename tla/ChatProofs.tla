----------------------------- MODULE ChatProofs -----------------------------
(***************************************************************************)
(* One conversation end to end (ChatClient): a settled client builds on    *)
(* its whole conversation, the ACK of a chat request is the one its client *)
(* expects, and without write errors every log the receiver has, or a      *)
(* crash can bring back, is a prefix of the conversation.                  *)
(***************************************************************************)
EXTENDS ChatClient, WalProofs

-----------------------------------------------------------------------------
\* Prefixes, by index.
LEMMA PrefixIndex ==
  ASSUME NEW a \in Seq(BlockId), NEW b \in Seq(BlockId)
  PROVE  Prefix(a, b) <=> Len(a) <= Len(b) /\ \A i \in 1..Len(a) : a[i] = b[i]
  <1>1. CASE Len(a) <= Len(b)
    <2>1. /\ SubSeq(b, 1, Len(a)) \in Seq(BlockId) /\ Len(SubSeq(b, 1, Len(a))) = Len(a)
          /\ \A i \in 1..Len(a) : SubSeq(b, 1, Len(a))[i] = b[i]
      BY <1>1
    <2>2. (\A i \in 1..Len(a) : a[i] = b[i]) => a = SubSeq(b, 1, Len(a))
      BY Zenon, <2>1, SeqEqual
    <2>3. a = SubSeq(b, 1, Len(a)) => \A i \in 1..Len(a) : a[i] = b[i]
      BY Zenon, <2>1
    <2> QED
      BY Zenon, <1>1, <2>2, <2>3 DEF Prefix
  <1> QED
    BY Zenon, <1>1 DEF Prefix

LEMMA PrefixSelf ==
  ASSUME NEW a \in Seq(BlockId)
  PROVE  Prefix(a, a)
  BY PrefixIndex

LEMMA PrefixTrans ==
  ASSUME NEW a \in Seq(BlockId), NEW b \in Seq(BlockId), NEW c \in Seq(BlockId),
         Prefix(a, b), Prefix(b, c)
  PROVE  Prefix(a, c)
  <1>1. Len(a) <= Len(b) /\ Len(b) <= Len(c) /\ Len(a) \in Nat /\ Len(b) \in Nat /\ Len(c) \in Nat
    BY DEF Prefix
  <1>2. \A i \in 1..Len(a) : a[i] = b[i] /\ i \in 1..Len(b)
    BY <1>1, PrefixIndex
  <1>3. \A i \in 1..Len(b) : b[i] = c[i]
    BY Zenon, PrefixIndex
  <1> QED
    BY SMTT(60), <1>1, <1>2, <1>3, PrefixIndex

LEMMA PrefixConcat ==
  ASSUME NEW a \in Seq(BlockId), NEW b \in Seq(BlockId)
  PROVE  a \o b \in Seq(BlockId) /\ Prefix(a, a \o b)
  <1>1. PICK c : c = a \o b
    BY Zenon
  <1>2. c \in Seq(BlockId) /\ Len(c) = Len(a) + Len(b) /\ \A i \in 1..Len(a) : c[i] = a[i]
    BY <1>1
  <1>3. Len(a) <= Len(c)
    BY <1>2
  <1> QED
    BY Zenon, <1>1, <1>2, <1>3, PrefixIndex

\* What an APPEND has applied is a prefix of what it will have applied.
LEMMA PrefixPart ==
  ASSUME NEW a \in Seq(BlockId), NEW b \in Seq(BlockId), NEW n \in 0..Len(b)
  PROVE  Prefix(a \o SubSeq(b, 1, n), a \o b)
  <1>1. PICK d, e : d = SubSeq(b, 1, n) /\ e = SubSeq(b, n + 1, Len(b))
    BY Zenon
  <1>2. d \in Seq(BlockId) /\ e \in Seq(BlockId)
    BY <1>1
  <1>3. d \o e = b
    BY Zenon, <1>1, PartRest
  <1>4. (a \o d) \o e = a \o (d \o e)
    BY Zenon, <1>2, IdsAssociate
  <1>5. a \o d \in Seq(BlockId)
    BY <1>2
  <1>6. Prefix(a \o d, (a \o d) \o e)
    BY ZenonT(60), <1>2, <1>5, PrefixConcat
  <1> QED
    BY ZenonT(60), <1>1, <1>3, <1>4, <1>6

LEMMA InOrderType ==
  ASSUME shim.ids \in Seq(BlockId), NEW missing
  PROVE  InOrder(missing) \in Seq(BlockId)
  BY Zenon, SelectType DEF InOrder

-----------------------------------------------------------------------------
\* A frame fits for good: the conversation only grows.
LEMMA FitsGrows ==
  ASSUME NEW talk \in Seq(BlockId), NEW more \in Seq(BlockId), Prefix(talk, more), NEW f, Fits(f, talk)
  PROVE  Fits(f, more)
  <1>1. f.base \in Seq(BlockId) /\ f.ids \in Seq(BlockId)
    BY Zenon DEF Fits, Frame, Root
  <1>2. f.base \o f.ids \in Seq(BlockId)
    BY <1>1
  <1>3. \A q \in Seq(BlockId) : Prefix(q, talk) => Prefix(q, more)
    BY Zenon, PrefixTrans
  <1> QED
    BY Zenon, <1>1, <1>2, <1>3 DEF Fits

LEMMA BulkFrameFits ==
  ASSUME NEW ids \in Seq(BlockId), NEW talk
  PROVE  Fits(BulkFrame(ids), talk)
  <1>1. <<>> \in Root /\ {} \in SUBSET Nat /\ Conv \in Session
    BY ChatAssumption DEF Root
  <1>2. BulkFrame(ids) \in Frame
    BY ZenonT(60), <1>1 DEF BulkFrame, Frame, ROOT_ZERO
  <1> QED
    BY Zenon, <1>2 DEF BulkFrame, Fits

LEMMA BulkFramesFit ==
  ASSUME shim.ids \in Seq(BlockId), NEW missing, NEW talk
  PROVE  /\ bulk_frames_for(missing) \in Seq(Frame)
         /\ \A i \in DOMAIN bulk_frames_for(missing) : Fits(bulk_frames_for(missing)[i], talk)
  <1>1. PICK ids : ids = InOrder(missing)
    BY Zenon
  <1> DEFINE n == (Len(ids) + GenBlocks - 1) \div GenBlocks
             to(g) == IF g * GenBlocks < Len(ids) THEN g * GenBlocks ELSE Len(ids)
             Generation(g) == SubSeq(ids, (g - 1) * GenBlocks + 1, to(g))
  <1>2. ids \in Seq(BlockId) /\ GenBlocks \in Nat \ {0} /\ Len(ids) \in Nat
    BY SMTT(60), <1>1, InOrderType, ChatAssumption
  <1>3. bulk_frames_for(missing) = [g \in 1..n |-> BulkFrame(Generation(g))]
    BY Zenon, <1>1 DEF bulk_frames_for
  <1>4. n \in Nat
    BY <1>2
  <1>5. ASSUME NEW g \in 1..n PROVE Generation(g) \in Seq(BlockId)
    <2>1. g - 1 \in Nat /\ g \in Nat
      BY <1>4
    <2>2. (g - 1) * GenBlocks \in Nat /\ g * GenBlocks \in Nat
      BY <1>2, <2>1
    <2>3. (g - 1) * GenBlocks + 1 \in Int /\ to(g) \in Int /\ to(g) <= Len(ids)
      BY SMTT(60), <1>2, <2>2
    <2>4. \A i \in ((g - 1) * GenBlocks + 1)..to(g) : ids[i] \in BlockId
      BY SMTT(60), <1>2, <2>2, <2>3
    <2> QED
      BY SMTT(60), <2>3, <2>4
  <1> HIDE DEF n, Generation
  <1>6. \A g \in 1..n : Fits(BulkFrame(Generation(g)), talk)
    BY Zenon, <1>5, BulkFrameFits
  <1>7. \A g \in 1..n : BulkFrame(Generation(g)) \in Frame
    BY Zenon, <1>6 DEF Fits
  <1> QED
    BY SMTT(60), <1>3, <1>4, <1>6, <1>7

\* There is a number that no request has.
LEMMA FreshNew ==
  ASSUME IsFiniteSet(net), from \in [Thread -> Nat]
  PROVE  /\ Fresh \in Nat \ {0}
         /\ \A m \in net : m.n # Fresh
         /\ \A t \in Thread : from[t] # Fresh
  <1> DEFINE used == {m.n : m \in net}
             busy == {from[t] : t \in Thread}
             N == Cardinality(net) + Cardinality(Thread) + 1
             f == [m \in net |-> m.n]
             g == [t \in Thread |-> from[t]]
  <1>1. Cardinality(net) \in Nat /\ Cardinality(Thread) \in Nat
    BY Zenon, ChatAssumption, FS_CardinalityType
  <1>2. f \in Surjection(net, used) /\ g \in Surjection(Thread, busy)
    BY Zenon DEF Surjection
  <1>3. IsFiniteSet(used) /\ Cardinality(used) <= Cardinality(net)
    <2> HIDE DEF used, f
    <2> QED
      BY Zenon, <1>2, FS_Surjection
  <1>4. IsFiniteSet(busy) /\ Cardinality(busy) <= Cardinality(Thread)
    <2> HIDE DEF busy, g
    <2> QED
      BY Zenon, <1>2, ChatAssumption, FS_Surjection
  <1>5. PICK n \in 1..N : n \notin used \cup busy
    <2> HIDE DEF used, busy
    <2>1. Cardinality(used) \in Nat /\ Cardinality(busy) \in Nat
      BY Zenon, <1>3, <1>4, FS_CardinalityType
    <2>2. IsFiniteSet(used \cup busy)
      BY Zenon, <1>3, <1>4, FS_Union
    <2>3. Cardinality(used \cup busy) <= Cardinality(used) + Cardinality(busy)
      <3>1. IsFiniteSet(used \cap busy)
        BY Zenon, <1>3, FS_Intersection
      <3>2. Cardinality(used \cap busy) \in Nat
        BY Zenon, <3>1, FS_CardinalityType
      <3>3. Cardinality(used \cup busy) = Cardinality(used) + Cardinality(busy) - Cardinality(used \cap busy)
        BY Zenon, <1>3, <1>4, FS_Union
      <3> QED
        BY SMTT(60), <2>1, <3>2, <3>3
    <2>4. N \in Nat /\ Cardinality(used) + Cardinality(busy) < N
      BY SMTT(60), <1>1, <1>3, <1>4, <2>1
    <2>5. Cardinality(1..N) = N
      BY SMTT(60), <1>1, <2>4, FS_Interval
    <2> HIDE DEF N
    <2>6. Cardinality(used \cup busy) \in Nat
      BY Zenon, <2>2, FS_CardinalityType
    <2>7. ASSUME 1..N \subseteq used \cup busy PROVE FALSE
      <3>1. Cardinality(1..N) <= Cardinality(used \cup busy)
        BY Zenon, <2>2, <2>7, FS_Subset
      <3> QED
        BY SMTT(60), <2>1, <2>3, <2>4, <2>5, <2>6, <3>1
    <2> QED
      BY Zenon, <2>7
  <1>6. /\ \A m \in net : m.n # n
        /\ \A t \in Thread : from[t] # n
    BY Zenon, <1>5
  <1>7. N \in Nat
    BY <1>1
  <1>8. /\ Fresh \in 1..N
        /\ \A m \in net : m.n # Fresh
        /\ \A t \in Thread : from[t] # Fresh
    BY Zenon, <1>6 DEF Fresh
  <1> QED
    BY <1>7, <1>8

-----------------------------------------------------------------------------
(***************************************************************************)
(* The client.                                                             *)
(***************************************************************************)
LEMMA ClientTypes ==
  ASSUME ClientInv
  PROVE  /\ shim.ids \in Seq(BlockId) /\ shim.base \in Seq(BlockId)
         /\ shim = [ids |-> shim.ids, base |-> shim.base]
  BY Zenon DEF ClientInv, Root

LEMMA AppendFits ==
  ASSUME NEW base \in Seq(BlockId), NEW ids \in Seq(BlockId)
  PROVE  /\ Fits(AppendFrame(base, ids), base \o ids) /\ AppendFrame(base, ids).kind = "Append"
         /\ AppendFrame(base, ids).base = base /\ AppendFrame(base, ids).ids = ids
  <1>1. base \in Root /\ {} \in SUBSET Nat /\ Conv \in Session
    BY Zenon, ChatAssumption DEF Root
  <1>2. AppendFrame(base, ids) \in Frame
    BY ZenonT(60), <1>1 DEF AppendFrame, Frame
  <1>3. Prefix(base \o ids, base \o ids)
    <2>1. base \o ids \in Seq(BlockId)
      OBVIOUS
    <2> QED
      BY Zenon, <2>1, PrefixSelf
  <1> QED
    BY Zenon, <1>2, <1>3 DEF AppendFrame, Fits

LEMMA ResyncFits ==
  ASSUME shim.ids \in Seq(BlockId)
  PROVE  Fits(resync_frame, shim.ids) /\ resync_frame.kind # "Append"
  <1>1. shim.ids \in Root /\ {} \in SUBSET Nat /\ Conv \in Session
    BY Zenon, ChatAssumption DEF Root
  <1>2. resync_frame \in Frame
    BY ZenonT(60), <1>1 DEF resync_frame, Frame
  <1> QED
    BY Zenon, <1>2, PrefixSelf DEF resync_frame, Fits

\* An ACK moves the base to a prefix of the conversation, and settles the
\* pending append if it is of all of it.
LEMMA AckMoves ==
  ASSUME ClientInv, Unsettled, NEW root, apply_ack(root)
  PROVE  /\ shim' \in [ids: Seq(BlockId), base: Root] /\ shim'.ids = shim.ids /\ shim'.base = root
         /\ Prefix(shim'.base, shim'.ids)
         /\ IF root = shim.ids THEN pendingRoot' = {} ELSE pendingRoot' = pendingRoot
  <1>1. shim.ids \in Seq(BlockId) /\ shim.base \in Seq(BlockId) /\ Prefix(shim.base, shim.ids)
    BY Zenon, ClientTypes DEF ClientInv
  <1>2. ASSUME NEW i \in DOMAIN shim.ids
        PROVE  SubSeq(shim.ids, 1, i) \in Seq(BlockId) /\ Prefix(SubSeq(shim.ids, 1, i), shim.ids)
    <2>1. i \in 1..Len(shim.ids)
      BY <1>1
    <2>2. SubSeq(shim.ids, 1, i) \in Seq(BlockId) /\ Len(SubSeq(shim.ids, 1, i)) = i
      BY <1>1, <2>1
    <2> QED
      BY SMTT(60), <1>1, <2>1, <2>2 DEF Prefix
  <1>3. root \in Seq(BlockId) /\ Prefix(root, shim.ids)
    BY Zenon, <1>1, <1>2 DEF apply_ack, Known
  <1>4. shim' \in [ids: Seq(BlockId), base: Root] /\ shim'.ids = shim.ids /\ shim'.base = root
    BY Zenon, <1>1, <1>3 DEF apply_ack, ClientInv, Root
  <1> QED
    BY Zenon, <1>3, <1>4 DEF apply_ack, Unsettled

LEMMA ClientStep ==
  ASSUME ClientInv, WireInv, Client \/ Rebuild \/ Abandon
  PROVE  ClientInv' /\ Prefix(shim.ids, shim'.ids) /\ UNCHANGED vars
  <1>1. /\ shim.ids \in Seq(BlockId) /\ shim.base \in Seq(BlockId) /\ Prefix(shim.base, shim.ids)
        /\ turn \in Nat /\ phase \in Phases /\ Prefix(shim.ids, shim.ids)
        /\ bulk \in Seq(Frame) /\ \A i \in DOMAIN bulk : Fits(bulk[i], shim.ids)
    BY Zenon, ClientTypes, PrefixSelf DEF ClientInv
  <1>2. phase \notin Settled => Unsettled
    BY Zenon DEF ClientInv
  <1>3. ASSUME UNCHANGED <<shim, pendingRoot, prepared, turn>>, phase \notin Settled, phase' \in Phases \ Settled,
               bulk' \in Seq(Frame), \A i \in DOMAIN bulk' : Fits(bulk'[i], shim.ids)
        PROVE  ClientInv' /\ Prefix(shim.ids, shim'.ids)
    BY Zenon, <1>1, <1>2, <1>3 DEF ClientInv, Unsettled
  <1>4. bulk' = <<>> => bulk' \in Seq(Frame) /\ \A i \in DOMAIN bulk' : Fits(bulk'[i], shim.ids)
    OBVIOUS
  <1>5. ASSUME NEW root, phase \notin Settled, apply_ack(root), UNCHANGED <<prepared, turn, bulk>>,
               phase' \in Phases, phase' \in Settled <=> root = shim.ids
        PROVE  ClientInv' /\ Prefix(shim.ids, shim'.ids)
    <2>1. /\ shim' \in [ids: Seq(BlockId), base: Root] /\ shim'.ids = shim.ids /\ shim'.base = root
          /\ Prefix(shim'.base, shim'.ids)
          /\ IF root = shim.ids THEN pendingRoot' = {} ELSE pendingRoot' = pendingRoot
      BY Zenon, <1>2, <1>5, AckMoves
    <2> QED
      BY Zenon, <1>1, <1>2, <1>5, <2>1 DEF ClientInv, Unsettled
  <1>6. ASSUME NEW root, phase \notin Settled, ApplyProtocolAck(root), UNCHANGED <<prepared, turn, bulk>>
        PROVE  ClientInv' /\ Prefix(shim.ids, shim'.ids)
    <2>1. CASE Known(root)
      <3>1. apply_ack(root) /\ phase' = IF pendingRoot' = {} THEN "invoke" ELSE "post"
        BY Zenon, <1>6, <2>1 DEF ApplyProtocolAck
      <3>2. pendingRoot' = {} <=> root = shim.ids
        BY Zenon, <1>2, <1>6, <3>1 DEF apply_ack, Unsettled
      <3> QED
        BY Zenon, <1>5, <1>6, <3>1, <3>2 DEF Phases, Settled
    <2>2. CASE ~Known(root)
      BY Zenon, <1>1, <1>3, <1>6, <2>2 DEF ApplyProtocolAck, Phases, Settled, Asking
    <2> QED
      BY Zenon, <2>1, <2>2
  <1>7. UNCHANGED vars
    BY ZenonT(60) DEF Client, Prepare, Post, ChatReply, Synchronize, ResyncReply, SendBulk, BulkReply,
                      SyncEnd, Rebuild, Abandon, Hear
  <1>8. CASE Prepare
    <2>1. PICK ids \in Seq(BlockId) : phase \in Settled /\ prepare(ids) /\ turn' \in {turn, turn + 1}
      <3>1. <<>> \in Seq(BlockId)
        OBVIOUS
      <3>2. turn < Len(Turns) => Turns[turn + 1] \in Seq(BlockId)
        BY SMTT(60), <1>1, ChatAssumption
      <3> QED
        BY Zenon, <1>8, <3>1, <3>2 DEF Prepare, Settled
    <2>2. shim.base = shim.ids
      BY Zenon, <2>1 DEF ClientInv
    <2>3. PICK talk : talk = shim.ids \o ids
      BY Zenon
    <2>4. talk \in Seq(BlockId) /\ Prefix(shim.ids, talk)
      BY Zenon, <1>1, <2>3, PrefixConcat
    <2>5. shim' = [shim EXCEPT !.ids = talk] /\ pendingRoot' = {talk}
          /\ prepared' = AppendFrame(shim.ids, ids)
      BY Zenon, <2>1, <2>2, <2>3 DEF prepare, ingest_turn
    <2>6. shim' \in [ids: Seq(BlockId), base: Root] /\ shim'.ids = talk /\ shim'.base = shim.base
      BY Zenon, <2>4, <2>5 DEF ClientInv
    <2>7. /\ Fits(prepared', talk) /\ prepared'.kind = "Append"
          /\ root_over(prepared'.base, prepared'.ids) = talk
      BY Zenon, <1>1, <2>3, <2>5, AppendFits DEF root_over
    <2>8. bulk' = bulk /\ phase' = "post" /\ turn' \in Nat
      BY SMTT(60), <1>1, <1>8, <2>1 DEF Prepare, syncVars
    <2>9. \A i \in DOMAIN bulk : Fits(bulk[i], talk)
      BY Zenon, <1>1, <2>4, FitsGrows
    <2> QED
      BY Zenon, <1>1, <1>7, <2>2, <2>4, <2>5, <2>6, <2>7, <2>8, <2>9 DEF ClientInv, Unsettled, Phases, Settled
  <1>9. CASE Rebuild
    <2>1. /\ shim' = [ids |-> shim.ids, base |-> <<>>] /\ pendingRoot' = {shim.ids} /\ turn' = turn
          /\ prepared' = AppendFrame(<<>>, shim.ids) /\ phase' = "post" /\ bulk' = <<>>
      BY Zenon, <1>9 DEF Rebuild, NewShim, ROOT_ZERO
    <2>2. <<>> \in Seq(BlockId) /\ <<>> \o shim.ids = shim.ids
      BY SMTT(60), <1>1, ConcatEmptySeq
    <2>3. /\ Fits(prepared', shim.ids) /\ prepared'.kind = "Append"
          /\ root_over(prepared'.base, prepared'.ids) = shim.ids
      BY ZenonT(60), <1>1, <2>1, <2>2, AppendFits DEF root_over
    <2>4. Prefix(<<>>, shim.ids)
      <3>1. Prefix(<<>>, <<>> \o shim.ids)
        BY ZenonT(60), <1>1, <2>2, PrefixConcat
      <3> QED
        BY ZenonT(60), <2>2, <3>1
    <2>5. shim' \in [ids: Seq(BlockId), base: Root] /\ shim'.ids = shim.ids /\ shim'.base = <<>>
      BY Zenon, <1>1, <2>1, <2>2 DEF Root
    <2> QED
      BY Zenon, <1>1, <1>4, <1>7, <2>1, <2>3, <2>4, <2>5 DEF ClientInv, Unsettled, Phases, Settled
  <1>10. CASE Post \/ Synchronize \/ Abandon
    <2>1. /\ UNCHANGED <<shim, pendingRoot, prepared, turn>> /\ bulk' \in {bulk, <<>>}
          /\ phase' \in Phases \ Settled
      BY Zenon, <1>10 DEF Post, Synchronize, Abandon, chatVars, syncVars, Phases, Settled, Asking
    <2>2. phase \notin Settled
      BY Zenon, <1>10 DEF Post, Synchronize, Abandon, WireInv, Settled, Asking
    <2> QED
      BY Zenon, <1>1, <1>3, <1>4, <1>7, <2>1, <2>2
  <1>11. CASE ChatReply
    <2>1. phase = "chat" /\ phase \notin Settled /\ UNCHANGED <<prepared, turn, bulk>>
      BY Zenon, <1>11 DEF ChatReply, syncVars, Settled
    <2>2. PICK r \in answer :
            \/ r.root = root_over(prepared.base, prepared.ids) /\ apply_ack(r.root) /\ phase' = "ready"
            \/ phase' \in {"sync", "post"} /\ UNCHANGED <<shim, pendingRoot>>
      BY Zenon, <1>11 DEF ChatReply
    <2>3. CASE r.root = root_over(prepared.base, prepared.ids) /\ apply_ack(r.root) /\ phase' = "ready"
      <3>1. r.root = shim.ids
        BY Zenon, <1>2, <2>1, <2>3 DEF Unsettled
      <3> QED
        BY Zenon, <1>5, <1>7, <2>1, <2>3, <3>1 DEF Phases, Settled
    <2>4. CASE phase' \in {"sync", "post"} /\ UNCHANGED <<shim, pendingRoot>>
      BY Zenon, <1>1, <1>3, <1>7, <2>1, <2>4 DEF Phases, Settled
    <2> QED
      BY Zenon, <2>2, <2>3, <2>4
  <1>12. CASE ResyncReply
    <2>1. phase = "resync" /\ phase \notin Settled /\ UNCHANGED <<prepared, turn>>
      BY Zenon, <1>12 DEF ResyncReply, Settled
    <2>2. PICK r \in answer :
            \/ ApplyProtocolAck(r.root) /\ UNCHANGED bulk
            \/ bulk' = bulk_frames_for(r.ids) /\ phase' = "bulk" /\ UNCHANGED <<shim, pendingRoot>>
            \/ phase' = "sync" /\ UNCHANGED <<shim, pendingRoot, bulk>>
      BY Zenon, <1>12 DEF ResyncReply
    <2>3. CASE ApplyProtocolAck(r.root) /\ UNCHANGED bulk
      BY Zenon, <1>6, <1>7, <2>1, <2>3
    <2>4. CASE bulk' = bulk_frames_for(r.ids) /\ phase' = "bulk" /\ UNCHANGED <<shim, pendingRoot>>
      BY Zenon, <1>1, <1>3, <1>7, <2>1, <2>4, BulkFramesFit DEF Phases, Settled
    <2>5. CASE phase' = "sync" /\ UNCHANGED <<shim, pendingRoot, bulk>>
      BY Zenon, <1>1, <1>3, <1>7, <2>1, <2>5 DEF Phases, Settled
    <2> QED
      BY Zenon, <2>2, <2>3, <2>4, <2>5
  <1>13. CASE SendBulk
    <2>1. /\ phase = "bulk" /\ bulk # <<>> /\ bulk' = Tail(bulk) /\ phase' = "bulkWait"
          /\ UNCHANGED <<shim, pendingRoot, prepared, turn>>
      BY Zenon, <1>13 DEF SendBulk, chatVars
    <2>2. bulk' \in Seq(Frame) /\ \A i \in DOMAIN bulk' : i + 1 \in DOMAIN bulk /\ bulk'[i] = bulk[i + 1]
      BY <1>1, <2>1
    <2> QED
      BY Zenon, <1>1, <1>3, <1>7, <2>1, <2>2 DEF Phases, Settled, Asking
  <1>14. CASE BulkReply
    <2>1. /\ phase = "bulkWait" /\ phase' \in {"sync", "bulk"}
          /\ UNCHANGED <<shim, pendingRoot, prepared, turn, bulk>>
      BY Zenon, <1>14 DEF BulkReply, chatVars
    <2> QED
      BY Zenon, <1>1, <1>3, <1>7, <2>1 DEF Phases, Settled
  <1>15. CASE SyncEnd
    <2>1. phase = "bulk" /\ phase \notin Settled /\ UNCHANGED <<prepared, turn, bulk>>
      BY Zenon, <1>15 DEF SyncEnd, syncVars, Settled
    <2>2. CASE phase' = "sync" /\ UNCHANGED <<shim, pendingRoot>>
      BY Zenon, <1>1, <1>3, <1>7, <2>1, <2>2 DEF Phases, Settled
    <2>3. ASSUME NEW root \in completion, ApplyProtocolAck(root)
          PROVE  ClientInv' /\ Prefix(shim.ids, shim'.ids)
      BY Zenon, <1>6, <2>1, <2>3
    <2> QED
      BY Zenon, <1>7, <1>15, <2>2, <2>3 DEF SyncEnd
  <1> QED
    BY Zenon, <1>8, <1>9, <1>10, <1>11, <1>12, <1>13, <1>14, <1>15 DEF Client

LEMMA ClientWire ==
  ASSUME ClientInv, WireInv, Client \/ Rebuild \/ Abandon
  PROVE  WireInv'
  <1>1. /\ shim.ids \in Seq(BlockId) /\ shim'.ids \in Seq(BlockId) /\ Prefix(shim.ids, shim'.ids)
        /\ UNCHANGED <<pc, req>>
    BY Zenon, ClientStep, ClientTypes DEF ClientInv, vars
  <1>2. from' = from
    BY ZenonT(60) DEF Client, Prepare, Post, ChatReply, Synchronize, ResyncReply, SendBulk, BulkReply,
                      SyncEnd, Rebuild, Abandon, Hear
  <1>3. /\ IsFiniteSet(net) /\ \A m \in net : m.n \in Nat \ {0} /\ Fits(m.f, shim'.ids)
        /\ from \in [Thread -> Nat]
        /\ \A t \in Thread : pc[t] # "idle" => from[t] # 0 /\ Fits(req[t], shim'.ids)
    BY Zenon, <1>1, FitsGrows DEF WireInv
  <1>4. ASSUME net' = net, waiting' = 0, answer' = {}, phase' \notin Asking
        PROVE  WireInv'
    BY Zenon, <1>1, <1>2, <1>3, <1>4 DEF WireInv, Asking
  <1>5. ASSUME NEW f, Fits(f, shim.ids), Send(f), phase \notin Asking, phase' \in Asking, answer' = answer,
               phase' = "chat" => f = prepared /\ prepared' = prepared
        PROVE  WireInv'
    <2>1. PICK n : n = Fresh
      BY Zenon
    <2>2. n \in Nat \ {0} /\ (\A m \in net : m.n # n) /\ \A t \in Thread : from[t] # n
      BY Zenon, <1>3, <2>1, FreshNew
    <2>3. PICK m : m = [n |-> n, f |-> f]
      BY Zenon
    <2>4. m.n = n /\ m.f = f
      BY Zenon, <2>3
    <2>5. net' = net \cup {m} /\ waiting' = n
      BY Zenon, <1>5, <2>1, <2>3 DEF Send
    <2>6. IsFiniteSet(net')
      BY Zenon, <1>3, <2>5, FS_AddElement
    <2>7. Fits(f, shim'.ids)
      BY Zenon, <1>1, <1>5, FitsGrows
    <2>8. answer' = {}
      BY Zenon, <1>5 DEF WireInv
    <2> QED
      BY Zenon, <1>1, <1>2, <1>3, <1>5, <2>2, <2>4, <2>5, <2>6, <2>7, <2>8 DEF WireInv
  <1>6. CASE Prepare \/ SyncEnd
    <2>1. phase \notin Asking /\ phase' \notin Asking /\ UNCHANGED <<net, waiting, answer>>
      BY Zenon, <1>6 DEF Prepare, SyncEnd, ApplyProtocolAck, wireVars, Asking
    <2>2. waiting = 0 /\ answer = {}
      BY Zenon, <2>1 DEF WireInv
    <2> QED
      BY Zenon, <1>4, <2>1, <2>2
  <1>7. CASE Rebuild
    BY Zenon, <1>4, <1>7 DEF Rebuild, Asking
  <1>8. CASE Abandon
    BY Zenon, <1>4, <1>8 DEF Abandon, Asking
  <1>9. CASE ChatReply \/ ResyncReply \/ BulkReply
    <2>1. net' = net /\ waiting' = 0 /\ answer' = {} 
      BY Zenon, <1>9 DEF ChatReply, ResyncReply, BulkReply, Hear
    <2>2. phase' \notin Asking
      BY Zenon, <1>9 DEF ChatReply, ResyncReply, BulkReply, ApplyProtocolAck, Asking
    <2> QED
      BY Zenon, <1>4, <2>1, <2>2
  <1>10. CASE Post
    <2>1. phase = "post" /\ Send(prepared) /\ phase' = "chat" /\ UNCHANGED <<prepared, answer>>
      BY Zenon, <1>10 DEF Post, chatVars
    <2>2. Fits(prepared, shim.ids)
      BY Zenon, <2>1 DEF ClientInv, Unsettled, Settled
    <2> QED
      BY Zenon, <1>5, <2>1, <2>2 DEF Asking
  <1>11. CASE Synchronize
    <2>1. phase = "sync" /\ Send(resync_frame) /\ phase' = "resync" /\ answer' = answer
      BY Zenon, <1>11 DEF Synchronize
    <2> QED
      BY Zenon, <1>1, <1>5, <2>1, ResyncFits DEF Asking
  <1>12. CASE SendBulk
    <2>1. phase = "bulk" /\ Send(Head(bulk)) /\ phase' = "bulkWait" /\ answer' = answer /\ bulk # <<>>
      BY Zenon, <1>12 DEF SendBulk
    <2>2. Fits(Head(bulk), shim.ids)
      <3>1. bulk \in Seq(Frame) /\ \A i \in DOMAIN bulk : Fits(bulk[i], shim.ids)
        BY Zenon DEF ClientInv
      <3>2. 1 \in DOMAIN bulk /\ Head(bulk) = bulk[1]
        BY <2>1, <3>1
      <3> QED
        BY Zenon, <3>1, <3>2
    <2> QED
      BY Zenon, <1>5, <2>1, <2>2 DEF Asking
  <1> QED
    BY Zenon, <1>6, <1>7, <1>8, <1>9, <1>10, <1>11, <1>12 DEF Client

-----------------------------------------------------------------------------
(***************************************************************************)
(* The network and the receiver's threads.                                 *)
(***************************************************************************)
Network == Drop \/ Restart \/ \E t \in Thread : Server(t)

LEMMA NetworkClient ==
  ASSUME ClientInv, Network
  PROVE  ClientInv' /\ UNCHANGED <<shim, prepared, phase, waiting>>
  <1>1. UNCHANGED <<shim, pendingRoot, prepared, phase, bulk, turn, waiting>>
    BY ZenonT(60) DEF Network, Drop, Restart, Server, Deliver, Return, clientVars, chatVars, syncVars, wireVars
  <1> QED
    BY Zenon, <1>1 DEF ClientInv, Unsettled

LEMMA NetworkWire ==
  ASSUME IInv, ChatInv, Network
  PROVE  WireInv'
  <1>1. UNCHANGED <<shim, prepared, phase, waiting>>
    BY Zenon, NetworkClient DEF ChatInv
  <1>2. /\ IsFiniteSet(net) /\ \A m \in net : m.n \in Nat \ {0} /\ Fits(m.f, shim.ids)
        /\ from \in [Thread -> Nat]
        /\ \A t \in Thread : pc[t] # "idle" => from[t] # 0 /\ Fits(req[t], shim.ids)
        /\ phase \notin Asking => waiting = 0 /\ answer = {}
        /\ phase = "chat" =>
             /\ waiting # 0
             /\ \A m \in net : m.n = waiting => m.f = prepared
             /\ \A t \in Thread : from[t] = waiting => req[t] = prepared
             /\ \A r \in answer : r.kind = "Ack" => r.root = shim.ids
    BY Zenon DEF ChatInv, WireInv
  <1>3. TypeOK /\ req \in [Thread -> Frame]
    BY Zenon DEF IInv, TypeOK
  <1>4. CASE Drop
    <2>1. PICK m \in net : net' = net \ {m} /\ UNCHANGED <<pc, req, from, answer>>
      BY Zenon, <1>4 DEF Drop, vars
    <2>2. IsFiniteSet(net') /\ net' \subseteq net
      BY Zenon, <1>2, <2>1, FS_Subset
    <2> QED
      BY Zenon, <1>1, <1>2, <2>1, <2>2 DEF WireInv
  <1>5. CASE Restart
    <2>1. /\ \A t \in Thread : pc'[t] = "idle"
          /\ from' = [t \in Thread |-> 0] /\ UNCHANGED <<net, answer>>
      BY Zenon, <1>5, RestartIdle DEF Restart, wireVars
    <2> QED
      BY Zenon, <1>1, <1>2, <2>1 DEF WireInv
  <1>6. ASSUME NEW t \in Thread, Deliver(t) PROVE WireInv'
    <2>1. PICK m \in net : /\ Handle(t, m.f) /\ net' = net \ {m}
                           /\ from' = [from EXCEPT ![t] = m.n] /\ UNCHANGED answer
      BY Zenon, <1>6 DEF Deliver
    <2>2. IsFiniteSet(net') /\ net' \subseteq net
      BY Zenon, <1>2, <2>1, FS_Subset
    <2>3. /\ req' = [req EXCEPT ![t] = m.f]
          /\ \A u \in Thread \ {t} : pc'[u] = pc[u] /\ req'[u] = req[u]
      BY Zenon, <1>3, <2>1, HandleShape
    <2>4. \A u \in Thread : IF u = t THEN req'[u] = m.f /\ from'[u] = m.n
                            ELSE req'[u] = req[u] /\ from'[u] = from[u] /\ pc'[u] = pc[u]
      BY Zenon, <1>2, <1>3, <2>1, <2>3
    <2>5. from' \in [Thread -> Nat]
      BY Zenon, <1>2, <2>1
    <2> QED
      BY Zenon, <1>1, <1>2, <2>1, <2>2, <2>4, <2>5 DEF WireInv
  <1>7. ASSUME NEW t \in Thread, Return(t) PROVE WireInv'
    <2>1. /\ Respond(t) /\ net' = net /\ from' = [from EXCEPT ![t] = 0]
          /\ answer' = IF from[t] = waiting THEN {reply[t]} ELSE answer
      BY Zenon, <1>7 DEF Return, wireVars
    <2>2. /\ pc[t] = "reply" /\ pc'[t] = "idle"
          /\ \A u \in Thread \ {t} : pc'[u] = pc[u] /\ req'[u] = req[u]
      BY Zenon, <1>3, <2>1, RespondShape
    <2>3. \A u \in Thread : IF u = t THEN pc'[u] = "idle" /\ from'[u] = 0
                            ELSE req'[u] = req[u] /\ from'[u] = from[u] /\ pc'[u] = pc[u]
      BY Zenon, <1>2, <2>1, <2>2
    <2>4. from' \in [Thread -> Nat]
      BY Zenon, <1>2, <2>1
    <2>5. from[t] # 0
      BY Zenon, <1>2, <2>2
    <2>6. phase \notin Asking => waiting = 0 /\ answer' = {}
      BY Zenon, <1>2, <2>1, <2>5
    <2>7. ASSUME phase = "chat", NEW r \in answer', r.kind = "Ack" PROVE r.root = shim.ids
      <3>1. CASE from[t] = waiting
        <4>1. r = reply[t] /\ req[t] = prepared
          BY Zenon, <1>2, <2>1, <2>7, <3>1
        <4>2. prepared.kind = "Append" /\ root_over(prepared.base, prepared.ids) = shim.ids
          BY Zenon, <2>7 DEF ChatInv, ClientInv, Unsettled, Settled
        <4>3. AppendInv(t)
          BY Zenon DEF IInv
        <4> QED
          BY Zenon, <2>2, <2>7, <4>1, <4>2, <4>3 DEF AppendInv
      <3>2. CASE from[t] # waiting
        BY Zenon, <1>2, <2>1, <2>7, <3>2
      <3> QED
        BY Zenon, <3>1, <3>2
    <2> QED
      BY Zenon, <1>1, <1>2, <2>1, <2>3, <2>4, <2>6, <2>7 DEF WireInv
  <1>8. ASSUME NEW t \in Thread, Step(t), UNCHANGED clientVars PROVE WireInv'
    <2>1. UNCHANGED <<net, from, answer>>
      BY Zenon, <1>8 DEF clientVars, wireVars
    <2>2. /\ req' = req /\ \A u \in Thread \ {t} : pc'[u] = pc[u]
          /\ pc[t] \in Locked \cup {"root", "flush"}
      BY Zenon, <1>3, <1>8, StepShape
    <2>3. \A u \in Thread : pc'[u] # "idle" => pc[u] # "idle"
      BY Zenon, <2>2 DEF Locked
    <2> QED
      BY Zenon, <1>1, <1>2, <2>1, <2>2, <2>3 DEF WireInv
  <1> QED
    BY Zenon, <1>4, <1>5, <1>6, <1>7, <1>8 DEF Network, Server

(***************************************************************************)
(* The composition.  What the network delivers are frames of this one      *)
(* conversation, so the receiver's own invariants hold here as well.       *)
(***************************************************************************)
LEMMA ChatIsOwn ==
  ASSUME ChatInv, [ChatNext]_allVars
  PROVE  [OwnNext(Own)]_vars
  <1>1. CASE UNCHANGED allVars
    BY Zenon, <1>1 DEF allVars
  <1>2. CASE Client \/ Rebuild \/ Abandon
    BY Zenon, <1>2, ClientStep DEF ChatInv
  <1>3. CASE Drop
    BY Zenon, <1>3 DEF Drop
  <1>4. CASE Restart
    BY Zenon, <1>4 DEF Restart, OwnNext
  <1>5. ASSUME NEW t \in Thread, Deliver(t) PROVE OwnNext(Own)
    <2>1. PICK m \in net : Handle(t, m.f)
      BY Zenon, <1>5 DEF Deliver
    <2>2. PICK f : f = m.f
      BY Zenon
    <2>3. Fits(f, shim.ids)
      BY Zenon, <2>2 DEF ChatInv, WireInv
    <2>4. f \in WellFormed /\ f.s = Conv /\ f.ids \in Seq(BlockId)
      BY Zenon, <2>3 DEF Fits, WellFormed, Frame
    <2>5. Range(f.ids) \subseteq BlockId
      BY <2>4 DEF Range
    <2>6. Own[Conv] = BlockId
      BY Zenon, ChatAssumption DEF Own
    <2>7. f \in OwnFrames(Own)
      BY Zenon, <2>4, <2>5, <2>6 DEF OwnFrames
    <2> QED
      BY Zenon, <2>1, <2>2, <2>7 DEF OwnNext
  <1>6. ASSUME NEW t \in Thread, Return(t) PROVE OwnNext(Own)
    BY Zenon, <1>6 DEF Return, OwnNext
  <1>7. ASSUME NEW t \in Thread, Step(t) PROVE OwnNext(Own)
    BY Zenon, <1>7 DEF OwnNext
  <1> QED
    BY Zenon, <1>1, <1>2, <1>3, <1>4, <1>5, <1>6, <1>7 DEF ChatNext, Server

LEMMA OwnApart == Apart(Own)
  BY Zenon DEF Apart, Own

LEMMA ChatInvStep ==
  ASSUME IInv, ChatInv, [ChatNext]_allVars
  PROVE  IInv' /\ ChatInv'
  <1>1. IInv'
    BY Zenon, ChatIsOwn, OwnIsAny, InvStep
  <1>2. CASE UNCHANGED allVars
    BY Zenon, <1>1, <1>2 DEF allVars, vars, ChatInv, ClientInv, Unsettled, WireInv
  <1>3. CASE Client \/ Rebuild \/ Abandon
    BY Zenon, <1>1, <1>3, ClientStep, ClientWire DEF ChatInv
  <1>4. CASE Network
    BY Zenon, <1>1, <1>4, NetworkClient, NetworkWire DEF ChatInv
  <1> QED
    BY Zenon, <1>2, <1>3, <1>4 DEF ChatNext, Network

LEMMA InitChat == ChatInit => ChatInv
  <1> SUFFICES ASSUME ChatInit PROVE ChatInv
    BY Zenon
  <1>1. <<>> \in Seq(BlockId) /\ <<>> \in Seq(Frame) /\ IsFiniteSet({})
    BY FS_EmptySet
  <1>2. Prefix(<<>>, <<>>)
    BY Zenon, <1>1, PrefixSelf
  <1>3. shim \in [ids: Seq(BlockId), base: Root] /\ shim.ids = <<>> /\ shim.base = <<>>
    BY Zenon, <1>1 DEF ChatInit, NewShim, ROOT_ZERO, Root
  <1>4. ClientInv
    BY SMTT(60), <1>1, <1>2, <1>3 DEF ChatInit, ClientInv, Phases, Settled
  <1>5. WireInv
    BY Zenon, <1>1 DEF ChatInit, Init, WireInv, Asking
  <1> QED
    BY Zenon, <1>4, <1>5 DEF ChatInv

\* The invariant of the receiver and that of the conversation hold together,
\* for any number of threads, turns, write errors, crashes, abandoned requests
\* and restarts of the terminal.
THEOREM ChatInvariance == ChatSpec => [](IInv /\ ChatInv)
  <1>1. ChatInit => IInv /\ ChatInv
    BY Zenon, InitInv, InitChat DEF ChatInit
  <1>2. IInv /\ ChatInv /\ [ChatNext]_allVars => (IInv /\ ChatInv)'
    BY Zenon, ChatInvStep
  <1> QED
    BY <1>1, <1>2, PTL DEF ChatSpec

\* A client with nothing pending builds on its whole conversation, write errors
\* of the receiver included (ChatSession::apply_ack, sidecar/src/lib.rs:270-276).
THEOREM SettledClientsAreUpToDate == ChatSpec => []SettledBase
  <1>1. ChatInv => SettledBase
    BY Zenon DEF ChatInv, ClientInv, Unsettled, SettledBase
  <1> QED
    BY <1>1, ChatInvariance, PTL

\* send_chat never ends in UnexpectedAckRoot (sidecar/src/lib.rs:349-351): the
\* ACK of the APPEND it waits for is the root of its whole conversation.
THEOREM ChatAcksAreExpected == ChatSpec => []ChatAckExpected
  <1>1. ChatInv => ChatAckExpected
    <2> SUFFICES ASSUME ChatInv, phase = "chat", NEW r \in answer, r.kind = "Ack"
                 PROVE  r.root = root_over(prepared.base, prepared.ids) /\ Known(r.root)
      BY Zenon DEF ChatAckExpected
    <2>1. r.root = shim.ids /\ shim.ids = root_over(prepared.base, prepared.ids)
      BY Zenon DEF ChatInv, ClientInv, WireInv, Unsettled, Settled
    <2>2. shim.ids \in Seq(BlockId) /\ shim.base \in Seq(BlockId) /\ Prefix(shim.base, shim.ids)
      BY Zenon, ClientTypes DEF ChatInv, ClientInv
    <2>3. CASE shim.ids = <<>>
      <3>1. shim.base = <<>>
        BY <2>2, <2>3 DEF Prefix
      <3> QED
        BY Zenon, <2>1, <2>3, <3>1 DEF Known
    <2>4. CASE shim.ids # <<>>
      <3>1. Len(shim.ids) \in DOMAIN shim.ids /\ SubSeq(shim.ids, 1, Len(shim.ids)) = shim.ids
        BY SMTT(60), <2>2, <2>4, SubSeqFull
      <3> QED
        BY Zenon, <2>1, <3>1 DEF Known
    <2> QED
      BY Zenon, <2>1, <2>3, <2>4
  <1> QED
    BY <1>1, ChatInvariance, PTL

\* The ACKs this client acts on are durable, as long as write errors do not
\* meet concurrent handlers (sidecar/src/lib.rs:641-642).
THEOREM ChatAcksAreDurable ==
  ASSUME FaultsAlone
  PROVE  ChatSpec => []DurableAck
  <1>1. ChatInit => WalInv(Own) /\ DurableInv
    BY Zenon, InitWal DEF ChatInit, Init, DurableInv, Latched, AckInv, DurableAck
  <1>2. IInv /\ ChatInv /\ WalInv(Own) /\ DurableInv /\ [ChatNext]_allVars => (WalInv(Own) /\ DurableInv)'
    BY Zenon, ChatIsOwn, OwnApart, WalInvStep, DurableStep
  <1>3. DurableInv => DurableAck
    BY Zenon DEF DurableInv
  <1> QED
    BY <1>1, <1>2, <1>3, ChatInvariance, PTL DEF ChatSpec

-----------------------------------------------------------------------------
(***************************************************************************)
(* History.  Without write errors the file is never torn, and what is      *)
(* about to be written to it is what the memory has.                       *)
(***************************************************************************)
Follows(im, talk) == Prefix(session_ids(im, Conv), talk)

LEMMA HistoryByIndex ==
  ASSUME NEW im, NEW q \in Seq(Image), NEW talk
  PROVE  (\A jm \in {im} \cup Range(q) : Prefix(session_ids(jm, Conv), talk)) <=>
           Follows(im, talk) /\ \A n \in 1..Len(q) : Follows(q[n], talk)
  <1>1. \A jm : jm \in Range(q) <=> \E n \in 1..Len(q) : jm = q[n]
    BY DEF Range
  <1> QED
    BY ZenonT(60), <1>1 DEF Follows

LEMMA MakesFollows ==
  ASSUME IInv, IInv', ChatInv, ChatInv', Follows(mem, shim.ids), shim' = shim,
         NEW t \in Thread, Step(t), Makes(t)
  PROVE  Follows(mem', shim.ids)
  <1>1. /\ req' = req /\ pc[t] # "idle" /\ mem \in Image /\ Conv \in Session
        /\ req[t] \in Frame /\ due'[t] \in Record /\ done'[t] \in Nat
    BY Zenon, StepShape, ChatAssumption DEF IInv, TypeOK, Locked
  <1>2. PICK f, n : f = req[t] /\ n = done'[t]
    BY Zenon
  <1>3. /\ Fits(f, shim.ids) /\ f.s = Conv /\ f.base \in Seq(BlockId) /\ f.ids \in Seq(BlockId) /\ n \in Nat
        /\ shim.ids \in Seq(BlockId)
    BY Zenon, <1>1, <1>2, ClientTypes DEF ChatInv, WireInv, Fits, Frame, Root
  <1>4. CASE pc'[t] = "applyLog"
    <2>1. /\ f.kind = "Append" /\ n <= Len(f.ids)
          /\ session_ids(mem', Conv) = f.base \o SubSeq(f.ids, 1, n)
      BY Zenon, <1>1, <1>2, <1>3, <1>4 DEF IInv, AppendInv, Applying
    <2>2. Prefix(f.base \o f.ids, shim.ids)
      BY Zenon, <1>3, <2>1 DEF Fits
    <2>3. n \in 0..Len(f.ids)
      BY <1>3, <2>1
    <2>4. Prefix(f.base \o SubSeq(f.ids, 1, n), f.base \o f.ids)
      BY Zenon, <1>3, <2>3, PrefixPart
    <2>5. f.base \o SubSeq(f.ids, 1, n) \in Seq(BlockId) /\ f.base \o f.ids \in Seq(BlockId)
      BY SMTT(60), <1>3, <2>3
    <2>6. Prefix(f.base \o SubSeq(f.ids, 1, n), shim.ids)
      BY ZenonT(60), <1>3, <2>2, <2>4, <2>5, PrefixTrans
    <2> QED
      BY Zenon, <2>1, <2>6 DEF Follows
  <1>5. CASE pc'[t] = "seedLog"
    <2>1. f.kind = "Resync" /\ session_ids(mem', f.s) = f.ids
      BY Zenon, <1>1, <1>2, <1>5 DEF IInv, ThreadInv
    <2> QED
      BY Zenon, <1>3, <2>1 DEF Fits, Follows
  <1>6. CASE pc'[t] = "storeLog"
    <2>1. due'[t].variant = "CONTENT" /\ mem' = replay(mem, due'[t])
      BY Zenon, <1>6 DEF Makes
    <2>2. due'[t].ids[1] \in BlockId
      BY Zenon, <1>1, <2>1, RecordFields
    <2>3. mem' = store_content(mem, due'[t].ids[1])
      BY Zenon, <2>1 DEF replay
    <2>4. session_ids(mem', Conv) = session_ids(mem, Conv)
      BY Zenon, <1>1, <2>2, <2>3, ContentEffect
    <2> QED
      BY Zenon, <2>4 DEF Follows
  <1> QED
    BY Zenon, <1>4, <1>5, <1>6 DEF Makes, Logging

LEMMA HistoryStep ==
  ASSUME IInv, ChatInv, WalInv(Own), HistoryIsPrefix, ~torn, MaxFaults = 0, [ChatNext]_allVars
  PROVE  HistoryIsPrefix' /\ ~torn'
  <1>1. IInv' /\ ChatInv'
    BY Zenon, ChatInvStep
  <1>2. /\ disk \in Seq(Image) /\ disk' \in Seq(Image) /\ Len(disk) > 0 /\ Conv \in Session
        /\ mem \in Image /\ shim.ids \in Seq(BlockId) /\ shim'.ids \in Seq(BlockId)
    BY Zenon, <1>1, ClientTypes, ChatAssumption DEF IInv, TypeOK, ChatInv, ClientInv
  <1>3. Follows(mem, shim.ids) /\ \A n \in 1..Len(disk) : Follows(disk[n], shim.ids)
    BY ZenonT(60), <1>2, HistoryByIndex DEF HistoryIsPrefix
  <1>4. SUFFICES Follows(mem', shim'.ids) /\ (\A n \in 1..Len(disk') : Follows(disk'[n], shim'.ids)) /\ ~torn'
    BY Zenon, <1>2, HistoryByIndex DEF HistoryIsPrefix
  <1>5. CASE UNCHANGED <<mem, disk, torn, shim>>
    BY Zenon, <1>3, <1>5
  <1>6. CASE UNCHANGED allVars
    BY Zenon, <1>5, <1>6 DEF allVars, vars
  <1>7. CASE Client \/ Rebuild \/ Abandon
    <2>1. UNCHANGED <<mem, disk, torn>> /\ Prefix(shim.ids, shim'.ids)
      BY Zenon, <1>7, ClientStep DEF ChatInv, vars
    <2>2. \A im \in Image : Follows(im, shim.ids) => Follows(im, shim'.ids)
      BY Zenon, <1>2, <2>1, RootType, PrefixTrans DEF Follows
    <2>3. \A n \in 1..Len(disk) : disk[n] \in Image
      BY <1>2
    <2> QED
      BY Zenon, <1>2, <1>3, <2>1, <2>2, <2>3
  <1>8. CASE Network
    <2>1. shim' = shim
      BY Zenon, <1>8, NetworkClient DEF ChatInv
    <2>2. CASE Drop
      BY Zenon, <1>5, <2>1, <2>2 DEF Drop, vars
    <2>3. CASE Restart
      <3>1. ~torn'
        BY Zenon, <2>3, RestartGrows DEF Restart
      <3>2. PICK n \in Nat : n < Len(disk) /\ RestartFrom(n)
        BY Zenon, <2>3, RestartIdle DEF Restart
      <3>3. mem' = disk[n + 1] /\ disk' = SubSeq(disk, 1, n + 1)
        BY Zenon, <3>2 DEF RestartFrom
      <3>4. /\ n + 1 \in 1..Len(disk) /\ Len(disk') = n + 1
            /\ \A m \in 1..Len(disk') : m \in 1..Len(disk) /\ disk'[m] = disk[m]
        BY SMTT(60), <1>2, <3>2, <3>3
      <3> QED
        BY Zenon, <1>3, <2>1, <3>1, <3>3, <3>4
    <2>4. ASSUME NEW t \in Thread, Deliver(t) PROVE UNCHANGED <<mem, disk, torn>>
      BY Zenon, <2>4, HandleShape DEF Deliver, IInv
    <2>5. ASSUME NEW t \in Thread, Return(t) PROVE UNCHANGED <<mem, disk, torn>>
      BY Zenon, <2>5, RespondShape DEF Return, IInv
    <2>6. ASSUME NEW t \in Thread, Step(t)
          PROVE  Follows(mem', shim'.ids) /\ (\A n \in 1..Len(disk') : Follows(disk'[n], shim'.ids)) /\ ~torn'
      <3>1. ~torn'
        BY Zenon, <2>6, LatchStep DEF Latched
      <3>2. CASE Rests(t)
        BY Zenon, <1>5, <2>1, <3>2 DEF Rests
      <3>3. CASE Makes(t)
        <4>1. Follows(mem', shim.ids)
          BY Zenon, <1>1, <1>3, <2>1, <2>6, <3>3, MakesFollows
        <4>2. disk' = disk
          BY Zenon, <3>3 DEF Makes
        <4> QED
          BY Zenon, <1>3, <2>1, <3>1, <4>1, <4>2
      <3>4. CASE Writes(t)
        <4>1. mem' = mem /\ pc[t] \in Logging
          BY Zenon, <3>4 DEF Writes
        <4>2. PICK im \in Image : disk' = Append(disk, im) /\ im = replay(Last(disk), due[t])
          BY Zenon, <3>1, <3>4 DEF Writes
        <4>3. req[t].s = Conv
          <5>1. pc[t] # "idle"
            BY Zenon, <4>1 DEF Logging
          <5> QED
            BY Zenon, <5>1 DEF ChatInv, WireInv, Fits
        <4>4. mem.log[Conv] = im.log[Conv]
          BY Zenon, <4>1, <4>2, <4>3 DEF WalInv, InStep
        <4>5. Follows(im, shim.ids)
          BY Zenon, <1>3, <4>4 DEF Follows, session_ids
        <4>6. \A n \in 1..Len(disk') : IF n \in 1..Len(disk) THEN disk'[n] = disk[n] ELSE disk'[n] = im
          BY SMTT(60), <1>2, <4>2
        <4> QED
          BY Zenon, <1>3, <2>1, <3>1, <4>1, <4>5, <4>6
      <3> QED
        BY Zenon, <2>6, <3>2, <3>3, <3>4, StepKind
    <2> QED
      BY Zenon, <1>5, <1>8, <2>1, <2>2, <2>3, <2>4, <2>5, <2>6 DEF Network, Server
  <1> QED
    BY Zenon, <1>6, <1>7, <1>8 DEF ChatNext, Network

\* Replays, late deliveries, repairs, crashes and restarts of the terminal never
\* duplicate, reorder or invent history (docs/SIDECAR.md:83-84), as long as the
\* WAL can be written: a record that is skipped leaves a hole in the log that is
\* rebuilt from the ones behind it.
THEOREM HistoryIsTheConversation ==
  ASSUME MaxFaults = 0
  PROVE  ChatSpec => []HistoryIsPrefix
  <1>1. ChatInit => WalInv(Own) /\ HistoryIsPrefix /\ ~torn
    <2> SUFFICES ASSUME ChatInit PROVE WalInv(Own) /\ HistoryIsPrefix /\ ~torn
      BY Zenon
    <2>1. WalInv(Own) /\ ~torn
      BY Zenon, InitWal DEF ChatInit, Init
    <2>2. mem = EmptyStore /\ disk = <<EmptyStore>> /\ shim.ids = <<>> /\ Conv \in Session
      BY Zenon, ChatAssumption DEF ChatInit, Init, NewShim
    <2>3. session_ids(EmptyStore, Conv) = <<>>
      BY Zenon, <2>2 DEF session_ids, EmptyStore, NoSessionLog
    <2>4. Follows(EmptyStore, <<>>)
      <3>1. <<>> \in Seq(BlockId)
        OBVIOUS
      <3> QED
        BY Zenon, <2>3, <3>1, PrefixSelf DEF Follows
    <2>5. disk \in Seq(Image) /\ \A n \in 1..Len(disk) : disk[n] = EmptyStore
      <3>1. disk \in Seq(Image)
        BY Zenon, InitInv DEF ChatInit, IInv, TypeOK
      <3> QED
        BY SMTT(60), <2>2, <3>1
    <2>6. Follows(mem, shim.ids) /\ \A n \in 1..Len(disk) : Follows(disk[n], shim.ids)
      BY ZenonT(60), <2>2, <2>4, <2>5
    <2>7. HistoryIsPrefix
      BY Zenon, <2>5, <2>6, HistoryByIndex DEF HistoryIsPrefix
    <2> QED
      BY Zenon, <2>1, <2>7
  <1>2. IInv /\ ChatInv /\ WalInv(Own) /\ HistoryIsPrefix /\ ~torn /\ [ChatNext]_allVars
          => (WalInv(Own) /\ HistoryIsPrefix /\ ~torn)'
    BY Zenon, ChatIsOwn, OwnApart, WalInvStep, HistoryStep
  <1> QED
    BY <1>1, <1>2, ChatInvariance, PTL DEF ChatSpec
=============================================================================
