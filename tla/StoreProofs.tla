----------------------------- MODULE StoreProofs ----------------------------
(***************************************************************************)
(* What the operations of the content store (core/src/store.rs) and a      *)
(* replayed WAL record (core/src/wal.rs) do to an image.  The proofs about *)
(* the receiver and about the multi-session shim rest on these lemmas.     *)
(***************************************************************************)
EXTENDS ContentStore, Integers, FiniteSetTheorems, WellFoundedInduction, TLAPS

(***************************************************************************)
(* The store's operations keep an image an image (store.rs).               *)
(***************************************************************************)
LEMMA EmptyStoreType == EmptyStore \in Image
  BY Zenon DEF EmptyStore, Image, NoSessionLog, SessionLog

LEMMA SessionLogFields ==
  ASSUME NEW l \in SessionLog
  PROVE  l.ids \in Seq(BlockId) /\ l.root \in Seq(BlockId)
  <1>1. CASE l \in [live: {TRUE}, ids: Seq(BlockId), root: Root]
    BY Zenon, <1>1 DEF Root
  <1>2. CASE l = NoSessionLog
    BY <1>2 DEF NoSessionLog, ROOT_ZERO
  <1> QED
    BY ZenonT(60), <1>1, <1>2 DEF SessionLog

LEMMA LogAppendType ==
  ASSUME NEW im \in Image, NEW s \in Session, NEW id \in BlockId
  PROVE  LogAppend(im, s, id) \in Image
  <1>1. im.log[s].ids \in Seq(BlockId) /\ im.log[s].root \in Seq(BlockId)
    <2>1. im.log[s] \in SessionLog
      BY Zenon DEF Image
    <2> QED
      BY Zenon, <2>1, SessionLogFields
  <1>2. Append(im.log[s].ids, id) \in Seq(BlockId)
    BY <1>1
  <1>3. Append(im.log[s].root, id) \in Seq(BlockId)
    BY <1>1
  <1>4. [live |-> TRUE, ids |-> Append(im.log[s].ids, id),
         root |-> append_root(im.log[s].root, id)] \in SessionLog
    BY Zenon, <1>2, <1>3 DEF append_root, SessionLog, Root
  <1> QED
    BY ZenonT(60), <1>4 DEF LogAppend, Image

LEMMA InsertType ==
  ASSUME NEW im \in Image, NEW s \in Session, NEW id \in BlockId
  PROVE  insert_with_id(im, s, id) \in Image
  <1>1. [im EXCEPT !.blocks = @ \cup {id}] \in Image
    BY Zenon DEF Image
  <1> QED
    BY Zenon, <1>1, LogAppendType DEF insert_with_id

LEMMA ReferenceType ==
  ASSUME NEW im \in Image, NEW s \in Session, NEW id \in BlockId
  PROVE  reference(im, s, id) \in Image
  BY Zenon, LogAppendType DEF reference

LEMMA SeedType ==
  ASSUME NEW im \in Image, NEW s \in Session, NEW ids \in Seq(BlockId), NEW root \in Root
  PROVE  seed_session(im, s, ids, root) \in Image
  BY ZenonT(60) DEF seed_session, Image, SessionLog

LEMMA ContentType ==
  ASSUME NEW im \in Image, NEW id \in BlockId
  PROVE  store_content(im, id) \in Image
  BY Zenon DEF store_content, Image

LEMMA RecordFields ==
  ASSUME NEW rec \in Record
  PROVE  /\ rec.s \in Session
         /\ rec.variant \in {"INSERT", "REFERENCE", "SEED", "CONTENT"}
         /\ rec.variant # "SEED" => rec.ids[1] \in BlockId
         /\ rec.variant = "SEED" => rec.ids \in Seq(BlockId) /\ rec.root \in Root
  <1>1. CASE rec \in [variant: {"INSERT", "REFERENCE", "CONTENT"}, s: Session,
                      ids: [1..1 -> BlockId], root: {ROOT_ZERO}]
    BY <1>1
  <1>2. CASE rec \in [variant: {"SEED"}, s: Session, ids: Seq(BlockId), root: Root]
    BY Zenon, <1>2
  <1> QED
    BY Zenon, <1>1, <1>2 DEF Record

LEMMA ReplayType ==
  ASSUME NEW im \in Image, NEW rec \in Record
  PROVE  replay(im, rec) \in Image
  <1> USE RecordFields
  <1>1. CASE rec.variant = "INSERT"
    BY Zenon, <1>1, InsertType DEF replay
  <1>2. CASE rec.variant = "REFERENCE"
    BY Zenon, <1>2, ReferenceType DEF replay
  <1>3. CASE rec.variant = "SEED"
    BY Zenon, <1>3, SeedType DEF replay
  <1>4. CASE rec.variant = "CONTENT"
    BY Zenon, <1>4, ContentType DEF replay
  <1> QED
    BY Zenon, <1>1, <1>2, <1>3, <1>4

LEMMA BlockRecordType ==
  ASSUME NEW v \in {"INSERT", "REFERENCE", "CONTENT"}, NEW s \in Session, NEW id \in BlockId
  PROVE  BlockRecord(v, s, id) \in Record
  <1>1. <<id>> \in [1..1 -> BlockId]
    OBVIOUS
  <1> QED
    BY Zenon, <1>1 DEF BlockRecord, Record

LEMMA SeedRecordType ==
  ASSUME NEW s \in Session, NEW ids \in Seq(BlockId), NEW root \in Root
  PROVE  SeedRecord(s, ids, root) \in Record
  BY Zenon DEF SeedRecord, Record

LEMMA RootType ==
  ASSUME NEW im \in Image, NEW s \in Session
  PROVE  session_root(im, s) \in Root /\ session_ids(im, s) \in Seq(BlockId)
  <1>1. im.log[s] \in SessionLog
    BY Zenon DEF Image
  <1> QED
    BY Zenon, <1>1, SessionLogFields DEF session_root, session_ids, Root

LEMMA IndexType ==
  ASSUME NEW q \in Seq(BlockId), NEW n \in Nat, n + 1 <= Len(q)
  PROVE  q[n + 1] \in BlockId
  OBVIOUS

(***************************************************************************)
(* What the store's operations do to the blocks and to each log.           *)
(***************************************************************************)
LEMMA RangeAppend ==
  ASSUME NEW q \in Seq(BlockId), NEW id \in BlockId
  PROVE  Range(Append(q, id)) = Range(q) \cup {id}
  <1>1. DOMAIN Append(q, id) = (DOMAIN q) \cup {Len(q) + 1}
    OBVIOUS
  <1>2. \A i \in DOMAIN q : Append(q, id)[i] = q[i]
    OBVIOUS
  <1>3. Append(q, id)[Len(q) + 1] = id
    OBVIOUS
  <1> QED
    BY Zenon, <1>1, <1>2, <1>3 DEF Range

LEMMA LogAppendEffect ==
  ASSUME NEW im \in Image, NEW s \in Session, NEW id \in BlockId
  PROVE  LET im2 == LogAppend(im, s, id)
         IN /\ im2.blocks = im.blocks
            /\ session_ids(im2, s) = Append(session_ids(im, s), id)
            /\ session_root(im2, s) = Append(session_root(im, s), id)
            /\ \A r \in Session \ {s} : /\ session_ids(im2, r) = session_ids(im, r)
                                        /\ session_root(im2, r) = session_root(im, r)
  BY Zenon DEF LogAppend, Image, session_ids, session_root, append_root

LEMMA InsertEffect ==
  ASSUME NEW im \in Image, NEW s \in Session, NEW id \in BlockId
  PROVE  LET im2 == insert_with_id(im, s, id)
         IN /\ im2.blocks = im.blocks \cup {id}
            /\ session_ids(im2, s) = Append(session_ids(im, s), id)
            /\ session_root(im2, s) = Append(session_root(im, s), id)
            /\ \A r \in Session \ {s} : /\ session_ids(im2, r) = session_ids(im, r)
                                        /\ session_root(im2, r) = session_root(im, r)
  <1> DEFINE im1 == [im EXCEPT !.blocks = @ \cup {id}]
  <1>1. im1 \in Image /\ im1.blocks = im.blocks \cup {id} /\ im1.log = im.log
    BY Zenon DEF Image
  <1> HIDE DEF im1
  <1>2. \A r \in Session : /\ session_ids(im1, r) = session_ids(im, r)
                          /\ session_root(im1, r) = session_root(im, r)
    BY Zenon, <1>1 DEF session_ids, session_root
  <1>3. insert_with_id(im, s, id) = LogAppend(im1, s, id)
    BY Zenon DEF insert_with_id, im1
  <1> DEFINE im2 == LogAppend(im1, s, id)
  <1>4. /\ im2.blocks = im1.blocks
        /\ session_ids(im2, s) = Append(session_ids(im1, s), id)
        /\ session_root(im2, s) = Append(session_root(im1, s), id)
        /\ \A r \in Session \ {s} : /\ session_ids(im2, r) = session_ids(im1, r)
                                    /\ session_root(im2, r) = session_root(im1, r)
    BY ZenonT(60), <1>1, LogAppendEffect
  <1> HIDE DEF im2
  <1>5. insert_with_id(im, s, id) = im2
    BY Zenon, <1>3 DEF im2
  <1> QED
    BY Zenon, <1>1, <1>2, <1>4, <1>5

\* What an append does to the session's own log, and leaves of the others.
LEMMA OwnLog ==
  ASSUME NEW im \in Image, NEW s \in Session, NEW id \in BlockId
  PROVE  /\ LogAppend(im, s, id).blocks = im.blocks
         /\ session_ids(LogAppend(im, s, id), s) = Append(session_ids(im, s), id)
         /\ insert_with_id(im, s, id).blocks = im.blocks \cup {id}
         /\ session_ids(insert_with_id(im, s, id), s) = Append(session_ids(im, s), id)
  BY LogAppendEffect, InsertEffect

LEMMA OtherLogs ==
  ASSUME NEW im \in Image, NEW s \in Session, NEW id \in BlockId, NEW r \in Session \ {s}
  PROVE  /\ session_ids(LogAppend(im, s, id), r) = session_ids(im, r)
         /\ session_ids(insert_with_id(im, s, id), r) = session_ids(im, r)
  BY LogAppendEffect, InsertEffect

LEMMA SeedEffect ==
  ASSUME NEW im \in Image, NEW s \in Session, NEW ids, NEW root
  PROVE  LET im2 == seed_session(im, s, ids, root)
         IN /\ im2.blocks = im.blocks
            /\ session_ids(im2, s) = ids
            /\ session_root(im2, s) = root
            /\ \A r \in Session \ {s} : /\ session_ids(im2, r) = session_ids(im, r)
                                        /\ session_root(im2, r) = session_root(im, r)
  BY Zenon DEF seed_session, Image, session_ids, session_root

LEMMA ContentEffect ==
  ASSUME NEW im \in Image, NEW id \in BlockId
  PROVE  LET im2 == store_content(im, id)
         IN /\ im2.blocks = im.blocks \cup {id}
            /\ \A r \in Session : /\ session_ids(im2, r) = session_ids(im, r)
                                  /\ session_root(im2, r) = session_root(im, r)
  BY Zenon DEF store_content, Image, session_ids, session_root

LEMMA SoundAppend ==
  ASSUME NEW im \in Image, Sound(im), NEW s \in Session, NEW id \in BlockId
  PROVE  Sound(LogAppend(im, s, id)) /\ Sound(insert_with_id(im, s, id))
  <1>1. ASSUME NEW r \in Session
        PROVE  session_root(LogAppend(im, s, id), r) = session_ids(LogAppend(im, s, id), r)
    <2>1. CASE r = s
      BY <2>1, LogAppendEffect DEF Sound
    <2>2. CASE r # s
      BY <2>2, LogAppendEffect DEF Sound
    <2> QED
      BY Zenon, <2>1, <2>2
  <1>2. ASSUME NEW r \in Session
        PROVE  session_root(insert_with_id(im, s, id), r) = session_ids(insert_with_id(im, s, id), r)
    <2>1. CASE r = s
      BY <2>1, InsertEffect DEF Sound
    <2>2. CASE r # s
      BY <2>2, InsertEffect DEF Sound
    <2> QED
      BY Zenon, <2>1, <2>2
  <1> QED
    BY Zenon, <1>1, <1>2 DEF Sound

(***************************************************************************)
(* A replayed record keeps every root the fold over its log.               *)
(***************************************************************************)
LEMMA SoundReplay ==
  ASSUME NEW im \in Image, Sound(im), NEW rec \in Record,
         rec.variant = "SEED" => rec.root = rec.ids
  PROVE  Sound(replay(im, rec))
  <1> USE RecordFields
  <1>1. CASE rec.variant = "INSERT"
    BY Zenon, <1>1, SoundAppend DEF replay
  <1>2. CASE rec.variant = "REFERENCE"
    <2>1. replay(im, rec) = reference(im, rec.s, rec.ids[1]) /\ rec.ids[1] \in BlockId
      BY Zenon, <1>2 DEF replay
    <2>2. Sound(LogAppend(im, rec.s, rec.ids[1]))
      BY Zenon, <2>1, SoundAppend
    <2> QED
      BY Zenon, <2>1, <2>2 DEF reference
  <1>3. CASE rec.variant = "SEED"
    BY <1>3, SeedEffect DEF replay, Sound
  <1>4. CASE rec.variant = "CONTENT"
    BY Zenon, <1>4, ContentEffect DEF replay, Sound
  <1> QED
    BY Zenon, <1>1, <1>2, <1>3, <1>4

(***************************************************************************)
(* Parts of a sequence.                                                    *)
(***************************************************************************)
LEMMA SeqEqual ==
  ASSUME NEW S, NEW s \in Seq(S), NEW t \in Seq(S),
         Len(s) = Len(t), \A i \in 1..Len(s) : s[i] = t[i]
  PROVE  s = t
  <1>1. s = [i \in 1..Len(s) |-> s[i]] /\ t = [i \in 1..Len(t) |-> t[i]]
    OBVIOUS
  <1> QED
    BY Zenon, <1>1

LEMMA SubSeqFull ==
  ASSUME NEW S, NEW s \in Seq(S)
  PROVE  SubSeq(s, 1, Len(s)) = s
  OBVIOUS

LEMMA ConcatEmptySeq ==
  ASSUME NEW S, NEW s \in Seq(S)
  PROVE  s \o <<>> = s /\ <<>> \o s = s
  OBVIOUS

LEMMA IdsAssociate ==
  \A a, b, c \in Seq(BlockId) : (a \o b) \o c = a \o (b \o c)
  OBVIOUS

LEMMA AppendIsConcat ==
  ASSUME NEW S, NEW s \in Seq(S), NEW x \in S
  PROVE  Append(s, x) = s \o <<x>>
  OBVIOUS

LEMMA PartNext ==
  ASSUME NEW S, NEW a \in Seq(S), NEW b \in Seq(S), NEW n \in Nat, n + 1 <= Len(b)
  PROVE  Append(a \o SubSeq(b, 1, n), b[n + 1]) = a \o SubSeq(b, 1, n + 1)
  OBVIOUS

LEMMA PartRest ==
  ASSUME NEW S, NEW b \in Seq(S), NEW n \in 0..Len(b)
  PROVE  /\ SubSeq(b, 1, n) \in Seq(S) /\ SubSeq(b, n + 1, Len(b)) \in Seq(S)
         /\ SubSeq(b, 1, n) \o SubSeq(b, n + 1, Len(b)) = b
  <1>1. PICK d, e : d = SubSeq(b, 1, n) /\ e = SubSeq(b, n + 1, Len(b))
    BY Zenon
  <1>2. /\ d \in Seq(S) /\ e \in Seq(S) /\ Len(d) = n /\ Len(e) = Len(b) - n
        /\ \A i \in 1..n : d[i] = b[i]
        /\ \A i \in 1..(Len(b) - n) : e[i] = b[n + i]
    BY SMTT(60), <1>1
  <1>3. d \o e \in Seq(S) /\ Len(d \o e) = Len(b)
    BY SMTT(60), <1>2
  <1>4. ASSUME NEW i \in 1..Len(b) PROVE (d \o e)[i] = b[i]
    <2>1. CASE i <= n
      BY <1>2, <2>1
    <2>2. CASE ~(i <= n)
      <3>1. i - n \in 1..(Len(b) - n) /\ n + (i - n) = i
        BY <2>2
      <3>2. (d \o e)[i] = e[i - n]
        BY <1>2, <2>2, <3>1
      <3> QED
        BY Zenon, <1>2, <3>1, <3>2
    <2> QED
      BY Zenon, <2>1, <2>2
  <1>5. d \o e = b
    BY Zenon, <1>3, <1>4, SeqEqual
  <1> QED
    BY Zenon, <1>1, <1>2, <1>5

\* Among the positions in at, there is a k-th.
LEMMA KthExists ==
  ASSUME NEW n \in Nat, NEW at \in SUBSET (1..n), NEW k \in 1..Cardinality(at)
  PROVE  \E i \in at : Cardinality({j \in at : j <= i}) = k
  <1> DEFINE Upto(i) == {j \in at : j <= i}
             R == OpToRel(<, Nat)
  <1>1. \A i \in Nat : Upto(i) \in SUBSET at /\ \A j \in at : j \in Upto(i) <=> j <= i
    BY Zenon
  <1>0. at \subseteq Nat /\ \A j \in at : 0 < j /\ j <= n
    OBVIOUS
  <1>2. SUFFICES \E i \in at : Cardinality(Upto(i)) = k
    BY Zenon
  <1> HIDE DEF Upto
  <1>3. IsFiniteSet(at) /\ Cardinality(at) \in Nat
    <2>1. IsFiniteSet(1..n)
      BY FS_Interval
    <2>2. IsFiniteSet(at)
      BY Zenon, <2>1, FS_Subset
    <2> QED
      BY Zenon, <2>2, FS_CardinalityType
  <1>4. \A i \in Nat : IsFiniteSet(Upto(i)) /\ Cardinality(Upto(i)) \in Nat
    <2>1. \A i \in Nat : IsFiniteSet(Upto(i))
      BY Zenon, <1>1, <1>3, FS_Subset
    <2> QED
      BY Zenon, <2>1, FS_CardinalityType
  <1> DEFINE enough == {i \in Nat : k <= Cardinality(Upto(i))}
  <1>5. enough \in SUBSET Nat /\ n \in enough
    <2>1. Upto(n) = at
      BY Zenon, <1>0, <1>1
    <2> QED
      BY <1>3, <2>1
  <1>6. \A i, j \in Nat : <<j, i>> \notin R => i <= j
    BY DEF OpToRel
  <1>7. IsWellFoundedOn(R, Nat)
    BY ZenonT(60), NatLessThanWellFounded
  <1> HIDE DEF R, enough
  <1>8. \E i \in enough : \A j \in enough : ~ (<<j, i>> \in R)
    BY Zenon, <1>5, <1>7, WFMin
  <1>9. PICK i \in enough : \A j \in enough : i <= j
    BY ZenonT(60), <1>5, <1>6, <1>8
  <1>10. i \in Nat /\ k <= Cardinality(Upto(i))
    BY Zenon, <1>9 DEF enough
  <1>11. i # 0
    <2>1. \A j \in at : ~(j <= 0)
      BY <1>0
    <2>2. Upto(0) = {}
      BY Zenon, <1>1, <2>1
    <2> QED
      BY <1>10, <2>2, FS_EmptySet
  <1>12. i - 1 \in Nat /\ ~(k <= Cardinality(Upto(i - 1)))
    <2>1. i - 1 \in Nat /\ ~(i <= i - 1)
      BY <1>10, <1>11
    <2> QED
      BY Zenon, <1>9, <2>1 DEF enough
  <1>13. i \in at
    <2>1. \A j \in at : i # j => (j <= i <=> j <= i - 1)
      BY <1>0, <1>10
    <2>2. i \notin at => Upto(i) = Upto(i - 1)
      BY Zenon, <1>1, <1>10, <1>12, <2>1
    <2> QED
      BY Zenon, <1>10, <1>12, <2>2
  <1>14. Upto(i) = Upto(i - 1) \cup {i} /\ i \notin Upto(i - 1)
    <2>1. \A j \in at : (j <= i <=> j <= i - 1 \/ i = j) /\ ~(i <= i - 1)
      BY <1>0, <1>10
    <2> QED
      BY Zenon, <1>1, <1>10, <1>12, <1>13, <2>1
  <1>15. Cardinality(Upto(i)) = Cardinality(Upto(i - 1)) + 1
    BY Zenon, <1>4, <1>10, <1>12, <1>14, FS_AddElement
  <1>16. Cardinality(Upto(i)) = k
    <2>1. Cardinality(Upto(i - 1)) \in Nat
      BY Zenon, <1>4, <1>12
    <2> QED
      BY <1>3, <1>10, <1>12, <1>15, <2>1
  <1> QED
    BY Zenon, <1>13, <1>16

\* Select returns elements of its argument, from the positions it is given.
LEMMA SelectType ==
  ASSUME NEW S, NEW q \in Seq(S), NEW keep \in SUBSET DOMAIN q
  PROVE  /\ Select(q, keep) \in Seq(S)
         /\ \A x \in Range(Select(q, keep)) : \E i \in keep : x = q[i]
  <1> DEFINE Kth(k) == CHOOSE i \in keep : Cardinality({j \in keep : j <= i}) = k
             N == Cardinality(keep)
  <1>1. /\ Len(q) \in Nat /\ keep \in SUBSET (1..Len(q))
        /\ \A i \in 1..Len(q) : q[i] \in S
    OBVIOUS
  <1>2. Select(q, keep) = [k \in 1..N |-> q[Kth(k)]]
    BY Zenon DEF Select
  <1>3. N \in Nat
    <2>1. IsFiniteSet(1..Len(q))
      BY <1>1, FS_Interval
    <2>2. IsFiniteSet(keep)
      BY Zenon, <1>1, <2>1, FS_Subset
    <2> QED
      BY Zenon, <2>2, FS_CardinalityType
  <1>4. ASSUME NEW k \in 1..N PROVE Kth(k) \in keep
    <2>1. \E i \in keep : Cardinality({j \in keep : j <= i}) = k
      BY Zenon, <1>1, KthExists
    <2> QED
      BY Zenon, <2>1
  <1> HIDE DEF Kth, N
  <1>5. \A k \in 1..N : q[Kth(k)] \in S
    BY Zenon, <1>1, <1>4
  <1>6. ASSUME NEW x \in Range(Select(q, keep)) PROVE \E i \in keep : x = q[i]
    <2>1. PICK k \in 1..N : x = q[Kth(k)]
      BY Zenon, <1>2, <1>6 DEF Range
    <2> QED
      BY Zenon, <1>4, <2>1
  <1> QED
    BY <1>2, <1>3, <1>5, <1>6

\* It leaves a sequence alone that it is to keep all of.
LEMMA SelectAll ==
  ASSUME NEW S, NEW q \in Seq(S)
  PROVE  Select(q, DOMAIN q) = q
  <1>1. PICK n \in Nat : n = Len(q) /\ DOMAIN q = 1..n
    OBVIOUS
  <1>2. ASSUME NEW i \in 1..n PROVE Cardinality({j \in 1..n : j <= i}) = i
    <2>1. {j \in 1..n : j <= i} = 1..i
      OBVIOUS
    <2>2. Cardinality(1..i) = i
      BY FS_Interval
    <2> QED
      BY Zenon, <2>1, <2>2
  <1>3. Cardinality(1..n) = n
    BY FS_Interval
  <1>4. \A k \in 1..n : (CHOOSE i \in 1..n : Cardinality({j \in 1..n : j <= i}) = k) = k
    BY Zenon, <1>2
  <1>5. Select(q, 1..n) = [k \in 1..n |-> q[k]]
    <2> DEFINE Kth(k) == CHOOSE i \in 1..n : Cardinality({j \in 1..n : j <= i}) = k
    <2>1. Select(q, 1..n) = [k \in 1..Cardinality(1..n) |-> q[Kth(k)]]
      BY Zenon DEF Select
    <2>2. \A k \in 1..n : Kth(k) = k
      BY Zenon, <1>4
    <2> HIDE DEF Kth
    <2> QED
      BY Zenon, <1>3, <2>1, <2>2
  <1>6. q = [k \in 1..n |-> q[k]]
    BY <1>1
  <1> QED
    BY Zenon, <1>1, <1>5, <1>6

\* Of a sequence without repetition, Select returns one: the elements at the
\* positions it is given.
LEMMA SelectEffect ==
  ASSUME NEW S, NEW q \in Seq(S), NEW keep \in SUBSET DOMAIN q
  PROVE  /\ IsFiniteSet(keep) /\ Len(Select(q, keep)) = Cardinality(keep)
         /\ Range(Select(q, keep)) = {q[i] : i \in keep}
         /\ IsInjective(q) => IsInjective(Select(q, keep))
  <1> DEFINE Upto(i) == {j \in keep : j <= i}
             Kth(k) == CHOOSE i \in keep : Cardinality(Upto(i)) = k
             N == Cardinality(keep)
  <1>1. Len(q) \in Nat /\ keep \in SUBSET (1..Len(q)) /\ keep \subseteq Nat
    OBVIOUS
  <1>2. Select(q, keep) = [k \in 1..N |-> q[Kth(k)]]
    BY Zenon DEF Select
  <1>3. IsFiniteSet(keep) /\ N \in Nat
    <2>1. IsFiniteSet(1..Len(q))
      BY <1>1, FS_Interval
    <2>2. IsFiniteSet(keep)
      BY Zenon, <1>1, <2>1, FS_Subset
    <2> QED
      BY Zenon, <2>2, FS_CardinalityType
  <1>4. ASSUME NEW k \in 1..N PROVE Kth(k) \in keep /\ Cardinality(Upto(Kth(k))) = k
    <2>1. \E i \in keep : Cardinality(Upto(i)) = k
      BY Zenon, <1>1, KthExists
    <2> QED
      BY Zenon, <2>1
  <1>5. \A i \in keep : IsFiniteSet(Upto(i)) /\ Cardinality(Upto(i)) \in Nat
    <2>1. \A i \in keep : IsFiniteSet(Upto(i))
      BY Zenon, <1>3, FS_Subset
    <2> QED
      BY Zenon, <2>1, FS_CardinalityType
  <1>6. ASSUME NEW i \in keep PROVE Cardinality(Upto(i)) \in 1..N
    <2>1. i \in Upto(i)
      BY <1>1
    <2>2. Cardinality(Upto(i)) # 0
      BY Zenon, <1>5, <2>1, FS_EmptySet
    <2>3. Cardinality(Upto(i)) <= N
      BY Zenon, <1>3, FS_Subset
    <2>4. Cardinality(Upto(i)) \in Nat
      BY Zenon, <1>5
    <2> HIDE DEF Upto, N
    <2> QED
      BY <1>3, <2>2, <2>3, <2>4
  <1>7. ASSUME NEW i \in keep, NEW j \in keep, i <= j, Cardinality(Upto(i)) = Cardinality(Upto(j))
        PROVE  i = j
    <2>1. Upto(i) \subseteq Upto(j) /\ j \in Upto(j)
      BY <1>1, <1>7
    <2>2. Upto(i) = Upto(j)
      BY Zenon, <1>5, <1>7, <2>1, FS_Subset
    <2>3. j <= i
      BY Zenon, <2>1, <2>2
    <2> QED
      BY <1>1, <1>7, <2>3
  <1>8. ASSUME NEW i \in keep PROVE Kth(Cardinality(Upto(i))) = i
    <2>1. PICK j \in keep : j = Kth(Cardinality(Upto(i))) /\ Cardinality(Upto(j)) = Cardinality(Upto(i))
      BY Zenon, <1>4, <1>6
    <2>2. i <= j \/ j <= i
      BY <1>1
    <2> QED
      BY Zenon, <1>7, <2>1, <2>2
  <1>9. \A k, l \in 1..N : Kth(k) = Kth(l) => k = l
    BY Zenon, <1>4
  <1> HIDE DEF Upto, Kth, N
  <1>10. DOMAIN Select(q, keep) = 1..N /\ \A k \in 1..N : Select(q, keep)[k] = q[Kth(k)]
    BY Zenon, <1>2
  <1>11. Range(Select(q, keep)) = {q[i] : i \in keep}
    <2>1. \A x \in Range(Select(q, keep)) : \E k \in 1..N : x = q[Kth(k)]
      BY Zenon, <1>10 DEF Range
    <2>2. \A x \in Range(Select(q, keep)) : x \in {q[i] : i \in keep}
      BY Zenon, <1>4, <2>1
    <2>3. ASSUME NEW i \in keep PROVE q[i] \in Range(Select(q, keep))
      <3>1. PICK k \in 1..N : Kth(k) = i
        BY Zenon, <1>6, <1>8
      <3>2. Select(q, keep)[k] = q[i] /\ k \in DOMAIN Select(q, keep)
        BY Zenon, <1>10, <3>1
      <3> QED
        BY Zenon, <3>2 DEF Range
    <2> QED
      BY Zenon, <2>2, <2>3
  <1>12. Len(Select(q, keep)) = N
    BY <1>2, <1>3
  <1>13. ASSUME IsInjective(q) PROVE IsInjective(Select(q, keep))
    <2>1. ASSUME NEW k \in 1..N, NEW l \in 1..N, q[Kth(k)] = q[Kth(l)] PROVE k = l
      BY Zenon, <1>1, <1>4, <1>9, <1>13, <2>1 DEF IsInjective
    <2> QED
      BY Zenon, <1>10, <2>1 DEF IsInjective
  <1> QED
    BY Zenon, <1>3, <1>11, <1>12, <1>13 DEF N

-----------------------------------------------------------------------------
(***************************************************************************)
(* Induction by least counterexamples, and sums over finite sets.          *)
(***************************************************************************)
LEMMA LeastNat ==
  ASSUME NEW T \in SUBSET Nat, T # {}
  PROVE  \E x \in T : \A y \in T : x <= y
  <1>1. \E x \in T : \A y \in T : ~ (<<y, x>> \in OpToRel(<, Nat))
    BY Zenon, WFMin, NatLessThanWellFounded
  <1>2. OpToRel(<, Nat) = {ss \in Nat \X Nat : ss[1] < ss[2]}
    BY Zenon DEF OpToRel
  <1>3. \A x, y \in Nat : <<y, x>> \in {ss \in Nat \X Nat : ss[1] < ss[2]} <=> y < x
    OBVIOUS
  <1>4. \A x, y \in Nat : ~(y < x) => x <= y
    OBVIOUS
  <1>5. PICK x \in T : \A y \in T : ~ (<<y, x>> \in OpToRel(<, Nat))
    BY <1>1
  <1>6. \A y \in T : x <= y
    BY Zenon, <1>2, <1>3, <1>4, <1>5
  <1> QED
    BY <1>6

SomeOf(s) == CHOOSE x \in s : TRUE

Iterates(iter, w, S) ==
  iter = [s \in SUBSET S |-> IF s = {} THEN 0 ELSE w[SomeOf(s)] + iter[s \ {SomeOf(s)}]]

LEMMA SumIs ==
  ASSUME NEW w, NEW S
  PROVE  SumFunctionOnSet(w, S) = (CHOOSE iter : Iterates(iter, w, S))[S]
  BY Zenon DEF SumFunctionOnSet, FoldFunctionOnSet, MapThenFoldSet, Iterates, SomeOf

\* The subsets of S of up to n elements.
PartsUpTo(S, n) == {s \in SUBSET S : Cardinality(s) <= n}

LEMMA PickIn == \A s : s # {} => SomeOf(s) \in s
  BY Zenon DEF SomeOf

LEMMA LessOne ==
  ASSUME NEW s, IsFiniteSet(s), s # {}, NEW x \in s
  PROVE  /\ IsFiniteSet(s \ {x}) /\ Cardinality(s \ {x}) = Cardinality(s) - 1
         /\ Cardinality(s) \in Nat /\ Cardinality(s \ {x}) \in Nat /\ Cardinality(s) > 0
  <1>1. IsFiniteSet(s \ {x}) /\ Cardinality(s \ {x}) = Cardinality(s) - 1
    BY Zenon, FS_RemoveElement
  <1>2. Cardinality(s) \in Nat /\ Cardinality(s \ {x}) \in Nat
    BY Zenon, <1>1, FS_CardinalityType
  <1> QED
    BY <1>1, <1>2

LEMMA SumExists ==
  ASSUME NEW w, NEW S, IsFiniteSet(S)
  PROVE  \E iter : Iterates(iter, w, S)
  <1> DEFINE Value(g, s) == IF s = {} THEN 0 ELSE w[SomeOf(s)] + g[s \ {SomeOf(s)}]
             Good(n) == \E g : g = [s \in PartsUpTo(S, n) |-> Value(g, s)]
             Bad == {n \in Nat : ~Good(n)}
  <1>0. \A s \in SUBSET S : IsFiniteSet(s) /\ Cardinality(s) \in Nat
    BY Zenon, FS_Subset, FS_CardinalityType
  <1>1. Good(0)
    <2>1. \A s \in PartsUpTo(S, 0) : s = {}
      <3>1. \A s \in PartsUpTo(S, 0) : s \in SUBSET S /\ Cardinality(s) <= 0
        BY Zenon DEF PartsUpTo
      <3>2. \A s \in PartsUpTo(S, 0) : Cardinality(s) = 0
        BY <1>0, <3>1
      <3> QED
        BY Zenon, <1>0, <3>1, <3>2, FS_EmptySet
    <2>2. PICK g : g = [s \in PartsUpTo(S, 0) |-> 0]
      BY Zenon
    <2> QED
      BY Zenon, <2>1, <2>2
  <1>2. ASSUME NEW n \in Nat, Good(n) PROVE Good(n + 1)
    <2>1. PICK g : g = [s \in PartsUpTo(S, n) |-> Value(g, s)]
      BY Zenon, <1>2
    <2>2. PICK h : h = [s \in PartsUpTo(S, n + 1) |-> Value(g, s)]
      BY Zenon
    <2>3. ASSUME NEW s \in PartsUpTo(S, n + 1), s # {}
          PROVE  s \ {SomeOf(s)} \in PartsUpTo(S, n) /\ s \ {SomeOf(s)} \in PartsUpTo(S, n + 1)
      <3>1. s \in SUBSET S /\ Cardinality(s) <= n + 1 /\ SomeOf(s) \in s
        BY Zenon, <2>3, PickIn DEF PartsUpTo
      <3>2. Cardinality(s \ {SomeOf(s)}) = Cardinality(s) - 1 /\ Cardinality(s) \in Nat
        BY Zenon, <1>0, <2>3, <3>1, LessOne
      <3>3. Cardinality(s \ {SomeOf(s)}) <= n /\ Cardinality(s \ {SomeOf(s)}) <= n + 1
        BY <3>1, <3>2
      <3>4. s \ {SomeOf(s)} \in SUBSET S
        BY Zenon, <3>1
      <3> QED
        BY Zenon, <3>3, <3>4 DEF PartsUpTo
    <2>4. \A s \in PartsUpTo(S, n) : s \in PartsUpTo(S, n + 1)
      <3>1. \A s \in SUBSET S : Cardinality(s) <= n => Cardinality(s) <= n + 1
        BY <1>0
      <3> QED
        BY Zenon, <3>1 DEF PartsUpTo
    <2>5. \A s \in PartsUpTo(S, n) : h[s] = g[s]
      BY Zenon, <2>1, <2>2, <2>4
    <2>6. \A s \in PartsUpTo(S, n + 1) : Value(g, s) = Value(h, s)
      BY Zenon, <2>3, <2>5
    <2> QED
      BY Zenon, <2>2, <2>6
  <1> HIDE DEF Good
  <1>3. Bad = {}
    <2> SUFFICES ASSUME Bad # {} PROVE FALSE
      BY Zenon
    <2>1. PICK n \in Bad : \A m \in Bad : n <= m
      <3>1. Bad \in SUBSET Nat
        BY Zenon
      <3> QED
        BY Zenon, <3>1, LeastNat
    <2>2. n \in Nat /\ ~Good(n)
      BY Zenon
    <2>3. n # 0
      BY Zenon, <1>1, <2>2
    <2>4. PICK m \in Nat : n = m + 1 /\ ~(n <= m)
      BY <2>2, <2>3
    <2>5. Good(m)
      BY Zenon, <2>1, <2>4
    <2> QED
      BY Zenon, <1>2, <2>2, <2>4, <2>5
  <1>4. Cardinality(S) \in Nat /\ Good(Cardinality(S))
    BY Zenon, <1>3, FS_CardinalityType
  <1>5. PartsUpTo(S, Cardinality(S)) = SUBSET S
    <2>1. \A s \in SUBSET S : Cardinality(s) <= Cardinality(S)
      BY Zenon, FS_Subset
    <2> QED
      BY Zenon, <2>1 DEF PartsUpTo
  <1> QED
    BY Zenon, <1>4, <1>5 DEF Good, Iterates

\* Induction on the size of a finite set: from a set that has the property,
\* less one element, to the set.
LEMMA SmallestSet ==
  ASSUME NEW S, IsFiniteSet(S), NEW B \in SUBSET SUBSET S, B # {}
  PROVE  \E s \in B : /\ IsFiniteSet(s)
                      /\ \A x \in s : s \ {x} \notin B
  <1> DEFINE N == {Cardinality(s) : s \in B}
  <1>0. \A s \in B : IsFiniteSet(s) /\ Cardinality(s) \in Nat
    BY Zenon, FS_Subset, FS_CardinalityType
  <1>1. N \in SUBSET Nat /\ N # {}
    BY Zenon, <1>0
  <1>2. PICK n \in N : \A m \in N : n <= m
    BY Zenon, <1>1, LeastNat
  <1>3. PICK s \in B : n = Cardinality(s)
    BY Zenon
  <1>4. ASSUME NEW x \in s, s \ {x} \in B PROVE FALSE
    <2>1. Cardinality(s \ {x}) = Cardinality(s) - 1 /\ Cardinality(s) \in Nat
      BY Zenon, <1>0, <1>4, LessOne
    <2>2. Cardinality(s) <= Cardinality(s \ {x})
      BY Zenon, <1>2, <1>3, <1>4
    <2> QED
      BY <2>1, <2>2
  <1> QED
    BY Zenon, <1>0, <1>4

\* The sum of the values of w on S, with any element set apart.
LEMMA SumEmpty == \A w : SumFunctionOnSet(w, {}) = 0
  <1>1. ASSUME NEW w PROVE SumFunctionOnSet(w, {}) = 0
    <2>1. PICK iter : Iterates(iter, w, {}) /\ SumFunctionOnSet(w, {}) = iter[{}]
      BY Zenon, SumIs, SumExists, FS_EmptySet
    <2> QED
      BY Zenon, <2>1 DEF Iterates
  <1> QED
    BY Zenon, <1>1

LEMMA SumPart ==
  ASSUME NEW w, NEW S, IsFiniteSet(S), NEW iter, Iterates(iter, w, S)
  PROVE  \A T : T \subseteq S => iter[T] = SumFunctionOnSet(w, T)
  <1> SUFFICES ASSUME NEW T \in SUBSET S PROVE iter[T] = SumFunctionOnSet(w, T)
    BY Zenon
  <1>1. IsFiniteSet(T)
    BY Zenon, FS_Subset
  <1>2. PICK it : Iterates(it, w, T) /\ SumFunctionOnSet(w, T) = it[T]
    BY Zenon, <1>1, SumIs, SumExists
  <1> DEFINE B == {s \in SUBSET T : iter[s] # it[s]}
  <1>3. B = {}
    <2> SUFFICES ASSUME B # {} PROVE FALSE
      BY Zenon
    <2>1. PICK s \in B : \A x \in s : s \ {x} \notin B
      BY Zenon, <1>1, SmallestSet
    <2>2. s \in SUBSET T /\ s \in SUBSET S
      BY Zenon
    <2>3. CASE s = {}
      BY Zenon, <1>2, <2>2, <2>3 DEF Iterates
    <2>4. CASE s # {}
      <3>1. SomeOf(s) \in s /\ s \ {SomeOf(s)} \in SUBSET T
        BY Zenon, <2>2, <2>4, PickIn
      <3>2. iter[s \ {SomeOf(s)}] = it[s \ {SomeOf(s)}]
        BY Zenon, <2>1, <3>1
      <3> QED
        BY Zenon, <1>2, <2>2, <2>4, <3>2 DEF Iterates
    <2> QED
      BY Zenon, <2>3, <2>4
  <1> QED
    BY Zenon, <1>2, <1>3

LEMMA SumWhole ==
  ASSUME NEW w, NEW S, IsFiniteSet(S), NEW iter, Iterates(iter, w, S)
  PROVE  iter[S] = SumFunctionOnSet(w, S)
  <1>1. S \subseteq S
    BY Zenon
  <1> QED
    BY Zenon, <1>1, SumPart

LEMMA SumPick ==
  ASSUME NEW w, NEW S, IsFiniteSet(S), S # {}
  PROVE  SumFunctionOnSet(w, S) = w[SomeOf(S)] + SumFunctionOnSet(w, S \ {SomeOf(S)})
  <1>1. PICK iter : Iterates(iter, w, S)
    BY Zenon, SumExists
  <1>2. \A T : T \subseteq S => iter[T] = SumFunctionOnSet(w, T)
    BY Zenon, <1>1, SumPart
  <1>3. iter[S] = SumFunctionOnSet(w, S) /\ iter[S \ {SomeOf(S)}] = SumFunctionOnSet(w, S \ {SomeOf(S)})
    BY Zenon, <1>2
  <1>4. iter[S] = w[SomeOf(S)] + iter[S \ {SomeOf(S)}]
    BY Zenon, <1>1 DEF Iterates
  <1> QED
    BY Zenon, <1>3, <1>4

LEMMA SumNat ==
  ASSUME NEW S, IsFiniteSet(S), NEW w, \A x \in S : w[x] \in Nat, NEW T \in SUBSET S
  PROVE  SumFunctionOnSet(w, T) \in Nat
  <1> DEFINE B == {s \in SUBSET S : SumFunctionOnSet(w, s) \notin Nat}
  <1>1. B = {}
    <2> SUFFICES ASSUME B # {} PROVE FALSE
      BY Zenon
    <2>1. PICK s \in B : IsFiniteSet(s) /\ \A x \in s : s \ {x} \notin B
      BY Zenon, SmallestSet
    <2>2. CASE s = {}
      BY <2>2, SumEmpty
    <2>3. CASE s # {}
      <3>1. SomeOf(s) \in s /\ s \ {SomeOf(s)} \in SUBSET S /\ w[SomeOf(s)] \in Nat
        BY Zenon, <2>3, PickIn
      <3>2. SumFunctionOnSet(w, s \ {SomeOf(s)}) \in Nat
        BY Zenon, <2>1, <3>1
      <3>3. SumFunctionOnSet(w, s) = w[SomeOf(s)] + SumFunctionOnSet(w, s \ {SomeOf(s)})
        BY Zenon, <2>1, <2>3, SumPick
      <3>4. SumFunctionOnSet(w, s) \in Nat
        BY <3>1, <3>2, <3>3
      <3> QED
        BY Zenon, <3>4
    <2> QED
      BY Zenon, <2>2, <2>3
  <1> QED
    BY Zenon, <1>1

LEMMA SumSplit ==
  ASSUME NEW S, IsFiniteSet(S), NEW w, \A x \in S : w[x] \in Nat, NEW y \in S
  PROVE  SumFunctionOnSet(w, S) = w[y] + SumFunctionOnSet(w, S \ {y})
  <1> DEFINE Sum(s) == SumFunctionOnSet(w, s)
             B == {s \in SUBSET S : \E x \in s : Sum(s) # w[x] + Sum(s \ {x})}
  <1>0. \A s \in SUBSET S : Sum(s) \in Nat
    BY Zenon, SumNat
  <1>1. B = {}
    <2> SUFFICES ASSUME B # {} PROVE FALSE
      BY Zenon
    <2>1. PICK s \in B : IsFiniteSet(s) /\ \A x \in s : s \ {x} \notin B
      BY Zenon, SmallestSet
    <2>2. PICK x \in s : Sum(s) # w[x] + Sum(s \ {x})
      BY Zenon
    <2>3. PICK p : p = SomeOf(s) /\ p \in s
      BY Zenon, PickIn
    <2>4. Sum(s) = w[p] + Sum(s \ {p})
      BY Zenon, <2>1, <2>3, SumPick
    <2>5. p # x
      BY Zenon, <2>2, <2>4
    <2>6. s \ {p} \in SUBSET S /\ s \ {x} \in SUBSET S /\ (s \ {p}) \ {x} = (s \ {x}) \ {p}
      BY Zenon
    <2>7. Sum(s \ {p}) = w[x] + Sum((s \ {p}) \ {x})
      BY Zenon, <2>1, <2>3, <2>5, <2>6
    <2>8. Sum(s \ {x}) = w[p] + Sum((s \ {x}) \ {p})
      BY Zenon, <2>1, <2>3, <2>5, <2>6
    <2>9. PICK c \in Nat : c = Sum((s \ {p}) \ {x})
      BY Zenon, <1>0, <2>6
    <2>10. w[p] \in Nat /\ w[x] \in Nat
      BY Zenon, <2>3
    <2>11. Sum(s) = w[p] + (w[x] + c) /\ Sum(s \ {x}) = w[p] + c
      BY Zenon, <2>4, <2>6, <2>7, <2>8, <2>9
    <2> HIDE DEF Sum
    <2> QED
      BY <2>2, <2>10, <2>11
  <1> QED
    BY Zenon, <1>1

LEMMA SumSame ==
  ASSUME NEW S, IsFiniteSet(S), NEW w, NEW v, \A x \in S : w[x] = v[x]
  PROVE  SumFunctionOnSet(w, S) = SumFunctionOnSet(v, S)
  <1>1. PICK iter : Iterates(iter, w, S)
    BY Zenon, SumExists
  <1>2. Iterates(iter, v, S)
    <2>1. \A s \in SUBSET S : s # {} => w[SomeOf(s)] = v[SomeOf(s)]
      BY Zenon, PickIn
    <2>2. \A s \in SUBSET S : (IF s = {} THEN 0 ELSE w[SomeOf(s)] + iter[s \ {SomeOf(s)}])
                            = (IF s = {} THEN 0 ELSE v[SomeOf(s)] + iter[s \ {SomeOf(s)}])
      BY Zenon, <2>1
    <2> QED
      BY Zenon, <1>1, <2>2 DEF Iterates
  <1>3. iter[S] = SumFunctionOnSet(w, S)
    BY Zenon, <1>1, SumWhole
  <1>4. iter[S] = SumFunctionOnSet(v, S)
    BY Zenon, <1>2, SumWhole
  <1> QED
    BY Zenon, <1>3, <1>4
\* A sum is the sum over a part and the sum over the rest.
LEMMA SumParts ==
  ASSUME NEW S, IsFiniteSet(S), NEW w, \A x \in S : w[x] \in Nat, NEW T \in SUBSET S
  PROVE  SumFunctionOnSet(w, S) = SumFunctionOnSet(w, T) + SumFunctionOnSet(w, S \ T)
  <1> DEFINE Sum(s) == SumFunctionOnSet(w, s)
             B == {s \in SUBSET S : Sum(S) # Sum(s) + Sum(S \ s)}
  <1>0. \A s \in SUBSET S : Sum(s) \in Nat /\ IsFiniteSet(s)
    BY Zenon, SumNat, FS_Subset
  <1>1. B = {}
    <2> SUFFICES ASSUME B # {} PROVE FALSE
      BY Zenon
    <2>1. PICK s \in B : \A x \in s : s \ {x} \notin B
      BY Zenon, SmallestSet
    <2>2. s \in SUBSET S /\ Sum(S) # Sum(s) + Sum(S \ s)
      BY Zenon
    <2>3. CASE s = {}
      <3>1. Sum(s) = 0 /\ S \ s = S /\ Sum(S) \in Nat
        BY Zenon, <1>0, <2>3, SumEmpty
      <3> HIDE DEF Sum
      <3> QED
        BY <2>2, <3>1
    <2>4. CASE s # {}
      <3>1. PICK x \in s : TRUE
        BY Zenon, <2>4
      <3>2. PICK r : r = s \ {x} /\ r \in SUBSET S
        BY Zenon, <2>2
      <3>3. Sum(S) = Sum(r) + Sum(S \ r)
        BY Zenon, <2>1, <3>2
      <3>4. Sum(s) = w[x] + Sum(r)
        BY Zenon, <1>0, <2>2, <3>2, SumSplit
      <3>5. x \in S \ r /\ (S \ r) \ {x} = S \ s /\ S \ r \in SUBSET S /\ x \in S
        BY Zenon, <2>2, <3>2
      <3>6. Sum(S \ r) = w[x] + Sum((S \ r) \ {x})
        BY Zenon, <1>0, <3>5, SumSplit
      <3>7. /\ Sum(r) \in Nat /\ w[x] \in Nat /\ Sum(S \ s) \in Nat
        BY Zenon, <1>0, <2>2, <3>2, <3>5
      <3>8. Sum(S \ r) = w[x] + Sum(S \ s)
        BY Zenon, <3>5, <3>6
      <3> HIDE DEF Sum
      <3> QED
        BY <2>2, <3>3, <3>4, <3>7, <3>8
    <2> QED
      BY Zenon, <2>3, <2>4
  <1> QED
    BY Zenon, <1>1
=============================================================================
