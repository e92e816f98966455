----------------------------- MODULE PruneProofs ----------------------------
(***************************************************************************)
(* The maintained prune window of a session, the golden-ratio ring and     *)
(* the contexts the compressor caches, for any sets of blocks, budgets,    *)
(* references and nodes and any bounds.                                    *)
(***************************************************************************)
EXTENDS StoreProofs, IncrementalPrune, GoldenRing, Compressor

\* The backend of every step that names no other.
USE ZenonT(60)

-----------------------------------------------------------------------------
(***************************************************************************)
(* Compressor.  The contexts a thread caches belong to the dictionary their *)
(* key names, so that what one thread compresses another decompresses.     *)
(***************************************************************************)
LEMMA DictIdsDiffer ==
  ASSUME NEW r \in Dicts, NEW q \in Dicts, DictOf(r).id = DictOf(q).id
  PROVE  r = q
  BY SMTT(60), CompressorBlocks DEF DictOf, Dicts, ref_dict_id

LEMMA EncoderFits ==
  ASSUME CompInv, NEW t \in Thread, NEW r \in Dicts, NEW l \in Level
  PROVE  \E k \in Level : Encoder(t, DictOf(r), l) = {[level |-> k, id |-> DictOf(r).id, dict |-> r]}
  <1>1. DictOf(r).content = r
    BY SMTT(60) DEF DictOf
  <1>2. CASE \E c \in enc[t] : c.level = l /\ c.id = DictOf(r).id
    <2>1. PICK k \in Level, q \in Dicts : enc[t] = {[level |-> k, id |-> DictOf(q).id, dict |-> q]}
      BY SMTT(60), <1>2 DEF CompInv
    <2>2. DictOf(q).id = DictOf(r).id
      BY SMTT(60), <1>2, <2>1
    <2>3. q = r
      BY SMTT(60), <2>2, DictIdsDiffer
    <2> QED
      BY SMTT(60), <1>2, <2>1, <2>3 DEF Encoder
  <1>3. CASE ~\E c \in enc[t] : c.level = l /\ c.id = DictOf(r).id
    BY SMTT(60), <1>1, <1>3 DEF Encoder
  <1> QED
    BY SMTT(60), <1>2, <1>3

LEMMA DecoderFits ==
  ASSUME CompInv, NEW t \in Thread, NEW r \in Dicts
  PROVE  Decoder(t, DictOf(r)) = {[id |-> DictOf(r).id, dict |-> r]}
  <1>1. DictOf(r).content = r
    BY SMTT(60) DEF DictOf
  <1>2. CASE \E c \in dec[t] : c.id = DictOf(r).id
    <2>1. PICK q \in Dicts : dec[t] = {[id |-> DictOf(q).id, dict |-> q]}
      BY SMTT(60), <1>2 DEF CompInv
    <2>2. DictOf(q).id = DictOf(r).id
      BY SMTT(60), <1>2, <2>1
    <2>3. q = r
      BY SMTT(60), <2>2, DictIdsDiffer
    <2> QED
      BY SMTT(60), <1>2, <2>1, <2>3 DEF Decoder
  <1>3. CASE ~\E c \in dec[t] : c.id = DictOf(r).id
    BY SMTT(60), <1>1, <1>3 DEF Decoder
  <1> QED
    BY SMTT(60), <1>2, <1>3

THEOREM CompInvariance == CompSpec => []CompInv
  <1>1. CompInit => CompInv
    BY SMTT(60) DEF CompInit, CompInv
  <1>2. CompInv /\ [CompNext]_compVars => CompInv'
    <2> SUFFICES ASSUME CompInv, [CompNext]_compVars PROVE CompInv'
      BY SMTT(60)
    <2>1. ASSUME NEW t \in Thread, NEW r \in Dicts, NEW l \in Level,
                 NEW b \in Tiny \cup Large, NEW s \in BOOLEAN, Compress(t, r, l, b, s)
          PROVE  CompInv'
      <3>1. PICK k \in Level : Encoder(t, DictOf(r), l) = {[level |-> k, id |-> DictOf(r).id, dict |-> r]}
        BY SMTT(60), EncoderFits
      <3>2. (CHOOSE c \in Encoder(t, DictOf(r), l) : TRUE) = [level |-> k, id |-> DictOf(r).id, dict |-> r]
        BY SMTT(60), <3>1
      <3>3. blobs' = blobs \cup {[reference |-> r, block |-> b,
                              marker |-> IF b \in Tiny \/ ~s THEN 0 ELSE 1,
                              body |-> IF b \in Tiny \/ ~s THEN <<"raw", b>> ELSE ZstdFrame(r, b)]}
        BY SMTT(60), <2>1, <3>2 DEF Compress
      <3>4. enc' = enc \/ enc' = [enc EXCEPT ![t] = {[level |-> k, id |-> DictOf(r).id, dict |-> r]}]
        BY SMTT(60), <2>1, <3>1 DEF Compress
      <3>5. dec' = dec
        BY SMTT(60), <2>1 DEF Compress
      <3> QED
        BY SMTT(60), <3>3, <3>4, <3>5 DEF CompInv
    <2>2. ASSUME NEW t \in Thread, NEW r \in Dicts, NEW b \in blobs, Decompress(t, r, b)
          PROVE  CompInv'
      BY SMTT(60), <2>2, DecoderFits DEF CompInv, Decompress
    <2>3. CASE UNCHANGED compVars
      BY SMTT(60), <2>3 DEF CompInv, compVars
    <2> QED
      BY SMTT(60), <2>1, <2>2, <2>3 DEF CompNext
  <1> QED
    BY <1>1, <1>2, PTL DEF CompSpec

THEOREM BlobsAreRecovered == CompSpec => []BlobsComeBack
  <1>1. CompInv => BlobsComeBack
    <2> SUFFICES ASSUME CompInv, NEW b \in blobs, NEW t \in Thread
                 PROVE  decompress(t, b.reference, b) = {b.block}
      BY SMTT(60) DEF BlobsComeBack
    <2>1. b.reference \in Dicts
      BY SMTT(60) DEF CompInv
    <2>2. (CHOOSE c \in Decoder(t, DictOf(b.reference)) : TRUE) = [id |-> DictOf(b.reference).id, dict |-> b.reference]
      BY SMTT(60), <2>1, DecoderFits
    <2>3. CASE b.marker = 0 /\ b.body = <<"raw", b.block>>
      <3>1. b.body[2] = b.block
        BY SMTT(60), <2>3
      <3> QED
        BY <2>3, <3>1 DEF decompress
    <2>4. CASE b.marker = 1 /\ b.body = ZstdFrame(b.reference, b.block)
      <3>1. b.body[1] = b.reference /\ b.body[2] = b.block
        BY SMTT(60), <2>4 DEF ZstdFrame
      <3>2. PICK ctx : ctx = (CHOOSE c \in Decoder(t, DictOf(b.reference)) : TRUE)
        OBVIOUS
      <3>4. ctx = [id |-> DictOf(b.reference).id, dict |-> b.reference]
        BY <2>2, <3>2
      <3>5. ctx.dict = b.reference
        BY SMTT(60), <3>4
      <3>3. b.marker # 0
        BY SMTT(60), <2>4
      <3> QED
        BY <3>1, <3>2, <3>3, <3>5 DEF decompress, ZstdBlock
    <2> QED
      BY SMTT(60), <2>3, <2>4 DEF CompInv
  <1> QED
    BY <1>1, CompInvariance, PTL

-----------------------------------------------------------------------------
(***************************************************************************)
(* IncrementalPrune.  The two maps of a pruner and its running total agree; *)
(* what it evicts ranks below what it keeps; a window fits the budget.     *)
(***************************************************************************)
\* The rank of an element of a finite set that r orders: the elements up to it.
Ranked(S, r, x) == {y \in S : <<x, y>> \notin r}

OrderedBy(S, r) ==
  /\ \A x \in S : <<x, x>> \notin r
  /\ \A x, y \in S : x = y \/ <<x, y>> \in r \/ <<y, x>> \in r
  /\ \A x, y, z \in S : <<x, y>> \in r /\ <<y, z>> \in r => <<x, z>> \in r

\* Ranks number the elements of the set from 1, in its order.
LEMMA RanksNumber ==
  ASSUME NEW S, IsFiniteSet(S), NEW r, OrderedBy(S, r)
  PROVE  /\ \A x \in S : Cardinality(Ranked(S, r, x)) \in 1..Cardinality(S)
         /\ \A x, y \in S : Cardinality(Ranked(S, r, x)) = Cardinality(Ranked(S, r, y)) => x = y
         /\ \A i \in 1..Cardinality(S) : \E x \in S : Cardinality(Ranked(S, r, x)) = i
         /\ \A x, y \in S : <<x, y>> \in r => Cardinality(Ranked(S, r, x)) <= Cardinality(Ranked(S, r, y))
  <1> DEFINE N == Cardinality(S)
             R(x) == Ranked(S, r, x)
             rank == [x \in S |-> Cardinality(R(x))]
  <1>1. N \in Nat /\ IsFiniteSet(1..N) /\ Cardinality(1..N) = N
    <2>1. N \in Nat
      BY FS_CardinalityType
    <2> HIDE DEF N
    <2> QED
      BY SMTT(60), <2>1, FS_Interval
  <1>2. ASSUME NEW x \in S PROVE IsFiniteSet(R(x)) /\ Cardinality(R(x)) \in 1..N /\ x \in R(x)
    <2>1. x \in R(x) /\ R(x) \in SUBSET S
      BY DEF OrderedBy, Ranked
    <2> HIDE DEF R
    <2>2. IsFiniteSet(R(x)) /\ Cardinality(R(x)) <= N
      BY <2>1, FS_Subset
    <2>3. Cardinality(R(x)) \in Nat /\ Cardinality(R(x)) # 0
      BY <2>1, <2>2, FS_CardinalityType, FS_EmptySet
    <2>4. PICK c \in Nat : c = Cardinality(R(x)) /\ c # 0 /\ c <= N
      BY <2>2, <2>3
    <2> HIDE DEF N
    <2>5. c \in 1..N
      BY SMTT(60), <1>1, <2>4
    <2> QED
      BY <2>1, <2>2, <2>4, <2>5
  <1>3. ASSUME NEW x \in S, NEW y \in S, <<x, y>> \in r
        PROVE  R(x) \in SUBSET R(y) /\ y \in R(y) /\ y \notin R(x)
    BY <1>3 DEF OrderedBy, Ranked
  <1>4. ASSUME NEW x \in S, NEW y \in S, <<x, y>> \in r
        PROVE  Cardinality(R(x)) # Cardinality(R(y)) /\ Cardinality(R(x)) <= Cardinality(R(y))
    <2>1. R(x) \in SUBSET R(y) /\ R(x) # R(y)
      BY <1>3, <1>4
    <2> HIDE DEF R
    <2> QED
      BY <1>2, <2>1, FS_Subset
  <1>5. \A x, y \in S : Cardinality(R(x)) = Cardinality(R(y)) => x = y
    BY <1>4 DEF OrderedBy
  <1> HIDE DEF R
  <1>6. rank \in Injection(S, 1..N)
    BY <1>2, <1>5 DEF Injection, IsInjective
  <1>7. rank \in Surjection(S, 1..N)
    BY <1>1, <1>6, FS_Injection
  <1>8. \A i \in 1..N : \E x \in S : Cardinality(R(x)) = i
    BY <1>7 DEF Surjection
  <1> QED
    BY <1>2, <1>4, <1>5, <1>8 DEF R

\* The first k elements of a set in its order, k of them.
LEMMA FirstRanks ==
  ASSUME NEW S, IsFiniteSet(S), NEW r, OrderedBy(S, r), NEW k \in 0..Cardinality(S)
  PROVE  LET first == {x \in S : Cardinality(Ranked(S, r, x)) <= k}
         IN /\ IsFiniteSet(first) /\ Cardinality(first) = k
            /\ \A x \in first, y \in S \ first : <<x, y>> \in r
  <1> DEFINE N == Cardinality(S)
             R(x) == Cardinality(Ranked(S, r, x))
             first == {x \in S : R(x) <= k}
             f == [x \in first |-> R(x)]
  <1>1. /\ \A x \in S : R(x) \in 1..N
        /\ \A x, y \in S : R(x) = R(y) => x = y
        /\ \A i \in 1..N : \E x \in S : R(x) = i
        /\ \A x, y \in S : <<x, y>> \in r => R(x) <= R(y)
    BY RanksNumber
  <1>2. N \in Nat
    BY FS_CardinalityType
  <1>3. IsFiniteSet(first)
    BY FS_Subset
  <1>4. \A x \in first, y \in S \ first : <<x, y>> \in r
    <2> SUFFICES ASSUME NEW x \in first, NEW y \in S \ first PROVE <<x, y>> \in r
      OBVIOUS
    <2>1. x # y /\ x \in S /\ y \in S /\ R(x) <= k /\ ~(R(y) <= k) /\ R(x) \in 1..N /\ R(y) \in 1..N
      BY <1>1
    <2>2. <<y, x>> \in r => R(y) <= R(x)
      BY <1>1, <2>1
    <2> HIDE DEF R, N, first
    <2>3. ~(R(y) <= R(x))
      BY SMTT(60), <1>2, <2>1
    <2> QED
      BY <2>1, <2>2, <2>3 DEF OrderedBy
  <1> HIDE DEF R, N
  <1>5. k \in Nat /\ k <= N /\ 1..k \subseteq 1..N
    BY SMTT(60), <1>2 DEF N
  <1>6. f \in Bijection(first, 1..k)
    <2>1. \A x \in first : R(x) \in 1..k
      BY SMTT(60), <1>1, <1>2, <1>5
    <2>2. \A i \in 1..k : \E x \in first : R(x) = i
      <3> SUFFICES ASSUME NEW i \in 1..k PROVE \E x \in first : R(x) = i
        OBVIOUS
      <3>1. PICK x \in S : R(x) = i
        BY <1>1, <1>5
      <3>2. i <= k
        BY SMTT(60), <1>5
      <3> QED
        BY <3>1, <3>2
    <2>3. f \in Injection(first, 1..k)
      BY <1>1, <2>1 DEF Injection, IsInjective
    <2>4. f \in Surjection(first, 1..k)
      BY <2>1, <2>2 DEF Surjection
    <2> QED
      BY <2>3, <2>4 DEF Bijection
  <1>7. Cardinality(first) = Cardinality(1..k) /\ Cardinality(1..k) = k
    <2>1. Cardinality(1..k) = k
      BY SMTT(60), <1>5, FS_Interval
    <2>2. ExistsBijection(first, 1..k)
      BY <1>6 DEF ExistsBijection
    <2> HIDE DEF first
    <2>3. Cardinality(first) = Cardinality(1..k)
      BY <1>3, <2>2, FS_Bijection
    <2> QED
      BY <2>1, <2>3
  <1> QED
    BY <1>3, <1>4, <1>7 DEF R

\* The sizes of entries add up.
LEMMA SizesParts ==
  ASSUME NEW S, IsFiniteSet(S), \A e \in S : e.size \in Nat, NEW T \in SUBSET S
  PROVE  /\ Sizes(S) \in Nat /\ Sizes(T) \in Nat /\ Sizes(S \ T) \in Nat
         /\ Sizes(S) = Sizes(T) + Sizes(S \ T)
  <1> DEFINE w == [e \in S |-> e.size]
  <1>1. \A e \in S : w[e] = e.size /\ w[e] \in Nat
    OBVIOUS
  <1>2. \A U \in SUBSET S : IsFiniteSet(U)
    BY FS_Subset
  <1>3. ASSUME NEW U \in SUBSET S PROVE Sizes(U) = SumFunctionOnSet(w, U)
    <2> DEFINE v == [e \in U |-> e.size]
    <2>1. \A e \in U : v[e] = w[e]
      OBVIOUS
    <2> HIDE DEF v, w
    <2>2. SumFunctionOnSet(v, U) = SumFunctionOnSet(w, U)
      BY <1>2, <2>1, SumSame
    <2> QED
      BY <2>2 DEF Sizes, v
  <1> HIDE DEF w
  <1>4. \A U \in SUBSET S : SumFunctionOnSet(w, U) \in Nat
    BY <1>1, SumNat
  <1>5. SumFunctionOnSet(w, S) = SumFunctionOnSet(w, T) + SumFunctionOnSet(w, S \ T)
    BY <1>1, SumParts
  <1>6. S \in SUBSET S /\ S \ T \in SUBSET S
    OBVIOUS
  <1> QED
    BY <1>3, <1>4, <1>5, <1>6

LEMMA SizesOne ==
  ASSUME NEW e, e.size \in Nat
  PROVE  Sizes({e}) = e.size
  <1> DEFINE w == [x \in {e} |-> x.size]
  <1>1. IsFiniteSet({e})
    BY SMTT(60), FS_Singleton
  <1>2. \A x \in {e} : w[x] \in Nat
    OBVIOUS
  <1>3. w[e] = e.size /\ {e} \ {e} = {} /\ e \in {e}
    OBVIOUS
  <1> HIDE DEF w
  <1>4. SumFunctionOnSet(w, {e}) = w[e] + SumFunctionOnSet(w, {e} \ {e})
    BY <1>1, <1>2, <1>3, SumSplit
  <1>5. SumFunctionOnSet(w, {e} \ {e}) = 0
    BY <1>3, SumEmpty
  <1>6. PICK a, b : a = w[e] /\ b = SumFunctionOnSet(w, {e} \ {e})
    OBVIOUS
  <1>7. SumFunctionOnSet(w, {e}) = a + b /\ a \in Nat /\ b = 0
    BY <1>2, <1>3, <1>4, <1>5, <1>6
  <1>8. a + b = a
    BY SMTT(60), <1>7
  <1>9. SumFunctionOnSet(w, {e}) = e.size
    BY <1>3, <1>6, <1>7, <1>8
  <1> QED
    BY <1>9 DEF Sizes, w

LEMMA SizesAdd ==
  ASSUME NEW S, IsFiniteSet(S), \A e \in S : e.size \in Nat, NEW e, e.size \in Nat, e \notin S
  PROVE  Sizes(S \cup {e}) = Sizes(S) + e.size
  <1>1. IsFiniteSet(S \cup {e}) /\ {e} \in SUBSET (S \cup {e}) /\ (S \cup {e}) \ {e} = S
    BY FS_AddElement
  <1>2. \A x \in S \cup {e} : x.size \in Nat
    OBVIOUS
  <1>3. Sizes(S \cup {e}) = Sizes({e}) + Sizes((S \cup {e}) \ {e}) /\ Sizes((S \cup {e}) \ {e}) \in Nat
    BY <1>1, <1>2, SizesParts
  <1>4. PICK a, b : a = Sizes({e}) /\ b = Sizes(S)
    OBVIOUS
  <1>5. Sizes(S \cup {e}) = a + b /\ b \in Nat /\ a = e.size
    BY <1>1, <1>3, <1>4, SizesOne
  <1>6. a + b = b + a
    BY SMTT(60), <1>5
  <1> QED
    BY <1>4, <1>5, <1>6

-----------------------------------------------------------------------------
\* What a pruner's maps and history tell, apart from the budget.
Books(p) ==
  /\ p \in PrunerSet /\ p.index \subseteq p.fed /\ IsFiniteSet(p.index)
  /\ \A e \in p.fed : EntryOK(p, e)
  /\ \A e, f \in p.fed : e.id = f.id \/ e.seq = f.seq => e = f
  /\ p.ordered = {Key(e) : e \in p.index}
  /\ p.total_size = Sizes(p.index)
  /\ Unseeded => \A e \in p.index : e.size = PayloadLen[e.id]

LEMMA BooksTypes ==
  ASSUME NEW p, Books(p)
  PROVE  /\ p = [ordered |-> p.ordered, index |-> p.index, total_size |-> p.total_size, clock |-> p.clock, fed |-> p.fed]
         /\ p.ordered \subseteq [score: Nat, seq: 1..MaxClock, id: BlockId]
         /\ p.fed \subseteq EntrySet /\ p.index \subseteq EntrySet
         /\ p.clock \in 0..MaxClock /\ p.total_size \in Nat /\ p.clock \in Nat
  <1>1. p \in PrunerSet
    BY DEF Books
  <1>2. MaxClock \in Nat
    BY PruneAssumption
  <1> QED
    BY SMTT(60), <1>1, <1>2 DEF PrunerSet

LEMMA EntryTypes ==
  ASSUME NEW e \in EntrySet
  PROVE  /\ e.score \in Nat /\ e.seq \in Nat /\ e.seq \in 1..MaxClock /\ e.id \in BlockId
         /\ e.size \in Nat /\ e.size \in Size
         /\ e = [score |-> e.score, seq |-> e.seq, id |-> e.id, size |-> e.size]
  <1>1. Size \subseteq Nat
    <2>1. \A id \in BlockId : PayloadLen[id] \in Nat
      BY PruneAssumption
    <2> QED
      BY SMTT(60), <2>1 DEF Size
  <1>2. MaxClock \in Nat
    BY PruneAssumption
  <1>3. e.score \in Nat /\ e.seq \in 1..MaxClock /\ e.id \in BlockId /\ e.size \in Size
    BY DEF EntrySet
  <1>4. e = [score |-> e.score, seq |-> e.seq, id |-> e.id, size |-> e.size]
    BY SMTT(60) DEF EntrySet
  <1>5. e.seq \in Nat /\ e.size \in Nat
    <2>1. PICK n : n = e.seq /\ n \in 1..MaxClock
      BY <1>3
    <2>2. n \in Nat
      BY SMTT(60), <1>2, <2>1
    <2> QED
      BY <1>1, <1>3, <2>1, <2>2
  <1> QED
    BY <1>3, <1>4, <1>5

LEMMA KeyFields ==
  ASSUME NEW e
  PROVE  Key(e).score = e.score /\ Key(e).seq = e.seq /\ Key(e).id = e.id
  BY SMTT(60) DEF Key

\* The entry an insertion makes, and the pruner before it evicts.
NewEntry(p, id, z) == Entry(Score(budget.scorer, p.clock + 1, z), p.clock + 1, id, z)

Added(p, id, z) ==
  [ordered    |-> (p.ordered \ {Key(e) : e \in EntryOf(p.index, id)}) \cup {Key(NewEntry(p, id, z))},
   index      |-> (p.index \ EntryOf(p.index, id)) \cup {NewEntry(p, id, z)},
   total_size |-> (p.total_size - Sizes(EntryOf(p.index, id))) + z,
   clock      |-> p.clock + 1,
   fed        |-> (p.fed \ EntryOf(p.fed, id)) \cup {NewEntry(p, id, z)}]

LEMMA InsertIs ==
  ASSUME NEW p, NEW id, NEW z
  PROVE  insert(p, id, z) = EvictOver(Added(p, id, z))
  <1> DEFINE q == RemoveOld(p, id)
  <1>1. /\ q.ordered = p.ordered \ {Key(e) : e \in EntryOf(p.index, id)} /\ q.index = p.index \ EntryOf(p.index, id)
        /\ q.total_size = p.total_size - Sizes(EntryOf(p.index, id)) /\ q.clock = p.clock /\ q.fed = p.fed
    BY DEF RemoveOld
  <1> HIDE DEF q
  <1>2. insert(p, id, z)
          = EvictOver([ordered |-> q.ordered \cup {Key(NewEntry(q, id, z))}, index |-> q.index \cup {NewEntry(q, id, z)},
                       total_size |-> q.total_size + z, clock |-> q.clock + 1,
                       fed |-> (q.fed \ EntryOf(q.fed, id)) \cup {NewEntry(q, id, z)}])
    BY DEF insert, NewEntry, q
  <1>3. NewEntry(q, id, z) = NewEntry(p, id, z)
    BY <1>1 DEF NewEntry
  <1> QED
    BY <1>1, <1>2, <1>3 DEF Added

LEMMA NewEntryTypes ==
  ASSUME budget \in Budgets, NEW p, Books(p), p.clock < MaxClock, NEW id \in BlockId, NEW z \in Size
  PROVE  /\ NewEntry(p, id, z) \in EntrySet /\ NewEntry(p, id, z).id = id /\ NewEntry(p, id, z).size = z
         /\ NewEntry(p, id, z).seq = p.clock + 1 /\ p.clock + 1 \in 1..MaxClock
         /\ NewEntry(p, id, z).score = Score(budget.scorer, p.clock + 1, z)
         /\ \A e \in p.fed : e.seq < p.clock + 1 /\ e.seq # p.clock + 1
  <1>1. p.clock \in Nat /\ MaxClock \in Nat
    BY BooksTypes, PruneAssumption
  <1>2. PICK n : n = p.clock + 1
    OBVIOUS
  <1>3. n \in 1..MaxClock
    BY SMTT(60), <1>1, <1>2
  <1>4. Score(budget.scorer, n, z) \in Nat
    BY <1>3, PruneAssumption
  <1>5. NewEntry(p, id, z) = [score |-> Score(budget.scorer, n, z), seq |-> n, id |-> id, size |-> z]
    BY <1>2 DEF NewEntry, Entry
  <1>6. PICK sc : sc = Score(budget.scorer, n, z)
    OBVIOUS
  <1>7. NewEntry(p, id, z) = [score |-> sc, seq |-> n, id |-> id, size |-> z]
    BY <1>5, <1>6
  <1>8. NewEntry(p, id, z) \in EntrySet
    <2>1. sc \in Nat
      BY <1>4, <1>6
    <2> QED
      BY SMTT(60), <1>3, <1>7, <2>1 DEF EntrySet
  <1>9. /\ NewEntry(p, id, z).id = id /\ NewEntry(p, id, z).size = z
        /\ NewEntry(p, id, z).seq = n /\ NewEntry(p, id, z).score = sc
    BY SMTT(60), <1>7
  <1>10. ASSUME NEW e \in p.fed PROVE e.seq < n /\ e.seq # n
    <2>1. e.seq \in Nat /\ e.seq <= p.clock
      BY BooksTypes, EntryTypes DEF Books, EntryOK
    <2> QED
      BY SMTT(60), <1>1, <1>2, <2>1
  <1> QED
    BY <1>2, <1>3, <1>6, <1>8, <1>9, <1>10

\* The books after the entry is made.
LEMMA AddedBooks ==
  ASSUME budget \in Budgets, NEW p, Books(p), p.clock < MaxClock, NEW id \in BlockId, NEW z \in Size,
         z # 0 => z = PayloadLen[id] /\ id \in have, Unseeded => z = PayloadLen[id]
  PROVE  Books(Added(p, id, z))
  <1> DEFINE q == Added(p, id, z)
             e == NewEntry(p, id, z)
             old == EntryOf(p.index, id)
  <1>1. /\ q.ordered = (p.ordered \ {Key(x) : x \in old}) \cup {Key(e)} /\ q.index = (p.index \ old) \cup {e}
        /\ q.total_size = (p.total_size - Sizes(old)) + z /\ q.clock = p.clock + 1
        /\ q.fed = (p.fed \ EntryOf(p.fed, id)) \cup {e}
        /\ q = [ordered |-> q.ordered, index |-> q.index, total_size |-> q.total_size, clock |-> q.clock, fed |-> q.fed]
    BY DEF Added
  <1>2. /\ e \in EntrySet /\ e.id = id /\ e.size = z /\ e.seq = p.clock + 1 /\ p.clock + 1 \in 1..MaxClock
        /\ e.score = Score(budget.scorer, p.clock + 1, z) /\ \A f \in p.fed : f.seq < p.clock + 1 /\ f.seq # p.clock + 1
    <2> HIDE DEF q, old
    <2> QED
      BY SMTT(60), NewEntryTypes
  <1>3. /\ p.fed \subseteq EntrySet /\ p.index \subseteq EntrySet /\ p.index \subseteq p.fed /\ IsFiniteSet(p.index)
        /\ p.clock \in Nat /\ p.total_size \in Nat /\ p.total_size = Sizes(p.index)
        /\ p.ordered = {Key(x) : x \in p.index}
        /\ \A x, y \in p.fed : x.id = y.id \/ x.seq = y.seq => x = y
    BY BooksTypes DEF Books
  <1> HIDE DEF q, e
  <1>4. q.index \subseteq q.fed /\ q.fed \subseteq EntrySet /\ q.index \subseteq EntrySet
    BY <1>1, <1>2, <1>3 DEF EntryOf
  <1>5. IsFiniteSet(p.index \ old) /\ IsFiniteSet(q.index) /\ e \notin p.index \ old
    <2>1. p.index \ old \in SUBSET p.index
      OBVIOUS
    <2>2. IsFiniteSet(p.index \ old)
      BY <1>3, <2>1, FS_Subset
    <2>3. e \notin p.index \ old
      BY <1>2 DEF EntryOf
    <2> HIDE DEF old
    <2>4. IsFiniteSet((p.index \ old) \cup {e})
      BY <2>2, FS_AddElement
    <2> QED
      BY <1>1, <2>2, <2>3, <2>4
  <1>6. q.total_size = Sizes(q.index) /\ q.total_size \in Nat
    <2>1. \A x \in p.index : x.size \in Nat
      BY <1>3, EntryTypes
    <2>2. old \in SUBSET p.index
      BY DEF EntryOf
    <2>3. /\ Sizes(p.index) = Sizes(old) + Sizes(p.index \ old)
          /\ Sizes(old) \in Nat /\ Sizes(p.index \ old) \in Nat
      BY <1>3, <2>1, <2>2, SizesParts
    <2>4. z \in Nat
      BY <1>2, EntryTypes
    <2>5. Sizes(q.index) = Sizes(p.index \ old) + z
      <3>1. PICK S : S = p.index \ old
        OBVIOUS
      <3>2. IsFiniteSet(S) /\ (\A x \in S : x.size \in Nat) /\ e \notin S /\ e.size \in Nat
        BY <1>2, <1>5, <2>1, <2>4, <3>1
      <3>3. Sizes(S \cup {e}) = Sizes(S) + e.size
        BY <3>2, SizesAdd
      <3> QED
        BY <1>1, <1>2, <3>1, <3>3
    <2>6. PICK a, b, c : a = Sizes(p.index) /\ b = Sizes(old) /\ c = Sizes(p.index \ old)
      OBVIOUS
    <2>7. a = b + c /\ b \in Nat /\ c \in Nat /\ q.total_size = (a - b) + z /\ Sizes(q.index) = c + z
      BY <1>1, <1>3, <2>3, <2>5, <2>6
    <2> QED
      BY SMTT(60), <2>4, <2>7
  <1>7. q.ordered = {Key(x) : x \in q.index}
    <2>1. ASSUME NEW x \in p.index, NEW y \in p.index, Key(x) = Key(y) PROVE x = y
      <3>1. x.id = y.id
        BY <2>1, KeyFields
      <3> QED
        BY <1>3, <3>1
    <2> HIDE DEF old
    <2>2. PICK S, O, K : S = p.index /\ O = p.ordered /\ K = old
      OBVIOUS
    <2>3. O = {Key(x) : x \in S} /\ K \subseteq S /\ \A x, y \in S : Key(x) = Key(y) => x = y
      BY <1>3, <2>1, <2>2 DEF EntryOf, old
    <2>4. O \ {Key(x) : x \in K} = {Key(x) : x \in S \ K}
      BY <2>3
    <2>5. p.ordered \ {Key(x) : x \in old} = {Key(x) : x \in p.index \ old}
      BY <2>2, <2>4
    <2> QED
      BY <1>1, <2>5
  <1>8. \A x, y \in q.fed : x.id = y.id \/ x.seq = y.seq => x = y
    <2>1. \A x \in p.fed \ EntryOf(p.fed, id) : x \in p.fed /\ x.id # e.id /\ x.seq # e.seq
      BY <1>2 DEF EntryOf
    <2> QED
      BY <1>1, <1>3, <2>1
  <1>9. ASSUME NEW x \in q.fed PROVE EntryOK(q, x)
    <2>1. CASE x = e
      <3>1. e.seq <= q.clock
        BY SMTT(60), <1>1, <1>2, <1>3
      <3>2. e.score = Score(budget.scorer, e.seq, e.size)
        BY <1>2
      <3>3. e.size # 0 => e.size = PayloadLen[e.id] /\ e.id \in have
        BY <1>2
      <3> QED
        BY <2>1, <3>1, <3>2, <3>3 DEF EntryOK
    <2>2. CASE x \in p.fed
      <3>1. EntryOK(p, x)
        BY <2>2 DEF Books
      <3>2. x.seq \in Nat
        BY <1>3, <2>2, EntryTypes
      <3>3. x.seq <= q.clock
        <4>1. x.seq <= p.clock
          BY <3>1 DEF EntryOK
        <4> QED
          BY SMTT(60), <1>1, <1>3, <3>2, <4>1
      <3> QED
        BY <3>1, <3>3 DEF EntryOK
    <2> QED
      BY <1>1, <2>1, <2>2
  <1>10. Unseeded => \A x \in q.index : x.size = PayloadLen[x.id]
    BY <1>1, <1>2 DEF Books
  <1>11. q \in PrunerSet
    <2>1. \A x \in EntrySet : Key(x) \in [score: Nat, seq: 1..MaxClock, id: BlockId]
      BY EntryTypes DEF Key
    <2>2. q.ordered \in SUBSET [score: Nat, seq: 1..MaxClock, id: BlockId]
      BY <1>4, <1>7, <2>1
    <2>3. q.clock \in 0..MaxClock
      <3>1. PICK n : n = p.clock + 1
        OBVIOUS
      <3>2. n \in 1..MaxClock /\ MaxClock \in Nat
        BY <1>2, <3>1, PruneAssumption
      <3>3. n \in 0..MaxClock
        BY SMTT(60), <3>2
      <3> QED
        BY <1>1, <3>1, <3>3
    <2>4. q.index \in SUBSET EntrySet /\ q.fed \in SUBSET EntrySet
      BY <1>4
    <2>5. PICK a, b, c, d, f : a = q.ordered /\ b = q.index /\ c = q.total_size /\ d = q.clock /\ f = q.fed
      OBVIOUS
    <2>6. q = [ordered |-> a, index |-> b, total_size |-> c, clock |-> d, fed |-> f]
      BY <1>1, <2>5
    <2> QED
      BY <1>6, <2>2, <2>3, <2>4, <2>5, <2>6 DEF PrunerSet
  <1> QED
    BY <1>4, <1>5, <1>6, <1>7, <1>8, <1>9, <1>10, <1>11 DEF Books, q

\* The books after some turns of the eviction loop.
LEMMA DropBooks ==
  ASSUME NEW p, Books(p), NEW D \in SUBSET p.ordered
  PROVE  /\ Books(Drop(p, D)) /\ Drop(p, D).fed = p.fed /\ Drop(p, D).clock = p.clock
         /\ Drop(p, D).ordered = p.ordered \ D /\ Drop(p, D).index = {e \in p.index : Key(e) \notin D}
  <1> DEFINE q == Drop(p, D)
             gone == {e \in p.index : \E k \in D : k.id = e.id}
  <1>1. /\ q.ordered = p.ordered \ D /\ q.index = p.index \ gone /\ q.total_size = p.total_size - Sizes(gone)
        /\ q.clock = p.clock /\ q.fed = p.fed
        /\ q = [ordered |-> q.ordered, index |-> q.index, total_size |-> q.total_size, clock |-> q.clock, fed |-> q.fed]
    BY DEF Drop
  <1>2. /\ p.fed \subseteq EntrySet /\ p.index \subseteq EntrySet /\ p.index \subseteq p.fed /\ IsFiniteSet(p.index)
        /\ p.clock \in 0..MaxClock /\ p.total_size \in Nat /\ p.total_size = Sizes(p.index)
        /\ p.ordered = {Key(x) : x \in p.index}
        /\ p.ordered \subseteq [score: Nat, seq: 1..MaxClock, id: BlockId]
        /\ \A x, y \in p.fed : x.id = y.id \/ x.seq = y.seq => x = y
    BY BooksTypes DEF Books
  <1> HIDE DEF q
  <1>3. \A x \in p.index : x \in gone <=> Key(x) \in D
    <2>1. ASSUME NEW x \in p.index, x \in gone PROVE Key(x) \in D
      <3>1. PICK k \in D : k.id = x.id
        BY <2>1
      <3>2. PICK y \in p.index : k = Key(y)
        BY <1>2
      <3>3. y.id = x.id
        BY <3>1, <3>2, KeyFields
      <3>4. y = x
        BY <1>2, <3>3
      <3> QED
        BY <3>2, <3>4
    <2>2. ASSUME NEW x \in p.index, Key(x) \in D PROVE x \in gone
      BY <2>2, KeyFields
    <2> QED
      BY <2>1, <2>2
  <1>4. q.index = {e \in p.index : Key(e) \notin D}
    BY <1>1, <1>3
  <1>5. q.index \in SUBSET p.index /\ q.index \subseteq q.fed /\ IsFiniteSet(q.index)
    <2>1. q.index \in SUBSET p.index
      BY <1>1
    <2> QED
      BY <1>1, <1>2, <2>1, FS_Subset
  <1>6. q.total_size = Sizes(q.index) /\ q.total_size \in Nat
    <2>1. \A x \in p.index : x.size \in Nat
      BY <1>2, EntryTypes
    <2>2. gone \in SUBSET p.index
      OBVIOUS
    <2> HIDE DEF gone
    <2>3. /\ Sizes(p.index) = Sizes(gone) + Sizes(p.index \ gone)
          /\ Sizes(gone) \in Nat /\ Sizes(p.index \ gone) \in Nat
      BY <1>2, <2>1, <2>2, SizesParts
    <2>4. PICK a, b, c : a = Sizes(p.index) /\ b = Sizes(gone) /\ c = Sizes(p.index \ gone)
      OBVIOUS
    <2>5. a = b + c /\ b \in Nat /\ c \in Nat /\ q.total_size = a - b /\ Sizes(q.index) = c
      BY <1>1, <1>2, <2>3, <2>4
    <2> QED
      BY SMTT(60), <2>5
  <1>7. q.ordered = {Key(x) : x \in q.index}
    <2>1. PICK S, O : S = p.index /\ O = p.ordered
      OBVIOUS
    <2>2. O = {Key(x) : x \in S}
      BY <1>2, <2>1
    <2>3. O \ D = {Key(x) : x \in {e \in S : Key(e) \notin D}}
      BY <2>2
    <2> QED
      BY <1>1, <1>4, <2>1, <2>3
  <1>8. \A x \in q.fed : EntryOK(q, x)
    BY <1>1 DEF Books, EntryOK
  <1>9. Unseeded => \A x \in q.index : x.size = PayloadLen[x.id]
    BY <1>5 DEF Books
  <1>10. q \in PrunerSet
    <2>1. /\ q.ordered \in SUBSET [score: Nat, seq: 1..MaxClock, id: BlockId]
          /\ q.index \in SUBSET EntrySet /\ q.fed \in SUBSET EntrySet /\ q.clock \in 0..MaxClock
      BY <1>1, <1>2, <1>5
    <2>2. PICK a, b, c, d, f : a = q.ordered /\ b = q.index /\ c = q.total_size /\ d = q.clock /\ f = q.fed
      OBVIOUS
    <2>3. q = [ordered |-> a, index |-> b, total_size |-> c, clock |-> d, fed |-> f]
      BY <1>1, <2>2
    <2> QED
      BY <1>6, <2>1, <2>2, <2>3 DEF PrunerSet
  <1>11. \A x, y \in q.fed : x.id = y.id \/ x.seq = y.seq => x = y
    BY <1>1, <1>2
  <1>12. Books(q)
    BY <1>5, <1>6, <1>7, <1>8, <1>9, <1>10, <1>11 DEF Books
  <1> QED
    BY <1>1, <1>4, <1>12 DEF q

\* Below is the order of the keys: their numbers differ.
LEMMA KeysOrdered ==
  ASSUME NEW p, Books(p)
  PROVE  /\ IsFiniteSet(p.ordered) /\ Cardinality(p.ordered) = Cardinality(p.index)
         /\ OrderedBy(p.ordered, {x \in p.ordered \X p.ordered : Below(x[1], x[2])})
         /\ \A k \in Nat : Lowest(p, k) = {x \in p.ordered :
              Cardinality(Ranked(p.ordered, {y \in p.ordered \X p.ordered : Below(y[1], y[2])}, x)) <= k}
  <1> DEFINE S == p.ordered
             r == {x \in S \X S : Below(x[1], x[2])}
             f == [e \in p.index |-> Key(e)]
  <1>1. /\ p.index \subseteq p.fed /\ IsFiniteSet(p.index) /\ S = {Key(x) : x \in p.index}
        /\ \A x, y \in p.fed : x.id = y.id \/ x.seq = y.seq => x = y
    BY DEF Books
  <1>2. \A x \in S : x.score \in Nat /\ x.seq \in Nat
    <2>1. \A x \in S : x.score \in Nat /\ x.seq \in 1..MaxClock
      <3>1. S \subseteq [score: Nat, seq: 1..MaxClock, id: BlockId]
        BY BooksTypes
      <3> HIDE DEF S
      <3> QED
        BY SMTT(60), <3>1
    <2>2. 1..MaxClock \subseteq Nat
      <3>1. MaxClock \in Nat
        BY PruneAssumption
      <3> QED
        BY SMTT(60), <3>1
    <2> QED
      BY <2>1, <2>2
  <1>3. \A x, y \in p.index : Key(x).seq = Key(y).seq => x = y
    <2> SUFFICES ASSUME NEW x \in p.index, NEW y \in p.index, Key(x).seq = Key(y).seq PROVE x = y
      OBVIOUS
    <2>1. x.seq = y.seq /\ x \in p.fed /\ y \in p.fed
      BY <1>1, KeyFields
    <2> QED
      BY <1>1, <2>1
  <1>4. \A x, y \in S : x.seq = y.seq => x = y
    BY <1>1, <1>3
  <1>5. f \in Bijection(p.index, S)
    <2>1. f \in Injection(p.index, S)
      BY <1>1, <1>3 DEF Injection, IsInjective
    <2>2. f \in Surjection(p.index, S)
      BY <1>1 DEF Surjection
    <2> QED
      BY <2>1, <2>2 DEF Bijection
  <1>6. IsFiniteSet(S) /\ Cardinality(S) = Cardinality(p.index)
    <2>1. ExistsBijection(p.index, S)
      BY <1>5 DEF ExistsBijection
    <2> QED
      BY <1>1, <2>1, FS_Bijection
  <1>7. \A x, y \in S : <<x, y>> \in r <=> Below(x, y)
    BY SMTT(60) DEF Below
  <1> HIDE DEF r, S
  <1>8. OrderedBy(S, r)
    <2>1. \A x \in S : ~Below(x, x)
      BY SMTT(60), <1>2 DEF Below
    <2>2. \A x, y \in S : x = y \/ Below(x, y) \/ Below(y, x)
      <3> SUFFICES ASSUME NEW x \in S, NEW y \in S, x # y PROVE Below(x, y) \/ Below(y, x)
        OBVIOUS
      <3>1. x.seq # y.seq /\ x.score \in Nat /\ x.seq \in Nat /\ y.score \in Nat /\ y.seq \in Nat
        BY <1>2, <1>4
      <3> QED
        BY SMTT(60), <3>1 DEF Below
    <2>3. \A x, y, z \in S : Below(x, y) /\ Below(y, z) => Below(x, z)
      <3> SUFFICES ASSUME NEW x \in S, NEW y \in S, NEW z \in S, Below(x, y), Below(y, z) PROVE Below(x, z)
        OBVIOUS
      <3>1. /\ x.score \in Nat /\ x.seq \in Nat /\ y.score \in Nat /\ y.seq \in Nat /\ z.score \in Nat /\ z.seq \in Nat
        BY <1>2
      <3> QED
        BY SMTT(60), <3>1 DEF Below
    <2> QED
      BY <1>7, <2>1, <2>2, <2>3 DEF OrderedBy
  <1>9. ASSUME NEW k \in Nat PROVE Lowest(p, k) = {x \in S : Cardinality(Ranked(S, r, x)) <= k}
    <2>1. ASSUME NEW x \in S PROVE {y \in S : ~Below(x, y)} = Ranked(S, r, x)
      BY <1>7 DEF Ranked
    <2>2. \A x \in S : Cardinality({y \in S : ~Below(x, y)}) = Cardinality(Ranked(S, r, x))
      BY <2>1
    <2>3. Lowest(p, k) = {x \in S : Cardinality({y \in S : ~Below(x, y)}) <= k}
      BY DEF Lowest, S
    <2> QED
      BY <2>2, <2>3
  <1> QED
    BY <1>6, <1>8, <1>9 DEF r, S

LEMMA LowestEffect ==
  ASSUME NEW p, Books(p), NEW k \in 0..Cardinality(p.ordered)
  PROVE  /\ Lowest(p, k) \in SUBSET p.ordered /\ IsFiniteSet(Lowest(p, k)) /\ Cardinality(Lowest(p, k)) = k
         /\ IsFiniteSet(p.ordered \ Lowest(p, k)) /\ Cardinality(p.ordered \ Lowest(p, k)) = Cardinality(p.ordered) - k
         /\ \A x \in Lowest(p, k), y \in p.ordered \ Lowest(p, k) : Below(x, y)
  <1> DEFINE S == p.ordered
             r == {x \in S \X S : Below(x[1], x[2])}
             first == {x \in S : Cardinality(Ranked(S, r, x)) <= k}
  <1>1. k \in Nat
    <2>1. Cardinality(S) \in Nat
      BY KeysOrdered, FS_CardinalityType
    <2>2. PICK n : n = Cardinality(S)
      OBVIOUS
    <2>3. n \in Nat /\ k \in 0..n
      BY <2>1, <2>2
    <2> QED
      BY SMTT(60), <2>3
  <1>2. IsFiniteSet(S) /\ OrderedBy(S, r) /\ Lowest(p, k) = first
    BY <1>1, KeysOrdered
  <1>3. \A x, y \in S : <<x, y>> \in r <=> Below(x, y)
    BY SMTT(60) DEF Below
  <1> HIDE DEF r, S
  <1>4. k \in 0..Cardinality(S)
    BY DEF S
  <1>5. IsFiniteSet(first) /\ Cardinality(first) = k /\ \A x \in first, y \in S \ first : <<x, y>> \in r
    BY <1>2, <1>4, FirstRanks
  <1>6. first \in SUBSET S
    OBVIOUS
  <1> HIDE DEF first
  <1>7. IsFiniteSet(S \ first) /\ Cardinality(S \ first) = Cardinality(S) - k
    <2>1. S \cap first = first
      BY <1>6
    <2>2. Cardinality(S \ first) = Cardinality(S) - Cardinality(S \cap first) /\ IsFiniteSet(S \ first)
      BY <1>2, <1>5, FS_Difference
    <2> QED
      BY <1>5, <2>1, <2>2
  <1> QED
    BY <1>2, <1>3, <1>5, <1>6, <1>7 DEF S

\* The eviction loop drops the lowest keys, as few as the budget asks for.
LEMMA EvictEffect ==
  ASSUME budget \in Budgets, NEW p, Books(p), p.ordered # {},
         budget.shape = "Blocks" => Cardinality(p.ordered) <= budget.limit + 1
  PROVE  \E D \in SUBSET p.ordered :
           /\ EvictOver(p) = Drop(p, D) /\ ~Over(Drop(p, D))
           /\ \A x \in D, y \in p.ordered \ D : Below(x, y)
           /\ budget.shape = "Blocks" /\ D # {} => Cardinality(p.ordered \ D) = budget.limit
  <1> DEFINE N == Cardinality(p.ordered)
             turns == IF budget.shape = "Blocks" THEN 1 ELSE N
             left(k) == Drop(p, Lowest(p, k))
             Stop(k) == (k = turns \/ ~Over(left(k))) /\ \A j \in 0..(k - 1) : Over(left(j))
             K == CHOOSE k \in 0..turns : Stop(k)
             T == {k \in 0..turns : k = turns \/ ~Over(left(k))}
             D == Lowest(p, K)
  <1>1. N \in Nat /\ N # 0 /\ budget.limit \in Nat
    BY KeysOrdered, FS_CardinalityType, FS_EmptySet, PruneAssumption
  <1>2. EvictOver(p) = left(K)
    BY DEF EvictOver
  <1>3. \A k \in 0..N : /\ Lowest(p, k) \in SUBSET p.ordered /\ Cardinality(Lowest(p, k)) = k
                        /\ IsFiniteSet(Lowest(p, k)) /\ left(k).ordered = p.ordered \ Lowest(p, k)
                        /\ Cardinality(left(k).ordered) = N - k
                        /\ \A x \in Lowest(p, k), y \in p.ordered \ Lowest(p, k) : Below(x, y)
    <2>1. ASSUME NEW k \in 0..N
          PROVE  /\ Lowest(p, k) \in SUBSET p.ordered /\ Cardinality(Lowest(p, k)) = k
                 /\ IsFiniteSet(Lowest(p, k)) /\ Cardinality(p.ordered \ Lowest(p, k)) = N - k
                 /\ \A x \in Lowest(p, k), y \in p.ordered \ Lowest(p, k) : Below(x, y)
      BY LowestEffect
    <2>2. ASSUME NEW k \in 0..N PROVE left(k).ordered = p.ordered \ Lowest(p, k)
      BY <2>1, DropBooks
    <2> HIDE DEF N, left
    <2> QED
      BY <2>1, <2>2
  <1> HIDE DEF N, left
  <1>4. turns \in Nat /\ turns <= N
    BY SMTT(60), <1>1
  <1>5. 0..turns \subseteq 0..N /\ turns \in 0..turns /\ 0..turns \subseteq Nat
    BY SMTT(60), <1>1, <1>4
  <1> HIDE DEF turns
  <1>6. \E k \in 0..turns : Stop(k)
    <2>1. T \in SUBSET Nat /\ T # {}
      BY <1>5
    <2>2. PICK k \in T : \A j \in T : k <= j
      BY <2>1, LeastNat
    <2>3. ASSUME NEW j \in 0..(k - 1) PROVE j \in 0..turns /\ ~(k <= j)
      BY SMTT(60), <1>4, <1>5, <2>1
    <2>4. \A j \in 0..(k - 1) : Over(left(j))
      BY <2>2, <2>3
    <2> QED
      BY <2>4
  <1>7. K \in 0..turns /\ Stop(K)
    BY <1>6
  <1> HIDE DEF K
  <1>8. K \in 0..N
    BY <1>5, <1>7
  <1>9. /\ D \in SUBSET p.ordered /\ left(K) = Drop(p, D) /\ left(K).ordered = p.ordered \ D
        /\ \A x \in D, y \in p.ordered \ D : Below(x, y)
    BY <1>3, <1>8 DEF left
  <1>10. Cardinality(left(K).ordered) = N - K /\ Cardinality(D) = K
    BY <1>3, <1>8
  <1>11. ~Over(left(K))
    <2>1. CASE K # turns
      BY <1>7, <2>1
    <2>2. CASE K = turns
      <3>1. PICK n : n = Cardinality(left(K).ordered) /\ n = N - turns
        BY <1>10, <2>2
      <3>2. CASE budget.shape = "Blocks"
        <4>1. N <= budget.limit + 1 /\ turns = 1
          BY <3>2 DEF N, turns
        <4>2. ~(n > budget.limit)
          BY SMTT(60), <1>1, <3>1, <4>1
        <4> QED
          BY <3>1, <3>2, <4>2 DEF Over
      <3>3. CASE budget.shape # "Blocks"
        <4>1. turns = N
          BY <3>3 DEF turns
        <4>2. ~(n > 1)
          BY SMTT(60), <1>1, <3>1, <4>1
        <4> QED
          BY <3>1, <3>3, <4>2 DEF Over
      <3> QED
        BY <3>2, <3>3
    <2> QED
      BY <2>1, <2>2
  <1>12. ASSUME budget.shape = "Blocks", D # {} PROVE Cardinality(p.ordered \ D) = budget.limit
    <2>1. turns = 1
      BY <1>12 DEF turns
    <2>2. K # 0
      <3>1. IsFiniteSet(D)
        BY <1>3, <1>8
      <3> HIDE DEF D
      <3> QED
        BY <1>10, <1>12, <3>1, FS_EmptySet
    <2>3. K = 1
      BY SMTT(60), <1>7, <2>1, <2>2
    <2>4. 0 \in 0..(K - 1) /\ 0 \in 0..N
      BY SMTT(60), <1>1, <2>3
    <2>5. Over(left(0))
      BY <1>7, <2>4
    <2>6. Cardinality(left(0).ordered) = N - 0
      BY <1>3, <2>4
    <2>7. N - 0 > budget.limit
      BY <1>12, <2>5, <2>6 DEF Over
    <2>8. N <= budget.limit + 1
      BY <1>12 DEF N
    <2>9. N - 1 = budget.limit
      BY SMTT(60), <1>1, <2>7, <2>8
    <2> QED
      BY <1>9, <1>10, <2>3, <2>9
  <1> HIDE DEF D
  <1> QED
    BY <1>2, <1>9, <1>11, <1>12

\* What an insertion leaves is within the budget and ranks above what it drops.
LEMMA InsertOK ==
  ASSUME budget \in Budgets, NEW p, PrunerOK(p), p.clock < MaxClock, NEW id \in BlockId, NEW z \in Size,
         z # 0 => z = PayloadLen[id] /\ id \in have, id \in have => z = PayloadLen[id],
         Unseeded => z = PayloadLen[id]
  PROVE  PrunerOK(insert(p, id, z))
  <1> DEFINE q == Added(p, id, z)
             e == NewEntry(p, id, z)
             old == EntryOf(p.index, id)
             rest == p.index \ old
  <1>1. Books(p) /\ ~Over(p)
    BY DEF PrunerOK, Books
  <1>2. Books(q)
    BY <1>1, AddedBooks
  <1>3. /\ q.index = rest \cup {e} /\ q.fed = (p.fed \ EntryOf(p.fed, id)) \cup {e} /\ Key(e) \in q.ordered
    BY DEF Added
  <1>4. /\ e \in EntrySet /\ e.id = id /\ e.size = z /\ e.seq = p.clock + 1 /\ p.clock + 1 \in 1..MaxClock
        /\ e.score = Score(budget.scorer, p.clock + 1, z) /\ \A f \in p.fed : f.seq < p.clock + 1 /\ f.seq # p.clock + 1
    <2> HIDE DEF q, old, rest
    <2> QED
      BY SMTT(60), <1>1, NewEntryTypes
  <1>5. /\ p.fed \subseteq EntrySet /\ p.index \subseteq p.fed /\ IsFiniteSet(p.index)
        /\ \A f \in p.fed : EntryOK(p, f)
        /\ \A x, y \in p.fed : x.id = y.id \/ x.seq = y.seq => x = y
        /\ \A x \in p.fed \ p.index, y \in p.index : Below(x, y)
        /\ budget.shape = "Blocks" /\ p.fed # p.index => Cardinality(p.index) = budget.limit
    BY <1>1, BooksTypes DEF PrunerOK
  <1> HIDE DEF q, e
  <1>6. q.index \subseteq q.fed /\ q.fed \subseteq EntrySet /\ IsFiniteSet(q.index) /\ budget.limit \in Nat
    BY <1>2, BooksTypes, PruneAssumption DEF Books
  <1>7. Cardinality(q.ordered) = Cardinality(q.index) /\ Cardinality(p.ordered) = Cardinality(p.index)
    BY <1>1, <1>2, KeysOrdered
  <1>8. /\ IsFiniteSet(rest) /\ Cardinality(rest) \in Nat /\ Cardinality(rest) <= Cardinality(p.index)
        /\ Cardinality(q.index) = Cardinality(rest) + 1 /\ Cardinality(p.index) \in Nat
        /\ (old # {} => Cardinality(p.index) = Cardinality(rest) + 1)
    <2>1. IsFiniteSet(rest) /\ Cardinality(rest) <= Cardinality(p.index)
      BY <1>5, FS_Subset
    <2>2. e \notin rest
      BY <1>4 DEF EntryOf
    <2>3. Cardinality(q.index) = Cardinality(rest) + 1
      <3> HIDE DEF rest
      <3> QED
        BY <1>3, <2>1, <2>2, FS_AddElement
    <2>4. ASSUME old # {} PROVE Cardinality(p.index) = Cardinality(rest) + 1
      <3>1. PICK x \in p.index : x.id = id
        BY <2>4 DEF EntryOf
      <3>2. \A y \in p.index : y.id = id => y = x
        BY <1>5, <3>1
      <3>3. x \notin rest /\ p.index = rest \cup {x}
        BY <3>1, <3>2 DEF EntryOf
      <3> HIDE DEF rest
      <3> QED
        BY <2>1, <3>3, FS_AddElement
    <2> QED
      BY <1>5, <2>1, <2>3, <2>4, FS_CardinalityType
  <1>9. budget.shape = "Blocks" => Cardinality(q.ordered) <= budget.limit + 1
    <2>1. budget.shape = "Blocks" => ~(Cardinality(p.index) > budget.limit)
      BY <1>1, <1>7 DEF Over
    <2> HIDE DEF rest
    <2>2. PICK a, b, c : a = Cardinality(rest) /\ b = Cardinality(p.index) /\ c = Cardinality(q.ordered)
      OBVIOUS
    <2>3. a \in Nat /\ b \in Nat /\ a <= b /\ c = a + 1 /\ (budget.shape = "Blocks" => ~(b > budget.limit))
      BY <1>7, <1>8, <2>1, <2>2
    <2>4. budget.shape = "Blocks" => c <= budget.limit + 1
      BY SMTT(60), <1>6, <2>3
    <2> QED
      BY <2>2, <2>4
  <1>10. PICK D \in SUBSET q.ordered :
           /\ EvictOver(q) = Drop(q, D) /\ ~Over(Drop(q, D))
           /\ \A x \in D, y \in q.ordered \ D : Below(x, y)
           /\ budget.shape = "Blocks" /\ D # {} => Cardinality(q.ordered \ D) = budget.limit
    BY <1>2, <1>3, <1>9, EvictEffect
  <1>11. insert(p, id, z) = Drop(q, D)
    BY <1>10, InsertIs DEF q
  <1> DEFINE v == Drop(q, D)
  <1>12. /\ Books(v) /\ v.fed = q.fed /\ v.ordered = q.ordered \ D /\ v.index = {x \in q.index : Key(x) \notin D}
    <2>1. D \in SUBSET q.ordered
      BY <1>10
    <2>2. Books(v) /\ v.fed = q.fed /\ v.ordered = q.ordered \ D
      BY <1>2, <2>1, DropBooks
    <2>3. v.index = {x \in q.index : Key(x) \notin D}
      <3>1. \A a : \A b \in SUBSET a.ordered : Books(a) => Drop(a, b).index = {x \in a.index : Key(x) \notin b}
        BY SMTT(60), DropBooks
      <3> QED
        BY <1>2, <2>1, <3>1
    <2> QED
      BY <2>2, <2>3
  <1> HIDE DEF v
  <1>13. Cardinality(v.ordered) = Cardinality(v.index)
    BY <1>12, KeysOrdered
  <1>14. q.ordered = {Key(x) : x \in q.index}
    BY <1>2 DEF Books
  \* An entry just dropped is below every entry kept.
  <1>15. ASSUME NEW x \in q.index \ v.index, NEW y \in v.index PROVE Below(x, y)
    <2>1. Key(x) \in D /\ Key(y) \in q.ordered \ D
      BY <1>12, <1>14
    <2>2. Below(Key(x), Key(y))
      BY <1>10, <2>1
    <2> QED
      BY <2>2, KeyFields DEF Below
  <1>16. \A x \in v.fed \ v.index : x \in q.index \ v.index \/ (x \in p.fed \ p.index /\ x.id # id)
    <2> SUFFICES ASSUME NEW x \in v.fed \ v.index, x \notin q.index PROVE x \in p.fed \ p.index /\ x.id # id
      OBVIOUS
    <2>1. x # e /\ x \in p.fed \ EntryOf(p.fed, id)
      BY <1>3, <1>12
    <2> QED
      BY <1>3, <2>1 DEF EntryOf
  \* An entry dropped earlier.
  <1>17. ASSUME NEW x \in p.fed \ p.index, x.id # id, NEW y \in v.index PROVE Below(x, y)
    <2>1. CASE y # e
      <3>1. y \in p.index
        BY <1>3, <1>12, <2>1
      <3> QED
        BY <1>5, <1>17, <3>1
    <2>2. CASE y = e
      <3>1. /\ x.score \in Nat /\ x.seq \in Nat /\ x.size \in Size /\ x.seq \in 1..MaxClock /\ x.seq < p.clock + 1
            /\ x.score = Score(budget.scorer, x.seq, x.size)
        BY <1>4, <1>5, EntryTypes DEF EntryOK
      <3>2. e.score \in Nat /\ e.seq \in Nat
        BY <1>4, EntryTypes
      <3>3. CASE budget.shape = "Tokens"
        <4>1. Score(budget.scorer, x.seq, x.size) < Score(budget.scorer, p.clock + 1, z)
          BY <1>4, <3>1, <3>3, PruneAssumption
        <4>2. x.score < e.score
          BY <1>4, <3>1, <4>1
        <4> QED
          BY <2>2, <4>2 DEF Below
      <3>4. CASE budget.shape = "Blocks"
        <4>1. PICK f \in p.index : Below(x, f) /\ Below(f, e)
          <5>1. CASE old # {}
            <6>1. PICK f \in p.index : f.id = id
              BY <5>1 DEF EntryOf
            <6>2. /\ f \in p.fed /\ f.score \in Nat /\ f.seq \in Nat /\ f.size \in Size /\ f.size \in Nat
                  /\ f.seq \in 1..MaxClock /\ f.seq < p.clock + 1
                  /\ f.score = Score(budget.scorer, f.seq, f.size)
                  /\ (f.size # 0 => f.size = PayloadLen[f.id] /\ f.id \in have)
              BY <1>4, <1>5, EntryTypes DEF EntryOK
            <6>3. f.size = 0 \/ f.size = z
              BY <6>1, <6>2
            <6>4. z \in Nat
              BY <1>4, EntryTypes
            <6>5. f.size <= z
              BY SMTT(60), <6>2, <6>3, <6>4
            <6>6. Score(budget.scorer, f.seq, f.size) <= Score(budget.scorer, p.clock + 1, z)
              <7>1. budget.shape # "Tokens"
                BY SMTT(60), <3>4
              <7> QED
                BY <1>4, <6>2, <6>5, <7>1, PruneAssumption
            <6>7. f.score <= e.score /\ f.seq < e.seq
              BY <1>4, <6>2, <6>6
            <6>8. Below(f, e)
              BY SMTT(60), <3>2, <6>2, <6>7 DEF Below
            <6> QED
              BY <1>5, <1>17, <6>1, <6>8
          <5>2. CASE old = {}
            <6>1. Cardinality(p.index) = budget.limit
              BY <1>5, <1>17, <3>4
            <6>2. rest = p.index
              BY <5>2
            <6>3. Cardinality(q.ordered) = budget.limit + 1
              BY <1>7, <1>8, <6>1, <6>2
            <6>4. D # {}
              <7> SUFFICES ASSUME D = {} PROVE FALSE
                OBVIOUS
              <7>1. v.ordered = q.ordered
                BY <1>12
              <7>2. ~Over(v) /\ Cardinality(v.ordered) = budget.limit + 1
                BY <1>10, <6>3, <7>1 DEF v
              <7>3. ~(budget.limit + 1 > budget.limit)
                BY <3>4, <7>2 DEF Over
              <7> QED
                BY SMTT(60), <1>6, <7>3
            <6>5. PICK f \in q.index : f \notin v.index
              BY <1>12, <1>14, <6>4
            <6>6. f # e
              BY <2>2, <6>5
            <6>7. f \in p.index
              BY <1>3, <6>5, <6>6
            <6>8. Below(f, e)
              BY <1>15, <2>2, <6>5
            <6> QED
              BY <1>5, <1>17, <6>7, <6>8
          <5> QED
            BY <5>1, <5>2
        <4>2. f.score \in Nat /\ f.seq \in Nat
          BY <1>5, EntryTypes
        <4>3. Below(x, e)
          BY SMTT(60), <3>1, <3>2, <4>1, <4>2 DEF Below
        <4> QED
          BY <2>2, <4>3
      <3> QED
        BY <3>3, <3>4, PruneAssumption
    <2> QED
      BY <2>1, <2>2
  <1>18. \A x \in v.fed \ v.index, y \in v.index : Below(x, y)
    BY <1>15, <1>16, <1>17
  <1>19. budget.shape = "Blocks" /\ v.fed # v.index => Cardinality(v.index) = budget.limit
    <2> SUFFICES ASSUME budget.shape = "Blocks", v.fed # v.index PROVE Cardinality(v.index) = budget.limit
      OBVIOUS
    <2>1. CASE D # {}
      BY <1>10, <1>12, <1>13, <2>1
    <2>2. CASE D = {}
      <3>1. v.index = q.index /\ q.fed # q.index
        BY <1>12, <2>2
      <3>2. PICK x \in p.fed \ p.index : x.id # id
        BY <1>6, <1>12, <1>16, <3>1
      <3>3. Cardinality(p.index) = budget.limit
        BY <1>5, <3>2
      <3>4. old # {}
        <4> SUFFICES ASSUME old = {} PROVE FALSE
          OBVIOUS
        <4>1. rest = p.index
          OBVIOUS
        <4>2. Cardinality(v.ordered) = budget.limit + 1
          BY <1>8, <1>13, <3>1, <3>3, <4>1
        <4>3. ~(budget.limit + 1 > budget.limit)
          BY <1>10, <4>2 DEF Over, v
        <4> QED
          BY SMTT(60), <1>6, <4>3
      <3>5. Cardinality(p.index) = Cardinality(rest) + 1 /\ Cardinality(q.index) = Cardinality(rest) + 1
        BY <1>8, <3>4
      <3> QED
        BY <3>1, <3>3, <3>5
    <2> QED
      BY <2>1, <2>2
  <1> QED
    BY <1>10, <1>11, <1>12, <1>18, <1>19 DEF PrunerOK, Books, v

\* f takes the elements of S to those of T, one to one, and w's values to v's.
Carries(f, S, T, w, v) ==
  /\ IsFiniteSet(S) /\ T = {f[x] : x \in S}
  /\ \A x, y \in S : f[x] = f[y] => x = y
  /\ \A x \in S : w[x] \in Nat /\ v[f[x]] = w[x]

\* A sum is the same over the distinct images of its elements.
LEMMA SumImage ==
  ASSUME NEW f, NEW S, NEW T, NEW w, NEW v, Carries(f, S, T, w, v)
  PROVE  SumFunctionOnSet(w, S) = SumFunctionOnSet(v, T)
  <1> USE DEF Carries
  <1> DEFINE Of(s) == {f[x] : x \in s}
             B == {s \in SUBSET S : SumFunctionOnSet(w, s) # SumFunctionOnSet(v, Of(s))}
  <1>0. \A s \in SUBSET S : IsFiniteSet(s) /\ IsFiniteSet(Of(s)) /\ \A y \in Of(s) : v[y] \in Nat
    <2>1. \A s \in SUBSET S : IsFiniteSet(s)
      BY FS_Subset
    <2>2. ASSUME NEW s \in SUBSET S PROVE IsFiniteSet(Of(s))
      <3> DEFINE g == [x \in s |-> f[x]]
      <3>1. g \in Surjection(s, Of(s))
        BY DEF Surjection
      <3> QED
        BY <2>1, <3>1, FS_Surjection
    <2> QED
      BY <2>1, <2>2
  <1>1. B = {}
    <2> SUFFICES ASSUME B # {} PROVE FALSE
      OBVIOUS
    <2>1. PICK s \in B : \A x \in s : s \ {x} \notin B
      BY SmallestSet
    <2>2. s \in SUBSET S /\ SumFunctionOnSet(w, s) # SumFunctionOnSet(v, Of(s))
      OBVIOUS
    <2>3. CASE s = {}
      <3>1. Of(s) = {}
        BY <2>3
      <3> HIDE DEF Of
      <3> QED
        BY <2>2, <2>3, <3>1, SumEmpty
    <2>4. CASE s # {}
      <3>1. PICK x \in s : TRUE
        BY <2>4
      <3>2. s \ {x} \in SUBSET S /\ x \in S
        BY <2>2
      <3>3. SumFunctionOnSet(w, s \ {x}) = SumFunctionOnSet(v, Of(s \ {x}))
        BY <2>1, <3>2
      <3>4. Of(s \ {x}) = Of(s) \ {f[x]} /\ f[x] \in Of(s)
        <4>1. \A y \in s \ {x} : f[y] # f[x]
          BY <2>2, <3>2
        <4>2. \A y \in Of(s \ {x}) : y \in Of(s) \ {f[x]}
          BY <4>1
        <4>3. \A y \in Of(s) \ {f[x]} : y \in Of(s \ {x})
          OBVIOUS
        <4> QED
          BY <4>2, <4>3
      <3>5. \A y \in s : w[y] \in Nat
        BY <2>2
      <3>6. SumFunctionOnSet(w, s) = w[x] + SumFunctionOnSet(w, s \ {x})
        BY <1>0, <2>2, <3>5, SumSplit
      <3>7. IsFiniteSet(Of(s)) /\ \A y \in Of(s) : v[y] \in Nat
        BY <1>0, <2>2
      <3> HIDE DEF Of
      <3>8. SumFunctionOnSet(v, Of(s)) = v[f[x]] + SumFunctionOnSet(v, Of(s) \ {f[x]})
        BY <3>4, <3>7, SumSplit
      <3> QED
        BY <2>2, <3>2, <3>3, <3>4, <3>6, <3>8
    <2> QED
      BY <2>3, <2>4
  <1>2. S \in SUBSET S
    OBVIOUS
  <1>3. SumFunctionOnSet(w, S) = SumFunctionOnSet(v, Of(S))
    BY <1>1, <1>2
  <1>4. T = Of(S)
    OBVIOUS
  <1> QED
    BY <1>3, <1>4

\* The ids handed out are the survivors', each once.
LEMMA WindowIs ==
  ASSUME NEW p, Books(p)
  PROVE  /\ window_ordered(p) \in Seq(BlockId) /\ IsInjective(window_ordered(p))
         /\ Len(window_ordered(p)) = Cardinality(p.index)
         /\ (\A e \in p.index : e.size = PayloadLen[e.id]) => Bytes(window_ordered(p)) = p.total_size
  <1> DEFINE S == p.index
             N == Cardinality(S)
             r == {x \in S \X S : x[1].seq < x[2].seq}
             Rank(e) == Cardinality({f \in S : f.seq <= e.seq})
             At(i) == CHOOSE e \in S : Rank(e) = i
             win == window_ordered(p)
  <1>1. IsFiniteSet(S) /\ N \in Nat /\ p.total_size = Sizes(S)
    BY FS_CardinalityType DEF Books
  <1>2. \A e \in S : e.seq \in Nat /\ e.id \in BlockId /\ e.size \in Nat
    BY BooksTypes, EntryTypes
  <1>3. \A x, y \in S : x.id = y.id \/ x.seq = y.seq => x = y
    BY DEF Books
  <1>4. win = [i \in 1..N |-> At(i).id]
    BY DEF window_ordered
  <1> HIDE DEF S, win
  <1>5. \A x, y \in S : <<x, y>> \in r <=> x.seq < y.seq
    BY SMTT(60)
  <1> HIDE DEF r
  <1>6. OrderedBy(S, r)
    <2>1. \A x \in S : ~(x.seq < x.seq)
      BY SMTT(60), <1>2
    <2>2. \A x, y \in S : x = y \/ x.seq < y.seq \/ y.seq < x.seq
      BY SMTT(60), <1>2, <1>3
    <2>3. \A x, y, z \in S : x.seq < y.seq /\ y.seq < z.seq => x.seq < z.seq
      BY SMTT(60), <1>2
    <2> QED
      BY <1>5, <2>1, <2>2, <2>3 DEF OrderedBy
  <1>7. ASSUME NEW x \in S PROVE Rank(x) = Cardinality(Ranked(S, r, x))
    <2>1. \A y \in S : y.seq <= x.seq <=> <<x, y>> \notin r
      BY SMTT(60), <1>2, <1>5
    <2>2. {y \in S : y.seq <= x.seq} = Ranked(S, r, x)
      BY <2>1 DEF Ranked
    <2> QED
      BY <2>2
  <1> HIDE DEF Rank
  <1>8. /\ \A x \in S : Rank(x) \in 1..N
        /\ \A x, y \in S : Rank(x) = Rank(y) => x = y
        /\ \A i \in 1..N : \E x \in S : Rank(x) = i
    <2>1. /\ \A x \in S : Cardinality(Ranked(S, r, x)) \in 1..N
          /\ \A x, y \in S : Cardinality(Ranked(S, r, x)) = Cardinality(Ranked(S, r, y)) => x = y
          /\ \A i \in 1..N : \E x \in S : Cardinality(Ranked(S, r, x)) = i
      <3>1. \A x \in S : Cardinality(Ranked(S, r, x)) \in 1..N
        BY <1>1, <1>6, RanksNumber
      <3>2. \A x, y \in S : Cardinality(Ranked(S, r, x)) = Cardinality(Ranked(S, r, y)) => x = y
        BY <1>1, <1>6, RanksNumber
      <3>3. \A i \in 1..N : \E x \in S : Cardinality(Ranked(S, r, x)) = i
        BY SMTT(60), <1>1, <1>6, RanksNumber
      <3> QED
        BY <3>1, <3>2, <3>3
    <2>2. \A x \in S : Rank(x) \in 1..N
      BY <1>7, <2>1
    <2>3. \A x, y \in S : Rank(x) = Rank(y) => x = y
      BY <1>7, <2>1
    <2>4. \A i \in 1..N : \E x \in S : Rank(x) = i
      BY <1>7, <2>1
    <2> QED
      BY <2>2, <2>3, <2>4
  <1>9. \A i \in 1..N : At(i) \in S /\ Rank(At(i)) = i
    BY <1>8
  <1>10. \A x \in S : At(Rank(x)) = x
    BY <1>8, <1>9
  <1> HIDE DEF At, N
  <1>11. DOMAIN win = 1..N /\ \A i \in 1..N : win[i] = At(i).id /\ win[i] \in BlockId
    BY <1>2, <1>4, <1>9
  <1>12. win \in Seq(BlockId) /\ Len(win) = N
    <2>1. win = [i \in 1..N |-> win[i]]
      BY <1>4, <1>11
    <2> QED
      BY SMTT(60), <1>1, <1>11, <2>1
  <1>13. \A i, j \in 1..N : At(i) = At(j) => i = j
    BY <1>9
  <1>14. IsInjective(win)
    <2> SUFFICES ASSUME NEW i \in 1..N, NEW j \in 1..N, win[i] = win[j] PROVE i = j
      BY <1>11 DEF IsInjective
    <2>1. At(i).id = At(j).id
      BY <1>11
    <2> QED
      BY <1>3, <1>9, <1>13, <2>1
  <1>15. ASSUME \A e \in S : e.size = PayloadLen[e.id] PROVE Bytes(win) = p.total_size
    <2> DEFINE f == [i \in 1..N |-> At(i)]
               w == [i \in 1..N |-> PayloadLen[win[i]]]
               v == [e \in S |-> e.size]
    <2>1. IsFiniteSet(1..N)
      BY SMTT(60), <1>1, FS_Interval
    <2>2. \A i, j \in 1..N : f[i] = f[j] => i = j
      BY <1>13
    <2>3. \A i \in 1..N : w[i] \in Nat /\ v[f[i]] = w[i]
      <3> SUFFICES ASSUME NEW i \in 1..N PROVE w[i] \in Nat /\ v[f[i]] = w[i]
        OBVIOUS
      <3>1. f[i] = At(i) /\ At(i) \in S /\ win[i] = At(i).id
        BY <1>9, <1>11
      <3>2. v[f[i]] = At(i).size
        BY <3>1
      <3>3. w[i] = PayloadLen[At(i).id]
        BY <3>1
      <3> QED
        BY <1>2, <1>15, <3>1, <3>2, <3>3
    <2>4. S = {f[x] : x \in 1..N}
      <3>1. \A i \in 1..N : f[i] \in S
        BY <1>9
      <3>2. \A x \in S : Rank(x) \in 1..N /\ f[Rank(x)] = x
        BY <1>8, <1>10
      <3> QED
        BY <3>1, <3>2
    <2> HIDE DEF f
    <2>6. SumFunctionOnSet(w, 1..N) = SumFunctionOnSet(v, S)
      <3> HIDE DEF w, v
      <3> QED
        <4>1. Carries(f, 1..N, S, w, v)
          BY <2>1, <2>2, <2>3, <2>4 DEF Carries
        <4> QED
          BY SMTT(60), <4>1, SumImage
    <2>7. Bytes(win) = SumFunctionOnSet(w, 1..N)
      BY <1>11 DEF Bytes
    <2>8. Sizes(S) = SumFunctionOnSet(v, S)
      BY DEF Sizes
    <2> QED
      BY <1>1, <2>6, <2>7, <2>8
  <1> QED
    BY <1>12, <1>14, <1>15 DEF S, win, N

LEMMA WindowFits ==
  ASSUME budget \in Budgets, NEW p, PrunerOK(p)
  PROVE  /\ window_ordered(p) \in Seq(BlockId) /\ IsInjective(window_ordered(p))
         /\ Unseeded => Fits(window_ordered(p))
  <1>1. Books(p) /\ ~Over(p)
    BY DEF PrunerOK, Books
  <1>2. Cardinality(p.ordered) = Cardinality(p.index) /\ IsFiniteSet(p.index)
    BY <1>1, KeysOrdered DEF Books
  <1>3. window_ordered(p) \in Seq(BlockId) /\ IsInjective(window_ordered(p)) /\ Len(window_ordered(p)) = Cardinality(p.index)
    BY <1>1, WindowIs
  <1>4. ASSUME Unseeded PROVE Fits(window_ordered(p))
    <2>1. \A e \in p.index : e.size = PayloadLen[e.id]
      BY <1>4 DEF PrunerOK
    <2>2. Bytes(window_ordered(p)) = p.total_size
      BY <1>1, <2>1, WindowIs
    <2>3. PICK n : n = Len(window_ordered(p)) /\ n = Cardinality(p.ordered) /\ n \in Nat
      BY <1>2, <1>3, FS_CardinalityType
    <2>4. p.total_size \in Nat /\ budget.limit \in Nat
      BY <1>1, BooksTypes, PruneAssumption
    <2>5. CASE budget.shape = "Blocks"
      <3>1. ~(n > budget.limit)
        BY <1>1, <2>3, <2>5 DEF Over
      <3>2. n <= budget.limit
        BY SMTT(60), <2>3, <2>4, <3>1
      <3> QED
        BY <2>3, <2>5, <3>2 DEF Fits
    <2>6. CASE budget.shape # "Blocks"
      <3>1. ~(p.total_size > budget.limit /\ n > 1)
        BY <1>1, <2>3, <2>6 DEF Over
      <3>2. n <= 1 \/ p.total_size <= budget.limit
        BY SMTT(60), <2>3, <2>4, <3>1
      <3> QED
        BY <2>2, <2>3, <2>6, <3>2 DEF Fits
    <2> QED
      BY <2>5, <2>6
  <1> QED
    BY <1>3, <1>4

\* Leaving out blocks keeps a window within the budget.
LEMMA SelectFits ==
  ASSUME budget \in Budgets, NEW q \in Seq(BlockId), IsInjective(q), Fits(q), NEW keep \in SUBSET DOMAIN q
  PROVE  Fits(Select(q, keep))
  <1> DEFINE s == Select(q, keep)
             w == [i \in DOMAIN q |-> PayloadLen[q[i]]]
             u == [i \in DOMAIN s |-> PayloadLen[s[i]]]
  <1>1. /\ IsFiniteSet(keep) /\ Len(s) = Cardinality(keep) /\ Range(s) = {q[x] : x \in keep} /\ IsInjective(s)
    BY SelectEffect
  <1>2. s \in Seq(BlockId)
    BY SelectType
  <1> HIDE DEF s
  <1>3. /\ DOMAIN q = 1..Len(q) /\ Len(q) \in Nat /\ DOMAIN s = 1..Len(s) /\ Len(s) \in Nat
        /\ \A i \in DOMAIN q : q[i] \in BlockId
        /\ \A i \in DOMAIN s : s[i] \in BlockId
    BY SMTT(60), <1>2
  <1>4. IsFiniteSet(DOMAIN q) /\ Cardinality(DOMAIN q) = Len(q) /\ IsFiniteSet(DOMAIN s)
    <2>1. IsFiniteSet(1..Len(q)) /\ Cardinality(1..Len(q)) = Len(q) /\ IsFiniteSet(1..Len(s))
      <3>1. PICK m, n \in Nat : m = Len(q) /\ n = Len(s)
        BY <1>3
      <3>2. IsFiniteSet(1..m) /\ Cardinality(1..m) = m /\ IsFiniteSet(1..n)
        BY SMTT(60), FS_Interval
      <3> QED
        BY <3>1, <3>2
    <2> QED
      BY <1>3, <2>1
  <1>5. Len(s) <= Len(q)
    BY <1>1, <1>4, FS_Subset
  <1>6. \A id \in BlockId : PayloadLen[id] \in Nat
    BY PruneAssumption
  <1>7. (\A i \in DOMAIN q : w[i] \in Nat /\ PayloadLen[q[i]] = w[i]) /\ (\A i \in DOMAIN s : u[i] \in Nat /\ PayloadLen[s[i]] = u[i])
    BY <1>3, <1>6
  <1>8. Bytes(q) = SumFunctionOnSet(w, DOMAIN q) /\ Bytes(s) = SumFunctionOnSet(u, DOMAIN s)
    BY DEF Bytes
  <1> HIDE DEF w, u
  <1>9. SumFunctionOnSet(u, DOMAIN s) = SumFunctionOnSet(PayloadLen, Range(s))
    <2>1. \A x, y \in DOMAIN s : s[x] = s[y] => x = y
      BY <1>1 DEF IsInjective
    <2>2. Range(s) = {s[x] : x \in DOMAIN s}
      BY DEF Range
    <2> QED
      <3>1. Carries(s, DOMAIN s, Range(s), u, PayloadLen)
        BY <1>4, <1>7, <2>1, <2>2 DEF Carries
      <3> QED
        BY SMTT(60), <3>1, SumImage
  <1>10. SumFunctionOnSet(w, keep) = SumFunctionOnSet(PayloadLen, Range(s))
    <2>1. \A x, y \in keep : q[x] = q[y] => x = y
      BY DEF IsInjective
    <2>2. \A i \in keep : w[i] \in Nat /\ PayloadLen[q[i]] = w[i]
      BY <1>7
    <2> QED
      <3>1. Carries(q, keep, Range(s), w, PayloadLen)
        BY <1>1, <2>1, <2>2 DEF Carries
      <3> QED
        BY SMTT(60), <3>1, SumImage
  <1>11. Bytes(s) = SumFunctionOnSet(w, keep)
    BY <1>8, <1>9, <1>10
  <1>12. /\ SumFunctionOnSet(w, DOMAIN q) = SumFunctionOnSet(w, keep) + SumFunctionOnSet(w, DOMAIN q \ keep)
         /\ SumFunctionOnSet(w, keep) \in Nat /\ SumFunctionOnSet(w, DOMAIN q \ keep) \in Nat
    <2>1. \A i \in DOMAIN q : w[i] \in Nat
      BY <1>7
    <2>2. DOMAIN q \ keep \in SUBSET DOMAIN q
      OBVIOUS
    <2> QED
      BY <1>4, <2>1, <2>2, SumParts, SumNat
  <1>13. Bytes(s) \in Nat /\ Bytes(q) \in Nat /\ Bytes(s) <= Bytes(q)
    <2>1. PICK a, b : a = SumFunctionOnSet(w, keep) /\ b = SumFunctionOnSet(w, DOMAIN q \ keep)
      OBVIOUS
    <2>2. a \in Nat /\ b \in Nat /\ Bytes(s) = a /\ Bytes(q) = a + b
      BY <1>8, <1>11, <1>12, <2>1
    <2> QED
      BY SMTT(60), <2>2
  <1>14. budget.limit \in Nat
    BY PruneAssumption
  <1>15. (Len(q) <= budget.limit => Len(s) <= budget.limit) /\ (Len(q) <= 1 => Len(s) <= 1)
         /\ (Bytes(q) <= budget.limit => Bytes(s) <= budget.limit)
    BY SMTT(60), <1>3, <1>5, <1>13, <1>14
  <1> QED
    BY <1>15 DEF Fits, s

-----------------------------------------------------------------------------
(***************************************************************************)
(* The invariant, with the state it speaks of as a parameter.              *)
(***************************************************************************)
UnseededIn(l) == \A ids \in Manifests : ~StartsWith(l, ids)

FitsIn(ids, b) == IF b.shape = "Blocks" THEN Len(ids) <= b.limit
                                        ELSE Len(ids) <= 1 \/ Bytes(ids) <= b.limit

EntryIn(p, e, b, h) ==
  /\ e.seq <= p.clock /\ e.score = Score(b.scorer, e.seq, e.size)
  /\ e.size # 0 => e.size = PayloadLen[e.id] /\ e.id \in h

PrunerIn(p, b, h, l) ==
  /\ p \in PrunerSet /\ p.index \subseteq p.fed /\ IsFiniteSet(p.index)
  /\ \A e \in p.fed : EntryIn(p, e, b, h)
  /\ \A e, f \in p.fed : e.id = f.id \/ e.seq = f.seq => e = f
  /\ p.ordered = {Key(e) : e \in p.index}
  /\ p.total_size = Sizes(p.index)
  /\ ~(IF b.shape = "Blocks" THEN Cardinality(p.ordered) > b.limit
                             ELSE p.total_size > b.limit /\ Cardinality(p.ordered) > 1)
  /\ \A e \in p.fed \ p.index, f \in p.index : Below(e, f)
  /\ b.shape = "Blocks" /\ p.fed # p.index => Cardinality(p.index) = b.limit
  /\ UnseededIn(l) => \A e \in p.index : e.size = PayloadLen[e.id]

PruneIn(b, l, h, p, c, a, k, w) ==
  /\ b \in Budgets /\ l \in Seq(BlockId) /\ h \subseteq BlockId
  /\ p # None => PrunerIn(p, b, h, l)
  /\ c # None => c \in [todo: Seq(BlockId), p: PrunerSet] /\ PrunerIn(c.p, b, h, l)
  /\ a # None => a \in h
  /\ UnseededIn(l) => Range(l) \subseteq h /\ (c # None => Range(c.todo) \subseteq h)
  /\ k # None => k \in Seq(BlockId) /\ IsInjective(k) /\ (UnseededIn(l) => FitsIn(k, b))
  /\ UnseededIn(l) => FitsIn(w, b)

LEMMA PrunerInIs ==
  ASSUME NEW p
  PROVE  PrunerOK(p) <=> PrunerIn(p, budget, have, log)
  BY DEF PrunerOK, PrunerIn, EntryOK, EntryIn, Over, Unseeded, UnseededIn

LEMMA PruneInIs == PruneInv <=> PruneIn(budget, log, have, pruner, cold, arrived, asked, window)
  BY DEF PruneInv, PruneIn, WindowWithinBudget, Fits, FitsIn, PrunerOK, PrunerIn, EntryOK, EntryIn, Over, Unseeded, UnseededIn

LEMMA PruneInNext == PruneInv' <=> PruneIn(budget', log', have', pruner', cold', arrived', asked', window')
  BY DEF PruneInv, PruneIn, WindowWithinBudget, Fits, FitsIn, PrunerOK, PrunerIn, EntryOK, EntryIn, Over, Unseeded, UnseededIn

\* A pruner stays as sound when blocks arrive.
LEMMA PrunerKept ==
  ASSUME NEW p, NEW b, NEW h, NEW l, PrunerIn(p, b, h, l),
         NEW g, h \subseteq g, NEW m, UnseededIn(m) => UnseededIn(l)
  PROVE  PrunerIn(p, b, g, m)
  <1>1. \A e \in p.fed : EntryIn(p, e, b, h)
    BY DEF PrunerIn
  <1>2. \A e \in p.fed : EntryIn(p, e, b, g)
    BY <1>1 DEF EntryIn
  <1> QED
    BY <1>2 DEF PrunerIn

LEMMA UnseededAppend ==
  ASSUME NEW l \in Seq(BlockId), NEW id \in BlockId, UnseededIn(Append(l, id))
  PROVE  UnseededIn(l)
  <1> SUFFICES ASSUME NEW ids \in Manifests, StartsWith(l, ids) PROVE StartsWith(Append(l, id), ids)
    BY DEF UnseededIn
  <1>1. ids \in Seq(BlockId)
    BY PruneAssumption
  <1>2. PICK n \in Nat : n = Len(ids)
    BY SMTT(60), <1>1
  <1>3. n <= Len(l) /\ SubSeq(l, 1, n) = ids
    BY <1>2 DEF StartsWith
  <1>4. SubSeq(Append(l, id), 1, n) = SubSeq(l, 1, n) /\ n <= Len(Append(l, id))
    BY SMTT(60), <1>2, <1>3
  <1> QED
    BY <1>2, <1>3, <1>4 DEF StartsWith

LEMMA NewPrunerOK ==
  ASSUME budget \in Budgets
  PROVE  PrunerOK(NewPruner)
  <1>1. /\ NewPruner.ordered = {} /\ NewPruner.index = {} /\ NewPruner.total_size = 0 /\ NewPruner.clock = 0
        /\ NewPruner.fed = {}
    BY DEF NewPruner
  <1>2. NewPruner \in PrunerSet
    <2>1. MaxClock \in Nat
      BY PruneAssumption
    <2> QED
      BY SMTT(60), <2>1 DEF NewPruner, PrunerSet
  <1>3. Sizes({}) = 0
    BY SumEmpty DEF Sizes
  <1>4. IsFiniteSet({}) /\ Cardinality({}) = 0
    BY FS_EmptySet
  <1>5. ~Over(NewPruner)
    <2>1. ~(0 > budget.limit) /\ ~(0 > 1)
      <3>1. budget.limit \in Nat
        BY PruneAssumption
      <3> QED
        BY SMTT(60), <3>1
    <2> QED
      BY <1>1, <1>4, <2>1 DEF Over
  <1> HIDE DEF NewPruner
  <1> QED
    BY <1>1, <1>2, <1>3, <1>4, <1>5 DEF PrunerOK

\* The append path, a resync's seed and a recovery.
LEMMA StoreKeepsPrune ==
  ASSUME PruneInv,
         \/ \E id \in BlockId : AppendBlock(id) \/ Recover(id)
         \/ \E ids \in Manifests : Seed(ids)
  PROVE  PruneInv'
  <1>1. PruneIn(budget, log, have, pruner, cold, arrived, asked, window)
    BY PruneInIs
  <1>2. /\ budget' = budget /\ pruner' = pruner /\ cold' = cold /\ asked' = asked /\ window' = window
        /\ have \subseteq have'
    BY DEF AppendBlock, Recover, Seed
  <1>3. /\ log' \in Seq(BlockId) /\ have' \subseteq BlockId
        /\ UnseededIn(log') => UnseededIn(log) /\ Range(log') \subseteq have'
        /\ arrived' # None => arrived' \in have'
    <2>1. CASE \E id \in BlockId : AppendBlock(id)
      <3>1. PICK id \in BlockId : AppendBlock(id)
        BY <2>1
      <3>2. /\ log' = Append(log, id) /\ have' = have \cup {id} /\ arrived' = id /\ log \in Seq(BlockId)
            /\ have \subseteq BlockId
        BY <1>1, <3>1 DEF AppendBlock, PruneIn
      <3>3. log' \in Seq(BlockId)
        BY SMTT(60), <3>2
      <3>4. UnseededIn(log') => UnseededIn(log)
        BY <3>2, UnseededAppend
      <3>5. Range(log') = Range(log) \cup {id}
        BY <3>2, RangeAppend
      <3>6. UnseededIn(log') => Range(log') \subseteq have'
        BY <1>1, <3>2, <3>4, <3>5 DEF PruneIn
      <3> QED
        BY <3>2, <3>3, <3>4, <3>6
    <2>2. CASE \E id \in BlockId : Recover(id)
      <3>1. PICK id \in BlockId : Recover(id)
        BY <2>2
      <3> QED
        BY <1>1, <3>1 DEF Recover, PruneIn
    <2>3. CASE \E ids \in Manifests : Seed(ids)
      <3>1. PICK ids \in Manifests : Seed(ids)
        BY <2>3
      <3>2. log' = ids /\ have' = have /\ arrived' = arrived /\ ids \in Seq(BlockId)
        BY <3>1, PruneAssumption DEF Seed
      <3>3. StartsWith(ids, ids)
        BY SMTT(60), <3>2 DEF StartsWith
      <3>4. ~UnseededIn(log')
        BY <3>2, <3>3 DEF UnseededIn
      <3> QED
        BY <1>1, <3>2, <3>4 DEF PruneIn
    <2> QED
      BY <2>1, <2>2, <2>3
  <1>4. pruner # None => PrunerIn(pruner, budget, have', log')
    BY <1>1, <1>2, <1>3, PrunerKept DEF PruneIn
  <1>5. cold # None => PrunerIn(cold.p, budget, have', log')
    BY <1>1, <1>2, <1>3, PrunerKept DEF PruneIn
  <1>6. PruneIn(budget', log', have', pruner', cold', arrived', asked', window')
    BY <1>1, <1>2, <1>3, <1>4, <1>5 DEF PruneIn
  <1> QED
    BY <1>6, PruneInNext

LEMMA IngestKeepsPrune ==
  ASSUME PruneInv, ingest_block
  PROVE  PruneInv'
  <1>1. PruneIn(budget, log, have, pruner, cold, arrived, asked, window)
    BY PruneInIs
  <1>2. PICK p : /\ p = (IF pruner = None THEN NewPruner ELSE pruner) /\ p.clock < MaxClock
                 /\ pruner' = insert(p, arrived, PayloadLen[arrived])
    BY DEF ingest_block
  <1>3. /\ arrived # None /\ arrived' = None /\ budget' = budget /\ log' = log /\ have' = have /\ cold' = cold
        /\ asked' = asked /\ window' = window
    BY DEF ingest_block
  <1>4. budget \in Budgets /\ arrived \in have /\ arrived \in BlockId
    BY <1>1, <1>3 DEF PruneIn
  <1>5. PrunerOK(p)
    BY <1>1, <1>2, <1>4, NewPrunerOK, PrunerInIs DEF PruneIn
  <1>6. PayloadLen[arrived] \in Size
    BY <1>4 DEF Size
  <1>7. PrunerOK(insert(p, arrived, PayloadLen[arrived]))
    BY <1>2, <1>4, <1>5, <1>6, InsertOK
  <1>8. PrunerIn(pruner', budget, have, log)
    BY <1>2, <1>7, PrunerInIs
  <1>9. PruneIn(budget', log', have', pruner', cold', arrived', asked', window')
    BY <1>1, <1>3, <1>8 DEF PruneIn
  <1> QED
    BY <1>9, PruneInNext

LEMMA ColdKeepsPrune ==
  ASSUME PruneInv, ColdRead \/ ColdInsert \/ ColdPublish
  PROVE  PruneInv'
  <1>1. PruneIn(budget, log, have, pruner, cold, arrived, asked, window)
    BY PruneInIs
  <1>2. /\ budget' = budget /\ log' = log /\ have' = have /\ arrived' = arrived /\ asked' = asked /\ window' = window
    BY DEF ColdRead, ColdInsert, ColdPublish
  <1>3. budget \in Budgets /\ log \in Seq(BlockId)
    BY <1>1 DEF PruneIn
  <1>4. \A p : PrunerOK(p) => PrunerIn(p, budget, have, log) /\ p \in PrunerSet
    BY PrunerInIs DEF PrunerOK
  <1>5. CASE ColdPublish
    <2>1. cold # None /\ pruner' = cold.p /\ cold' = None
      BY <1>5 DEF ColdPublish
    <2>2. PrunerIn(pruner', budget, have, log)
      BY <1>1, <2>1 DEF PruneIn
    <2>3. PruneIn(budget', log', have', pruner', cold', arrived', asked', window')
      BY <1>1, <1>2, <2>1, <2>2 DEF PruneIn
    <2> QED
      BY <2>3, PruneInNext
  <1>6. ASSUME pruner' = pruner, NEW t \in Seq(BlockId), NEW p, PrunerOK(p), cold' = [todo |-> t, p |-> p],
               UnseededIn(log) => Range(t) \subseteq have
        PROVE  PruneInv'
    <2>1. PrunerIn(p, budget, have, log) /\ p \in PrunerSet
      BY <1>4, <1>6
    <2>2. cold'.todo = t /\ cold'.p = p
      BY <1>6
    <2>3. cold' \in [todo: Seq(BlockId), p: PrunerSet]
      <3>1. PICK T, P : T = Seq(BlockId) /\ P = PrunerSet
        OBVIOUS
      <3>2. t \in T /\ p \in P
        BY <2>1, <3>1
      <3>3. [todo |-> t, p |-> p] \in [todo: T, p: P]
        BY SMTT(60), <3>2
      <3> QED
        BY <1>6, <3>1, <3>3
    <2>4. PruneIn(budget', log', have', pruner', cold', arrived', asked', window')
      BY <1>1, <1>2, <1>6, <2>1, <2>2, <2>3 DEF PruneIn
    <2> QED
      BY <2>4, PruneInNext
  <1>7. CASE ColdRead
    <2>1. pruner' = pruner /\ cold' = [todo |-> log, p |-> NewPruner]
      BY <1>7 DEF ColdRead
    <2>2. UnseededIn(log) => Range(log) \subseteq have
      BY <1>1 DEF PruneIn
    <2> QED
      BY <1>3, <1>6, <2>1, <2>2, NewPrunerOK
  <1>8. CASE ColdInsert
    <2>1. PICK id, t, p, z : /\ id = Head(cold.todo) /\ t = Tail(cold.todo) /\ p = cold.p
                             /\ z = (IF id \in have THEN PayloadLen[id] ELSE 0)
                             /\ cold' = [todo |-> t, p |-> insert(p, id, z)]
      BY <1>8 DEF ColdInsert
    <2>2. pruner' = pruner /\ cold # None /\ cold.todo # <<>> /\ p.clock < MaxClock
      BY <1>8, <2>1 DEF ColdInsert
    <2>3. /\ cold \in [todo: Seq(BlockId), p: PrunerSet]
          /\ UnseededIn(log) => Range(cold.todo) \subseteq have
      BY <1>1, <2>2 DEF PruneIn
    <2>4. PICK s : s = cold.todo /\ s \in Seq(BlockId) /\ s # <<>>
      <3>1. cold.todo \in Seq(BlockId)
        <4> HIDE DEF PrunerSet
        <4> QED
          BY SMTT(60), <2>3
      <3> QED
        BY <2>2, <3>1
    <2>5. id = Head(s) /\ t = Tail(s)
      BY <2>1, <2>4
    <2>6. /\ id \in BlockId /\ t \in Seq(BlockId) /\ 1 \in DOMAIN s /\ id = s[1]
          /\ \A i \in DOMAIN t : i + 1 \in DOMAIN s /\ t[i] = s[i + 1]
      BY SMTT(60), <2>4, <2>5
    <2>7. id \in Range(s) /\ Range(t) \subseteq Range(s)
      BY <2>6 DEF Range
    <2>8. UnseededIn(log) => id \in have /\ Range(t) \subseteq have
      BY <2>3, <2>4, <2>7
    <2>9. /\ z \in Size /\ (z # 0 => z = PayloadLen[id] /\ id \in have) /\ (id \in have => z = PayloadLen[id])
          /\ (Unseeded => z = PayloadLen[id])
      BY <2>1, <2>6, <2>8 DEF Size, Unseeded, UnseededIn
    <2>10. PrunerOK(p)
      BY <1>1, <2>1, <2>2, PrunerInIs DEF PruneIn
    <2>11. PrunerOK(insert(p, id, z))
      BY <1>3, <2>2, <2>6, <2>9, <2>10, InsertOK
    <2> QED
      BY <1>6, <2>1, <2>2, <2>6, <2>8, <2>11
  <1> QED
    BY <1>5, <1>7, <1>8

LEMMA WindowKeepsPrune ==
  ASSUME PruneInv, WindowIds \/ WindowBlocks
  PROVE  PruneInv'
  <1>1. PruneIn(budget, log, have, pruner, cold, arrived, asked, window)
    BY PruneInIs
  <1>2. /\ budget' = budget /\ log' = log /\ have' = have /\ pruner' = pruner /\ cold' = cold /\ arrived' = arrived
    BY DEF WindowIds, WindowBlocks
  <1>3. budget \in Budgets
    BY <1>1 DEF PruneIn
  <1>4. \A ids : Fits(ids) <=> FitsIn(ids, budget)
    BY DEF Fits, FitsIn
  <1>5. Unseeded <=> UnseededIn(log)
    BY DEF Unseeded, UnseededIn
  <1>6. CASE WindowIds
    <2>1. pruner # None /\ asked' = window_ordered(pruner) /\ window' = window
      BY <1>6 DEF WindowIds
    <2>2. PrunerOK(pruner)
      BY <1>1, <2>1, PrunerInIs DEF PruneIn
    <2>3. /\ asked' \in Seq(BlockId) /\ IsInjective(asked') /\ (UnseededIn(log) => FitsIn(asked', budget))
      BY <1>3, <1>4, <1>5, <2>1, <2>2, WindowFits
    <2>4. PruneIn(budget', log', have', pruner', cold', arrived', asked', window')
      BY <1>1, <1>2, <2>1, <2>3 DEF PruneIn
    <2> QED
      BY <2>4, PruneInNext
  <1>7. CASE WindowBlocks
    <2>1. PICK keep : keep = {i \in DOMAIN asked : asked[i] \in have} /\ window' = Select(asked, keep)
      BY <1>7 DEF WindowBlocks
    <2>2. asked # None /\ asked' = None /\ keep \in SUBSET DOMAIN asked
      BY <1>7, <2>1 DEF WindowBlocks
    <2>3. asked \in Seq(BlockId) /\ IsInjective(asked) /\ (UnseededIn(log) => FitsIn(asked, budget))
      BY <1>1, <2>2 DEF PruneIn
    <2>4. UnseededIn(log) => Fits(Select(asked, keep))
      BY <1>3, <1>4, <2>2, <2>3, SelectFits
    <2>5. UnseededIn(log) => FitsIn(window', budget)
      BY <1>4, <2>1, <2>4
    <2>6. PruneIn(budget', log', have', pruner', cold', arrived', asked', window')
      BY <1>1, <1>2, <2>2, <2>5 DEF PruneIn
    <2> QED
      BY <2>6, PruneInNext
  <1> QED
    BY <1>6, <1>7

\* Every pruner, published or being built, is sound after any interleaving of
\* appends, seeds, recoveries, ingests, cold starts and reads of the window.
THEOREM PruneInvariance == PrunerSpec => []PruneInv
  <1>1. PrunerInit => PruneInv
    <2> SUFFICES ASSUME PrunerInit PROVE PruneInv
      OBVIOUS
    <2>1. /\ budget \in Budgets /\ log = <<>> /\ have = {} /\ pruner = None /\ cold = None
          /\ arrived = None /\ asked = None /\ window = <<>>
      BY DEF PrunerInit
    <2>2. log \in Seq(BlockId) /\ Range(log) = {} /\ DOMAIN window = {} /\ Len(window) = 0
      BY SMTT(60), <2>1 DEF Range
    <2>3. budget.limit \in Nat
      BY <2>1, PruneAssumption
    <2>4. 0 <= budget.limit /\ 0 <= 1
      BY SMTT(60), <2>3
    <2>5. FitsIn(window, budget)
      BY <2>2, <2>4 DEF FitsIn
    <2>6. PruneIn(budget, log, have, pruner, cold, arrived, asked, window)
      BY <2>1, <2>2, <2>5 DEF PruneIn
    <2> QED
      BY <2>6, PruneInIs
  <1>2. PruneInv /\ [PrunerNext]_prunerVars => PruneInv'
    <2> SUFFICES ASSUME PruneInv, [PrunerNext]_prunerVars PROVE PruneInv'
      OBVIOUS
    <2>1. CASE PrunerNext
      BY <2>1, StoreKeepsPrune, IngestKeepsPrune, ColdKeepsPrune, WindowKeepsPrune DEF PrunerNext
    <2>2. CASE UNCHANGED prunerVars
      <3>1. PruneIn(budget, log, have, pruner, cold, arrived, asked, window)
        BY PruneInIs
      <3>2. PruneIn(budget', log', have', pruner', cold', arrived', asked', window')
        BY <2>2, <3>1 DEF prunerVars
      <3> QED
        BY <3>2, PruneInNext
    <2> QED
      BY <2>1, <2>2
  <1> QED
    BY <1>1, <1>2, PTL DEF PrunerSpec

LEMMA PrunersSound ==
  ASSUME PruneInv, NEW p \in Pruners
  PROVE  PrunerOK(p)
  BY DEF PruneInv, Pruners

\* The two maps and the running total of IncrementalPruner agree, and what
\* survives fits the budget, for any number of blocks and any sizes.
THEOREM BooksAgree == PrunerSpec => []Accounting
  <1>1. PruneInv => Accounting
    BY PrunersSound DEF Accounting, PrunerOK
  <1> QED
    BY <1>1, PruneInvariance, PTL

\* What insert evicts never ranks above what it keeps.
THEOREM LowestGoFirst == PrunerSpec => []HighestSurvive
  <1>1. PruneInv => HighestSurvive
    BY PrunersSound DEF HighestSurvive, PrunerOK
  <1> QED
    BY <1>1, PruneInvariance, PTL

\* A window handed out by a session that was not seeded is within the budget.
THEOREM WindowsFit == PrunerSpec => []WindowWithinBudget
  <1>1. PruneInv => WindowWithinBudget
    BY DEF PruneInv
  <1> QED
    BY <1>1, PruneInvariance, PTL

-----------------------------------------------------------------------------
(***************************************************************************)
(* GoldenRing.  A node added takes the keys of one range and leaves every  *)
(* other key where it was.                                                 *)
(***************************************************************************)
LEMMA PlaceNat == \A n \in Nat : placement_fixed(n) \in Nat
  <1> SUFFICES ASSUME NEW n \in Nat PROVE placement_fixed(n) \in Nat
    BY SMTT(60)
  <1>1. PICK w \in Nat \ {0} : w = 2^RingBits
    BY SMTT(60), GoldenAssumption
  <1>2. n * Golden \in Nat
    BY SMTT(60), GoldenAssumption
  <1>3. PICK m \in Nat : m = n * Golden
    BY SMTT(60), <1>2
  <1>4. m % w \in Nat
    BY SMTT(60), <1>1
  <1> QED
    BY <1>1, <1>3, <1>4 DEF placement_fixed

LEMMA LeastIs ==
  ASSUME NEW S \in SUBSET Nat, S # {}
  PROVE  Least(S) \in S /\ \A q \in S : Least(S) <= q
  <1>1. \E x \in S : \A y \in S : ~ (<<y, x>> \in OpToRel(<, Nat))
    BY WFMin, NatLessThanWellFounded
  <1>2. OpToRel(<, Nat) = {ss \in Nat \X Nat : ss[1] < ss[2]}
    BY DEF OpToRel
  <1>3. \A x, y \in Nat : <<y, x>> \in {ss \in Nat \X Nat : ss[1] < ss[2]} <=> y < x
    BY SMTT(60)
  <1>4. \A x, y \in Nat : ~(y < x) => x <= y
    BY SMTT(60)
  <1>5. PICK x \in S : \A y \in S : x <= y
    BY <1>1, <1>2, <1>3, <1>4
  <1> QED
    BY <1>5 DEF Least

\* The least element of a set is the only one.
LEMMA LeastOnly ==
  ASSUME NEW S \in SUBSET Nat, NEW p \in S, \A q \in S : p <= q
  PROVE  Least(S) = p
  <1>1. Least(S) \in S /\ Least(S) <= p /\ p <= Least(S)
    BY LeastIs
  <1>2. PICK l \in Nat : l = Least(S)
    BY <1>1
  <1>3. p \in Nat /\ l <= p /\ p <= l
    BY <1>1, <1>2
  <1>4. l = p
    BY SMTT(60), <1>3
  <1> QED
    BY <1>2, <1>4

LEMMA RangeIn ==
  ASSUME NEW S \in SUBSET Nat, S # {}, NEW k \in Nat
  PROVE  range(S, k) \in S
  <1> DEFINE above == {p \in S : p >= k}
  <1>1. above \in SUBSET Nat
    OBVIOUS
  <1>2. CASE above # {}
    <2>1. Least(above) \in above
      BY <1>1, <1>2, LeastIs
    <2> QED
      BY <1>2, <2>1 DEF range
  <1>3. CASE above = {}
    BY <1>3, LeastIs DEF range
  <1> QED
    BY <1>2, <1>3

\* With one position more, the first at k or above is the one it was or the new one.
LEMMA RangeOneMore ==
  ASSUME NEW S \in SUBSET Nat, S # {}, NEW k \in Nat, NEW n \in Nat
  PROVE  range(S \cup {n}, k) \in {range(S, k), n}
  <1> DEFINE above == {p \in S : p >= k}
             T == S \cup {n}
             aboveT == {p \in T : p >= k}
  <1>1. above \in SUBSET Nat /\ T \in SUBSET Nat /\ T # {} /\ aboveT \in SUBSET Nat
    OBVIOUS
  <1>2. ASSUME NEW U \in SUBSET Nat, NEW V \in SUBSET Nat, V # {}, U = V \cup {n}
        PROVE  Least(U) \in {Least(V), n}
    <2>1. PICK l \in V : l = Least(V) /\ \A q \in V : l <= q
      BY <1>2, LeastIs
    <2>2. CASE n <= l
      <3>1. n \in U
        BY <1>2
      <3>2. \A q \in U : n <= q
        BY SMTT(60), <1>2, <2>1, <2>2
      <3> QED
        BY <1>2, <3>1, <3>2, LeastOnly
    <2>3. CASE ~(n <= l)
      <3>1. l \in U
        BY <1>2
      <3>2. \A q \in U : l <= q
        BY SMTT(60), <1>2, <2>1, <2>3
      <3> QED
        BY <1>2, <2>1, <3>1, <3>2, LeastOnly
    <2> QED
      BY <2>2, <2>3
  <1>3. CASE above # {} /\ n >= k
    <2>1. aboveT = above \cup {n} /\ aboveT # {}
      BY <1>3
    <2>2. Least(aboveT) \in {Least(above), n}
      BY <1>1, <1>2, <1>3, <2>1
    <2> QED
      BY <1>3, <2>1, <2>2 DEF range
  <1>4. CASE ~(n >= k)
    <2>1. aboveT = above
      BY <1>4
    <2>2. Least(T) \in {Least(S), n}
      BY <1>1, <1>2
    <2> QED
      BY <2>1, <2>2 DEF range
  <1>5. CASE above = {} /\ n >= k
    <2>1. aboveT = {n}
      BY <1>5
    <2>2. n <= n
      BY SMTT(60)
    <2>3. Least(aboveT) = n
      BY <2>1, <2>2, LeastOnly
    <2> QED
      BY <2>1, <2>3 DEF range
  <1> QED
    BY <1>3, <1>4, <1>5
LEMMA NodesNat ==
  ASSUME RingInv
  PROVE  DOMAIN nodes \in SUBSET Nat /\ \A key \in Position : placement_fixed(key) \in Nat
  <1>1. counter \in Nat /\ (0..(counter - 1)) \subseteq Nat /\ Position \subseteq Nat
    BY SMTT(60), GoldenAssumption DEF RingInv, Position
  <1>2. \A n \in 0..(counter - 1) : placement_fixed(n) \in Nat
    BY <1>1, PlaceNat
  <1>3. \A p \in DOMAIN nodes : \E n \in 0..(counter - 1) : p = placement_fixed(n)
    BY DEF RingInv
  <1>4. \A key \in Position : placement_fixed(key) \in Nat
    BY <1>1, PlaceNat
  <1> QED
    BY <1>2, <1>3, <1>4

\* What an add does to the two maps.
LEMMA AddEffect ==
  ASSUME RingInv, NEW e, RingAdd(e)
  PROVE  \E pos \in Nat :
            /\ pos = placement_fixed(counter) /\ pos \notin DOMAIN nodes /\ e \notin DOMAIN id_to_pos
            /\ nodes' = [p \in DOMAIN nodes \cup {pos} |-> IF p = pos THEN e ELSE nodes[p]]
            /\ id_to_pos' = [i \in DOMAIN id_to_pos \cup {e} |-> IF i = e THEN pos ELSE id_to_pos[i]]
            /\ counter' = counter + 1 /\ counter' \in 0..2^RingBits
  <1>1. PICK pos : pos = placement_fixed(counter)
    OBVIOUS
  <1>2. PICK w \in Nat : w = 2^RingBits
    BY SMTT(60), GoldenAssumption
  <1>3. counter \in 0..w /\ counter < w /\ counter' = counter + 1
    BY <1>2 DEF RingInv, RingAdd
  <1>4. counter \in Nat /\ counter' \in 0..w /\ counter \in 0..(w - 1) /\ (0..(counter - 1)) \subseteq 0..(w - 1)
        /\ counter \notin 0..(counter - 1)
    BY SMTT(60), <1>3
  <1>5. pos \in Nat
    BY <1>1, <1>4, PlaceNat
  <1>6. pos \notin DOMAIN nodes
    BY <1>1, <1>2, <1>4, GoldenAssumption DEF RingInv, Position
  <1> QED
    BY <1>1, <1>2, <1>3, <1>4, <1>5, <1>6 DEF RingAdd, slot

LEMMA AddKeepsInv ==
  ASSUME RingInv, NEW e, RingAdd(e)
  PROVE  RingInv'
  <1>1. PICK pos \in Nat :
            /\ pos = placement_fixed(counter) /\ pos \notin DOMAIN nodes /\ e \notin DOMAIN id_to_pos
            /\ nodes' = [p \in DOMAIN nodes \cup {pos} |-> IF p = pos THEN e ELSE nodes[p]]
            /\ id_to_pos' = [i \in DOMAIN id_to_pos \cup {e} |-> IF i = e THEN pos ELSE id_to_pos[i]]
            /\ counter' = counter + 1 /\ counter' \in 0..2^RingBits
    BY AddEffect
  <1>2. /\ DOMAIN nodes' = DOMAIN nodes \cup {pos} /\ nodes'[pos] = e
        /\ \A p \in DOMAIN nodes : nodes'[p] = nodes[p]
        /\ DOMAIN id_to_pos' = DOMAIN id_to_pos \cup {e} /\ id_to_pos'[e] = pos
        /\ \A i \in DOMAIN id_to_pos : id_to_pos'[i] = id_to_pos[i]
    BY <1>1
  <1>3. nodes' = [p \in DOMAIN nodes' |-> nodes'[p]] /\ id_to_pos' = [i \in DOMAIN id_to_pos' |-> id_to_pos'[i]]
    BY <1>1
  <1>4. \A p \in DOMAIN nodes' : nodes'[p] \in DOMAIN id_to_pos' /\ id_to_pos'[nodes'[p]] = p
    BY <1>1, <1>2 DEF RingInv
  <1>5. \A i \in DOMAIN id_to_pos' : id_to_pos'[i] \in DOMAIN nodes' /\ nodes'[id_to_pos'[i]] = i
    BY <1>1, <1>2 DEF RingInv
  <1>6. counter \in 0..(counter' - 1) /\ (0..(counter - 1)) \subseteq 0..(counter' - 1)
    <2>1. PICK w \in Nat : w = 2^RingBits
      BY SMTT(60), GoldenAssumption
    <2>2. counter \in 0..w
      BY <2>1 DEF RingInv
    <2> QED
      BY SMTT(60), <1>1, <2>2
  <1>7. \A p \in DOMAIN nodes' : \E n \in 0..(counter' - 1) : p = placement_fixed(n)
    <2>1. \A p \in DOMAIN nodes : \E n \in 0..(counter - 1) : p = placement_fixed(n)
      BY DEF RingInv
    <2>2. \A p \in DOMAIN nodes : \E n \in 0..(counter' - 1) : p = placement_fixed(n)
      BY <1>6, <2>1
    <2>3. pos = placement_fixed(counter)
      BY <1>1
    <2> QED
      BY <1>2, <1>6, <2>2, <2>3
  <1> QED
    BY <1>1, <1>3, <1>4, <1>5, <1>7 DEF RingInv, placement_fixed

LEMMA RemoveEffect ==
  ASSUME RingInv, NEW e, RingRemove(e)
  PROVE  \E pos \in DOMAIN nodes :
            /\ e \in DOMAIN id_to_pos /\ pos = id_to_pos[e] /\ nodes[pos] = e
            /\ nodes' = [p \in DOMAIN nodes \ {pos} |-> nodes[p]]
            /\ id_to_pos' = [i \in DOMAIN id_to_pos \ {e} |-> id_to_pos[i]]
            /\ counter' = counter
  BY DEF RingRemove, RingInv, Restrict

LEMMA RemoveKeepsInv ==
  ASSUME RingInv, NEW e, RingRemove(e)
  PROVE  RingInv'
  <1>1. PICK pos \in DOMAIN nodes :
            /\ e \in DOMAIN id_to_pos /\ pos = id_to_pos[e] /\ nodes[pos] = e
            /\ nodes' = [p \in DOMAIN nodes \ {pos} |-> nodes[p]]
            /\ id_to_pos' = [i \in DOMAIN id_to_pos \ {e} |-> id_to_pos[i]]
            /\ counter' = counter
    BY RemoveEffect
  <1>2. /\ DOMAIN nodes' = DOMAIN nodes \ {pos}
        /\ \A p \in DOMAIN nodes' : nodes'[p] = nodes[p]
        /\ DOMAIN id_to_pos' = DOMAIN id_to_pos \ {e}
        /\ \A i \in DOMAIN id_to_pos' : id_to_pos'[i] = id_to_pos[i]
    BY <1>1
  <1>3. nodes' = [p \in DOMAIN nodes' |-> nodes'[p]] /\ id_to_pos' = [i \in DOMAIN id_to_pos' |-> id_to_pos'[i]]
    BY <1>1
  <1>4. \A p \in DOMAIN nodes' : nodes'[p] \in DOMAIN id_to_pos' /\ id_to_pos'[nodes'[p]] = p
    BY <1>1, <1>2 DEF RingInv
  <1>5. ASSUME NEW i \in DOMAIN id_to_pos'
        PROVE  id_to_pos'[i] \in DOMAIN nodes' /\ nodes'[id_to_pos'[i]] = i
    <2>1. i \in DOMAIN id_to_pos /\ i # e /\ id_to_pos'[i] = id_to_pos[i]
      BY <1>2
    <2>2. id_to_pos[i] \in DOMAIN nodes /\ nodes[id_to_pos[i]] = i
      BY <2>1 DEF RingInv
    <2>3. id_to_pos[i] # pos
      BY <1>1, <2>1, <2>2
    <2> QED
      BY <1>2, <2>1, <2>2, <2>3
  <1>6. \A p \in DOMAIN nodes' : \E n \in 0..(counter' - 1) : p = placement_fixed(n)
    BY <1>1, <1>2 DEF RingInv
  <1> QED
    BY <1>1, <1>3, <1>4, <1>5, <1>6 DEF RingInv, placement_fixed

\* The two maps of a GoldenRing are inverse to each other after any add and
\* remove, and a slot still to be given out has a position of its own.
THEOREM RingInvariance == RingSpec => []RingInv
  <1>1. RingInit => RingInv
    <2> SUFFICES ASSUME RingInit PROVE RingInv
      BY SMTT(60)
    <2>1. PICK w \in Nat : w = 2^RingBits
      BY SMTT(60), GoldenAssumption
    <2>2. counter \in 0..w
      BY SMTT(60) DEF RingInit
    <2>3. DOMAIN nodes = {} /\ DOMAIN id_to_pos = {}
      BY SMTT(60) DEF RingInit
    <2>4. nodes = [p \in DOMAIN nodes |-> nodes[p]] /\ id_to_pos = [e \in DOMAIN id_to_pos |-> id_to_pos[e]]
      BY SMTT(60) DEF RingInit
    <2> QED
      BY <2>1, <2>2, <2>3, <2>4 DEF RingInv
  <1>2. RingInv /\ [RingNext]_ringVars => RingInv'
    <2> SUFFICES ASSUME RingInv, [RingNext]_ringVars PROVE RingInv'
      BY SMTT(60)
    <2>1. CASE UNCHANGED ringVars
      BY <2>1 DEF ringVars, RingInv, placement_fixed
    <2> QED
      BY <2>1, AddKeepsInv, RemoveKeepsInv DEF RingNext
  <1> QED
    BY <1>1, <1>2, PTL DEF RingSpec

\* KeysStayPut for any entities, width and odd multiplier: add moves keys only
\* to the entity added, remove only from the one removed.
THEOREM NoResharding == RingSpec => KeysStayPut
  <1> DEFINE Stays ==
        \A key \in Position :
          route(key)' # route(key)
            => \/ route(key)' \subseteq DOMAIN id_to_pos' \ DOMAIN id_to_pos
               \/ route(key) \subseteq DOMAIN id_to_pos \ DOMAIN id_to_pos'
  <1>1. RingInv /\ [RingNext]_ringVars => [Stays]_ringVars
    <2> SUFFICES ASSUME RingInv, RingNext PROVE Stays
      OBVIOUS
    <2> SUFFICES ASSUME NEW key \in Position, route(key)' # route(key)
                 PROVE  \/ route(key)' \subseteq DOMAIN id_to_pos' \ DOMAIN id_to_pos
                        \/ route(key) \subseteq DOMAIN id_to_pos \ DOMAIN id_to_pos'
      OBVIOUS
    <2>1. PICK k \in Nat : k = placement_fixed(key)
      BY NodesNat
    <2>2. /\ route(key) = IF DOMAIN nodes = {} THEN {} ELSE {nodes[range(DOMAIN nodes, k)]}
          /\ route(key)' = IF DOMAIN nodes' = {} THEN {} ELSE {nodes'[range(DOMAIN nodes', k)]}
      BY <2>1 DEF route, placement_fixed, range, Least
    <2>3. DOMAIN nodes \in SUBSET Nat
      BY NodesNat
    <2>4. ASSUME NEW e, RingAdd(e) PROVE route(key)' = {e} /\ {e} \subseteq DOMAIN id_to_pos' \ DOMAIN id_to_pos
      <3>1. PICK pos \in Nat :
                /\ pos = placement_fixed(counter) /\ pos \notin DOMAIN nodes /\ e \notin DOMAIN id_to_pos
                /\ nodes' = [p \in DOMAIN nodes \cup {pos} |-> IF p = pos THEN e ELSE nodes[p]]
                /\ id_to_pos' = [i \in DOMAIN id_to_pos \cup {e} |-> IF i = e THEN pos ELSE id_to_pos[i]]
                /\ counter' = counter + 1 /\ counter' \in 0..2^RingBits
        BY <2>4, AddEffect
      <3>2. /\ DOMAIN nodes' = DOMAIN nodes \cup {pos} /\ nodes'[pos] = e
            /\ \A p \in DOMAIN nodes : nodes'[p] = nodes[p]
            /\ DOMAIN id_to_pos' = DOMAIN id_to_pos \cup {e}
        BY <3>1
      <3>3. CASE DOMAIN nodes = {}
        <4>1. DOMAIN nodes' = {pos}
          BY <3>2, <3>3
        <4>2. range(DOMAIN nodes', k) = pos
          BY <4>1, RangeIn
        <4> QED
          BY <2>2, <3>1, <3>2, <4>1, <4>2
      <3>4. CASE DOMAIN nodes # {}
        <4>1. range(DOMAIN nodes', k) \in {range(DOMAIN nodes, k), pos}
          BY <2>3, <3>2, <3>4, RangeOneMore
        <4>2. range(DOMAIN nodes, k) \in DOMAIN nodes
          BY <2>3, <3>4, RangeIn
        <4> QED
          BY <2>2, <3>1, <3>2, <3>4, <4>1, <4>2
      <3> QED
        BY <3>3, <3>4
    <2>5. ASSUME NEW e, RingRemove(e) PROVE route(key) = {e} /\ {e} \subseteq DOMAIN id_to_pos \ DOMAIN id_to_pos'
      <3>1. PICK pos \in DOMAIN nodes :
                /\ e \in DOMAIN id_to_pos /\ nodes[pos] = e
                /\ nodes' = [p \in DOMAIN nodes \ {pos} |-> nodes[p]]
                /\ id_to_pos' = [i \in DOMAIN id_to_pos \ {e} |-> id_to_pos[i]]
        BY <2>5, RemoveEffect
      <3>2. /\ DOMAIN nodes = DOMAIN nodes' \cup {pos} /\ pos \in Nat /\ DOMAIN nodes' \in SUBSET Nat
            /\ \A p \in DOMAIN nodes' : nodes'[p] = nodes[p]
            /\ DOMAIN id_to_pos' = DOMAIN id_to_pos \ {e}
        BY <2>3, <3>1
      <3>3. CASE DOMAIN nodes' = {}
        <4>1. DOMAIN nodes = {pos}
          BY <3>2, <3>3
        <4>2. range(DOMAIN nodes, k) = pos
          BY <3>2, <4>1, RangeIn
        <4> QED
          BY <2>2, <3>1, <3>2, <4>1, <4>2
      <3>4. CASE DOMAIN nodes' # {}
        <4>1. range(DOMAIN nodes, k) \in {range(DOMAIN nodes', k), pos}
          BY <3>2, <3>4, RangeOneMore
        <4>2. range(DOMAIN nodes', k) \in DOMAIN nodes'
          BY <3>2, <3>4, RangeIn
        <4> QED
          BY <2>2, <3>1, <3>2, <3>4, <4>1, <4>2
      <3> QED
        BY <3>3, <3>4
    <2> QED
      BY <2>4, <2>5 DEF RingNext
  <1> QED
    BY <1>1, RingInvariance, PTL DEF RingSpec, KeysStayPut
=============================================================================
