----------------------------- MODULE Compressor -----------------------------
(***************************************************************************)
(* Dictionary and reference-delta compression (compress/src/lib.rs,        *)
(* delta.rs).  Each thread keeps one zstd encoder and one decoder; zstd is *)
(* external: a frame made with a dictionary comes back with that           *)
(* dictionary only, and whether it is shorter than the block is its choice.*)
(***************************************************************************)
EXTENDS Integers, FiniteSets

CONSTANTS Thread,
          Reference,   \* reference blocks; NoReference stands for the empty one
          NoReference,
          Level,       \* zstd levels
          Tiny, Large, \* blocks shorter than min_block, and the others
          MaxBlobs     \* bound: blobs kept

\* A reference is its hash, which is never that of the empty dictionary.
ASSUME CompressorBlocks == Tiny \cap Large = {} /\ Reference \cap {NoReference, 0} = {}

VARIABLES enc,   \* enc[t]: the encoder of thread t: {} or one [level, id, dict]
          dec,   \* dec[t]: {} or one [id, dict]
          blobs  \* what compress answered: [reference, block, marker, body]

compVars == <<enc, dec, blobs>>

Dicts == Reference \cup {NoReference}

\* Mutant: one id for all references.
ref_dict_id_fixed(reference) == 57882

\* The hash of the content, taken to tell contents apart.
ref_dict_id(reference) == reference

\* The dictionary of a reference: Dict::empty, with id 0, for the empty one.
DictOf(reference) ==
  [id |-> IF reference = NoReference THEN 0 ELSE ref_dict_id(reference), content |-> reference]

\* zstd, external.
ZstdFrame(dict, block) == <<dict, block>>

ZstdBlock(dict, frame) == IF frame[1] = dict THEN {frame[2]} ELSE {}

-----------------------------------------------------------------------------
CompInit ==
  /\ enc = [t \in Thread |-> {}]
  /\ dec = [t \in Thread |-> {}]
  /\ blobs = {}

\* The encoder thread t uses: the cached one when level and id match.
Encoder(t, dict, level) ==
  IF \E c \in enc[t] : c.level = level /\ c.id = dict.id THEN enc[t]
  ELSE {[level |-> level, id |-> dict.id, dict |-> dict.content]}

Decoder(t, dict) ==
  IF \E c \in dec[t] : c.id = dict.id THEN dec[t] ELSE {[id |-> dict.id, dict |-> dict.content]}

\* compress_with_reference and DeltaCompressor::compress.
Compress(t, reference, level, block, shorter) ==
  LET dict  == DictOf(reference)
      ctx   == CHOOSE c \in Encoder(t, dict, level) : TRUE
      frame == ZstdFrame(ctx.dict, block)
      raw   == block \in Tiny \/ ~shorter
  IN /\ Cardinality(blobs) < MaxBlobs
     /\ enc' = IF block \in Tiny THEN enc ELSE [enc EXCEPT ![t] = Encoder(t, dict, level)]
     /\ blobs' = blobs \cup {[reference |-> reference, block |-> block,
                              marker |-> IF raw THEN 0 ELSE 1,
                              body |-> IF raw THEN <<"raw", block>> ELSE frame]}
     /\ UNCHANGED dec

\* What decompress answers on thread t with this reference: {} is an error.
decompress(t, reference, b) ==
  IF b.marker = 0 THEN {b.body[2]}
  ELSE LET ctx == CHOOSE c \in Decoder(t, DictOf(reference)) : TRUE
       IN ZstdBlock(ctx.dict, b.body)

\* Any reference may be offered; a blob in raw form leaves the decoder alone.
Decompress(t, reference, b) ==
  /\ b.marker = 1
  /\ dec' = [dec EXCEPT ![t] = Decoder(t, DictOf(reference))]
  /\ UNCHANGED <<enc, blobs>>

CompNext ==
  \/ \E t \in Thread, r \in Dicts, l \in Level, b \in Tiny \cup Large, s \in BOOLEAN :
       Compress(t, r, l, b, s)
  \/ \E t \in Thread, r \in Dicts, b \in blobs : Decompress(t, r, b)

CompSpec == CompInit /\ [][CompNext]_compVars
-----------------------------------------------------------------------------
\* A blob comes back as the block it was made of, on whatever thread it is
\* decompressed with its reference, after any calls with other references and
\* levels: a cached context is never used for a dictionary it was not built of.
BlobsComeBack ==
  \A b \in blobs, t \in Thread : decompress(t, b.reference, b) = {b.block}

\* The invariant behind it: a cached context was built of the dictionary that
\* its id stands for, and a frame with the dictionary of its reference.
CompInv ==
  /\ enc \in [Thread -> {{}} \cup {{[level |-> l, id |-> DictOf(r).id, dict |-> r]} :
                                  l \in Level, r \in Dicts}]
  /\ dec \in [Thread -> {{}} \cup {{[id |-> DictOf(r).id, dict |-> r]} : r \in Dicts}]
  /\ \A b \in blobs :
       /\ b.reference \in Dicts
       /\ \/ b.marker = 0 /\ b.body = <<"raw", b.block>>
          \/ b.marker = 1 /\ b.body = ZstdFrame(b.reference, b.block)
=============================================================================
