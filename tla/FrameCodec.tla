----------------------------- MODULE FrameCodec -----------------------------
(***************************************************************************)
(* Wire frames and canonical blocks (core/src/frame.rs, canonical.rs,      *)
(* block.rs).  A byte is a digit in base ByteBase, and the integers have   *)
(* fewer bytes: U32, U64 and U128 of them for 4, 8 and 16, an id has IdLen *)
(* for 32.  A frame is the tuple of its tag and its fields in wire order;  *)
(* a block is <<kind, seq, payload>>, a reference <<id>>.  Err is <<>>.    *)
(***************************************************************************)
EXTENDS Integers, Sequences, SequencesExt

CONSTANTS ByteBase, U32, U64, U128, IdLen,
          MAX_INLINE_PAYLOAD_BYTES, MAX_FRAME_COUNT,
          Frames          \* the frames sent

VARIABLES sent,   \* the frame
          wire    \* what arrives of its bytes

codecVars == <<sent, wire>>

TAG_APPEND == 1
TAG_RESYNC == 2
TAG_BULK == 3
TAG_ACK == 4
TAG_MISSING == 5
REF_BIT == ByteBase \div 2

\* BlockKind::from_byte accepts these.
BlockKind == 1..5

\* to_le_bytes
put(v, width) == [i \in 1..width |-> (v \div ByteBase^(i - 1)) % ByteBase]

\* from_le_bytes
le(bytes) == FoldRight(LAMBDA b, v : b + ByteBase * v, bytes, 0)

canonical_bytes(b) == <<b[1]>> \o put(b[2], U64) \o put(Len(b[3]), U64) \o b[3]

Header == 1 + 2 * U64

\* A block from its canonical bytes; the two parsers differ in copying only.
from_canonical(buf) ==
  LET len == le(SubSeq(buf, 2 + U64, Header))
  IN IF \/ Len(buf) < Header \/ buf[1] \notin BlockKind
        \/ len > MAX_INLINE_PAYLOAD_BYTES \/ Len(buf) < Header + len
     THEN <<>>
     ELSE <<buf[1], le(SubSeq(buf, 2, 1 + U64)), SubSeq(buf, Header + 1, Header + len)>>

-----------------------------------------------------------------------------
\* The length of the body, then the canonical block or the marker and the id.
encode_frame_block(fb) ==
  LET body == IF Len(fb) = 1 THEN <<REF_BIT>> \o fb[1] ELSE canonical_bytes(fb)
  IN put(Len(body), U32) \o body

\* A list of encoded items.
counted(items) == put(Len(items), U32) \o FlattenSeq(items)

encode_frame(f) ==
  LET tag == f[1] IN
  <<tag>> \o put(f[2], U128) \o
  CASE tag = TAG_APPEND  -> f[3] \o counted([i \in DOMAIN f[4] |-> encode_frame_block(f[4][i])])
    [] tag = TAG_RESYNC  -> f[3] \o counted(f[4])
    [] tag = TAG_BULK    -> put(f[3], U32) \o put(f[4], U32) \o put(f[5], U32)
                              \o counted([i \in DOMAIN f[6] |-> put(Len(f[6][i]), U32) \o f[6][i]])
    [] tag = TAG_ACK     -> f[3]
    [] tag = TAG_MISSING -> counted(f[3])

\* A reader: the bytes left, and the fields read so far; ok is FALSE from the
\* first error on.
Fail(p) == [p EXCEPT !.ok = FALSE]

take(p, n) ==
  IF p.ok /\ Len(p.r) >= n
  THEN [p EXCEPT !.r = SubSeq(@, n + 1, Len(@)), !.out = Append(@, SubSeq(p.r, 1, n))]
  ELSE Fail(p)

\* The field just read is a number.
numeric(p) == IF p.ok THEN [p EXCEPT !.out = Append(Front(@), le(Last(@)))] ELSE p

take_u32(p) == numeric(take(p, U32))

take_u128(p) == numeric(take(p, U128))

take_block_id(p) == take(p, IdLen)

take_count(p) ==
  LET q == take_u32(p)
  IN IF q.ok /\ Last(q.out) <= MAX_FRAME_COUNT THEN q ELSE Fail(q)

\* Mutant: a symbol that is cut short is taken as far as it goes.
decode_symbol_short(p) ==
  LET q == take_u32(p)
      len == Last(q.out)
  IN IF ~q.ok \/ len > MAX_INLINE_PAYLOAD_BYTES THEN Fail(q)
     ELSE take([q EXCEPT !.out = Front(@)], IF Len(q.r) < len THEN Len(q.r) ELSE len)

decode_symbol(p) ==
  LET q == take_u32(p)
      len == Last(q.out)
  IN IF ~q.ok \/ len > MAX_INLINE_PAYLOAD_BYTES THEN Fail(q)
     ELSE take([q EXCEPT !.out = Front(@)], len)

\* The reader moves on past the payload, by its own length.
decode_frame_block(p) ==
  LET q    == take_u32(p)
      len  == Last(q.out)
      from == [q EXCEPT !.out = Front(@)]
      b    == from_canonical(SubSeq(q.r, 1, len))
  IN CASE ~q.ok -> q
       [] q.ok /\ Len(q.r) < len -> Fail(q)
       [] q.ok /\ Len(q.r) >= len /\ q.r[1] >= REF_BIT ->
            IF len # 1 + IdLen THEN Fail(q)
            ELSE [from EXCEPT !.r = SubSeq(@, len + 1, Len(@)),
                              !.out = Append(@, <<SubSeq(q.r, 2, len)>>)]
       [] OTHER ->
            IF b = <<>> THEN Fail(q)
            ELSE [from EXCEPT !.r = SubSeq(@, Header + Len(b[3]) + 1, Len(@)),
                              !.out = Append(@, b)]

\* One item of the list in a frame of this tag.
decode_item(tag, p) ==
  CASE tag = TAG_APPEND -> decode_frame_block(p)
    [] tag = TAG_BULK   -> decode_symbol(p)
    [] OTHER            -> take_block_id(p)

\* A count and as many items.
decode_list(tag, p) ==
  LET q == take_count(p)
      n == Last(q.out)
      d == FoldLeft(LAMBDA acc, i : IF acc.ok THEN decode_item(tag, acc) ELSE acc,
                    [q EXCEPT !.out = <<>>], [i \in 1..n |-> i])
  IN IF q.ok THEN [d EXCEPT !.out = Append(p.out, @)] ELSE q

decode_body(tag, body) ==
  LET p == take_u128([ok |-> TRUE, r |-> body, out |-> <<tag>>])
  IN CASE tag = TAG_APPEND  -> decode_list(tag, take_block_id(p))
       [] tag = TAG_RESYNC  -> decode_list(tag, take_block_id(p))
       [] tag = TAG_BULK    -> decode_list(tag, take_u32(take_u32(take_u32(p))))
       [] tag = TAG_ACK     -> take_block_id(p)
       [] tag = TAG_MISSING -> decode_list(tag, p)
       [] OTHER             -> Fail(p)

decode_frame(buf) ==
  IF buf = <<>> THEN <<>>
  ELSE LET p == decode_body(buf[1], Tail(buf)) IN IF p.ok THEN p.out ELSE <<>>
-----------------------------------------------------------------------------
CodecInit == sent \in Frames /\ wire = encode_frame(sent)

\* The last byte does not arrive.
Truncate == wire # <<>> /\ wire' = Front(wire) /\ UNCHANGED sent

CodecNext == Truncate

CodecSpec == CodecInit /\ [][CodecNext]_codecVars
-----------------------------------------------------------------------------
\* The payloads and symbols, and the lists, of a frame.
Inlines(f) ==
  CASE f[1] = TAG_APPEND -> {f[4][i][3] : i \in {j \in DOMAIN f[4] : Len(f[4][j]) = 3}}
    [] f[1] = TAG_BULK -> ToSet(f[6])
    [] OTHER -> {}

Lists(f) == IF f[1] = TAG_ACK THEN {} ELSE {f[Len(f)]}

WithinLimits(f) ==
  /\ \A s \in Inlines(f) : Len(s) <= MAX_INLINE_PAYLOAD_BYTES
  /\ \A s \in Lists(f) : Len(s) <= MAX_FRAME_COUNT

\* The decoders are the inverses of the encoders and accept nothing shorter:
\* decode_frame gives back every kind of frame up to its limits, and refuses a
\* frame beyond them, which encode_frame still writes, and a frame that lacks
\* bytes at its end; from_canonical gives back a block from the whole of its
\* canonical bytes only, so that a block id is taken over bytes of one block.
CodecsInvert ==
  /\ decode_frame(wire) = IF wire = encode_frame(sent) /\ WithinLimits(sent) THEN sent ELSE <<>>
  /\ sent[1] = TAG_APPEND =>
       \A i \in DOMAIN sent[4] :
         LET b == sent[4][i] IN
         Len(b) = 3 /\ Len(b[3]) <= MAX_INLINE_PAYLOAD_BYTES =>
           \A n \in 0..Len(canonical_bytes(b)) :
             from_canonical(SubSeq(canonical_bytes(b), 1, n))
               = (IF n = Len(canonical_bytes(b)) THEN b ELSE <<>>)
=============================================================================
