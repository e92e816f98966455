-------------------------------- MODULE Bulk --------------------------------
(***************************************************************************)
(* How blocks travel in BULK frames: the shim writes a record per missing  *)
(* block and packs the records into generations (shim/src/lib.rs), the     *)
(* container cuts a payload into generations of symbols and joins them     *)
(* again (coding/src/bulk.rs), the receiver splits a decoded generation    *)
(* back into records (receiver/src/lib.rs).  What the fountain code does   *)
(* to the symbols of one generation is the subject of Fountain; here a     *)
(* generation comes through or does not.  A block is its compressed bytes. *)
(***************************************************************************)
EXTENDS FrameCodec

CONSTANTS Blob,           \* blocks after compression, none of them empty
          MaxMissing,     \* bound: blocks the receiver names as missing
          fountain_k,     \* symbols of a full generation
          fountain_symbol_size

VARIABLES missing,  \* the blocks asked for that the shim holds, in order
          came,     \* generations of the shim that came through
          joined    \* generations of the container that came through

bulkVars == <<missing, came, joined>>

full_gen_bytes == fountain_k * fountain_symbol_size

div_ceil(a, b) == (a + b - 1) \div b

AtLeastOne(n) == IF n = 0 THEN 1 ELSE n

Records == [i \in DOMAIN missing |-> put(Len(missing[i]), U32) \o missing[i]]

-----------------------------------------------------------------------------
\* bulk::encode cuts the payload into generations of gen_size symbols, the
\* last one filled up with zeros.
Padded(payload, len) == [i \in 1..len |-> IF i <= Len(payload) THEN payload[i] ELSE 0]

total_full_gens(payload, gen_size) ==
  AtLeastOne(div_ceil(AtLeastOne(div_ceil(Len(payload), fountain_symbol_size)), gen_size))

bulk_encode(payload, gen_size) ==
  LET bytes == gen_size * fountain_symbol_size
      n     == total_full_gens(payload, gen_size)
      all   == Padded(payload, n * bytes)
  IN [g \in 1..n |-> SubSeq(all, (g - 1) * bytes + 1, g * bytes)]

\* bulk::decode puts the generations it was given one behind the other.
bulk_decode(gens, which, original_len) ==
  LET out == FlattenSeq([i \in 1..Cardinality(which) |-> gens[SetToSortSeq(which, <)[i]]])
  IN SubSeq(out, 1, IF original_len < Len(out) THEN original_len ELSE Len(out))

-----------------------------------------------------------------------------
\* Mutant: the stream is cut every full_gen_bytes.
chunks_flat(records) ==
  LET flat == FlattenSeq(records)
      n    == div_ceil(Len(flat), full_gen_bytes)
  IN [g \in 1..n |-> SubSeq(flat, (g - 1) * full_gen_bytes + 1,
                            IF g = n THEN Len(flat) ELSE g * full_gen_bytes)]

\* Whole records as long as they fit; one that never does has its own chunk.
chunks(records) ==
  LET pack(acc, rec) ==
        IF acc.cur # <<>> /\ Len(acc.cur) + Len(rec) > full_gen_bytes
        THEN [done |-> Append(acc.done, acc.cur), cur |-> rec]
        ELSE [acc EXCEPT !.cur = @ \o rec]
      all == FoldLeft(pack, [done |-> <<>>, cur |-> <<>>], records)
  IN IF all.cur = <<>> THEN all.done ELSE Append(all.done, all.cur)

\* A frame per chunk, sized to it.
bulk_frames_for ==
  [g \in DOMAIN chunks(Records) |->
     LET chunk == chunks(Records)[g]
     IN bulk_encode(chunk, AtLeastOne(div_ceil(Len(chunk), fountain_symbol_size)))[1]]

\* handle_bulk, pass 1: the records up to an empty or a truncated one.
parse(flat) ==
  LET next(p, i) ==
        LET blen == le(SubSeq(flat, p.off + 1, p.off + U32))
            off  == p.off + U32
        IN IF p.stop \/ off > Len(flat) THEN p
           ELSE IF blen = 0 \/ off + blen > Len(flat) THEN [p EXCEPT !.stop = TRUE]
           ELSE [off |-> off + blen, stop |-> FALSE,
                 out |-> Append(p.out, SubSeq(flat, off + 1, off + blen))]
  IN FoldLeft(next, [off |-> 0, stop |-> FALSE, out |-> <<>>], flat).out

-----------------------------------------------------------------------------
BulkInit ==
  /\ missing \in UNION {[1..n -> Blob] : n \in 1..MaxMissing}
  /\ came = {} /\ joined = {}

\* Generations come through in any order.
Come ==
  /\ \E g \in DOMAIN bulk_frames_for \ came : came' = came \cup {g}
  /\ UNCHANGED <<missing, joined>>

\* The container's payload is the records one behind the other.
Container == bulk_encode(FlattenSeq(Records), fountain_k)

Join ==
  /\ \E g \in DOMAIN Container \ joined : joined' = joined \cup {g}
  /\ UNCHANGED <<missing, came>>

BulkNext == Come \/ Join

BulkSpec == BulkInit /\ [][BulkNext]_bulkVars
-----------------------------------------------------------------------------
Recovered == UNION {ToSet(parse(bulk_frames_for[g])) : g \in came}

\* Whatever the order in which generations come through, handle_bulk takes only
\* blocks out of them that were put in, and with the last of them it has every
\* block: no record straddles two generations, whether it ends on a boundary or
\* is larger than a generation, and no padding is read as a record.  Cut without
\* regard to records, by bulk::encode, the first n generations decode to the
\* part of the payload that they carry, and all of them to the whole.
GenerationsExact ==
  /\ Recovered \subseteq ToSet(missing)
  /\ came = DOMAIN bulk_frames_for => Recovered = ToSet(missing)
  /\ LET payload == FlattenSeq(Records) IN
     \A n \in 0..Len(Container) :
       joined = 1..n =>
         bulk_decode(Container, joined, Len(payload))
           = SubSeq(payload, 1, IF n = Len(Container) THEN Len(payload) ELSE n * full_gen_bytes)
=============================================================================
