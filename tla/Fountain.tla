------------------------------ MODULE Fountain ------------------------------
(***************************************************************************)
(* One generation of the cold-start fountain code (coding/src/fountain.rs) *)
(* as the receiver drives it: each BULK frame adds its symbols to the      *)
(* generation's decoder and asks it to decode (receiver/src/lib.rs).       *)
(*                                                                         *)
(* Data.  Source symbols are the independent unknowns 1..K, and a payload  *)
(* is the set of source symbols XORed into it.  Coefficients are 1, one of *)
(* the values the encoder draws, so scaling drops out and adding payloads  *)
(* is symmetric difference.                                                *)
(***************************************************************************)
EXTENDS Naturals, FiniteSets, Sequences, SequencesExt

CONSTANTS K,          \* source symbols of the generation
          MaxSymbols, \* bound on the symbols that arrive
          MaxFrames,  \* bound on the BULK frames that carry them
          None,       \* Option::None
          Taken       \* the empty vector a mem::take leaves behind

VARIABLES syms,     \* FountainDecoder.syms
          queue,    \* peel_symbols: indices of degree-1 symbols
          degree,   \* peel_symbols: unrevealed sources under each symbol
          revealed, \* peel_symbols: a payload per source, or None
          phase,    \* where handle_bulk is
          frames,   \* BULK frames so far
          got,      \* covers added so far, kept for the properties
          attempts  \* decodes that began to peel, kept for the properties

vars == <<syms, queue, degree, revealed, phase, frames, got, attempts>>

decode_vars == <<queue, degree, revealed>>

Source == 1..K

Xor(a, b) == (a \ b) \cup (b \ a)

\* gf256::axpy stops at the shorter vector, so an empty one changes nothing.
axpy(dst, src) == IF Taken \in {dst, src} THEN dst ELSE Xor(dst, src)

\* What the encoder emits: a source symbol, or a repair that mixes several.
CodedSymbol(cover) == [cover |-> cover, payload |-> cover]

Unrevealed == [i \in Source |-> None]

Init ==
  /\ syms = <<>> /\ queue = <<>> /\ degree = <<>> /\ revealed = Unrevealed
  /\ phase = "idle" /\ frames = 0 /\ got = {} /\ attempts = 0

\* A BULK frame arrives and its generation's decoder is locked.
Frame ==
  /\ phase \in {"idle", "Underdetermined"} /\ frames < MaxFrames
  /\ phase' = "add" /\ frames' = frames + 1
  /\ UNCHANGED <<syms, decode_vars, got, attempts>>

\* FountainDecoder::add.  The encoder never sends an empty cover.
Add(cover) ==
  /\ phase = "add" /\ Len(syms) < MaxSymbols
  /\ syms' = Append(syms, CodedSymbol(cover))
  /\ got' = got \cup {cover}
  /\ UNCHANGED <<decode_vars, phase, frames, attempts>>

TooFew == Len(syms) < K

\* The head of decode and of peel_symbols.
Decode ==
  /\ phase = "add"
  /\ IF TooFew
       THEN /\ phase' = "Underdetermined"
            /\ UNCHANGED <<decode_vars, attempts>>
       ELSE /\ phase' = "peel" /\ attempts' = attempts + 1
            /\ revealed' = Unrevealed
            /\ degree' = [i \in DOMAIN syms |-> Cardinality(syms[i].cover)]
            /\ queue' = SelectSeq([i \in DOMAIN syms |-> i], LAMBDA i : degree'[i] = 1)
  /\ UNCHANGED <<syms, frames, got>>

\* Symbols the ripple substitutes x_target into.  degree 0 marks a consumed one.
Dependents(si, target) ==
  {sj \in DOMAIN syms \ {si} : degree[sj] # 0 /\ target \in syms[sj].cover}

\* One turn of the peeling loop.
Peel ==
  LET si      == Head(queue)
      targets == {i \in syms[si].cover : revealed[i] = None}
  IN /\ phase = "peel" /\ queue # <<>>
     /\ IF degree[si] = 0 \/ targets = {}
          THEN /\ queue' = Tail(queue) /\ degree' = [degree EXCEPT ![si] = 0]
               /\ UNCHANGED <<syms, revealed>>
          ELSE \E target \in targets :
                 LET x    == syms[si].payload
                     deps == Dependents(si, target)
                     one  == {sj \in deps : degree[sj] = 2}
                 IN /\ syms' = [sj \in DOMAIN syms |->
                         IF sj = si THEN [syms[si] EXCEPT !.payload = Taken]
                         ELSE IF sj \in deps
                           THEN [cover   |-> syms[sj].cover \ {target},
                                 payload |-> axpy(syms[sj].payload, x)]
                         ELSE syms[sj]]
                    /\ degree' = [sj \in DOMAIN syms |->
                         IF sj = si THEN 0
                         ELSE IF sj \in deps THEN degree[sj] - 1 ELSE degree[sj]]
                    /\ queue' = Tail(queue) \o SetToSortSeq(one, <)
                    /\ revealed' = [revealed EXCEPT ![target] = x]
     /\ UNCHANGED <<phase, frames, got, attempts>>

(***************************************************************************)
(* The residual system: the rows that still cover an unknown, reduced      *)
(* column by column (gf_gauss_eliminate), one pivot per unknown.           *)
(***************************************************************************)
Unknowns == {i \in Source : revealed[i] = None}

Residual ==
  LET rest == SelectSeq(syms, LAMBDA y : y.payload # Taken /\ y.cover \cap Unknowns # {})
  IN [i \in DOMAIN rest |-> [rest[i] EXCEPT !.cover = @ \cap Unknowns]]

\* Mutant: elimination clears the coefficients and leaves the payload.
XorCover(r, p) == [r EXCEPT !.cover = Xor(@, p.cover)]

XorRow(r, p) == [cover |-> Xor(r.cover, p.cover), payload |-> axpy(r.payload, p.payload)]

\* One column: swap the first pivot at or below rank up, clear it elsewhere.
EliminateColumn(m, col) ==
  LET n      == Len(m.rows)
      pivots == {r \in (m.rank + 1)..n : col \in m.rows[r].cover}
  IN IF pivots = {} THEN m
     ELSE LET p     == CHOOSE r \in pivots : \A q \in pivots : r <= q
              moved == [m.rows EXCEPT ![p] = m.rows[m.rank + 1], ![m.rank + 1] = m.rows[p]]
              prow  == moved[m.rank + 1]
          IN [rank |-> m.rank + 1,
              rows |-> [r \in 1..n |-> IF r # m.rank + 1 /\ col \in moved[r].cover
                                         THEN XorRow(moved[r], prow) ELSE moved[r]]]

gf_gauss_eliminate(rows, cols) ==
  FoldLeft(EliminateColumn, [rows |-> rows, rank |-> 0], SetToSortSeq(cols, <))

\* The first unknown of a row, after elimination the one it solves.
Pivot(row) == CHOOSE i \in row.cover : \A j \in row.cover : i <= j

\* The tail of peel_symbols.
Solve ==
  /\ phase = "peel" /\ queue = <<>>
  /\ LET m     == gf_gauss_eliminate(Residual, Unknowns)
         solve == {r \in DOMAIN m.rows : m.rows[r].cover # {}}
         val   == [i \in Source |->
                     IF \E r \in solve : Pivot(m.rows[r]) = i
                       THEN m.rows[CHOOSE r \in solve : Pivot(m.rows[r]) = i].payload
                       ELSE revealed[i]]
     IN IF m.rank < Cardinality(Unknowns)
          THEN phase' = "Underdetermined" /\ UNCHANGED revealed
          ELSE phase' = "Ok" /\ revealed' = val
  /\ UNCHANGED <<syms, queue, degree, frames, got, attempts>>

Exact == \A i \in Source : revealed[i] = {i}

\* The blocks parse and the decoder is dropped (handle_bulk after Ok).
Retire == phase = "Ok" /\ syms' = <<>> /\ queue' = <<>> /\ degree' = <<>>
          /\ revealed' = Unrevealed /\ phase' = "idle" /\ frames' = 0
          /\ got' = {} /\ attempts' = 0

\* Other bytes may fail to decompress: an error return that keeps the decoder.
Reject ==
  /\ phase = "Ok" /\ ~Exact
  /\ phase' = "idle"
  /\ UNCHANGED <<syms, decode_vars, frames, got, attempts>>

Next ==
  \/ Frame
  \/ \E cover \in SUBSET Source \ {{}} : Add(cover)
  \/ Decode
  \/ Peel
  \/ Solve
  \/ Retire
  \/ Reject

Spec == Init /\ [][Next]_vars

-----------------------------------------------------------------------------
\* No choice of source values other than the true one fits the symbols.
Determined == \A v \in SUBSET Source \ {{}} : \E c \in got : Cardinality(c \cap v) % 2 = 1

\* Whichever symbols were lost, repeated or out of order, and however many
\* frames brought too few: a decoder that peels for the first time returns the
\* source symbols, and gives up only if those received do not determine them
\* (peel_symbols, the residual system included).
FirstDecodeExact ==
  attempts <= 1 => /\ phase = "Ok" => Exact
                   /\ phase = "Underdetermined" => ~Determined

\* What the header of fountain.rs promises of a receiver that keeps adding
\* symbols after an attempt that found too few independent ones.
DecodesExactly == phase = "Ok" => Exact
=============================================================================
