---------------------------- MODULE GaloisField ----------------------------
(***************************************************************************)
(* Arithmetic of the field the codes work in (coding/src/gf256.rs), with   *)
(* Bits for the 8 bits of a byte: the tables are built the same way, and   *)
(* a vector is processed in whole chunks by the nibble-table kernels and   *)
(* in its tail by the multiply table.                                      *)
(***************************************************************************)
EXTENDS Integers, Sequences, SequencesExt, Bitwise

CONSTANTS Bits,    \* bits of a field element, even
          Poly,    \* the reducing polynomial: 7 for 2 bits, 283 (0x11B) for 8
          Chunk    \* bytes a vector kernel handles at once

GF_SIZE == 2^Bits

Element == 0..(GF_SIZE - 1)

gf_add == [a \in Element, b \in Element |-> a ^^ b]

\* build_tables: the field walked with generator 3, exp doubled.
Powers[i \in 0..(GF_SIZE - 2)] ==
  IF i = 0 THEN 1
  ELSE LET g  == Powers[i - 1]
           g2 == (2 * g) ^^ (IF 2 * g >= GF_SIZE THEN Poly ELSE 0)
       IN (g2 ^^ g) % GF_SIZE

gf_exp == [i \in 0..(2 * GF_SIZE - 2) |-> Powers[i % (GF_SIZE - 1)]]

gf_log == [a \in Element |-> IF a = 0 THEN 0 ELSE CHOOSE i \in 0..(GF_SIZE - 2) : gf_exp[i] = a]

gf_mul == [a \in Element, b \in Element |-> IF 0 \in {a, b} THEN 0 ELSE gf_exp[gf_log[a] + gf_log[b]]]

gf_inv(a) == IF a = 0 THEN 0 ELSE gf_exp[GF_SIZE - 1 - gf_log[a]]

\* mul_nibble_tables: products with the low half and with the high half.
Nibble == 2^(Bits \div 2)

lo == [a \in Element, i \in 0..(Nibble - 1) |-> gf_mul[a, i]]

hi == [a \in Element, i \in 0..(Nibble - 1) |-> gf_mul[a, i * Nibble]]

\* What every kernel computes for one byte.
kernel(a, x) == gf_add[lo[a, x % Nibble], hi[a, x \div Nibble]]

\* Position i of a vector of n: the whole chunks, then the tail.
Product(a, x, i, n) == IF i <= n - (n % Chunk) THEN kernel(a, x) ELSE gf_mul[a, x]

gf_axpy_slice(a, src, dst) ==
  LET n == IF Len(src) < Len(dst) THEN Len(src) ELSE Len(dst)
  IN [i \in DOMAIN dst |->
        IF a = 0 \/ i > n THEN dst[i]
        ELSE gf_add[dst[i], IF a = 1 THEN src[i] ELSE Product(a, src[i], i, n)]]

gf_scal_slice(a, dst) ==
  [i \in DOMAIN dst |-> CASE a = 0 -> 0
                          [] a = 1 -> dst[i]
                          [] OTHER -> Product(a, dst[i], i, Len(dst))]

\* Row rank + 1 becomes the pivot row of column col, which is cleared in the
\* others.
PivotColumn(m, col, pivot) ==
  LET r     == m.rank + 1
      moved == [m.rows EXCEPT ![pivot] = m.rows[r], ![r] = m.rows[pivot]]
      prow  == gf_scal_slice(gf_inv(moved[r][col]), moved[r])
  IN [rank |-> r,
      rows |-> [q \in DOMAIN moved |->
                  IF q = r THEN prow ELSE gf_axpy_slice(moved[q][col], prow, moved[q])]]

EliminateColumn(m, col) ==
  LET pivots == {r \in (m.rank + 1)..Len(m.rows) : m.rows[r][col] # 0}
  IN IF pivots = {} THEN m
     ELSE PivotColumn(m, col, CHOOSE r \in pivots : \A q \in pivots : r <= q)

\* The rank over the first k columns, and the reduced rows.
gf_gauss_eliminate(rows, k) ==
  FoldLeft(EliminateColumn, [rows |-> rows, rank |-> 0], [col \in 1..k |-> col])
=============================================================================
