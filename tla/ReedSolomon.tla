---------------------------- MODULE ReedSolomon ----------------------------
(***************************************************************************)
(* The systematic Reed-Solomon code (coding/src/rs.rs).  Matrices are      *)
(* sequences of rows; symbol i of the code is at i + 1.  The generator is  *)
(* a function of its shape, so the cache of generators does not show.      *)
(***************************************************************************)
EXTENDS GaloisField

\* Row i is 1, alpha, alpha^2, ... with alpha = i as a byte.
vandermonde(n, k) ==
  [i \in 1..n |-> FoldLeft(LAMBDA row, j : Append(row, gf_mul[Last(row), i % GF_SIZE]),
                           <<1>>, [j \in 1..(k - 1) |-> j])]

\* Gauss-Jordan on [a | I]; a row that finds no pivot skips its column.
invert_matrix(a, k) ==
  LET unit(i) == [j \in 1..k |-> IF i = j THEN 1 ELSE 0]
      step(rows, r) ==
        LET pivots == {q \in r..k : rows[q][r] # 0}
        IN IF pivots = {} THEN rows
           ELSE PivotColumn([rank |-> r - 1, rows |-> rows], r,
                            CHOOSE p \in pivots : \A q \in pivots : p <= q).rows
      done == FoldLeft(step, [i \in 1..k |-> a[i] \o unit(i)], [r \in 1..k |-> r])
  IN [i \in 1..k |-> SubSeq(done[i], k + 1, 2 * k)]

\* sum_t row[t] * m[t]
RowTimes(row, m) ==
  FoldLeft(LAMBDA acc, t : gf_axpy_slice(row[t], m[t], acc),
           [j \in DOMAIN m[1] |-> 0], [t \in DOMAIN row |-> t])

build_generator(k, m) ==
  LET v   == vandermonde(k + m, k)
      inv == invert_matrix(SubSeq(v, 1, k), k)
  IN [i \in 1..(k + m) |->
        IF i <= k THEN [j \in 1..k |-> IF i = j THEN 1 ELSE 0] ELSE RowTimes(v[i], inv)]

rs_encode(g, data) ==
  [i \in DOMAIN g |-> IF i <= Len(data) THEN data[i] ELSE RowTimes(g[i], data)]

\* Mutant: a symbol is taken for the one of its place among the survivors.
rs_rows_by_place(g, k, survived) == [i \in 1..k |-> g[i] \o survived[i].sym]

\* "pick first k survived rows"
rs_rows(g, k, survived) == [i \in 1..k |-> g[survived[i].index] \o survived[i].sym]

\* Err is the empty sequence.  Every row of full rank has one pivot.
rs_decode(g, k, survived) ==
  IF Len(survived) < k THEN <<>>
  ELSE LET m == gf_gauss_eliminate(rs_rows(g, k, survived), k)
           pivot(row) == CHOOSE c \in 1..k : row[c] # 0 /\ \A b \in 1..(c - 1) : row[b] = 0
           at(c) == CHOOSE r \in DOMAIN m.rows : pivot(m.rows[r]) = c
       IN IF m.rank < k THEN <<>>
          ELSE [c \in 1..k |-> SubSeq(m.rows[at(c)], k + 1, Len(m.rows[at(c)]))]
=============================================================================
