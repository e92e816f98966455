-------------------------------- MODULE Rlnc --------------------------------
(***************************************************************************)
(* Random linear network coding (coding/src/rlnc.rs).  The encoder's       *)
(* random numbers are any coefficients it accepts.  A packet is            *)
(* [coeffs, payload], a decoder [k, size, rows, pivots].  Packets have the *)
(* sizes the decoder was made for, which add checks.                       *)
(***************************************************************************)
EXTENDS GaloisField

Zeros(n) == [i \in 1..n |-> 0]

Combine(coeffs, source, size) ==
  FoldLeft(LAMBDA acc, i : gf_axpy_slice(coeffs[i], source[i], acc),
           Zeros(size), [i \in DOMAIN coeffs |-> i])

Packet(coeffs, source, size) == [coeffs |-> coeffs, payload |-> Combine(coeffs, source, size)]

\* code: coefficients are drawn again while all are zero.
DenseCoeffs(k) == [1..k -> Element] \ {Zeros(k)}

Support(coeffs) == {i \in DOMAIN coeffs : coeffs[i] # 0}

\* code_sparse: odd coefficients on up to degree sources; the guard may end
\* the draw early, but not before the first source.
SparseCoeffs(k, degree) ==
  LET most == IF degree < 1 THEN 1 ELSE IF degree > k THEN k ELSE degree
      odd  == {c \in Element : c % 2 = 1}
  IN {c \in [1..k -> odd \cup {0}] : Cardinality(Support(c)) \in 1..most}

-----------------------------------------------------------------------------
NewDecoder(k, size) == [k |-> k, size |-> size, rows |-> <<>>, pivots |-> <<>>]

ClearColumn(rows, piv, row) == [i \in DOMAIN rows |-> gf_axpy_slice(rows[i][piv], row, rows[i])]

\* Mutant: a packet is reduced by the first row only.
ReduceOnce(dec, row) ==
  IF dec.rows = <<>> THEN row ELSE gf_axpy_slice(row[dec.pivots[1]], dec.rows[1], row)

Reduce(dec, row) ==
  FoldLeft(LAMBDA acc, i : gf_axpy_slice(acc[dec.pivots[i]], dec.rows[i], acc),
           row, [i \in DOMAIN dec.rows |-> i])

first_nonzero(row, k) ==
  LET at == {i \in 1..k : row[i] # 0}
  IN IF at = {} THEN 0 ELSE CHOOSE i \in at : \A j \in at : i <= j

add(dec, p) ==
  LET row == Reduce(dec, p.coeffs \o p.payload)
      piv == first_nonzero(row, dec.k)
      unit == gf_scal_slice(gf_inv(row[piv]), row)
  IN IF piv = 0 THEN dec
     ELSE [dec EXCEPT !.rows = Append(ClearColumn(@, piv, unit), unit),
                      !.pivots = Append(@, piv)]

\* decode: Err is the empty sequence.
rlnc_decode(dec) ==
  IF Len(dec.rows) < dec.k \/ ToSet(dec.pivots) # 1..dec.k THEN <<>>
  ELSE [c \in 1..dec.k |->
          LET i == CHOOSE i \in DOMAIN dec.pivots : dec.pivots[i] = c
          IN SubSeq(dec.rows[i], dec.k + 1, dec.k + dec.size)]
=============================================================================
