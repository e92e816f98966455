---------------------------- MODULE Hierarchical ----------------------------
(***************************************************************************)
(* The two-level code (coding/src/hierarchical.rs): an outer Reed-Solomon  *)
(* code whose symbols are dealt to groups, each of which sends random      *)
(* combinations of its own symbols; the receiver decodes group by group    *)
(* and then the outer code.  A packet that is lost is simply not in rcv.   *)
(* Symbols and groups are numbered from 1.                                 *)
(***************************************************************************)
EXTENDS ReedSolomon, Rlnc, FiniteSets

CONSTANTS K, M,          \* outer data and parity symbols
          Groups,        \* how many groups
          Degree,        \* the degree asked of code_sparse
          MaxPackets,    \* bound: packets a group's receiver holds, by group
          MaxAdds        \* bound: calls of add_group

VARIABLES rcv,    \* rcv[g]: the packets that arrived from group g, in order
          outer,  \* HierDecoder.outer
          added   \* the groups of the successful add_group calls, in order

hierVars == <<rcv, outer, added>>

\* By linearity the unit vectors stand for all data.
data == [i \in 1..K |-> [j \in 1..K |-> IF i = j THEN 1 ELSE 0]]

symbol_size == K

generator == build_generator(K, M)

\* HierEncoder::new
Encoded == rs_encode(generator, data)

\* into_groups: symbol i (from zero) belongs to group i % g.
owned == [g \in 1..Groups |-> SelectSeq([i \in 1..(K + M) |-> i], LAMBDA i : (i - 1) % Groups = g - 1)]

Source(g) == [i \in DOMAIN owned[g] |-> Encoded[owned[g][i]]]

-----------------------------------------------------------------------------
HierInit ==
  /\ rcv = [g \in 1..Groups |-> <<>>]
  /\ outer = <<>>
  /\ added = <<>>

Receive(g, coeffs) ==
  /\ Len(rcv[g]) < MaxPackets[g]
  /\ rcv' = [rcv EXCEPT ![g] = Append(@, Packet(coeffs, Source(g), symbol_size))]
  /\ UNCHANGED <<outer, added>>

Code(g) == \E coeffs \in DenseCoeffs(Len(owned[g])) : Receive(g, coeffs)

CodeSparse(g) == \E coeffs \in SparseCoeffs(Len(owned[g]), Degree) : Receive(g, coeffs)

Collected(g) == FoldLeft(add, NewDecoder(Len(owned[g]), symbol_size), rcv[g])

contribute(g, syms) == [i \in DOMAIN syms |-> [index |-> owned[g][i], sym |-> syms[i]]]

\* An error leaves outer as it was.
AddGroup(g) ==
  /\ Len(added) < MaxAdds
  /\ LET syms == rlnc_decode(Collected(g))
     IN /\ syms # <<>>
        /\ outer' = outer \o contribute(g, syms)
        /\ added' = Append(added, g)
  /\ UNCHANGED rcv

ready == Len(outer) >= K

hier_decode == IF ~ready THEN <<>> ELSE rs_decode(generator, K, outer)

HierNext ==
  \/ \E g \in 1..Groups : Code(g)
  \/ \E g \in 1..Groups : CodeSparse(g)
  \/ \E g \in 1..Groups : AddGroup(g)

HierSpec == HierInit /\ [][HierNext]_hierVars
-----------------------------------------------------------------------------
\* All combinations of the coefficient vectors of a sequence of packets.
Span(pkts, n) ==
  FoldLeft(LAMBDA S, p : {gf_axpy_slice(c, p.coeffs, v) : c \in Element, v \in S},
           {Zeros(n)}, pkts)

\* RlncDecoder::add keeps exactly as many rows as the packets span dimensions,
\* whatever their order and repetitions: a useful packet is never thrown away
\* and a useless one never counted towards K.
RankIsDimension ==
  \A g \in 1..Groups :
    Cardinality(Span(rcv[g], Len(owned[g]))) = GF_SIZE^Len(Collected(g).rows)

\* decode never answers with other data, and from any groups that together hold
\* K outer symbols, each added once, in any order, it does answer.
ContextRecovered ==
  /\ hier_decode \in {<<>>, data}
  /\ ready /\ (\A i, j \in DOMAIN added : added[i] = added[j] => i = j) => hier_decode = data
=============================================================================
