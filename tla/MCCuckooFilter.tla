--------------------------- MODULE MCCuckooFilter ---------------------------
(***************************************************************************)
(* CuckooFilter for TLC.  An id is its hash, a number below 16; the        *)
(* fingerprint is the hash (never zero) and the primary index its low      *)
(* bits, as in indices.  MCDelta and MCRehash stand for the multiplication *)
(* by GOLDEN64 and for xxh3 of a bare fingerprint.                         *)
(***************************************************************************)
EXTENDS FilterQueries, Bitwise, TLC

CONSTANT Hashes

MCFP == [h \in Hashes |-> IF h = 0 THEN 1 ELSE h]

MCFirst(h, w) == h % w

MCDelta(f) == 5 * f

MCAlt(i, f, w) == (i ^^ MCDelta(f)) % w

MCRehash(f, w) == (3 * f + 1) % w

Threads == Permutations(Proc)
=============================================================================
