----------------------------- MODULE MCReceiver -----------------------------
(***************************************************************************)
(* Instances of Receiver, which differ in what clients send and in whether *)
(* the WAL may fail.  Sessions A and B belong to honest shims, whose       *)
(* conversations may share block p: a system prompt hashes to the same id  *)
(* in every session.                                                       *)
(***************************************************************************)
EXTENDS Receiver, TLC

CONSTANTS A, B, p, x, y, Loads

VARIABLE load   \* one of Loads, for a whole behaviour

Frm(s, kind, base, ids, refs) ==
  [kind |-> kind, s |-> s, base |-> base, ids |-> ids, refs |-> refs]

ThreadSymmetry == Permutations(Thread)

\* Everything one client sends: two turns, and a cold start after each,
\* the second one in two generations.
OneSessionFrames ==
  {Frm(A, "Append", <<>>, <<p, x>>, {}),
   Frm(A, "Append", <<p, x>>, <<y>>, {}),
   Frm(A, "Resync", <<p, x>>, <<p, x>>, {}),
   Frm(A, "Resync", <<p, x, y>>, <<p, x, y>>, {}),
   Frm(A, "Bulk", <<>>, <<x, p>>, {}),
   Frm(A, "Bulk", <<>>, <<y>>, {})}

\* One manifest in two generations, and a turn that may overtake the ACK of
\* its RESYNC, beside turns of B that share no block.
DisjointFrames ==
  {Frm(A, "Append", <<>>, <<p, x>>, {}),
   Frm(A, "Append", <<p, x>>, <<x>>, {1}),
   Frm(A, "Resync", <<p, x>>, <<p, x>>, {}),
   Frm(A, "Bulk", <<>>, <<x>>, {}),
   Frm(A, "Bulk", <<>>, <<p>>, {}),
   Frm(B, "Append", <<>>, <<y>>, {}),
   Frm(B, "Append", <<y>>, <<y>>, {1})}

\* A cold start of A whose content B's turn already refers to.
SharedBlockFrames ==
  {Frm(A, "Resync", <<p>>, <<p>>, {}),
   Frm(A, "Bulk", <<>>, <<p>>, {}),
   Frm(B, "Append", <<>>, <<p>>, {})}

Sent == [crashes |-> DisjointFrames, faults |-> OneSessionFrames, shared |-> SharedBlockFrames]

AllFrames == UNION {Sent[l] : l \in Loads}

\* Only where one thread works at a time does the WAL fail.
Within ==
  LET busy == {t \in Thread : pc[t] # "idle"}
  IN /\ \A t \in busy : req[t] \in Sent[load]
     /\ IF load = "faults" THEN Cardinality(busy) <= 1 ELSE faults = 0

LoadInit == load \in Loads /\ Init

LoadNext == Next /\ UNCHANGED load /\ Within'

LoadSpec == LoadInit /\ [][LoadNext]_<<vars, load>>
=============================================================================
