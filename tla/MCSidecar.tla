----------------------------- MODULE MCSidecar ------------------------------
(***************************************************************************)
(* An instance of Sidecar: three conversations, of two turns and of one.   *)
(***************************************************************************)
EXTENDS Sidecar, TLC

CONSTANTS A, B, C, x, y, z, w

ThreadSymmetry == Permutations(Thread)

Chat(s, base, ids) ==
  [kind |-> "Append", s |-> s, base |-> base, ids |-> ids, refs |-> {}]

Sync(s, ids) ==
  [kind |-> "Resync", s |-> s, base |-> ids, ids |-> ids, refs |-> {}]

\* A conversation of two turns, and two of one.
Talks == (A :> <<x, y>> @@ B :> <<z>> @@ C :> <<w>>)

Chats == {Chat(A, <<>>, <<x>>), Chat(A, <<x>>, <<y>>), Chat(B, <<>>, <<z>>), Chat(C, <<>>, <<w>>)}

\* A takes its history back to the first turn.
Rewinds == {Sync(A, <<x>>)}
=============================================================================
