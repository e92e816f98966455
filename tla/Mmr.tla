-------------------------------- MODULE Mmr --------------------------------
(***************************************************************************)
(* The Merkle mountain range behind the log (core/src/mmr.rs).  A hash is  *)
(* the structure that was hashed, so two hashes are equal when and only    *)
(* when their inputs are.  Leaves and arena nodes are numbered from 0 in   *)
(* the code; arena index n is here arena[n + 1].                           *)
(***************************************************************************)
EXTENDS Integers, Sequences, SequencesExt

CONSTANTS LeafId,     \* block ids
          MaxLeaves   \* bound: leaves appended

VARIABLES trees,   \* the perfect trees: [root, height, base]
          leaves,
          arena,   \* the nodes: [hash, left, right], -1 for no child
          ids      \* the ids appended, in order

mmrVars == <<trees, leaves, arena, ids>>

parent(left, right) == <<"M", left, right>>

leaf_h(id) == <<"L", id>>

leaf_range(t) == t.base..(t.base + 2^t.height - 1)

HashAt(n) == arena[n + 1].hash

-----------------------------------------------------------------------------
MmrInit == trees = <<>> /\ leaves = 0 /\ arena = <<>> /\ ids = <<>>

\* Mutant: the merged tree is taken to start where its right half does.
Merged_base(prev, tree, root) == [root |-> root, height |-> prev.height + 1, base |-> tree.base]

Merged(prev, tree, root) == [root |-> root, height |-> prev.height + 1, base |-> prev.base]

\* The loop of append: equal heights are linked under a new node.
RECURSIVE Link(_, _, _)
Link(ts, ar, tree) ==
  IF ts # <<>> /\ Last(ts).height = tree.height
  THEN LET prev == Last(ts)
           node == [hash  |-> parent(ar[prev.root + 1].hash, ar[tree.root + 1].hash),
                    left  |-> prev.root, right |-> tree.root]
       IN Link(Front(ts), Append(ar, node), Merged(prev, tree, Len(ar)))
  ELSE [trees |-> Append(ts, tree), arena |-> ar]

MmrAppend(id) ==
  /\ leaves < MaxLeaves
  /\ LET node == [hash |-> leaf_h(id), left |-> -1, right |-> -1]
         r    == Link(trees, Append(arena, node),
                      [root |-> Len(arena), height |-> 0, base |-> leaves])
     IN trees' = r.trees /\ arena' = r.arena
  /\ leaves' = leaves + 1
  /\ ids' = Append(ids, id)

MmrNext == \E id \in LeafId : MmrAppend(id)

MmrSpec == MmrInit /\ [][MmrNext]_mmrVars
-----------------------------------------------------------------------------
\* root
bagged ==
  IF trees = <<>> THEN <<"0">>
  ELSE FoldLeft(LAMBDA acc, t : parent(acc, HashAt(t.root)), HashAt(Head(trees).root), Tail(trees))

Covering(i) == {n \in DOMAIN trees : i \in leaf_range(trees[n])}

\* The walk of inclusion_proof from node, which holds 2^h leaves, to the leaf;
\* the steps are already in leaf-to-root order.
RECURSIVE Siblings(_, _, _)
Siblings(node, h, leaf) ==
  IF h = 0 THEN <<>>
  ELSE LET half == 2^(h - 1)
           n    == arena[node + 1]
       IN IF leaf < half
          THEN Append(Siblings(n.left, h - 1, leaf), [hash |-> HashAt(n.right), left |-> FALSE])
          ELSE Append(Siblings(n.right, h - 1, leaf - half), [hash |-> HashAt(n.left), left |-> TRUE])

inclusion_proof(i) ==
  IF Covering(i) = {} THEN <<>>
  ELSE LET t == trees[CHOOSE n \in Covering(i) : TRUE]
       IN Siblings(t.root, t.height, i - t.base)

peak_from_proof(id, proof) ==
  FoldLeft(LAMBDA acc, s : IF s.left THEN parent(s.hash, acc) ELSE parent(acc, s.hash),
           leaf_h(id), proof)

verify_inclusion(i, id) ==
  /\ Covering(i) # {}
  /\ peak_from_proof(id, inclusion_proof(i)) = HashAt(trees[CHOOSE n \in Covering(i) : TRUE].root)
-----------------------------------------------------------------------------
\* The ids under a hash, from left to right.
RECURSIVE Under(_)
Under(h) == CASE h[1] = "L" -> <<h[2]>>
              [] h[1] = "M" -> Under(h[2]) \o Under(h[3])
              [] OTHER -> <<>>

\* The range commits to the log: verify_inclusion accepts an id at an index
\* exactly when append put that id there, the index after the last leaf
\* included, and the bagged root covers all leaves in order, with "every perfect
\* subtree stored exactly once".
CommitsToLog ==
  /\ \A i \in 0..leaves, id \in LeafId : verify_inclusion(i, id) <=> i < leaves /\ ids[i + 1] = id
  /\ Under(bagged) = ids /\ Len(arena) = 2 * leaves - Len(trees)
=============================================================================
