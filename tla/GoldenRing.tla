----------------------------- MODULE GoldenRing -----------------------------
(***************************************************************************)
(* The golden-ratio placement ring (coding/src/placement.rs), with         *)
(* positions of RingBits bits for 64.  nodes maps the positions in use to     *)
(* entities.                                                               *)
(***************************************************************************)
EXTENDS Integers, FiniteSets, Functions

CONSTANTS Entity,
          RingBits,       \* bits of a position
          Golden      \* the odd multiplier: 0x9E3779B97F4A7C15 for 64 bits

VARIABLES nodes, id_to_pos, counter

ringVars == <<nodes, id_to_pos, counter>>

Position == 0..(2^RingBits - 1)

placement_fixed(n) == (n * Golden) % 2^RingBits

\* Multiplication by an odd number permutes the positions.
ASSUME GoldenAssumption ==
  /\ 2^RingBits \in Nat \ {0} /\ Golden \in Nat
  /\ \A m, n \in Position : placement_fixed(m) = placement_fixed(n) => m = n

-----------------------------------------------------------------------------
RingInit == nodes = <<>> /\ id_to_pos = <<>> /\ counter = 0

\* Mutant: the slot is the number of entities on the ring.
slot_len == Cardinality(DOMAIN nodes)

\* Positions come from a counter that only grows.
slot == counter

\* A known entity keeps its position.  The counter does not come round: there
\* are never 2^RingBits adds.
RingAdd(e) ==
  /\ e \notin DOMAIN id_to_pos
  /\ counter < 2^RingBits
  /\ LET pos == placement_fixed(slot)
     IN /\ nodes' = [p \in DOMAIN nodes \cup {pos} |-> IF p = pos THEN e ELSE nodes[p]]
        /\ id_to_pos' = [i \in DOMAIN id_to_pos \cup {e} |-> IF i = e THEN pos ELSE id_to_pos[i]]
  /\ counter' = counter + 1

RingRemove(e) ==
  /\ e \in DOMAIN id_to_pos
  /\ id_to_pos' = Restrict(id_to_pos, DOMAIN id_to_pos \ {e})
  /\ nodes' = Restrict(nodes, DOMAIN nodes \ {id_to_pos[e]})
  /\ UNCHANGED counter

RingNext ==
  \/ \E e \in Entity : RingAdd(e)
  \/ \E e \in Entity : RingRemove(e)

RingSpec == RingInit /\ [][RingNext]_ringVars
-----------------------------------------------------------------------------
Least(S) == CHOOSE p \in S : \A q \in S : p <= q

\* The first of the positions at k or above, "else wrap to the smallest".
range(positions, k) ==
  LET above == {p \in positions : p >= k}
  IN IF above # {} THEN Least(above) ELSE Least(positions)

route(key) ==
  IF DOMAIN nodes = {} THEN {} ELSE {nodes[range(DOMAIN nodes, placement_fixed(key))]}
-----------------------------------------------------------------------------
\* "No resharding": a key changes hands only to the entity just added or from
\* the one just removed.
KeysStayPut ==
  [][\A key \in Position :
       route(key)' # route(key)
         => \/ route(key)' \subseteq DOMAIN id_to_pos' \ DOMAIN id_to_pos
            \/ route(key) \subseteq DOMAIN id_to_pos \ DOMAIN id_to_pos']_ringVars

\* The invariant behind it: the two maps are inverse to each other, and no
\* position is that of a slot still to be given out.
RingInv ==
  /\ counter \in 0..2^RingBits
  /\ nodes = [p \in DOMAIN nodes |-> nodes[p]]
  /\ id_to_pos = [e \in DOMAIN id_to_pos |-> id_to_pos[e]]
  /\ \A p \in DOMAIN nodes : nodes[p] \in DOMAIN id_to_pos /\ id_to_pos[nodes[p]] = p
  /\ \A e \in DOMAIN id_to_pos : id_to_pos[e] \in DOMAIN nodes /\ nodes[id_to_pos[e]] = e
  /\ \A p \in DOMAIN nodes : \E n \in 0..(counter - 1) : p = placement_fixed(n)
=============================================================================
