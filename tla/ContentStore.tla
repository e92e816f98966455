---------------------------- MODULE ContentStore ----------------------------
(***************************************************************************)
(* The content-addressed store (core/src/store.rs), the rolling Merkle     *)
(* root over a session log (core/src/merkle.rs) and what a write-ahead-log *)
(* record does to a store when it is replayed (core/src/wal.rs).           *)
(*                                                                         *)
(* The module has no variables.  A store is a value, an image, and each    *)
(* operation maps an image to the next one.  The receiver applies them to  *)
(* its memory; replay applies the same operations, as the code does, to a  *)
(* store whose WAL is not attached yet.                                    *)
(*                                                                         *)
(* A block is its id: ids are content addresses (BLAKE3, collision free).  *)
(* For the same reason a root is the sequence of ids it was folded over,   *)
(* so two roots are equal exactly when the logs behind them are.           *)
(***************************************************************************)
EXTENDS Naturals, Sequences, FiniteSets, Functions

CONSTANTS BlockId,  \* content addresses
          Session   \* wire session ids

Root == Seq(BlockId)

\* The elements of q at the positions in keep, in the order of q.
Select(q, keep) ==
  [k \in 1..Cardinality(keep) |->
     q[CHOOSE i \in keep : Cardinality({j \in keep : j <= i}) = k]]

\* IsPrefix(ids, l); SequencesExt has it, and brings Bags into every proof.
StartsWith(l, ids) == Len(ids) <= Len(l) /\ SubSeq(l, 1, Len(ids)) = ids

ROOT_ZERO == <<>>

append_root(root, id) == Append(root, id)

\* The fold of append_root over ids, starting from root.
root_over(root, ids) == root \o ids

\* An absent entry of the session map reads as an empty log.
NoSessionLog == [live |-> FALSE, ids |-> <<>>, root |-> ROOT_ZERO]

SessionLog == [live: {TRUE}, ids: Seq(BlockId), root: Root] \cup {NoSessionLog}

Image == [blocks: SUBSET BlockId, log: [Session -> SessionLog]]

EmptyStore == [blocks |-> {}, log |-> [s \in Session |-> NoSessionLog]]

contains(im, id) == id \in im.blocks

session_root(im, s) == im.log[s].root

session_ids(im, s) == im.log[s].ids

\* Every root of a store is the fold over its log; the proofs need it.
Sound(im) == \A s \in Session : session_root(im, s) = session_ids(im, s)

\* The sessions.entry(..) step shared by insert and reference.
LogAppend(im, s, id) ==
  [im EXCEPT !.log[s] = [live |-> TRUE,
                         ids  |-> Append(@.ids, id),
                         root |-> append_root(@.root, id)]]

insert_with_id(im, s, id) ==
  LogAppend([im EXCEPT !.blocks = @ \cup {id}], s, id)

\* An unknown id is an error that leaves the store alone.
reference(im, s, id) == IF contains(im, id) THEN LogAppend(im, s, id) ELSE im

\* Mutant: the manifest is appended to the log instead of replacing it.
SeedAppends(im, s, ids, root) ==
  [im EXCEPT !.log[s] = [live |-> TRUE, ids |-> @.ids \o ids, root |-> root]]

seed_session(im, s, ids, root) ==
  [im EXCEPT !.log[s] = [live |-> TRUE, ids |-> ids, root |-> root]]

\* Mutant: recovered content does not reach the block map.
ContentLost(im, id) == im

store_content(im, id) == [im EXCEPT !.blocks = @ \cup {id}]

(***************************************************************************)
(* WAL records.  INSERT, REFERENCE and CONTENT carry one id, SEED a        *)
(* manifest and the client's root.                                         *)
(***************************************************************************)
Record ==
  [variant: {"INSERT", "REFERENCE", "CONTENT"}, s: Session,
   ids: [1..1 -> BlockId], root: {ROOT_ZERO}]
  \cup [variant: {"SEED"}, s: Session, ids: Seq(BlockId), root: Root]

BlockRecord(variant, s, id) ==
  [variant |-> variant, s |-> s, ids |-> <<id>>, root |-> ROOT_ZERO]

SeedRecord(s, ids, root) ==
  [variant |-> "SEED", s |-> s, ids |-> ids, root |-> root]

\* Mutant: the payload of a new block is not logged.
InsertRecordIdOnly(im, s, id) == BlockRecord("REFERENCE", s, id)

\* What insert_with_canonical logs: the block if it was new, else its id.
InsertRecord(im, s, id) ==
  BlockRecord(IF contains(im, id) THEN "REFERENCE" ELSE "INSERT", s, id)

\* One turn of the replay loop.
replay(im, rec) ==
  CASE rec.variant = "INSERT"    -> insert_with_id(im, rec.s, rec.ids[1])
    [] rec.variant = "REFERENCE" -> reference(im, rec.s, rec.ids[1])
    [] rec.variant = "SEED"      -> seed_session(im, rec.s, rec.ids, rec.root)
    [] rec.variant = "CONTENT"   -> store_content(im, rec.ids[1])
=============================================================================
