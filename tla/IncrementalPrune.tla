-------------------------- MODULE IncrementalPrune --------------------------
(***************************************************************************)
(* The maintained prune window of one session: IncrementalPruner           *)
(* (prune/src/incremental.rs) and IncrementalPruneScheduler, which feeds   *)
(* it from the receiver's store (prune/src/lib.rs).                        *)
(*                                                                         *)
(* The append path stores a block and then ingests it; a cold start reads  *)
(* the log, builds a pruner of its own and then publishes it; a window is  *)
(* read under the lock and materialised from the store afterwards.  The    *)
(* session may have been seeded from a manifest, so that the content of    *)
(* some of its blocks is still to be recovered.                            *)
(***************************************************************************)
EXTENDS ContentStore, Integers

CONSTANTS PayloadLen,     \* [BlockId -> Nat]
          Budgets,        \* Budget values: a shape, "Blocks" or "Tokens", and
                          \* its limit, with the name of a scorer
          Score(_, _, _), \* what a scorer gives an insertion's seq and size
          Manifests,      \* the logs a resync may seed
          MaxLog,
          MaxClock,       \* insertions into one pruner; the default score keeps
                          \* 44 bits of their number
          None

\* A block whose content is missing counts as 0.
Size == {0} \cup {PayloadLen[id] : id \in BlockId}

\* Scores as the code builds them: default_score, the only scorer of a token
\* budget, has the insertion's number in its high bits; a block budget also
\* takes a scorer that ranks a larger block no lower.
ASSUME PruneAssumption ==
  /\ PayloadLen \in [BlockId -> Nat] /\ Manifests \subseteq Seq(BlockId) /\ MaxClock \in Nat
  /\ \A b \in Budgets :
       /\ b.shape \in {"Blocks", "Tokens"} /\ b.limit \in Nat
       /\ \A m \in 1..MaxClock, z \in Size : Score(b.scorer, m, z) \in Nat
       /\ \A m, n \in 1..MaxClock, y, z \in Size :
            m < n => IF b.shape = "Tokens"
                       THEN Score(b.scorer, m, y) < Score(b.scorer, n, z)
                       ELSE y <= z => Score(b.scorer, m, y) <= Score(b.scorer, n, z)

VARIABLES budget,    \* the budget and scorer the scheduler was built with
          log,       \* the session log in the store
          have,      \* ids whose content is in the store
          pruner,    \* the published pruner, or None
          cold,      \* the pruner a cold start is building and the ids it
                     \* has still to insert, or None
          arrived,   \* an id stored by the append path and not ingested yet
          asked,     \* ids of a window read but not materialised, or None
          window     \* the last window handed out

prunerVars == <<budget, log, have, pruner, cold, arrived, asked, window>>

(***************************************************************************)
(* A pruner.  ordered holds the BTreeMap's entries, index the entry of     *)
(* each survivor with its size.  fed is history: the last entry of every   *)
(* id this pruner was ever fed.                                            *)
(***************************************************************************)
Entry(score, seq, id, size) == [score |-> score, seq |-> seq, id |-> id, size |-> size]

Key(e) == [score |-> e.score, seq |-> e.seq, id |-> e.id]

Below(k, l) == k.score < l.score \/ (k.score = l.score /\ k.seq < l.seq)

NewPruner == [ordered |-> {}, index |-> {}, total_size |-> 0, clock |-> 0, fed |-> {}]

EntryOf(entries, id) == {e \in entries : e.id = id}

Sizes(entries) == SumFunctionOnSet([e \in entries |-> e.size], entries)

Over(p) == IF budget.shape = "Blocks"
             THEN Cardinality(p.ordered) > budget.limit
             ELSE p.total_size > budget.limit /\ Cardinality(p.ordered) > 1

\* Mutant: pop_last for pop_first.
Highest(p, k) == {x \in p.ordered : Cardinality({y \in p.ordered : ~Below(y, x)}) <= k}

\* The keys that k calls of pop_first return.
Lowest(p, k) == {x \in p.ordered : Cardinality({y \in p.ordered : ~Below(x, y)}) <= k}

\* Mutant: the evicted sizes are not given back.
DropKeepsSize(p, keys) ==
  [p EXCEPT !.ordered = @ \ keys, !.index = {e \in @ : \A k \in keys : k.id # e.id}]

\* What the turns of the eviction loop that popped these keys do.
Drop(p, keys) ==
  LET gone == {e \in p.index : \E k \in keys : k.id = e.id}
  IN [ordered |-> p.ordered \ keys, index |-> p.index \ gone,
      total_size |-> p.total_size - Sizes(gone), clock |-> p.clock, fed |-> p.fed]

\* Mutant: one eviction, also for a token budget.
EvictOnce(p) == IF Over(p) THEN Drop(p, Lowest(p, 1)) ELSE p

\* The loop: one turn for a block budget, while over for a token budget.
EvictOver(p) ==
  LET turns   == IF budget.shape = "Blocks" THEN 1 ELSE Cardinality(p.ordered)
      left(k) == Drop(p, Lowest(p, k))
  IN left(CHOOSE k \in 0..turns : /\ k = turns \/ ~Over(left(k))
                                  /\ \A j \in 0..(k - 1) : Over(left(j)))

RemoveOld(p, id) ==
  LET old == EntryOf(p.index, id)
  IN [ordered |-> p.ordered \ {Key(e) : e \in old}, index |-> p.index \ old,
      total_size |-> p.total_size - Sizes(old), clock |-> p.clock, fed |-> p.fed]

insert(p, id, size) ==
  LET q   == RemoveOld(p, id)
      seq == q.clock + 1
      e   == Entry(Score(budget.scorer, seq, size), seq, id, size)
  IN EvictOver([ordered |-> q.ordered \cup {Key(e)}, index |-> q.index \cup {e},
                total_size |-> q.total_size + size, clock |-> seq,
                fed |-> (q.fed \ EntryOf(q.fed, id)) \cup {e}])

\* Survivors in the order of their insertion.
window_ordered(p) ==
  [i \in 1..Cardinality(p.index) |->
     (CHOOSE e \in p.index : Cardinality({f \in p.index : f.seq <= e.seq}) = i).id]

-----------------------------------------------------------------------------
PrunerInit ==
  /\ budget \in Budgets
  /\ log = <<>> /\ have = {} /\ pruner = None /\ cold = None
  /\ arrived = None /\ asked = None /\ window = <<>>

\* The receiver stores an appended block; its caller has yet to ingest it.
AppendBlock(id) ==
  /\ arrived = None /\ Len(log) < MaxLog
  /\ log' = Append(log, id) /\ have' = have \cup {id} /\ arrived' = id
  /\ UNCHANGED <<budget, pruner, cold, asked, window>>

\* A session the receiver does not know is seeded with a manifest.
Seed(ids) ==
  /\ log = <<>>
  /\ log' = ids
  /\ UNCHANGED <<budget, have, pruner, cold, arrived, asked, window>>

\* Coded recovery stores the content of a seeded block.
Recover(id) ==
  /\ id \in Range(log) \ have
  /\ have' = have \cup {id}
  /\ UNCHANGED <<budget, log, pruner, cold, arrived, asked, window>>

ingest_block ==
  LET p == IF pruner = None THEN NewPruner ELSE pruner
  IN /\ arrived # None /\ p.clock < MaxClock
     /\ pruner' = insert(p, arrived, PayloadLen[arrived])
     /\ arrived' = None
     /\ UNCHANGED <<budget, log, have, cold, asked, window>>

\* ingest_session copies the ids of the log, looks each block up in the store
\* and publishes the pruner; appends and recoveries go on meanwhile.
ColdRead ==
  /\ cold = None
  /\ cold' = [todo |-> log, p |-> NewPruner]
  /\ UNCHANGED <<budget, log, have, pruner, arrived, asked, window>>

ColdInsert ==
  /\ cold # None
  /\ cold.todo # <<>> /\ cold.p.clock < MaxClock
  /\ LET id == Head(cold.todo)
     IN cold' = [todo |-> Tail(cold.todo),
                 p    |-> insert(cold.p, id, IF id \in have THEN PayloadLen[id] ELSE 0)]
  /\ UNCHANGED <<budget, log, have, pruner, arrived, asked, window>>

ColdPublish ==
  /\ cold # None
  /\ cold.todo = <<>>
  /\ pruner' = cold.p /\ cold' = None
  /\ UNCHANGED <<budget, log, have, arrived, asked, window>>

\* window, under the lock and then from the store.
WindowIds ==
  /\ pruner # None /\ asked = None
  /\ asked' = window_ordered(pruner)
  /\ UNCHANGED <<budget, log, have, pruner, cold, arrived, window>>

WindowBlocks ==
  /\ asked # None
  /\ window' = Select(asked, {i \in DOMAIN asked : asked[i] \in have}) /\ asked' = None
  /\ UNCHANGED <<budget, log, have, pruner, cold, arrived>>

PrunerNext ==
  \/ \E id \in BlockId : AppendBlock(id) \/ Recover(id)
  \/ \E ids \in Manifests : Seed(ids)
  \/ ingest_block \/ ColdRead \/ ColdInsert \/ ColdPublish \/ WindowIds \/ WindowBlocks

PrunerSpec == PrunerInit /\ [][PrunerNext]_prunerVars

-----------------------------------------------------------------------------
\* The pruners there are: the published one and the one being built.
Pruners == (IF pruner = None THEN {} ELSE {pruner}) \cup (IF cold = None THEN {} ELSE {cold.p})

\* The two maps of a pruner and its running total tell the same story after
\* any sequence of insertions, re-insertions and evictions: each survivor has
\* one entry in each map, and the total, which alone decides evictions, is
\* the sum of the sizes.  The survivors fit the budget, or one is left.
Accounting ==
  \A p \in Pruners :
    /\ p.ordered = {Key(e) : e \in p.index}
    /\ \A e, f \in p.index : e.id = f.id => e = f
    /\ p.total_size = Sizes(p.index)
    /\ ~Over(p)

\* insert "evicts the lowest-scored survivor(s)": an id that was dropped
\* never ranked above one that is kept, whatever was inserted, re-inserted or
\* evicted since, because freed budget is never refilled from below.
HighestSurvive ==
  \A p \in Pruners :
    \A e \in p.fed \ p.index, f \in p.index : Below(e, f)

\* The bytes of a window, and whether it is within the budget.
Bytes(ids) == SumFunctionOnSet([i \in DOMAIN ids |-> PayloadLen[ids[i]]], DOMAIN ids)

Fits(ids) == IF budget.shape = "Blocks" THEN Len(ids) <= budget.limit
                                        ELSE Len(ids) <= 1 \/ Bytes(ids) <= budget.limit

Unseeded == \A ids \in Manifests : ~StartsWith(log, ids)

\* Budget: "evicting the lowest-scored survivor(s) to stay under it"
\* (incremental.rs:32-33).  A window handed out is within the budget or is one
\* block, though the pruner has moved on since its ids were read.  (Not so
\* in a seeded session: a cold start counts a block as 0 before its content
\* is recovered.)
WindowWithinBudget == Unseeded => Fits(window)

-----------------------------------------------------------------------------
\* The inductive invariant of a pruner.  What was dropped ranks below what is
\* kept; with a block budget that is so because the window is full as soon as
\* something was dropped, and a re-inserted block never shrinks.
EntrySet == [score: Nat, seq: 1..MaxClock, id: BlockId, size: Size]

PrunerSet == [ordered: SUBSET [score: Nat, seq: 1..MaxClock, id: BlockId], index: SUBSET EntrySet,
              total_size: Nat, clock: 0..MaxClock, fed: SUBSET EntrySet]

EntryOK(p, e) ==
  /\ e.seq <= p.clock /\ e.score = Score(budget.scorer, e.seq, e.size)
  /\ e.size # 0 => e.size = PayloadLen[e.id] /\ e.id \in have

PrunerOK(p) ==
  /\ p \in PrunerSet /\ p.index \subseteq p.fed /\ IsFiniteSet(p.index)
  /\ \A e \in p.fed : EntryOK(p, e)
  /\ \A e, f \in p.fed : e.id = f.id \/ e.seq = f.seq => e = f
  /\ p.ordered = {Key(e) : e \in p.index}
  /\ p.total_size = Sizes(p.index)
  /\ ~Over(p)
  /\ \A e \in p.fed \ p.index, f \in p.index : Below(e, f)
  /\ budget.shape = "Blocks" /\ p.fed # p.index => Cardinality(p.index) = budget.limit
  /\ Unseeded => \A e \in p.index : e.size = PayloadLen[e.id]

PruneInv ==
  /\ budget \in Budgets /\ log \in Seq(BlockId) /\ have \subseteq BlockId
  /\ pruner # None => PrunerOK(pruner)
  /\ cold # None => cold \in [todo: Seq(BlockId), p: PrunerSet] /\ PrunerOK(cold.p)
  /\ arrived # None => arrived \in have
  /\ Unseeded => Range(log) \subseteq have /\ (cold # None => Range(cold.todo) \subseteq have)
  /\ asked # None => asked \in Seq(BlockId) /\ IsInjective(asked) /\ (Unseeded => Fits(asked))
  /\ WindowWithinBudget
=============================================================================
