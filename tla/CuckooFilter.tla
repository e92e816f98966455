---------------------------- MODULE CuckooFilter ----------------------------
(***************************************************************************)
(* The shared cuckoo filter in front of the store (core/src/filter.rs):    *)
(* threads insert, query and clear it at once.  A query or an insertion    *)
(* reads the mask without a lock, takes the table's read lock, and locks   *)
(* one bucket at a time; growing and clearing take the write lock.         *)
(*                                                                         *)
(* The hashes are constants: what matters of them is that the alternate    *)
(* index is an involution.  The mask is kept as the width it masks to.     *)
(***************************************************************************)
EXTENDS Naturals, FiniteSets, Folds

CONSTANTS Proc,           \* threads
          Id,             \* block ids
          FP,             \* fingerprint of an id, [Id -> Nat \ {0}]
          First(_, _),    \* primary index of an id in a table of a width
          Alt(_, _, _),   \* alternate index of an index and a fingerprint
          Rehash(_, _),   \* the index grow derives from a bare fingerprint
          SLOTS, KICKS,
          Width,          \* buckets of the initial table
          MaxWidth        \* 2^MAX_BITS

VARIABLES table,     \* FilterTable.buckets
          mask,      \* CuckooFilter.mask, as a width
          count, saturated,
          pc, reg,   \* each thread's program counter and locals
          present    \* ids inserted with success since the last clear

filterVars == <<table, mask, count, saturated, pc, reg, present>>

Fp == {FP[id] : id \in Id}

Slot == 1..SLOTS

Bucket == [Slot -> Fp \cup {0}]

EMPTY == [s \in Slot |-> 0]

\* The widths a table may have.
Widths == {Width} \cup 1..(2 * MaxWidth)

\* An index is masked to the width, and (i ^ delta) & mask undoes itself,
\* whatever delta is.
ASSUME HashAssumption ==
  /\ Id # {} /\ FP \in [Id -> Nat \ {0}] /\ SLOTS \in Nat \ {0} /\ KICKS \in Nat \ {0}
  /\ Width \in Nat \ {0} /\ MaxWidth \in Nat
  /\ \A w \in Widths : \A id \in Id : First(id, w) \in 0..(w - 1)
  /\ \A w \in Widths : \A f \in Fp : Rehash(f, w) \in 0..(w - 1)
  /\ \A w \in Widths : \A i \in 0..(w - 1) : \A f \in Fp : Alt(i, f, w) \in 0..(w - 1)
  /\ \A i \in 0..(Width - 1) : \A f \in Fp : Alt(Alt(i, f, Width), f, Width) = i

\* i and j are bucket indices, n counts kicks or slots probed; sure says that
\* the id was present when the query began, or that no clear has come since
\* the insertion did.
Reg == [id: Id, fp: Fp, i: Nat, j: Nat, n: Nat, sure: BOOLEAN]

NoReg == LET id == CHOOSE id \in Id : TRUE
         IN [id |-> id, fp |-> FP[id], i |-> 0, j |-> 0, n |-> 0, sure |-> FALSE]

FilterInit ==
  /\ table = [b \in 0..(Width - 1) |-> EMPTY]
  /\ mask = Width /\ count = 0 /\ saturated = FALSE
  /\ pc = [p \in Proc |-> "idle"]
  /\ reg = [p \in Proc |-> NoReg]
  /\ present = {}

Goto(p, label) == pc' = [pc EXCEPT ![p] = label]

Return(p) == Goto(p, "idle") /\ reg' = [reg EXCEPT ![p] = NoReg]

\* The table lock is read off the program counters: a growing thread holds
\* it for writing, a query that has begun to probe holds it for reading.
Readable == \A p \in Proc : pc[p] # "mask"

Probing(p) == pc[p] = "probe" /\ reg[p].n > 0

Writable == Readable /\ \A p \in Proc : ~Probing(p)

Free(bucket) == {s \in Slot : bucket[s] = 0}

PutFirst(bucket, f) ==
  [bucket EXCEPT ![CHOOSE s \in Free(bucket) : \A r \in Free(bucket) : s <= r] = f]

\* The slot an eviction empties.
Victim(f) == (f % SLOTS) + 1

-----------------------------------------------------------------------------
(***************************************************************************)
(* insert.  A saturated filter declines, which changes nothing.            *)
(***************************************************************************)
InsertStart(p, id) ==
  /\ pc[p] = "idle" /\ ~saturated
  /\ Goto(p, "index")
  /\ reg' = [reg EXCEPT ![p].id = id, ![p].sure = TRUE]
  /\ UNCHANGED <<table, mask, count, saturated, present>>

\* indices
Index(p) ==
  /\ pc[p] = "index"
  /\ Goto(p, "kick")
  /\ reg' = [reg EXCEPT ![p].i = First(reg[p].id, mask), ![p].fp = FP[reg[p].id]]
  /\ UNCHANGED <<table, mask, count, saturated, present>>

\* An empty slot takes the fingerprint and the insertion has succeeded.
Place(p) ==
  LET b == reg[p].i
  IN /\ Free(table[b]) # {}
     /\ table' = [table EXCEPT ![b] = PutFirst(@, reg[p].fp)]
     /\ count' = count + 1
     /\ present' = IF reg[p].sure THEN present \cup {reg[p].id} ELSE present
     /\ Return(p)
     /\ UNCHANGED <<mask, saturated>>

\* A full bucket: the thread leaves with the fingerprint it evicts.
Evict(p) ==
  LET b == reg[p].i
      s == Victim(reg[p].fp)
  IN /\ Free(table[b]) = {}
     /\ table' = [table EXCEPT ![b][s] = reg[p].fp]
     /\ reg' = [reg EXCEPT ![p].fp = table[b][s], ![p].n = @ + 1]
     /\ Goto(p, "alt")
     /\ UNCHANGED <<mask, count, saturated, present>>

Kick(p) == pc[p] = "kick" /\ Readable /\ (Place(p) \/ Evict(p))

\* Mutant: the index moves by the new id's fingerprint, not the evicted one.
AltOfNew(p) ==
  /\ pc[p] = "alt"
  /\ reg' = [reg EXCEPT ![p].i = Alt(@, FP[reg[p].id], mask)]
  /\ Goto(p, IF reg[p].n = KICKS THEN "grow" ELSE "kick")
  /\ UNCHANGED <<table, mask, count, saturated, present>>

\* alt_index
AltIndex(p) ==
  /\ pc[p] = "alt"
  /\ reg' = [reg EXCEPT ![p].i = Alt(@, reg[p].fp, mask)]
  /\ Goto(p, IF reg[p].n = KICKS THEN "grow" ELSE "kick")
  /\ UNCHANGED <<table, mask, count, saturated, present>>

\* One fingerprint into the wider table: its derived bucket, its alternate,
\* or nowhere.  A full bucket that holds an equal fingerprint counts.
RehashOne(tab, f) ==
  LET w       == Cardinality(DOMAIN tab)
      i       == Rehash(f, w)
      put(b)  == IF Free(tab[b]) = {} THEN tab[b] ELSE PutFirst(tab[b], f)
      stored  == \E s \in Slot : put(i)[s] = f
      b       == IF stored THEN i ELSE Alt(i, f, w)
  IN [tab EXCEPT ![b] = put(b)]

\* The slots in use; they are visited bucket by bucket and slot by slot.
Stored == {x \in (DOMAIN table) \X Slot : table[x[1]][x[2]] # 0}

LastSlot(slots) ==
  CHOOSE x \in slots : \A y \in slots : y[1] < x[1] \/ (y[1] = x[1] /\ y[2] <= x[2])

Grow(p) ==
  /\ pc[p] = "grow" /\ Writable
  /\ LET w    == Cardinality(DOMAIN table)
         wide == MapThenFoldSet(LAMBDA f, tab : RehashOne(tab, f), [b \in 0..(2 * w - 1) |-> EMPTY],
                                LAMBDA x : table[x[1]][x[2]], LastSlot, Stored)
     IN IF w >= MaxWidth
          THEN Goto(p, "latch") /\ UNCHANGED table
          ELSE table' = [b \in 0..(2 * w - 1) |-> wide[b]] /\ Goto(p, "mask")
  /\ UNCHANGED <<mask, count, saturated, reg, present>>

\* Mutant: the mask is doubled once more.
StoreDouble(p) ==
  /\ pc[p] = "mask"
  /\ mask' = 2 * Cardinality(DOMAIN table)
  /\ Goto(p, "reindex")
  /\ UNCHANGED <<table, count, saturated, reg, present>>

\* The new mask becomes visible to lock-free readers, then the lock goes.
StoreMask(p) ==
  /\ pc[p] = "mask"
  /\ mask' = Cardinality(DOMAIN table)
  /\ Goto(p, "reindex")
  /\ UNCHANGED <<table, count, saturated, reg, present>>

\* The id goes in again; the fingerprint the thread still held is dropped.
Reindex(p) ==
  /\ pc[p] = "reindex"
  /\ reg' = [reg EXCEPT ![p].i = First(reg[p].id, mask), ![p].fp = FP[reg[p].id]]
  /\ Goto(p, "retry")
  /\ UNCHANGED <<table, mask, count, saturated, present>>

Retry(p) ==
  /\ pc[p] = "retry" /\ Readable
  /\ \/ Place(p)
     \/ /\ Free(table[reg[p].i]) = {} /\ Goto(p, "latch")
        /\ UNCHANGED <<table, mask, count, saturated, reg, present>>

Latch(p) ==
  /\ pc[p] = "latch"
  /\ saturated' = TRUE /\ Return(p)
  /\ UNCHANGED <<table, mask, count, present>>

-----------------------------------------------------------------------------
(***************************************************************************)
(* contains.  Both indices are read off the mask before the lock is taken, *)
(* then each slot is read under its own bucket lock.  A saturated filter   *)
(* answers "maybe", which changes nothing.                                 *)
(***************************************************************************)
QueryStart(p, id) ==
  /\ pc[p] = "idle" /\ ~saturated
  /\ Goto(p, "hash")
  /\ reg' = [reg EXCEPT ![p].id = id, ![p].sure = id \in present]
  /\ UNCHANGED <<table, mask, count, saturated, present>>

QueryIndex(p) ==
  /\ pc[p] = "hash"
  /\ Goto(p, "hash2")
  /\ reg' = [reg EXCEPT ![p].i = First(reg[p].id, mask), ![p].fp = FP[reg[p].id]]
  /\ UNCHANGED <<table, mask, count, saturated, present>>

QueryAlt(p) ==
  /\ pc[p] = "hash2"
  /\ Goto(p, "probe")
  /\ reg' = [reg EXCEPT ![p].j = Alt(reg[p].i, reg[p].fp, mask)]
  /\ UNCHANGED <<table, mask, count, saturated, present>>

\* Mutant: the second bucket is not probed.
ProbeFirst(p) ==
  LET r == reg[p]
  IN /\ pc[p] = "probe" /\ (Readable \/ Probing(p))
     /\ \/ table[r.i][r.n + 1] = r.fp /\ Return(p)
        \/ /\ table[r.i][r.n + 1] # r.fp
           /\ reg' = [reg EXCEPT ![p].n = @ + 1]
           /\ Goto(p, IF r.n + 1 = SLOTS THEN "absent" ELSE "probe")
     /\ UNCHANGED <<table, mask, count, saturated, present>>

\* One slot of the first bucket, then of the second.
Probe(p) ==
  LET r == reg[p]
      b == IF r.n < SLOTS THEN r.i ELSE r.j
      s == (r.n % SLOTS) + 1
  IN /\ pc[p] = "probe" /\ (Readable \/ Probing(p))
     /\ \/ table[b][s] = r.fp /\ Return(p)
        \/ /\ table[b][s] # r.fp
           /\ reg' = [reg EXCEPT ![p].n = @ + 1]
           /\ Goto(p, IF r.n + 1 = 2 * SLOTS THEN "absent" ELSE "probe")
     /\ UNCHANGED <<table, mask, count, saturated, present>>

\* The caller takes the negative answer.
Absent(p) ==
  /\ pc[p] = "absent"
  /\ Return(p)
  /\ UNCHANGED <<table, mask, count, saturated, present>>

clear ==
  /\ Writable
  /\ table' = [b \in DOMAIN table |-> EMPTY]
  /\ count' = 0 /\ saturated' = FALSE /\ present' = {}
  /\ reg' = [p \in Proc |-> [reg[p] EXCEPT !.sure = FALSE]]
  /\ UNCHANGED <<mask, pc>>

FilterStep(p) ==
  \/ \E id \in Id : InsertStart(p, id) \/ QueryStart(p, id)
  \/ Index(p) \/ Kick(p) \/ AltIndex(p) \/ Grow(p) \/ StoreMask(p)
  \/ Reindex(p) \/ Retry(p) \/ Latch(p)
  \/ QueryIndex(p) \/ QueryAlt(p) \/ Probe(p) \/ Absent(p)

FilterNext == clear \/ \E p \in Proc : FilterStep(p)

FilterSpec == FilterInit /\ [][FilterNext]_filterVars

-----------------------------------------------------------------------------
Label == {"idle", "index", "kick", "alt", "grow", "mask", "reindex", "retry", "latch",
          "hash", "hash2", "probe", "absent"}

FilterTypeOK ==
  /\ table \in [DOMAIN table -> Bucket]
  /\ mask \in Nat /\ count \in Nat /\ saturated \in BOOLEAN
  /\ present \subseteq Id
  /\ pc \in [Proc -> Label]
  /\ reg \in [Proc -> Reg]

\* No thread indexes outside the table: an index computed from a mask read
\* without a lock stays good however the table is swapped before the lock
\* is held.  Otherwise insert or contains would panic.
InBounds ==
  \A p \in Proc :
    /\ pc[p] \in {"kick", "alt", "retry", "hash2", "probe"} => reg[p].i \in DOMAIN table
    /\ pc[p] = "probe" => reg[p].j \in DOMAIN table

\* The buckets that may hold an id's fingerprint, in a table of the initial
\* width.
Candidates(id) ==
  {First(id, Width), Alt(First(id, Width), FP[id], Width)}

\* A thread between evictions carries a fingerprint.
Carrying(p) == pc[p] \in {"kick", "alt", "grow", "latch"}

Held(id) ==
  \/ \E b \in Candidates(id) : \E s \in Slot : table[b][s] = FP[id]
  \/ \E p \in Proc : Carrying(p) /\ reg[p].n > 0 /\ reg[p].fp = FP[id] /\ reg[p].i \in Candidates(id)

Ungrown == DOMAIN table = 0..(Width - 1)

\* Until the table grows, evictions by any number of threads lose nothing:
\* the fingerprint of an id inserted with success is in one of its two
\* buckets, or a thread that evicted it carries it, or the filter says "maybe"
\* to everything.  It is what makes a negative answer of insert's caller
\* right once the insertions under way are done.
NothingLost == Ungrown => saturated \/ \A id \in present : Held(id)
=============================================================================
