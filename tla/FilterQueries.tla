--------------------------- MODULE FilterQueries ----------------------------
(***************************************************************************)
(* What a negative answer of CuckooFilter's contains is worth.  calm is    *)
(* history: the query a thread runs has overlapped neither an eviction nor *)
(* a grown table.                                                          *)
(***************************************************************************)
EXTENDS CuckooFilter

VARIABLE calm

Undisturbed == Ungrown /\ \A p \in Proc : ~(Carrying(p) /\ reg[p].n > 0)

Querying(p) == pc[p] \in {"hash", "hash2", "probe", "absent"}

CalmInit == FilterInit /\ calm = [p \in Proc |-> FALSE]

CalmNext ==
  /\ FilterNext
  /\ calm' = [p \in Proc |-> Querying(p)' /\ Undisturbed' /\ (Querying(p) => calm[p])]

CalmSpec == CalmInit /\ [][CalmNext]_<<filterVars, calm>>

\* contains: "`false` = definitely not present" (filter.rs:180) is so for a
\* query that overlaps no eviction, in a table that has not grown: an id
\* whose insertion succeeded before the query began is not reported absent,
\* though insertions and clears of other threads go on.
DefinitelyAbsent == \A p \in Proc : pc[p] = "absent" /\ calm[p] => ~reg[p].sure
=============================================================================
