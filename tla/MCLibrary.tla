----------------------------- MODULE MCLibrary -----------------------------
(***************************************************************************)
(* The structures and codes the replication is built on and the two ways   *)
(* to a prune window, the one the append path keeps up to date and the     *)
(* jobs that scan the log again; one of them at a time: they share no      *)
(* state.                                                                  *)
(***************************************************************************)
EXTENDS Hierarchical, Mmr, GoldenRing, ZeckStream, Bulk, Compressor, IncrementalPrune, MCPrune

CONSTANTS p1, p2, p3, p4

VARIABLE structure

\* Two data symbols and one parity symbol, dealt to groups of two and of one:
\* one packet more than the first group needs.
Packets == <<3, 1>>

Ids == {<<0, 1>>, <<9, 3>>}

Sessions == {1, 18}

\* References and inline blocks; the last payload is past the limit.
FrameEntry ==
  {<<id>> : id \in Ids} \cup {<<4, 2, <<1, 2, 3>>>>}
    \cup {<<k, s, pl>> : k \in {1, 5}, s \in {1, 17}, pl \in {<<>>, <<8, 0>>}}

UpTo(S, n) == UNION {[1..m -> S] : m \in 0..n}

FrameSet ==
  {<<TAG_APPEND, s, r, b>> : s \in Sessions, r \in Ids, b \in UpTo(FrameEntry, 2)}
    \cup {<<TAG_RESYNC, s, r, b>> : s \in Sessions, r \in Ids, b \in UpTo(Ids, 3)}
    \cup {<<TAG_BULK, s, g, k, 2, b>> : s \in Sessions, g \in {0, 17}, k \in {1, 2},
                                        b \in UpTo({<<>>, <<8, 0>>, <<1, 2, 3>>}, 2)}
    \cup {<<TAG_ACK, s, r>> : s \in Sessions, r \in Ids}
    \cup {<<TAG_MISSING, s, b>> : s \in Sessions, b \in UpTo(Ids, 3)}

\* Records of three, four, six and seven bytes for generations of six.
Blobs == {<<1>>, <<1, 0>>, <<0, 2, 0, 0>>, <<3, 3, 3, 0, 3>>}

AFrame == <<TAG_ACK, 1, <<0, 1>>>>

Lengths == (p1 :> 1 @@ p2 :> 2 @@ p3 :> 2 @@ p4 :> 4)

\* default_score, its 20 low bits scaled down to 3, and the scorer of the test
\* custom_scorer_overrides_default.
MCScore(scorer, n, size) ==
  IF scorer = "size" THEN size ELSE 8 * n + (IF size < 7 THEN size ELSE 7)

MCBudgets == {[shape |-> "Tokens", limit |-> 4, scorer |-> "default"],
              [shape |-> "Blocks", limit |-> 2, scorer |-> "size"]}

ABudget == [shape |-> "Blocks", limit |-> 2, scorer |-> "size"]

MCManifests == {<<p2, p3>>, <<p1, p4, p1>>}

codingVars == <<hierVars, mmrVars, ringVars, zeckVars>>

wireVars == <<codecVars, bulkVars, compVars>>

pruneVars == <<prunerVars, jobVars>>

LibraryInit ==
  /\ structure \in {"code", "range", "ring", "stream", "frame", "blob", "bulk", "kept", "scanned"}
  /\ HierInit /\ MmrInit /\ RingInit /\ ZeckInit /\ CompInit /\ PrunerInit /\ JobsInit
  /\ IF structure = "frame" THEN CodecInit ELSE sent = AFrame /\ wire = encode_frame(AFrame)
  /\ IF structure = "bulk" THEN BulkInit ELSE missing = <<>> /\ came = {} /\ joined = {}
  /\ structure # "kept" => budget = ABudget

LibraryNext ==
  /\ UNCHANGED structure
  /\ \/ /\ structure = "code" /\ HierNext
        /\ UNCHANGED <<mmrVars, ringVars, zeckVars, wireVars, pruneVars>>
     \/ /\ structure = "range" /\ MmrNext
        /\ UNCHANGED <<hierVars, ringVars, zeckVars, wireVars, pruneVars>>
     \/ /\ structure = "ring" /\ RingNext
        /\ UNCHANGED <<hierVars, mmrVars, zeckVars, wireVars, pruneVars>>
     \/ /\ structure = "stream" /\ ZeckNext
        /\ UNCHANGED <<hierVars, mmrVars, ringVars, wireVars, pruneVars>>
     \/ /\ structure = "frame" /\ CodecNext
        /\ UNCHANGED <<codingVars, bulkVars, compVars, pruneVars>>
     \/ /\ structure = "blob" /\ CompNext
        /\ UNCHANGED <<codingVars, codecVars, bulkVars, pruneVars>>
     \/ /\ structure = "bulk" /\ BulkNext
        /\ UNCHANGED <<codingVars, codecVars, compVars, pruneVars>>
     \/ structure = "kept" /\ PrunerNext /\ UNCHANGED <<codingVars, wireVars, jobVars>>
     \/ structure = "scanned" /\ JobsNext /\ UNCHANGED <<codingVars, wireVars, prunerVars>>

LibrarySpec == LibraryInit /\ [][LibraryNext]_<<structure, codingVars, wireVars, pruneVars>>
=============================================================================
