----------------------------- MODULE MCLoopback -----------------------------
(***************************************************************************)
(* Two threads on one pair of channels, each with a stream of its own.     *)
(***************************************************************************)
EXTENDS Loopback

OwnSink == [t \in LoopThread |-> t]
=============================================================================
