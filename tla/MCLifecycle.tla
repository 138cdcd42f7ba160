----------------------------- MODULE MCLifecycle -----------------------------
(***************************************************************************)
(* A small instance of Lifecycle for TLC: one server of each kind.         *)
(***************************************************************************)
EXTENDS Lifecycle, Sequences

OneOfEach == <<"accept", "dtls", "serve", "udp">>
=============================================================================
