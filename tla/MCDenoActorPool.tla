-------------------------- MODULE MCDenoActorPool --------------------------
(* Small instances of DenoActorPool for TLC. *)
EXTENDS DenoActorPool, TLC

CONSTANTS k1, k2, n2

(* Two requests. *)
Flat == k1 :> NoCall @@ k2 :> NoCall
(* The second makes a nested call while it processes a callback. *)
Nested == Flat @@ n2 :> k2
=============================================================================
