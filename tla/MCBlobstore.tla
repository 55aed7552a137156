---------------------------- MODULE MCBlobstore ----------------------------
(* A payload, another with a changed and a dropped path, and two contents   *)
(* committed under one baseline id.  Files share their bytes wherever the   *)
(* cases stay apart, so that two digests do.                                *)
EXTENDS Blobstore, TLC

CONSTANTS x, y, m, da, db,
          build, other, base, base2, payload1, payload2, baseline

MCFiles ==
  (build :> (x :> da @@ y :> da   @@ m :> da)) @@
  (other :> (x :> db @@ y :> None @@ m :> db)) @@
  (base  :> (x :> da @@ y :> None @@ m :> None)) @@
  (base2 :> (x :> db @@ y :> None @@ m :> None))
MCIdOf == (build :> payload1) @@ (other :> payload2) @@ (base :> baseline) @@ (base2 :> baseline)
Symmetry == Permutations(Copies)
=============================================================================
