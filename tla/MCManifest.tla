----------------------------- MODULE MCManifest -----------------------------
(* Manifest on small instances. *)
EXTENDS Manifest, TLC

\* Two callers behave alike, and no property names one.
UpdaterSymmetry == Permutations(Updaters)
=============================================================================
