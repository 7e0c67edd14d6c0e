-------------------------- MODULE MCNodeLifecycle --------------------------
(* Two peers; we may connect to one of them, both may connect to us.        *)
EXTENDS NodeLifecycle
CONSTANTS a, b
MCNodes == {a, b}
MCListed == {a}
=============================================================================
