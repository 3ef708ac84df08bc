---------------------------- MODULE MCCacheFlight -----------------------------
(***************************************************************************)
(* A small instance of CacheFlight for TLC.                                *)
(***************************************************************************)
EXTENDS CacheFlight, TLC

CONSTANTS k1, k2, k3

(* The callbacks of two keys may ask for each other's key, and that of one *)
(* for its own; the third key is a versioned one.                          *)
LoadsEachOther == (k1 :> {k1, k2}) @@ (k2 :> {k1}) @@ (k3 :> {})
=============================================================================
