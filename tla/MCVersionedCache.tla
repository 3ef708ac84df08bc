--------------------------- MODULE MCVersionedCache ---------------------------
(***************************************************************************)
(* Small instances of VersionedCache for TLC.                              *)
(***************************************************************************)
EXTENDS VersionedCache, TLC

CONSTANTS r1, r2, v1, v2, v3, w1, w2

Symmetry == Permutations(Readers)

(* A result that one row is in for its column value, and another for its   *)
(* primary key; and the list of the rows with one value.                   *)
MixedQuery == {{v1, r2}}
ListQuery == {{v2}}

FirstRow == (r1 :> v1) @@ (r2 :> Absent)

(* Two writers, of one row each, one of them also by column value; and two *)
(* writers of one row.                                                     *)
WhereMixed == (w1 :> {{r1}}) @@ (w2 :> {{r2}, v1})
WhereSame == (w1 :> {{r1}}) @@ (w2 :> {{r1}})
=============================================================================
