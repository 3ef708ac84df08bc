-------------------------------- MODULE MCMemory -------------------------------
(***************************************************************************)
(* The process-local store with room for one key, and values only.         *)
(***************************************************************************)
EXTENDS GeneMemory

Capped == {[cap |-> 1, mode |-> m, keys |-> ValueKeys] : m \in {"fpm", "swoole"}}
================================================================================
