------------------------------ MODULE MCGetAll ------------------------------
(* GetAll for TLC: the properties are the numbers 1 to N, in the order of   *)
(* Object.keys; the last one has a getter that may call back at once.       *)
EXTENDS GetAll

LastMaybeSync == {N}
EverySync == Props
=============================================================================
