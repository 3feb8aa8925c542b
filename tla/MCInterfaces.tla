---------------------------- MODULE MCInterfaces ----------------------------
(* Interfaces for TLC: the objects of two services with one path and interface,
   and an interface without signals.                                       *)
EXTENDS Interfaces, TLC

CONSTANTS shared, own

Hash == [k \in Keys |-> IF k \in Signalling THEN shared ELSE own]

=============================================================================
