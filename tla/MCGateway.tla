------------------------------ MODULE MCGateway ------------------------------
(* Gateway for TLC.  Its slots, all alike, are interchangeable.            *)
EXTENDS Gateway, TLC

Symmetry == Permutations(Slots)

=============================================================================
