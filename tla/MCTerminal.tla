----------------------------- MODULE MCTerminal -----------------------------
(* Terminal for TLC: who owns which of up to three connections.             *)
EXTENDS Terminal, TLC

CONSTANTS s1, s2, s3, alice, root

(* Two connections of a user and one of an administrator. *)
MCUsers == [s \in Sessions |-> IF s = s3 THEN root ELSE alice]

(* The user's are interchangeable. *)
MCSymmetry == Permutations({s1, s2})
=============================================================================
