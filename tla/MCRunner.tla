------------------------------ MODULE MCRunner ------------------------------
(* The runner on a small experiment, for TLC. *)
EXTENDS Runner

CONSTANTS b1, b2, b3

\* Every guard needs two breaches in a row.
MCMinBreaches == [g \in Guards |-> 2]

MCActions == {1} \cup Background
=============================================================================
