---------------------------- MODULE MCExtensions ----------------------------
(* Two releases: the first ships its configuration file, the second ships the *)
(* local one and asks for the other to be scaffolded from a template.         *)
EXTENDS Extensions, TLC

CONSTANTS config, local, early, late

NamesMC == {config, local}
VersionsMC == 1 .. 2
ShipsMC == [v \in VersionsMC |-> IF v = 1 THEN {config} ELSE {local}]
WrittenMC == {early, late}
SymmetryMC == Permutations(WrittenMC)
DeclaresMC == [v \in VersionsMC |-> IF v = 1 THEN {} ELSE {config}]
=============================================================================
