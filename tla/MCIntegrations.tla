--------------------------- MODULE MCIntegrations ---------------------------
(* A built-in integration whose second release drops a file, another that     *)
(* shares the file it keeps, and an external one that shares the file it      *)
(* drops, which a preset overrides.                                           *)
EXTENDS Integrations, TLC

CONSTANTS broad, narrow, external, f1, f2, g, early, late

KeysMC == {broad, narrow, external}
ExternalMC == {external}
SafeMC == {narrow, external}
FilesMC == {f1, f2, g}
ReleasesMC == 1 .. 2
ShipsMC == [k \in KeysMC |-> [r \in ReleasesMC |->
    CASE k = external -> {f1, g}
      [] k = narrow -> {f2}
      [] k = broad -> IF r = 1 THEN {f1, f2} ELSE {f2}]]
OverridesMC == [k \in KeysMC |-> IF k = narrow THEN {} ELSE {f1}]
WrittenMC == {early, late}
SymmetryMC == Permutations(WrittenMC)
=============================================================================
