----------------------------- MODULE MCPresets -----------------------------
(* A preset that replaces, one that composes with what is below and one that *)
(* does both; a command of Spec Kit and one of its own; two agents.          *)
EXTENDS Presets

CONSTANTS specify, custom, a, b

PresetsMC == {1, 2, 3}
CommandsMC == {specify, custom}
BaseMC == {specify}
ProvidesMC == <<{specify}, {specify, custom}, {custom}>>
WrapsMC == <<{}, {specify, custom}, {}>>
AgentsMC == {a, b}
PrioritiesMC == {1, 2}
=============================================================================
