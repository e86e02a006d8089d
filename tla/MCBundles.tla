------------------------------ MODULE MCBundles ------------------------------
(* Two bundles that share an extension: one pins it in two successive releases *)
(* and later drops it, the other pins it or takes any version.  Spec Kit ships *)
(* no such extension, a newer patch of the version first pinned, or the next   *)
(* minor version.  Each bundle has one component more: an extension whose      *)
(* catalog entry has no version, and a workflow of which Spec Kit ships a      *)
(* version that is not the one pinned.                                         *)
EXTENDS Bundles

CONSTANTS a, b, x, y, z, v1, v1p, v2, r1, r2

MCBundle == {a, b}
MCComponent == {x, y, z}
MCVersion == {v1, v1p, v2}
MCRelease == {r1, r2}
MCPatches == {<<v1p, v1>>}
MCPackages == [c \in MCComponent |-> CASE c = x -> {"none", v1p, v2}
                                       [] c = y -> {"none"}
                                       [] c = z -> {v2}]
MCReleases == {z}
MCUnversioned == {y}
Of(release, px, py, pz) ==
  [release |-> release,
   needs |-> [c \in MCComponent |-> CASE c = x -> px [] c = y -> py [] c = z -> pz]]
MCPlans ==
  [n \in MCBundle |->
     IF n = a
     THEN {Of(r1, v1, v1, "no"), Of(r2, v2, "no", "no"), Of(r2, "no", v1, "no")}
     ELSE {Of(r1, v1, "no", v1), Of(r1, "any", "no", "no")}]
=============================================================================
