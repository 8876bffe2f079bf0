------------------------------ MODULE Generation ------------------------------
(***************************************************************************)
(* What a build generates from the sources of a project: routes_gen.go     *)
(* (RouteGen), the main of each WASM page (TreeShake), the accessors of    *)
(* the topics (TopicGen).  The three read folders of their own and share   *)
(* no state, so their composition is the conjunction.                      *)
(***************************************************************************)
EXTENDS RouteGen, TreeShake, TopicGen

GenerationSpec == Spec /\ ScanSpec /\ TopicSpec

\* Each generator, whatever the sources hold, keeps to the types of what it reads,
\* holds and writes.
GenerationTypeOK == TypeOK /\ ScanTypeOK /\ TopicTypeOK
==============================================================================
