---------------------------- MODULE MCSkillUpdate ----------------------------
(* Model values for checking SkillUpdate. *)
EXTENDS SkillUpdate, TLC

CONSTANTS a, b

Symmetry == Permutations(Skill)
==============================================================================
