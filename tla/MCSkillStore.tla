----------------------------- MODULE MCSkillStore ---------------------------
(* Two captures of one slug, with or without an approved skill before.     *)
EXTENDS SkillStore

CONSTANTS r1, r2
=============================================================================
