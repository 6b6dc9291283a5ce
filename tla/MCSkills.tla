------------------------------ MODULE MCSkills ------------------------------
(* One tenant with two users, two rows that share a name, two requests. *)
EXTENDS Skills, TLC

MCSymmetry == Permutations(Users) \cup Permutations(SkillIds)
              \cup Permutations(Requests)
=============================================================================
