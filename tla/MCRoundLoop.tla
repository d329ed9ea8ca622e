---------------------------- MODULE MCRoundLoop ----------------------------
(* Small instances of RoundLoop for TLC: one static and one behavioural      *)
(* track (and a third whose windows overlap theirs), interchangeable         *)
(* participants.                                                             *)
EXTENDS RoundLoop, TLC

MCOrder == <<"repositories", "skills">>
MCOrderOfThree == <<"repositories", "skills", "packages">>
AgentSymmetry == Permutations(Agents)
=============================================================================
