--------------------------- MODULE MCSkillInstall ---------------------------
(* Two versions of a skill of one file, which differ in its content; a second *)
(* file of users can be the marker's name.                                    *)
EXTENDS SkillInstall

CONSTANTS v1, v2

MCContent == [v \in Version |-> [f \in File |-> IF v = v1 THEN "one" ELSE "two"]]
=============================================================================
