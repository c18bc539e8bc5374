--------------------------- MODULE MCSkillMemory ---------------------------
(* A small mission for SkillMemory. *)
EXTENDS SkillMemory

CONSTANTS s1, s2

Skill(i)     == [id |-> i, names |-> Fields, status |-> ""]
Title(i)     == [id |-> i, names |-> {"title"}, status |-> ""]
Body(i)      == [id |-> i, names |-> {"body"}, status |-> ""]
Activated(i) == [id |-> i, names |-> {}, status |-> "active"]

MCWrites  == {<<Skill(s1)>>, <<Skill(s2), Skill(s1)>>}
MCUpdates == {<<Title(s1)>>, <<Activated(s1)>>, <<Title(s1), Body(s1)>>, <<Body(s2), Body(s1)>>}
=============================================================================
