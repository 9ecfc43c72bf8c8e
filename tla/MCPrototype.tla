---------------------------- MODULE MCPrototype ----------------------------
EXTENDS Prototype

CONSTANTS r1, r2

MCRollouts == {r1, r2}
MCTaskCount == [r \in MCRollouts |-> IF r = r1 THEN 2 ELSE 1]
MCChecked == [r \in MCRollouts |-> IF r = r1 THEN {2} ELSE {}]
MCActors == {"luc", "hen", "mira"}
MCTexts == {"b3"}
MCChips == {"c1", "scheduled"}
MCStageKeys == {"non-prod", "prod1"}

=============================================================================
