--------------------------- MODULE MCEmissionWeights ---------------------------
(* Six agents in one track, one more than it pays, two of them also in a     *)
(* second one; two tracks without agents; scores around the thresholds; a    *)
(* salt and one that turns the order of the first track around.              *)
EXTENDS EmissionWeights

MCHotkeys == 1..6
MCEntrants == [repositories |-> {1, 2}, packages |-> {}, mcp_servers |-> {},
               skills |-> MCHotkeys]
MCPercents == [t \in Tracks |-> IF t = "skills" THEN {19, 20, 50} ELSE {49, 50}]
Upwards == [h \in MCHotkeys |-> h]
MCSalts == {[t \in Tracks |-> Upwards],
            [t \in Tracks |-> IF t = "skills" THEN [h \in MCHotkeys |-> 7 - h] ELSE Upwards]}
=============================================================================
