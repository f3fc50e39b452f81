------------------------ MODULE MCGitOpsAddonOptions ------------------------
EXTENDS GitOpsAddonOptions

CONSTANTS mosquitto, frigate, o1, o2, v1, v2

MCAddonOrder == <<mosquitto, frigate, Self>>
Blank == [k \in Options |-> Absent]
MCDefaults == [s \in Addons |-> IF s = mosquitto THEN [Blank EXCEPT ![o1] = v1] ELSE Blank]

Item(x, y, restart) == [options |-> [k \in Options |-> IF k = o1 THEN x ELSE y], restart |-> restart]
Empty == [s \in Addons |-> Undeclared]
One == [Empty EXCEPT ![mosquitto] = Item(v2, Keep, TRUE), ![Self] = Item(v1, Keep, TRUE)]
Both == [Empty EXCEPT ![mosquitto] = Item(Ref, v2, TRUE), ![frigate] = Item(v1, Keep, FALSE)]
Broken == [Both EXCEPT ![frigate] = Malformed]
MCManifests == {Empty, One, Both, Broken}

Installed(s, set) == [installed |-> TRUE, set |-> set, running |-> Merged(s, set)]
MCStarts == {[s \in Addons |-> Installed(s, IF s = frigate THEN [Blank EXCEPT ![o1] = v2] ELSE Blank)]}
=============================================================================
