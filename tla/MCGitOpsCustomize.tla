------------------------ MODULE MCGitOpsCustomize ------------------------
EXTENDS GitOpsCustomize

CONSTANTS d1, d2, x, e1, e2, hub, bulb, kitchen

MCDevices == {d1, d2}
MCEntries == {e1, e2}
MCEntryOrder == <<e1, e2>>
MCThingOrder == <<d1, d2, x>>

Item(match, fields) == [match |-> match, fields |-> fields]
Area(v) == [f \in {"area"} |-> v]
Off == [f \in {"disabled"} |-> "user"]
Both == [f \in Fields |-> IF f = "area" THEN kitchen ELSE None]

Nothing == [i \in MCEntries \cup {x} |-> Undeclared]
Placed == [Nothing EXCEPT ![e1] = Item(hub, Area(kitchen)), ![x] = Item(None, Off)]
Switched == [Nothing EXCEPT ![e1] = Item(hub, Both), ![e2] = Item(bulb, Off), ![x] = Item(None, Area(None))]
Emptied == [Nothing EXCEPT ![e2] = Item(hub, NoParams)]
Broken == [Placed EXCEPT ![x] = Malformed]
MCManifests == {Placed, Switched, Emptied, Broken}

Thing(area, disabled, name) == [area |-> area, disabled |-> disabled, name |-> name]
MCStarts == {[t \in Things |->
               CASE t = d1 -> Thing(None, None, hub)
                 [] t = d2 -> Thing(kitchen, "integration", bulb)
                 [] t = x -> Thing(kitchen, None, bulb)]}
=============================================================================
