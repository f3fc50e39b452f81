------------------------ MODULE MCGitOpsRegistries ------------------------
EXTENDS GitOpsRegistries

CONSTANTS f1, f2, a1, a2, h1, n1, n2

MCFloors == {f1, f2}
MCAreas == {a1, a2}
MCHelpers == {h1}
MCKeyOrder == <<f1, f2, a1, a2, h1>>
MCNames == {n1, n2}

Item(name, floor) == [name |-> name, floor |-> floor]
None_ == [k \in Keys |-> Undeclared]
OnFloor == [None_ EXCEPT ![f1] = Item(n1, Keep), ![f2] = Item(n2, Keep), ![a1] = Item(n1, f1)]
Renamed == [None_ EXCEPT ![a2] = Item(n1, Keep), ![h1] = Item(n1, Keep)]
OffFloor == [None_ EXCEPT ![a1] = Item(n1, None), ![h1] = Item(n2, Keep)]
Dangling == [OffFloor EXCEPT ![a1] = Item(n1, f1)]
Broken == [OffFloor EXCEPT ![h1] = Malformed]
MCManifests == {OnFloor, Renamed, OffFloor, Dangling, Broken}

Empty == [id \in Ids |-> Gone]
Id(t, n, i) == [rtype |-> t, name |-> n, n |-> i]
\* An area on a floor, and two helpers of the same name.
Furnished ==
  [Empty EXCEPT ![Id("floor", n2, 1)] = Item(n2, None),
                ![Id("area", n1, 1)] = Item(n1, Id("floor", n2, 1)),
                ![Id("helper", n1, 1)] = Item(n1, None),
                ![Id("helper", n1, 2)] = Item(n1, None)]

Begin(lv, manifest, n) == [live |-> lv, desired |-> manifest, changes |-> n]
MCStarts ==
  {Begin(Empty, OnFloor, 2)} \cup {Begin(lv, m, 1) : lv \in {Empty, Furnished}, m \in MCManifests}
\* Nobody edits or commits anything.
MCQuietStarts == {Begin(Empty, m, 0) : m \in MCManifests}
\* An area that is on no floor is declared, and then it is not.
MCDropped == {OffFloor, [OffFloor EXCEPT ![a1] = Undeclared]}
MCDroppedStarts == {Begin(Empty, OffFloor, 1)}
\* As many changes whatever it begins with.
MCAllStarts == {Begin(lv, m, 2) : lv \in {Empty, Furnished}, m \in MCManifests}
=============================================================================
