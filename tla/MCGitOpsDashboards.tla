------------------------ MODULE MCGitOpsDashboards ------------------------
EXTENDS GitOpsDashboards

CONSTANTS d1, r1, r2, t1, t2, c1, c2, p1, p2, tag

MCKeyOrder == <<d1, r1, r2>>
MCResIds == 1 .. 4

Dash(title, icon, content) == [meta |-> [title |-> title, icon |-> icon], content |-> content]
Res(path, query) == [path |-> path, tag |-> query, type |-> "module"]

Nothing == [k \in Keys |-> Undeclared]
Home == [Nothing EXCEPT ![d1] = Dash(t1, Keep, c1), ![r1] = Res(p1, None)]
Moved == [Nothing EXCEPT ![d1] = Dash(t1, "icon", c2), ![r2] = Res(p1, tag)]
BadFile == [Nothing EXCEPT ![d1] = Dash(t1, Keep, Unreadable), ![r1] = Res(p1, None), ![r2] = Res(p1, None)]
Bare == [Nothing EXCEPT ![d1] = Dash(t1, Keep, Unreadable), ![r2] = Res(p2, None)]
MCManifests == {Nothing, Home, Moved, BadFile, Bare}

NoObjects == [id \in Live |-> Gone]
Hand == [NoObjects EXCEPT ![d1] = Dash(t2, None, None), ![1] = Res(p1, tag)]
Lone(s) == [live |-> s, saved |-> [k \in Keys |-> None], covered |-> {}]
MCStarts ==
  {Lone(NoObjects), Lone(Hand),
   \* a dashboard and a resource of the agent, the dashboard deleted by hand
   [live |-> [Hand EXCEPT ![d1] = Gone], saved |-> [k \in Keys |-> IF k = d1 THEN d1 ELSE IF k = r1 THEN 1 ELSE None],
    covered |-> {1}]}
=============================================================================
