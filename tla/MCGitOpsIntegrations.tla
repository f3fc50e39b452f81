----------------------- MODULE MCGitOpsIntegrations -----------------------
EXTENDS GitOpsIntegrations

CONSTANTS h1, i1, i2, s1, repo, custom, core, t1, t2, ty, plain, ref, bad, v1, v2

MCKeyOrder == <<h1, i1, i2, s1>>
MCEntryIds == 1 .. 4
MCSubIds == 11 .. 13
MCProvides == [r \in {repo} |-> custom]

Hacs == [repo |-> repo, data |-> plain]
Flow(domain, title, data) == [domain |-> domain, title |-> title, data |-> data]
Sub(domain, uid, data) ==
  [domain |-> domain, entryTitle |-> None, type |-> ty, uid |-> uid, title |-> t1, data |-> data, parent |-> None]

Nothing == [k \in Keys |-> Undeclared]
\* the custom integration with an entry and a subentry, a renamed id, and
\* data a form refuses
Chain == [Nothing EXCEPT ![h1] = Hacs, ![i1] = Flow(custom, t1, ref), ![s1] = Sub(custom, None, plain)]
Renamed == [Nothing EXCEPT ![i2] = Flow(core, t1, ref), ![s1] = Sub(core, None, ref)]
Before == [Nothing EXCEPT ![i1] = Flow(core, t1, plain), ![s1] = Sub(core, None, plain)]
Both == [Nothing EXCEPT ![i1] = Flow(core, t1, bad), ![i2] = Flow(core, t2, plain)]
MCManifests == {Nothing, Chain, Renamed, Before, Both}

NoEntries == [e \in MCEntryIds |-> Gone]
NoSubs == [x \in MCSubIds |-> Gone]
NoManaged == [k \in Keys |-> None]
Empty ==
  [changes |-> 1, rollbacks |-> 1, desired |-> Chain, entries |-> NoEntries, subs |-> NoSubs, installed |-> {},
   loaded |-> {core}, secret |-> v1, managed |-> NoManaged, hash |-> NoManaged, data |-> NoManaged]
\* i1 set up by the agent, with its subentry
SetUp ==
  [Empty EXCEPT !.entries[1] = [domain |-> core, title |-> t1, data |-> plain],
                !.subs[11] = [entry |-> 1, type |-> ty, uid |-> None, title |-> t1, data |-> plain],
                !.managed = [k \in Keys |-> IF k = i1 THEN 1 ELSE IF k = s1 THEN 11 ELSE None],
                !.hash = [k \in Keys |-> IF k \in {i1, s1} THEN plain ELSE None],
                !.data = [k \in Keys |-> IF k = i1 THEN plain ELSE None]]
\* The same under the name its flow gave the subentry.
Named == [SetUp EXCEPT !.subs[11].title = t2, !.desired = Before, !.changes = 2, !.rollbacks = 0]
MCStarts == {Empty, Named} \cup {[SetUp EXCEPT !.desired = m] : m \in {Nothing, Before}}
\* Nobody commits, edits or rolls back anything.
MCQuietStarts == {[s EXCEPT !.changes = 0, !.rollbacks = 0] : s \in MCStarts}
\* Two commits or edits and a Roll Back, whatever there is to begin with.
MCAllStarts == {[s EXCEPT !.changes = 2, !.rollbacks = 1] : s \in MCStarts}
=============================================================================
