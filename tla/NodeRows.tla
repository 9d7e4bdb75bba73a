------------------------------ MODULE NodeRows ------------------------------
(***************************************************************************)
(* The row of one light group, room, area or house in the coordinator's       *)
(* auxiliary lists (coordinator.groups, rooms, areas, houses).                *)
(*                                                                         *)
(* Unlike a device, such a node has no overrides.  Its row lies in a list     *)
(* that a refresh fetches and replaces (a fetch that fails puts back the list  *)
(* that was there when the refresh began), that the gateway's topology         *)
(* replaces, and in whose rows reports and answered commands are merged in     *)
(* place.  A row of the Open API carries `properties`, one of the gateway's     *)
(* topology the `params` that the topology states of the node, if it states      *)
(* any, and a merge adds `params` to either.                                  *)
(***************************************************************************)
EXTENDS Naturals, Sequences

CONSTANTS
    Attrs,         \* the node's properties
    Levels,        \* their values
    Stated,        \* sets of properties, those a topology may state: {{}} in the protocol
    Refreshes,     \* refreshes that may be under way at a time
    Lists,         \* list objects, one more than refreshes
    MaxMoves,      \* bound: changes of the node on its own
    MaxWrites,     \* bound: commands
    MaxFaults,     \* bound: list fetches that fail
    MaxWaiting,    \* bound: messages under way
    Unset          \* a key or a list that is not there

ASSUME NodeAssumption ==
    /\ Unset \notin Levels
    /\ Unset \notin [params : [Attrs -> Levels \cup {Unset}],
                     properties : [Attrs -> Levels \cup {Unset}]]

ASSUME StatedAssumption == Stated \subseteq SUBSET Attrs

ASSUME NodeBounds == MaxMoves \in Nat /\ MaxWrites \in Nat /\ MaxFaults \in Nat

ASSUME ListsAssumption ==
    \A found \in [Refreshes -> Lists \cup {Unset}] :
        \E l \in Lists : \A r \in Refreshes : found[r] # l

VARIABLES
    lit,         \* the node's properties
    waiting,     \* reports and topologies on their way, in order
    lists,       \* the row of the node in each list object
    loaded,      \* the list the coordinator holds
    refresh,     \* of each refresh: where it is, the list it found, the row it fetched
    write,       \* the command under way: what it asks for, and whether it was applied
    moves, writes, faults,
    missed,      \* history: properties of which the loaded row lacks the last news, or any
    news         \* history: properties with news since a refresh fetched its row

unheard  == <<missed, news>>
nodeVars == <<lit, waiting, lists, loaded, refresh, write, moves, writes, faults, unheard>>

Full    == [Attrs -> Levels]
Partial == [Attrs -> Levels \cup {Unset}]
Blank   == [a \in Attrs |-> Unset]
Rows    == [params : Partial, properties : Partial]
NoRow   == Unset                                        \* the list has no such row

(* A row as the Open API lists it, and as the gateway's topology has it. *)
CloudRow(s) == [params |-> Blank, properties |-> s]
LanRow(u)   == [params |-> u, properties |-> Blank]

Idle == [at |-> "idle", found |-> Unset, row |-> NoRow]
NoWrite == [params |-> Blank, applied |-> FALSE]

NodeTypeOK ==
    /\ lit \in Full
    /\ waiting \in Seq([kind : {"props", "topology"}, params : Partial])
    /\ lists \in [Lists -> Rows \cup {NoRow}]
    /\ loaded \in Lists
    /\ refresh \in [Refreshes -> [at : {"idle", "begun", "fetched", "failed"},
                                  found : Lists \cup {Unset}, row : Rows \cup {NoRow}]]
    /\ write \in [params : Partial, applied : BOOLEAN]
    /\ moves \in 0 .. MaxMoves /\ writes \in 0 .. MaxWrites /\ faults \in 0 .. MaxFaults
    /\ missed \subseteq Attrs
    /\ news \in [Refreshes -> SUBSET Attrs]

(* The first refresh is done. *)
InitNode ==
    /\ lit \in Full
    /\ waiting = <<>>
    /\ loaded = CHOOSE l \in Lists : TRUE
    /\ lists = [l \in Lists |-> IF l = loaded THEN CloudRow(lit) ELSE NoRow]
    /\ refresh = [r \in Refreshes |-> Idle]
    /\ write = NoWrite
    /\ moves = 0 /\ writes = 0 /\ faults = 0
    /\ missed = {}
    /\ news = [r \in Refreshes |-> {}]

Over(s, u) == [a \in Attrs |-> IF u[a] = Unset THEN s[a] ELSE u[a]]
Says(row, a) == IF row.params[a] # Unset THEN row.params[a] ELSE row.properties[a]

Spoken(u) == {a \in Attrs : u[a] # Unset}

(* History: these properties are news to the rows that were fetched. *)
IsNews(as) ==
    news' = [r \in Refreshes |-> IF refresh[r].at = "fetched" THEN news[r] \cup as ELSE {}]

(* Nor does the loaded row lack them any more. *)
Told(as) == missed' = missed \ as /\ IsNews(as)

-----------------------------------------------------------------------------
(* The node, and what is said of it. *)

Posted(kind, u) ==
    /\ Len(waiting) < MaxWaiting
    /\ waiting' = Append(waiting, [kind |-> kind, params |-> u])

Takes(u) == lit' = Over(lit, u) /\ Posted("props", u)

NodeMoves(a, v) ==
    /\ moves < MaxMoves
    /\ v # lit[a]
    /\ moves' = moves + 1
    /\ Takes([Blank EXCEPT ![a] = v])
    /\ UNCHANGED <<lists, loaded, refresh, write, writes, faults, unheard>>

(* A topology names the node, and states some of its properties or none. *)
TopologySent ==
    /\ \E as \in Stated :
         Posted("topology", [a \in Attrs |-> IF a \in as THEN lit[a] ELSE Unset])
    /\ UNCHANGED <<lit, lists, loaded, refresh, write, moves, writes, faults, unheard>>

(* The gateway sends the states of all nodes: after a topology that was asked    *)
(* for, and every ten minutes.                                               *)
StateSent ==
    /\ Posted("props", lit)
    /\ UNCHANGED <<lit, lists, loaded, refresh, write, moves, writes, faults, unheard>>

(* Mutant: what the row already says is kept. *)
MutMergedInto(l, u) ==
    IF lists[l] = NoRow THEN lists ELSE [lists EXCEPT ![l].params = Over(u, @)]

(* merge_runtime_state_into_node_payloads: in place, if the list has the row. *)
MergedInto(l, u) ==
    IF lists[l] = NoRow THEN lists ELSE [lists EXCEPT ![l].params = Over(@, u)]

NodeReported ==
    /\ waiting # <<>>
    /\ Head(waiting).kind = "props"
    /\ waiting' = Tail(waiting)
    /\ lists' = MergedInto(loaded, Head(waiting).params)
    /\ Told(Spoken(Head(waiting).params))
    /\ UNCHANGED <<lit, loaded, refresh, write, moves, writes, faults>>

(* A list of which no refresh remembers the object. *)
Fresh == CHOOSE l \in Lists : \A r \in Refreshes : refresh[r].found # l

(* A new list object takes the place of the loaded one. *)
NewList(row) ==
    /\ loaded' = Fresh
    /\ lists' = [l \in Lists |->
                    IF l = Fresh THEN row
                    ELSE IF \E r \in Refreshes : refresh'[r].found = l THEN lists[l]
                    ELSE NoRow]

(* The row of before is gone, with all that the topology does not state. *)
NodeTopology ==
    /\ waiting # <<>>
    /\ Head(waiting).kind = "topology"
    /\ waiting' = Tail(waiting)
    /\ UNCHANGED refresh
    /\ NewList(LanRow(Head(waiting).params))
    /\ missed' = Attrs \ Spoken(Head(waiting).params)
    /\ IsNews(Spoken(Head(waiting).params))
    /\ UNCHANGED <<lit, write, moves, writes, faults>>

-----------------------------------------------------------------------------
(* _async_fetch_auxiliary_data: the lists are remembered when it begins, fetched *)
(* one after the other, and replaced together when the last has come.           *)

RefreshBegins(r) ==
    /\ refresh[r].at = "idle"
    /\ refresh' = [refresh EXCEPT ![r] = [at |-> "begun", found |-> loaded, row |-> NoRow]]
    /\ UNCHANGED <<lit, waiting, lists, loaded, write, moves, writes, faults, unheard>>

RefreshFetches(r) ==
    /\ refresh[r].at = "begun"
    /\ refresh' = [refresh EXCEPT ![r].at = "fetched", ![r].row = CloudRow(lit)]
    /\ UNCHANGED <<lit, waiting, lists, loaded, write, moves, writes, faults, unheard>>

(* An error that is not the token's: the list found at the beginning will do. *)
FetchFails(r) ==
    /\ refresh[r].at = "begun"
    /\ faults < MaxFaults
    /\ faults' = faults + 1
    /\ refresh' = [refresh EXCEPT ![r].at = "failed"]
    /\ UNCHANGED <<lit, waiting, lists, loaded, write, moves, writes, unheard>>

(* The list of before is the loaded one again. *)
PutBack(l) ==
    /\ loaded' = l
    /\ lists' = [m \in Lists |->
                    IF m = l \/ \E q \in Refreshes : refresh'[q].found = m
                    THEN lists[m] ELSE NoRow]
    /\ missed' = IF l = loaded THEN missed ELSE Attrs

(* Mutant: what was found is put back, whatever was fetched. *)
MutRefreshEnds(r) ==
    /\ refresh[r].at \in {"fetched", "failed"}
    /\ refresh' = [refresh EXCEPT ![r] = Idle]
    /\ PutBack(refresh[r].found)
    /\ news' = [news EXCEPT ![r] = {}]
    /\ UNCHANGED <<lit, waiting, write, moves, writes, faults>>

RefreshEnds(r) ==
    /\ refresh[r].at \in {"fetched", "failed"}
    /\ refresh' = [refresh EXCEPT ![r] = Idle]
    /\ IF refresh[r].at = "fetched" THEN NewList(refresh[r].row) /\ missed' = news[r]
       ELSE PutBack(refresh[r].found)
    /\ news' = [news EXCEPT ![r] = {}]
    /\ UNCHANGED <<lit, waiting, write, moves, writes, faults>>

(* Another part of the refresh fails, or the token: nothing is assigned. *)
RefreshAborts(r) ==
    /\ refresh[r].at # "idle"
    /\ faults < MaxFaults
    /\ faults' = faults + 1
    /\ refresh' = [refresh EXCEPT ![r] = Idle]
    /\ PutBack(loaded)
    /\ news' = [news EXCEPT ![r] = {}]
    /\ UNCHANGED <<lit, waiting, write, moves, writes>>

-----------------------------------------------------------------------------
(* async_control_group and async_control_node: no optimistic merge, no overrides. *)

WriteStarts(u) ==
    /\ write = NoWrite
    /\ u # Blank
    /\ writes < MaxWrites
    /\ writes' = writes + 1
    /\ write' = [params |-> u, applied |-> FALSE]
    /\ UNCHANGED <<lit, waiting, lists, loaded, refresh, moves, faults, unheard>>

WriteApplied ==
    /\ write # NoWrite
    /\ ~write.applied
    /\ Takes(write.params)
    /\ write' = [write EXCEPT !.applied = TRUE]
    /\ UNCHANGED <<lists, loaded, refresh, moves, writes, faults, unheard>>

(* Answered, or over the LAN not in time: merged into the list loaded by now. *)
WriteAnswered ==
    /\ write # NoWrite
    /\ lists' = MergedInto(loaded, write.params)
    /\ missed' = (missed \ Spoken(write.params))
                   \cup {a \in Attrs : write.params[a] \notin {Unset, lit[a]}}
    /\ write' = NoWrite
    /\ UNCHANGED <<lit, waiting, loaded, refresh, moves, writes, faults, news>>

WriteFails ==
    /\ write # NoWrite
    /\ write' = NoWrite
    /\ UNCHANGED <<lit, waiting, lists, loaded, refresh, moves, writes, faults, unheard>>

NextNode ==
    \/ \E a \in Attrs, v \in Levels : NodeMoves(a, v)
    \/ TopologySent
    \/ StateSent
    \/ NodeReported
    \/ NodeTopology
    \/ \E r \in Refreshes :
         \/ RefreshBegins(r)
         \/ RefreshFetches(r)
         \/ FetchFails(r)
         \/ RefreshEnds(r)
         \/ RefreshAborts(r)
    \/ \E u \in Partial : WriteStarts(u)
    \/ WriteApplied
    \/ WriteAnswered
    \/ WriteFails

(* Messages are handled, and refreshes come again and again. *)
FairNode ==
    /\ WF_nodeVars(NodeReported \/ NodeTopology)
    /\ WF_nodeVars(\E r \in Refreshes : RefreshBegins(r) \/ RefreshFetches(r) \/ RefreshEnds(r))

SpecNode == InitNode /\ [][NextNode]_nodeVars /\ FairNode

-----------------------------------------------------------------------------
(* Properties *)

TheRow == lists[loaded]

(* What an entity shows: YeelightProGroupLight looks at the params alone,       *)
(* YeelightProNodeLight at the properties as long as there are no params.       *)
GroupShows(a) == TheRow.params[a]

NodeShows(a) == IF TheRow.params # Blank THEN TheRow.params[a] ELSE TheRow.properties[a]

(* The light of a group shows what its row says of it.                         *)
GroupShowsRow == \A a \in Attrs : GroupShows(a) = Says(TheRow, a)

(* A property of which no message is waiting is in the row as the node has it,    *)
(* but for four losses, until it is spoken of or fetched again: a row that was    *)
(* fetched lacks the news handled before it was put in place, a list that is put  *)
(* back after another was loaded may lack any, a topology's row lacks what the    *)
(* topology does not state, and an answer may not, or no longer, be true.        *)
RowIsCurrent ==
    \A a \in Attrs \ missed :
        (\A i \in DOMAIN waiting : waiting[i].params[a] = Unset) => Says(TheRow, a) = lit[a]

(* A node that is left alone is not shown otherwise than it is, from some moment  *)
(* on, if not shown without a value after a topology, and all of it is shown      *)
(* again and again: no report that came during a refresh, no list that was put    *)
(* back, no command that was answered late or never applied stays, and no row      *)
(* of a topology does.                                                       *)
NodeCatchesUp ==
    /\ <>[](\A a \in Attrs : {Says(TheRow, a), NodeShows(a)} \subseteq {lit[a], Unset})
    /\ []<>(\A a \in Attrs : Says(TheRow, a) = lit[a] /\ NodeShows(a) = lit[a])
=============================================================================
