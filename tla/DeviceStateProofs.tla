------------------------- MODULE DeviceStateProofs -------------------------
(* Theorems about DeviceState, for every set of keys, values, commands and *)
(* polls, and for every bound on changes, commands and reports.            *)
EXTENDS DeviceState, TLAPS

USE ValuesAssumption, StatesAssumption, BoundsAssumption, DefaultsAssumption

-----------------------------------------------------------------------------
(* Merging keeps the types, and takes every key from one of its arguments. *)
LEMMA MergeStates ==
    ASSUME NEW s \in States, NEW u \in Updates
    PROVE  Merge(s, u) \in States
BY DEF Merge, States, Updates

LEMMA MergeUpdates ==
    ASSUME NEW s \in Updates, NEW u \in Updates
    PROVE  Merge(s, u) \in Updates
BY DEF Merge, Updates

LEMMA StatesAreUpdates == States \subseteq Updates
BY DEF States, Updates

(* A payload is there, and is not Python's None. *)
LEMMA UpdatesAreThere == None \notin Updates /\ Absent \notin Updates
BY DEF Updates

LEMMA LanPayloadType == ASSUME NEW u \in Updates PROVE LanPayload(u) \in Updates
BY MergeUpdates DEF LanPayload, Updates

LEMMA NoUpdateType == NoUpdate \in Updates
BY DEF NoUpdate, Updates

LEMMA ChangeType ==
    ASSUME NEW k \in Keys, NEW v \in Values
    PROVE  [NoUpdate EXCEPT ![k] = v] \in Updates
BY DEF NoUpdate, Updates

(* What the device does when it takes an update, reported or not. *)
Taken(u) ==
    /\ actual' = Merge(actual, u)
    /\ had' = [k \in Keys |-> had[k] \cup {actual'[k]}]
    /\ \/ feed' = Append(feed, [kind |-> "props", params |-> u])
          /\ untold' = {k \in untold : u[k] = None}
       \/ feed' = feed /\ untold' = untold \cup {k \in Keys : u[k] # None}

LEMMA DeviceIsTaken == ASSUME NEW u, DeviceTakes(u) PROVE Taken(u)
BY DEF DeviceTakes, Taken, Tells, Pushes, Renewed

LEMMA TakesType ==
    ASSUME TypeOK, NEW u \in Updates, Taken(u)
    PROVE  /\ actual' \in States
           /\ had' \in [Keys -> SUBSET Values]
           /\ untold' \subseteq Keys
           /\ feed' \in Seq(Reports)
<1>1. actual' \in States
  BY MergeStates DEF TypeOK, Taken
<1>2. had' \in [Keys -> SUBSET Values]
  BY <1>1 DEF TypeOK, Taken, States
<1>3. [kind |-> "props", params |-> u] \in Reports
  BY DEF Reports
<1>4. feed' \in Seq(Reports)
  <2>1. feed \in Seq(Reports) /\ Append(feed, [kind |-> "props", params |-> u]) \in Seq(Reports)
    BY <1>3 DEF TypeOK
  <2> QED
    BY <2>1 DEF Taken
<1>5. untold' \subseteq Keys
  BY DEF TypeOK, Taken
<1> QED
  BY <1>1, <1>2, <1>4, <1>5

(* A topology is one report, of some properties as they are. *)
LEMMA TopologySent ==
    ASSUME TypeOK, GatewaySendsTopology
    PROVE  \E m \in Reports :
              /\ m.kind = "topology" /\ feed' = Append(feed, m)
              /\ \A k \in Keys : m.params[k] \in {None, actual[k]}
<1>1. PICK ks \in Carried :
        Pushes("topology", [k \in Keys |-> IF k \in ks THEN actual[k] ELSE None])
  BY DEF GatewaySendsTopology
<1> DEFINE u == [k \in Keys |-> IF k \in ks THEN actual[k] ELSE None]
<1>2. u \in Updates /\ \A k \in Keys : u[k] \in {None, actual[k]}
  BY DEF TypeOK, States, Updates
<1>3. feed' = Append(feed, [kind |-> "topology", params |-> u])
  BY <1>1 DEF Pushes
<1> HIDE DEF u
<1>4. [kind |-> "topology", params |-> u] \in Reports
  BY <1>2 DEF Reports
<1> QED
  BY <1>2, <1>3, <1>4

LEMMA StoreType ==
    ASSUME TypeOK, NEW u \in Updates, StoreUpdate(u)
    PROVE  overrides' \in Updates /\ payload' \in Updates \cup {Absent}
BY MergeUpdates DEF TypeOK, StoreUpdate, MergedPayload

LEMMA ReplaceType ==
    ASSUME TypeOK, NEW s \in Updates \cup {Absent}, ReplacePayload(s)
    PROVE  /\ payload' \in Updates \cup {Absent}
           /\ snapshot' \in [Cmds -> Updates \cup {None}]
BY MergeUpdates DEF TypeOK, ReplacePayload

LEMMA EndsType ==
    ASSUME TypeOK, NEW c \in Cmds, CommandEnds(c)
    PROVE  /\ cmd' \in [Cmds -> CmdPC]
           /\ params' \in [Cmds -> Updates]
           /\ snapshot' \in [Cmds -> Updates \cup {None}]
           /\ applied' \subseteq Cmds
BY NoUpdateType DEF TypeOK, CommandEnds, CmdPC

LEMMA StartsType ==
    ASSUME TypeOK, NEW c \in Cmds, NEW u \in Updates, CommandStarts(c, u)
    PROVE  /\ params' \in [Cmds -> Updates]
           /\ issued' \in 0 .. MaxCommands
           /\ payload \in Updates
BY DEF TypeOK, CommandStarts

LEMMA HeadTail ==
    ASSUME TypeOK, feed # <<>>
    PROVE  /\ Head(feed) \in Reports
           /\ Head(feed).params \in Updates
           /\ Tail(feed) \in Seq(Reports)
<1>1. feed \in Seq(Reports)
  BY DEF TypeOK
<1>2. Head(feed) \in Reports /\ Tail(feed) \in Seq(Reports)
  BY <1>1
<1> QED
  BY <1>2 DEF Reports

LEMMA InitType == Init => TypeOK
<1> SUFFICES ASSUME Init PROVE TypeOK
  OBVIOUS
<1>1. actual \in States /\ actual \in Updates /\ LanPayload(NoUpdate) \in Updates
  BY StatesAreUpdates, NoUpdateType, LanPayloadType DEF Init
<1>2. /\ payload \in Updates \cup {Absent} /\ shown \in Updates \cup {Absent}
      /\ had \in [Keys -> SUBSET Values]
      /\ overrides \in Updates
  BY <1>1, NoUpdateType DEF Init, States
<1>3. /\ polled \in [Polls -> States \cup {None, Absent}]
      /\ cmd \in [Cmds -> CmdPC]
      /\ params \in [Cmds -> Updates]
      /\ snapshot \in [Cmds -> Updates \cup {None}]
      /\ applied \subseteq Cmds
  BY NoUpdateType DEF Init, CmdPC
<1>4. changes \in 0 .. MaxChanges /\ issued \in 0 .. MaxCommands /\ outdated \subseteq Keys
      /\ misshown \subseteq Keys /\ untold \subseteq Keys
  BY DEF Init
<1>5. feed \in Seq(Reports)
  BY DEF Init
<1> QED
  BY <1>1, <1>2, <1>3, <1>4, <1>5 DEF TypeOK

LEMMA NextType == TypeOK /\ [Next]_vars => TypeOK'
<1> SUFFICES ASSUME TypeOK, [Next]_vars PROVE TypeOK'
  OBVIOUS
<1> USE DEF truth, device, command, budget, store, view
<1>1. ASSUME NEW k \in Keys, NEW v \in Values, DeviceChanges(k, v) PROVE TypeOK'
  <2>1. /\ actual' \in States /\ had' \in [Keys -> SUBSET Values]
        /\ feed' \in Seq(Reports) /\ untold' \subseteq Keys
    BY <1>1, ChangeType, DeviceIsTaken, TakesType DEF DeviceChanges
  <2>2. changes' \in 0 .. MaxChanges
    BY <1>1 DEF TypeOK, DeviceChanges
  <2> QED
    BY <1>1, <2>1, <2>2 DEF TypeOK, DeviceChanges
<1>2. CASE GatewaySendsTopology
  <2>1. feed' \in Seq(Reports)
    <3>1. PICK m \in Reports : feed' = Append(feed, m)
      BY <1>2, TopologySent
    <3>2. feed \in Seq(Reports)
      BY DEF TypeOK
    <3> QED
      BY <3>1, <3>2
  <2> QED
    BY <1>2, <2>1 DEF TypeOK, GatewaySendsTopology
<1>3. CASE GatewaySendsState
  <2>1. [kind |-> "props", params |-> actual] \in Reports
    BY StatesAreUpdates DEF TypeOK, Reports
  <2>2. feed' \in Seq(Reports) /\ untold' \subseteq Keys
    BY <1>3, <2>1 DEF TypeOK, GatewaySendsState, Tells, Pushes, Renewed
  <2> QED
    BY <1>3, <2>2 DEF TypeOK, GatewaySendsState
<1>4. ASSUME NEW c \in Cmds, CommandApplied(c) PROVE TypeOK'
  <2>1. params[c] \in Updates /\ Taken(params[c])
    BY <1>4, DeviceIsTaken DEF TypeOK, CommandApplied
  <2>2. /\ actual' \in States /\ had' \in [Keys -> SUBSET Values]
        /\ feed' \in Seq(Reports) /\ untold' \subseteq Keys
    BY <2>1, TakesType
  <2> QED
    BY <1>4, <2>2 DEF TypeOK, CommandApplied
<1>5. CASE HandleReport
  <2>1. feed' \in Seq(Reports)
    BY <1>5, HeadTail DEF HandleReport
  <2>2. overrides' \in Updates /\ payload' \in Updates \cup {Absent}
    BY <1>5, HeadTail, StoreType DEF HandleReport
  <2> QED
    BY <1>5, <2>1, <2>2 DEF TypeOK, HandleReport, Renewed
<1>6. CASE HandleTopology
  <2>1. feed' \in Seq(Reports) /\ LanPayload(Head(feed).params) \in Updates
    BY <1>6, HeadTail, LanPayloadType DEF HandleTopology
  <2>2. payload' \in Updates \cup {Absent} /\ snapshot' \in [Cmds -> Updates \cup {None}]
    BY <1>6, <2>1, ReplaceType DEF HandleTopology
  <2> QED
    BY <1>6, <2>1, <2>2 DEF TypeOK, HandleTopology
<1>7. ASSUME NEW p \in Polls, PollReads(p) PROVE TypeOK'
  <2>1. polled' \in [Polls -> States \cup {None, Absent}]
    BY <1>7 DEF TypeOK, PollReads
  <2> QED
    BY <1>7, <2>1 DEF TypeOK, PollReads
<1>8. ASSUME NEW p \in Polls, PollEnds(p) PROVE TypeOK'
  <2>1. polled[p] \in Updates \cup {Absent}
    BY <1>8, StatesAreUpdates DEF TypeOK, PollEnds
  <2>2. payload' \in Updates \cup {Absent} /\ snapshot' \in [Cmds -> Updates \cup {None}]
    BY <1>8, <2>1, ReplaceType DEF PollEnds
  <2> QED
    BY <1>8, <2>2 DEF TypeOK, PollEnds
<1>9. ASSUME NEW p \in Polls, PollFails(p) PROVE TypeOK'
  BY <1>9 DEF TypeOK, PollFails
<1>10. ASSUME NEW c \in Cmds, NEW u \in Updates, ControlLan(c, u) PROVE TypeOK'
  <2>1. cmd' \in [Cmds -> CmdPC]
    BY <1>10 DEF TypeOK, ControlLan, CmdPC
  <2>2. params' \in [Cmds -> Updates] /\ issued' \in 0 .. MaxCommands
    BY <1>10, StartsType DEF ControlLan
  <2> QED
    BY <1>10, <2>1, <2>2 DEF TypeOK, ControlLan
<1>11. ASSUME NEW c \in Cmds, NEW u \in Updates, ControlCloud(c, u) PROVE TypeOK'
  <2>1. cmd' \in [Cmds -> CmdPC]
    BY <1>11 DEF TypeOK, ControlCloud, CmdPC
  <2>2. params' \in [Cmds -> Updates] /\ issued' \in 0 .. MaxCommands /\ payload \in Updates
    BY <1>11, StartsType DEF ControlCloud
  <2>3. payload' \in Updates \cup {Absent}
    BY <1>11, <2>2, MergeUpdates DEF ControlCloud, MergedPayload
  <2>4. snapshot' \in [Cmds -> Updates \cup {None}]
    BY <1>11, <2>2 DEF TypeOK, ControlCloud
  <2> QED
    BY <1>11, <2>1, <2>2, <2>3, <2>4 DEF TypeOK, ControlCloud, Renewed
<1>12. ASSUME NEW c \in Cmds, LanAnswered(c) \/ CloudAnswered(c) PROVE TypeOK'
  <2>1. overrides' \in Updates /\ payload' \in Updates \cup {Absent}
    BY <1>12, StoreType DEF LanAnswered, CloudAnswered, StoreAnswer, TypeOK
  <2> QED
    BY <1>12, <2>1, EndsType
    DEF TypeOK, LanAnswered, CloudAnswered, StoreAnswer, CommandEnds, Renewed
<1>13. ASSUME NEW c \in Cmds, LanFails(c) PROVE TypeOK'
  BY <1>13, EndsType DEF TypeOK, LanFails, CommandEnds
<1>14. ASSUME NEW c \in Cmds, CloudFails(c) PROVE TypeOK'
  <2>1. payload' \in Updates \cup {Absent} /\ misshown' \subseteq Keys
    BY <1>14 DEF TypeOK, CloudFails
  <2> QED
    BY <1>14, <2>1, EndsType DEF TypeOK, CloudFails, CommandEnds
<1>15. ASSUME NEW c \in Cmds, CommandCancelled(c) PROVE TypeOK'
  BY <1>15, EndsType DEF TypeOK, CommandCancelled, CommandEnds
<1>16. CASE UNCHANGED vars
  BY <1>16 DEF TypeOK, vars
<1> QED
  BY <1>1, <1>2, <1>3, <1>4, <1>5, <1>6, <1>7, <1>8, <1>9, <1>10, <1>11, <1>12, <1>13,
     <1>14, <1>15, <1>16
  DEF Next, EnvironmentNext, FeedNext, PollNext, CommandNext

(* Every variable keeps its type, whatever fails and whatever order reports, *)
(* polls and commands come in.                                             *)
THEOREM TypeCorrect == Spec => []TypeOK
BY InitType, NextType, PTL DEF Spec

-----------------------------------------------------------------------------
(* What is real: a value the device has had. *)

Real(u) == \A k \in Keys : u[k] # None => u[k] \in had[k]

FeedReal == \A i \in 1 .. Len(feed) : Real(feed[i].params)

AppliedReal == \A c \in applied : cmd[c] # "idle" /\ Real(params[c])

PolledReal == \A p \in Polls : polled[p] \notin {None, Absent} => Real(polled[p])

(* All that is read or reported is real, and so are the values of the      *)
(* commands that the device has applied.                                   *)
SeenReal == Real(actual) /\ FeedReal /\ AppliedReal /\ PolledReal

(* So is what becomes an override of it, when every answer is one.          *)
RealInv == SeenReal /\ Real(overrides)

LEMMA RealMerge ==
    ASSUME NEW s, NEW u, Real(s), Real(u)
    PROVE  Real(Merge(s, u))
BY DEF Real, Merge

LEMMA RealNothing == Real(NoUpdate)
BY DEF Real, NoUpdate

(* The history only grows, and takes in what the device takes. *)
LEMMA HadGrows ==
    ASSUME TypeOK, Real(actual), NEW u \in Updates, Taken(u)
    PROVE  /\ \A k \in Keys : had[k] \subseteq had'[k]
           /\ \A k \in Keys : actual'[k] \in had'[k]
           /\ \A k \in Keys : u[k] # None => u[k] \in had'[k]
<1>1. \A k \in Keys : had'[k] = had[k] \cup {actual'[k]}
  BY DEF Taken
<1>2. \A k \in Keys : u[k] # None => actual'[k] = u[k]
  BY DEF Taken, Merge
<1> QED
  BY <1>1, <1>2

LEMMA FeedRealKept ==
    ASSUME TypeOK, FeedReal, NEW r \in Reports,
           \A k \in Keys : had[k] \subseteq had'[k],
           \A k \in Keys : r.params[k] # None => r.params[k] \in had'[k],
           feed' = feed \/ feed' = Append(feed, r)
    PROVE  FeedReal'
<1>1. feed \in Seq(Reports)
  BY DEF TypeOK
<1>2. CASE feed' = feed
  BY <1>2 DEF FeedReal, Real
<1>3. CASE feed' = Append(feed, r)
  <2> SUFFICES ASSUME NEW i \in 1 .. Len(feed'), NEW k \in Keys, feed'[i].params[k] # None
               PROVE  feed'[i].params[k] \in had'[k]
    BY DEF FeedReal, Real
  <2>1. CASE i \in 1 .. Len(feed)
    <3>1. feed'[i] = feed[i]
      BY <1>1, <1>3, <2>1
    <3> QED
      BY <2>1, <3>1 DEF FeedReal, Real
  <2>2. CASE i = Len(feed) + 1
    <3>1. feed'[i] = r
      BY <1>1, <1>3, <2>2
    <3> QED
      BY <3>1
  <2> QED
    BY <1>1, <1>3, <2>1, <2>2
<1> QED
  BY <1>2, <1>3

LEMMA FeedRealTail ==
    ASSUME TypeOK, FeedReal, feed # <<>>, feed' = Tail(feed), UNCHANGED had
    PROVE  FeedReal' /\ Real(Head(feed).params)
<1>1. feed \in Seq(Reports)
  BY DEF TypeOK
<1>2. Len(feed) >= 1 /\ Len(feed) \in Nat /\ Head(feed) = feed[1]
  BY <1>1
<1>3. Len(feed') = Len(feed) - 1 /\ \A i \in 1 .. Len(feed') : feed'[i] = feed[i + 1]
  BY <1>1, <1>2
<1>4. Real(Head(feed).params)
  BY <1>2 DEF FeedReal
<1> QED
  BY <1>2, <1>3, <1>4 DEF FeedReal, Real

(* A change of the device keeps what is real. *)
LEMMA RealTakes ==
    ASSUME TypeOK, SeenReal, NEW u \in Updates, Taken(u),
           UNCHANGED <<polled, cmd, params>>
    PROVE  /\ Real(actual)' /\ FeedReal' /\ PolledReal'
           /\ \A c \in applied : cmd'[c] # "idle" /\ Real(params[c])'
<1>1. /\ \A k \in Keys : had[k] \subseteq had'[k]
      /\ \A k \in Keys : actual'[k] \in had'[k]
      /\ \A k \in Keys : u[k] # None => u[k] \in had'[k]
  BY HadGrows DEF SeenReal
<1>2. Real(actual)' /\ PolledReal'
  BY <1>1 DEF SeenReal, Real, PolledReal
<1>3. \A c \in applied : cmd'[c] # "idle" /\ Real(params[c])'
  BY <1>1 DEF SeenReal, Real, AppliedReal
<1>4. feed' = Append(feed, [kind |-> "props", params |-> u]) \/ feed' = feed
  BY DEF Taken
<1>5. [kind |-> "props", params |-> u] \in Reports
  BY DEF Reports
<1>6. FeedReal'
  BY <1>1, <1>4, <1>5, FeedRealKept DEF SeenReal
<1> QED
  BY <1>2, <1>3, <1>6

(* The state of before, told again. *)
LEMMA StateIsTaken ==
    ASSUME TypeOK, SeenReal, GatewaySendsState
    PROVE  actual \in Updates /\ Taken(actual) /\ UNCHANGED had
<1>1. actual \in Updates /\ actual \in [Keys -> Values] /\ had \in [Keys -> SUBSET Values]
  BY StatesAreUpdates DEF TypeOK, States
<1>2. Merge(actual, actual) = actual /\ \A k \in Keys : actual[k] \in had[k]
  BY <1>1 DEF Merge, SeenReal, Real
<1>3. actual' = actual /\ had' = had
      /\ feed' = Append(feed, [kind |-> "props", params |-> actual])
      /\ untold' = {k \in untold : actual[k] = None}
  BY DEF GatewaySendsState, Tells, Pushes, Renewed
<1>4. had = [k \in Keys |-> had[k] \cup {actual[k]}]
  BY <1>1, <1>2
<1> QED
  BY <1>1, <1>2, <1>3, <1>4 DEF Taken

(* The end of a command: nothing real is lost. *)
LEMMA RealEnds ==
    ASSUME TypeOK, SeenReal, NEW c \in Cmds, CommandEnds(c)
    PROVE  SeenReal'
BY DEF SeenReal, CommandEnds, truth, TypeOK, Real, FeedReal, AppliedReal, PolledReal

LEMMA RealInit == Init => RealInv
<1> SUFFICES ASSUME Init PROVE RealInv
  OBVIOUS
<1>1. Real(actual) /\ Real(overrides) /\ AppliedReal /\ PolledReal
  BY DEF Init, Real, NoUpdate, AppliedReal, PolledReal
<1>2. FeedReal
  BY DEF Init, FeedReal
<1> QED
  BY <1>1, <1>2 DEF RealInv, SeenReal

(* Nothing about reality changes. *)
LEMMA RealSame ==
    ASSUME SeenReal, UNCHANGED <<actual, had, feed>>
    PROVE  Real(actual)' /\ FeedReal'
BY DEF SeenReal, Real, FeedReal

LEMMA StoredReal ==
    ASSUME Real(overrides), NEW u, Real(u), StoreUpdate(u), UNCHANGED had
    PROVE  Real(overrides)'
<1>1. Real(overrides')
  BY RealMerge DEF StoreUpdate
<1> QED
  BY <1>1 DEF Real

LEMMA SeenNext ==
    ASSUME TypeOK, SeenReal, [Next]_vars
    PROVE  SeenReal'
<1> USE DEF truth, device, command, budget, store, view
<1>1. ASSUME NEW k \in Keys, NEW v \in Values, DeviceChanges(k, v) PROVE SeenReal'
  BY <1>1, ChangeType, DeviceIsTaken, RealTakes DEF DeviceChanges, SeenReal, AppliedReal
<1>2. CASE GatewaySendsTopology
  <2>1. PICK m \in Reports : /\ feed' = Append(feed, m)
                             /\ \A k \in Keys : m.params[k] \in {None, actual[k]}
    BY <1>2, TopologySent
  <2>2. \A k \in Keys : actual[k] \in had[k]
    BY DEF SeenReal, Real, TypeOK, States
  <2>3. FeedReal'
    BY <1>2, <2>1, <2>2, FeedRealKept DEF GatewaySendsTopology, SeenReal
  <2> QED
    BY <1>2, <2>3 DEF GatewaySendsTopology, SeenReal, Real, AppliedReal, PolledReal
<1>3. ASSUME NEW c \in Cmds, CommandApplied(c) PROVE SeenReal'
  <2>1. params[c] \in Updates /\ Taken(params[c])
    BY <1>3, DeviceIsTaken DEF TypeOK, CommandApplied
  <2>2. /\ Real(actual)' /\ FeedReal' /\ PolledReal'
        /\ \A d \in applied : cmd'[d] # "idle" /\ Real(params[d])'
    BY <1>3, <2>1, RealTakes DEF CommandApplied
  <2>3. Real(params[c])'
    BY <1>3, <2>1, HadGrows DEF SeenReal, Real, CommandApplied
  <2> QED
    BY <1>3, <2>2, <2>3 DEF CommandApplied, SeenReal, AppliedReal
<1>4. CASE HandleReport
  <2>1. FeedReal'
    BY <1>4, FeedRealTail DEF HandleReport, SeenReal
  <2> QED
    BY <1>4, <2>1 DEF HandleReport, SeenReal, Real, AppliedReal, PolledReal
<1>5. CASE HandleTopology
  <2>1. FeedReal'
    BY <1>5, FeedRealTail DEF HandleTopology, SeenReal
  <2> QED
    BY <1>5, <2>1 DEF HandleTopology, SeenReal, Real, AppliedReal, PolledReal
<1>6. ASSUME NEW p \in Polls, PollReads(p) PROVE SeenReal'
  <2>1. PolledReal'
    BY <1>6 DEF PollReads, TypeOK, SeenReal, PolledReal, Real
  <2> QED
    BY <1>6, <2>1, RealSame DEF PollReads, SeenReal, AppliedReal, Real
<1>7. ASSUME NEW p \in Polls, PollEnds(p) PROVE SeenReal'
  <2>1. PolledReal'
    BY <1>7 DEF PollEnds, TypeOK, SeenReal, PolledReal, Real
  <2> QED
    BY <1>7, <2>1, RealSame DEF PollEnds, SeenReal, AppliedReal, Real
<1>8. ASSUME NEW p \in Polls, PollFails(p) PROVE SeenReal'
  <2>1. PolledReal'
    BY <1>8 DEF PollFails, TypeOK, SeenReal, PolledReal, Real
  <2> QED
    BY <1>8, <2>1, RealSame DEF PollFails, SeenReal, AppliedReal, Real
<1>9. ASSUME NEW c \in Cmds, NEW u \in Updates, ControlLan(c, u) PROVE SeenReal'
  <2>1. AppliedReal'
    BY <1>9 DEF ControlLan, CommandStarts, TypeOK, SeenReal, AppliedReal, Real
  <2> QED
    BY <1>9, <2>1, RealSame DEF ControlLan, SeenReal, PolledReal, Real
<1>10. ASSUME NEW c \in Cmds, NEW u \in Updates, ControlCloud(c, u) PROVE SeenReal'
  <2>1. AppliedReal'
    BY <1>10 DEF ControlCloud, CommandStarts, TypeOK, SeenReal, AppliedReal, Real
  <2> QED
    BY <1>10, <2>1, RealSame DEF ControlCloud, SeenReal, PolledReal, Real
<1>11. ASSUME NEW c \in Cmds, CommandEnds(c) PROVE SeenReal'
  BY <1>11, RealEnds
<1>12. CASE GatewaySendsState
  BY <1>12, StateIsTaken, RealTakes DEF GatewaySendsState, SeenReal, AppliedReal
<1>13. CASE UNCHANGED vars
  BY <1>13 DEF vars, SeenReal, Real, FeedReal, AppliedReal, PolledReal
<1> QED
  BY <1>1, <1>2, <1>3, <1>4, <1>5, <1>6, <1>7, <1>8, <1>9, <1>10, <1>11, <1>12, <1>13
  DEF Next, EnvironmentNext, FeedNext, PollNext, CommandNext,
      LanAnswered, LanFails, CloudAnswered, CloudFails, CommandCancelled

LEMMA RealNext ==
    ASSUME "timeout" \notin Troubles, TypeOK, RealInv, [Next]_vars
    PROVE  RealInv'
<1>0. TypeOK /\ SeenReal /\ Real(overrides)
  BY DEF RealInv
<1> SUFFICES Real(overrides)'
  BY <1>0, SeenNext DEF RealInv
<1> USE DEF truth, device, command, budget, store, view
<1>1. ASSUME NEW u \in Updates, Taken(u), UNCHANGED overrides PROVE Real(overrides)'
  BY <1>0, <1>1, HadGrows DEF SeenReal, Real
<1>2. ASSUME NEW k \in Keys, NEW v \in Values, DeviceChanges(k, v) PROVE Real(overrides)'
  BY <1>1, <1>2, ChangeType, DeviceIsTaken DEF DeviceChanges
<1>3. ASSUME NEW c \in Cmds, CommandApplied(c) PROVE Real(overrides)'
  BY <1>0, <1>1, <1>3, DeviceIsTaken DEF CommandApplied, TypeOK
<1>4. CASE HandleReport
  BY <1>0, <1>4, FeedRealTail, StoredReal DEF HandleReport, SeenReal
<1>5. ASSUME NEW c \in Cmds, LanAnswered(c) \/ CloudAnswered(c) PROVE Real(overrides)'
  <2>1. c \in applied /\ StoreUpdate(params[c]) /\ UNCHANGED had
    BY <1>5 DEF LanAnswered, CloudAnswered, StoreAnswer, CommandEnds
  <2> QED
    BY <1>0, <2>1, StoredReal DEF SeenReal, AppliedReal
<1>6. CASE UNCHANGED <<overrides, had>>
  BY <1>0, <1>6 DEF Real
<1> QED
  BY <1>2, <1>3, <1>4, <1>5, <1>6
  DEF Next, EnvironmentNext, FeedNext, PollNext, CommandNext, vars,
      GatewaySendsTopology, GatewaySendsState, HandleTopology, PollReads, PollEnds, PollFails, ControlLan,
      ControlCloud, LanFails, CloudFails, CommandCancelled, CommandEnds

(* If every LAN command is answered, the override store only ever holds    *)
(* values the device had, whatever fails, overlaps or is reported late.    *)
THEOREM OverridesWereRealAlways ==
    ASSUME "timeout" \notin Troubles
    PROVE  Spec => []OverridesWereReal
<1>1. TypeOK /\ RealInv /\ [Next]_vars => (TypeOK /\ RealInv)'
  BY NextType, RealNext
<1>2. Init => TypeOK /\ RealInv
  BY InitType, RealInit
<1>3. RealInv => OverridesWereReal
  BY DEF RealInv, Real, OverridesWereReal
<1> QED
  BY <1>1, <1>2, <1>3, PTL DEF Spec

-----------------------------------------------------------------------------
(* The payload and the override store. *)

(* A cloud command that ended well is all that can end. *)
CloudIsReliable == "cloud" \notin Routes \/ Troubles \cap {"refused", "lost", "cancelled"} = {}

(* Without the cloud route no command is a cloud command. *)
RouteInv == "cloud" \in Routes \/ \A c \in Cmds : cmd[c] # "cloud"

ShowsInv == RouteInv /\ PayloadShowsOverrides

LEMMA RouteNext == TypeOK /\ RouteInv /\ [Next]_vars => RouteInv'
<1> SUFFICES ASSUME TypeOK, RouteInv, [Next]_vars PROVE RouteInv'
  OBVIOUS
<1>1. CASE UNCHANGED cmd
  BY <1>1 DEF RouteInv
<1>2. ASSUME NEW c \in Cmds, cmd' = [cmd EXCEPT ![c] = "idle"] \/ cmd' = [cmd EXCEPT ![c] = "lan"]
      PROVE  RouteInv'
  BY <1>2 DEF RouteInv, TypeOK
<1>3. ASSUME NEW c \in Cmds, NEW u \in Updates, ControlCloud(c, u) PROVE RouteInv'
  BY <1>3 DEF ControlCloud, RouteInv
<1> QED
  BY <1>1, <1>2, <1>3
  DEF Next, EnvironmentNext, FeedNext, PollNext, CommandNext, vars, command,
      DeviceChanges, GatewaySendsTopology, GatewaySendsState, CommandApplied, HandleReport,
      HandleTopology, PollReads, PollEnds, PollFails, ControlLan, LanAnswered, LanFails, CloudAnswered,
      CloudFails, CommandCancelled, CommandEnds

(* What is stored is shown; what was shown of the other keys still is. *)
LEMMA StoreShows ==
    ASSUME TypeOK, PayloadShowsOverrides, NEW u \in Updates, StoreUpdate(u),
           \A k \in Keys : u[k] = None => Optimistic(k) \subseteq Optimistic(k)'
    PROVE  PayloadShowsOverrides'
<1> SUFFICES ASSUME payload' # Absent, NEW k \in Keys, overrides'[k] # None
             PROVE  payload'[k] = overrides'[k] \/ payload'[k] \in Optimistic(k)'
  BY DEF PayloadShowsOverrides
<1>1. payload # Absent /\ payload' = Merge(payload, u) /\ overrides' = Merge(overrides, u)
  BY DEF StoreUpdate, MergedPayload
<1>2. CASE u[k] = None
  <2>1. payload'[k] = payload[k] /\ overrides'[k] = overrides[k]
    BY <1>1, <1>2 DEF Merge
  <2> QED
    BY <1>1, <1>2, <2>1 DEF PayloadShowsOverrides
<1>3. CASE u[k] # None
  BY <1>1, <1>3 DEF Merge
<1> QED
  BY <1>2, <1>3

LEMMA ReplaceShows ==
    ASSUME NEW s, ReplacePayload(s), UNCHANGED overrides
    PROVE  PayloadShowsOverrides'
BY DEF ReplacePayload, PayloadShowsOverrides, Merge

LEMMA SameShows ==
    ASSUME PayloadShowsOverrides, UNCHANGED <<payload, overrides>>,
           \A k \in Keys : Optimistic(k) \subseteq Optimistic(k)'
    PROVE  PayloadShowsOverrides'
BY DEF PayloadShowsOverrides

LEMMA OptimisticSame ==
    ASSUME UNCHANGED <<cmd, params>>
    PROVE  \A k \in Keys : Optimistic(k)' = Optimistic(k)
BY DEF Optimistic

(* The end of a command takes only its own values away. *)
LEMMA OptimisticEnds ==
    ASSUME TypeOK, NEW c \in Cmds, CommandEnds(c)
    PROVE  \A k \in Keys : /\ params[c][k] = None => Optimistic(k) \subseteq Optimistic(k)'
                           /\ cmd[c] # "cloud" => Optimistic(k) \subseteq Optimistic(k)'
                           /\ Optimistic(k)' \subseteq Optimistic(k)
BY DEF Optimistic, CommandEnds, TypeOK

(* A new command only adds values, and a cloud command adds those it asks for. *)
LEMMA OptimisticStarts ==
    ASSUME TypeOK, NEW c \in Cmds, NEW u \in Updates, CommandStarts(c, u),
           cmd' = [cmd EXCEPT ![c] = "lan"] \/ cmd' = [cmd EXCEPT ![c] = "cloud"]
    PROVE  \A k \in Keys :
              /\ Optimistic(k) \subseteq Optimistic(k)'
              /\ cmd'[c] = "cloud" /\ u[k] # None => u[k] \in Optimistic(k)'
BY DEF Optimistic, CommandStarts, TypeOK

LEMMA ShowsInit == Init => ShowsInv
BY DEF Init, ShowsInv, RouteInv, PayloadShowsOverrides, NoUpdate

LEMMA ShowsNext ==
    ASSUME CloudIsReliable, TypeOK, ShowsInv, [Next]_vars
    PROVE  ShowsInv'
<1>0. TypeOK /\ PayloadShowsOverrides /\ RouteInv
  BY DEF ShowsInv
<1>a. RouteInv'
  BY <1>0, RouteNext
<1> SUFFICES PayloadShowsOverrides'
  BY <1>a DEF ShowsInv
<1> USE DEF truth, device, command, budget, store, view
<1>1. CASE UNCHANGED <<payload, overrides, cmd, params>>
  BY <1>0, <1>1, SameShows, OptimisticSame
<1>2. CASE HandleReport
  BY <1>0, <1>2, HeadTail, StoreShows, OptimisticSame DEF HandleReport
<1>3. CASE HandleTopology
  BY <1>3, ReplaceShows DEF HandleTopology
<1>4. ASSUME NEW p \in Polls, PollEnds(p) PROVE PayloadShowsOverrides'
  BY <1>4, ReplaceShows DEF PollEnds
<1>5. ASSUME NEW c \in Cmds, NEW u \in Updates, ControlLan(c, u) PROVE PayloadShowsOverrides'
  <2>1. \A k \in Keys : Optimistic(k) \subseteq Optimistic(k)'
    BY <1>0, <1>5, OptimisticStarts DEF ControlLan
  <2> QED
    BY <1>0, <1>5, <2>1, SameShows DEF ControlLan
<1>6. ASSUME NEW c \in Cmds, NEW u \in Updates, ControlCloud(c, u) PROVE PayloadShowsOverrides'
  <2>1. cmd'[c] = "cloud"
    BY <1>0, <1>6 DEF ControlCloud, TypeOK
  <2>2. \A k \in Keys : /\ Optimistic(k) \subseteq Optimistic(k)'
                        /\ u[k] # None => u[k] \in Optimistic(k)'
    BY <1>0, <1>6, <2>1, OptimisticStarts DEF ControlCloud
  <2>3. payload # Absent /\ payload' = Merge(payload, u) /\ overrides' = overrides
    BY <1>6 DEF ControlCloud, CommandStarts, MergedPayload
  <2> QED
    BY <1>0, <2>2, <2>3 DEF PayloadShowsOverrides, Merge
<1>7. ASSUME NEW c \in Cmds, LanAnswered(c) \/ CloudAnswered(c) PROVE PayloadShowsOverrides'
  <2>1. StoreUpdate(params[c]) /\ CommandEnds(c) /\ params[c] \in Updates
    BY <1>0, <1>7 DEF LanAnswered, CloudAnswered, StoreAnswer, TypeOK
  <2> QED
    BY <1>0, <2>1, OptimisticEnds, StoreShows
<1>8. ASSUME NEW c \in Cmds, LanFails(c) \/ CloudFails(c) \/ CommandCancelled(c)
      PROVE  PayloadShowsOverrides'
  <2>1. "cloud" \notin Routes
    BY <1>8 DEF CloudIsReliable, LanFails, CloudFails, CommandCancelled, MayFail
  <2>2. cmd[c] # "cloud"
    BY <1>0, <2>1 DEF RouteInv
  <2>3. CommandEnds(c) /\ UNCHANGED <<payload, overrides>>
    BY <1>8, <2>2 DEF LanFails, CloudFails, CommandCancelled
  <2> QED
    BY <1>0, <2>2, <2>3, OptimisticEnds, SameShows
<1> QED
  BY <1>1, <1>2, <1>3, <1>4, <1>5, <1>6, <1>7, <1>8
  DEF Next, EnvironmentNext, FeedNext, PollNext, CommandNext, vars,
      DeviceChanges, GatewaySendsTopology, GatewaySendsState, CommandApplied, PollReads, PollFails

(* As long as no cloud command fails, the loaded payload agrees with the   *)
(* override store but for what commands under way ask for.                 *)
THEOREM PayloadShowsOverridesAlways ==
    ASSUME CloudIsReliable
    PROVE  Spec => []PayloadShowsOverrides
<1>1. TypeOK /\ ShowsInv /\ [Next]_vars => (TypeOK /\ ShowsInv)'
  BY NextType, ShowsNext
<1>2. Init => TypeOK /\ ShowsInv
  BY InitType, ShowsInit
<1>3. ShowsInv => PayloadShowsOverrides
  BY DEF ShowsInv
<1> QED
  BY <1>1, <1>2, <1>3, PTL DEF Spec

(* Without the cloud route Home Assistant always shows what the payload says. *)
THEOREM HaShowsPayloadAlways ==
    ASSUME "cloud" \notin Routes
    PROVE  Spec => []HaShowsPayload
<1>1. Init => TypeOK /\ RouteInv /\ HaShowsPayload
  BY InitType DEF Init, RouteInv, HaShowsPayload
<1>2. ASSUME TypeOK, RouteInv, HaShowsPayload, [Next]_vars
      PROVE  HaShowsPayload'
  <2>1. \A c \in Cmds : cmd[c] # "cloud"
    BY <1>2 DEF RouteInv
  <2> QED
    BY <1>2, <2>1
    DEF HaShowsPayload, Next, EnvironmentNext, FeedNext, PollNext, CommandNext, vars, view,
        DeviceChanges, GatewaySendsTopology, GatewaySendsState, CommandApplied, HandleReport,
        HandleTopology, PollReads, PollEnds, PollFails, ControlLan, ControlCloud, LanAnswered, LanFails,
        CloudAnswered, CloudFails, CommandCancelled
<1>3. TypeOK /\ RouteInv /\ HaShowsPayload /\ [Next]_vars => (TypeOK /\ RouteInv /\ HaShowsPayload)'
  BY <1>2, NextType, RouteNext
<1> QED
  BY <1>1, <1>3, PTL DEF Spec

-----------------------------------------------------------------------------
(* Ghost values. *)

(* At most one command at a time. *)
OneAtATime == \A c, d \in Cmds : c = d

(* What a command would restore is real, or the type's default. *)
SnapshotReal ==
    \A c \in Cmds : snapshot[c] # None =>
        \A k \in Keys : snapshot[c][k] \in had[k] \cup {Defaults[k]}

(* A command whose payload was replaced left nothing in the new one. *)
DetachedReal ==
    (\E c \in Cmds : cmd[c] = "cloud" /\ snapshot[c] = None) /\ payload # Absent =>
        \A k \in Keys : payload[k] \in had[k] \/ Guessed(k)

GhostInv == RealInv /\ SnapshotReal /\ NoGhost /\ DetachedReal

LEMMA OptimisticNext ==
    ASSUME TypeOK, NEW c \in Cmds, OneAtATime, cmd[c] = "idle"
    PROVE  \A k \in Keys : Optimistic(k) = {}
BY DEF Optimistic, OneAtATime

(* A payload that is built from real values is real. *)
LEMMA RealReplaces ==
    ASSUME RealInv, NEW s, s # Absent => Real(s), s \in States \cup {Absent},
           ReplacePayload(s), UNCHANGED <<had, overrides>>
    PROVE  NoGhost' /\ SnapshotReal' /\ DetachedReal'
<1>1. SnapshotReal'
  BY DEF ReplacePayload, SnapshotReal
<1>2. ASSUME s # Absent, NEW k \in Keys PROVE payload'[k] \in had'[k]
  <2>1. payload' = Merge(s, overrides) /\ Real(s) /\ Real(overrides)
    BY <1>2 DEF ReplacePayload, RealInv
  <2>2. s[k] \in Values
    BY <1>2 DEF States
  <2> QED
    BY <2>1, <2>2 DEF Real, Merge
<1>3. s = Absent => payload' = Absent
  BY DEF ReplacePayload
<1> QED
  BY <1>1, <1>2, <1>3 DEF NoGhost, DetachedReal

(* What a topology does not carry, and no one has told, is a guess. *)
LEMMA TopologyReplaces ==
    ASSUME TypeOK, RealInv, HandleTopology
    PROVE  NoGhost' /\ SnapshotReal' /\ DetachedReal'
<1> DEFINE u == Head(feed).params
<1>1. u \in Updates /\ Real(u)
  BY HeadTail, FeedRealTail DEF HandleTopology, RealInv, SeenReal, truth
<1>2. /\ ReplacePayload(LanPayload(u)) /\ UNCHANGED <<had, overrides>>
      /\ LanPayload(u) # Absent
  BY <1>1, LanPayloadType, UpdatesAreThere DEF HandleTopology, truth, store
<1> HIDE DEF u
<1>3. payload' = Merge(LanPayload(u), overrides)
  BY <1>2 DEF ReplacePayload
<1>4. ASSUME NEW k \in Keys PROVE payload'[k] \in had'[k] \/ Guessed(k)'
  <2>1. CASE overrides[k] # None
    BY <1>2, <1>3, <2>1 DEF Merge, RealInv, Real
  <2>2. CASE overrides[k] = None /\ u[k] # None
    BY <1>1, <1>2, <1>3, <2>2 DEF Merge, LanPayload, Real
  <2>3. CASE overrides[k] = None /\ u[k] = None
    BY <1>2, <1>3, <2>3 DEF Merge, LanPayload, Guessed
  <2> QED
    BY <2>1, <2>2, <2>3
<1>5. SnapshotReal'
  BY <1>2 DEF ReplacePayload, SnapshotReal
<1> QED
  BY <1>4, <1>5 DEF NoGhost, DetachedReal

(* A guess stays one while no one tells the property. *)
LEMMA GuessedKept ==
    ASSUME NEW k \in Keys, Guessed(k), payload'[k] = payload[k],
           overrides'[k] = overrides[k], k \in misshown => k \in misshown'
    PROVE  Guessed(k)'
BY DEF Guessed

LEMMA RealStores ==
    ASSUME TypeOK, RealInv, NoGhost, NEW u \in Updates, Real(u), StoreUpdate(u), UNCHANGED had,
           misshown' = Renewed(misshown, u),
           \A k \in Keys : u[k] = None => Optimistic(k) \subseteq Optimistic(k)'
    PROVE  NoGhost'
<1> SUFFICES ASSUME payload' # Absent, NEW k \in Keys
             PROVE  payload'[k] \in had'[k] \cup Optimistic(k)' \/ Guessed(k)'
  BY DEF NoGhost
<1>1. payload # Absent /\ payload' = Merge(payload, u) /\ overrides' = Merge(overrides, u)
  BY DEF StoreUpdate, MergedPayload
<1>2. CASE u[k] = None
  <2>1. payload'[k] = payload[k] /\ overrides'[k] = overrides[k] /\ (k \in misshown => k \in misshown')
    BY <1>1, <1>2 DEF Merge, Renewed
  <2> QED
    BY <1>1, <1>2, <2>1, GuessedKept DEF NoGhost
<1>3. CASE u[k] # None
  BY <1>1, <1>3 DEF Merge, Real
<1> QED
  BY <1>2, <1>3

LEMMA DetachedStores ==
    ASSUME DetachedReal, NEW u \in Updates, Real(u), StoreUpdate(u),
           misshown' = Renewed(misshown, u), UNCHANGED <<had, cmd, snapshot>>
    PROVE  DetachedReal'
<1> SUFFICES ASSUME \E c \in Cmds : cmd[c] = "cloud" /\ snapshot[c] = None, payload' # Absent,
                    NEW k \in Keys
             PROVE  payload'[k] \in had'[k] \/ Guessed(k)'
  BY DEF DetachedReal
<1>1. payload # Absent /\ payload' = Merge(payload, u) /\ overrides' = Merge(overrides, u)
  BY DEF StoreUpdate, MergedPayload
<1>2. CASE u[k] = None
  <2>1. payload'[k] = payload[k] /\ overrides'[k] = overrides[k] /\ (k \in misshown => k \in misshown')
    BY <1>1, <1>2 DEF Merge, Renewed
  <2> QED
    BY <1>1, <2>1, GuessedKept DEF DetachedReal
<1>3. CASE u[k] # None
  BY <1>1, <1>3 DEF Merge, Real
<1> QED
  BY <1>2, <1>3

LEMMA DetachedSame ==
    ASSUME DetachedReal, UNCHANGED <<payload, overrides, misshown, cmd, snapshot>>,
           \A k \in Keys : had[k] \subseteq had'[k]
    PROVE  DetachedReal'
BY DEF DetachedReal, Guessed

(* The only command is not a cloud command, or it has its snapshot. *)
LEMMA DetachedNone ==
    ASSUME OneAtATime, NEW c \in Cmds, cmd'[c] # "cloud" \/ snapshot'[c] # None
    PROVE  DetachedReal'
BY DEF DetachedReal, OneAtATime

LEMMA NoGhostSame ==
    ASSUME NoGhost, UNCHANGED <<payload, overrides>>, misshown \subseteq misshown',
           \A k \in Keys : had[k] \subseteq had'[k] /\ Optimistic(k) \subseteq Optimistic(k)'
    PROVE  NoGhost'
BY DEF NoGhost, Guessed

LEMMA SnapshotSame ==
    ASSUME SnapshotReal, UNCHANGED snapshot, \A k \in Keys : had[k] \subseteq had'[k]
    PROVE  SnapshotReal'
BY DEF SnapshotReal

(* The optimistic merge covers a guess, or leaves it. *)
LEMMA NoGhostStarts ==
    ASSUME TypeOK, NoGhost, NEW c \in Cmds, NEW u \in Updates, ControlCloud(c, u)
    PROVE  NoGhost'
<1>1. cmd'[c] = "cloud"
  BY DEF ControlCloud, TypeOK
<1>2. \A k \in Keys : /\ Optimistic(k) \subseteq Optimistic(k)'
                      /\ u[k] # None => u[k] \in Optimistic(k)'
  BY <1>1, OptimisticStarts DEF ControlCloud
<1>3. /\ payload # Absent /\ payload' = Merge(payload, u) /\ had' = had
      /\ overrides' = overrides /\ misshown' = Renewed(misshown, u)
  BY DEF ControlCloud, CommandStarts, MergedPayload, device, truth, store
<1> SUFFICES ASSUME NEW k \in Keys
             PROVE  payload'[k] \in had'[k] \cup Optimistic(k)' \/ Guessed(k)'
  BY DEF NoGhost
<1>4. CASE u[k] = None
  <2>1. payload'[k] = payload[k] /\ (k \in misshown => k \in misshown')
    BY <1>3, <1>4 DEF Merge, Renewed
  <2> QED
    BY <1>2, <1>3, <2>1, GuessedKept DEF NoGhost
<1>5. CASE u[k] # None
  BY <1>2, <1>3, <1>5 DEF Merge
<1> QED
  BY <1>4, <1>5

LEMMA GhostInit == Init => GhostInv
<1> SUFFICES ASSUME Init PROVE GhostInv
  OBVIOUS
<1>1. ASSUME NEW k \in Keys PROVE payload[k] \in had[k] \/ Guessed(k)
  BY DEF Init, LanPayload, Merge, NoUpdate, Guessed
<1>2. SnapshotReal /\ NoGhost /\ DetachedReal
  BY <1>1 DEF Init, SnapshotReal, NoGhost, DetachedReal
<1> QED
  BY <1>2, RealInit DEF GhostInv

LEMMA GhostNext ==
    ASSUME OneAtATime, Troubles \cap {"timeout", "cancelled"} = {}, TypeOK, GhostInv, [Next]_vars
    PROVE  GhostInv'
<1>0. TypeOK /\ RealInv /\ SeenReal /\ SnapshotReal /\ NoGhost /\ DetachedReal
  BY DEF GhostInv, RealInv
<1>a. RealInv'
  BY <1>0, RealNext
<1> SUFFICES SnapshotReal' /\ NoGhost' /\ DetachedReal'
  BY <1>a DEF GhostInv
<1> USE DEF truth, device, command, budget, store, view
<1>1. ASSUME NEW u \in Updates, Taken(u),
             UNCHANGED <<payload, overrides, misshown, cmd, params, snapshot>>
      PROVE  SnapshotReal' /\ NoGhost' /\ DetachedReal'
  <2>1. \A k \in Keys : had[k] \subseteq had'[k]
    BY <1>0, <1>1, HadGrows DEF SeenReal
  <2>2. \A k \in Keys : Optimistic(k) \subseteq Optimistic(k)'
    BY <1>1, OptimisticSame
  <2> QED
    BY <1>0, <1>1, <2>1, <2>2, NoGhostSame, SnapshotSame, DetachedSame
<1>2. ASSUME NEW k \in Keys, NEW v \in Values, DeviceChanges(k, v) PROVE SnapshotReal' /\ NoGhost' /\ DetachedReal'
  BY <1>1, <1>2, ChangeType, DeviceIsTaken DEF DeviceChanges
<1>3. ASSUME NEW c \in Cmds, CommandApplied(c) PROVE SnapshotReal' /\ NoGhost' /\ DetachedReal'
  <2>1. params[c] \in Updates
    BY <1>0 DEF TypeOK
  <2> QED
    BY <1>1, <1>3, <2>1, DeviceIsTaken DEF CommandApplied
<1>4. CASE UNCHANGED <<payload, overrides, misshown, had, cmd, params, snapshot>>
  BY <1>0, <1>4, OptimisticSame, NoGhostSame, SnapshotSame, DetachedSame
<1>5. CASE HandleReport
  <2>1. Head(feed).params \in Updates /\ Real(Head(feed).params)
    BY <1>0, <1>5, HeadTail, FeedRealTail DEF HandleReport, SeenReal
  <2>2. \A k \in Keys : Optimistic(k) \subseteq Optimistic(k)'
    BY <1>5, OptimisticSame DEF HandleReport
  <2>3. NoGhost'
    BY <1>0, <1>5, <2>1, <2>2, RealStores DEF HandleReport
  <2> QED
    BY <1>0, <1>5, <2>1, <2>3, SnapshotSame, DetachedStores DEF HandleReport
<1>6. CASE HandleTopology
  BY <1>0, <1>6, TopologyReplaces
<1>7. ASSUME NEW p \in Polls, PollEnds(p) PROVE SnapshotReal' /\ NoGhost' /\ DetachedReal'
  <2>1. polled[p] \in States \cup {Absent}
    BY <1>0, <1>7 DEF TypeOK, PollEnds
  <2>2. polled[p] # Absent => Real(polled[p])
    BY <1>0, <1>7 DEF PollEnds, SeenReal, PolledReal
  <2> QED
    BY <1>0, <1>7, <2>1, <2>2, RealReplaces DEF PollEnds
<1>8. ASSUME NEW c \in Cmds, NEW u \in Updates, ControlLan(c, u) PROVE SnapshotReal' /\ NoGhost' /\ DetachedReal'
  <2>1. \A k \in Keys : Optimistic(k) \subseteq Optimistic(k)'
    BY <1>0, <1>8, OptimisticStarts DEF ControlLan
  <2>2. cmd'[c] # "cloud"
    BY <1>0, <1>8 DEF ControlLan, TypeOK
  <2> QED
    BY <1>0, <1>8, <2>1, <2>2, NoGhostSame, SnapshotSame, DetachedNone DEF ControlLan
<1>9. ASSUME NEW c \in Cmds, NEW u \in Updates, ControlCloud(c, u) PROVE SnapshotReal' /\ NoGhost' /\ DetachedReal'
  <2>1. cmd[c] = "idle" /\ payload # Absent
        /\ snapshot' = [snapshot EXCEPT ![c] = payload] /\ had' = had
    BY <1>9 DEF ControlCloud, CommandStarts
  <2>2. \A k \in Keys : payload[k] \in had[k] \cup {Defaults[k]}
    BY <1>0, <2>1, OptimisticNext DEF NoGhost, Guessed
  <2>3. SnapshotReal'
    BY <1>0, <2>1, <2>2 DEF SnapshotReal, TypeOK
  <2>4. NoGhost'
    BY <1>0, <1>9, NoGhostStarts
  <2>5. payload \in Updates /\ snapshot'[c] = payload
    BY <1>0, <2>1 DEF TypeOK
  <2>6. snapshot'[c] # None
    BY <2>5, UpdatesAreThere
  <2> QED
    BY <2>3, <2>4, <2>6, DetachedNone
<1>10. ASSUME NEW c \in Cmds, CommandEnds(c) PROVE SnapshotReal' /\ DetachedReal'
  <2>1. SnapshotReal'
    BY <1>0, <1>10 DEF SnapshotReal, CommandEnds, TypeOK
  <2>2. cmd'[c] # "cloud"
    BY <1>0, <1>10 DEF CommandEnds, TypeOK
  <2> QED
    BY <2>1, <2>2, DetachedNone
<1>11. ASSUME NEW c \in Cmds, LanAnswered(c) \/ CloudAnswered(c) PROVE SnapshotReal' /\ NoGhost' /\ DetachedReal'
  <2>1. /\ c \in applied /\ StoreUpdate(params[c]) /\ CommandEnds(c) /\ params[c] \in Updates
        /\ misshown' = Renewed(misshown, params[c])
    BY <1>0, <1>11 DEF LanAnswered, CloudAnswered, StoreAnswer, TypeOK
  <2>2. Real(params[c]) /\ UNCHANGED had
    BY <1>0, <2>1 DEF SeenReal, AppliedReal, CommandEnds
  <2> QED
    BY <1>0, <1>10, <2>1, <2>2, OptimisticEnds, RealStores
<1>12. ASSUME NEW c \in Cmds, LanFails(c) PROVE SnapshotReal' /\ NoGhost' /\ DetachedReal'
  <2>1. CommandEnds(c) /\ cmd[c] # "cloud" /\ UNCHANGED <<payload, overrides, misshown, had>>
    BY <1>12 DEF LanFails, CommandEnds
  <2> QED
    BY <1>0, <1>10, <2>1, OptimisticEnds, NoGhostSame
<1>13. ASSUME NEW c \in Cmds, CloudFails(c) PROVE SnapshotReal' /\ NoGhost' /\ DetachedReal'
  <2>1. CommandEnds(c) /\ UNCHANGED <<actual, had, overrides>>
    BY <1>13 DEF CloudFails, CommandEnds
  <2>2. CASE snapshot[c] # None
    <3>1. payload' = snapshot[c] /\ misshown' = {k \in Keys : snapshot[c][k] # actual[k]}
      BY <1>13, <2>2 DEF CloudFails
    <3>2. ASSUME NEW k \in Keys PROVE payload'[k] \in had'[k] \/ Guessed(k)'
      <4>1. actual[k] \in had[k]
        BY <1>0 DEF SeenReal, Real, TypeOK, States
      <4>2. snapshot[c][k] \in had[k] \cup {Defaults[k]}
        BY <1>0, <2>2 DEF SnapshotReal
      <4> QED
        BY <2>1, <3>1, <4>1, <4>2 DEF Guessed
    <3> QED
      BY <1>10, <2>1, <3>2 DEF NoGhost
  <2>3. CASE snapshot[c] = None
    <3>1. UNCHANGED <<payload, misshown>>
      BY <1>13, <2>3 DEF CloudFails
    <3>2. \A k \in Keys : Guessed(k)' = Guessed(k)
      BY <2>1, <3>1 DEF Guessed
    <3> QED
      BY <1>0, <1>10, <1>13, <2>1, <2>3, <3>1, <3>2 DEF CloudFails, DetachedReal, NoGhost
  <2> QED
    BY <2>2, <2>3
<1>14. CASE UNCHANGED vars
  BY <1>4, <1>14 DEF vars
<1> QED
  BY <1>2, <1>3, <1>4, <1>5, <1>6, <1>7, <1>8, <1>9, <1>11, <1>12, <1>13, <1>14
  DEF Next, EnvironmentNext, FeedNext, PollNext, CommandNext,
      GatewaySendsTopology, GatewaySendsState, PollReads, PollFails, CommandCancelled

(* One command at a time, answered or failed but not cancelled, leaves no  *)
(* value behind that the device did not have, but for the type's default    *)
(* that a topology gives a property no one has told: the rollback is exact, *)
(* whatever was reported and however often a poll or a topology replaced    *)
(* the payload while the command waited.                                   *)
THEOREM NoGhostAlways ==
    ASSUME OneAtATime, Troubles \cap {"timeout", "cancelled"} = {}
    PROVE  Spec => []NoGhost
<1>1. TypeOK /\ GhostInv /\ [Next]_vars => (TypeOK /\ GhostInv)'
  BY NextType, GhostNext
<1>2. Init => TypeOK /\ GhostInv
  BY InitType, GhostInit
<1>3. GhostInv => NoGhost
  BY DEF GhostInv
<1> QED
  BY <1>1, <1>2, <1>3, PTL DEF Spec

(* Any number of commands, none of which rolls back. *)
ReliableInv == RealInv /\ RouteInv /\ NoGhost

LEMMA ReliableNext ==
    ASSUME CloudIsReliable, "timeout" \notin Troubles, TypeOK, ReliableInv, [Next]_vars
    PROVE  ReliableInv'
<1>0. TypeOK /\ RealInv /\ SeenReal /\ RouteInv /\ NoGhost
  BY DEF ReliableInv, RealInv
<1>a. RealInv' /\ RouteInv'
  BY <1>0, RealNext, RouteNext
<1> SUFFICES NoGhost'
  BY <1>a DEF ReliableInv
<1> USE DEF truth, device, command, budget, store, view
<1>1. ASSUME NEW u \in Updates, Taken(u),
             UNCHANGED <<payload, overrides, misshown, cmd, params>>
      PROVE  NoGhost'
  BY <1>0, <1>1, HadGrows, OptimisticSame, NoGhostSame DEF SeenReal
<1>2. ASSUME NEW k \in Keys, NEW v \in Values, DeviceChanges(k, v) PROVE NoGhost'
  BY <1>1, <1>2, ChangeType, DeviceIsTaken DEF DeviceChanges
<1>3. ASSUME NEW c \in Cmds, CommandApplied(c) PROVE NoGhost'
  <2>1. params[c] \in Updates
    BY <1>0 DEF TypeOK
  <2> QED
    BY <1>1, <1>3, <2>1, DeviceIsTaken DEF CommandApplied
<1>4. CASE UNCHANGED <<payload, overrides, misshown, had, cmd, params>>
  BY <1>0, <1>4, OptimisticSame, NoGhostSame
<1>5. CASE HandleReport
  <2>1. Head(feed).params \in Updates /\ Real(Head(feed).params)
    BY <1>0, <1>5, HeadTail, FeedRealTail DEF HandleReport, SeenReal
  <2>2. \A k \in Keys : Optimistic(k) \subseteq Optimistic(k)'
    BY <1>5, OptimisticSame DEF HandleReport
  <2> QED
    BY <1>0, <1>5, <2>1, <2>2, RealStores DEF HandleReport
<1>6. CASE HandleTopology
  BY <1>0, <1>6, TopologyReplaces
<1>7. ASSUME NEW p \in Polls, PollEnds(p) PROVE NoGhost'
  <2>1. polled[p] \in States \cup {Absent} /\ (polled[p] # Absent => Real(polled[p]))
    BY <1>0, <1>7 DEF TypeOK, PollEnds, SeenReal, PolledReal
  <2> QED
    BY <1>0, <1>7, <2>1, RealReplaces DEF PollEnds
<1>8. ASSUME NEW c \in Cmds, NEW u \in Updates, ControlLan(c, u) PROVE NoGhost'
  <2>1. \A k \in Keys : Optimistic(k) \subseteq Optimistic(k)'
    BY <1>0, <1>8, OptimisticStarts DEF ControlLan
  <2> QED
    BY <1>0, <1>8, <2>1, NoGhostSame DEF ControlLan
<1>9. ASSUME NEW c \in Cmds, NEW u \in Updates, ControlCloud(c, u) PROVE NoGhost'
  BY <1>0, <1>9, NoGhostStarts
<1>10. ASSUME NEW c \in Cmds, LanAnswered(c) \/ CloudAnswered(c) PROVE NoGhost'
  <2>1. /\ c \in applied /\ StoreUpdate(params[c]) /\ CommandEnds(c) /\ params[c] \in Updates
        /\ misshown' = Renewed(misshown, params[c])
    BY <1>0, <1>10 DEF LanAnswered, CloudAnswered, StoreAnswer, TypeOK
  <2>2. Real(params[c]) /\ UNCHANGED had
    BY <1>0, <2>1 DEF SeenReal, AppliedReal, CommandEnds
  <2> QED
    BY <1>0, <2>1, <2>2, OptimisticEnds, RealStores
<1>11. ASSUME NEW c \in Cmds, LanFails(c) \/ CloudFails(c) \/ CommandCancelled(c)
       PROVE  NoGhost'
  <2>1. "cloud" \notin Routes
    BY <1>11 DEF CloudIsReliable, LanFails, CloudFails, CommandCancelled, MayFail
  <2>2. cmd[c] # "cloud"
    BY <1>0, <2>1 DEF RouteInv
  <2>3. CommandEnds(c) /\ UNCHANGED <<payload, overrides, had>> /\ misshown \subseteq misshown'
    BY <1>11, <2>2 DEF LanFails, CloudFails, CommandCancelled, CommandEnds
  <2> QED
    BY <1>0, <2>2, <2>3, OptimisticEnds, NoGhostSame
<1>12. CASE UNCHANGED vars
  BY <1>4, <1>12 DEF vars
<1> QED
  BY <1>2, <1>3, <1>4, <1>5, <1>6, <1>7, <1>8, <1>9, <1>10, <1>11, <1>12
  DEF Next, EnvironmentNext, FeedNext, PollNext, CommandNext,
      GatewaySendsTopology, GatewaySendsState, PollReads, PollFails

(* Any number of overlapping commands leaves no value behind that the       *)
(* device did not have, but for the type's defaults of what no one has told, *)
(* as long as no cloud command fails or is cancelled and every LAN command   *)
(* is answered: the ghosts that two commands can leave need a rollback, a   *)
(* cancellation or a time-out.                                             *)
THEOREM NoGhostWhenReliable ==
    ASSUME CloudIsReliable, "timeout" \notin Troubles
    PROVE  Spec => []NoGhost
<1>1. TypeOK /\ ReliableInv /\ [Next]_vars => (TypeOK /\ ReliableInv)'
  BY NextType, ReliableNext
<1>2. Init => TypeOK /\ ReliableInv
  BY InitType, GhostInit DEF GhostInv, ReliableInv, RouteInv, Init
<1>3. ReliableInv => NoGhost
  BY DEF ReliableInv
<1> QED
  BY <1>1, <1>2, <1>3, PTL DEF Spec

-----------------------------------------------------------------------------
(* Reports and stale polls. *)

(* The reports on their way that say something about a key. *)
Pending(k) == {i \in 1 .. Len(feed) : feed[i].kind = "props" /\ feed[i].params[k] # None}

(* The device's value of a key, if it was reported, is the last one on its *)
(* way or, with none on its way, the override, unless an answer was        *)
(* overtaken; a key without an override never changed.                     *)
LastReport(k) ==
    k \notin untold =>
        /\ Pending(k) = {} =>
             \/ k \in outdated
             \/ overrides[k] = actual[k]
             \/ overrides[k] = None /\ had[k] = {actual[k]}
        /\ \A i \in Pending(k) :
             (\A j \in Pending(k) : j <= i) => feed[i].params[k] = actual[k]

(* What the cloud commands that could still roll back ask of a key. *)
Attached(k) ==
    {params[c][k] :
        c \in {d \in Cmds : cmd[d] = "cloud" /\ snapshot[d] # None /\ params[d][k] # None}}

(* Then the payload shows it too, or what such a command asks for. *)
Current(k) ==
    payload # Absent /\ Pending(k) = {} /\ k \notin untold \cup outdated \cup misshown =>
        payload[k] = actual[k] \/ payload[k] \in Attached(k)

CatchInv == \A k \in Keys : LastReport(k) /\ Current(k)

LEMMA CatchInit == Init => CatchInv
<1> SUFFICES ASSUME Init, NEW k \in Keys PROVE LastReport(k) /\ Current(k)
  BY DEF CatchInv
<1>1. Pending(k) = {}
  BY DEF Init, Pending
<1>2. overrides[k] = None /\ had[k] = {actual[k]} /\ (k \notin misshown => payload[k] = actual[k])
  BY DEF Init, NoUpdate
<1> QED
  BY <1>1, <1>2 DEF LastReport, Current

LEMMA AttachedSame ==
    ASSUME UNCHANGED <<cmd, params, snapshot>>
    PROVE  \A k \in Keys : Attached(k)' = Attached(k)
BY DEF Attached

(* The end of a command takes only what it asks for away, and nothing if it *)
(* could not roll back any more.                                           *)
LEMMA AttachedEnds ==
    ASSUME TypeOK, NEW c \in Cmds, CommandEnds(c)
    PROVE  \A k \in Keys :
              params[c][k] = None \/ cmd[c] # "cloud" \/ snapshot[c] = None
                => Attached(k) \subseteq Attached(k)'
BY DEF Attached, CommandEnds, TypeOK

LEMMA AttachedStarts ==
    ASSUME TypeOK, NEW c \in Cmds, NEW u \in Updates, CommandStarts(c, u),
           \/ cmd' = [cmd EXCEPT ![c] = "lan"] /\ UNCHANGED snapshot
           \/ cmd' = [cmd EXCEPT ![c] = "cloud"] /\ snapshot' = [snapshot EXCEPT ![c] = payload]
    PROVE  \A k \in Keys :
              /\ Attached(k) \subseteq Attached(k)'
              /\ cmd'[c] = "cloud" /\ u[k] # None => u[k] \in Attached(k)'
<1>1. cmd[c] = "idle" /\ payload # None /\ params' = [params EXCEPT ![c] = u]
  BY UpdatesAreThere DEF CommandStarts, TypeOK
<1> QED
  BY <1>1 DEF Attached, TypeOK

(* A report of another key, or a topology, is not pending. *)
LEMMA PendingAppend ==
    ASSUME TypeOK, NEW k \in Keys, NEW m \in Reports, feed' = Append(feed, m),
           m.kind = "topology" \/ m.params[k] = None
    PROVE  Pending(k)' = Pending(k) /\ \A i \in Pending(k) : feed'[i] = feed[i]
<1>1. feed \in Seq(Reports) /\ Len(feed) \in Nat
  BY DEF TypeOK
<1>2. Len(feed') = Len(feed) + 1 /\ feed'[Len(feed) + 1] = m
  BY <1>1
<1>3. \A i \in 1 .. Len(feed) : feed'[i] = feed[i]
  BY <1>1
<1> QED
  BY <1>1, <1>2, <1>3 DEF Pending

LEMMA PendingTail ==
    ASSUME TypeOK, NEW k \in Keys, feed # <<>>, feed' = Tail(feed)
    PROVE  /\ \A i \in Pending(k)' : i + 1 \in Pending(k) /\ feed'[i] = feed[i + 1]
           /\ \A i \in Pending(k) : i = 1 \/ i - 1 \in Pending(k)'
           /\ Pending(k) \subseteq Nat /\ Pending(k)' \subseteq Nat
           /\ Head(feed) = feed[1]
           /\ 1 \in Pending(k) <=> Head(feed).kind = "props" /\ Head(feed).params[k] # None
<1>1. feed \in Seq(Reports)
  BY DEF TypeOK
<1>2. Len(feed) >= 1 /\ Len(feed) \in Nat /\ Head(feed) = feed[1]
  BY <1>1
<1>3. Len(feed') = Len(feed) - 1 /\ \A i \in 1 .. Len(feed') : feed'[i] = feed[i + 1]
  BY <1>1, <1>2
<1>4. \A i \in Pending(k) : i = 1 \/ i - 1 \in Pending(k)'
  <2> SUFFICES ASSUME NEW i \in Pending(k), i # 1 PROVE i - 1 \in Pending(k)'
    OBVIOUS
  <2>1. i \in 1 .. Len(feed) /\ i - 1 \in 1 .. Len(feed') /\ (i - 1) + 1 = i
    BY <1>2, <1>3 DEF Pending
  <2>2. feed'[i - 1] = feed[i]
    BY <1>3, <2>1
  <2> QED
    BY <2>1, <2>2 DEF Pending
<1>5. \A i \in Pending(k)' : i + 1 \in Pending(k) /\ feed'[i] = feed[i + 1]
  BY <1>2, <1>3 DEF Pending
<1> QED
  BY <1>2, <1>3, <1>4, <1>5 DEF Pending

(* With all earlier reports still to come, the last of them is still the last. *)
LEMMA LastKept ==
    ASSUME TypeOK, NEW k \in Keys, LastReport(k), k \notin untold,
           feed # <<>>, feed' = Tail(feed), UNCHANGED actual
    PROVE  \A i \in Pending(k)' :
              (\A j \in Pending(k)' : j <= i) => feed'[i].params[k] = actual'[k]
<1> SUFFICES ASSUME NEW i \in Pending(k)', \A j \in Pending(k)' : j <= i
             PROVE  feed'[i].params[k] = actual'[k]
  OBVIOUS
<1>1. i \in Nat /\ i + 1 \in Pending(k) /\ feed'[i] = feed[i + 1]
  BY PendingTail
<1>2. \A j \in Pending(k) : j <= i + 1
  <2> SUFFICES ASSUME NEW j \in Pending(k) PROVE j <= i + 1
    OBVIOUS
  <2>1. j \in Nat /\ (j = 1 \/ j - 1 \in Pending(k)')
    BY PendingTail
  <2>2. CASE j = 1
    BY <1>1, <2>2
  <2>3. CASE j - 1 \in Pending(k)'
    <3>1. j - 1 <= i
      BY <2>3
    <3> QED
      BY <1>1, <2>1, <3>1
  <2> QED
    BY <2>1, <2>2, <2>3
<1> QED
  BY <1>1, <1>2 DEF LastReport

(* A change that is reported is the last report of its keys; one that is   *)
(* not makes them untold.                                                  *)
LEMMA CatchTakes ==
    ASSUME TypeOK, SeenReal, CatchInv, NEW u \in Updates, Taken(u),
           UNCHANGED <<store, view, command>>
    PROVE  CatchInv'
<1> DEFINE m == [kind |-> "props", params |-> u]
<1>1. \/ feed' = Append(feed, m) /\ untold' = {k \in untold : u[k] = None}
      \/ feed' = feed /\ untold' = untold \cup {k \in Keys : u[k] # None}
  BY DEF Taken
<1>2. m \in Reports /\ m.params = u
  BY DEF Reports
<1>3. \A k \in Keys : had'[k] = had[k] \cup {actual'[k]}
  BY DEF Taken
<1> SUFFICES ASSUME NEW k \in Keys, k \notin untold' PROVE LastReport(k)' /\ Current(k)'
  BY DEF CatchInv, LastReport, Current
<1>4. LastReport(k) /\ Current(k)
  BY DEF CatchInv
<1>5. CASE u[k] = None
  <2>1. Pending(k)' = Pending(k) /\ \A i \in Pending(k) : feed'[i] = feed[i]
    <3>1. CASE feed' = Append(feed, m)
      BY <1>2, <1>5, <3>1, PendingAppend
    <3>2. CASE feed' = feed
      BY <3>2 DEF Pending
    <3> QED
      BY <1>1, <3>1, <3>2
  <2>2. actual'[k] = actual[k] /\ actual[k] \in Values
    BY <1>5 DEF Taken, Merge, TypeOK, States
  <2>3. actual[k] \in had[k]
    BY <2>2 DEF SeenReal, Real
  <2>4. had'[k] = had[k] /\ k \notin untold
    <3>1. had'[k] = had[k] \cup {actual[k]}
      BY <1>3, <2>2
    <3> QED
      BY <1>1, <1>5, <2>3, <3>1
  <2>5. LastReport(k)'
    BY <1>4, <2>1, <2>2, <2>4 DEF LastReport, store
  <2> QED
    BY <1>4, <2>1, <2>2, <2>4, <2>5, AttachedSame DEF Current, store, view, command
<1>6. CASE u[k] # None
  <2>1. feed \in Seq(Reports) /\ Len(feed) \in Nat /\ feed' = Append(feed, m)
    BY <1>1, <1>6 DEF TypeOK
  <2>2. Len(feed') = Len(feed) + 1 /\ feed'[Len(feed) + 1] = m
    BY <2>1
  <2>3. Len(feed) + 1 \in Pending(k)'
    BY <1>6, <2>1, <2>2 DEF Pending
  <2>4. ASSUME NEW i \in Pending(k)', \A j \in Pending(k)' : j <= i PROVE i = Len(feed) + 1
    <3>1. i \in 1 .. Len(feed) + 1 /\ Len(feed) + 1 <= i
      BY <2>2, <2>3, <2>4 DEF Pending
    <3> QED
      BY <2>1, <3>1
  <2>5. actual'[k] = u[k]
    BY <1>6 DEF Taken, Merge
  <2>6. Pending(k)' # {}
    BY <2>3
  <2>7. LastReport(k)'
    BY <1>2, <2>2, <2>4, <2>5, <2>6 DEF LastReport
  <2> QED
    BY <2>6, <2>7 DEF Current
<1> QED
  BY <1>5, <1>6

(* What is still asked for may still be shown. *)
LEMMA CatchSame ==
    ASSUME CatchInv, UNCHANGED <<truth, feed, overrides, outdated, payload, misshown>>,
           \A k \in Keys : Attached(k) \subseteq Attached(k)'
    PROVE  CatchInv'
BY DEF CatchInv, LastReport, Current, Pending, truth

(* A new payload shows the overrides, and real values of the other keys:    *)
(* the last report of each key, however old what was read is.              *)
LEMMA ReplaceCurrent ==
    ASSUME NEW s \in States \cup {Absent}, s # Absent => Real(s),
           ReplacePayload(s), NEW k \in Keys, LastReport(k)', UNCHANGED <<had, overrides>>,
           actual' \in States
    PROVE  Current(k)'
<1> SUFFICES ASSUME payload' # Absent, Pending(k)' = {}, k \notin untold' \cup outdated'
             PROVE  payload'[k] = actual'[k]
  BY DEF Current
<1>1. s \in States /\ payload' = Merge(s, overrides) /\ Real(s)
  BY DEF ReplacePayload
<1>2. s[k] \in Values /\ actual'[k] # None
  BY <1>1 DEF States
<1>3. overrides[k] = actual'[k] \/ (overrides[k] = None /\ had[k] = {actual'[k]})
  BY DEF LastReport
<1> QED
  BY <1>1, <1>2, <1>3 DEF Merge, Real

LEMMA CatchReport ==
    ASSUME TypeOK, CatchInv, HandleReport
    PROVE  CatchInv'
<1> DEFINE u == Head(feed).params
<1>1. u \in Updates /\ feed # <<>> /\ feed' = Tail(feed)
  BY HeadTail DEF HandleReport
<1>2. /\ actual' = actual /\ had' = had /\ untold' = untold /\ overrides' = Merge(overrides, u)
      /\ payload' = (IF payload = Absent THEN Absent ELSE Merge(payload, u))
      /\ outdated' = {k \in outdated : u[k] = None}
      /\ misshown' = {k \in misshown : u[k] = None}
      /\ UNCHANGED <<cmd, params, snapshot>>
  BY DEF HandleReport, StoreUpdate, MergedPayload, Renewed, command, truth
<1> HIDE DEF u
<1> SUFFICES ASSUME NEW k \in Keys, k \notin untold PROVE LastReport(k)' /\ Current(k)'
  BY <1>2 DEF CatchInv, LastReport, Current
<1>3. LastReport(k) /\ Current(k) /\ Attached(k)' = Attached(k)
  BY <1>2, AttachedSame DEF CatchInv
<1>4. \A i \in Pending(k)' : (\A j \in Pending(k)' : j <= i) => feed'[i].params[k] = actual'[k]
  BY <1>1, <1>2, <1>3, LastKept
<1>5. 1 \in Pending(k) <=> u[k] # None
  BY <1>1, PendingTail DEF HandleReport, u
<1>6. CASE u[k] = None
  <2>1. Pending(k)' = {} => Pending(k) = {}
    BY <1>1, <1>5, <1>6, PendingTail
  <2>2. LastReport(k)'
    BY <1>2, <1>3, <1>4, <1>6, <2>1 DEF LastReport, Merge
  <2> QED
    BY <1>2, <1>3, <1>6, <2>1, <2>2 DEF Current, Merge
<1>7. CASE u[k] # None
  <2>1. ASSUME Pending(k)' = {} PROVE u[k] = actual[k]
    <3>1. 1 \in Pending(k) /\ \A j \in Pending(k) : j <= 1
      BY <1>1, <1>5, <1>7, <2>1, PendingTail
    <3>2. feed[1].params[k] = actual[k] /\ feed[1].params[k] = u[k]
      BY <1>1, <1>3, <3>1, PendingTail DEF LastReport, u
    <3> QED
      BY <3>2
  <2>2. overrides'[k] = u[k] /\ (payload' # Absent => payload'[k] = u[k])
    BY <1>2, <1>7 DEF Merge
  <2> QED
    BY <1>2, <1>4, <2>1, <2>2 DEF LastReport, Current
<1> QED
  BY <1>6, <1>7

(* A topology shows the overrides and what it carries, which are true where the  *)
(* last report of a key was handled; any other key shows its type's default.      *)
LEMMA CatchTopology ==
    ASSUME TypeOK, SeenReal, CatchInv, HandleTopology
    PROVE  CatchInv'
<1> DEFINE u == Head(feed).params
<1>1. /\ u \in Updates /\ Real(u) /\ feed # <<>> /\ feed' = Tail(feed)
      /\ Head(feed).kind = "topology"
      /\ ReplacePayload(LanPayload(u)) /\ UNCHANGED <<truth, overrides, outdated>>
      /\ misshown' = {k \in Keys : Merge(u, overrides)[k] = None /\ Defaults[k] # actual[k]}
  BY HeadTail, FeedRealTail DEF HandleTopology, SeenReal, store, truth
<1> HIDE DEF u
<1>2. payload' = Merge(LanPayload(u), overrides)
  BY <1>1, LanPayloadType, UpdatesAreThere DEF ReplacePayload
<1> SUFFICES ASSUME NEW k \in Keys, k \notin untold PROVE LastReport(k)' /\ Current(k)'
  BY <1>1 DEF CatchInv, LastReport, Current, truth
<1>3. LastReport(k)
  BY DEF CatchInv
<1>4. \A i \in Pending(k)' : (\A j \in Pending(k)' : j <= i) => feed'[i].params[k] = actual'[k]
  BY <1>1, <1>3, LastKept DEF truth
<1>5. 1 \notin Pending(k)
  BY <1>1, PendingTail
<1>6. Pending(k)' = {} => Pending(k) = {}
  BY <1>1, <1>5, PendingTail
<1>7. LastReport(k)'
  BY <1>1, <1>3, <1>4, <1>6 DEF LastReport, truth
<1>8. actual[k] # None
  BY DEF TypeOK, States
<1>9. ASSUME Pending(k) = {}, k \notin outdated, k \notin misshown' PROVE payload'[k] = actual[k]
  <2>1. overrides[k] = actual[k] \/ (overrides[k] = None /\ had[k] = {actual[k]})
    BY <1>3, <1>9 DEF LastReport
  <2>2. CASE overrides[k] = actual[k]
    BY <1>2, <1>8, <2>2 DEF Merge
  <2>3. CASE overrides[k] = None /\ had[k] = {actual[k]} /\ u[k] # None
    BY <1>1, <1>2, <2>3 DEF Merge, LanPayload, Real
  <2>4. CASE overrides[k] = None /\ u[k] = None
    BY <1>1, <1>2, <1>9, <2>4 DEF Merge, LanPayload
  <2> QED
    BY <2>1, <2>2, <2>3, <2>4
<1> QED
  BY <1>1, <1>6, <1>7, <1>9 DEF Current, truth

(* An answer is true, or its keys are outdated; it says nothing of the others. *)
LEMMA CatchAnswer ==
    ASSUME TypeOK, CatchInv, NEW c \in Cmds, StoreAnswer(params[c]), CommandEnds(c)
    PROVE  CatchInv'
<1> DEFINE u == params[c]
<1>1. u \in Updates
  BY DEF TypeOK
<1>2. /\ UNCHANGED <<actual, had, untold, feed>>
      /\ overrides' = Merge(overrides, u)
      /\ payload' = (IF payload = Absent THEN Absent ELSE Merge(payload, u))
      /\ outdated' = {k \in outdated : u[k] = None} \cup {k \in Keys : u[k] \notin {None, actual[k]}}
      /\ misshown' = {k \in misshown : u[k] = None}
  BY DEF StoreAnswer, StoreUpdate, MergedPayload, Renewed, CommandEnds, truth
<1>3. \A k \in Keys : u[k] = None => Attached(k) \subseteq Attached(k)'
  BY AttachedEnds
<1> HIDE DEF u
<1> SUFFICES ASSUME NEW k \in Keys PROVE LastReport(k)' /\ Current(k)'
  BY DEF CatchInv
<1>4. LastReport(k) /\ Current(k)
  BY DEF CatchInv
<1>5. Pending(k)' = Pending(k)
  BY <1>2 DEF Pending
<1>6. CASE u[k] = None
  <2>1. /\ overrides'[k] = overrides[k] /\ (k \in outdated <=> k \in outdated')
        /\ k \in misshown <=> k \in misshown'
        /\ payload' # Absent => payload # Absent /\ payload'[k] = payload[k]
    BY <1>2, <1>6 DEF Merge
  <2>2. LastReport(k)'
    BY <1>2, <1>4, <1>5, <2>1 DEF LastReport
  <2> QED
    BY <1>2, <1>3, <1>4, <1>5, <1>6, <2>1, <2>2 DEF Current
<1>7. CASE u[k] # None
  <2>1. /\ overrides'[k] = u[k] /\ (u[k] = actual[k] \/ k \in outdated')
        /\ payload' # Absent => payload'[k] = u[k]
    BY <1>2, <1>7 DEF Merge
  <2>2. LastReport(k)'
    BY <1>2, <1>4, <1>5, <2>1 DEF LastReport
  <2> QED
    BY <1>2, <2>1, <2>2 DEF Current
<1> QED
  BY <1>6, <1>7

(* A failed or cancelled cloud command leaves what is true, or is misshown. *)
LEMMA CatchLost ==
    ASSUME TypeOK, CatchInv, NEW c \in Cmds, CloudFails(c) \/ CommandCancelled(c)
    PROVE  CatchInv'
<1>1. CommandEnds(c) /\ UNCHANGED <<truth, feed, overrides, outdated>>
  BY DEF CloudFails, CommandCancelled, CommandEnds, store, truth
<1>2. CASE UNCHANGED <<payload, misshown>> /\ (cmd[c] # "cloud" \/ snapshot[c] = None)
  BY <1>1, <1>2, AttachedEnds, CatchSame
<1>3. CASE CloudFails(c) /\ snapshot[c] # None
  <2>1. payload' = snapshot[c] /\ misshown' = {k \in Keys : snapshot[c][k] # actual[k]}
    BY <1>3 DEF CloudFails
  <2> SUFFICES ASSUME NEW k \in Keys PROVE LastReport(k)' /\ Current(k)'
    BY DEF CatchInv
  <2>2. LastReport(k)'
    BY <1>1 DEF CatchInv, LastReport, Pending, truth
  <2> QED
    BY <1>1, <2>1, <2>2 DEF Current, truth
<1>4. CASE CommandCancelled(c) /\ snapshot[c] # None
  <2>1. /\ misshown' = misshown \cup {k \in Keys : params[c][k] # None /\ payload[k] # actual[k]}
        /\ payload' = payload
    BY <1>4 DEF CommandCancelled
  <2> SUFFICES ASSUME NEW k \in Keys PROVE LastReport(k)' /\ Current(k)'
    BY DEF CatchInv
  <2>2. LastReport(k)' /\ Current(k) /\ Pending(k)' = Pending(k)
    BY <1>1 DEF CatchInv, LastReport, Pending, truth
  <2>3. params[c][k] = None => Attached(k) \subseteq Attached(k)'
    BY <1>1, AttachedEnds
  <2> QED
    BY <1>1, <2>1, <2>2, <2>3 DEF Current, truth
<1> QED
  BY <1>2, <1>3, <1>4 DEF CloudFails, CommandCancelled, view

LEMMA CatchNext ==
    ASSUME TypeOK, SeenReal, CatchInv, [Next]_vars
    PROVE  CatchInv'
<1> USE DEF truth, device, command, budget
<1>1. ASSUME NEW k \in Keys, NEW v \in Values, DeviceChanges(k, v) PROVE CatchInv'
  BY <1>1, ChangeType, DeviceIsTaken, CatchTakes DEF DeviceChanges
<1>2. ASSUME NEW c \in Cmds, CommandApplied(c) PROVE CatchInv'
  <2>1. params[c] \in Updates
    BY DEF TypeOK
  <2> QED
    BY <1>2, <2>1, DeviceIsTaken, CatchTakes DEF CommandApplied
<1>3. CASE GatewaySendsTopology
  <2>1. PICK m \in Reports : m.kind = "topology" /\ feed' = Append(feed, m)
    BY <1>3, TopologySent
  <2>2. \A k \in Keys : Pending(k)' = Pending(k) /\ \A i \in Pending(k) : feed'[i] = feed[i]
    BY <2>1, PendingAppend
  <2> SUFFICES ASSUME NEW k \in Keys PROVE LastReport(k)' /\ Current(k)'
    BY DEF CatchInv
  <2>3. UNCHANGED <<truth, overrides, outdated, payload, misshown, cmd, params, snapshot>>
    BY <1>3 DEF GatewaySendsTopology, store, view
  <2>4. LastReport(k) /\ Current(k)
    BY DEF CatchInv
  <2>5. LastReport(k)'
    BY <2>2, <2>3, <2>4 DEF LastReport
  <2> QED
    BY <2>2, <2>3, <2>4, <2>5, AttachedSame DEF Current
<1>4. CASE HandleReport
  BY <1>4, CatchReport
<1>5. CASE HandleTopology
  BY <1>5, CatchTopology
<1>6. ASSUME NEW p \in Polls, PollEnds(p) PROVE CatchInv'
  <2>1. polled[p] \in States \cup {Absent} /\ (polled[p] # Absent => Real(polled[p]))
    BY <1>6 DEF TypeOK, PollEnds, SeenReal, PolledReal
  <2>2. ReplacePayload(polled[p]) /\ UNCHANGED <<truth, feed, overrides, outdated>>
    BY <1>6 DEF PollEnds, store
  <2> SUFFICES ASSUME NEW k \in Keys PROVE LastReport(k)' /\ Current(k)'
    BY DEF CatchInv
  <2>3. LastReport(k)'
    BY <2>2 DEF CatchInv, LastReport, Pending
  <2>4. actual' \in States
    BY <2>2 DEF TypeOK
  <2> QED
    BY <2>1, <2>2, <2>3, <2>4, ReplaceCurrent
<1>7. ASSUME NEW c \in Cmds, NEW u \in Updates, ControlLan(c, u) PROVE CatchInv'
  <2>1. \A k \in Keys : Attached(k) \subseteq Attached(k)'
    BY <1>7, AttachedStarts DEF ControlLan
  <2> QED
    BY <1>7, <2>1, CatchSame DEF ControlLan, store, view
<1>8. ASSUME NEW c \in Cmds, NEW u \in Updates, ControlCloud(c, u) PROVE CatchInv'
  <2>1. cmd'[c] = "cloud"
    BY <1>8 DEF ControlCloud, TypeOK
  <2>2. \A k \in Keys : /\ Attached(k) \subseteq Attached(k)'
                        /\ u[k] # None => u[k] \in Attached(k)'
    BY <1>8, <2>1, AttachedStarts DEF ControlCloud
  <2>3. /\ payload # Absent /\ payload' = Merge(payload, u)
        /\ misshown' = {k \in misshown : u[k] = None}
        /\ UNCHANGED <<truth, feed, overrides, outdated>>
    BY <1>8 DEF ControlCloud, CommandStarts, MergedPayload, Renewed, store
  <2> SUFFICES ASSUME NEW k \in Keys PROVE LastReport(k)' /\ Current(k)'
    BY DEF CatchInv
  <2>4. LastReport(k)' /\ Current(k) /\ Pending(k)' = Pending(k)
    BY <2>3 DEF CatchInv, LastReport, Pending
  <2> QED
    BY <2>2, <2>3, <2>4 DEF Current, Merge
<1>9. ASSUME NEW c \in Cmds, LanAnswered(c) \/ CloudAnswered(c) PROVE CatchInv'
  BY <1>9, CatchAnswer DEF LanAnswered, CloudAnswered
<1>10. ASSUME NEW c \in Cmds, LanFails(c) PROVE CatchInv'
  <2>1. CommandEnds(c) /\ cmd[c] # "cloud"
        /\ UNCHANGED <<truth, feed, overrides, outdated, payload, misshown>>
    BY <1>10 DEF LanFails, CommandEnds, store, view
  <2> QED
    BY <2>1, AttachedEnds, CatchSame
<1>11. ASSUME NEW c \in Cmds, CloudFails(c) \/ CommandCancelled(c) PROVE CatchInv'
  BY <1>11, CatchLost
<1>12. CASE GatewaySendsState
  BY <1>12, StateIsTaken, CatchTakes DEF GatewaySendsState
<1>13. CASE UNCHANGED <<truth, feed, store, view, command>>
  BY <1>13, AttachedSame, CatchSame DEF store, view
<1> QED
  BY <1>1, <1>2, <1>3, <1>4, <1>5, <1>6, <1>7, <1>8, <1>9, <1>10, <1>11, <1>12, <1>13
  DEF Next, EnvironmentNext, FeedNext, PollNext, CommandNext, vars, store, view, PollReads, PollFails

(* Each property of the payload is the device's as soon as what was        *)
(* reported of it was handled and no cloud command asks for it: no poll,    *)
(* however stale, no topology, no lost device and no number of overlapping, *)
(* failing, cancelled or unanswered commands, on either route, takes a      *)
(* report back.  What is excepted is named: a change that was not reported, *)
(* until a later one is; an answer that a change has overtaken, until the   *)
(* property is reported or answered again; what a failed or cancelled cloud *)
(* command leaves behind, and the type's default that a topology gives a     *)
(* property that no one has told, until the payload is replaced or the       *)
(* property told anew.                                                      *)
THEOREM CaughtUpAlways == Spec => []CaughtUp
<1> DEFINE Inv == TypeOK /\ SeenReal /\ CatchInv
<1>1. Inv /\ [Next]_vars => Inv'
  BY NextType, SeenNext, CatchNext
<1>2. Init => Inv
  BY InitType, RealInit, CatchInit DEF RealInv
<1>3. ASSUME Inv PROVE CaughtUp
  <2> SUFFICES ASSUME payload # Absent, NEW k \in Keys, k \notin untold \cup outdated \cup misshown,
                      \A i \in DOMAIN feed : feed[i].kind = "props" => feed[i].params[k] = None,
                      Optimistic(k) = {}
               PROVE  payload[k] = actual[k]
    BY DEF CaughtUp
  <2>1. feed \in Seq(Reports)
    BY <1>3 DEF TypeOK
  <2>2. Pending(k) = {}
    BY <2>1 DEF Pending
  <2>3. Attached(k) = {}
    BY DEF Optimistic, Attached
  <2>4. Current(k)
    BY <1>3 DEF CatchInv
  <2> QED
    BY <2>2, <2>3, <2>4 DEF Current
<1> HIDE DEF Inv
<1>4. Inv => CaughtUp
  BY <1>3
<1> QED
  BY <1>1, <1>2, <1>4, PTL DEF Spec
=============================================================================
