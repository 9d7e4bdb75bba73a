------------------------ MODULE EntryLifecycleProofs ------------------------
(* Theorems about EntryLifecycle, for any set of generations, options and       *)
(* troubles and any number of changes.                                        *)
EXTENDS EntryLifecycle, TLAPS

USE NoneAssumption, ModesAssumption, OptionsAssumption, TroublesAssumption, BoundAssumption

(* What runtime data is, and what becomes of it when a field is set.          *)
LEMMA RuntimeFacts ==
    /\ NewRuntime \in RuntimeData /\ NewRuntime.push = "none" /\ NewRuntime.lan = "none"
    /\ \A r \in RuntimeData :
        r # None /\ r.push \in {"none", "runtime"} /\ r.lan \in {"none", "runtime", "failure"}
BY DEF RuntimeData, NewRuntime

(* What setting a field does to it. *)
LEMMA RuntimeSet ==
    ASSUME NEW r \in RuntimeData, NEW n, NEW p \in {"none", "runtime"},
           NEW l \in {"none", "runtime", "failure"},
           n = [r EXCEPT !.push = p] \/ n = [r EXCEPT !.lan = l]
    PROVE  /\ n \in RuntimeData /\ n # None
           /\ n = [r EXCEPT !.push = p] => n.push = p /\ n.lan = r.lan
           /\ n = [r EXCEPT !.lan = l] => n.lan = l /\ n.push = r.push
BY DEF RuntimeData

(* The actions that set one. *)
LEMMA RuntimeStep ==
    ASSUME TypeOK, StepInv
    PROVE  /\ PushStarts =>
                  runtime' \in RuntimeData /\ runtime'.push = "runtime" /\ runtime'.lan = runtime.lan
           /\ LanStartFails \/ TopologyFails =>
                  runtime' \in RuntimeData /\ runtime'.lan = "failure" /\ runtime'.push = runtime.push
           /\ TopologyRequested =>
                  runtime' \in RuntimeData /\ runtime'.lan = "runtime" /\ runtime'.push = runtime.push
<1> USE DEF TypeOK, StepInv, Runtimes, Idle
<1>1. ASSUME PushStarts
      PROVE  runtime' \in RuntimeData /\ runtime'.push = "runtime" /\ runtime'.lan = runtime.lan
  <2>1. runtime \in RuntimeData /\ runtime' = [runtime EXCEPT !.push = "runtime"]
    BY <1>1 DEF PushStarts
  <2> QED
    BY ONLY <2>1, RuntimeSet
<1>2. ASSUME LanStartFails \/ TopologyFails
      PROVE  runtime' \in RuntimeData /\ runtime'.lan = "failure" /\ runtime'.push = runtime.push
  <2>1. runtime \in RuntimeData /\ runtime' = [runtime EXCEPT !.lan = "failure"]
    BY <1>2 DEF LanStartFails, TopologyFails, LanFailure
  <2> QED
    BY ONLY <2>1, RuntimeSet
<1>3. ASSUME TopologyRequested
      PROVE  runtime' \in RuntimeData /\ runtime'.lan = "runtime" /\ runtime'.push = runtime.push
  <2>1. runtime \in RuntimeData /\ runtime' = [runtime EXCEPT !.lan = "runtime"]
    BY <1>3 DEF TopologyRequested
  <2> QED
    BY ONLY <2>1, RuntimeSet
<1> QED
  BY <1>1, <1>2, <1>3

(* The program starts in a state of the invariant. *)
LEMMA InitInd == Init => IndInv
<1> SUFFICES ASSUME Init PROVE IndInv
  OBVIOUS
<1>1. TypeOK
  <2>1. mishaps \in [Gens -> SUBSET Troubles]
    BY DEF Init
  <2>2. push \in [Gens -> Feeds] /\ lan \in [Gens -> Feeds]
    BY DEF Init, Feeds
  <2>3. options \in Options /\ data \in Data /\ coordinator \in [options : Options, data : Data]
    BY DEF Init, Data
  <2>4. /\ mode \in Modes /\ state \in States /\ step \in Steps /\ again \in BOOLEAN
        /\ gen \in OptGen /\ listening \in OptGen /\ platforms \in OptGen /\ runtime \in Runtimes
    BY DEF Init, OptGen, Runtimes, States, Idle, Steps
  <2>5. notices \in Nat /\ reloads \in Nat /\ changes \in 0 .. MaxChanges
    BY DEF Init
  <2> QED
    BY <2>1, <2>2, <2>3, <2>4, <2>5 DEF TypeOK
<1>2. StepInv /\ FeedInv /\ PlatformInv
  BY DEF Init, StepInv, FeedInv, Left, PlatformInv, Up, OptGen, Idle
<1>3. CurrentInv /\ MatchInv
  BY DEF Init, CurrentInv, MatchInv
<1> QED
  BY <1>1, <1>2, <1>3 DEF IndInv

(* Every step keeps the types. *)
LEMMA TypeStep ==
    ASSUME TypeOK, StepInv, [Next]_vars
    PROVE  TypeOK'
<1> USE DEF StepInv, Up, TypeOK, OptGen, Runtimes, Feeds, States, Idle, Steps, Data, owned, feeds, entry
<1>1. CASE BeginSetup
  <2>1. /\ mode' \in Modes /\ state' \in States
    BY <1>1, RuntimeFacts DEF BeginSetup
  <2>2. again' \in BOOLEAN
    BY <1>1, RuntimeFacts DEF BeginSetup
  <2>3. step' \in Steps
    BY <1>1, RuntimeFacts DEF BeginSetup
  <2>4. /\ gen' \in OptGen /\ listening' \in OptGen /\ platforms' \in OptGen
    BY <1>1, RuntimeFacts DEF BeginSetup
  <2>5. runtime' \in Runtimes
    BY <1>1, RuntimeFacts DEF BeginSetup
  <2>6. /\ push' \in [Gens -> Feeds] /\ lan' \in [Gens -> Feeds]
    BY <1>1, RuntimeFacts DEF BeginSetup
  <2>7. /\ options' \in Options /\ data' \in Data
       /\ coordinator' \in [options : Options, data : Data]
    BY <1>1, RuntimeFacts DEF BeginSetup
  <2>8. notices' \in Nat /\ reloads' \in Nat /\ changes' \in 0 .. MaxChanges
    BY <1>1, RuntimeFacts DEF BeginSetup
  <2>9. mishaps' \in [Gens -> SUBSET Troubles]
    BY <1>1, RuntimeFacts DEF BeginSetup
  <2> QED
    BY <2>1, <2>2, <2>3, <2>4, <2>5, <2>6, <2>7, <2>8, <2>9
<1>2. CASE ConnectFails
  BY <1>2 DEF ConnectFails, SetupFails
<1>3. CASE Connected
  BY <1>3 DEF Connected
<1>4. CASE FirstRefreshFails
  BY <1>4 DEF FirstRefreshFails, SetupFails
<1>5. CASE FirstRefreshed
  BY <1>5, RuntimeFacts DEF FirstRefreshed
<1>6. CASE MaintenanceFails
  BY <1>6 DEF MaintenanceFails, SetupFails
<1>7. CASE Maintained
  BY <1>7, RuntimeFacts DEF Maintained
<1>8. CASE PushStarts
  BY <1>8, RuntimeFacts, RuntimeStep DEF PushStarts
<1>9. CASE PushStartFails
  BY <1>9, RuntimeFacts DEF PushStartFails, FirstStop
<1>10. CASE LanSkipped
  BY <1>10, RuntimeFacts DEF LanSkipped, Listen, WantsLan
<1>11. CASE LanStarts
  BY <1>11 DEF LanStarts, WantsLan
<1>12. CASE LanStartFails
  <2>1. /\ mode' \in Modes /\ state' \in States
    BY <1>12, RuntimeFacts, RuntimeStep DEF LanStartFails, LanFailure, Listen, FirstStop, WantsLan
  <2>2. again' \in BOOLEAN
    BY <1>12, RuntimeFacts, RuntimeStep DEF LanStartFails, LanFailure, Listen, FirstStop, WantsLan
  <2>3. step' \in Steps
    BY <1>12, RuntimeFacts, RuntimeStep DEF LanStartFails, LanFailure, Listen, FirstStop, WantsLan
  <2>4. /\ gen' \in OptGen /\ listening' \in OptGen /\ platforms' \in OptGen
    BY <1>12, RuntimeFacts, RuntimeStep DEF LanStartFails, LanFailure, Listen, FirstStop, WantsLan
  <2>5. runtime' \in Runtimes
    BY <1>12, RuntimeFacts, RuntimeStep DEF LanStartFails, LanFailure, Listen, FirstStop, WantsLan
  <2>6. /\ push' \in [Gens -> Feeds] /\ lan' \in [Gens -> Feeds]
    BY <1>12, RuntimeFacts, RuntimeStep DEF LanStartFails, LanFailure, Listen, FirstStop, WantsLan
  <2>7. /\ options' \in Options /\ data' \in Data
       /\ coordinator' \in [options : Options, data : Data]
    BY <1>12, RuntimeFacts, RuntimeStep DEF LanStartFails, LanFailure, Listen, FirstStop, WantsLan
  <2>8. notices' \in Nat /\ reloads' \in Nat /\ changes' \in 0 .. MaxChanges
    BY <1>12, RuntimeFacts, RuntimeStep DEF LanStartFails, LanFailure, Listen, FirstStop, WantsLan
  <2>9. mishaps' \in [Gens -> SUBSET Troubles]
    BY <1>12, RuntimeFacts, RuntimeStep DEF LanStartFails, LanFailure, Listen, FirstStop, WantsLan
  <2> QED
    BY <2>1, <2>2, <2>3, <2>4, <2>5, <2>6, <2>7, <2>8, <2>9
<1>13. CASE TopologyFails
  <2>1. /\ mode' \in Modes /\ state' \in States
    BY <1>13, RuntimeFacts, RuntimeStep DEF TopologyFails, LanFailure, Listen, FirstStop, Mishap
  <2>2. again' \in BOOLEAN
    BY <1>13, RuntimeFacts, RuntimeStep DEF TopologyFails, LanFailure, Listen, FirstStop, Mishap
  <2>3. step' \in Steps
    BY <1>13, RuntimeFacts, RuntimeStep DEF TopologyFails, LanFailure, Listen, FirstStop, Mishap
  <2>4. /\ gen' \in OptGen /\ listening' \in OptGen /\ platforms' \in OptGen
    BY <1>13, RuntimeFacts, RuntimeStep DEF TopologyFails, LanFailure, Listen, FirstStop, Mishap
  <2>5. runtime' \in Runtimes
    BY <1>13, RuntimeFacts, RuntimeStep DEF TopologyFails, LanFailure, Listen, FirstStop, Mishap
  <2>6. /\ push' \in [Gens -> Feeds] /\ lan' \in [Gens -> Feeds]
    BY <1>13, RuntimeFacts, RuntimeStep DEF TopologyFails, LanFailure, Listen, FirstStop, Mishap
  <2>7. /\ options' \in Options /\ data' \in Data
       /\ coordinator' \in [options : Options, data : Data]
    BY <1>13, RuntimeFacts, RuntimeStep DEF TopologyFails, LanFailure, Listen, FirstStop, Mishap
  <2>8. notices' \in Nat /\ reloads' \in Nat /\ changes' \in 0 .. MaxChanges
    BY <1>13, RuntimeFacts, RuntimeStep DEF TopologyFails, LanFailure, Listen, FirstStop, Mishap
  <2>9. mishaps' \in [Gens -> SUBSET Troubles]
    BY <1>13, RuntimeFacts, RuntimeStep DEF TopologyFails, LanFailure, Listen, FirstStop, Mishap
  <2> QED
    BY <2>1, <2>2, <2>3, <2>4, <2>5, <2>6, <2>7, <2>8, <2>9
<1>14. CASE TopologyRequested
  BY <1>14, RuntimeFacts, RuntimeStep DEF TopologyRequested, Listen
<1>15. CASE ForwardFails
  BY <1>15, RuntimeFacts DEF ForwardFails, FirstStop
<1>16. CASE Forwarded
  BY <1>16, RuntimeFacts DEF Forwarded
<1>17. CASE MaintenanceFailsAgain
  BY <1>17, RuntimeFacts DEF MaintenanceFailsAgain, FirstStop, Mishap
<1>18. CASE SetupDone
  BY <1>18 DEF SetupDone
<1>19. CASE PlatformsStay
  BY <1>19 DEF PlatformsStay, UnloadFails
<1>20. CASE PlatformsUnloaded
  BY <1>20, RuntimeFacts DEF PlatformsUnloaded, FirstStop
<1>21. CASE StopPush
  BY <1>21, RuntimeFacts DEF StopPush, AfterPush, FirstStop
<1>22. CASE StopPushRaises
  <2>1. /\ mode' \in Modes /\ state' \in States
    BY <1>22, RuntimeFacts DEF StopPushRaises, StopRaises, UnloadFails, Mishap
  <2>2. again' \in BOOLEAN
    BY <1>22, RuntimeFacts DEF StopPushRaises, StopRaises, UnloadFails, Mishap
  <2>3. step' \in Steps
    BY <1>22, RuntimeFacts DEF StopPushRaises, StopRaises, UnloadFails, Mishap
  <2>4. /\ gen' \in OptGen /\ listening' \in OptGen /\ platforms' \in OptGen
    BY <1>22, RuntimeFacts DEF StopPushRaises, StopRaises, UnloadFails, Mishap
  <2>5. runtime' \in Runtimes
    BY <1>22, RuntimeFacts DEF StopPushRaises, StopRaises, UnloadFails, Mishap
  <2>6. /\ push' \in [Gens -> Feeds] /\ lan' \in [Gens -> Feeds]
    BY <1>22, RuntimeFacts DEF StopPushRaises, StopRaises, UnloadFails, Mishap
  <2>7. /\ options' \in Options /\ data' \in Data
       /\ coordinator' \in [options : Options, data : Data]
    BY <1>22, RuntimeFacts DEF StopPushRaises, StopRaises, UnloadFails, Mishap
  <2>8. notices' \in Nat /\ reloads' \in Nat /\ changes' \in 0 .. MaxChanges
    BY <1>22, RuntimeFacts DEF StopPushRaises, StopRaises, UnloadFails, Mishap
  <2>9. mishaps' \in [Gens -> SUBSET Troubles]
    BY <1>22, RuntimeFacts DEF StopPushRaises, StopRaises, UnloadFails, Mishap
  <2> QED
    BY <2>1, <2>2, <2>3, <2>4, <2>5, <2>6, <2>7, <2>8, <2>9
<1>23. CASE StopLan
  BY <1>23, RuntimeFacts DEF StopLan
<1>24. CASE StopLanRaises
  <2>1. /\ mode' \in Modes /\ state' \in States
    BY <1>24, RuntimeFacts DEF StopLanRaises, StopRaises, UnloadFails, Mishap
  <2>2. again' \in BOOLEAN
    BY <1>24, RuntimeFacts DEF StopLanRaises, StopRaises, UnloadFails, Mishap
  <2>3. step' \in Steps
    BY <1>24, RuntimeFacts DEF StopLanRaises, StopRaises, UnloadFails, Mishap
  <2>4. /\ gen' \in OptGen /\ listening' \in OptGen /\ platforms' \in OptGen
    BY <1>24, RuntimeFacts DEF StopLanRaises, StopRaises, UnloadFails, Mishap
  <2>5. runtime' \in Runtimes
    BY <1>24, RuntimeFacts DEF StopLanRaises, StopRaises, UnloadFails, Mishap
  <2>6. /\ push' \in [Gens -> Feeds] /\ lan' \in [Gens -> Feeds]
    BY <1>24, RuntimeFacts DEF StopLanRaises, StopRaises, UnloadFails, Mishap
  <2>7. /\ options' \in Options /\ data' \in Data
       /\ coordinator' \in [options : Options, data : Data]
    BY <1>24, RuntimeFacts DEF StopLanRaises, StopRaises, UnloadFails, Mishap
  <2>8. notices' \in Nat /\ reloads' \in Nat /\ changes' \in 0 .. MaxChanges
    BY <1>24, RuntimeFacts DEF StopLanRaises, StopRaises, UnloadFails, Mishap
  <2>9. mishaps' \in [Gens -> SUBSET Troubles]
    BY <1>24, RuntimeFacts DEF StopLanRaises, StopRaises, UnloadFails, Mishap
  <2> QED
    BY <2>1, <2>2, <2>3, <2>4, <2>5, <2>6, <2>7, <2>8, <2>9
<1>25. CASE Unloaded
  BY <1>25 DEF Unloaded
<1>26. CASE CleanedUp
  BY <1>26 DEF CleanedUp, SetupFails
<1>27. CASE Unload
  BY <1>27 DEF Unload, BeginUnload
<1>28. CASE ChangeOptions
  BY <1>28 DEF ChangeOptions, Notify
<1>29. CASE ChangeData
  BY <1>29 DEF ChangeData, Notify
<1>30. CASE TokensSaved
  BY <1>30 DEF TokensSaved, Notify
<1>31. CASE AsyncOptionsUpdated
  BY <1>31 DEF AsyncOptionsUpdated, OptionsRequireReload
<1>32. CASE Reload
  <2>1. /\ mode' \in Modes /\ state' \in States
    BY <1>32, RuntimeFacts DEF Reload, BeginUnload
  <2>2. again' \in BOOLEAN
    BY <1>32, RuntimeFacts DEF Reload, BeginUnload
  <2>3. step' \in Steps
    BY <1>32, RuntimeFacts DEF Reload, BeginUnload
  <2>4. /\ gen' \in OptGen /\ listening' \in OptGen /\ platforms' \in OptGen
    BY <1>32, RuntimeFacts DEF Reload, BeginUnload
  <2>5. runtime' \in Runtimes
    BY <1>32, RuntimeFacts DEF Reload, BeginUnload
  <2>6. /\ push' \in [Gens -> Feeds] /\ lan' \in [Gens -> Feeds]
    BY <1>32, RuntimeFacts DEF Reload, BeginUnload
  <2>7. /\ options' \in Options /\ data' \in Data
       /\ coordinator' \in [options : Options, data : Data]
    BY <1>32, RuntimeFacts DEF Reload, BeginUnload
  <2>8. notices' \in Nat /\ reloads' \in Nat /\ changes' \in 0 .. MaxChanges
    BY <1>32, RuntimeFacts DEF Reload, BeginUnload
  <2>9. mishaps' \in [Gens -> SUBSET Troubles]
    BY <1>32, RuntimeFacts DEF Reload, BeginUnload
  <2> QED
    BY <2>1, <2>2, <2>3, <2>4, <2>5, <2>6, <2>7, <2>8, <2>9
<1>33. CASE Restart
  BY <1>33 DEF Restart
<1>34. CASE UNCHANGED vars
  BY <1>34 DEF vars
<1> QED
  BY <1>1, <1>2, <1>3, <1>4, <1>5, <1>6, <1>7, <1>8, <1>9, <1>10, <1>11, <1>12, <1>13, <1>14,
     <1>15, <1>16, <1>17, <1>18, <1>19, <1>20, <1>21, <1>22, <1>23, <1>24, <1>25, <1>26, <1>27,
     <1>28, <1>29, <1>30, <1>31, <1>32, <1>33, <1>34 DEF Next, Setup, Teardown

(* Where the call stands keeps saying what is registered. *)
LEMMA StepStep ==
    ASSUME TypeOK, StepInv, [Next]_vars
    PROVE  StepInv'
<1> USE DEF StepInv, Up, TypeOK, OptGen, Runtimes, Feeds, States, Idle, Steps, Data, owned, feeds, entry
<1>1. CASE BeginSetup
  BY <1>1 DEF BeginSetup
<1>2. CASE ConnectFails
  BY <1>2 DEF ConnectFails, SetupFails
<1>3. CASE Connected
  BY <1>3 DEF Connected
<1>4. CASE FirstRefreshFails
  BY <1>4 DEF FirstRefreshFails, SetupFails
<1>5. CASE FirstRefreshed
  BY <1>5, RuntimeFacts DEF FirstRefreshed
<1>6. CASE MaintenanceFails
  BY <1>6 DEF MaintenanceFails, SetupFails
<1>7. CASE Maintained
  BY <1>7, RuntimeFacts DEF Maintained
<1>8. CASE PushStarts
  BY <1>8, RuntimeFacts, RuntimeStep DEF PushStarts
<1>9. CASE PushStartFails
  BY <1>9, RuntimeFacts DEF PushStartFails, FirstStop
<1>10. CASE LanSkipped
  BY <1>10, RuntimeFacts DEF LanSkipped, Listen, WantsLan
<1>11. CASE LanStarts
  BY <1>11 DEF LanStarts, WantsLan
<1>12. CASE LanStartFails
  BY <1>12, RuntimeFacts, RuntimeStep DEF LanStartFails, LanFailure, Listen, FirstStop, WantsLan
<1>13. CASE TopologyFails
  BY <1>13, RuntimeFacts, RuntimeStep DEF TopologyFails, LanFailure, Listen, FirstStop, Mishap
<1>14. CASE TopologyRequested
  BY <1>14, RuntimeFacts, RuntimeStep DEF TopologyRequested, Listen
<1>15. CASE ForwardFails
  BY <1>15, RuntimeFacts DEF ForwardFails, FirstStop
<1>16. CASE Forwarded
  BY <1>16, RuntimeFacts DEF Forwarded
<1>17. CASE MaintenanceFailsAgain
  BY <1>17, RuntimeFacts DEF MaintenanceFailsAgain, FirstStop, Mishap
<1>18. CASE SetupDone
  BY <1>18 DEF SetupDone
<1>19. CASE PlatformsStay
  BY <1>19 DEF PlatformsStay, UnloadFails
<1>20. CASE PlatformsUnloaded
  BY <1>20, RuntimeFacts DEF PlatformsUnloaded, FirstStop
<1>21. CASE StopPush
  BY <1>21, RuntimeFacts DEF StopPush, AfterPush, FirstStop
<1>22. CASE StopPushRaises
  BY <1>22 DEF StopPushRaises, StopRaises, UnloadFails, Mishap
<1>23. CASE StopLan
  BY <1>23, RuntimeFacts DEF StopLan
<1>24. CASE StopLanRaises
  BY <1>24 DEF StopLanRaises, StopRaises, UnloadFails, Mishap
<1>25. CASE Unloaded
  BY <1>25 DEF Unloaded
<1>26. CASE CleanedUp
  BY <1>26 DEF CleanedUp, SetupFails
<1>27. CASE Unload
  BY <1>27 DEF Unload, BeginUnload
<1>28. CASE ChangeOptions
  BY <1>28 DEF ChangeOptions, Notify
<1>29. CASE ChangeData
  BY <1>29 DEF ChangeData, Notify
<1>30. CASE TokensSaved
  BY <1>30 DEF TokensSaved, Notify
<1>31. CASE AsyncOptionsUpdated
  BY <1>31 DEF AsyncOptionsUpdated, OptionsRequireReload
<1>32. CASE Reload
  BY <1>32 DEF Reload, BeginUnload
<1>33. CASE Restart
  BY <1>33 DEF Restart
<1>34. CASE UNCHANGED vars
  BY <1>34 DEF vars
<1> QED
  BY <1>1, <1>2, <1>3, <1>4, <1>5, <1>6, <1>7, <1>8, <1>9, <1>10, <1>11, <1>12, <1>13, <1>14,
     <1>15, <1>16, <1>17, <1>18, <1>19, <1>20, <1>21, <1>22, <1>23, <1>24, <1>25, <1>26, <1>27,
     <1>28, <1>29, <1>30, <1>31, <1>32, <1>33, <1>34 DEF Next, Setup, Teardown

(* Feeds run as the step says, and what is given up is explained. *)
LEMMA FeedStep ==
    ASSUME TypeOK, StepInv, FeedInv, [Next]_vars
    PROVE  FeedInv'
<1> USE DEF StepInv, FeedInv, PushInv, LanInv, Left, Free, Up, TypeOK, OptGen, Runtimes, Feeds, States, Idle, Steps, Data, owned, feeds, entry
<1>1. CASE BeginSetup
  BY <1>1 DEF BeginSetup
<1>2. CASE ConnectFails
  BY <1>2 DEF ConnectFails, SetupFails
<1>3. CASE Connected
  BY <1>3 DEF Connected
<1>4. CASE FirstRefreshFails
  BY <1>4 DEF FirstRefreshFails, SetupFails
<1>5. CASE FirstRefreshed
  BY <1>5, RuntimeFacts DEF FirstRefreshed
<1>6. CASE MaintenanceFails
  BY <1>6 DEF MaintenanceFails, SetupFails
<1>7. CASE Maintained
  BY <1>7, RuntimeFacts DEF Maintained
<1>8. CASE PushStarts
  <2>1. \A g \in Gens \ {gen'} : Left(g)'
    BY <1>8, RuntimeFacts, RuntimeStep DEF PushStarts
  <2>2. PushInv'
    BY <1>8, RuntimeFacts, RuntimeStep DEF PushStarts
  <2>3. LanInv'
    BY <1>8, RuntimeFacts, RuntimeStep DEF PushStarts
  <2> QED
    BY <2>1, <2>2, <2>3
<1>9. CASE PushStartFails
  <2>1. \A g \in Gens \ {gen'} : Left(g)'
    BY <1>9, RuntimeFacts DEF PushStartFails, FirstStop
  <2>2. PushInv'
    BY <1>9, RuntimeFacts DEF PushStartFails, FirstStop
  <2>3. LanInv'
    BY <1>9, RuntimeFacts DEF PushStartFails, FirstStop
  <2> QED
    BY <2>1, <2>2, <2>3
<1>10. CASE LanSkipped
  <2>1. \A g \in Gens \ {gen'} : Left(g)'
    BY <1>10, RuntimeFacts DEF LanSkipped, Listen, WantsLan
  <2>2. PushInv'
    BY <1>10, RuntimeFacts DEF LanSkipped, Listen, WantsLan
  <2>3. LanInv'
    BY <1>10, RuntimeFacts DEF LanSkipped, Listen, WantsLan
  <2> QED
    BY <2>1, <2>2, <2>3
<1>11. CASE LanStarts
  BY <1>11 DEF LanStarts, WantsLan
<1>12. CASE LanStartFails
  <2>1. \A g \in Gens \ {gen'} : Left(g)'
    BY <1>12, RuntimeFacts, RuntimeStep DEF LanStartFails, LanFailure, Listen, FirstStop, WantsLan
  <2>2. PushInv'
    BY <1>12, RuntimeFacts, RuntimeStep DEF LanStartFails, LanFailure, Listen, FirstStop, WantsLan
  <2>3. LanInv'
    BY <1>12, RuntimeFacts, RuntimeStep DEF LanStartFails, LanFailure, Listen, FirstStop, WantsLan
  <2> QED
    BY <2>1, <2>2, <2>3
<1>13. CASE TopologyFails
  <2>1. \A g \in Gens \ {gen'} : Left(g)'
    BY <1>13, RuntimeFacts, RuntimeStep DEF TopologyFails, LanFailure, Listen, FirstStop, Mishap
  <2>2. PushInv'
    BY <1>13, RuntimeFacts, RuntimeStep DEF TopologyFails, LanFailure, Listen, FirstStop, Mishap
  <2>3. LanInv'
    BY <1>13, RuntimeFacts, RuntimeStep DEF TopologyFails, LanFailure, Listen, FirstStop, Mishap
  <2> QED
    BY <2>1, <2>2, <2>3
<1>14. CASE TopologyRequested
  <2>1. \A g \in Gens \ {gen'} : Left(g)'
    BY <1>14, RuntimeFacts, RuntimeStep DEF TopologyRequested, Listen
  <2>2. PushInv'
    BY <1>14, RuntimeFacts, RuntimeStep DEF TopologyRequested, Listen
  <2>3. LanInv'
    BY <1>14, RuntimeFacts, RuntimeStep DEF TopologyRequested, Listen
  <2> QED
    BY <2>1, <2>2, <2>3
<1>15. CASE ForwardFails
  BY <1>15, RuntimeFacts DEF ForwardFails, FirstStop
<1>16. CASE Forwarded
  BY <1>16, RuntimeFacts DEF Forwarded
<1>17. CASE MaintenanceFailsAgain
  BY <1>17, RuntimeFacts DEF MaintenanceFailsAgain, FirstStop, Mishap
<1>18. CASE SetupDone
  BY <1>18 DEF SetupDone
<1>19. CASE PlatformsStay
  BY <1>19 DEF PlatformsStay, UnloadFails
<1>20. CASE PlatformsUnloaded
  BY <1>20, RuntimeFacts DEF PlatformsUnloaded, FirstStop
<1>21. CASE StopPush
  BY <1>21, RuntimeFacts DEF StopPush, AfterPush, FirstStop
<1>22. CASE StopPushRaises
  BY <1>22 DEF StopPushRaises, StopRaises, UnloadFails, Mishap
<1>23. CASE StopLan
  BY <1>23, RuntimeFacts DEF StopLan
<1>24. CASE StopLanRaises
  BY <1>24 DEF StopLanRaises, StopRaises, UnloadFails, Mishap
<1>25. CASE Unloaded
  BY <1>25 DEF Unloaded
<1>26. CASE CleanedUp
  BY <1>26 DEF CleanedUp, SetupFails
<1>27. CASE Unload
  BY <1>27 DEF Unload, BeginUnload
<1>28. CASE ChangeOptions
  BY <1>28 DEF ChangeOptions, Notify
<1>29. CASE ChangeData
  BY <1>29 DEF ChangeData, Notify
<1>30. CASE TokensSaved
  BY <1>30 DEF TokensSaved, Notify
<1>31. CASE AsyncOptionsUpdated
  BY <1>31 DEF AsyncOptionsUpdated, OptionsRequireReload
<1>32. CASE Reload
  BY <1>32 DEF Reload, BeginUnload
<1>33. CASE Restart
  BY <1>33 DEF Restart
<1>34. CASE UNCHANGED vars
  BY <1>34 DEF vars
<1> QED
  BY <1>1, <1>2, <1>3, <1>4, <1>5, <1>6, <1>7, <1>8, <1>9, <1>10, <1>11, <1>12, <1>13, <1>14,
     <1>15, <1>16, <1>17, <1>18, <1>19, <1>20, <1>21, <1>22, <1>23, <1>24, <1>25, <1>26, <1>27,
     <1>28, <1>29, <1>30, <1>31, <1>32, <1>33, <1>34 DEF Next, Setup, Teardown

(* Entities belong to the generation in use, or are explained. *)
LEMMA PlatformStep ==
    ASSUME TypeOK, StepInv, PlatformInv, [Next]_vars
    PROVE  PlatformInv'
<1> USE DEF StepInv, PlatformInv, Free, Up, TypeOK, OptGen, Runtimes, Feeds, States, Idle, Steps, Data, owned, feeds, entry
<1>1. CASE BeginSetup
  BY <1>1 DEF BeginSetup
<1>2. CASE ConnectFails
  BY <1>2 DEF ConnectFails, SetupFails
<1>3. CASE Connected
  BY <1>3 DEF Connected
<1>4. CASE FirstRefreshFails
  BY <1>4 DEF FirstRefreshFails, SetupFails
<1>5. CASE FirstRefreshed
  BY <1>5 DEF FirstRefreshed
<1>6. CASE MaintenanceFails
  BY <1>6 DEF MaintenanceFails, SetupFails
<1>7. CASE Maintained
  BY <1>7 DEF Maintained
<1>8. CASE PushStarts
  BY <1>8 DEF PushStarts
<1>9. CASE PushStartFails
  BY <1>9 DEF PushStartFails, FirstStop
<1>10. CASE LanSkipped
  BY <1>10 DEF LanSkipped, Listen, WantsLan
<1>11. CASE LanStarts
  BY <1>11 DEF LanStarts, WantsLan
<1>12. CASE LanStartFails
  BY <1>12 DEF LanStartFails, LanFailure, Listen, FirstStop, WantsLan
<1>13. CASE TopologyFails
  BY <1>13 DEF TopologyFails, LanFailure, Listen, FirstStop, Mishap
<1>14. CASE TopologyRequested
  BY <1>14 DEF TopologyRequested, Listen
<1>15. CASE ForwardFails
  BY <1>15 DEF ForwardFails, FirstStop
<1>16. CASE Forwarded
  BY <1>16 DEF Forwarded
<1>17. CASE MaintenanceFailsAgain
  BY <1>17 DEF MaintenanceFailsAgain, FirstStop, Mishap
<1>18. CASE SetupDone
  BY <1>18 DEF SetupDone
<1>19. CASE PlatformsStay
  BY <1>19 DEF PlatformsStay, UnloadFails
<1>20. CASE PlatformsUnloaded
  BY <1>20 DEF PlatformsUnloaded, FirstStop
<1>21. CASE StopPush
  BY <1>21 DEF StopPush, AfterPush, FirstStop
<1>22. CASE StopPushRaises
  BY <1>22 DEF StopPushRaises, StopRaises, UnloadFails, Mishap
<1>23. CASE StopLan
  BY <1>23 DEF StopLan
<1>24. CASE StopLanRaises
  BY <1>24 DEF StopLanRaises, StopRaises, UnloadFails, Mishap
<1>25. CASE Unloaded
  BY <1>25 DEF Unloaded
<1>26. CASE CleanedUp
  BY <1>26 DEF CleanedUp, SetupFails
<1>27. CASE Unload
  BY <1>27 DEF Unload, BeginUnload
<1>28. CASE ChangeOptions
  BY <1>28 DEF ChangeOptions, Notify
<1>29. CASE ChangeData
  BY <1>29 DEF ChangeData, Notify
<1>30. CASE TokensSaved
  BY <1>30 DEF TokensSaved, Notify
<1>31. CASE AsyncOptionsUpdated
  BY <1>31 DEF AsyncOptionsUpdated, OptionsRequireReload
<1>32. CASE Reload
  BY <1>32 DEF Reload, BeginUnload
<1>33. CASE Restart
  BY <1>33 DEF Restart
<1>34. CASE UNCHANGED vars
  BY <1>34 DEF vars
<1> QED
  BY <1>1, <1>2, <1>3, <1>4, <1>5, <1>6, <1>7, <1>8, <1>9, <1>10, <1>11, <1>12, <1>13, <1>14,
     <1>15, <1>16, <1>17, <1>18, <1>19, <1>20, <1>21, <1>22, <1>23, <1>24, <1>25, <1>26, <1>27,
     <1>28, <1>29, <1>30, <1>31, <1>32, <1>33, <1>34 DEF Next, Setup, Teardown

(* The coordinator is up to date, or is about to be. *)
LEMMA CurrentStep ==
    ASSUME TypeOK, StepInv, CurrentInv, "early_change" \notin Troubles, [Next]_vars
    PROVE  CurrentInv'
<1> USE DEF StepInv, CurrentInv, Up, TypeOK, OptGen, Runtimes, Feeds, States, Idle, Steps, Data, owned, feeds, entry
<1>1. CASE BeginSetup
  BY <1>1 DEF BeginSetup
<1>2. CASE ConnectFails
  BY <1>2 DEF ConnectFails, SetupFails
<1>3. CASE Connected
  BY <1>3 DEF Connected
<1>4. CASE FirstRefreshFails
  BY <1>4 DEF FirstRefreshFails, SetupFails
<1>5. CASE FirstRefreshed
  BY <1>5 DEF FirstRefreshed
<1>6. CASE MaintenanceFails
  BY <1>6 DEF MaintenanceFails, SetupFails
<1>7. CASE Maintained
  BY <1>7 DEF Maintained
<1>8. CASE PushStarts
  BY <1>8 DEF PushStarts
<1>9. CASE PushStartFails
  BY <1>9 DEF PushStartFails, FirstStop
<1>10. CASE LanSkipped
  BY <1>10 DEF LanSkipped, Listen, WantsLan
<1>11. CASE LanStarts
  BY <1>11 DEF LanStarts, WantsLan
<1>12. CASE LanStartFails
  BY <1>12 DEF LanStartFails, LanFailure, Listen, FirstStop, WantsLan
<1>13. CASE TopologyFails
  BY <1>13 DEF TopologyFails, LanFailure, Listen, FirstStop, Mishap
<1>14. CASE TopologyRequested
  BY <1>14 DEF TopologyRequested, Listen
<1>15. CASE ForwardFails
  BY <1>15 DEF ForwardFails, FirstStop
<1>16. CASE Forwarded
  BY <1>16 DEF Forwarded
<1>17. CASE MaintenanceFailsAgain
  BY <1>17 DEF MaintenanceFailsAgain, FirstStop, Mishap
<1>18. CASE SetupDone
  BY <1>18 DEF SetupDone
<1>19. CASE PlatformsStay
  BY <1>19 DEF PlatformsStay, UnloadFails
<1>20. CASE PlatformsUnloaded
  BY <1>20 DEF PlatformsUnloaded, FirstStop
<1>21. CASE StopPush
  BY <1>21 DEF StopPush, AfterPush, FirstStop
<1>22. CASE StopPushRaises
  BY <1>22 DEF StopPushRaises, StopRaises, UnloadFails, Mishap
<1>23. CASE StopLan
  BY <1>23 DEF StopLan
<1>24. CASE StopLanRaises
  BY <1>24 DEF StopLanRaises, StopRaises, UnloadFails, Mishap
<1>25. CASE Unloaded
  BY <1>25 DEF Unloaded
<1>26. CASE CleanedUp
  BY <1>26 DEF CleanedUp, SetupFails
<1>27. CASE Unload
  BY <1>27 DEF Unload, BeginUnload
<1>28. CASE ChangeOptions
  BY <1>28 DEF ChangeOptions, Notify
<1>29. CASE ChangeData
  BY <1>29 DEF ChangeData, Notify
<1>30. CASE TokensSaved
  BY <1>30 DEF TokensSaved, Notify
<1>31. CASE AsyncOptionsUpdated
  BY <1>31 DEF AsyncOptionsUpdated, OptionsRequireReload
<1>32. CASE Reload
  BY <1>32 DEF Reload, BeginUnload
<1>33. CASE Restart
  BY <1>33 DEF Restart
<1>34. CASE UNCHANGED vars
  BY <1>34 DEF vars
<1> QED
  BY <1>1, <1>2, <1>3, <1>4, <1>5, <1>6, <1>7, <1>8, <1>9, <1>10, <1>11, <1>12, <1>13, <1>14,
     <1>15, <1>16, <1>17, <1>18, <1>19, <1>20, <1>21, <1>22, <1>23, <1>24, <1>25, <1>26, <1>27,
     <1>28, <1>29, <1>30, <1>31, <1>32, <1>33, <1>34 DEF Next, Setup, Teardown

(* The feeds are those of the coordinator's options. *)
LEMMA MatchStep ==
    ASSUME TypeOK, StepInv, CurrentInv, MatchInv, "early_change" \notin Troubles, [Next]_vars
    PROVE  MatchInv'
<1> USE DEF StepInv, CurrentInv, MatchInv, Up, TypeOK, OptGen, Runtimes, Feeds, States, Idle, Steps, Data, owned, feeds, entry
<1>1. CASE BeginSetup
  BY <1>1 DEF BeginSetup
<1>2. CASE ConnectFails
  BY <1>2 DEF ConnectFails, SetupFails
<1>3. CASE Connected
  BY <1>3 DEF Connected
<1>4. CASE FirstRefreshFails
  BY <1>4 DEF FirstRefreshFails, SetupFails
<1>5. CASE FirstRefreshed
  BY <1>5, RuntimeFacts DEF FirstRefreshed
<1>6. CASE MaintenanceFails
  BY <1>6 DEF MaintenanceFails, SetupFails
<1>7. CASE Maintained
  BY <1>7, RuntimeFacts DEF Maintained
<1>8. CASE PushStarts
  BY <1>8, RuntimeFacts, RuntimeStep DEF PushStarts
<1>9. CASE PushStartFails
  BY <1>9, RuntimeFacts DEF PushStartFails, FirstStop
<1>10. CASE LanSkipped
  BY <1>10, RuntimeFacts DEF LanSkipped, Listen, WantsLan
<1>11. CASE LanStarts
  BY <1>11 DEF LanStarts, WantsLan
<1>12. CASE LanStartFails
  BY <1>12, RuntimeFacts, RuntimeStep DEF LanStartFails, LanFailure, Listen, FirstStop, WantsLan
<1>13. CASE TopologyFails
  BY <1>13, RuntimeFacts, RuntimeStep DEF TopologyFails, LanFailure, Listen, FirstStop, Mishap
<1>14. CASE TopologyRequested
  BY <1>14, RuntimeFacts, RuntimeStep DEF TopologyRequested, Listen
<1>15. CASE ForwardFails
  BY <1>15, RuntimeFacts DEF ForwardFails, FirstStop
<1>16. CASE Forwarded
  BY <1>16, RuntimeFacts DEF Forwarded
<1>17. CASE MaintenanceFailsAgain
  BY <1>17, RuntimeFacts DEF MaintenanceFailsAgain, FirstStop, Mishap
<1>18. CASE SetupDone
  BY <1>18 DEF SetupDone
<1>19. CASE PlatformsStay
  BY <1>19 DEF PlatformsStay, UnloadFails
<1>20. CASE PlatformsUnloaded
  BY <1>20, RuntimeFacts DEF PlatformsUnloaded, FirstStop
<1>21. CASE StopPush
  BY <1>21, RuntimeFacts DEF StopPush, AfterPush, FirstStop
<1>22. CASE StopPushRaises
  BY <1>22 DEF StopPushRaises, StopRaises, UnloadFails, Mishap
<1>23. CASE StopLan
  BY <1>23, RuntimeFacts DEF StopLan
<1>24. CASE StopLanRaises
  BY <1>24 DEF StopLanRaises, StopRaises, UnloadFails, Mishap
<1>25. CASE Unloaded
  BY <1>25 DEF Unloaded
<1>26. CASE CleanedUp
  BY <1>26 DEF CleanedUp, SetupFails
<1>27. CASE Unload
  BY <1>27 DEF Unload, BeginUnload
<1>28. CASE ChangeOptions
  BY <1>28 DEF ChangeOptions, Notify
<1>29. CASE ChangeData
  BY <1>29 DEF ChangeData, Notify
<1>30. CASE TokensSaved
  BY <1>30 DEF TokensSaved, Notify
<1>31. CASE AsyncOptionsUpdated
  BY <1>31 DEF AsyncOptionsUpdated, OptionsRequireReload
<1>32. CASE Reload
  BY <1>32 DEF Reload, BeginUnload
<1>33. CASE Restart
  BY <1>33 DEF Restart
<1>34. CASE UNCHANGED vars
  BY <1>34 DEF vars
<1> QED
  BY <1>1, <1>2, <1>3, <1>4, <1>5, <1>6, <1>7, <1>8, <1>9, <1>10, <1>11, <1>12, <1>13, <1>14,
     <1>15, <1>16, <1>17, <1>18, <1>19, <1>20, <1>21, <1>22, <1>23, <1>24, <1>25, <1>26, <1>27,
     <1>28, <1>29, <1>30, <1>31, <1>32, <1>33, <1>34 DEF Next, Setup, Teardown

(* The inductive invariant holds of every reachable state. *)
THEOREM Invariant == Spec => []IndInv
<1>1. IndInv /\ [Next]_vars => IndInv'
  BY TypeStep, StepStep, FeedStep, PlatformStep, CurrentStep, MatchStep DEF IndInv
<1> QED
  BY InitInd, <1>1, PTL DEF Spec

(* Every variable keeps its type. *)
THEOREM TypeCorrect == Spec => []TypeOK
<1>1. IndInv => TypeOK
  BY DEF IndInv
<1> QED
  BY Invariant, <1>1, PTL

(* A loaded entry has exactly the feeds and entities its runtime data names, but for *)
(* what a failed topology request or late maintenance explains.              *)
THEOREM LoadedWhole == Spec => []LoadedIsWhole
<1>1. IndInv => LoadedIsWhole
  BY DEF IndInv, LoadedIsWhole, StepInv, FeedInv, PushInv, LanInv, PlatformInv, Up, TypeOK, OptGen, Runtimes, Feeds, States, Idle, Steps, Data
<1> QED
  BY Invariant, <1>1, PTL

(* An entry that is not loaded leaves a feed or an entity behind for one of three  *)
(* reasons only.                                                             *)
THEOREM LeftoversAreExplained == Spec => []LeftoversExplained
<1>1. IndInv => LeftoversExplained
  BY DEF IndInv, LeftoversExplained, StepInv, FeedInv, Left, PlatformInv, Up, TypeOK, OptGen, Runtimes, Feeds, States, Idle, Steps, Data
<1> QED
  BY Invariant, <1>1, PTL

(* Where every stop, topology request and late maintenance succeeds, an entry that  *)
(* is not loaded has nothing running and no entities.                         *)
THEOREM CleanWithoutTroubles == Troubles = {} => (Spec => []NothingLeftBehind)
<1> SUFFICES ASSUME Troubles = {} PROVE Spec => []NothingLeftBehind
  OBVIOUS
<1>1. IndInv => NothingLeftBehind
  BY DEF IndInv, NothingLeftBehind, StepInv, FeedInv, Left, PlatformInv, TypeOK, OptGen, Runtimes, Feeds, States, Idle, Steps, Data
<1> QED
  BY Invariant, <1>1, PTL

(* Two generations never push at the same time.                                *)
THEOREM PushFeedIsAlone == Spec => []OnePushFeed
<1>1. IndInv => OnePushFeed
  BY DEF IndInv, OnePushFeed, FeedInv, Left
<1> QED
  BY Invariant, <1>1, PTL

LEMMA StopStep ==
    ASSUME IndInv, StopInv, [Next]_vars
    PROVE  StopInv'
<1>1. ASSUME NEW r \in RuntimeData, FirstStop(r) = "stop_push" PROVE r.push = "runtime"
  BY <1>1 DEF FirstStop
<1>2. ASSUME step' = AfterPush(runtime), StopPush PROVE step' # "stop_push"
  <2>1. runtime \in RuntimeData
    BY <1>2 DEF IndInv, TypeOK, StepInv, StopPush, Runtimes
  <2>2. [runtime EXCEPT !.push = "none"].push = "none"
    BY <2>1 DEF RuntimeData
  <2> QED
    BY <1>2, <2>2 DEF AfterPush, FirstStop
<1>3. CASE step' = FirstStop(runtime) /\ UNCHANGED runtime
  BY <1>3 DEF StopInv, FirstStop
<1>4. CASE LanStartFails \/ TopologyFails
  BY <1>4 DEF StopInv, LanStartFails, TopologyFails, LanFailure, Listen, FirstStop
<1>5. CASE step' # "stop_push"
  BY <1>5 DEF StopInv
<1>6. CASE UNCHANGED <<step, runtime>>
  BY <1>6 DEF StopInv
<1> QED
  BY <1>2, <1>3, <1>4, <1>5, <1>6
  DEF Next, Setup, Teardown, vars, owned, entry, BeginSetup, ConnectFails, SetupFails, Connected,
      FirstRefreshFails, FirstRefreshed, MaintenanceFails, Maintained, PushStarts, PushStartFails,
      LanSkipped, Listen, LanStarts, TopologyRequested, ForwardFails, Forwarded,
      MaintenanceFailsAgain, SetupDone, PlatformsStay, UnloadFails, PlatformsUnloaded, StopPush,
      StopPushRaises, StopRaises, StopLan, StopLanRaises, Unloaded, CleanedUp, Unload, BeginUnload,
      ChangeOptions, ChangeData, TokensSaved, Notify, AsyncOptionsUpdated, Reload, Restart

(* The entry starts a feed only when it is off, and stops only one that was started *)
(* and not stopped since, and no two push at a time: LiveFeed's terms.         *)
THEOREM FeedsAsAgreed == Spec => []FeedsUsedAsAgreed
<1>1. StopInv /\ IndInv /\ [Next]_vars => StopInv'
  BY StopStep
<1>2. Init => StopInv
  BY DEF Init, StopInv
<1>3. IndInv => OnePushFeed
  BY DEF IndInv, OnePushFeed, FeedInv, Left
<1>4. IndInv /\ StopInv => FeedsUsedAsAgreed
  BY <1>3 DEF IndInv, StopInv, FeedsUsedAsAgreed, StepInv, FeedInv, PushInv, LanInv, TypeOK, OptGen,
         Runtimes, Idle
<1> QED
  BY Invariant, <1>1, <1>2, <1>4, PTL DEF Spec

(* If nothing changes before the listeners are there, a loaded entry that has no     *)
(* notice or reload outstanding works with its present options and data.      *)
THEOREM ChangesTakeEffect == "early_change" \notin Troubles => (Spec => []OptionsInEffect)
<1> SUFFICES ASSUME "early_change" \notin Troubles PROVE Spec => []OptionsInEffect
  OBVIOUS
<1>1. IndInv => OptionsInEffect
  BY DEF IndInv, OptionsInEffect, CurrentInv, MatchInv
<1> QED
  BY Invariant, <1>1, PTL
=============================================================================
