------------------------- MODULE DriverLifecycle_proofs ----------------------
(***************************************************************************)
(* Proofs about DriverLifecycle, for any number of classify calls, layers, *)
(* engine restarts and failures: what a loaded driver has, what is left of *)
(* one that is gone, that the lists outlive the calls that use them, and   *)
(* that a failed callout_init never fails the load.                        *)
(***************************************************************************)
EXTENDS DriverLifecycle, TLAPS

(* The places of thread "sys", by what has been set up or freed there. *)
CalloutPlaces == {"openEngine", "addProvider", "register", "addFilters",
                  "initFreeLists", "initFreeEngine"}
Freed(l) ==
  IF l = "queries" THEN {"joinThread", "unsubscribe", "gone", "failed"}
  ELSE {"freeEngine", "freeQueries", "joinThread", "unsubscribe", "gone",
        "failed"} \union (IF l \in {"established", "datalink"}
                           THEN {"freeLists"} ELSE {})
Early == {"device", "link", "devctrl", "packets", "engine", "subscribe"}
Past  == Unloading \/ pc["sys"] \in {"gone", "failed"}

(* The device, the I/O thread and the driver's own lists come and go with
   the steps of DriverEntry and driver_free. *)
SysStage ==
  /\ pc["sys"] # "idle"
  /\ \/ pc["sys"] \notin {"device", "link"} /\ ~Past
     \/ pc["sys"] = "freeDevice"
     => device = "linked"
  /\ pc["sys"] = "device" => device = "none"
  /\ pc["sys"] = "link" => device = "unlinked"
  /\ Past /\ pc["sys"] # "freeDevice" =>
       /\ device # "linked"
       /\ device = "unlinked" => "linkFailed" \in trouble
  /\ pc["sys"] \in {"device", "link", "devctrl"} => thread = "none"
  /\ pc["sys"] \notin {"device", "link", "devctrl"} /\ ~shutdown /\ pc["sys"] # "failed"
       => thread = "running"
  /\ ~Past \/ pc["sys"] \in {"freeDevice", "setShutdown"} => ~shutdown
  /\ pc["sys"] \in {"gone", "failed", "unsubscribe"} => thread # "running"
  /\ pc["sys"] \in {"device", "link", "devctrl"} => lists["queries"] = "none"
  /\ pc["sys"] \notin {"device", "link", "devctrl"} \union Freed("queries")
       => lists["queries"] = "live"
  /\ \A l \in {"established", "datalink"} :
       /\ pc["sys"] \in {"device", "link", "devctrl", "packets"} => lists[l] = "none"
       /\ pc["sys"] \notin {"device", "link", "devctrl", "packets"} \union Freed(l)
            => lists[l] = "live"

(* Who runs callout_init: "sys" in a load that found the engine running,
   "bfe" in one that subscribed, and after an unload began only if late. *)
WhoInits ==
  /\ pc["bfe"] \in {"idle", "initLists", "initDone"} \union CalloutPlaces
  /\ subscribed => \/ pc["sys"] = "loaded"
                   \/ Unloading /\ NT_SUCCESS(status["sys"])
  /\ pc["bfe"] # "idle" => subscribed
  /\ pc["bfe"] \in CalloutPlaces \union {"initDone"} => inits > 0
  /\ Unloading /\ pc["bfe"] # "idle" => "late" \in trouble
  /\ pc["sys"] \in Early \union {"initLists"} => inits = 0
  /\ pc["sys"] \in CalloutPlaces \union {"initDone"} => inits = 1
  /\ pc["sys"] = "loaded" => subscribed \/ inits > 0
  /\ pc["sys"] = "failed" => inits = 0
  /\ Unloading /\ ~NT_SUCCESS(status["sys"]) => inits = 0
  /\ \A t \in Threads : pc[t] \in {"initFreeLists", "initFreeEngine"}
                          => "initFailed" \in trouble

(* There is at most one session, the handle's. *)
SessionStage ==
  /\ sessions \subseteq {handle}
  /\ ~engine => sessions = {}
  /\ \A t \in Threads : pc[t] \in {"initLists", "openEngine"} => sessions = {}
  /\ /\ pc["sys"] \in {"freeQueries", "joinThread", "unsubscribe", "gone",
                       "failed"}
     /\ "late" \notin trouble
     => sessions = {}

(* The callouts' own lists, while callout_init has run at most once. *)
CalloutLists ==
  LET own == {"flowInfo", "macInfo"}
      kept == pc["sys"] \notin Freed("flowInfo")
  IN  /\ inits = 0 /\ kept => \A l \in own : lists[l] = "none"
      /\ inits = 0 /\ kept => misused = {}
      /\ inits = 1 /\ trouble = {} => misused = {}
      /\ inits = 1 /\ trouble = {} /\ kept => \A l \in own : lists[l] = "live"
      /\ inits = 1 /\ kept =>
           \A t \in Threads :
             pc[t] \in CalloutPlaces \ {"initFreeEngine"} =>
               \A l \in own : lists[l] = "live"
      /\ inits = 1 /\ kept /\ filters # {} =>
           /\ \A l \in own : lists[l] = "live"
           /\ \A t \in Threads : pc[t] \notin CalloutPlaces

(* A classify call needs a filter, and the flag, which needs a client. *)
CallStage ==
  /\ monitor # 0 => client
  /\ client => pc["sys"] \notin {"device", "link"}
  /\ client /\ Past => ~NT_SUCCESS(status["sys"]) \/ pc["sys"] = "failed"
  /\ pc["sys"] \in {"unsubscribe", "gone"} => NT_SUCCESS(status["sys"])
  /\ inits = 0 => \A c \in Calls : calls[c] = "idle"
  /\ Past => \A c \in Calls : calls[c] # "idle" => c \in overtaken
  /\ \A c \in Calls \ overtaken :
       calls[c] # "idle" =>
         /\ pc["sys"] \in {"initDone", "loaded"}
         /\ inits = 1 =>
              /\ lists["flowInfo"] = "live"
              /\ \A t \in Threads : pc[t] \notin CalloutPlaces

(* The inductive invariant. *)
IInv == TypeOK /\ SysStage /\ WhoInits /\ SessionStage /\ CalloutLists
        /\ CallStage

-----------------------------------------------------------------------------

LEMMA InitInv == Init => IInv
<1> SUFFICES ASSUME Init PROVE IInv
  OBVIOUS
<1> USE DEF Init
<1>1. TypeOK
  <2>1. 0 \in 0..MaxStarts /\ 0 \in 0..MaxFailures /\ 0 \in 0..inits
    BY BoundsAssumption
  <2>2. /\ sessions \subseteq 1..inits
        /\ callouts \subseteq (1..inits) \X Layers
        /\ filters \subseteq sessions \X Layers
    OBVIOUS
  <2>3. /\ pc \in [Threads -> Places] /\ status \in [Threads -> Int]
        /\ lists \in [Lists -> {"none", "live", "deleted"}]
        /\ calls \in [Calls -> {"idle", "describe", "push", "free"}]
    BY DEF Threads, Places, STATUS_SUCCESS
  <2>4. QED
    BY <2>1, <2>2, <2>3 DEF TypeOK
<1>2. SysStage /\ WhoInits
  BY DEF SysStage, WhoInits, Threads, Lists, Freed, Past, Unloading, Early,
     CalloutPlaces
<1>3. SessionStage /\ CalloutLists /\ CallStage
  BY DEF SessionStage, CalloutLists, CallStage, Threads, Lists, Past,
     Unloading, CalloutPlaces
<1>4. QED
  BY <1>1, <1>2, <1>3 DEF IInv

(* STATUS_UNSUCCESSFUL is an error. *)
LEMMA StatusFacts ==
  STATUS_UNSUCCESSFUL \in Int /\ ~(STATUS_UNSUCCESSFUL >= 0)
BY SMT DEF STATUS_UNSUCCESSFUL

(* The objects of a session that is closed are gone. *)
LEMMA ClosedSessionType ==
  ASSUME TypeOK, CloseSession
  PROVE  /\ handle' \in 0..inits /\ sessions' \subseteq 1..inits
         /\ filters' \subseteq sessions' \X Layers
<1>1. handle' \in 0..inits
  BY DEF TypeOK, CloseSession
<1>2. sessions' \subseteq 1..inits
  BY DEF TypeOK, CloseSession
<1>3. ASSUME NEW f \in filters' PROVE f \in sessions' \X Layers
  <2>1. f \in filters /\ f[1] # handle
    BY <1>3 DEF CloseSession
  <2>2. f \in sessions \X Layers
    BY <2>1 DEF TypeOK
  <2>3. f[1] \in sessions /\ f[2] \in Layers /\ f = <<f[1], f[2]>>
    BY <2>2
  <2>4. f[1] \in sessions'
    BY <2>1, <2>3 DEF CloseSession
  <2>5. QED
    BY <2>3, <2>4
<1>4. QED
  BY <1>1, <1>2, <1>3

(* Each step keeps the types ... *)
LEMMA TypeOKInv ==
  ASSUME IInv, [Next]_vars
  PROVE  TypeOK'
<1> USE BoundsAssumption, StatusFacts
    DEF IInv, TypeOK, Threads, Goto, GoOn, Fail, sysVars, driverVars,
        listVars, wfpVars, engineVars, otherVars, CloseSession, SetUp,
        Delete, InitFails, InSession, Lists, Places, STATUS_SUCCESS,
        AsBOOLEAN, NextStage
<1>1. CASE CreateDevice \/ CreateLink
  <2>1. CASE CreateDevice
    BY <2>1 DEF CreateDevice
  <2>2. CASE CreateLink
    BY <2>2 DEF CreateLink
  <2>3. QED
    BY <1>1, <2>1, <2>2
<1>2. CASE CreateDeviceFails \/ CreateLinkFails
  <2>1. CASE CreateDeviceFails
    BY <2>1 DEF CreateDeviceFails
  <2>2. CASE CreateLinkFails
    BY <2>2 DEF CreateLinkFails
  <2>3. QED
    BY <1>2, <2>1, <2>2
<1>3. CASE InitDevctrl
  BY <1>3 DEF InitDevctrl
<1>4. CASE InitDevctrlFails
  <2>1. lists' \in [Lists -> {"none", "live", "deleted"}]
    BY <1>4 DEF InitDevctrlFails
  <2>2. pc' \in [Threads -> Places] /\ status' \in [Threads -> Int]
    BY <1>4 DEF InitDevctrlFails
  <2>3. failures' \in 0..MaxFailures
    BY <1>4 DEF InitDevctrlFails
  <2>4. UNCHANGED <<monitor, shutdown, thread, subscribed, misused, inits,
                    wfpVars, engineVars, otherVars>>
    BY <1>4 DEF InitDevctrlFails
  <2>5. device' \in {"none", "unlinked", "linked"}
    BY <1>4 DEF InitDevctrlFails
  <2>6. QED
    BY <2>1, <2>2, <2>3, <2>4, <2>5
<1>5. CASE InitPackets
  BY <1>5 DEF InitPackets
<1>6. CASE EngineRuns
  BY <1>6 DEF EngineRuns
<1>7. CASE EngineAwaited
  BY <1>7 DEF EngineAwaited
<1>8. CASE Subscribe
  BY <1>8 DEF Subscribe
<1>9. CASE SubscribeFails
  BY <1>9 DEF SubscribeFails
<1>10. CASE BeginUnload
  BY <1>10 DEF BeginUnload
<1>11. CASE FreeDevice
  BY <1>11 DEF FreeDevice
<1>12. CASE SetShutdown
  BY <1>12 DEF SetShutdown
<1>13. CASE MonitorOff
  BY <1>13 DEF MonitorOff
<1>14. CASE FreePackets
  BY <1>14 DEF FreePackets
<1>15. CASE FreeCalloutLists("sys", "freeLists", "freeEngine")
  BY <1>15 DEF FreeCalloutLists
<1>16. CASE FreeEngine("sys", "freeEngine", "freeQueries")
  <2>1. /\ handle' \in 0..inits /\ sessions' \subseteq 1..inits
        /\ filters' \subseteq sessions' \X Layers
    BY <1>16, ClosedSessionType DEF FreeEngine
  <2>2. pc' \in [Threads -> Places]
    BY <1>16 DEF FreeEngine
  <2>3. UNCHANGED <<status, driverVars, listVars, inits, callouts, engineVars,
                    otherVars, failures>>
    BY <1>16 DEF FreeEngine
  <2>4. QED
    BY <2>1, <2>2, <2>3
<1>17. CASE FreeQueries
  BY <1>17 DEF FreeQueries
<1>18. CASE JoinThread
  BY <1>18 DEF JoinThread
<1>19. CASE Unsubscribe
  BY <1>19 DEF Unsubscribe
<1>20. ASSUME NEW t \in Threads, InitCalloutLists(t) PROVE TypeOK'
  <2>1. inits' = inits + 1 /\ inits' \in Nat
    BY <1>20 DEF InitCalloutLists
  <2>2. 0..inits \subseteq 0..inits' /\ 1..inits \subseteq 1..inits'
    BY <2>1
  <2>3. /\ handle' \in 0..inits' /\ sessions' \subseteq 1..inits'
        /\ callouts' \subseteq (1..inits') \X Layers
        /\ filters' \subseteq sessions' \X Layers
    BY <1>20, <2>2 DEF InitCalloutLists
  <2>4. /\ lists' \in [Lists -> {"none", "live", "deleted"}]
        /\ misused' \subseteq Lists
    BY <1>20 DEF InitCalloutLists
  <2>5. pc' \in [Threads -> Places]
    BY <1>20 DEF InitCalloutLists
  <2>6. UNCHANGED <<status, driverVars, engineVars, otherVars, failures>>
    BY <1>20 DEF InitCalloutLists
  <2>7. QED
    BY <2>1, <2>3, <2>4, <2>5, <2>6
<1>21. ASSUME NEW t \in Threads, OpenEngine(t) PROVE TypeOK'
  <2>1. inits \in 1..inits /\ inits \in 0..inits
    BY <1>21 DEF OpenEngine, WhoInits, CalloutPlaces
  <2>2. sessions' \subseteq 1..inits /\ handle' \in 0..inits
    BY <1>21, <2>1 DEF OpenEngine
  <2>3. filters' \subseteq sessions' \X Layers
    BY <1>21 DEF OpenEngine
  <2>4. pc' \in [Threads -> Places]
    BY <1>21 DEF OpenEngine
  <2>5. UNCHANGED <<status, driverVars, listVars, inits, callouts, engineVars,
                    otherVars, failures>>
    BY <1>21 DEF OpenEngine
  <2>6. QED
    BY <2>2, <2>3, <2>4, <2>5
<1>22. ASSUME NEW t \in Threads, OpenEngineFails(t) PROVE TypeOK'
  BY <1>22 DEF OpenEngineFails
<1>23. ASSUME NEW t \in Threads, AddProvider(t) PROVE TypeOK'
  BY <1>23 DEF AddProvider
<1>24. ASSUME NEW t \in Threads, AddProviderFails(t) PROVE TypeOK'
  BY <1>24 DEF AddProviderFails
<1>25. ASSUME NEW t \in Threads, RegisterCallouts(t) PROVE TypeOK'
  BY <1>25 DEF RegisterCallouts
<1>26. ASSUME NEW t \in Threads, RegisterCalloutsFails(t) PROVE TypeOK'
  <2>1. /\ handle' \in 0..inits /\ sessions' \subseteq 1..inits
        /\ filters' \subseteq sessions' \X Layers
    BY <1>26, ClosedSessionType DEF RegisterCalloutsFails
  <2>2. inits \in 1..inits
    BY <1>26 DEF RegisterCalloutsFails, WhoInits, CalloutPlaces
  <2>3. callouts' \subseteq (1..inits) \X Layers
    BY <1>26, <2>2 DEF RegisterCalloutsFails
  <2>4. failures' \in 0..MaxFailures
    BY <1>26 DEF RegisterCalloutsFails
  <2>5. /\ pc' \in [Threads -> Places] /\ status' \in [Threads -> Int]
        /\ trouble' \subseteq {"late", "initFailed", "linkFailed"}
    BY <1>26 DEF RegisterCalloutsFails
  <2>6. UNCHANGED <<driverVars, listVars, inits, engine, starts, otherVars>>
    BY <1>26 DEF RegisterCalloutsFails
  <2>7. QED
    BY <2>1, <2>3, <2>4, <2>5, <2>6
<1>27. ASSUME NEW t \in Threads, AddFilters(t) PROVE TypeOK'
  BY <1>27 DEF AddFilters
<1>28. ASSUME NEW t \in Threads, AddFiltersFails(t) PROVE TypeOK'
  BY <1>28 DEF AddFiltersFails
<1>29. ASSUME NEW t \in Threads,
              FreeCalloutLists(t, "initFreeLists", "initFreeEngine")
       PROVE  TypeOK'
  BY <1>29 DEF FreeCalloutLists
<1>30. ASSUME NEW t \in Threads, FreeEngine(t, "initFreeEngine", "initDone")
       PROVE  TypeOK'
  <2>1. /\ handle' \in 0..inits /\ sessions' \subseteq 1..inits
        /\ filters' \subseteq sessions' \X Layers
    BY <1>30, ClosedSessionType DEF FreeEngine
  <2>2. pc' \in [Threads -> Places]
    BY <1>30 DEF FreeEngine
  <2>3. UNCHANGED <<status, driverVars, listVars, inits, callouts, engineVars,
                    otherVars, failures>>
    BY <1>30 DEF FreeEngine
  <2>4. QED
    BY <2>1, <2>2, <2>3
<1>31. ASSUME NEW t \in Threads, InitDone(t) PROVE TypeOK'
  BY <1>31 DEF InitDone
<1>32. CASE EndThread
  BY <1>32 DEF EndThread
<1>33. CASE StartEngine
  <2>1. starts' \in 0..MaxStarts /\ engine' \in BOOLEAN
    BY <1>33 DEF StartEngine
  <2>2. pc' \in [Threads -> Places]
    <3>1. pc' \in {pc, [pc EXCEPT !["bfe"] = "initLists"]}
      BY <1>33 DEF StartEngine
    <3>2. QED
      BY <3>1
  <2>3. UNCHANGED <<status, driverVars, listVars, inits, wfpVars, otherVars,
                    failures>>
    BY <1>33 DEF StartEngine
  <2>4. trouble' \subseteq {"late", "initFailed", "linkFailed"}
    BY <1>33 DEF StartEngine
  <2>5. QED
    BY <2>1, <2>2, <2>3, <2>4
<1>34. CASE StopEngine
  BY <1>34 DEF StopEngine
<1>35. CASE Open
  BY <1>35 DEF Open
<1>36. CASE \E flag \in {0, 1} : SetMonitor(flag)
  BY <1>36 DEF SetMonitor
<1>37. CASE Close
  BY <1>37 DEF Close
<1>38. CASE \E c \in Calls : Classify(c) \/ ClassifyStep(c)
  <2>1. PICK c \in Calls : Classify(c) \/ ClassifyStep(c)
    BY <1>38
  <2>2. CASE Classify(c)
    BY <2>2 DEF Classify
  <2>3. CASE ClassifyStep(c)
    <3>1. calls[c] \in {"describe", "push", "free"}
      BY <2>3 DEF ClassifyStep
    <3>2. PICK stage \in NextStage[calls[c]] :
            calls' = [calls EXCEPT ![c] = stage]
      BY <2>3 DEF ClassifyStep
    <3>3. stage \in {"idle", "describe", "push", "free"}
      BY <3>1
    <3>4. overtaken' \subseteq Calls
      BY <2>3 DEF ClassifyStep
    <3>5. UNCHANGED <<pc, status, device, monitor, shutdown, lists, thread,
                      inits, handle, subscribed, engine, starts, sessions,
                      callouts, filters, client, failures, trouble, misused>>
      BY <2>3 DEF ClassifyStep
    <3>6. calls' \in [Calls -> {"idle", "describe", "push", "free"}]
      BY <3>2, <3>3
    <3>7. QED
      BY <3>4, <3>5, <3>6
  <2>4. QED
    BY <2>1, <2>2, <2>3
<1>39. CASE UNCHANGED vars
  BY <1>39 DEF vars
<1>40. QED
  BY <1>1, <1>2, <1>3, <1>4, <1>5, <1>6, <1>7, <1>8, <1>9, <1>10, <1>11,
     <1>12, <1>13, <1>14, <1>15, <1>16, <1>17, <1>18, <1>19, <1>20, <1>21,
     <1>22, <1>23, <1>24, <1>25, <1>26, <1>27, <1>28, <1>29, <1>30, <1>31,
     <1>32, <1>33, <1>34, <1>35, <1>36, <1>37, <1>38, <1>39
     DEF Next, Sys, CalloutInit

(* ... what DriverEntry has set up and driver_free has taken down ... *)
LEMMA SysStageInv ==
  ASSUME IInv, [Next]_vars
  PROVE  SysStage'
<1> USE BoundsAssumption, StatusFacts
    DEF IInv, TypeOK, Threads, Goto, GoOn, Fail, sysVars, driverVars,
        listVars, wfpVars, engineVars, otherVars, CloseSession, SetUp,
        Delete, InitFails, InSession, Lists, SysStage, Freed, Past,
        Unloading, NT_SUCCESS, AsBOOLEAN
<1>1. CASE CreateDevice \/ CreateLink
  BY <1>1 DEF CreateDevice, CreateLink
<1>2. CASE CreateDeviceFails \/ CreateLinkFails
  BY <1>2 DEF CreateDeviceFails, CreateLinkFails
<1>3. CASE InitDevctrl
  BY <1>3 DEF InitDevctrl
<1>4. CASE InitDevctrlFails
  BY <1>4 DEF InitDevctrlFails
<1>5. CASE InitPackets
  BY <1>5 DEF InitPackets
<1>6. CASE EngineRuns
  BY <1>6 DEF EngineRuns
<1>7. CASE EngineAwaited
  BY <1>7 DEF EngineAwaited
<1>8. CASE Subscribe
  BY <1>8 DEF Subscribe
<1>9. CASE SubscribeFails
  BY <1>9 DEF SubscribeFails
<1>10. CASE BeginUnload
  BY <1>10 DEF BeginUnload
<1>11. CASE FreeDevice
  BY <1>11 DEF FreeDevice
<1>12. CASE SetShutdown
  BY <1>12 DEF SetShutdown
<1>13. CASE MonitorOff
  BY <1>13 DEF MonitorOff
<1>14. CASE FreePackets
  BY <1>14 DEF FreePackets
<1>15. CASE FreeCalloutLists("sys", "freeLists", "freeEngine")
  BY <1>15 DEF FreeCalloutLists
<1>16. CASE FreeEngine("sys", "freeEngine", "freeQueries")
  BY <1>16 DEF FreeEngine
<1>17. CASE FreeQueries
  BY <1>17 DEF FreeQueries
<1>18. CASE JoinThread
  BY <1>18 DEF JoinThread
<1>19. CASE Unsubscribe
  BY <1>19 DEF Unsubscribe
<1>20. ASSUME NEW t \in Threads, InitCalloutLists(t) PROVE SysStage'
  BY <1>20 DEF InitCalloutLists
<1>21. ASSUME NEW t \in Threads, OpenEngine(t) PROVE SysStage'
  BY <1>21 DEF OpenEngine
<1>22. ASSUME NEW t \in Threads, OpenEngineFails(t) PROVE SysStage'
  BY <1>22 DEF OpenEngineFails
<1>23. ASSUME NEW t \in Threads, AddProvider(t) PROVE SysStage'
  BY <1>23 DEF AddProvider
<1>24. ASSUME NEW t \in Threads, AddProviderFails(t) PROVE SysStage'
  BY <1>24 DEF AddProviderFails
<1>25. ASSUME NEW t \in Threads, RegisterCallouts(t) PROVE SysStage'
  BY <1>25 DEF RegisterCallouts
<1>26. ASSUME NEW t \in Threads, RegisterCalloutsFails(t) PROVE SysStage'
  BY <1>26 DEF RegisterCalloutsFails
<1>27. ASSUME NEW t \in Threads, AddFilters(t) PROVE SysStage'
  BY <1>27 DEF AddFilters
<1>28. ASSUME NEW t \in Threads, AddFiltersFails(t) PROVE SysStage'
  BY <1>28 DEF AddFiltersFails
<1>29. ASSUME NEW t \in Threads,
              FreeCalloutLists(t, "initFreeLists", "initFreeEngine")
       PROVE  SysStage'
  BY <1>29 DEF FreeCalloutLists
<1>30. ASSUME NEW t \in Threads, FreeEngine(t, "initFreeEngine", "initDone")
       PROVE  SysStage'
  BY <1>30 DEF FreeEngine
<1>31. ASSUME NEW t \in Threads, InitDone(t) PROVE SysStage'
  BY <1>31 DEF InitDone
<1>32. CASE EndThread
  BY <1>32 DEF EndThread
<1>33. CASE StartEngine
  BY <1>33 DEF StartEngine
<1>34. CASE StopEngine
  BY <1>34 DEF StopEngine
<1>35. CASE Open
  BY <1>35 DEF Open
<1>36. CASE \E flag \in {0, 1} : SetMonitor(flag)
  BY <1>36 DEF SetMonitor
<1>37. CASE Close
  BY <1>37 DEF Close
<1>38. CASE \E c \in Calls : Classify(c) \/ ClassifyStep(c)
  BY <1>38 DEF Classify, ClassifyStep
<1>39. CASE UNCHANGED vars
  BY <1>39 DEF vars
<1>40. QED
  BY <1>1, <1>2, <1>3, <1>4, <1>5, <1>6, <1>7, <1>8, <1>9, <1>10, <1>11,
     <1>12, <1>13, <1>14, <1>15, <1>16, <1>17, <1>18, <1>19, <1>20, <1>21,
     <1>22, <1>23, <1>24, <1>25, <1>26, <1>27, <1>28, <1>29, <1>30, <1>31,
     <1>32, <1>33, <1>34, <1>35, <1>36, <1>37, <1>38, <1>39
     DEF Next, Sys, CalloutInit

(* ... who runs callout_init ... *)
LEMMA WhoInitsInv ==
  ASSUME IInv, [Next]_vars
  PROVE  WhoInits'
<1> USE BoundsAssumption, StatusFacts
    DEF IInv, TypeOK, Threads, Goto, GoOn, Fail, sysVars, driverVars,
        listVars, wfpVars, engineVars, otherVars, CloseSession, SetUp,
        Delete, InitFails, InSession, Lists, WhoInits, SysStage,
        CalloutPlaces, Early, Unloading, NT_SUCCESS, STATUS_SUCCESS,
        AsBOOLEAN
<1>1. CASE CreateDevice \/ CreateLink
  BY <1>1 DEF CreateDevice, CreateLink
<1>2. CASE CreateDeviceFails \/ CreateLinkFails
  BY <1>2 DEF CreateDeviceFails, CreateLinkFails
<1>3. CASE InitDevctrl
  BY <1>3 DEF InitDevctrl
<1>4. CASE InitDevctrlFails
  BY <1>4 DEF InitDevctrlFails
<1>5. CASE InitPackets
  BY <1>5 DEF InitPackets
<1>6. CASE EngineRuns
  BY <1>6 DEF EngineRuns
<1>7. CASE EngineAwaited
  BY <1>7 DEF EngineAwaited
<1>8. CASE Subscribe
  BY <1>8 DEF Subscribe
<1>9. CASE SubscribeFails
  BY <1>9 DEF SubscribeFails
<1>10. CASE BeginUnload
  BY <1>10 DEF BeginUnload
<1>11. CASE FreeDevice
  BY <1>11 DEF FreeDevice
<1>12. CASE SetShutdown
  BY <1>12 DEF SetShutdown
<1>13. CASE MonitorOff
  BY <1>13 DEF MonitorOff
<1>14. CASE FreePackets
  BY <1>14 DEF FreePackets
<1>15. CASE FreeCalloutLists("sys", "freeLists", "freeEngine")
  BY <1>15 DEF FreeCalloutLists
<1>16. CASE FreeEngine("sys", "freeEngine", "freeQueries")
  BY <1>16 DEF FreeEngine
<1>17. CASE FreeQueries
  BY <1>17 DEF FreeQueries
<1>18. CASE JoinThread
  BY <1>18 DEF JoinThread
<1>19. CASE Unsubscribe
  BY <1>19 DEF Unsubscribe
<1>20. ASSUME NEW t \in Threads, InitCalloutLists(t) PROVE WhoInits'
  BY <1>20 DEF InitCalloutLists
<1>21. ASSUME NEW t \in Threads, OpenEngine(t) PROVE WhoInits'
  BY <1>21 DEF OpenEngine
<1>22. ASSUME NEW t \in Threads, OpenEngineFails(t) PROVE WhoInits'
  BY <1>22 DEF OpenEngineFails
<1>23. ASSUME NEW t \in Threads, AddProvider(t) PROVE WhoInits'
  BY <1>23 DEF AddProvider
<1>24. ASSUME NEW t \in Threads, AddProviderFails(t) PROVE WhoInits'
  BY <1>24 DEF AddProviderFails
<1>25. ASSUME NEW t \in Threads, RegisterCallouts(t) PROVE WhoInits'
  BY <1>25 DEF RegisterCallouts
<1>26. ASSUME NEW t \in Threads, RegisterCalloutsFails(t) PROVE WhoInits'
  BY <1>26 DEF RegisterCalloutsFails
<1>27. ASSUME NEW t \in Threads, AddFilters(t) PROVE WhoInits'
  BY <1>27 DEF AddFilters
<1>28. ASSUME NEW t \in Threads, AddFiltersFails(t) PROVE WhoInits'
  BY <1>28 DEF AddFiltersFails
<1>29. ASSUME NEW t \in Threads,
              FreeCalloutLists(t, "initFreeLists", "initFreeEngine")
       PROVE  WhoInits'
  BY <1>29 DEF FreeCalloutLists
<1>30. ASSUME NEW t \in Threads, FreeEngine(t, "initFreeEngine", "initDone")
       PROVE  WhoInits'
  BY <1>30 DEF FreeEngine
<1>31. ASSUME NEW t \in Threads, InitDone(t) PROVE WhoInits'
  <2>1. AsBOOLEAN(status[t]) \in Int /\ AsBOOLEAN(status[t]) >= 0
    BY DEF TypeOK, AsBOOLEAN
  <2>2. t = "sys" => pc' = [pc EXCEPT !["sys"] = "loaded"]
    BY <1>31, <2>1 DEF InitDone
  <2>3. t = "bfe" => pc' = [pc EXCEPT !["bfe"] = "idle"]
    BY <1>31 DEF InitDone
  <2>4. status' = [status EXCEPT ![t] = AsBOOLEAN(status[t])]
    BY <1>31 DEF InitDone
  <2>5. CASE t = "sys"
    BY <1>31, <2>1, <2>2, <2>4, <2>5 DEF InitDone
  <2>6. CASE t = "bfe"
    BY <1>31, <2>3, <2>4, <2>6 DEF InitDone
  <2>7. QED
    BY <2>5, <2>6
<1>32. CASE EndThread
  BY <1>32 DEF EndThread
<1>33. CASE StartEngine
  BY <1>33 DEF StartEngine
<1>34. CASE StopEngine
  BY <1>34 DEF StopEngine
<1>35. CASE Open
  BY <1>35 DEF Open
<1>36. CASE \E flag \in {0, 1} : SetMonitor(flag)
  BY <1>36 DEF SetMonitor
<1>37. CASE Close
  BY <1>37 DEF Close
<1>38. CASE \E c \in Calls : Classify(c) \/ ClassifyStep(c)
  BY <1>38 DEF Classify, ClassifyStep
<1>39. CASE UNCHANGED vars
  BY <1>39 DEF vars
<1>40. QED
  BY <1>1, <1>2, <1>3, <1>4, <1>5, <1>6, <1>7, <1>8, <1>9, <1>10, <1>11,
     <1>12, <1>13, <1>14, <1>15, <1>16, <1>17, <1>18, <1>19, <1>20, <1>21,
     <1>22, <1>23, <1>24, <1>25, <1>26, <1>27, <1>28, <1>29, <1>30, <1>31,
     <1>32, <1>33, <1>34, <1>35, <1>36, <1>37, <1>38, <1>39
     DEF Next, Sys, CalloutInit

(* ... the one session ... *)
LEMMA SessionStageInv ==
  ASSUME IInv, [Next]_vars
  PROVE  SessionStage'
<1> USE BoundsAssumption, StatusFacts
    DEF IInv, TypeOK, Threads, Goto, GoOn, Fail, sysVars, driverVars,
        listVars, wfpVars, engineVars, otherVars, CloseSession, SetUp,
        Delete, InitFails, InSession, Lists, SessionStage, WhoInits,
        CalloutPlaces, Early, Unloading
<1>1. CASE CreateDevice \/ CreateLink
  BY <1>1 DEF CreateDevice, CreateLink
<1>2. CASE CreateDeviceFails \/ CreateLinkFails
  <2>1. sessions = {}
    BY <1>2 DEF CreateDeviceFails, CreateLinkFails
  <2>2. UNCHANGED <<handle, sessions, engine>>
    BY <1>2 DEF CreateDeviceFails, CreateLinkFails
  <2>3. pc'["bfe"] = pc["bfe"] /\ pc'["sys"] = "failed"
    BY <1>2 DEF CreateDeviceFails, CreateLinkFails
  <2>4. QED
    BY <2>1, <2>2, <2>3
<1>3. CASE InitDevctrl
  BY <1>3 DEF InitDevctrl
<1>4. CASE InitDevctrlFails
  BY <1>4 DEF InitDevctrlFails
<1>5. CASE InitPackets
  BY <1>5 DEF InitPackets
<1>6. CASE EngineRuns
  <2>1. sessions = {}
    BY <1>6 DEF EngineRuns
  <2>2. QED
    BY <1>6, <2>1 DEF EngineRuns
<1>7. CASE EngineAwaited
  BY <1>7 DEF EngineAwaited
<1>8. CASE Subscribe
  BY <1>8 DEF Subscribe
<1>9. CASE SubscribeFails
  BY <1>9 DEF SubscribeFails
<1>10. CASE BeginUnload
  BY <1>10 DEF BeginUnload
<1>11. CASE FreeDevice
  BY <1>11 DEF FreeDevice
<1>12. CASE SetShutdown
  BY <1>12 DEF SetShutdown
<1>13. CASE MonitorOff
  BY <1>13 DEF MonitorOff
<1>14. CASE FreePackets
  BY <1>14 DEF FreePackets
<1>15. CASE FreeCalloutLists("sys", "freeLists", "freeEngine")
  BY <1>15 DEF FreeCalloutLists
<1>16. CASE FreeEngine("sys", "freeEngine", "freeQueries")
  <2>1. handle # 0 => sessions' = {}
    BY <1>16 DEF FreeEngine
  <2>2. handle = 0 => sessions' = sessions /\ 0 \notin sessions
    BY <1>16 DEF FreeEngine
  <2>3. sessions' = {}
    <3>1. \A x \in sessions : x = handle /\ x # 0
      OBVIOUS
    <3>2. handle = 0 => sessions = {}
      BY <3>1
    <3>3. handle = 0 \/ handle # 0
      OBVIOUS
    <3>4. QED
      BY <2>1, <2>2, <3>2, <3>3
  <2>4. engine' = engine /\ trouble' = trouble /\ pc'["bfe"] = pc["bfe"]
    BY <1>16 DEF FreeEngine
  <2>5. QED
    BY <2>3, <2>4
<1>17. CASE FreeQueries
  BY <1>17 DEF FreeQueries
<1>18. CASE JoinThread
  BY <1>18 DEF JoinThread
<1>19. CASE Unsubscribe
  BY <1>19 DEF Unsubscribe
<1>20. ASSUME NEW t \in Threads, InitCalloutLists(t) PROVE SessionStage'
  BY <1>20 DEF InitCalloutLists
<1>21. ASSUME NEW t \in Threads, OpenEngine(t) PROVE SessionStage'
  BY <1>21 DEF OpenEngine
<1>22. ASSUME NEW t \in Threads, OpenEngineFails(t) PROVE SessionStage'
  BY <1>22 DEF OpenEngineFails
<1>23. ASSUME NEW t \in Threads, AddProvider(t) PROVE SessionStage'
  BY <1>23 DEF AddProvider
<1>24. ASSUME NEW t \in Threads, AddProviderFails(t) PROVE SessionStage'
  BY <1>24 DEF AddProviderFails
<1>25. ASSUME NEW t \in Threads, RegisterCallouts(t) PROVE SessionStage'
  BY <1>25 DEF RegisterCallouts
<1>26. ASSUME NEW t \in Threads, RegisterCalloutsFails(t) PROVE SessionStage'
  BY <1>26 DEF RegisterCalloutsFails
<1>27. ASSUME NEW t \in Threads, AddFilters(t) PROVE SessionStage'
  BY <1>27 DEF AddFilters
<1>28. ASSUME NEW t \in Threads, AddFiltersFails(t) PROVE SessionStage'
  BY <1>28 DEF AddFiltersFails
<1>29. ASSUME NEW t \in Threads,
              FreeCalloutLists(t, "initFreeLists", "initFreeEngine")
       PROVE  SessionStage'
  BY <1>29 DEF FreeCalloutLists
<1>30. ASSUME NEW t \in Threads, FreeEngine(t, "initFreeEngine", "initDone")
       PROVE  SessionStage'
  BY <1>30 DEF FreeEngine
<1>31. ASSUME NEW t \in Threads, InitDone(t) PROVE SessionStage'
  BY <1>31 DEF InitDone
<1>32. CASE EndThread
  BY <1>32 DEF EndThread
<1>33. CASE StartEngine
  BY <1>33 DEF StartEngine
<1>34. CASE StopEngine
  BY <1>34 DEF StopEngine
<1>35. CASE Open
  BY <1>35 DEF Open
<1>36. CASE \E flag \in {0, 1} : SetMonitor(flag)
  BY <1>36 DEF SetMonitor
<1>37. CASE Close
  BY <1>37 DEF Close
<1>38. CASE \E c \in Calls : Classify(c) \/ ClassifyStep(c)
  <2>1. UNCHANGED <<sessions, handle, engine, pc, trouble>>
    BY <1>38 DEF Classify, ClassifyStep
  <2>2. QED
    BY <2>1
<1>39. CASE UNCHANGED vars
  BY <1>39 DEF vars
<1>40. QED
  BY <1>1, <1>2, <1>3, <1>4, <1>5, <1>6, <1>7, <1>8, <1>9, <1>10, <1>11,
     <1>12, <1>13, <1>14, <1>15, <1>16, <1>17, <1>18, <1>19, <1>20, <1>21,
     <1>22, <1>23, <1>24, <1>25, <1>26, <1>27, <1>28, <1>29, <1>30, <1>31,
     <1>32, <1>33, <1>34, <1>35, <1>36, <1>37, <1>38, <1>39
     DEF Next, Sys, CalloutInit

(* ... the lists of the callouts ... *)
LEMMA CalloutListsInv ==
  ASSUME IInv, [Next]_vars
  PROVE  CalloutLists'
<1> USE BoundsAssumption, StatusFacts
    DEF IInv, TypeOK, Threads, Goto, GoOn, Fail, sysVars, driverVars,
        listVars, wfpVars, engineVars, otherVars, CloseSession, SetUp,
        Delete, InitFails, InSession, Lists, CalloutLists, WhoInits,
        SysStage, SessionStage, Freed, CalloutPlaces, Early, Past,
        Unloading
<1>1. CASE CreateDevice \/ CreateLink
  BY <1>1 DEF CreateDevice, CreateLink
<1>2. CASE CreateDeviceFails \/ CreateLinkFails
  BY <1>2 DEF CreateDeviceFails, CreateLinkFails
<1>3. CASE InitDevctrl
  BY <1>3 DEF InitDevctrl
<1>4. CASE InitDevctrlFails
  BY <1>4 DEF InitDevctrlFails
<1>5. CASE InitPackets
  BY <1>5 DEF InitPackets
<1>6. CASE EngineRuns
  BY <1>6 DEF EngineRuns
<1>7. CASE EngineAwaited
  BY <1>7 DEF EngineAwaited
<1>8. CASE Subscribe
  BY <1>8 DEF Subscribe
<1>9. CASE SubscribeFails
  BY <1>9 DEF SubscribeFails
<1>10. CASE BeginUnload
  BY <1>10 DEF BeginUnload
<1>11. CASE FreeDevice
  BY <1>11 DEF FreeDevice
<1>12. CASE SetShutdown
  BY <1>12 DEF SetShutdown
<1>13. CASE MonitorOff
  BY <1>13 DEF MonitorOff
<1>14. CASE FreePackets
  BY <1>14 DEF FreePackets
<1>15. CASE FreeCalloutLists("sys", "freeLists", "freeEngine")
  BY <1>15 DEF FreeCalloutLists
<1>16. CASE FreeEngine("sys", "freeEngine", "freeQueries")
  BY <1>16 DEF FreeEngine
<1>17. CASE FreeQueries
  BY <1>17 DEF FreeQueries
<1>18. CASE JoinThread
  BY <1>18 DEF JoinThread
<1>19. CASE Unsubscribe
  BY <1>19 DEF Unsubscribe
<1>20. ASSUME NEW t \in Threads, InitCalloutLists(t) PROVE CalloutLists'
  <2>1. inits \in Nat /\ inits' = inits + 1
    BY <1>20 DEF InitCalloutLists
  <2>2. inits' # 0 /\ (inits' = 1 => inits = 0)
    BY <2>1
  <2>3. inits = 0 => filters' = {}
    BY <1>20 DEF InitCalloutLists
  <2>4. \A l \in {"flowInfo", "macInfo"} : lists'[l] = "live"
    BY <1>20 DEF InitCalloutLists
  <2>5. trouble = {} => pc["sys"] \notin Freed("flowInfo")
    BY <1>20 DEF InitCalloutLists
  <2>6. inits = 0 /\ trouble = {} => misused' = {}
    BY <1>20, <2>5 DEF InitCalloutLists
  <2>7. trouble' = trouble
    BY <1>20 DEF InitCalloutLists
  <2>8. QED
    BY <2>2, <2>3, <2>4, <2>6, <2>7
<1>21. ASSUME NEW t \in Threads, OpenEngine(t) PROVE CalloutLists'
  BY <1>21 DEF OpenEngine
<1>22. ASSUME NEW t \in Threads, OpenEngineFails(t) PROVE CalloutLists'
  BY <1>22 DEF OpenEngineFails
<1>23. ASSUME NEW t \in Threads, AddProvider(t) PROVE CalloutLists'
  BY <1>23 DEF AddProvider
<1>24. ASSUME NEW t \in Threads, AddProviderFails(t) PROVE CalloutLists'
  BY <1>24 DEF AddProviderFails
<1>25. ASSUME NEW t \in Threads, RegisterCallouts(t) PROVE CalloutLists'
  BY <1>25 DEF RegisterCallouts
<1>26. ASSUME NEW t \in Threads, RegisterCalloutsFails(t) PROVE CalloutLists'
  BY <1>26 DEF RegisterCalloutsFails
<1>27. ASSUME NEW t \in Threads, AddFilters(t) PROVE CalloutLists'
  BY <1>27 DEF AddFilters
<1>28. ASSUME NEW t \in Threads, AddFiltersFails(t) PROVE CalloutLists'
  BY <1>28 DEF AddFiltersFails
<1>29. ASSUME NEW t \in Threads,
              FreeCalloutLists(t, "initFreeLists", "initFreeEngine")
       PROVE  CalloutLists'
  <2>1. "initFailed" \in trouble /\ trouble' = trouble /\ inits' = inits
    BY <1>29 DEF FreeCalloutLists
  <2>2. inits # 0
    BY <1>29 DEF FreeCalloutLists
  <2>3. \A u \in Threads :
          pc'[u] \in CalloutPlaces \ {"initFreeEngine"}
            => u # t /\ pc[u] = pc'[u]
    BY <1>29 DEF FreeCalloutLists
  <2>4. \A u \in Threads : u # t => pc[u] \notin CalloutPlaces
    BY <1>29 DEF FreeCalloutLists
  <2>5. pc["sys"] \notin Freed("flowInfo") /\ inits = 1 => filters' = {}
    BY <1>29 DEF FreeCalloutLists
  <2>6. pc'["sys"] \notin Freed("flowInfo")
          => pc["sys"] \notin Freed("flowInfo")
    BY <1>29 DEF FreeCalloutLists
  <2>7. QED
    BY <2>1, <2>2, <2>3, <2>4, <2>5, <2>6
<1>30. ASSUME NEW t \in Threads, FreeEngine(t, "initFreeEngine", "initDone")
       PROVE  CalloutLists'
  BY <1>30 DEF FreeEngine
<1>31. ASSUME NEW t \in Threads, InitDone(t) PROVE CalloutLists'
  BY <1>31 DEF InitDone
<1>32. CASE EndThread
  BY <1>32 DEF EndThread
<1>33. CASE StartEngine
  BY <1>33 DEF StartEngine
<1>34. CASE StopEngine
  BY <1>34 DEF StopEngine
<1>35. CASE Open
  BY <1>35 DEF Open
<1>36. CASE \E flag \in {0, 1} : SetMonitor(flag)
  BY <1>36 DEF SetMonitor
<1>37. CASE Close
  BY <1>37 DEF Close
<1>38. CASE \E c \in Calls : Classify(c) \/ ClassifyStep(c)
  BY <1>38 DEF Classify, ClassifyStep
<1>39. CASE UNCHANGED vars
  BY <1>39 DEF vars
<1>40. QED
  BY <1>1, <1>2, <1>3, <1>4, <1>5, <1>6, <1>7, <1>8, <1>9, <1>10, <1>11,
     <1>12, <1>13, <1>14, <1>15, <1>16, <1>17, <1>18, <1>19, <1>20, <1>21,
     <1>22, <1>23, <1>24, <1>25, <1>26, <1>27, <1>28, <1>29, <1>30, <1>31,
     <1>32, <1>33, <1>34, <1>35, <1>36, <1>37, <1>38, <1>39
     DEF Next, Sys, CalloutInit

(* ... and what the calls in progress rely on. *)
LEMMA CallStageInv ==
  ASSUME IInv, [Next]_vars
  PROVE  CallStage'
<1> USE BoundsAssumption, StatusFacts
    DEF IInv, TypeOK, Threads, Goto, GoOn, Fail, sysVars, driverVars,
        listVars, wfpVars, engineVars, otherVars, CloseSession, SetUp,
        Delete, InitFails, InSession, Lists, CallStage, CalloutLists,
        WhoInits, SysStage, SessionStage, Freed, CalloutPlaces, Early,
        Past, Unloading, NT_SUCCESS, STATUS_SUCCESS, AsBOOLEAN, NextStage
<1>1. CASE CreateDevice \/ CreateLink
  BY <1>1 DEF CreateDevice, CreateLink
<1>2. CASE CreateDeviceFails \/ CreateLinkFails
  BY <1>2 DEF CreateDeviceFails, CreateLinkFails
<1>3. CASE InitDevctrl
  BY <1>3 DEF InitDevctrl
<1>4. CASE InitDevctrlFails
  BY <1>4 DEF InitDevctrlFails
<1>5. CASE InitPackets
  BY <1>5 DEF InitPackets
<1>6. CASE EngineRuns
  BY <1>6 DEF EngineRuns
<1>7. CASE EngineAwaited
  BY <1>7 DEF EngineAwaited
<1>8. CASE Subscribe
  BY <1>8 DEF Subscribe
<1>9. CASE SubscribeFails
  BY <1>9 DEF SubscribeFails
<1>10. CASE BeginUnload
  BY <1>10 DEF BeginUnload
<1>11. CASE FreeDevice
  BY <1>11 DEF FreeDevice
<1>12. CASE SetShutdown
  BY <1>12 DEF SetShutdown
<1>13. CASE MonitorOff
  BY <1>13 DEF MonitorOff
<1>14. CASE FreePackets
  BY <1>14 DEF FreePackets
<1>15. CASE FreeCalloutLists("sys", "freeLists", "freeEngine")
  BY <1>15 DEF FreeCalloutLists
<1>16. CASE FreeEngine("sys", "freeEngine", "freeQueries")
  BY <1>16 DEF FreeEngine
<1>17. CASE FreeQueries
  BY <1>17 DEF FreeQueries
<1>18. CASE JoinThread
  BY <1>18 DEF JoinThread
<1>19. CASE Unsubscribe
  BY <1>19 DEF Unsubscribe
<1>20. ASSUME NEW t \in Threads, InitCalloutLists(t) PROVE CallStage'
  BY <1>20 DEF InitCalloutLists
<1>21. ASSUME NEW t \in Threads, OpenEngine(t) PROVE CallStage'
  BY <1>21 DEF OpenEngine
<1>22. ASSUME NEW t \in Threads, OpenEngineFails(t) PROVE CallStage'
  BY <1>22 DEF OpenEngineFails
<1>23. ASSUME NEW t \in Threads, AddProvider(t) PROVE CallStage'
  BY <1>23 DEF AddProvider
<1>24. ASSUME NEW t \in Threads, AddProviderFails(t) PROVE CallStage'
  BY <1>24 DEF AddProviderFails
<1>25. ASSUME NEW t \in Threads, RegisterCallouts(t) PROVE CallStage'
  BY <1>25 DEF RegisterCallouts
<1>26. ASSUME NEW t \in Threads, RegisterCalloutsFails(t) PROVE CallStage'
  BY <1>26 DEF RegisterCalloutsFails
<1>27. ASSUME NEW t \in Threads, AddFilters(t) PROVE CallStage'
  BY <1>27 DEF AddFilters
<1>28. ASSUME NEW t \in Threads, AddFiltersFails(t) PROVE CallStage'
  BY <1>28 DEF AddFiltersFails
<1>29. ASSUME NEW t \in Threads,
              FreeCalloutLists(t, "initFreeLists", "initFreeEngine")
       PROVE  CallStage'
  BY <1>29 DEF FreeCalloutLists
<1>30. ASSUME NEW t \in Threads, FreeEngine(t, "initFreeEngine", "initDone")
       PROVE  CallStage'
  BY <1>30 DEF FreeEngine
<1>31. ASSUME NEW t \in Threads, InitDone(t) PROVE CallStage'
  BY <1>31 DEF InitDone
<1>32. CASE EndThread
  BY <1>32 DEF EndThread
<1>33. CASE StartEngine
  BY <1>33 DEF StartEngine
<1>34. CASE StopEngine
  BY <1>34 DEF StopEngine
<1>35. CASE Open
  BY <1>35 DEF Open
<1>36. CASE \E flag \in {0, 1} : SetMonitor(flag)
  BY <1>36 DEF SetMonitor
<1>37. CASE Close
  BY <1>37 DEF Close
<1>38. CASE \E c \in Calls : Classify(c) \/ ClassifyStep(c)
  <2>1. PICK c \in Calls : Classify(c) \/ ClassifyStep(c)
    BY <1>38
  <2>2. CASE Classify(c)
    <3>1. client /\ sessions # {}
      BY <2>2 DEF Classify
    <3>2. inits # 0
      <4>1. PICK s \in sessions : TRUE
        BY <3>1
      <4>2. s \in 1..inits /\ inits \in Nat
        BY <4>1
      <4>3. QED
        BY <4>2
    <3>3. pc["sys"] \in {"initDone", "loaded"} \union CalloutPlaces
      <4>1. pc["sys"] \notin Early \union {"initLists"}
        BY <3>2
      <4>2. ~Past
        <5>1. ~Unloading \/ pc["sys"] = "failed"
          BY <3>1, <3>2
        <5>2. pc["sys"] # "failed"
          BY <3>2
        <5>3. pc["sys"] # "gone"
          BY <3>1
        <5>4. QED
          BY <5>1, <5>2, <5>3
      <4>3. pc["sys"] \in Places \ {"idle"}
        OBVIOUS
      <4>4. QED
        BY <4>1, <4>2, <4>3 DEF Places
    <3>4. pc["sys"] \notin Freed("flowInfo")
      BY <3>3
    <3>5. inits = 1 => /\ lists["flowInfo"] = "live"
                       /\ \A t \in Threads : pc[t] \notin CalloutPlaces
      BY <2>2, <3>4 DEF Classify
    <3>6. pc["sys"] \in {"initDone", "loaded"}
      BY <3>3, <3>5
    <3>7. QED
      BY <2>2, <3>2, <3>5, <3>6 DEF Classify
  <2>3. CASE ClassifyStep(c)
    <3>1. \A d \in Calls : calls'[d] # "idle" => calls[d] # "idle"
      BY <2>3 DEF ClassifyStep
    <3>2. \A d \in Calls :
            calls'[d] # "idle" /\ d \notin overtaken' => d \notin overtaken
      BY <2>3 DEF ClassifyStep
    <3>3. \A d \in Calls :
            calls'[d] # "idle" /\ d \in overtaken => d \in overtaken'
      BY <2>3 DEF ClassifyStep
    <3>4. UNCHANGED <<pc, status, client, monitor, inits, lists>>
      BY <2>3 DEF ClassifyStep
    <3>5. QED
      BY <3>1, <3>2, <3>3, <3>4
  <2>4. QED
    BY <2>1, <2>2, <2>3
<1>39. CASE UNCHANGED vars
  BY <1>39 DEF vars
<1>40. QED
  BY <1>1, <1>2, <1>3, <1>4, <1>5, <1>6, <1>7, <1>8, <1>9, <1>10, <1>11,
     <1>12, <1>13, <1>14, <1>15, <1>16, <1>17, <1>18, <1>19, <1>20, <1>21,
     <1>22, <1>23, <1>24, <1>25, <1>26, <1>27, <1>28, <1>29, <1>30, <1>31,
     <1>32, <1>33, <1>34, <1>35, <1>36, <1>37, <1>38, <1>39
     DEF Next, Sys, CalloutInit

LEMMA NextInv == ASSUME IInv, [Next]_vars PROVE IInv'
BY TypeOKInv, SysStageInv, WhoInitsInv, SessionStageInv, CalloutListsInv,
   CallStageInv DEF IInv

(* The inductive invariant holds in every reachable state. *)
THEOREM Invariance == Spec => []IInv
<1>1. Init => IInv
  BY InitInv
<1>2. IInv /\ [Next]_vars => IInv'
  BY NextInv
<1>3. QED
  BY <1>1, <1>2, PTL DEF Spec

-----------------------------------------------------------------------------

(* Every variable keeps its type. *)
THEOREM TypeCorrect == Spec => []TypeOK
<1>1. IInv => TypeOK
  BY DEF IInv
<1>2. QED
  BY <1>1, Invariance, PTL

(* A driver that is gone, or failed to load, has no session or filter in   *)
(* the engine, no thread at work, no subscription and no device but one    *)
(* that its link failed for, unless the engine called back meanwhile.      *)
THEOREM GoneLeavesNothing == Spec => []GoneIsQuiet
<1>1. IInv => GoneIsQuiet
  <2>1. SUFFICES ASSUME IInv, pc["sys"] \in {"gone", "failed"},
                        "late" \notin trouble
                 PROVE  /\ sessions = {} /\ filters = {}
                        /\ thread # "running" /\ ~subscribed
                        /\ device # "linked"
                        /\ device = "unlinked" => "linkFailed" \in trouble
    BY DEF GoneIsQuiet
  <2>2. sessions = {}
    BY <2>1 DEF IInv, SessionStage
  <2>3. filters = {}
    BY <2>1, <2>2 DEF IInv, TypeOK
  <2>4. thread # "running" /\ ~subscribed
    BY <2>1 DEF IInv, SysStage, WhoInits, Unloading
  <2>5. /\ device # "linked"
        /\ device = "unlinked" => "linkFailed" \in trouble
    BY <2>1 DEF IInv, SysStage, Past
  <2>6. QED
    BY <2>2, <2>3, <2>4, <2>5
<1>2. QED
  BY <1>1, Invariance, PTL

(* A classify call that no unload has overtaken allocates from lists that  *)
(* exist, while callout_init has run once.                                 *)
THEOREM ListsOutliveCalls == Spec => []CallsFindLists
<1>1. IInv => CallsFindLists
  <2>1. SUFFICES ASSUME IInv, inits <= 1,
                        NEW c \in Calls \ overtaken, calls[c] # "idle",
                        NEW l \in Needs[calls[c]]
                 PROVE  lists[l] = "live"
    BY DEF CallsFindLists
  <2>2. pc["sys"] \in {"initDone", "loaded"}
    BY <2>1 DEF IInv, CallStage
  <2>3. inits \in Nat /\ inits # 0
    BY <2>1 DEF IInv, TypeOK, CallStage
  <2>4. inits = 1
    BY <2>1, <2>3
  <2>5. lists["flowInfo"] = "live"
    BY <2>1, <2>4 DEF IInv, CallStage
  <2>6. lists["established"] = "live" /\ lists["queries"] = "live"
    BY <2>1, <2>2 DEF IInv, SysStage, Freed
  <2>7. calls[c] \in {"describe", "push", "free"}
    BY <2>1 DEF IInv, TypeOK
  <2>8. l \in {"flowInfo", "established", "queries"}
    BY <2>1, <2>7 DEF Needs
  <2>9. QED
    BY <2>5, <2>6, <2>8
<1>2. QED
  BY <1>1, Invariance, PTL

(* No list is deleted twice or set up over a live one, if callout_init ran *)
(* once, got past the open without failing and ended before the unload.    *)
THEOREM ListsAreFreedOnce == Spec => []ListsPairUp
<1>1. IInv => ListsPairUp
  BY DEF IInv, CalloutLists, ListsPairUp
<1>2. QED
  BY <1>1, Invariance, PTL

(* Once DriverEntry has succeeded requests find a device, the I/O thread    *)
(* and the lists, and callout_init has run or will run when the engine      *)
(* starts the next time (driver.c:126-184).                                 *)
LoadedIsReady ==
  pc["sys"] = "loaded" =>
    /\ device = "linked" /\ thread = "running" /\ ~shutdown
    /\ \A l \in {"queries", "datalink", "established"} : lists[l] = "live"
    /\ subscribed \/ inits > 0

(* DriverEntry succeeds only with everything that requests need in place.  *)
THEOREM LoadedHasAll == Spec => []LoadedIsReady
<1>1. IInv => LoadedIsReady
  BY DEF IInv, SysStage, WhoInits, Freed, Past, Unloading, LoadedIsReady
<1>2. QED
  BY <1>1, Invariance, PTL

-----------------------------------------------------------------------------
(* What becomes of callout_init's result.                                  *)

(* Whatever callout_init's NTSTATUS is, its BOOLEAN is a success: no value *)
(* of a UINT8 is negative.                                                 *)
THEOREM AnyStatusSucceeds ==
  ASSUME NEW st \in Int PROVE NT_SUCCESS(AsBOOLEAN(st))
<1>1. \A n \in Int : n % 256 >= 0
  BY SMT
<1>2. QED
  BY <1>1 DEF NT_SUCCESS, AsBOOLEAN

(* DriverEntry never takes its failure branch after callout_init: from its *)
(* look at the result it goes nowhere but to a loaded driver.              *)
InitAlwaysLoads ==
  pc["sys"] = "initDone" => pc'["sys"] \in {"initDone", "loaded"}

(* So the driver is loaded, its lists are kept and its device serves, with *)
(* or without a filter in the engine (driver.c:166-169 is dead code).      *)
THEOREM FailureIsIgnored == Spec => [][InitAlwaysLoads]_vars
<1>1. TypeOK /\ [Next]_vars => InitAlwaysLoads
  <2> SUFFICES ASSUME TypeOK, [Next]_vars, pc["sys"] = "initDone"
               PROVE  pc'["sys"] \in {"initDone", "loaded"}
    BY DEF InitAlwaysLoads
  <2> USE DEF TypeOK, Threads
  <2>1. /\ "sys" \in Threads /\ "bfe" \in Threads
        /\ pc \in [Threads -> Places] /\ status["sys"] \in Int
    OBVIOUS
  <2>2. ASSUME InitDone("sys") PROVE pc'["sys"] = "loaded"
    <3>1. NT_SUCCESS(AsBOOLEAN(status["sys"]))
      BY <2>1, AnyStatusSucceeds
    <3>2. Goto("sys", "loaded")
      BY <2>2, <3>1 DEF InitDone, GoOn
    <3>3. QED
      BY <2>1, <3>2 DEF Goto
  <2>3. CASE CalloutInit("sys")
    BY <2>1, <2>2, <2>3
       DEF CalloutInit, InitCalloutLists, OpenEngine, OpenEngineFails,
           AddProvider, AddProviderFails, RegisterCallouts,
           RegisterCalloutsFails, AddFilters, AddFiltersFails, InitFails,
           FreeCalloutLists, FreeEngine
  <2>4. CASE Sys /\ ~CalloutInit("sys")
    BY <2>1, <2>4
       DEF Sys, CreateDevice, CreateDeviceFails, CreateLink,
           CreateLinkFails, InitDevctrl, InitDevctrlFails, InitPackets,
           EngineRuns, EngineAwaited, Subscribe, SubscribeFails, FreeDevice, SetShutdown, MonitorOff, FreePackets,
           FreeCalloutLists, FreeEngine, FreeQueries, JoinThread, Unsubscribe
  <2>5. CASE CalloutInit("bfe")
    BY <2>1, <2>5
       DEF CalloutInit, InitCalloutLists, OpenEngine, OpenEngineFails,
           AddProvider, AddProviderFails, RegisterCallouts,
           RegisterCalloutsFails, AddFilters, AddFiltersFails, InitFails,
           FreeCalloutLists, FreeEngine, InitDone, GoOn, Goto
  <2>6. CASE BeginUnload
    BY <2>6 DEF BeginUnload
  <2>7. CASE StartEngine
    BY <2>1, <2>7 DEF StartEngine, Goto
  <2>8. CASE \/ EndThread \/ StopEngine \/ Open \/ Close
            \/ \E flag \in {0, 1} : SetMonitor(flag)
            \/ \E c \in Calls : Classify(c) \/ ClassifyStep(c)
    BY <2>8 DEF EndThread, StopEngine, Open, Close, SetMonitor, Classify,
                ClassifyStep, sysVars
  <2>9. CASE UNCHANGED vars
    BY <2>9 DEF vars
  <2>10. QED
    BY <2>3, <2>4, <2>5, <2>6, <2>7, <2>8, <2>9 DEF Next
<1>2. QED
  BY <1>1, TypeCorrect, PTL DEF Spec
=============================================================================
