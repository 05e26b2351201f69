--------------------------- MODULE Process_proofs ---------------------------
(* The life of the process for any connections, inputs, requests and        *)
(* frames: permits are never lost, the shutdown leaves no task behind, the  *)
(* frame copier lets only well-formed messages through, the source told to  *)
(* the broker is vouched for, and an accepted configuration can be used.    *)
EXTENDS Process, FiniteSetTheorems, WellFoundedInduction, TLAPS

----------------------------------------------------------------------------
(* The steps, by what they are about.                                       *)

ConnectionStep(c) ==
    \/ \E peer \in Peers[c] : Accept(c, peer)
    \/ \E request \in Requests[c] : HeaderArrives(c, request)
    \/ \E frame \in Frames[c] : RelayFrame(c, frame)
    \/ HeaderFails(c) \/ Answered(c) \/ UpgradeFails(c) \/ Upgraded(c)
    \/ RelayEnds(c) \/ Reap(c) \/ AbortConnection(c)
SessionStep(c) ==
    \/ SessionStarts(c) \/ SessionEnds(c) \/ KickSession(c) \/ HookStarts(c)
    \/ HookReturns(c) \/ DelayedCloseFires(c) \/ AbortedCloseEnds(c)
StartStep ==
    \/ BindListener \/ StartTarget \/ StartMeshcore \/ MeshcoreFails \/ Unwind
    \/ StartBroker \/ RunHealthcheck
    \/ \E input \in Inputs : DiscoverConfig(input)
ClosingStep ==
    \/ ShutdownSignal \/ AcceptFails \/ MqttTaskCompleted
    \/ CloseListener \/ UnregisterHooks \/ StopDelayedCloses \/ JoinDelayedCloses
    \/ StopMqtt \/ SessionsDisconnected \/ ConnectionsShutDown
    \/ MeshcoreStopped \/ TargetStopped \/ StepTimesOut
PartStep == MqttEnds \/ TargetStops \/ MeshcoreStops

(* These are all the steps.                                                 *)
LEMMA StepKinds ==
    ASSUME [ProcessNext]_vars
    PROVE  \/ StartStep \/ ClosingStep \/ PartStep \/ UNCHANGED vars
           \/ \E c \in Connections : ConnectionStep(c) \/ SessionStep(c)
BY DEF ProcessNext, MainSteps, StartStep, ClosingStep, PartStep, ConnectionStep, SessionStep

----------------------------------------------------------------------------
(* Connection tasks and their permits.                                      *)

TaskFields == {"at", "peer", "request", "line", "fragmented", "received"}
LiveTasks == {c \in Connections : Live(c)}

TasksInv ==
    /\ DOMAIN conn = Connections
    /\ \A c \in Connections : DOMAIN conn[c] = TaskFields
    /\ IsFiniteSet(LiveTasks)
    /\ free \in Nat
    /\ free + Cardinality(LiveTasks) = MAX_FRONTEND_CONNECTIONS

LiveStages == {"header", "answering", "upgrading", "relaying"}

\* What a step does to the tasks: nothing, or to one task it starts, moves,
\* ends or joins, or it joins all of them.
Starts(c) ==
    /\ ~Live(c) /\ free > 0 /\ free' = free - 1
    /\ \E t : /\ conn' = [conn EXCEPT ![c] = t]
              /\ DOMAIN t = TaskFields /\ t.at \in LiveStages
Moves(c) ==
    /\ Live(c) /\ free' = free
    /\ \E t : /\ conn' = [conn EXCEPT ![c] = t]
              /\ DOMAIN t = TaskFields /\ t.at \in LiveStages
Ends(c) ==
    /\ Live(c) /\ free' = free + 1
    /\ \E t : /\ conn' = [conn EXCEPT ![c] = t]
              /\ DOMAIN t = TaskFields /\ t.at \notin LiveStages
Joins(c) == ~Live(c) /\ free' = free /\ conn' = [conn EXCEPT ![c] = Idle]
JoinsAll == /\ \A c \in Connections : ~Live(c)
            /\ free' = free /\ conn' = [c \in Connections |-> Idle]

TaskStep ==
    \/ UNCHANGED taskVars
    \/ JoinsAll
    \/ \E c \in Connections : Starts(c) \/ Moves(c) \/ Ends(c) \/ Joins(c)

(* A new task has the fields of every task and is outside.                  *)
LEMMA IdleTask == DOMAIN Idle = TaskFields /\ Idle.at = "outside"
BY DEF Idle, TaskFields

(* The task that ends is a live one, and gives its permit back.             *)
LEMMA FinishEnds ==
    ASSUME NEW c \in Connections, Live(c), Finish(c)
    PROVE  Ends(c)
<1> DEFINE t == [Idle EXCEPT !.at = "done"]
<1>1. conn' = [conn EXCEPT ![c] = t] /\ free' = free + 1
  BY DEF Finish, ReturnPermit
<1>2. DOMAIN t = TaskFields /\ t.at \notin LiveStages
  BY DEF Idle, TaskFields, LiveStages
<1> HIDE DEF t
<1> QED BY <1>1, <1>2 DEF Ends

(* Every step is one of these on the tasks.                                 *)
LEMMA TasksMoveOneByOne ==
    ASSUME TasksInv, [ProcessNext]_vars
    PROVE  TaskStep
<1> USE DEF TaskStep
<1>1. ASSUME NEW c \in Connections, NEW peer, Accept(c, peer) PROVE TaskStep
  <2> DEFINE t == [Idle EXCEPT !.at = "header", !.peer = peer]
  <2>1. CASE UNCHANGED taskVars
    BY <2>1
  <2>2. CASE TakePermit /\ conn' = [conn EXCEPT ![c] = t]
    <3>1. DOMAIN t = TaskFields /\ t.at \in LiveStages
      BY DEF Idle, TaskFields, LiveStages
    <3>2. ~Live(c)
      BY <1>1 DEF Accept, Live
    <3> HIDE DEF t
    <3>3. Starts(c)
      BY <2>2, <3>1, <3>2 DEF TakePermit, Starts
    <3> QED BY <3>3
  <2> QED BY <1>1, <2>1, <2>2 DEF Accept
<1>2. ASSUME NEW c \in Connections, NEW request, HeaderArrives(c, request) PROVE TaskStep
  <2> DEFINE source == ForwardedSource(request, conn[c].peer, frontend.trusted)
             t == IF Dispatch(request) # "proxy" THEN [Idle EXCEPT !.at = "answering"]
                  ELSE [conn[c] EXCEPT !.at = "upgrading", !.request = request,
                                !.line = ProxyProtocolLine(source, frontend.local)]
  <2>1. conn' = [conn EXCEPT ![c] = t] /\ free' = free
    BY <1>2 DEF HeaderArrives, TasksInv
  <2>2. DOMAIN t = TaskFields /\ t.at \in LiveStages
    BY DEF TasksInv, Idle, TaskFields, LiveStages
  <2>3. Live(c)
    BY <1>2 DEF HeaderArrives, Live
  <2> HIDE DEF t
  <2>4. Moves(c)
    BY <2>1, <2>2, <2>3 DEF Moves
  <2> QED BY <2>4
<1>3. ASSUME NEW c \in Connections, Upgraded(c) PROVE TaskStep
  <2> DEFINE t == [Idle EXCEPT !.at = "relaying",
                     !.received = [open |-> FALSE, size |-> 0, fault |-> FALSE]]
  <2>1. conn' = [conn EXCEPT ![c] = t] /\ free' = free /\ Live(c)
    BY <1>3 DEF Upgraded, Live
  <2>2. DOMAIN t = TaskFields /\ t.at \in LiveStages
    BY DEF Idle, TaskFields, LiveStages
  <2> HIDE DEF t
  <2>3. Moves(c)
    BY <2>1, <2>2 DEF Moves
  <2> QED BY <2>3
<1>4. ASSUME NEW c \in Connections, NEW frame, RelayFrame(c, frame) PROVE TaskStep
  <2>1. Live(c)
    BY <1>4 DEF RelayFrame, Live
  <2>2. CASE Finish(c)
    BY <2>1, <2>2, FinishEnds
  <2>3. CASE ~Finish(c)
    <3> DEFINE t == [conn[c] EXCEPT !.fragmented = FragmentedSize(@, frame),
                                    !.received = Receive(@, frame, frontend.max)]
    <3>1. conn' = [conn EXCEPT ![c] = t] /\ free' = free
      BY <1>4, <2>3 DEF RelayFrame, TasksInv, TaskFields
    <3>2. DOMAIN t = TaskFields /\ t.at \in LiveStages
      BY <2>1 DEF TasksInv, TaskFields, LiveStages, Live
    <3> HIDE DEF t
    <3>3. Moves(c)
      BY <2>1, <3>1, <3>2 DEF Moves
    <3> QED BY <3>3
  <2> QED BY <2>2, <2>3
<1>5. ASSUME NEW c \in Connections,
             HeaderFails(c) \/ Answered(c) \/ UpgradeFails(c) \/ RelayEnds(c)
                 \/ AbortConnection(c)
      PROVE  TaskStep
  <2>1. Live(c) /\ Finish(c)
    BY <1>5 DEF HeaderFails, Answered, UpgradeFails, RelayEnds, AbortConnection, Live
  <2> QED BY <2>1, FinishEnds
<1>6. ASSUME NEW c \in Connections, Reap(c) PROVE TaskStep
  <2>1. Joins(c)
    BY <1>6 DEF Reap, Joins, Live
  <2> QED BY <2>1
<1>7. ASSUME NEW c \in Connections, SessionStep(c)
      PROVE  UNCHANGED taskVars
  BY <1>7 DEF SessionStep, SessionStarts, SessionEnds, KickSession, HookStarts, HookReturns,
              DelayedCloseFires, AbortedCloseEnds
<1>8. CASE ConnectionsShutDown
  BY <1>8 DEF ConnectionsShutDown, JoinsAll
<1>9. CASE MainSteps /\ ~ConnectionsShutDown
  BY <1>9 DEF MainSteps, BindListener, StartTarget, StartMeshcore, MeshcoreFails, Unwind,
              StartBroker, CloseListener, UnregisterHooks, StopDelayedCloses,
              JoinDelayedCloses, StopMqtt, SessionsDisconnected, MeshcoreStopped,
              TargetStopped, closingOnly
<1>10. CASE StepTimesOut \/ RunHealthcheck \/ MqttEnds \/ TargetStops \/ MeshcoreStops
  BY <1>10 DEF StepTimesOut, RunHealthcheck, MqttEnds, TargetStops, MeshcoreStops, closingOnly
<1>11. CASE ShutdownSignal \/ AcceptFails \/ MqttTaskCompleted
  BY <1>11 DEF ShutdownSignal, AcceptFails, MqttTaskCompleted, Break
<1>12. ASSUME NEW input, DiscoverConfig(input) PROVE UNCHANGED taskVars
  BY <1>12 DEF DiscoverConfig
<1>13. CASE UNCHANGED vars
  BY <1>13 DEF vars
<1> QED
  BY <1>1, <1>2, <1>3, <1>4, <1>5, <1>6, <1>7, <1>8, <1>9, <1>10, <1>11, <1>12, <1>13
  DEF ProcessNext, SessionStep

(* A task holds a permit from its start to its end, and no longer.          *)
LEMMA TasksInvStep ==
    ASSUME TasksInv, TaskStep
    PROVE  TasksInv'
<1> USE DEF TasksInv
<1>0. Cardinality(LiveTasks) \in Nat
  BY FS_CardinalityType
<1>1. ASSUME NEW c \in Connections, NEW t, conn' = [conn EXCEPT ![c] = t],
             DOMAIN t = TaskFields
      PROVE  /\ DOMAIN conn' = Connections
             /\ \A d \in Connections : DOMAIN conn'[d] = TaskFields
             /\ LiveTasks' = IF t.at \in LiveStages THEN LiveTasks \cup {c}
                                                    ELSE LiveTasks \ {c}
  <2>1. \A d \in Connections : conn'[d] = IF d = c THEN t ELSE conn[d]
    BY <1>1
  <2>2. /\ LiveTasks  = {d \in Connections : conn[d].at \in LiveStages}
        /\ LiveTasks' = {d \in Connections : conn'[d].at \in LiveStages}
    BY DEF LiveTasks, Live, LiveStages
  <2> HIDE DEF TasksInv
  <2>3. ASSUME t.at \in LiveStages PROVE LiveTasks' = LiveTasks \cup {c}
    BY <2>1, <2>2, <2>3
  <2>4. ASSUME t.at \notin LiveStages PROVE LiveTasks' = LiveTasks \ {c}
    BY <2>1, <2>2, <2>4
  <2>5. LiveTasks' = IF t.at \in LiveStages THEN LiveTasks \cup {c} ELSE LiveTasks \ {c}
    BY <2>3, <2>4
  <2>6. DOMAIN conn' = Connections /\ \A d \in Connections : DOMAIN conn'[d] = TaskFields
    BY <1>1, <2>1 DEF TasksInv
  <2> QED BY <2>5, <2>6
<1>2. ASSUME NEW c \in Connections, Starts(c) PROVE TasksInv'
  <2>1. PICK t : /\ conn' = [conn EXCEPT ![c] = t]
                 /\ DOMAIN t = TaskFields /\ t.at \in LiveStages
    BY <1>2 DEF Starts
  <2>2. LiveTasks' = LiveTasks \cup {c} /\ c \notin LiveTasks
    BY <1>1, <1>2, <2>1 DEF Starts, LiveTasks
  <2>3. IsFiniteSet(LiveTasks') /\ Cardinality(LiveTasks') = Cardinality(LiveTasks) + 1
    BY <2>2, FS_AddElement
  <2>4. free > 0 /\ free' = free - 1
    BY <1>2 DEF Starts
  <2> QED BY <1>0, <1>1, <2>1, <2>3, <2>4, SlotAssumption
<1>3. ASSUME NEW c \in Connections, Moves(c) PROVE TasksInv'
  <2>1. PICK t : /\ conn' = [conn EXCEPT ![c] = t]
                 /\ DOMAIN t = TaskFields /\ t.at \in LiveStages
    BY <1>3 DEF Moves
  <2>2. LiveTasks' = LiveTasks \cup {c}
    BY <1>1, <2>1
  <2>3. c \in LiveTasks
    BY <1>3 DEF Moves, LiveTasks
  <2>4. LiveTasks' = LiveTasks
    BY <2>2, <2>3
  <2> QED BY <1>1, <1>3, <2>1, <2>4 DEF Moves
<1>4. ASSUME NEW c \in Connections, Ends(c) PROVE TasksInv'
  <2>1. PICK t : /\ conn' = [conn EXCEPT ![c] = t]
                 /\ DOMAIN t = TaskFields /\ t.at \notin LiveStages
    BY <1>4 DEF Ends
  <2>2. LiveTasks' = LiveTasks \ {c} /\ c \in LiveTasks
    BY <1>1, <1>4, <2>1 DEF Ends, LiveTasks
  <2>3. IsFiniteSet(LiveTasks') /\ Cardinality(LiveTasks') = Cardinality(LiveTasks) - 1
    BY <2>2, FS_RemoveElement
  <2>4. free' = free + 1
    BY <1>4 DEF Ends
  <2> QED BY <1>0, <1>1, <2>1, <2>3, <2>4, SlotAssumption
<1>5. ASSUME NEW c \in Connections, Joins(c) PROVE TasksInv'
  <2>1. conn' = [conn EXCEPT ![c] = Idle] /\ free' = free
    BY <1>5 DEF Joins
  <2>2. LiveTasks' = LiveTasks \ {c}
    BY <1>1, <2>1, IdleTask DEF LiveStages
  <2>3. c \notin LiveTasks
    BY <1>5 DEF Joins, LiveTasks
  <2>4. LiveTasks' = LiveTasks
    BY <2>2, <2>3
  <2> QED BY <1>1, <2>1, <2>4, IdleTask
<1>6. CASE JoinsAll
  <2>1. LiveTasks = {} /\ LiveTasks' = {}
    BY <1>6, IdleTask DEF JoinsAll, LiveTasks, Live
  <2> QED BY <1>6, <2>1, IdleTask DEF JoinsAll
<1>7. CASE UNCHANGED taskVars
  BY <1>7 DEF taskVars, LiveTasks, Live
<1> QED BY <1>2, <1>3, <1>4, <1>5, <1>6, <1>7 DEF TaskStep

----------------------------------------------------------------------------
(* Where main is, and what its parts are at.                                *)

Starting == {"load", "healthcheck", "bind", "start_target", "start_meshcore", "unwind",
             "start_broker"}
Stages == {"off", "running", "stopping", "stopped"}

TypesInv ==
    /\ pc \in Starting \cup Closing \cup {"serving", "exited"}
    /\ target \in Stages /\ meshcore \in Stages
    /\ hook \subseteq session /\ session \subseteq Connections
    /\ DOMAIN closes = Connections
    /\ DOMAIN history = {"ended", "overtaken", "cut"}

(* Main only goes to places it knows, its parts only to their states, and   *)
(* no session ends under a running hook.                                    *)
LEMMA TypesInvStep ==
    ASSUME TypesInv, [ProcessNext]_vars
    PROVE  TypesInv'
<1> USE DEF TypesInv, Starting, Closing, Stages
<1>1. ASSUME NEW c \in Connections, ConnectionStep(c)
      PROVE  TypesInv'
  BY <1>1 DEF ConnectionStep, Accept, HeaderArrives, RelayFrame, HeaderFails, Answered, UpgradeFails,
              Upgraded, RelayEnds, Reap, AbortConnection, Finish, taskOnly, mainVars,
              partVars, sessionVars
<1>2. ASSUME NEW c \in Connections,
             SessionStarts(c) \/ SessionEnds(c) \/ KickSession(c) \/ HookStarts(c)
      PROVE  TypesInv'
  BY <1>2 DEF SessionStarts, SessionEnds, KickSession, HookStarts, mainVars, partVars
<1>3. ASSUME NEW c \in Connections,
             HookReturns(c) \/ DelayedCloseFires(c) \/ AbortedCloseEnds(c)
      PROVE  TypesInv'
  BY <1>3 DEF HookReturns, CloseAfterFlush, DelayedCloseFires, AbortedCloseEnds, mainVars,
              partVars
<1>4. CASE BindListener \/ StartTarget \/ StartMeshcore
  BY <1>4 DEF BindListener, StartTarget, StartMeshcore, Exit, partVars, sessionVars
<1>5. CASE MeshcoreFails \/ Unwind \/ StartBroker
  BY <1>5 DEF MeshcoreFails, StopTarget, Unwind, StartBroker, Exit, partVars, sessionVars
<1>6. CASE CloseListener \/ UnregisterHooks \/ StopDelayedCloses \/ JoinDelayedCloses \/ StopMqtt
  BY <1>6 DEF CloseListener, UnregisterHooks, StopDelayedCloses, JoinDelayedCloses, StopMqtt,
              closingOnly, partVars
<1>7. CASE SessionsDisconnected \/ ConnectionsShutDown \/ MeshcoreStopped \/ TargetStopped
  BY <1>7 DEF SessionsDisconnected, ConnectionsShutDown, MeshcoreStopped, StopTarget,
              TargetStopped, Exit, closingOnly, partVars
<1>8. CASE StepTimesOut
  <2>1. DOMAIN history' = DOMAIN history
    BY <1>8 DEF StepTimesOut
  <2> QED BY <1>8, <2>1 DEF StepTimesOut, StopTarget, closingOnly
<1>9. CASE RunHealthcheck \/ MqttEnds \/ TargetStops \/ MeshcoreStops
  BY <1>9 DEF RunHealthcheck, Exit, MqttEnds, TargetStops, MeshcoreStops, mainVars, partVars,
              sessionVars
<1>10. CASE ShutdownSignal \/ AcceptFails \/ MqttTaskCompleted
  BY <1>10 DEF ShutdownSignal, AcceptFails, MqttTaskCompleted, Break, partVars, sessionVars
<1>11. ASSUME NEW input, DiscoverConfig(input) PROVE TypesInv'
  BY <1>11 DEF DiscoverConfig, Exit, partVars, sessionVars
<1>12. CASE UNCHANGED vars
  BY <1>12 DEF vars, mainVars, partVars, sessionVars
<1> QED
  BY <1>1, <1>2, <1>3, <1>4, <1>5, <1>6, <1>7, <1>8, <1>9, <1>10, <1>11, <1>12, StepKinds
  DEF SessionStep, StartStep, ClosingStep, PartStep

(* No task, session or hook before main starts.                             *)
LEMMA ProcessStarts == ASSUME ProcessInit PROVE TasksInv /\ TypesInv
<1>1. \A c \in Connections : conn[c] = Idle
  BY DEF ProcessInit
<1>2. LiveTasks = {}
  BY <1>1, IdleTask DEF LiveTasks, Live
<1>3. TasksInv
  BY <1>1, <1>2, IdleTask, SlotAssumption, FS_EmptySet DEF ProcessInit, TasksInv
<1>4. TypesInv
  BY DEF ProcessInit, TypesInv, Starting, Stages
<1> QED BY <1>3, <1>4

(* The permits that are not free are held one each by live tasks, for any   *)
(* number of connections and permits.                                       *)
THEOREM SlotsAreHeld == ProcessSpec => []SlotsAreHeldByTasks
<1>1. TasksInv /\ TypesInv /\ [ProcessNext]_vars => (TasksInv /\ TypesInv)'
  BY TasksMoveOneByOne, TasksInvStep, TypesInvStep
<1>2. TasksInv /\ TypesInv => SlotsAreHeldByTasks
  BY DEF TasksInv, TypesInv, SlotsAreHeldByTasks, LiveTasks, Starting, Stages
<1> QED BY <1>1, <1>2, ProcessStarts, PTL DEF ProcessSpec

----------------------------------------------------------------------------
(* The shutdown: what has ended by the time main has come to each of its    *)
(* steps.                                                                   *)

AfterListener == Closing \ {"close_listener"}
AfterHooks == AfterListener \ {"unregister"}
AfterTake == AfterHooks \ {"take_closes"}
AfterJoin == AfterTake \ {"join_closes"}
AfterMqtt == AfterJoin \ {"stop_mqtt"}
AfterConnections == {"stop_meshcore", "stop_target"}

(* Once the list of delayed closes is taken, a task that is not on it comes *)
(* from a hook that ran when the hooks were unregistered.                   *)
ClosesInv ==
    /\ pc \in AfterHooks => ~hooks /\ hook \subseteq history.overtaken
    /\ \A c \in Connections :
          /\ pc \notin AfterTake \cup {"exited"} => closes[c] \in {"none", "listed"}
          /\ pc \in AfterTake =>
                closes[c] \in {"none", "aborted"}
                    \/ (closes[c] = "stray" /\ c \in history.overtaken)
          /\ pc \in AfterJoin => closes[c] # "aborted"

PartsInv ==
    /\ pc \in AfterListener => ~heartbeat
    /\ pc \in AfterMqtt => mqtt = "ended"
    /\ pc \in Starting \cup AfterConnections => \A c \in Connections : conn[c] = Idle
    /\ pc = "stop_meshcore" => meshcore # "running"
    /\ pc = "stop_target" =>
          /\ target # "running"
          /\ meshcore \in {"off", "stopped"} \/ "stop_meshcore" \in history.cut
    /\ pc = "unwind" => target # "running"
    /\ pc # "exited" => history.ended = "running"

ShutdownInv == ClosesInv /\ PartsInv /\ ExitLeavesNoTask

(* Nothing happens after main has ended.                                    *)
LEMMA ExitedIsFinal ==
    ASSUME pc = "exited", [ProcessNext]_vars
    PROVE  UNCHANGED vars
<1>1. \A c \in Connections : ~ConnectionStep(c)
  BY DEF ConnectionStep, Accept, HeaderArrives, RelayFrame, HeaderFails, Answered,
         UpgradeFails, Upgraded, RelayEnds, Reap, AbortConnection
<1>2. \A c \in Connections : ~SessionStep(c)
  BY DEF SessionStep, SessionStarts, SessionEnds, KickSession, HookStarts, HookReturns,
         DelayedCloseFires, AbortedCloseEnds
<1>3. ~StartStep
  BY DEF StartStep, BindListener, StartTarget, StartMeshcore, MeshcoreFails, Unwind,
         StartBroker, RunHealthcheck, DiscoverConfig
<1>4. ~ClosingStep /\ ~PartStep
  BY DEF ClosingStep, ShutdownSignal, AcceptFails, MqttTaskCompleted, Break, CloseListener,
         UnregisterHooks, StopDelayedCloses, JoinDelayedCloses, StopMqtt,
         SessionsDisconnected, ConnectionsShutDown, MeshcoreStopped, TargetStopped,
         StepTimesOut, PartStep, MqttEnds, TargetStops, MeshcoreStops
<1> QED BY <1>1, <1>2, <1>3, <1>4, StepKinds

(* A step that leaves main, its hooks and its parts where they are.         *)
LEMMA QuietForShutdown ==
    ASSUME ShutdownInv, pc # "exited",
           UNCHANGED <<mainVars, partVars, mqtt, sessionVars, history>>,
           pc \in Starting \cup AfterConnections => conn' = conn
    PROVE  ShutdownInv'
<1> USE DEF ShutdownInv, mainVars, partVars, sessionVars
<1>1. ClosesInv'
  BY DEF ClosesInv
<1>2. PartsInv'
  BY DEF PartsInv
<1>3. ExitLeavesNoTask'
  BY DEF PartsInv, ExitLeavesNoTask
<1> QED BY <1>1, <1>2, <1>3

(* No connection task is left to move when main is not serving.             *)
LEMMA ConnectionsKeepShutdown ==
    ASSUME ShutdownInv, pc # "exited", NEW c \in Connections, ConnectionStep(c)
    PROVE  ShutdownInv'
<1>1. UNCHANGED <<mainVars, partVars, mqtt, sessionVars, history>>
  BY DEF ConnectionStep, Accept, HeaderArrives, RelayFrame, HeaderFails, Answered, UpgradeFails, Upgraded,
         RelayEnds, Reap, AbortConnection, Finish, taskOnly
<1>2. pc = "serving" \/ pc = "connections" \/ conn[c].at # "outside"
  BY DEF ConnectionStep, Accept, HeaderArrives, RelayFrame, HeaderFails, Answered, UpgradeFails, Upgraded,
         RelayEnds, Reap, AbortConnection
<1>3. pc \notin Starting \cup AfterConnections
  BY <1>2, IdleTask DEF ShutdownInv, PartsInv, Starting, AfterConnections
<1> QED BY <1>1, <1>3, QuietForShutdown

(* Sessions, hooks and delayed closes.                                      *)
LEMMA SessionsKeepShutdown ==
    ASSUME ShutdownInv, TypesInv, pc # "exited", NEW c \in Connections, SessionStep(c)
    PROVE  ShutdownInv'
<1>1. UNCHANGED <<mainVars, partVars, mqtt, taskVars, history>>
  BY DEF SessionStep, SessionStarts, SessionEnds, KickSession, HookStarts, HookReturns,
         DelayedCloseFires, AbortedCloseEnds
<1>2. ClosesInv'
  <2> USE DEF ClosesInv, AfterJoin, AfterTake, AfterHooks, AfterListener, Closing, mainVars
  <2>1. CASE SessionStarts(c) \/ SessionEnds(c) \/ KickSession(c)
    BY <1>1, <2>1 DEF ShutdownInv, SessionStarts, SessionEnds, KickSession
  <2>2. CASE HookStarts(c)
    BY <1>1, <2>2 DEF ShutdownInv, HookStarts
  <2>3. CASE HookReturns(c)
    BY <1>1, <2>3 DEF ShutdownInv, TypesInv, HookReturns, CloseAfterFlush, Taken
  <2>4. CASE DelayedCloseFires(c) \/ AbortedCloseEnds(c)
    BY <1>1, <2>4 DEF ShutdownInv, TypesInv, DelayedCloseFires, AbortedCloseEnds
  <2> QED BY <2>1, <2>2, <2>3, <2>4 DEF SessionStep
<1>3. PartsInv'
  BY <1>1 DEF ShutdownInv, PartsInv, mainVars, partVars, taskVars
<1>4. ExitLeavesNoTask'
  BY <1>1 DEF ShutdownInv, PartsInv, ExitLeavesNoTask, mainVars
<1> QED BY <1>2, <1>3, <1>4 DEF ShutdownInv

(* The start: no connection and no delayed close yet; a start that fails    *)
(* at MeshCore.io has stopped the target.                                   *)
LEMMA StartKeepsShutdown ==
    ASSUME ShutdownInv, TypesInv, StartStep
    PROVE  ShutdownInv'
<1> USE DEF ShutdownInv, TypesInv
<1>1. /\ pc \in Starting
      /\ pc' \in Starting \cup {"serving", "exited"}
      /\ UNCHANGED <<taskVars, sessionVars>>
  BY DEF StartStep, BindListener, StartTarget, StartMeshcore, MeshcoreFails, Unwind, StartBroker,
         RunHealthcheck, DiscoverConfig, Exit, Starting
<1>2. pc # "exited" /\ pc \notin Closing /\ pc' \notin Closing
  BY <1>1 DEF Starting, Closing
<1>3. ClosesInv'
  BY <1>1, <1>2 DEF ClosesInv, AfterJoin, AfterTake, AfterHooks, AfterListener, sessionVars
<1>4. /\ pc' # "exited" => history' = history
      /\ pc' = "exited" => history'.ended \notin {"running", "shutdown"}
  BY DEF StartStep, BindListener, StartTarget, StartMeshcore, MeshcoreFails, Unwind, StartBroker,
         RunHealthcheck, DiscoverConfig, Exit, StopTarget
<1>5. pc' = "unwind" => target' # "running"
  BY DEF StartStep, BindListener, StartTarget, StartMeshcore, MeshcoreFails, Unwind, StartBroker,
         RunHealthcheck, DiscoverConfig, Exit, StopTarget
<1>6. history'.ended = "meshcore" => target' \in {"off", "stopped"}
  <2>1. CASE Unwind
    BY <2>1 DEF Unwind, PartsInv, partVars, Stages
  <2>2. CASE ~Unwind
    <3>1. pc' = "exited" => history'.ended # "meshcore"
      BY <2>2 DEF StartStep, BindListener, StartTarget, StartMeshcore, MeshcoreFails, StartBroker,
                  RunHealthcheck, DiscoverConfig, Exit
    <3> QED BY <1>2, <1>4, <3>1 DEF PartsInv
  <2> QED BY <2>1, <2>2
<1>7. PartsInv'
  BY <1>1, <1>2, <1>4, <1>5 DEF PartsInv, AfterListener, AfterMqtt, AfterJoin, AfterTake,
     AfterHooks, AfterConnections, Closing, taskVars
<1>8. ExitLeavesNoTask'
  BY <1>2, <1>4, <1>6 DEF ExitLeavesNoTask, PartsInv
<1> QED BY <1>3, <1>7, <1>8

(* The shutdown itself, step by step.                                       *)
LEMMA ClosingKeepsShutdown ==
    ASSUME ShutdownInv, TypesInv, TasksInv, ClosingStep
    PROVE  ShutdownInv'
<1> USE DEF ShutdownInv, TypesInv, Stages, AfterListener, AfterHooks, AfterTake, AfterJoin,
            AfterMqtt, AfterConnections, Starting, Closing
<1>1. CASE ShutdownSignal \/ AcceptFails \/ MqttTaskCompleted
  <2>1. pc = "serving" /\ pc' = "close_listener" /\ UNCHANGED <<sessionVars, history>>
    BY <1>1 DEF ShutdownSignal, AcceptFails, MqttTaskCompleted, Break
  <2> QED BY <2>1 DEF ClosesInv, PartsInv, ExitLeavesNoTask, sessionVars
<1>2. CASE CloseListener
  BY <1>2 DEF CloseListener, ClosesInv, PartsInv, ExitLeavesNoTask, closingOnly
<1>3. CASE UnregisterHooks
  <2>1. /\ pc = "unregister" /\ pc' = "take_closes" /\ ~hooks'
        /\ history'.overtaken = hook /\ history'.ended = history.ended
        /\ UNCHANGED <<heartbeat, hook, closes>>
    BY <1>3 DEF UnregisterHooks, RemoveHooks, closingOnly
  <2> QED BY <2>1 DEF ClosesInv, PartsInv, ExitLeavesNoTask
<1>4. CASE StopDelayedCloses
  <2>1. /\ pc = "take_closes" /\ pc' = "join_closes"
        /\ \A c \in Connections :
              closes'[c] = IF closes[c] = "listed" THEN "aborted" ELSE closes[c]
        /\ UNCHANGED <<heartbeat, hooks, hook, history>>
    BY <1>4 DEF StopDelayedCloses, closingOnly
  <2> QED BY <2>1 DEF ClosesInv, PartsInv, ExitLeavesNoTask
<1>5. CASE JoinDelayedCloses
  BY <1>5 DEF JoinDelayedCloses, ClosesInv, PartsInv, ExitLeavesNoTask, closingOnly
<1>6. CASE StopMqtt
  BY <1>6 DEF StopMqtt, ClosesInv, PartsInv, ExitLeavesNoTask, closingOnly
<1>7. CASE SessionsDisconnected
  BY <1>7 DEF SessionsDisconnected, ClosesInv, PartsInv, ExitLeavesNoTask, closingOnly
<1>8. CASE ConnectionsShutDown
  <2>1. /\ pc = "connections" /\ pc' = "stop_meshcore"
        /\ \A c \in Connections : conn'[c] = Idle
        /\ meshcore' # "running"
        /\ UNCHANGED <<heartbeat, hooks, hook, closes, mqtt, history>>
    BY <1>8 DEF ConnectionsShutDown
  <2> QED BY <2>1 DEF ClosesInv, PartsInv, ExitLeavesNoTask
<1>9. CASE MeshcoreStopped
  <2>1. /\ pc = "stop_meshcore" /\ pc' = "stop_target" /\ target' # "running"
        /\ meshcore' \in {"off", "stopped"}
        /\ UNCHANGED <<heartbeat, hooks, hook, closes, mqtt, history, conn>>
    BY <1>9 DEF MeshcoreStopped, StopTarget, PartsInv, closingOnly, taskVars
  <2> QED BY <2>1 DEF ClosesInv, PartsInv, ExitLeavesNoTask
<1>10. CASE TargetStopped
  <2>1. /\ pc = "stop_target" /\ pc' = "exited" /\ target' \in {"off", "stopped"}
        /\ history'.ended = "shutdown" /\ history'.cut = history.cut
        /\ history'.overtaken = history.overtaken
        /\ UNCHANGED <<heartbeat, hooks, hook, closes, mqtt, meshcore, conn>>
    BY <1>10 DEF TargetStopped, Exit, PartsInv, closingOnly, taskVars, partVars
  <2> QED BY <2>1 DEF ClosesInv, PartsInv, ExitLeavesNoTask
<1>11. CASE StepTimesOut
  <2>1. /\ history'.cut = history.cut \cup {pc}
        /\ history'.ended = IF pc = "stop_target" THEN "shutdown" ELSE history.ended
        /\ history'.overtaken = history.overtaken
        /\ UNCHANGED <<heartbeat, hooks, hook, closes, mqtt, meshcore, conn>>
    BY <1>11 DEF StepTimesOut, closingOnly, taskVars
  <2>2. CASE pc = "sessions"
    <3>1. pc' = "connections"
      BY <1>11, <2>2 DEF StepTimesOut
    <3> QED BY <2>1, <2>2, <3>1 DEF ClosesInv, PartsInv, ExitLeavesNoTask
  <2>3. CASE pc = "stop_meshcore"
    <3>1. pc' = "stop_target" /\ target' # "running"
      BY <1>11, <2>3 DEF StepTimesOut, StopTarget
    <3> QED BY <2>1, <2>3, <3>1 DEF ClosesInv, PartsInv, ExitLeavesNoTask
  <2>4. CASE pc = "stop_target"
    <3>1. pc' = "exited"
      BY <1>11, <2>4 DEF StepTimesOut
    <3> QED BY <2>1, <2>4, <3>1 DEF ClosesInv, PartsInv, ExitLeavesNoTask
  <2> QED BY <1>11, <2>2, <2>3, <2>4 DEF StepTimesOut
<1> QED
  BY <1>1, <1>2, <1>3, <1>4, <1>5, <1>6, <1>7, <1>8, <1>9, <1>10, <1>11 DEF ClosingStep

(* The listener task and the integrations' stops end by themselves.         *)
LEMMA PartsKeepShutdown ==
    ASSUME ShutdownInv, PartStep
    PROVE  ShutdownInv'
<1>1. /\ pc # "exited"
      /\ UNCHANGED <<mainVars, taskVars, sessionVars, history>>
      /\ mqtt' = mqtt \/ mqtt' = "ended"
      /\ target' = target \/ target' = "stopped"
      /\ meshcore' = meshcore \/ meshcore' = "stopped"
  BY DEF PartStep, MqttEnds, TargetStops, MeshcoreStops, partVars
<1> USE DEF ShutdownInv, mainVars, taskVars, sessionVars
<1>2. ClosesInv'
  BY <1>1 DEF ClosesInv
<1>3. PartsInv'
  BY <1>1 DEF PartsInv
<1>4. ExitLeavesNoTask'
  BY <1>1 DEF PartsInv, ExitLeavesNoTask
<1> QED BY <1>2, <1>3, <1>4

(* What the shutdown has ended stays ended, in every reachable state.       *)
LEMMA ProcessInvHolds == ProcessSpec => [](TasksInv /\ TypesInv /\ ShutdownInv)
<1>1. ProcessInit => TasksInv /\ TypesInv /\ ShutdownInv
  <2> SUFFICES ASSUME ProcessInit PROVE ShutdownInv
    BY ProcessStarts
  <2> USE DEF ProcessInit, AfterListener, AfterHooks, AfterTake, AfterJoin, AfterMqtt,
              AfterConnections, Closing
  <2>1. ClosesInv
    BY DEF ClosesInv
  <2>2. PartsInv
    BY DEF PartsInv
  <2>3. ExitLeavesNoTask
    BY DEF ExitLeavesNoTask
  <2> QED BY <2>1, <2>2, <2>3 DEF ShutdownInv
<1>2. ASSUME TasksInv, TypesInv, ShutdownInv, [ProcessNext]_vars
      PROVE  (TasksInv /\ TypesInv /\ ShutdownInv)'
  <2>1. TasksInv' /\ TypesInv'
    BY <1>2, TasksMoveOneByOne, TasksInvStep, TypesInvStep
  <2>2. CASE pc = "exited" \/ UNCHANGED vars
    <3>1. UNCHANGED vars
      BY <1>2, <2>2, ExitedIsFinal
    <3>2. ShutdownInv'
      BY <1>2, <3>1 DEF vars, mainVars, partVars, taskVars, sessionVars, ShutdownInv,
                        ClosesInv, PartsInv, ExitLeavesNoTask
    <3> QED BY <2>1, <3>2
  <2>3. CASE pc # "exited" /\ ~UNCHANGED vars
    <3>1. ASSUME NEW c \in Connections, ConnectionStep(c) \/ SessionStep(c) PROVE ShutdownInv'
      BY <1>2, <2>3, <3>1, ConnectionsKeepShutdown, SessionsKeepShutdown
    <3>2. ASSUME StartStep PROVE ShutdownInv'
      BY <1>2, <3>2, StartKeepsShutdown
    <3>3. ASSUME ClosingStep PROVE ShutdownInv'
      BY <1>2, <3>3, ClosingKeepsShutdown
    <3>4. ASSUME PartStep PROVE ShutdownInv'
      BY <1>2, <3>4, PartsKeepShutdown
    <3>5. ShutdownInv'
      BY <1>2, <2>3, <3>1, <3>2, <3>3, <3>4, StepKinds
    <3> QED BY <2>1, <3>5
  <2> QED BY <1>2, <2>2, <2>3
<1> QED BY <1>1, <1>2, PTL DEF ProcessSpec

(* Main leaves through its shutdown with no task behind it but what its     *)
(* timed steps gave up on.                                                  *)
THEOREM ExitIsClean == ProcessSpec => []ExitLeavesNoTask
<1>1. ShutdownInv => ExitLeavesNoTask
  BY DEF ShutdownInv
<1> QED BY <1>1, ProcessInvHolds, PTL

----------------------------------------------------------------------------
(* The forwarded chain: recursion over bits and hops.  The provers do not   *)
(* instantiate an induction rule with an operator, so it is stated of a set *)
(* of numbers, and recursion of a step that is a function.                  *)

(* Induction on a set of naturals.                                          *)
LEMMA SetInduction ==
    ASSUME NEW S, 0 \in S, \A n \in Nat : n \in S => n + 1 \in S
    PROVE  \A n \in Nat : n \in S
<1> DEFINE T == Nat \ S
           less == {ss \in Nat \X Nat : ss[1] < ss[2]}
<1> SUFFICES ASSUME T # {} PROVE FALSE
  OBVIOUS
<1>1. IsWellFoundedOn(less, Nat)
  BY NatLessThanWellFounded DEF OpToRel
<1>2. \A x, y \in Nat : y < x => <<y, x>> \in less
  OBVIOUS
<1> HIDE DEF less
<1>3. PICK x \in T : \A y \in T : ~(<<y, x>> \in less)
  BY <1>1, WFMin
<1>4. x \in Nat /\ x # 0 /\ x \notin S
  OBVIOUS
<1>5. x - 1 \in Nat /\ x - 1 < x /\ (x - 1) + 1 = x
  BY <1>4
<1>6. x - 1 \in S
  BY <1>2, <1>3, <1>4, <1>5
<1> QED BY <1>4, <1>5, <1>6

\* f is defined on 0 .. N by recursion: b at zero, then step of the value before.
Recurses(f, N, b, step) ==
    f = [i \in 0 .. N |-> IF i = 0 THEN b ELSE step[<<f[i - 1], i>>]]

(* A function that is defined by recursion from zero to a bound exists.     *)
LEMMA RecursionExists ==
    ASSUME NEW N \in Nat, NEW V, NEW b \in V, NEW step \in [V \X Nat -> V]
    PROVE  \E f \in [0 .. N -> V] : Recurses(f, N, b, step)
<1> DEFINE Solves(f, m) == \A i \in 0 .. m : f[i] = IF i = 0 THEN b ELSE step[<<f[i - 1], i>>]
           S == {m \in Nat : \E f \in [0 .. m -> V] : Solves(f, m)}
<1>1. 0 \in S
  <2> DEFINE f == [i \in 0 .. 0 |-> b]
  <2>1. f \in [0 .. 0 -> V] /\ Solves(f, 0)
    OBVIOUS
  <2> QED BY <2>1
<1>2. ASSUME NEW m \in Nat, m \in S PROVE m + 1 \in S
  <2>1. PICK g \in [0 .. m -> V] : Solves(g, m)
    BY <1>2
  <2> DEFINE last == step[<<g[m], m + 1>>]
             f == [i \in 0 .. (m + 1) |-> IF i = m + 1 THEN last ELSE g[i]]
  <2>2. g[m] \in V /\ <<g[m], m + 1>> \in V \X Nat
    OBVIOUS
  <2>3. last \in V
    BY <2>2
  <2> HIDE DEF last
  <2>4. f \in [0 .. (m + 1) -> V]
    BY <2>3
  <2>5. \A i \in 0 .. m : f[i] = g[i]
    OBVIOUS
  <2>6. f[m + 1] = last
    OBVIOUS
  <2> HIDE DEF f
  <2>7. ASSUME NEW i \in 0 .. (m + 1)
        PROVE  f[i] = IF i = 0 THEN b ELSE step[<<f[i - 1], i>>]
    <3>1. CASE i = m + 1
      <4>1. i # 0 /\ i - 1 = m /\ m \in 0 .. m
        BY <3>1
      <4>2. f[i - 1] = g[m]
        BY <2>5, <4>1
      <4> QED BY <2>6, <3>1, <4>1, <4>2 DEF last
    <3>2. CASE i # m + 1
      <4>1. i \in 0 .. m /\ (i # 0 => i - 1 \in 0 .. m)
        BY <3>2
      <4>2. g[i] = IF i = 0 THEN b ELSE step[<<g[i - 1], i>>]
        BY <2>1, <4>1
      <4> QED BY <2>5, <4>1, <4>2
    <3> QED BY <3>1, <3>2
  <2> QED BY <2>4, <2>7
<1> HIDE DEF S
<1>3. N \in S
  BY <1>1, <1>2, SetInduction
<1>4. PICK f \in [0 .. N -> V] : Solves(f, N)
  BY <1>3 DEF S
<1>5. Recurses(f, N, b, step)
  BY <1>4 DEF Recurses
<1> QED BY <1>5

(* The weights of the bits are the powers of two.                           *)
LEMMA WeightsDouble ==
    ASSUME NEW family \in {"v4", "v6"}
    PROVE  /\ Weight(family)[0] = 1
           /\ \A k \in 1 .. Width[family] : Weight(family)[k] = 2 * Weight(family)[k - 1]
           /\ \A k \in 0 .. Width[family] : Weight(family)[k] \in Nat /\ Weight(family)[k] > 0
<1> DEFINE W == Width[family]
           w == Weight(family)
<1>0. W \in Nat
  BY ConfigAssumption
<1> HIDE DEF W
<1> DEFINE Powers(f) == f = [k \in 0 .. W |-> IF k = 0 THEN 1 ELSE 2 * f[k - 1]]
<1>1. \E f : Powers(f)
  <2> DEFINE step == [p \in Nat \X Nat |-> 2 * p[1]]
  <2>1. step \in [Nat \X Nat -> Nat] /\ 1 \in Nat
    OBVIOUS
  <2>2. \A x, i \in Nat : step[<<x, i>>] = 2 * x
    OBVIOUS
  <2> HIDE DEF step
  <2>3. PICK f \in [0 .. W -> Nat] : Recurses(f, W, 1, step)
    BY <1>0, <2>1, RecursionExists
  <2>4. ASSUME NEW i \in 0 .. W, i # 0 PROVE step[<<f[i - 1], i>>] = 2 * f[i - 1]
    <3>1. i \in Nat /\ f[i - 1] \in Nat
      BY <1>0, <2>4
    <3> QED BY <2>2, <3>1
  <2>5. Powers(f)
    BY <2>3, <2>4 DEF Recurses
  <2> QED BY <2>5
<1>2. w = CHOOSE f : Powers(f)
  BY DEF Weight, W
<1> HIDE DEF w, Powers
<1>3. Powers(w)
  BY <1>1, <1>2
<1>4. w = [k \in 0 .. W |-> IF k = 0 THEN 1 ELSE 2 * w[k - 1]]
  BY <1>3 DEF Powers
<1>5. w[0] = 1
  BY <1>0, <1>4
<1>6. \A k \in 1 .. W : w[k] = 2 * w[k - 1]
  BY <1>0, <1>4
<1> DEFINE S == {k \in Nat : k \in 0 .. W => w[k] \in Nat /\ w[k] > 0}
<1>7. \A k \in Nat : k \in S
  <2>1. 0 \in S
    BY <1>5
  <2>2. ASSUME NEW k \in Nat, k \in S PROVE k + 1 \in S
    <3> SUFFICES ASSUME k + 1 \in 0 .. W PROVE w[k + 1] \in Nat /\ w[k + 1] > 0
      OBVIOUS
    <3>1. k \in 0 .. W /\ k + 1 \in 1 .. W /\ (k + 1) - 1 = k
      BY <1>0
    <3>2. w[k + 1] = 2 * w[k]
      BY <1>6, <3>1
    <3>3. w[k] \in Nat /\ w[k] > 0
      BY <2>2, <3>1
    <3> QED BY <3>2, <3>3
  <2> HIDE DEF S
  <2> QED BY <2>1, <2>2, SetInduction
<1>8. \A k \in 0 .. W : w[k] \in Nat /\ w[k] > 0
  BY <1>0, <1>7
<1> QED BY <1>5, <1>6, <1>8 DEF w, W

(* Dividing by twice a number is dividing by it and then by two.            *)
LEMMA Halve ==
    ASSUME NEW x \in Nat, NEW h \in Nat, h > 0
    PROVE  /\ x \div h \in Nat
           /\ x \div h = 2 * (x \div (2 * h)) + ((x \div h) % 2)
           /\ (x \div h) % 2 \in {0, 1}
<1> DEFINE q == x \div h
           p == x \div (2 * h)
<1>1. q \in Nat /\ q * h <= x /\ x < q * h + h
  OBVIOUS
<1>2. p \in Nat /\ p * (2 * h) <= x /\ x < p * (2 * h) + 2 * h
  OBVIOUS
<1>3. q % 2 \in {0, 1} /\ q \div 2 \in Nat /\ q = 2 * (q \div 2) + (q % 2)
  BY <1>1
<1> HIDE DEF q, p
<1> DEFINE d == q \div 2
           r == q % 2
<1> HIDE DEF d, r
<1>4. q = 2 * d + r /\ r \in {0, 1} /\ d \in Nat
  BY <1>3 DEF d, r
<1>5. d = p
  <2>1. ASSUME d < p PROVE FALSE
    <3>1. d + 1 <= p
      BY <1>2, <1>4, <2>1
    <3>2. (2 * d + 2) * h <= p * (2 * h)
      BY <1>2, <1>4, <3>1
    <3>3. q + 1 <= 2 * d + 2
      BY <1>4
    <3>4. q * h + h <= (2 * d + 2) * h
      BY <1>1, <1>4, <3>3
    <3> QED BY <1>1, <1>2, <1>4, <3>2, <3>4
  <2>2. ASSUME p < d PROVE FALSE
    <3>1. p + 1 <= d
      BY <1>2, <1>4, <2>2
    <3>2. p * (2 * h) + 2 * h <= (2 * d) * h
      BY <1>2, <1>4, <3>1
    <3>3. (2 * d) * h <= q * h
      BY <1>1, <1>4
    <3> QED BY <1>1, <1>2, <1>4, <3>2, <3>3
  <2> QED BY <1>2, <1>4, <2>1, <2>2
<1> QED BY <1>1, <1>3, <1>5 DEF q, p, d

(* Two numbers of an address's width have the same quotient by the weight   *)
(* of the host part exactly when they agree on every bit of the prefix.     *)
LEMMA QuotientIsPrefix ==
    ASSUME NEW family \in {"v4", "v6"},
           NEW a \in 0 .. (Weight(family)[Width[family]] - 1),
           NEW b \in 0 .. (Weight(family)[Width[family]] - 1)
    PROVE  \A p \in 0 .. Width[family] :
              LET host == Weight(family)[Width[family] - p] IN
              a \div host = b \div host <=>
                 \A k \in 1 .. p : LET weight == Weight(family)[Width[family] - k] IN
                     (a \div weight) % 2 = (b \div weight) % 2
<1> DEFINE W == Width[family]
           w == Weight(family)
           Same(k) == (a \div w[W - k]) % 2 = (b \div w[W - k]) % 2
           Agree(p) == \A k \in 1 .. p : Same(k)
           Equal(p) == a \div w[W - p] = b \div w[W - p]
           S == {p \in Nat : p \in 0 .. W => (Equal(p) <=> Agree(p))}
<1>1. W \in Nat
  BY ConfigAssumption
<1>2. /\ \A k \in 1 .. W : w[k] = 2 * w[k - 1]
      /\ \A k \in 0 .. W : w[k] \in Nat /\ w[k] > 0
  BY WeightsDouble
<1>3. a \in Nat /\ b \in Nat /\ a < w[W] /\ b < w[W]
  BY <1>1, <1>2
<1> HIDE DEF W, w
<1>4. 0 \in S
  <2>1. W - 0 = W /\ w[W] \in Nat /\ w[W] > 0
    BY <1>1, <1>2
  <2> DEFINE top == w[W]
  <2>2. Equal(0) <=> a \div top = b \div top
    BY <2>1
  <2>3. top \in Nat /\ top > 0 /\ a < top /\ b < top
    BY <1>3, <2>1
  <2> HIDE DEF top
  <2>4. a \div top = 0 /\ b \div top = 0
    BY <1>3, <2>3
  <2>5. Agree(0)
    OBVIOUS
  <2> QED BY <2>2, <2>4, <2>5
<1>5. ASSUME NEW p \in Nat, p \in S PROVE p + 1 \in S
  <2> SUFFICES ASSUME p + 1 \in 0 .. W PROVE Equal(p + 1) <=> Agree(p + 1)
    OBVIOUS
  <2> DEFINE h == w[W - (p + 1)]
             A == a \div (2 * h)
             B == b \div (2 * h)
             r == (a \div h) % 2
             s == (b \div h) % 2
  <2>1. /\ W - p \in 1 .. W /\ W - (p + 1) \in 0 .. W /\ (W - p) - 1 = W - (p + 1)
        /\ p \in 0 .. W
    BY <1>1
  <2>2. w[W - p] = 2 * h /\ h \in Nat /\ h > 0
    BY <1>2, <2>1
  <2>3. Equal(p) <=> A = B
    BY <2>2
  <2>4. Equal(p + 1) <=> a \div h = b \div h
    OBVIOUS
  <2>5. Same(p + 1) <=> r = s
    OBVIOUS
  <2> HIDE DEF h
  <2>6. /\ a \div h = 2 * A + r /\ r \in {0, 1}
        /\ b \div h = 2 * B + s /\ s \in {0, 1}
    BY <1>3, <2>2, Halve
  <2>7. A \in Nat /\ B \in Nat
    BY <1>3, <2>2
  <2> HIDE DEF A, B, r, s
  <2>8. a \div h = b \div h <=> A = B /\ r = s
    BY <2>6, <2>7
  <2>9. Equal(p) <=> Agree(p)
    BY <1>5, <2>1
  <2>10. Agree(p + 1) <=> Agree(p) /\ Same(p + 1)
    <3> HIDE DEF Same
    <3>1. 1 .. (p + 1) = 1 .. p \cup {p + 1}
      OBVIOUS
    <3> QED BY <3>1
  <2> HIDE DEF Equal, Agree, Same
  <2> QED BY <2>3, <2>4, <2>5, <2>8, <2>9, <2>10
<1> HIDE DEF S
<1>6. \A p \in Nat : p \in S
  BY <1>4, <1>5, SetInduction
<1>7. \A p \in 0 .. W : Equal(p) <=> Agree(p)
  BY <1>1, <1>6 DEF S
<1> QED BY <1>7 DEF w, W

\* What from_str makes of a text it accepts.
Networks == UNION {[family : {f}, bits : 0 .. (Weight(f)[Width[f]] - 1),
                    prefix_len : 0 .. Width[f]] : f \in DOMAIN Width}

(* A network holds an address exactly when they are of one family and agree *)
(* on every bit of the prefix (types.rs, IpNetwork::contains).              *)
LEMMA ContainsIsPrefix ==
    ASSUME NEW n \in Networks, NEW ip \in Address
    PROVE  NetworkContains(n, ip) <=>
              n.family = ip.family /\ SamePrefix(n, ip, n.prefix_len)
<1>1. PICK f \in DOMAIN Width :
         n \in [family : {f}, bits : 0 .. (Weight(f)[Width[f]] - 1), prefix_len : 0 .. Width[f]]
  BY DEF Networks
<1>2. /\ f \in {"v4", "v6"} /\ n.family = f /\ n.prefix_len \in 0 .. Width[f]
      /\ n.bits \in 0 .. (Weight(f)[Width[f]] - 1)
  BY <1>1, ConfigAssumption
<1>3. ASSUME ip.family = f PROVE ip.bits \in 0 .. (Weight(f)[Width[f]] - 1)
  BY <1>3 DEF Address
<1>4. CASE ip.family = f
  <2> DEFINE p == n.prefix_len
             a == n.bits
             b == ip.bits
  <2>1. NetworkContains(n, ip) <=> a \div Weight(f)[Width[f] - p] = b \div Weight(f)[Width[f] - p]
    BY <1>2, <1>4 DEF NetworkContains
  <2>2. SamePrefix(n, ip, p) <=> \A k \in 1 .. p : (a \div Weight(f)[Width[f] - k]) % 2
                                                  = (b \div Weight(f)[Width[f] - k]) % 2
    BY <1>2 DEF SamePrefix
  <2>3. a \div Weight(f)[Width[f] - p] = b \div Weight(f)[Width[f] - p] <=>
           \A k \in 1 .. p : (a \div Weight(f)[Width[f] - k]) % 2
                                = (b \div Weight(f)[Width[f] - k]) % 2
    BY <1>2, <1>3, <1>4, QuotientIsPrefix
  <2> QED BY <1>2, <1>4, <2>1, <2>2, <2>3
<1>5. CASE ip.family # f
  BY <1>2, <1>5 DEF NetworkContains
<1> QED BY <1>4, <1>5

(* The walk starts at the peer and considers one entry after the other,     *)
(* the last one first (proxy.rs, forwarded_source).                         *)
LEMMA WalkSteps ==
    ASSUME NEW hops \in Seq(Address), NEW peer \in Address, NEW networks
    PROVE  /\ Walk(hops, peer, networks)[0] = peer
           /\ \A n \in 1 .. Len(hops) :
                 Walk(hops, peer, networks)[n] =
                    NextHop(Walk(hops, peer, networks)[n - 1], hops[Len(hops) + 1 - n], networks)
<1> DEFINE N == Len(hops)
           walk == Walk(hops, peer, networks)
           Walks(f) == f = [n \in 0 .. N |->
                              IF n = 0 THEN peer ELSE NextHop(f[n - 1], hops[N + 1 - n], networks)]
<1>1. N \in Nat
  OBVIOUS
<1>2. \A n \in 1 .. N : hops[N + 1 - n] \in Address
  <2> SUFFICES ASSUME NEW n \in 1 .. N PROVE hops[N + 1 - n] \in Address
    OBVIOUS
  <2>1. N + 1 - n \in 1 .. N
    BY <1>1
  <2> QED BY <2>1
<1>3. walk = CHOOSE f : Walks(f)
  BY DEF Walk
<1> HIDE DEF N, walk
<1>4. \E f : Walks(f)
  <2> DEFINE step == [p \in Address \X Nat |->
                        IF p[2] \in 1 .. N THEN NextHop(p[1], hops[N + 1 - p[2]], networks)
                        ELSE p[1]]
  <2>1. ASSUME NEW a \in Address, NEW i \in Nat
        PROVE  step[<<a, i>>] = IF i \in 1 .. N THEN NextHop(a, hops[N + 1 - i], networks) ELSE a
    OBVIOUS
  <2>2. ASSUME NEW p \in Address \X Nat PROVE step[p] \in Address
    <3>1. PICK a \in Address, i \in Nat : p = <<a, i>>
      OBVIOUS
    <3> HIDE DEF step
    <3> QED BY <1>2, <2>1, <3>1 DEF NextHop
  <2>3. step \in [Address \X Nat -> Address]
    BY <2>2
  <2> HIDE DEF step
  <2>4. PICK f \in [0 .. N -> Address] : Recurses(f, N, peer, step)
    BY <1>1, <2>3, RecursionExists
  <2>5. ASSUME NEW n \in 0 .. N, n # 0
        PROVE  step[<<f[n - 1], n>>] = NextHop(f[n - 1], hops[N + 1 - n], networks)
    <3>1. n \in Nat /\ n \in 1 .. N /\ f[n - 1] \in Address
      BY <1>1, <2>5
    <3> QED BY <2>1, <3>1
  <2>6. Walks(f)
    BY <2>4, <2>5 DEF Recurses
  <2> QED BY <2>6
<1> HIDE DEF Walks
<1>5. Walks(walk)
  BY <1>3, <1>4
<1>6. walk = [n \in 0 .. N |->
                 IF n = 0 THEN peer ELSE NextHop(walk[n - 1], hops[N + 1 - n], networks)]
  BY <1>5 DEF Walks
<1>7. walk[0] = peer
  BY <1>1, <1>6
<1>8. \A n \in 1 .. N : walk[n] = NextHop(walk[n - 1], hops[N + 1 - n], networks)
  BY <1>1, <1>6
<1> QED BY <1>7, <1>8 DEF walk, N

(* After n entries the walk is at a hop that every later one vouches for,   *)
(* the earliest of them or one that is not trusted.                         *)
LEMMA WalkIsVouchedFor ==
    ASSUME NEW hops \in Seq(Address), NEW peer \in Address, NEW networks
    PROVE  LET chain == hops \o <<peer>> IN
           /\ DOMAIN chain = 1 .. (Len(hops) + 1) /\ Len(chain) = Len(hops) + 1
           /\ \A i \in DOMAIN chain : chain[i] \in Address
           /\ \E i \in DOMAIN chain :
                 /\ Walk(hops, peer, networks)[Len(hops)] = chain[i]
                 /\ \A j \in (i + 1) .. Len(chain) : IsTrustedProxy(chain[j], networks)
                 /\ i = 1 \/ ~IsTrustedProxy(chain[i], networks)
<1> DEFINE N == Len(hops)
           chain == hops \o <<peer>>
           walk == Walk(hops, peer, networks)
           Trusted(ip) == IsTrustedProxy(ip, networks)
           At(n, i) == /\ i \in (N + 1 - n) .. (N + 1)
                       /\ walk[n] = chain[i]
                       /\ \A j \in (i + 1) .. (N + 1) : Trusted(chain[j])
                       /\ i = N + 1 - n \/ ~Trusted(chain[i])
           S == {n \in Nat : n \in 0 .. N => \E i \in 1 .. (N + 1) : At(n, i)}
<1>1. /\ N \in Nat /\ Len(chain) = N + 1 /\ DOMAIN chain = 1 .. (N + 1)
      /\ chain[N + 1] = peer /\ \A i \in 1 .. N : chain[i] = hops[i] /\ chain[i] \in Address
  OBVIOUS
<1>2. /\ walk[0] = peer
      /\ \A n \in 1 .. N : walk[n] = NextHop(walk[n - 1], hops[N + 1 - n], networks)
  BY WalkSteps
<1> HIDE DEF N, chain, walk, Trusted
<1>3. 0 \in S
  <2>1. At(0, N + 1)
    BY <1>1, <1>2
  <2>2. N + 1 \in 1 .. (N + 1)
    BY <1>1
  <2> QED BY <2>1, <2>2
<1>4. ASSUME NEW n \in Nat, n \in S PROVE n + 1 \in S
  <2> SUFFICES ASSUME n + 1 \in 0 .. N PROVE \E i \in 1 .. (N + 1) : At(n + 1, i)
    OBVIOUS
  <2>1. /\ n \in 0 .. N /\ n + 1 \in 1 .. N /\ (n + 1) - 1 = n
        /\ N + 1 - (n + 1) = N - n /\ N - n \in 1 .. N
    BY <1>1
  <2>2. PICK i \in 1 .. (N + 1) : At(n, i)
    BY <1>4, <2>1
  <2>3. walk[n + 1] = IF Trusted(walk[n]) THEN chain[N - n] ELSE walk[n]
    BY <1>1, <1>2, <2>1 DEF NextHop, Trusted
  <2>4. CASE Trusted(walk[n])
    <3>1. i = N + 1 - n
      BY <2>2, <2>4
    <3>2. walk[n + 1] = chain[N - n]
      BY <2>3, <2>4
    <3>3. \A j \in ((N - n) + 1) .. (N + 1) : Trusted(chain[j])
      <4> SUFFICES ASSUME NEW j \in ((N - n) + 1) .. (N + 1) PROVE Trusted(chain[j])
        OBVIOUS
      <4>1. j = i \/ j \in (i + 1) .. (N + 1)
        BY <1>1, <3>1
      <4> QED BY <2>2, <2>4, <4>1
    <3>4. At(n + 1, N - n)
      BY <1>1, <2>1, <3>2, <3>3
    <3>5. N - n \in 1 .. (N + 1)
      BY <1>1, <2>1
    <3> QED BY <3>4, <3>5
  <2>5. CASE ~Trusted(walk[n])
    <3>1. walk[n + 1] = walk[n]
      BY <2>3, <2>5
    <3>2. i \in (N + 1 - (n + 1)) .. (N + 1)
      BY <1>1, <2>2
    <3>3. At(n + 1, i)
      BY <2>2, <2>5, <3>1, <3>2
    <3> QED BY <3>3
  <2> QED BY <2>4, <2>5
<1> HIDE DEF S
<1>5. \A n \in Nat : n \in S
  BY <1>3, <1>4, SetInduction
<1>6. PICK i \in 1 .. (N + 1) : At(N, i)
  BY <1>1, <1>5 DEF S
<1>7. \A j \in DOMAIN chain : chain[j] \in Address
  BY <1>1
<1>8. /\ i \in DOMAIN chain /\ walk[N] = chain[i]
      /\ \A j \in (i + 1) .. Len(chain) : IsTrustedProxy(chain[j], networks)
      /\ i = 1 \/ ~IsTrustedProxy(chain[i], networks)
  BY <1>1, <1>6 DEF Trusted
<1> QED BY <1>1, <1>7, <1>8 DEF N, chain, walk

(* The concatenation of sequences over a set is a sequence over that set.   *)
LEMMA FlattenIsSequence ==
    ASSUME NEW A, NEW seqs \in Seq(Seq(A))
    PROVE  FlattenSeq(seqs) \in Seq(A)
<1> DEFINE n == Len(seqs)
           Flattens(g) == g = [i \in 1 .. n |-> IF i = 1 THEN seqs[i] ELSE g[i - 1] \o seqs[i]]
           flatten == CHOOSE g : Flattens(g)
<1>1. n \in Nat /\ \A i \in 1 .. n : seqs[i] \in Seq(A)
  OBVIOUS
<1>2. FlattenSeq(seqs) = IF n = 0 THEN seqs ELSE flatten[n]
  BY DEF FlattenSeq
<1>3. CASE n = 0
  BY <1>2, <1>3
<1>4. CASE n # 0
  <2> HIDE DEF n
  <2>1. \E g : Flattens(g)
    <3> DEFINE step == [p \in Seq(A) \X Nat |->
                          IF p[2] \in 1 .. n THEN p[1] \o seqs[p[2]] ELSE p[1]]
    <3>1. ASSUME NEW s \in Seq(A), NEW i \in Nat
          PROVE  step[<<s, i>>] = IF i \in 1 .. n THEN s \o seqs[i] ELSE s
      OBVIOUS
    <3>2. ASSUME NEW p \in Seq(A) \X Nat PROVE step[p] \in Seq(A)
      <4>1. PICK s \in Seq(A), i \in Nat : p = <<s, i>>
        OBVIOUS
      <4> HIDE DEF step
      <4>2. CASE i \in 1 .. n
        <5>1. seqs[i] \in Seq(A)
          BY <1>1, <4>2
        <5>2. s \o seqs[i] \in Seq(A)
          BY <5>1
        <5> QED BY <3>1, <4>1, <4>2, <5>2
      <4>3. CASE i \notin 1 .. n
        BY <3>1, <4>1, <4>3
      <4> QED BY <4>2, <4>3
    <3>3. step \in [Seq(A) \X Nat -> Seq(A)] /\ << >> \in Seq(A)
      BY <3>2
    <3> HIDE DEF step
    <3>4. PICK f \in [0 .. n -> Seq(A)] : Recurses(f, n, << >>, step)
      BY <1>1, <3>3, RecursionExists
    <3>5. f[0] = << >>
      BY <1>1, <3>4 DEF Recurses
    <3>6. ASSUME NEW i \in 1 .. n PROVE f[i] = f[i - 1] \o seqs[i]
      <4>1. i \in 0 .. n /\ i # 0 /\ i \in Nat /\ f[i - 1] \in Seq(A)
        BY <1>1
      <4>2. f[i] = step[<<f[i - 1], i>>]
        BY <3>4, <4>1 DEF Recurses
      <4> QED BY <3>1, <4>1, <4>2
    <3>7. f[1] = seqs[1]
      <4>1. 1 \in 1 .. n /\ 1 - 1 = 0
        BY <1>1, <1>4
      <4>2. f[1] = << >> \o seqs[1] /\ seqs[1] \in Seq(A)
        BY <1>1, <3>5, <3>6, <4>1
      <4> QED BY <4>2
    <3> DEFINE g == [i \in 1 .. n |-> f[i]]
    <3>8. Flattens(g)
      <4>1. ASSUME NEW i \in 1 .. n
            PROVE  g[i] = IF i = 1 THEN seqs[i] ELSE g[i - 1] \o seqs[i]
        <5>1. CASE i = 1
          BY <3>7, <5>1
        <5>2. CASE i # 1
          <6>1. i - 1 \in 1 .. n
            BY <1>1, <5>2
          <6>2. g[i - 1] = f[i - 1] /\ g[i] = f[i]
            BY <6>1
          <6> QED BY <3>6, <5>2, <6>2
        <5> QED BY <5>1, <5>2
      <4> QED BY <4>1
    <3> QED BY <3>8
  <2>2. Flattens(flatten)
    BY <2>1
  <2> HIDE DEF flatten
  <2>3. \A i \in 1 .. n : flatten[i] = IF i = 1 THEN seqs[i] ELSE flatten[i - 1] \o seqs[i]
    BY <2>2
  <2> DEFINE S == {i \in Nat : i \in 1 .. n => flatten[i] \in Seq(A)}
  <2>4. 0 \in S
    OBVIOUS
  <2>5. ASSUME NEW i \in Nat, i \in S PROVE i + 1 \in S
    <3> SUFFICES ASSUME i + 1 \in 1 .. n PROVE flatten[i + 1] \in Seq(A)
      OBVIOUS
    <3>1. CASE i = 0
      BY <1>1, <2>3, <3>1
    <3>2. CASE i # 0
      <4>1. i \in 1 .. n /\ i + 1 # 1 /\ (i + 1) - 1 = i
        BY <1>1, <3>2
      <4>2. flatten[i + 1] = flatten[i] \o seqs[i + 1]
        BY <2>3, <4>1
      <4>3. flatten[i] \in Seq(A) /\ seqs[i + 1] \in Seq(A)
        BY <1>1, <2>5, <4>1
      <4> QED BY <4>2, <4>3
    <3> QED BY <3>1, <3>2
  <2> HIDE DEF S
  <2>6. n \in S
    BY <1>1, <2>4, <2>5, SetInduction
  <2>7. flatten[n] \in Seq(A)
    BY <1>1, <1>4, <2>6 DEF S
  <2> QED BY <1>2, <1>4, <2>7 DEF flatten
<1> QED BY <1>3, <1>4

(* The entries of all X-Forwarded-For lines form one sequence.              *)
LEMMA ForwardedIsSequence ==
    ASSUME NEW c \in Connections, NEW request \in Requests[c]
    PROVE  Forwarded(request) \in Seq(Address \cup {Junk})
<1> DEFINE A == Address \cup {Junk}
           lines == request.forwarded
           values == [i \in DOMAIN lines |->
                        IF LowerCase[Trim[lines[i].name]] = "x-forwarded-for"
                        THEN lines[i].value ELSE << >>]
<1> HIDE DEF A
<1>1. lines \in Seq([name : DOMAIN Trim, value : Seq(A)])
  BY ClientAssumption DEF A
<1>2. Forwarded(request) = FlattenSeq(values)
  BY DEF Forwarded
<1> HIDE DEF lines
<1>3. \A i \in DOMAIN lines : lines[i].value \in Seq(A)
  <2> DEFINE Line == [name : DOMAIN Trim, value : Seq(A)]
  <2>1. \A line \in Line : line.value \in Seq(A)
    OBVIOUS
  <2>2. lines \in Seq(Line)
    BY <1>1
  <2> HIDE DEF Line
  <2>3. \A i \in DOMAIN lines : lines[i] \in Line
    BY <2>2
  <2> QED BY <2>1, <2>3
<1>4. DOMAIN lines = 1 .. Len(lines) /\ Len(lines) \in Nat
  BY <1>1
<1>5. values \in Seq(Seq(A))
  BY <1>3, <1>4
<1> HIDE DEF values
<1> QED BY <1>2, <1>5, FlattenIsSequence DEF A

(* The source is the peer or a hop all of whose later hops are trusted; it  *)
(* is not trusted itself unless the chain ends there.                       *)
LEMMA SourceOfChain ==
    ASSUME NEW c \in Connections, NEW request \in Requests[c], NEW peer \in Address,
           NEW networks
    PROVE  LET hops == Forwarded(request)
               chain == (IF Range(hops) \subseteq Address THEN hops ELSE << >>) \o <<peer>>
           IN  /\ \A i \in DOMAIN chain : chain[i] \in Address
               /\ DOMAIN chain = 1 .. Len(chain) /\ Len(chain) \in Nat
               /\ \E i \in DOMAIN chain :
                     /\ ForwardedSource(request, peer, networks) = chain[i]
                     /\ \A j \in (i + 1) .. Len(chain) : IsTrustedProxy(chain[j], networks)
                     /\ i = 1 \/ ~IsTrustedProxy(chain[i], networks)
<1> DEFINE hops == Forwarded(request)
           source == ForwardedSource(request, peer, networks)
<1>1. hops \in Seq(Address \cup {Junk})
  BY ForwardedIsSequence
<1>2. source = IF ~IsTrustedProxy(peer, networks) \/ ~(Range(hops) \subseteq Address)
               THEN peer ELSE Walk(hops, peer, networks)[Len(hops)]
  BY DEF ForwardedSource
<1> HIDE DEF hops, source
<1>3. CASE ~(Range(hops) \subseteq Address)
  <2>1. source = peer
    BY <1>2, <1>3
  <2> DEFINE chain == << >> \o <<peer>>
  <2>2. /\ Len(chain) = 1 /\ DOMAIN chain = 1 .. 1 /\ chain[1] = peer
    OBVIOUS
  <2> HIDE DEF chain
  <2>3. /\ 1 \in DOMAIN chain /\ source = chain[1]
        /\ \A j \in (1 + 1) .. Len(chain) : IsTrustedProxy(chain[j], networks)
        /\ \A i \in DOMAIN chain : chain[i] \in Address
        /\ DOMAIN chain = 1 .. Len(chain) /\ Len(chain) \in Nat
    BY <2>1, <2>2
  <2> QED BY <1>3, <2>3 DEF chain, hops, source
<1>4. CASE Range(hops) \subseteq Address
  <2>1. hops \in Seq(Address)
    BY <1>1, <1>4 DEF Range
  <2> DEFINE chain == hops \o <<peer>>
             N == Len(hops)
             Trusted(ip) == IsTrustedProxy(ip, networks)
  <2>2. /\ DOMAIN chain = 1 .. (N + 1) /\ Len(chain) = N + 1
        /\ \A i \in DOMAIN chain : chain[i] \in Address
        /\ \E i \in DOMAIN chain :
              /\ Walk(hops, peer, networks)[N] = chain[i]
              /\ \A j \in (i + 1) .. Len(chain) : Trusted(chain[j])
              /\ i = 1 \/ ~Trusted(chain[i])
    BY <2>1, WalkIsVouchedFor
  <2>3. N \in Nat /\ chain[N + 1] = peer
    BY <2>1
  <2> HIDE DEF chain, N
  <2>4. CASE Trusted(peer)
    <3>1. source = Walk(hops, peer, networks)[N]
      BY <1>2, <1>4, <2>4 DEF N
    <3> QED BY <1>4, <2>2, <2>3, <3>1 DEF chain, hops, source
  <2>5. CASE ~Trusted(peer)
    <3>1. source = peer
      BY <1>2, <2>5
    <3>2. /\ N + 1 \in DOMAIN chain /\ source = chain[N + 1]
          /\ \A j \in ((N + 1) + 1) .. Len(chain) : Trusted(chain[j])
          /\ ~Trusted(chain[N + 1])
      BY <2>2, <2>3, <2>5, <3>1
    <3> QED BY <1>4, <2>2, <2>3, <3>2 DEF chain, hops, source
  <2> QED BY <2>4, <2>5
<1> QED BY <1>3, <1>4

(* The networks of a configuration that loads are ones from_str returns.    *)
LEMMA LoadedNetworks ==
    ASSUME NEW doc, NEW env, Load(doc, env) # Refused
    PROVE  Load(doc, env).trusted_proxies \subseteq Networks
<1> DEFINE raws == Range(TrustedProxies(doc, env))
<1>1. Load(doc, env) = ConfigOf(doc, env) /\ LimitsAccept(doc, env)
  BY DEF Load
<1>2. ConfigOf(doc, env).trusted_proxies = {IpNetwork(raw) : raw \in raws}
  BY DEF ConfigOf
<1>3. \A raw \in raws : NetworkParses(raw)
  BY <1>1 DEF LimitsAccept
<1> HIDE DEF raws
<1>4. ASSUME NEW raw \in raws PROVE IpNetwork(raw) \in Networks
  <2>1. PICK f \in DOMAIN Width :
           raw.address \in [family : {f}, bits : 0 .. (Weight(f)[Width[f]] - 1)]
    BY <1>3 DEF NetworkParses, Address
  <2>2. raw.address.family = f /\ raw.address.bits \in 0 .. (Weight(f)[Width[f]] - 1)
    BY <2>1
  <2> DEFINE len == IF raw.prefix = Unset THEN Width[f] ELSE raw.prefix
  <2>3. Width[f] \in Nat /\ (raw.prefix = Unset \/ raw.prefix \in 0 .. Width[f])
    BY <1>3, <2>2, ConfigAssumption DEF NetworkParses
  <2>4. len \in 0 .. Width[f]
    BY <2>3
  <2>5. IpNetwork(raw) = [family |-> f, bits |-> raw.address.bits, prefix_len |-> len]
    BY <2>2 DEF IpNetwork
  <2> HIDE DEF len
  <2> QED BY <2>2, <2>4, <2>5 DEF Networks
<1> QED BY <1>1, <1>2, <1>4

----------------------------------------------------------------------------
(* The frame copier.                                                        *)

(* A configuration that is not refused was loaded from some document.       *)
LEMMA DiscoverLoads ==
    ASSUME NEW files, NEW env, Discover(files, env) # Refused
    PROVE  \E doc : Discover(files, env) = Load(doc, env) /\ Load(doc, env) # Refused
<1> DEFINE found == SelectSeq(SearchPath, LAMBDA path : path \in DOMAIN files)
<1>1. CASE "config" \in DOMAIN env
  <2>1. Discover(files, env) = IF env["config"] \in DOMAIN files
                               THEN Load(files[env["config"]], env) ELSE Refused
    BY <1>1 DEF Discover
  <2> QED BY <2>1
<1>2. CASE "config" \notin DOMAIN env /\ found # << >>
  <2>1. Discover(files, env) = Load(files[Head(found)], env)
    BY <1>2 DEF Discover
  <2> QED BY <2>1
<1>3. CASE "config" \notin DOMAIN env /\ found = << >>
  BY <1>3 DEF Discover
<1> QED BY <1>1, <1>2, <1>3

(* The payload limit of an accepted configuration is a number, whether it   *)
(* comes from the environment, the document or the defaults.                *)
LEMMA LoadedLimitIsNatural ==
    ASSUME NEW doc, NEW env, Load(doc, env) # Refused
    PROVE  Load(doc, env).ws_max_payload_bytes \in Nat
<1> DEFINE name == "mqtt_ws_max_payload_bytes"
<1>1. /\ DocumentParses(doc) /\ LimitsAccept(doc, env)
      /\ Load(doc, env) = ConfigOf(doc, env)
  BY DEF Load
<1>2. Load(doc, env).ws_max_payload_bytes = Setting(doc, env, name)
  BY <1>1 DEF ConfigOf
<1>3. CASE IsSet(env, name)
  <2>1. EnvIntAccepts(env, name, 1, U32Max) /\ Setting(doc, env, name) = env[name]
    BY <1>1, <1>3 DEF LimitsAccept, Setting
  <2> QED BY <1>2, <1>3, <2>1 DEF EnvIntAccepts, Bounds
<1>4. CASE ~IsSet(env, name)
  <2>1. Setting(doc, env, name) = Yaml(doc, name)
    BY <1>4 DEF Setting
  <2>2. CASE name \in DOMAIN doc /\ doc[name] # Unset
    <3>1. name \in DOMAIN NumberTypes /\ NumberTypes[name] = 0 .. U32Max
      BY DEF NumberTypes
    <3>2. doc[name] \in 0 .. U32Max
      BY <1>1, <2>2, <3>1 DEF DocumentParses
    <3> QED BY <1>2, <2>1, <2>2, <3>2 DEF Yaml
  <2>3. CASE ~(name \in DOMAIN doc /\ doc[name] # Unset)
    <3>1. name # "broker_name" /\ Yaml(doc, name) = Default(name)
      BY <2>3 DEF Yaml
    <3>2. /\ name \in DOMAIN SectionDefaults /\ SectionDefaults[name] = 65536
          /\ name \notin DOMAIN IataDefaults /\ name \notin DOMAIN IntegrationDefaults
      BY DEF SectionDefaults, IataDefaults, IntegrationDefaults
    <3>3. Default(name) = 65536
      BY <3>2 DEF Default
    <3> QED BY <1>2, <2>1, <3>1, <3>3
  <2> QED BY <2>2, <2>3
<1> QED BY <1>3, <1>4

\* The receiver's message is open exactly when the copier counts one, of the
\* same size and within the limit.
InStep(fragmented, received, limit) ==
    /\ DOMAIN received = {"open", "size", "fault"}
    /\ ~received.fault
    /\ received.open <=> fragmented # Unset
    /\ fragmented # Unset => /\ fragmented \in Nat /\ fragmented <= limit
                             /\ received.size = fragmented

(* A frame the copier accepts keeps the receiver in step and at no fault.   *)
LEMMA FrameKeepsInStep ==
    ASSUME NEW c \in Connections, NEW frame \in Frames[c], NEW limit \in Nat,
           NEW fragmented, NEW received, InStep(fragmented, received, limit),
           FrameAccepts(fragmented, frame, limit)
    PROVE  InStep(FragmentedSize(fragmented, frame), Receive(received, frame, limit), limit)
<1> DEFINE size == IF received.open THEN received.size + frame.len ELSE frame.len
           f == FragmentedSize(fragmented, frame)
           r == Receive(received, frame, limit)
<1>1. /\ frame.kind \in {"continuation", "data", "control", "reserved"}
      /\ frame.fin \in BOOLEAN /\ frame.len \in Nat
  BY FrameAssumption
<1>2. \A n \in Nat : n # Unset
  BY SizeAssumption
<1>3. CASE frame.kind = "control"
  <2>1. f = fragmented
    BY <1>3 DEF FragmentedSize
  <2>2. frame.fin /\ frame.len <= CONTROL_MAX
    BY <1>3 DEF FrameAccepts
  <2>3. ~(frame.len > CONTROL_MAX)
    BY <1>1, <2>2, SizeAssumption
  <2>4. r = [received EXCEPT !.fault = @ \/ ~frame.fin \/ frame.len > CONTROL_MAX]
    BY <1>3 DEF Receive
  <2>5. /\ DOMAIN r = {"open", "size", "fault"}
        /\ r.open = received.open /\ r.size = received.size
        /\ r.fault <=> (received.fault \/ ~frame.fin \/ frame.len > CONTROL_MAX)
    BY <2>4 DEF InStep
  <2> HIDE DEF f, r
  <2>6. ~r.fault
    BY <2>2, <2>3, <2>5 DEF InStep
  <2>7. InStep(f, r, limit)
    BY <2>1, <2>5, <2>6 DEF InStep
  <2> QED BY <2>7 DEF f, r
<1>4. CASE frame.kind \in {"data", "continuation"}
  <2>1. /\ frame.kind = "data" => fragmented = Unset /\ frame.len <= limit
        /\ frame.kind = "continuation" =>
              fragmented # Unset /\ fragmented + frame.len <= limit
    <3>1. CASE frame.kind = "data"
      BY <3>1 DEF FrameAccepts
    <3>2. CASE frame.kind = "continuation"
      <4>1. /\ fragmented # Unset
            /\ MessageSize(fragmented, frame) # Unset
            /\ MessageSize(fragmented, frame) <= limit
        BY <3>2 DEF FrameAccepts
      <4>2. MessageSize(fragmented, frame) = CheckedAdd(fragmented, frame.len)
        BY <3>2 DEF MessageSize
      <4> QED BY <3>2, <4>1, <4>2 DEF CheckedAdd
    <3> QED BY <1>4, <3>1, <3>2
  <2>2. size \in Nat /\ size <= limit
        /\ frame.kind # (IF received.open THEN "data" ELSE "continuation")
    <3>1. CASE frame.kind = "data"
      BY <1>1, <2>1, <3>1 DEF InStep
    <3>2. CASE frame.kind = "continuation"
      BY <1>1, <2>1, <3>2 DEF InStep
    <3> QED BY <1>4, <3>1, <3>2
  <2>3. f = IF frame.fin THEN Unset ELSE size
    <3>1. CASE frame.fin
      BY <1>4, <3>1 DEF FragmentedSize
    <3>2. CASE ~frame.fin /\ frame.kind = "data"
      BY <2>1, <3>2 DEF FragmentedSize, MessageSize, InStep
    <3>3. CASE ~frame.fin /\ frame.kind = "continuation"
      <4>1. f = CheckedAdd(fragmented, frame.len) /\ f # Unset
        BY <3>3 DEF FragmentedSize, MessageSize, FrameAccepts
      <4> QED BY <2>1, <3>3, <4>1 DEF CheckedAdd, InStep
    <3> QED BY <1>4, <3>1, <3>2, <3>3
  <2> DEFINE open  == ~frame.fin
             kept  == IF frame.fin THEN 0 ELSE size
             fault == \/ received.fault \/ size > limit
                      \/ frame.kind = (IF received.open THEN "data" ELSE "continuation")
  <2>4. r = [open |-> open, size |-> kept, fault |-> fault]
    BY <1>4 DEF Receive
  <2> HIDE DEF f, size, r, open, kept, fault
  <2>5. /\ DOMAIN r = {"open", "size", "fault"}
        /\ r.open = open /\ r.size = kept /\ r.fault = fault
    BY <2>4
  <2>6. ~(size > limit)
    BY <2>2
  <2>7. ~r.fault
    <3>1. ~fault
      BY <2>2, <2>6 DEF InStep, fault
    <3> QED BY <2>5, <3>1
  <2>8. InStep(f, r, limit)
    BY <1>2, <2>2, <2>3, <2>5, <2>7 DEF InStep, open, kept
  <2> QED BY <2>8 DEF f, r
<1>5. CASE frame.kind = "reserved"
  BY <1>5 DEF FrameAccepts
<1> QED BY <1>1, <1>3, <1>4, <1>5

RelaysInStep ==
    \A c \in Connections : conn[c].at = "relaying" =>
        InStep(conn[c].fragmented, conn[c].received, frontend.max)

LimitInv ==
    /\ pc \in {"bind", "start_target", "start_meshcore"} =>
          config.ws_max_payload_bytes \in Nat /\ config.trusted_proxies \subseteq Networks
    /\ pc \in {"start_broker", "serving"} \cup Closing =>
          frontend.max \in Nat /\ frontend.trusted \subseteq Networks

(* The limit is a number and the trusted networks are networks as long as   *)
(* they are known, and both are fixed before the first connection.          *)
LEMMA LimitInvStep ==
    ASSUME TypesInv, PartsInv, LimitInv, [ProcessNext]_vars
    PROVE  /\ LimitInv'
           /\ (\A c \in Connections : conn[c] = Idle) \/ frontend' = frontend
<1> USE DEF LimitInv, Closing
<1>1. ASSUME NEW input \in Inputs, DiscoverConfig(input)
      PROVE  LimitInv' /\ frontend' = frontend
  <2>1. CASE pc' = "exited"
    BY <1>1, <2>1 DEF DiscoverConfig
  <2>2. CASE config' # Refused
    <3>1. config' = Discover(input.files, input.env) /\ frontend' = frontend
          /\ pc' \in {"bind", "healthcheck"}
      BY <1>1, <2>2 DEF DiscoverConfig
    <3>2. PICK doc : config' = Load(doc, input.env) /\ Load(doc, input.env) # Refused
      BY <2>2, <3>1, DiscoverLoads
    <3>3. config'.ws_max_payload_bytes \in Nat /\ config'.trusted_proxies \subseteq Networks
      BY <3>2, LoadedLimitIsNatural, LoadedNetworks
    <3> QED BY <3>1, <3>3
  <2> QED BY <1>1, <2>1, <2>2 DEF DiscoverConfig, Exit
<1>2. CASE StartMeshcore
  <2>1. /\ pc = "start_meshcore" /\ pc' = "start_broker"
        /\ frontend'.max = IF config.ws_max_payload_bytes < UsizeMax
                           THEN config.ws_max_payload_bytes ELSE UsizeMax
        /\ frontend'.trusted = config.trusted_proxies
    BY <1>2 DEF StartMeshcore
  <2>2. frontend'.max \in Nat /\ frontend'.trusted \subseteq Networks
    BY <2>1, SizeAssumption
  <2>3. \A c \in Connections : conn[c] = Idle
    BY <2>1 DEF PartsInv, Starting
  <2> QED BY <2>1, <2>2, <2>3
<1>3. CASE BindListener \/ StartTarget \/ MeshcoreFails \/ Unwind \/ StartBroker \/ RunHealthcheck
  BY <1>3 DEF BindListener, StartTarget, MeshcoreFails, Unwind, StartBroker, RunHealthcheck, Exit
<1>4. CASE CloseListener \/ UnregisterHooks \/ StopDelayedCloses \/ JoinDelayedCloses \/ StopMqtt
           \/ SessionsDisconnected \/ ConnectionsShutDown \/ MeshcoreStopped \/ TargetStopped
  BY <1>4 DEF CloseListener, UnregisterHooks, StopDelayedCloses, JoinDelayedCloses, StopMqtt,
              SessionsDisconnected, ConnectionsShutDown, MeshcoreStopped, TargetStopped, Exit,
              closingOnly
<1>5. CASE StepTimesOut \/ ShutdownSignal \/ AcceptFails \/ MqttTaskCompleted
  BY <1>5 DEF StepTimesOut, closingOnly, ShutdownSignal, AcceptFails, MqttTaskCompleted, Break
<1>6. ASSUME NEW c \in Connections, ConnectionStep(c)
      PROVE  UNCHANGED mainVars
  BY <1>6 DEF ConnectionStep, Accept, HeaderArrives, RelayFrame, HeaderFails, Answered, UpgradeFails,
              Upgraded, RelayEnds, Reap, AbortConnection, Finish, taskOnly
<1>7. ASSUME NEW c \in Connections, SessionStep(c)
      PROVE  UNCHANGED mainVars
  BY <1>7 DEF SessionStep, SessionStarts, SessionEnds, KickSession, HookStarts, HookReturns,
              DelayedCloseFires, AbortedCloseEnds
<1>8. CASE MqttEnds \/ TargetStops \/ MeshcoreStops \/ UNCHANGED vars
  <2>1. UNCHANGED mainVars
    BY <1>8 DEF MqttEnds, TargetStops, MeshcoreStops, vars
  <2> QED BY <2>1 DEF mainVars
<1>9. ASSUME UNCHANGED mainVars PROVE LimitInv' /\ frontend' = frontend
  BY <1>9 DEF mainVars
<1> QED
  BY <1>1, <1>2, <1>3, <1>4, <1>5, <1>6, <1>7, <1>8, <1>9, StepKinds
  DEF StartStep, ClosingStep, PartStep

(* The copier and the receiver behind it stay in step.                      *)
LEMMA RelaysInStepStep ==
    ASSUME TasksInv, TypesInv, PartsInv, LimitInv, RelaysInStep, [ProcessNext]_vars
    PROVE  RelaysInStep'
<1>0. \A c \in Connections : conn[c] # Idle => frontend' = frontend
  <2>1. CASE frontend' = frontend
    BY <2>1
  <2>2. CASE \A c \in Connections : conn[c] = Idle
    BY <2>2
  <2> QED BY <2>1, <2>2, LimitInvStep
<1>1. \A c \in Connections : conn[c].at # "outside" => conn[c] # Idle
  BY IdleTask
<1>2. ASSUME \A c \in Connections : conn'[c].at = "relaying" => conn'[c] = conn[c]
      PROVE  RelaysInStep'
  BY <1>0, <1>1, <1>2 DEF RelaysInStep
<1>3. ASSUME NEW c \in Connections, NEW t, conn' = [conn EXCEPT ![c] = t],
             t.at = "relaying" => /\ frontend' = frontend
                                  /\ InStep(t.fragmented, t.received, frontend.max)
      PROVE  RelaysInStep'
  <2> SUFFICES ASSUME NEW d \in Connections, conn'[d].at = "relaying"
               PROVE  InStep(conn'[d].fragmented, conn'[d].received, frontend'.max)
    BY DEF RelaysInStep
  <2>1. conn'[d] = IF d = c THEN t ELSE conn[d]
    BY <1>3 DEF TasksInv
  <2>2. CASE d = c
    BY <1>3, <2>1, <2>2
  <2>3. CASE d # c
    BY <1>0, <1>1, <2>1, <2>3 DEF RelaysInStep
  <2> QED BY <2>2, <2>3
<1>4. ASSUME NEW c \in Connections, Upgraded(c) PROVE RelaysInStep'
  <2> DEFINE r == [open |-> FALSE, size |-> 0, fault |-> FALSE]
             t == [Idle EXCEPT !.at = "relaying", !.received = r]
  <2>1. conn' = [conn EXCEPT ![c] = t] /\ frontend' = frontend
    BY <1>4 DEF Upgraded, taskOnly, mainVars
  <2>2. t.received = r /\ t.fragmented = Unset
    BY DEF Idle
  <2>3. InStep(Unset, r, frontend.max)
    BY DEF InStep
  <2> HIDE DEF t, r
  <2> QED BY <1>3, <2>1, <2>2, <2>3
<1>5. ASSUME NEW c \in Connections, NEW frame \in Frames[c], RelayFrame(c, frame)
      PROVE  RelaysInStep'
  <2> DEFINE f == conn[c].fragmented
             r == conn[c].received
  <2>1. conn[c].at = "relaying" /\ pc # "exited"
    BY <1>5 DEF RelayFrame
  <2>2. CASE FrameAccepts(f, frame, frontend.max)
    <3> DEFINE t == [conn[c] EXCEPT !.fragmented = FragmentedSize(f, frame),
                                    !.received = Receive(r, frame, frontend.max)]
    <3>1. conn' = [conn EXCEPT ![c] = t] /\ frontend' = frontend
      BY <1>5, <2>2 DEF RelayFrame, TasksInv, TaskFields, taskOnly, mainVars
    <3>2. /\ t.fragmented = FragmentedSize(f, frame)
          /\ t.received = Receive(r, frame, frontend.max)
      BY DEF TasksInv, TaskFields
    <3>3. frontend.max \in Nat
      BY <1>1, <2>1 DEF LimitInv, PartsInv, TypesInv, Starting
    <3>4. InStep(f, r, frontend.max)
      BY <2>1 DEF RelaysInStep
    <3> HIDE DEF t, f, r
    <3>5. InStep(FragmentedSize(f, frame), Receive(r, frame, frontend.max), frontend.max)
      BY <2>2, <3>3, <3>4, FrameKeepsInStep
    <3> QED BY <1>3, <3>1, <3>2, <3>5
  <2>3. CASE ~FrameAccepts(f, frame, frontend.max)
    <3> DEFINE t == [Idle EXCEPT !.at = "done"]
    <3>1. conn' = [conn EXCEPT ![c] = t] /\ t.at = "done"
      BY <1>5, <2>3 DEF RelayFrame, Finish, Idle
    <3> HIDE DEF t
    <3> QED BY <1>3, <3>1
  <2> QED BY <2>2, <2>3
<1>6. ASSUME NEW c \in Connections,
             \/ \E peer \in Peers[c] : Accept(c, peer)
             \/ HeaderFails(c) \/ Answered(c) \/ UpgradeFails(c)
             \/ RelayEnds(c) \/ Reap(c) \/ AbortConnection(c)
      PROVE  RelaysInStep'
  <2>1. UNCHANGED conn \/ \E t : t.at # "relaying" /\ conn' = [conn EXCEPT ![c] = t]
    <3> DEFINE done == [Idle EXCEPT !.at = "done"]
    <3>1. done.at = "done"
      BY DEF Idle
    <3>2. ASSUME NEW peer, Accept(c, peer)
          PROVE  UNCHANGED conn \/ \E t : t.at # "relaying" /\ conn' = [conn EXCEPT ![c] = t]
      <4> DEFINE t == [Idle EXCEPT !.at = "header", !.peer = peer]
      <4>1. t.at = "header"
        BY DEF Idle
      <4>2. UNCHANGED conn \/ conn' = [conn EXCEPT ![c] = t]
        BY <3>2 DEF Accept, taskVars
      <4> HIDE DEF t
      <4> QED BY <4>1, <4>2
    <3>3. CASE Reap(c)
      BY <3>3, IdleTask DEF Reap
    <3>4. CASE HeaderFails(c) \/ Answered(c) \/ UpgradeFails(c) \/ RelayEnds(c)
               \/ AbortConnection(c)
      <4>1. conn' = [conn EXCEPT ![c] = done]
        BY <3>4 DEF HeaderFails, Answered, UpgradeFails, RelayEnds, AbortConnection, Finish
      <4> HIDE DEF done
      <4> QED BY <3>1, <4>1
    <3> QED BY <1>6, <3>2, <3>3, <3>4
  <2> QED BY <1>2, <1>3, <2>1
<1>7. ASSUME NEW c \in Connections, NEW request \in Requests[c], HeaderArrives(c, request)
      PROVE  RelaysInStep'
  <2> DEFINE source == ForwardedSource(request, conn[c].peer, frontend.trusted)
             t == IF Dispatch(request) # "proxy" THEN [Idle EXCEPT !.at = "answering"]
                  ELSE [conn[c] EXCEPT !.at = "upgrading", !.request = request,
                                !.line = ProxyProtocolLine(source, frontend.local)]
  <2>1. conn' = [conn EXCEPT ![c] = t]
    BY <1>7 DEF HeaderArrives, TasksInv
  <2>2. t.at # "relaying"
    BY DEF TasksInv, Idle, TaskFields
  <2> HIDE DEF t
  <2> QED BY <1>3, <2>1, <2>2
<1>8. CASE ConnectionsShutDown
  BY <1>2, <1>8, IdleTask DEF ConnectionsShutDown
<1>9. CASE UNCHANGED conn
  BY <1>2, <1>9
<1>10. ASSUME NEW c \in Connections, SessionStep(c)
       PROVE  UNCHANGED conn
  BY <1>10 DEF SessionStep, SessionStarts, SessionEnds, KickSession, HookStarts, HookReturns,
               DelayedCloseFires, AbortedCloseEnds, taskVars
<1>11. CASE MainSteps /\ ~ConnectionsShutDown
  <2>1. UNCHANGED conn
    BY <1>11 DEF MainSteps, BindListener, StartTarget, StartMeshcore, MeshcoreFails, Unwind,
              StartBroker, CloseListener, UnregisterHooks, StopDelayedCloses,
              JoinDelayedCloses, StopMqtt, SessionsDisconnected, MeshcoreStopped,
              TargetStopped, closingOnly, taskVars
  <2> QED BY <1>9, <2>1
<1>12. CASE StepTimesOut \/ RunHealthcheck \/ MqttEnds \/ TargetStops \/ MeshcoreStops
            \/ ShutdownSignal \/ AcceptFails \/ MqttTaskCompleted
            \/ (\E input \in Inputs : DiscoverConfig(input)) \/ UNCHANGED vars
  <2>1. UNCHANGED conn
    BY <1>12 DEF StepTimesOut, RunHealthcheck, MqttEnds, TargetStops, MeshcoreStops,
                 ShutdownSignal, AcceptFails, MqttTaskCompleted, Break, DiscoverConfig, vars,
                 closingOnly, taskVars
  <2> QED BY <1>9, <2>1
<1> QED
  BY <1>4, <1>5, <1>6, <1>7, <1>8, <1>9, <1>10, <1>11, <1>12 DEF ProcessNext, SessionStep

(* What the copier lets through is a well-formed message stream, for any    *)
(* frames, limits and sizes.                                                *)
THEOREM WireStaysWellFormed == ProcessSpec => []WireIsWellFormed
<1>1. ProcessInit => LimitInv /\ RelaysInStep
  <2>1. ASSUME ProcessInit PROVE \A c \in Connections : conn[c] = Idle
    BY <2>1 DEF ProcessInit
  <2>2. ASSUME ProcessInit PROVE RelaysInStep
    BY <2>1, <2>2, IdleTask DEF RelaysInStep
  <2>3. ASSUME ProcessInit PROVE LimitInv
    BY <2>3 DEF ProcessInit, LimitInv, Closing
  <2> QED BY <2>2, <2>3
<1>2. /\ TasksInv /\ TypesInv /\ ShutdownInv /\ LimitInv /\ RelaysInStep
      /\ [ProcessNext]_vars
      => (LimitInv /\ RelaysInStep)'
  BY LimitInvStep, RelaysInStepStep DEF ShutdownInv
<1>3. RelaysInStep => WireIsWellFormed
  BY DEF RelaysInStep, InStep, WireIsWellFormed
<1> QED BY <1>1, <1>2, <1>3, ProcessInvHolds, PTL DEF ProcessSpec

----------------------------------------------------------------------------
(* The source address the broker is told.                                   *)

\* What SourceIsVouchedFor says of one task.
Holds(n, ip) == n.family = ip.family /\ SamePrefix(n, ip, n.prefix_len)
Told(request, peer, line, trusted) ==
    LET hops == Forwarded(request)
        chain == (IF Range(hops) \subseteq Address THEN hops ELSE << >>) \o <<peer>>
    IN  /\ \E i \in DOMAIN chain :
              /\ line.source = chain[i]
              /\ \A j \in (i + 1) .. Len(chain) : \E n \in trusted : Holds(n, chain[j])
              /\ i = 1 \/ ~(\E n \in trusted : Holds(n, chain[i]))
        /\ line.family = (IF line.source.family = "v4" THEN "TCP4" ELSE "TCP6")
        /\ line.destination.family = line.source.family

\* A task knows its peer before its header, and an upgrade its source.
TaskKnows(t, trusted) ==
    /\ t.at = "header" => t.peer \in Address
    /\ t.at = "upgrading" => Told(t.request, t.peer, t.line, trusted)
ToldInv == \A c \in Connections : TaskKnows(conn[c], frontend.trusted)

(* Networks and addresses are compared by the bits of the prefix.           *)
LEMMA TrustedHolds ==
    ASSUME NEW networks, networks \subseteq Networks, NEW ip \in Address
    PROVE  IsTrustedProxy(ip, networks) <=> \E n \in networks : Holds(n, ip)
<1>1. \A n \in networks : NetworkContains(n, ip) <=> Holds(n, ip)
  BY ContainsIsPrefix DEF Holds
<1> QED BY <1>1 DEF IsTrustedProxy

(* The line made for a request names a source its chain vouches for         *)
(* (proxy.rs).                                                              *)
LEMMA LineIsVouchedFor ==
    ASSUME NEW c \in Connections, NEW request \in Requests[c], NEW peer \in Address,
           NEW networks, networks \subseteq Networks, NEW local
    PROVE  Told(request, peer,
                ProxyProtocolLine(ForwardedSource(request, peer, networks), local), networks)
<1> DEFINE hops == Forwarded(request)
           chain == (IF Range(hops) \subseteq Address THEN hops ELSE << >>) \o <<peer>>
           source == ForwardedSource(request, peer, networks)
           line == ProxyProtocolLine(source, local)
<1>1. /\ line.source = source
      /\ line.family = (IF line.source.family = "v4" THEN "TCP4" ELSE "TCP6")
      /\ line.destination.family = line.source.family
  <2> HIDE DEF source
  <2>1. line.source = source /\ line.family = IF source.family = "v4" THEN "TCP4" ELSE "TCP6"
    BY DEF ProxyProtocolLine
  <2>2. line.destination.family = source.family
    BY DEF ProxyProtocolLine
  <2> QED BY <2>1, <2>2
<1>2. /\ \A i \in DOMAIN chain : chain[i] \in Address
      /\ DOMAIN chain = 1 .. Len(chain) /\ Len(chain) \in Nat
      /\ \E i \in DOMAIN chain :
            /\ source = chain[i]
            /\ \A j \in (i + 1) .. Len(chain) : IsTrustedProxy(chain[j], networks)
            /\ i = 1 \/ ~IsTrustedProxy(chain[i], networks)
  BY SourceOfChain
<1> HIDE DEF line, chain, source
<1>3. PICK i \in DOMAIN chain :
         /\ source = chain[i]
         /\ \A j \in (i + 1) .. Len(chain) : IsTrustedProxy(chain[j], networks)
         /\ i = 1 \/ ~IsTrustedProxy(chain[i], networks)
  BY <1>2
<1>4. \A j \in (i + 1) .. Len(chain) : \E n \in networks : Holds(n, chain[j])
  <2> SUFFICES ASSUME NEW j \in (i + 1) .. Len(chain)
               PROVE  \E n \in networks : Holds(n, chain[j])
    OBVIOUS
  <2>1. j \in DOMAIN chain
    BY <1>2
  <2>2. chain[j] \in Address
    BY <1>2, <2>1
  <2> QED BY <1>3, <2>2, TrustedHolds
<1>5. i = 1 \/ ~(\E n \in networks : Holds(n, chain[i]))
  BY <1>2, <1>3, TrustedHolds
<1>6. /\ \E k \in DOMAIN chain :
            /\ line.source = chain[k]
            /\ \A j \in (k + 1) .. Len(chain) : \E n \in networks : Holds(n, chain[j])
            /\ k = 1 \/ ~(\E n \in networks : Holds(n, chain[k]))
      /\ line.family = (IF line.source.family = "v4" THEN "TCP4" ELSE "TCP6")
      /\ line.destination.family = line.source.family
  BY <1>1, <1>3, <1>4, <1>5
<1>7. Told(request, peer, line, networks)
  BY <1>6 DEF Told, chain
<1> QED BY <1>7 DEF line, source

(* No step tells the broker a source that is not vouched for, and none      *)
(* changes the networks under a task.                                       *)
LEMMA ToldInvStep ==
    ASSUME TasksInv, TypesInv, PartsInv, LimitInv, ToldInv, [ProcessNext]_vars
    PROVE  ToldInv'
<1>0. \A c \in Connections : conn[c] # Idle => frontend' = frontend
  <2>1. CASE frontend' = frontend
    BY <2>1
  <2>2. CASE \A c \in Connections : conn[c] = Idle
    BY <2>2
  <2> QED BY <2>1, <2>2, LimitInvStep
<1>1. \A t, trusted : t.at \notin {"header", "upgrading"} => TaskKnows(t, trusted)
  BY DEF TaskKnows
<1>2. ASSUME NEW c \in Connections, conn'[c] = conn[c]
      PROVE  TaskKnows(conn'[c], frontend'.trusted)
  <2>1. CASE conn[c] = Idle
    BY <1>1, <1>2, <2>1, IdleTask
  <2>2. CASE conn[c] # Idle
    BY <1>0, <1>2, <2>2 DEF ToldInv
  <2> QED BY <2>1, <2>2
<1>3. ASSUME NEW c \in Connections, NEW t, conn' = [conn EXCEPT ![c] = t],
             TaskKnows(t, frontend'.trusted)
      PROVE  ToldInv'
  <2> SUFFICES ASSUME NEW d \in Connections
               PROVE  TaskKnows(conn'[d], frontend'.trusted)
    BY DEF ToldInv
  <2>1. conn'[d] = IF d = c THEN t ELSE conn[d]
    BY <1>3 DEF TasksInv
  <2>2. CASE d = c
    BY <1>3, <2>1, <2>2
  <2>3. CASE d # c
    BY <1>2, <2>1, <2>3
  <2> QED BY <2>2, <2>3
<1>4. ASSUME UNCHANGED conn PROVE ToldInv'
  BY <1>2, <1>4 DEF ToldInv
<1>5. ASSUME NEW c \in Connections, NEW t, conn' = [conn EXCEPT ![c] = t],
             t.at \notin {"header", "upgrading"}
      PROVE  ToldInv'
  BY <1>1, <1>3, <1>5
<1>6. ASSUME NEW c \in Connections, NEW peer \in Peers[c], Accept(c, peer) PROVE ToldInv'
  <2> DEFINE t == [Idle EXCEPT !.at = "header", !.peer = peer]
  <2>1. t.at = "header" /\ t.peer = peer /\ peer \in Address
    BY ClientAssumption DEF Idle
  <2>2. UNCHANGED conn \/ conn' = [conn EXCEPT ![c] = t]
    BY <1>6 DEF Accept, taskVars
  <2> HIDE DEF t
  <2>3. TaskKnows(t, frontend'.trusted)
    BY <2>1 DEF TaskKnows
  <2> QED BY <1>3, <1>4, <2>2, <2>3
<1>7. ASSUME NEW c \in Connections, NEW request \in Requests[c], HeaderArrives(c, request)
      PROVE  ToldInv'
  <2> DEFINE peer == conn[c].peer
             trusted == frontend.trusted
             line == ProxyProtocolLine(ForwardedSource(request, peer, trusted), frontend.local)
             up == [conn[c] EXCEPT !.at = "upgrading", !.request = request, !.line = line]
             answer == [Idle EXCEPT !.at = "answering"]
  <2>1. /\ conn[c].at = "header" /\ pc # "exited" /\ frontend' = frontend
        /\ conn' = [conn EXCEPT ![c] = IF Dispatch(request) # "proxy" THEN answer ELSE up]
    BY <1>7 DEF HeaderArrives, TasksInv, taskOnly, mainVars
  <2>2. conn[c] # Idle /\ pc \notin Starting
    BY <2>1, IdleTask DEF PartsInv
  <2>3. trusted \subseteq Networks
    BY <2>1, <2>2 DEF LimitInv, TypesInv, Starting
  <2>4. peer \in Address
    BY <2>1 DEF ToldInv, TaskKnows
  <2> HIDE DEF peer, trusted
  <2>5. Told(request, peer, line, trusted)
    BY <2>3, <2>4, LineIsVouchedFor
  <2> HIDE DEF line
  <2>6. up.at = "upgrading" /\ up.request = request /\ up.line = line /\ up.peer = peer
    BY DEF TasksInv, TaskFields, peer
  <2>7. answer.at = "answering"
    BY DEF Idle
  <2> HIDE DEF up, answer
  <2>8. TaskKnows(up, frontend'.trusted)
    BY <2>1, <2>5, <2>6 DEF TaskKnows, trusted
  <2>9. CASE Dispatch(request) # "proxy"
    BY <1>5, <2>1, <2>7, <2>9
  <2>10. CASE Dispatch(request) = "proxy"
    BY <1>3, <2>1, <2>8, <2>10
  <2> QED BY <2>9, <2>10
<1>8. ASSUME NEW c \in Connections, Finish(c) PROVE ToldInv'
  <2> DEFINE t == [Idle EXCEPT !.at = "done"]
  <2>1. conn' = [conn EXCEPT ![c] = t] /\ t.at = "done"
    BY <1>8 DEF Finish, Idle
  <2> HIDE DEF t
  <2> QED BY <1>5, <2>1
<1>9. ASSUME NEW c \in Connections, Upgraded(c) PROVE ToldInv'
  <2> DEFINE t == [Idle EXCEPT !.at = "relaying",
                               !.received = [open |-> FALSE, size |-> 0, fault |-> FALSE]]
  <2>1. conn' = [conn EXCEPT ![c] = t] /\ t.at = "relaying"
    BY <1>9 DEF Upgraded, Idle
  <2> HIDE DEF t
  <2> QED BY <1>5, <2>1
<1>10. ASSUME NEW c \in Connections, NEW frame \in Frames[c], RelayFrame(c, frame)
       PROVE  ToldInv'
  <2> DEFINE t == [conn[c] EXCEPT !.fragmented = FragmentedSize(@, frame),
                                  !.received = Receive(@, frame, frontend.max)]
  <2>1. conn[c].at = "relaying" /\ (Finish(c) \/ conn' = [conn EXCEPT ![c] = t])
    BY <1>10 DEF RelayFrame, TasksInv, TaskFields
  <2>2. t.at = "relaying"
    BY <2>1 DEF TasksInv, TaskFields
  <2> HIDE DEF t
  <2> QED BY <1>5, <1>8, <2>1, <2>2
<1>11. ASSUME NEW c \in Connections,
              \/ HeaderFails(c) \/ Answered(c) \/ UpgradeFails(c) \/ RelayEnds(c)
              \/ AbortConnection(c)
       PROVE  ToldInv'
  <2> DEFINE t == [Idle EXCEPT !.at = "done"]
  <2>1. conn' = [conn EXCEPT ![c] = t]
    BY <1>11 DEF HeaderFails, Answered, UpgradeFails, RelayEnds, AbortConnection, Finish
  <2>2. t.at = "done"
    BY DEF Idle
  <2> HIDE DEF t
  <2> QED BY <1>5, <2>1, <2>2
<1>12. ASSUME NEW c \in Connections, Reap(c) PROVE ToldInv'
  <2>1. conn' = [conn EXCEPT ![c] = Idle] /\ Idle.at = "outside"
    BY <1>12, IdleTask DEF Reap
  <2> QED BY <1>5, <2>1
<1>13. ASSUME NEW c \in Connections, ConnectionStep(c) PROVE ToldInv'
  BY <1>6, <1>7, <1>9, <1>10, <1>11, <1>12, <1>13 DEF ConnectionStep
<1>14. CASE ConnectionsShutDown
  <2>1. conn' = [c \in Connections |-> Idle] \/ UNCHANGED conn
    BY <1>14 DEF ConnectionsShutDown, taskVars
  <2>2. ASSUME conn' = [c \in Connections |-> Idle] PROVE ToldInv'
    BY <1>1, <2>2, IdleTask DEF ToldInv
  <2> QED BY <1>4, <2>1, <2>2
<1>15. ASSUME NEW c \in Connections, SessionStep(c) PROVE UNCHANGED conn
  BY <1>15 DEF SessionStep, SessionStarts, SessionEnds, KickSession, HookStarts, HookReturns,
               DelayedCloseFires, AbortedCloseEnds, taskVars
<1>16. CASE StartStep \/ PartStep \/ UNCHANGED vars
  <2>1. UNCHANGED conn
    BY <1>16 DEF StartStep, BindListener, StartTarget, StartMeshcore, MeshcoreFails, Unwind,
                 StartBroker, RunHealthcheck, DiscoverConfig, PartStep, MqttEnds, TargetStops,
                 MeshcoreStops, vars, taskVars
  <2> QED BY <1>4, <2>1
<1>17. CASE ClosingStep /\ ~ConnectionsShutDown
  <2>1. UNCHANGED conn
    BY <1>17 DEF ClosingStep, ShutdownSignal, AcceptFails, MqttTaskCompleted, Break,
                 CloseListener, UnregisterHooks, StopDelayedCloses, JoinDelayedCloses, StopMqtt,
                 SessionsDisconnected, MeshcoreStopped, TargetStopped, StepTimesOut,
                 closingOnly, taskVars
  <2> QED BY <1>4, <2>1
<1> QED
  BY <1>4, <1>13, <1>14, <1>15, <1>16, <1>17, StepKinds

(* The source told to the broker is the peer or a forwarded address that    *)
(* every later hop vouches for, the nearest one that is not trusted, for    *)
(* any networks, address widths and header lines.                           *)
THEOREM SourcesAreVouchedFor == ProcessSpec => []SourceIsVouchedFor
<1>1. ProcessInit => LimitInv /\ ToldInv
  <2>1. ASSUME ProcessInit PROVE LimitInv
    BY <2>1 DEF ProcessInit, LimitInv, Closing
  <2>2. ASSUME ProcessInit PROVE ToldInv
    BY <2>2, IdleTask DEF ProcessInit, ToldInv, TaskKnows
  <2> QED BY <2>1, <2>2
<1>2. TasksInv /\ TypesInv /\ ShutdownInv /\ LimitInv /\ ToldInv /\ [ProcessNext]_vars
         => LimitInv' /\ ToldInv'
  BY LimitInvStep, ToldInvStep DEF ShutdownInv
<1>3. ToldInv => SourceIsVouchedFor
  BY DEF ToldInv, TaskKnows, Told, Holds, SourceIsVouchedFor, Vouched
<1> QED BY <1>1, <1>2, <1>3, ProcessInvHolds, PTL DEF ProcessSpec

----------------------------------------------------------------------------
(* What the loader accepts, the other parts can run on.                     *)

(* A configuration that is loaded has passed every check of the loader.     *)
LEMMA LoadAccepts ==
    ASSUME NEW doc, NEW env, Load(doc, env) # Refused
    PROVE  /\ DocumentParses(doc) /\ AllowlistAccepts(doc, env) /\ LimitsAccept(doc, env)
           /\ TargetAccepts(doc, env) /\ MeshcoreAccepts(doc, env)
           /\ HealthcheckAccepts(doc, env) /\ UsersAccept(doc, env)
           /\ Load(doc, env) = ConfigOf(doc, env)
BY DEF Load

(* A number comes from the environment, from the document, where serde has  *)
(* checked its type, or from the defaults.                                  *)
LEMMA NumberSources ==
    ASSUME NEW doc, NEW env, DocumentParses(doc), NEW s \in DOMAIN NumberTypes,
           s # "broker_name"
    PROVE  \/ IsSet(env, s) /\ Setting(doc, env, s) = env[s]
           \/ Setting(doc, env, s) \in NumberTypes[s]
           \/ Setting(doc, env, s) = Default(s)
<1>1. CASE IsSet(env, s)
  BY <1>1 DEF Setting
<1>2. CASE ~IsSet(env, s)
  <2>1. Setting(doc, env, s) = Yaml(doc, s)
    BY <1>2 DEF Setting
  <2>2. CASE s \in DOMAIN doc /\ doc[s] # Unset
    BY <2>1, <2>2 DEF DocumentParses, Yaml
  <2>3. CASE ~(s \in DOMAIN doc /\ doc[s] # Unset)
    BY <2>1, <2>3 DEF Yaml
  <2> QED BY <2>2, <2>3
<1> QED BY <1>1, <1>2

(* The payload limits and the default number of connections are positive,   *)
(* whatever source each comes from.                                         *)
LEMMA LoadedLimitsArePositive ==
    ASSUME NEW doc, NEW env, DocumentParses(doc), LimitsAccept(doc, env)
    PROVE  /\ Setting(doc, env, "mqtt_ws_max_payload_bytes") > 0
           /\ Setting(doc, env, "mqtt_json_publish_max_bytes") > 0
           /\ Setting(doc, env, "subscribers_default_max_connections") \in Nat
<1>1. Setting(doc, env, "mqtt_ws_max_payload_bytes") > 0
  <2> DEFINE name == "mqtt_ws_max_payload_bytes"
  <2>1. /\ name \in DOMAIN NumberTypes /\ NumberTypes[name] = 0 .. U32Max
        /\ name # "broker_name"
    BY DEF NumberTypes
  <2>2. Default(name) = 65536
    <3>1. /\ name \in DOMAIN SectionDefaults /\ SectionDefaults[name] = 65536
          /\ name \notin DOMAIN IataDefaults /\ name \notin DOMAIN IntegrationDefaults
      BY DEF SectionDefaults, IataDefaults, IntegrationDefaults
    <3> QED BY <3>1 DEF Default
  <2>3. EnvIntAccepts(env, name, 1, U32Max) /\ Setting(doc, env, name) # 0
    BY DEF LimitsAccept
  <2> HIDE DEF name
  <2>4. \/ IsSet(env, name) /\ Setting(doc, env, name) = env[name]
        \/ Setting(doc, env, name) \in 0 .. U32Max
        \/ Setting(doc, env, name) = 65536
    <3>1. \/ IsSet(env, name) /\ Setting(doc, env, name) = env[name]
          \/ Setting(doc, env, name) \in NumberTypes[name]
          \/ Setting(doc, env, name) = Default(name)
      BY <2>1, NumberSources
    <3> QED BY <2>1, <2>2, <3>1
  <2>5. ASSUME IsSet(env, name), Setting(doc, env, name) = env[name]
        PROVE  Setting(doc, env, name) \in 1 .. U32Max
    BY <2>3, <2>5 DEF EnvIntAccepts, Bounds
  <2>6. Setting(doc, env, name) > 0
    <3> DEFINE v == Setting(doc, env, name)
    <3>1. CASE v \in 1 .. U32Max
      BY <3>1, ConfigAssumption
    <3>2. CASE v \in 0 .. U32Max
      BY <2>3, <3>2, ConfigAssumption
    <3>3. CASE v = 65536
      BY <3>3
    <3> QED BY <2>4, <2>5, <3>1, <3>2, <3>3
  <2> QED BY <2>6 DEF name
<1>2. Setting(doc, env, "mqtt_json_publish_max_bytes") > 0
  <2> DEFINE name == "mqtt_json_publish_max_bytes"
  <2>1. /\ name \in DOMAIN NumberTypes /\ NumberTypes[name] = Nat
        /\ name # "broker_name"
    BY DEF NumberTypes
  <2>2. Default(name) = 8192
    <3>1. /\ name \in DOMAIN SectionDefaults /\ SectionDefaults[name] = 8192
          /\ name \notin DOMAIN IataDefaults /\ name \notin DOMAIN IntegrationDefaults
      BY DEF SectionDefaults, IataDefaults, IntegrationDefaults
    <3> QED BY <3>1 DEF Default
  <2>3. EnvIntAccepts(env, name, 1, I64Max) /\ Setting(doc, env, name) # 0
    BY DEF LimitsAccept
  <2> HIDE DEF name
  <2>4. \/ IsSet(env, name) /\ Setting(doc, env, name) = env[name]
        \/ Setting(doc, env, name) \in Nat
        \/ Setting(doc, env, name) = 8192
    BY <2>1, <2>2, NumberSources
  <2>5. ASSUME IsSet(env, name), Setting(doc, env, name) = env[name]
        PROVE  Setting(doc, env, name) \in 1 .. I64Max
    BY <2>3, <2>5 DEF EnvIntAccepts, Bounds
  <2>6. Setting(doc, env, name) > 0
    BY <2>3, <2>4, <2>5, ConfigAssumption
  <2> QED BY <2>6 DEF name
<1>3. Setting(doc, env, "subscribers_default_max_connections") \in Nat
  <2> DEFINE name == "subscribers_default_max_connections"
  <2>1. /\ name \in DOMAIN NumberTypes /\ NumberTypes[name] = Nat
        /\ name # "broker_name"
    BY DEF NumberTypes
  <2>2. Default(name) = Unset
    <3>1. /\ name \in DOMAIN SectionDefaults /\ SectionDefaults[name] = Unset
          /\ name \notin DOMAIN IataDefaults /\ name \notin DOMAIN IntegrationDefaults
      BY DEF SectionDefaults, IataDefaults, IntegrationDefaults
    <3> QED BY <3>1 DEF Default
  <2>3. EnvIntAccepts(env, name, 1, I64Max) /\ Setting(doc, env, name) # Unset
    BY DEF LimitsAccept
  <2> HIDE DEF name
  <2>4. \/ IsSet(env, name) /\ Setting(doc, env, name) = env[name]
        \/ Setting(doc, env, name) \in Nat
    BY <2>1, <2>2, <2>3, NumberSources
  <2>5. ASSUME IsSet(env, name), Setting(doc, env, name) = env[name]
        PROVE  Setting(doc, env, name) \in 1 .. I64Max
    BY <2>3, <2>5 DEF EnvIntAccepts, Bounds
  <2>6. Setting(doc, env, name) \in Nat
    BY <2>3, <2>4, <2>5, ConfigAssumption
  <2> QED BY <2>6 DEF name
<1> QED BY <1>1, <1>2, <1>3

(* Every secondary code is mapped to a primary code of the allowlist, and   *)
(* none of them is a primary code itself (config/iata.rs).                  *)
LEMMA AcceptedAllowlist ==
    ASSUME NEW doc, NEW env, AllowlistAccepts(doc, env),
           DocumentParses(doc), LimitsAccept(doc, env)
    PROVE  PolicyCanUse(ConfigOf(doc, env))
<1> DEFINE list == Allowlist(doc)
           primary == Range(IataCodes(Primaries(list)))
           secondary == Range(IataCodes(Secondaries(list)))
           map == [code \in secondary |-> PrimaryOf(list, code)]
<1>1. /\ ConfigOf(doc, env).allowed_iata = primary
      /\ ConfigOf(doc, env).secondary_iata = map
      /\ ConfigOf(doc, env).ws_max_payload_bytes = Setting(doc, env, "mqtt_ws_max_payload_bytes")
      /\ ConfigOf(doc, env).json_publish_max_bytes =
            Setting(doc, env, "mqtt_json_publish_max_bytes")
  BY DEF ConfigOf
<1>2. /\ DOMAIN list # {}
      /\ primary \subseteq ThreeLetters /\ secondary \subseteq ThreeLetters
      /\ primary \cap secondary = {}
  BY DEF AllowlistAccepts, DisjointCodes
<1> HIDE DEF list
<1>3. \A i \in DOMAIN list : NormalizeIata(list[i].code) \in primary
  BY DEF Primaries, IataCodes, Range
<1>4. primary # {}
  BY <1>2, <1>3
<1>5. ASSUME NEW code \in secondary PROVE PrimaryOf(list, code) \in primary
  <2> DEFINE items(i) == CsvOrVec(list[i].secondary_iata)
             pairs == UNION {{i} \X DOMAIN items(i) : i \in DOMAIN list}
             Lists(entry) == code \in Range(IataCodes(CsvOrVec(entry.secondary_iata)))
  <2>1. Secondaries(list) = [p \in pairs |-> items(p[1])[p[2]]]
    BY DEF Secondaries
  <2>2. PICK p \in pairs : code = NormalizeIata(items(p[1])[p[2]])
    BY <2>1 DEF IataCodes, Range
  <2>3. PICK i \in DOMAIN list : p \in {i} \X DOMAIN items(i)
    BY <2>2
  <2>4. p[1] = i /\ p[2] \in DOMAIN items(i)
    BY <2>3
  <2>5. code \in Range(IataCodes(items(i)))
    BY <2>2, <2>4 DEF IataCodes, Range
  <2>6. list[i] \in Range(list) /\ Lists(list[i])
    BY <2>5 DEF Range
  <2> HIDE DEF Lists
  <2> DEFINE entry == CHOOSE e \in Range(list) : Lists(e)
  <2>7. entry \in Range(list)
    BY <2>6
  <2>8. PrimaryOf(list, code) = NormalizeIata(entry.code)
    BY DEF PrimaryOf, Lists
  <2> HIDE DEF entry
  <2>9. PICK j \in DOMAIN list : entry = list[j]
    BY <2>7 DEF Range
  <2> QED BY <1>3, <2>8, <2>9
<1> HIDE DEF primary, secondary
<1>6. DOMAIN map = secondary /\ Range(map) \subseteq primary
  BY <1>5 DEF Range
<1> HIDE DEF map
<1> QED
  BY <1>1, <1>2, <1>4, <1>6, LoadedLimitsArePositive DEF PolicyCanUse

(* Subscribers have a name, a password, a role and a limit of their own,    *)
(* and no two of them have one name in different case (config/mod.rs).      *)
LEMMA AcceptedUsers ==
    ASSUME NEW doc, NEW env, UsersAccept(doc, env), DocumentParses(doc),
           LimitsAccept(doc, env)
    PROVE  SessionsCanUse(ConfigOf(doc, env))
<1> DEFINE users == Yaml(doc, "subscribers_users")
           made(u) == [username |-> Trim[u.username], password |-> Trim[u.password],
                       role |-> u.role, max_connections |-> MaxConnections(doc, env, u)]
           cfg == ConfigOf(doc, env)
<1>1. /\ cfg.subscribers = {made(u) : u \in Range(users)}
      /\ cfg.token_max_age_seconds = Setting(doc, env, "auth_token_max_age_seconds")
  BY DEF ConfigOf
<1>2. /\ \A u \in Range(users) : UserAccepts(doc, env, u) /\ UserParses(u)
      /\ IsInjective(FoldedNames(users))
  BY DEF UsersAccept, DocumentParses
<1>3. Setting(doc, env, "auth_token_max_age_seconds") >= 0
  BY DEF LimitsAccept
<1> HIDE DEF users, cfg
<1>4. \A u \in Range(users) : /\ made(u).username = Trim[u.username]
                              /\ made(u).password = Trim[u.password]
                              /\ made(u).role = u.role
                              /\ made(u).max_connections = MaxConnections(doc, env, u)
  OBVIOUS
<1> HIDE DEF made
<1>5. ASSUME NEW u \in Range(users)
      PROVE  /\ made(u).username # "" /\ made(u).password # ""
             /\ LowerCase[made(u).username] \notin ReservedNames
             /\ made(u).max_connections >= 1 /\ made(u).role \in 1 .. 3
  <2>1. MaxConnections(doc, env, u) \in Nat /\ MaxConnections(doc, env, u) # 0
    BY <1>2, LoadedLimitsArePositive DEF MaxConnections, UserAccepts, UserParses
  <2>2. made(u).max_connections >= 1
    BY <1>4, <2>1
  <2> QED BY <1>2, <1>4, <2>2 DEF UserAccepts
<1>6. ASSUME NEW u \in Range(users), NEW v \in Range(users),
             LowerCase[made(u).username] = LowerCase[made(v).username]
      PROVE  u = v
  <2>1. PICK i \in DOMAIN users : u = users[i]
    BY DEF Range
  <2>2. PICK j \in DOMAIN users : v = users[j]
    BY DEF Range
  <2>3. FoldedNames(users)[i] = FoldedNames(users)[j]
    BY <1>4, <1>6, <2>1, <2>2 DEF FoldedNames
  <2>4. i = j
    BY <1>2, <2>3 DEF IsInjective, FoldedNames
  <2> QED BY <2>1, <2>2, <2>4
<1>7. ASSUME NEW u \in cfg.subscribers
      PROVE  /\ u.username # "" /\ u.password # ""
             /\ LowerCase[u.username] \notin ReservedNames
             /\ u.max_connections >= 1 /\ u.role \in 1 .. 3
             /\ \A v \in cfg.subscribers :
                   LowerCase[u.username] = LowerCase[v.username] => u = v
  <2>1. PICK a \in Range(users) : u = made(a)
    BY <1>1
  <2>2. ASSUME NEW v \in cfg.subscribers, LowerCase[u.username] = LowerCase[v.username]
        PROVE  u = v
    <3>1. PICK b \in Range(users) : v = made(b)
      BY <1>1
    <3> QED BY <1>6, <2>1, <2>2, <3>1
  <2> QED BY <1>5, <2>1, <2>2
<1> QED BY <1>1, <1>3, <1>7 DEF SessionsCanUse, cfg

(* What a bounded setting's range says of a number.                         *)
LEMMA WithinBounds ==
    ASSUME NEW min \in Int, NEW max \in Int
    PROVE  \A x : x \in Bounds(min, max) <=> x \in Int /\ x >= min /\ x <= max
BY DEF Bounds

(* The target's URL and periods, where it is enabled, are ones it connects  *)
(* with (config/validation.rs).                                             *)
LEMMA AcceptedTarget ==
    ASSUME NEW doc, NEW env, TargetAccepts(doc, env)
    PROVE  LET target_mqtt == TargetMqttConfig(doc, env) IN
           /\ target_mqtt.enabled => TargetConnects(target_mqtt.url)
           /\ target_mqtt.reconnect_period_ms \in {0} \cup Bounds(1000, 300000)
           /\ target_mqtt.connect_timeout_ms \in Bounds(1000, 300000)
<1> DEFINE url == TargetUrl(doc, env)
           period == Setting(doc, env, "target_mqtt_reconnect_period_ms")
           timeout == Setting(doc, env, "target_mqtt_connect_timeout_ms")
<1>1. \A x : /\ x \in Bounds(0, 300000) <=> x \in Int /\ x >= 0 /\ x <= 300000
             /\ x \in Bounds(1, 999) <=> x \in Int /\ x >= 1 /\ x <= 999
             /\ x \in Bounds(1000, 300000) <=> x \in Int /\ x >= 1000 /\ x <= 300000
  BY WithinBounds, SMT
<1>2. CASE TargetEnabled(doc, env)
  <2>1. TargetMqttConfig(doc, env) =
            [enabled |-> TRUE, url |-> url,
             reconnect_period_ms |-> ReconnectPeriod(doc, env),
             connect_timeout_ms |-> timeout]
    BY <1>2, SMT DEF TargetMqttConfig
  <2>2. /\ url # Junk /\ url.host /\ url # Empty
        /\ period \in Bounds(0, 300000) /\ timeout \in Bounds(1000, 300000)
    BY <1>2, SMT DEF TargetAccepts, TargetInt, TargetEnabled
  <2>3. ReconnectPeriod(doc, env) = IF period \in Bounds(1, 999) THEN 1000 ELSE period
    BY SMT DEF ReconnectPeriod
  <2> HIDE DEF url, period, timeout
  <2>4. ReconnectPeriod(doc, env) \in {0} \cup Bounds(1000, 300000)
    BY <1>1, <2>2, <2>3, SMT
  <2>5. TargetConnects(url)
    BY <2>2, SMT DEF TargetConnects
  <2> QED BY <2>1, <2>2, <2>4, <2>5, SMT
<1>3. CASE ~TargetEnabled(doc, env)
  BY <1>1, <1>3, SMT DEF TargetMqttConfig
<1> QED BY <1>2, <1>3

(* The uploader's key, URL and numbers are ones its parts start with, where *)
(* it is enabled; its numbers are in their ranges even where it is not.     *)
LEMMA AcceptedMeshcore ==
    ASSUME NEW doc, NEW env, MeshcoreAccepts(doc, env)
    PROVE  LET meshcore_io == MeshcoreIoConfig(doc, env) IN
           /\ meshcore_io.enabled =>
                 IdentityAccepts(meshcore_io.private_key) /\ meshcore_io.api_url # Empty
           /\ meshcore_io.workers >= 1 /\ meshcore_io.attempts >= 1
           /\ meshcore_io.max_queued_uploads >= 1 /\ meshcore_io.ingress_dedup_ms >= 1000
<1> DEFINE cfg == MeshcoreIoConfig(doc, env)
<1>1. /\ ApiUrlAccepts(cfg.enabled, cfg.api_url) /\ KeyAccepts(cfg.private_key)
      /\ \A s \in DOMAIN MeshcoreRanges : cfg[s] \in MeshcoreRanges[s]
  BY SMT DEF MeshcoreAccepts
<1> HIDE DEF cfg
<1>2. /\ {"workers", "attempts", "max_queued_uploads", "ingress_dedup_ms"}
            \subseteq DOMAIN MeshcoreRanges
      /\ MeshcoreRanges["workers"] = Bounds(1, 32)
      /\ MeshcoreRanges["attempts"] = Bounds(1, 100)
      /\ MeshcoreRanges["max_queued_uploads"] = Bounds(1, 100000)
      /\ MeshcoreRanges["ingress_dedup_ms"] = Bounds(1000, 300000)
  BY SMT DEF MeshcoreRanges
<1>3. /\ cfg.workers \in Bounds(1, 32) /\ cfg.attempts \in Bounds(1, 100)
      /\ cfg.max_queued_uploads \in Bounds(1, 100000)
      /\ cfg.ingress_dedup_ms \in Bounds(1000, 300000)
  BY <1>1, <1>2, SMT
<1>4. /\ cfg.workers >= 1 /\ cfg.attempts >= 1 /\ cfg.max_queued_uploads >= 1
      /\ cfg.ingress_dedup_ms >= 1000
  BY <1>3, WithinBounds, SMT
<1>5. IdentityAccepts(cfg.private_key)
  BY <1>1 DEF KeyAccepts, IdentityAccepts
<1>6. cfg.enabled => cfg.api_url # Empty
  BY <1>1 DEF ApiUrlAccepts
<1> QED BY <1>4, <1>5, <1>6 DEF cfg

(* The healthcheck asks for a path that the frontend answers with 200 OK.   *)
LEMMA AcceptedHealthcheck ==
    ASSUME NEW doc, NEW env, HealthcheckAccepts(doc, env)
    PROVE  Dispatch([method |-> "GET", path |-> HealthcheckUrl(doc, env).path,
                     upgrade |-> << >>, forwarded |-> << >>]) = "200 OK"
<1> DEFINE request == [method |-> "GET", path |-> HealthcheckUrl(doc, env).path,
                       upgrade |-> << >>, forwarded |-> << >>]
<1>1. request.path = "/status" /\ request.method = "GET"
  BY DEF HealthcheckAccepts
<1> HIDE DEF request
<1>2. Dispatch(request) = "200 OK"
  BY <1>1 DEF Dispatch
<1> QED BY <1>2 DEF request

\* What AcceptedConfigIsUsable says of one configuration.
Usable(cfg) ==
    /\ PolicyCanUse(cfg) /\ SessionsCanUse(cfg) /\ IntegrationsCanUse(cfg)
    /\ Dispatch([method |-> "GET", path |-> cfg.healthcheck.url.path,
                 upgrade |-> << >>, forwarded |-> << >>]) = "200 OK"

(* Every document and environment the loader accepts together is usable.    *)
LEMMA LoadedIsUsable ==
    ASSUME NEW doc, NEW env, Load(doc, env) # Refused
    PROVE  Usable(Load(doc, env))
<1> DEFINE cfg == ConfigOf(doc, env)
<1>1. /\ PolicyCanUse(cfg) /\ SessionsCanUse(cfg)
      /\ Load(doc, env) = cfg
  BY LoadAccepts, AcceptedAllowlist, AcceptedUsers
<1>2. /\ cfg.target_mqtt = TargetMqttConfig(doc, env)
      /\ cfg.meshcore_io = MeshcoreIoConfig(doc, env)
      /\ cfg.healthcheck.url = HealthcheckUrl(doc, env)
  BY DEF ConfigOf
<1> HIDE DEF cfg
<1>3. IntegrationsCanUse(cfg)
  BY <1>2, LoadAccepts, AcceptedTarget, AcceptedMeshcore, SMT DEF IntegrationsCanUse
<1>4. Dispatch([method |-> "GET", path |-> cfg.healthcheck.url.path,
                upgrade |-> << >>, forwarded |-> << >>]) = "200 OK"
  BY <1>2, LoadAccepts, AcceptedHealthcheck
<1> QED BY <1>1, <1>3, <1>4 DEF Usable

(* Main holds a configuration only between loading it and handing it to its *)
(* parts, and only one the loader accepted.                                 *)
LEMMA ConfigStaysUsable ==
    ASSUME config \notin {Unset, Refused} => Usable(config), [ProcessNext]_vars
    PROVE  config' \notin {Unset, Refused} => Usable(config')
<1>1. ASSUME config' = config \/ config' = Unset
      PROVE  config' \notin {Unset, Refused} => Usable(config')
  BY <1>1
<1>2. ASSUME NEW input, DiscoverConfig(input), config' # Refused
      PROVE  Usable(config')
  <2>1. config' = Discover(input.files, input.env)
    BY <1>2 DEF DiscoverConfig
  <2>2. PICK doc : config' = Load(doc, input.env) /\ Load(doc, input.env) # Refused
    BY <1>2, <2>1, DiscoverLoads
  <2>3. Usable(Load(doc, input.env))
    BY <2>2, LoadedIsUsable
  <2> QED BY <2>2, <2>3
<1>3. ASSUME NEW c \in Connections, ConnectionStep(c) PROVE config' = config
  BY <1>3 DEF ConnectionStep, Accept, HeaderArrives, RelayFrame, HeaderFails, Answered,
              UpgradeFails, Upgraded, RelayEnds, Reap, AbortConnection, Finish, taskOnly,
              mainVars
<1>4. ASSUME NEW c \in Connections, SessionStep(c) PROVE config' = config
  BY <1>4 DEF SessionStep, SessionStarts, SessionEnds, KickSession, HookStarts, HookReturns,
              DelayedCloseFires, AbortedCloseEnds, mainVars
<1>5. ASSUME ClosingStep \/ PartStep \/ UNCHANGED vars PROVE config' = config
  BY <1>5 DEF ClosingStep, PartStep, CloseListener, UnregisterHooks, StopDelayedCloses,
              JoinDelayedCloses, StopMqtt, SessionsDisconnected, ConnectionsShutDown,
              MeshcoreStopped, TargetStopped, StepTimesOut, closingOnly, ShutdownSignal,
              AcceptFails, MqttTaskCompleted, Break, MqttEnds, TargetStops, MeshcoreStops,
              mainVars, vars
<1>6. ASSUME BindListener \/ StartTarget \/ StartMeshcore \/ MeshcoreFails \/ Unwind
             \/ StartBroker \/ RunHealthcheck
      PROVE  config' = config \/ config' = Unset
  BY <1>6 DEF BindListener, StartTarget, StartMeshcore, MeshcoreFails, Unwind, StartBroker,
              RunHealthcheck
<1> QED BY <1>1, <1>2, <1>3, <1>4, <1>5, <1>6, StepKinds DEF StartStep

(* Every mix of YAML and environment the loader accepts, of any documents   *)
(* and variables, is one the policy, the sessions, the integrations and the *)
(* healthcheck can run on (config/mod.rs:37-270).                           *)
THEOREM LoadedConfigIsUsable == ProcessSpec => []AcceptedConfigIsUsable
<1>1. ProcessInit => AcceptedConfigIsUsable
  BY DEF ProcessInit, AcceptedConfigIsUsable
<1>2. AcceptedConfigIsUsable <=> (config \notin {Unset, Refused} => Usable(config))
  BY DEF AcceptedConfigIsUsable, Usable
<1>3. (config' \notin {Unset, Refused} => Usable(config')) => AcceptedConfigIsUsable'
  BY DEF AcceptedConfigIsUsable, Usable
<1>4. AcceptedConfigIsUsable /\ [ProcessNext]_vars => AcceptedConfigIsUsable'
  BY <1>2, <1>3, ConfigStaysUsable
<1> QED BY <1>1, <1>4, PTL DEF ProcessSpec
=============================================================================
