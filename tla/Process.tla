------------------------------- MODULE Process -------------------------------
(* src/main.rs: the life of the broker process.  It loads its configuration, *)
(* starts the integrations, the hooks, the heartbeat and the internal RMQTT  *)
(* listener, serves frontend connections in tasks of their own, and shuts    *)
(* its parts down in a fixed order when it is told to, when RMQTT ends or    *)
(* when accept fails.                                                        *)
EXTENDS Frontend

CONSTANTS
    Connections,               \* frontend connections, each reused after it ended
    Inputs,                    \* [files, env] the process may be started with
    Peers, Requests, Frames,   \* per connection: what its client may do
    Publishing,                \* connections whose client publishes
    MAX_FRONTEND_CONNECTIONS

ASSUME SlotAssumption == MAX_FRONTEND_CONNECTIONS \in Nat \ {0}
ASSUME FrameAssumption ==
    \A c \in Connections :
        Frames[c] \subseteq [kind : {"continuation", "data", "control", "reserved"},
                            fin : BOOLEAN, len : Nat]

ASSUME ClientAssumption ==
    \A c \in Connections :
        /\ Peers[c] \subseteq Address
        /\ \A request \in Requests[c] :
              request.forwarded \in Seq([name : DOMAIN Trim, value : Seq(Address \cup {Junk})])

VARIABLES
    pc,         \* where main is
    config,     \* the loaded configuration, until the broker is assembled
    frontend,   \* what the frontend keeps of it: the limit and the networks
    target, meshcore,    \* "off", "running", "stopping" or "stopped"
    heartbeat,           \* its task is alive
    hooks,               \* the handler's hooks are registered
    mqtt,                \* the RMQTT listener task: "none", "running", "ended"
    conn,                \* per connection: the state of its task
    free,                \* permits of the frontend semaphore
    session,             \* connections with a live RMQTT session
    hook,                \* sessions with a publish hook in flight
    closes,              \* per session: its delayed close task
    run_error,
    history              \* why main ended, the hooks it overtook, the steps it cut off

mainVars == <<pc, config, frontend, heartbeat, hooks, run_error>>
partVars == <<target, meshcore>>
taskVars == <<conn, free>>
sessionVars == <<session, hook, closes>>
vars == <<mainVars, partVars, mqtt, taskVars, sessionVars, history>>

Closing == {"close_listener", "unregister", "take_closes", "join_closes", "stop_mqtt",
            "sessions", "connections", "stop_meshcore", "stop_target"}

\* A connection task; source, request and line belong to the upgrade, fragmented
\* to the frame copier, received to the WebSocket receiver behind it.
Idle == [at |-> "outside", peer |-> Unset, request |-> Unset, line |-> Unset,
         fragmented |-> Unset, received |-> Unset]
Live(c) == conn[c].at \in {"header", "answering", "upgrading", "relaying"}

ProcessInit ==
    /\ pc = "load" /\ config = Unset /\ frontend = Unset
    /\ target = "off" /\ meshcore = "off" /\ mqtt = "none"
    /\ heartbeat = FALSE /\ hooks = FALSE /\ run_error = FALSE
    /\ conn = [c \in Connections |-> Idle] /\ free = MAX_FRONTEND_CONNECTIONS
    /\ session = {} /\ hook = {} /\ closes = [c \in Connections |-> "none"]
    /\ history = [ended |-> "running", overtaken |-> {}, cut |-> {}]

Exit(reason) == /\ pc' = "exited"
                /\ history' = [history EXCEPT !.ended = reason]

----------------------------------------------------------------------------
(* Start *)

DiscoverConfig(input) ==
    /\ pc = "load"
    /\ config' = Discover(input.files, input.env)
    /\ \/ config' = Refused /\ Exit("configuration")
       \/ config' # Refused /\ pc' \in {"bind", "healthcheck"} /\ UNCHANGED history
    /\ UNCHANGED <<frontend, heartbeat, hooks, run_error, partVars, mqtt, taskVars, sessionVars>>

\* The healthcheck subcommand asks another process and ends.
RunHealthcheck ==
    /\ pc = "healthcheck"
    /\ \E answer \in {Refused} \cup [code : {200, 404}, body : {StatusBody, Junk}] :
          Exit(IF HealthcheckPasses(answer) THEN "healthy" ELSE "unhealthy")
    /\ config' = Unset
    /\ UNCHANGED <<frontend, heartbeat, hooks, run_error, partVars, mqtt, taskVars, sessionVars>>

\* The listener and the loopback reservation are bound, then the router and
\* the retained store are installed.
BindListener ==
    /\ pc = "bind"
    /\ \/ pc' = "start_target" /\ UNCHANGED <<config, history>>
       \/ Exit("bind") /\ config' = Unset
    /\ UNCHANGED <<frontend, heartbeat, hooks, run_error, partVars, mqtt, taskVars, sessionVars>>

\* TargetBridge::start: RumqttTarget::connect parses the URL again.
TargetConnects(url) == url \notin {Empty, Junk} /\ url.host
StartTarget ==
    /\ pc = "start_target"
    /\ \/ ~config.target_mqtt.enabled
          /\ pc' = "start_meshcore" /\ UNCHANGED <<target, config, history>>
       \/ config.target_mqtt.enabled /\ TargetConnects(config.target_mqtt.url)
          /\ target' = "running" /\ pc' = "start_meshcore" /\ UNCHANGED <<config, history>>
       \/ config.target_mqtt.enabled /\ ~TargetConnects(config.target_mqtt.url)
          /\ Exit("target") /\ config' = Unset /\ UNCHANGED target
    /\ UNCHANGED <<frontend, heartbeat, hooks, run_error, meshcore, mqtt, taskVars, sessionVars>>

\* SigningIdentity::new: no key is a random one.
IdentityAccepts(key) ==
    IF key = Empty THEN TRUE
    ELSE key # Junk /\ (key.digits = 64 \/ (key.digits = 128 /\ key.clamped))

\* The HTTP client may fail to build; then the target is stopped, untimed.
LeaveTarget == UNCHANGED target
StopTarget == target' = IF target = "running" THEN "stopping" ELSE target
MeshcoreFails ==
    /\ pc = "start_meshcore" /\ config.meshcore_io.enabled
    /\ StopTarget
    /\ pc' = "unwind" /\ config' = Unset
    /\ UNCHANGED <<frontend, heartbeat, hooks, run_error, meshcore, mqtt, taskVars,
                   sessionVars, history>>
Unwind ==
    /\ pc = "unwind" /\ target # "stopping"
    /\ Exit("meshcore")
    /\ UNCHANGED <<config, frontend, heartbeat, hooks, run_error, partVars, mqtt, taskVars,
                   sessionVars>>

StartMeshcore ==
    /\ pc = "start_meshcore"
    /\ config.meshcore_io.enabled => IdentityAccepts(config.meshcore_io.private_key)
    /\ meshcore' = IF config.meshcore_io.enabled THEN "running" ELSE "off"
    /\ pc' = "start_broker"
    \* UsizeMax, above every u32 in the program, is scaled down in an instance;
    \* an accepted stream's local address is the listener's
    /\ frontend' = [max |-> IF config.ws_max_payload_bytes < UsizeMax
                            THEN config.ws_max_payload_bytes ELSE UsizeMax,
                    trusted |-> config.trusted_proxies, local |-> config.listener]
    /\ config' = Unset
    /\ UNCHANGED <<heartbeat, hooks, run_error, target, mqtt, taskVars, sessionVars, history>>

\* Hooks and heartbeat first; a listener that does not bind ends main with
\* both of them, and the integrations, still running.
StartBroker ==
    /\ pc = "start_broker"
    /\ hooks' = TRUE /\ heartbeat' = TRUE
    /\ \/ mqtt' = "running" /\ pc' = "serving" /\ UNCHANGED history
       \/ Exit("listener") /\ UNCHANGED mqtt
    /\ UNCHANGED <<config, frontend, run_error, partVars, taskVars, sessionVars>>

----------------------------------------------------------------------------
(* Serving: the select loop *)

Break(error) == /\ pc = "serving" /\ pc' = "close_listener" /\ run_error' = error
                /\ UNCHANGED <<config, frontend, heartbeat, hooks, partVars, mqtt, taskVars,
                               sessionVars, history>>

\* The signal arrives, or waiting for it fails.
ShutdownSignal == \E error \in BOOLEAN : Break(error)
AcceptFails == Break(TRUE)
MqttTaskCompleted == mqtt = "ended" /\ Break(TRUE)

\* RMQTT's listener task ends by itself (external)
MqttEnds ==
    /\ mqtt = "running" /\ pc # "exited"
    /\ mqtt' = "ended"
    /\ UNCHANGED <<mainVars, partVars, taskVars, sessionVars, history>>

\* Without a permit the stream is dropped.
TakePermit == free > 0 /\ free' = free - 1
Accept(c, peer) ==
    /\ pc = "serving" /\ conn[c].at = "outside" /\ c \notin session /\ closes[c] = "none"
    /\ \/ /\ TakePermit
          /\ conn' = [conn EXCEPT ![c] = [Idle EXCEPT !.at = "header", !.peer = peer]]
       \/ free = 0 /\ UNCHANGED taskVars
    /\ UNCHANGED <<mainVars, partVars, mqtt, sessionVars, history>>

\* join_next
Reap(c) ==
    /\ pc = "serving" /\ conn[c].at = "done"
    /\ conn' = [conn EXCEPT ![c] = Idle]
    /\ UNCHANGED <<mainVars, partVars, mqtt, free, sessionVars, history>>

----------------------------------------------------------------------------
(* A connection task: handle_frontend_connection and proxy_websocket *)

taskOnly == <<mainVars, partVars, mqtt, sessionVars, history>>

\* The task's end drops its permit; so does an abort.
KeepPermit == UNCHANGED free
ReturnPermit == free' = free + 1
Finish(c) ==
    /\ conn' = [conn EXCEPT ![c] = [Idle EXCEPT !.at = "done"]]
    /\ ReturnPermit
    /\ UNCHANGED taskOnly

HeaderArrives(c, request) ==
    /\ conn[c].at = "header" /\ pc # "exited"
    /\ conn' = [conn EXCEPT ![c] =
          IF Dispatch(request) # "proxy" THEN [Idle EXCEPT !.at = "answering"]
          ELSE LET source == ForwardedSource(request, conn[c].peer, frontend.trusted) IN
               [@ EXCEPT !.at = "upgrading", !.request = request,
                         !.line = ProxyProtocolLine(source, frontend.local)]]
    /\ UNCHANGED <<free, taskOnly>>

\* End of file, more than 16 KiB, or HTTP_HEADER_TIMEOUT.
NoHeaderTimeout(c) == FALSE /\ UNCHANGED vars
HeaderFails(c) == conn[c].at = "header" /\ pc # "exited" /\ Finish(c)

Answered(c) == conn[c].at = "answering" /\ pc # "exited" /\ Finish(c)

\* The upstream refuses, breaks, or sends no header in time.
UpgradeFails(c) == conn[c].at = "upgrading" /\ pc # "exited" /\ Finish(c)

\* RMQTT answered the upgrade; its answer and what follows it are copied back.
Upgraded(c) ==
    /\ conn[c].at = "upgrading" /\ mqtt = "running" /\ pc # "exited"
    /\ conn' = [conn EXCEPT ![c] = [Idle EXCEPT !.at = "relaying",
                                    !.received = [open |-> FALSE, size |-> 0, fault |-> FALSE]]]
    /\ UNCHANGED <<free, taskOnly>>

\* The receiver behind the copier: RFC 6455, with the broker's packet limit.
Receive(r, frame, limit) ==
    IF frame.kind = "control"
    THEN [r EXCEPT !.fault = @ \/ ~frame.fin \/ frame.len > CONTROL_MAX]
    ELSE LET size == IF r.open THEN r.size + frame.len ELSE frame.len IN
         [open |-> ~frame.fin,
          size |-> IF frame.fin THEN 0 ELSE size,
          fault |-> \/ r.fault \/ size > limit
                    \/ frame.kind = (IF r.open THEN "data" ELSE "continuation")]

RelayFrame(c, frame) ==
    /\ conn[c].at = "relaying" /\ pc # "exited"
    /\ IF FrameAccepts(conn[c].fragmented, frame, frontend.max)
       THEN /\ conn' = [conn EXCEPT
                  ![c].fragmented = FragmentedSize(@, frame),
                  ![c].received = Receive(@, frame, frontend.max)]
            /\ UNCHANGED <<free, taskOnly>>
       ELSE Finish(c)

\* Either direction ends the copy.
RelayEnds(c) == conn[c].at = "relaying" /\ pc # "exited" /\ Finish(c)

----------------------------------------------------------------------------
(* RMQTT sessions behind the relays (external) and the handler's hooks *)

SessionStarts(c) ==
    /\ conn[c].at = "relaying" /\ c \in Publishing \ session /\ pc # "exited"
    /\ session' = session \cup {c}
    /\ UNCHANGED <<mainVars, partVars, mqtt, taskVars, hook, closes, history>>

\* The client or RMQTT closes it; with its relay gone it ends as well.
SessionEnds(c) ==
    /\ c \in session \ hook /\ pc # "exited"
    /\ session' = session \ {c}
    /\ UNCHANGED <<mainVars, partVars, mqtt, taskVars, hook, closes, history>>

\* Only registered hooks are called; one that runs is not interrupted.
HookStarts(c) ==
    /\ hooks /\ c \in session \ hook /\ pc # "exited"
    /\ hook' = hook \cup {c}
    /\ UNCHANGED <<mainVars, partVars, mqtt, taskVars, session, closes, history>>

\* A denial may spawn a delayed close and push its handle, also onto the list
\* that stop has already taken.
Taken == pc \in Closing \ {"close_listener", "unregister", "take_closes"}
CloseAfterFlush(c) ==
    \/ UNCHANGED closes
    \/ /\ closes[c] = "none"
       /\ closes' = [closes EXCEPT ![c] = IF Taken THEN "stray" ELSE "listed"]
HookReturns(c) ==
    /\ c \in hook /\ pc # "exited"
    /\ hook' = hook \ {c}
    /\ CloseAfterFlush(c)
    /\ UNCHANGED <<mainVars, partVars, mqtt, taskVars, session, history>>

\* After ERROR_NOTIFY_FLUSH the task kicks the session, if it is still there.
DelayedCloseFires(c) ==
    /\ closes[c] \in {"listed", "stray"} /\ c \notin hook /\ pc # "exited"
    /\ closes' = [closes EXCEPT ![c] = "none"]
    /\ session' = session \ {c}
    /\ UNCHANGED <<mainVars, partVars, mqtt, taskVars, hook, history>>

\* An aborted task ends.
AbortedCloseEnds(c) ==
    /\ closes[c] = "aborted" /\ pc # "exited"
    /\ closes' = [closes EXCEPT ![c] = "none"]
    /\ UNCHANGED <<mainVars, partVars, mqtt, taskVars, session, hook, history>>

----------------------------------------------------------------------------
(* Shutdown, in the order of main *)

closingOnly == <<config, frontend, run_error, taskVars, session, hook>>

\* drop(frontend); the heartbeat is aborted and joined
CloseListener ==
    /\ pc = "close_listener" /\ pc' = "unregister"
    /\ heartbeat' = FALSE
    /\ UNCHANGED <<closingOnly, hooks, partVars, mqtt, closes, history>>

\* registration.stop
RemoveHooks == hooks' = FALSE
UnregisterHooks ==
    /\ pc = "unregister" /\ pc' = "take_closes"
    /\ RemoveHooks
    /\ history' = [history EXCEPT !.overtaken = hook]
    /\ UNCHANGED <<closingOnly, heartbeat, partVars, mqtt, closes>>

\* stop_delayed_closes takes the list, aborts every task, then joins them
StopDelayedCloses ==
    /\ pc = "take_closes" /\ pc' = "join_closes"
    /\ closes' = [c \in Connections |-> IF closes[c] = "listed" THEN "aborted" ELSE closes[c]]
    /\ UNCHANGED <<closingOnly, heartbeat, hooks, partVars, mqtt, history>>
JoinDelayedCloses ==
    /\ pc = "join_closes" /\ pc' = "stop_mqtt"
    /\ \A c \in Connections : closes[c] # "aborted"
    /\ UNCHANGED <<closingOnly, heartbeat, hooks, partVars, mqtt, closes, history>>

StopMqtt ==
    /\ pc = "stop_mqtt" /\ pc' = "sessions"
    /\ mqtt' = "ended"
    /\ UNCHANGED <<closingOnly, heartbeat, hooks, partVars, closes, history>>

\* disconnect_sessions kicks one session after the other
KickSession(c) ==
    /\ pc = "sessions" /\ c \in session \ hook
    /\ session' = session \ {c}
    /\ UNCHANGED <<mainVars, partVars, mqtt, taskVars, hook, closes, history>>
SessionsDisconnected ==
    /\ pc = "sessions" /\ session = {} /\ pc' = "connections"
    /\ UNCHANGED <<closingOnly, heartbeat, hooks, partVars, mqtt, closes, history>>

\* connections.shutdown aborts every task and joins them all
AbortConnection(c) == pc = "connections" /\ Live(c) /\ Finish(c)
ConnectionsShutDown ==
    /\ pc = "connections" /\ pc' = "stop_meshcore"
    /\ \A c \in Connections : ~Live(c)
    /\ conn' = [c \in Connections |-> Idle]
    /\ meshcore' = IF meshcore = "running" THEN "stopping" ELSE meshcore
    /\ UNCHANGED <<config, frontend, run_error, free, session, hook, heartbeat, hooks, target,
                   mqtt, closes, history>>

MeshcoreStopped ==
    /\ pc = "stop_meshcore" /\ meshcore # "stopping" /\ pc' = "stop_target"
    /\ StopTarget
    /\ UNCHANGED <<closingOnly, heartbeat, hooks, meshcore, mqtt, closes, history>>
TargetStopped ==
    /\ pc = "stop_target" /\ target # "stopping"
    /\ Exit("shutdown")
    /\ UNCHANGED <<closingOnly, heartbeat, hooks, partVars, mqtt, closes>>

\* timed_shutdown: SHUTDOWN_STEP_TIMEOUT ends a step that has not finished.
\* A kick that fails leaves its session in the same way.
WaitForStep == FALSE /\ UNCHANGED vars
StepTimesOut ==
    /\ history' = [history EXCEPT !.cut = @ \cup {pc},
                                  !.ended = IF pc = "stop_target" THEN "shutdown" ELSE @]
    /\ \/ pc = "sessions" /\ pc' = "connections" /\ UNCHANGED target
       \/ pc = "stop_meshcore" /\ meshcore = "stopping" /\ pc' = "stop_target" /\ StopTarget
       \/ pc = "stop_target" /\ target = "stopping" /\ pc' = "exited" /\ UNCHANGED target
    /\ UNCHANGED <<closingOnly, heartbeat, hooks, meshcore, mqtt, closes>>

\* The integrations' own stops end: the target's is bounded by its deadline,
\* MeshCore.io's waits for its workers (TargetBridge, UploadQueue, Ingress).
TargetStops ==
    /\ target = "stopping" /\ target' = "stopped" /\ pc # "exited"
    /\ UNCHANGED <<mainVars, meshcore, mqtt, taskVars, sessionVars, history>>
MeshcoreStops ==
    /\ meshcore = "stopping" /\ meshcore' = "stopped" /\ pc # "exited"
    /\ UNCHANGED <<mainVars, target, mqtt, taskVars, sessionVars, history>>

----------------------------------------------------------------------------

MainSteps ==
    \/ BindListener \/ StartTarget \/ StartMeshcore \/ MeshcoreFails \/ Unwind \/ StartBroker
    \/ CloseListener \/ UnregisterHooks \/ StopDelayedCloses \/ JoinDelayedCloses \/ StopMqtt
    \/ SessionsDisconnected \/ ConnectionsShutDown \/ MeshcoreStopped \/ TargetStopped

ProcessNext ==
    \/ MainSteps \/ StepTimesOut \/ RunHealthcheck
    \/ \E input \in Inputs : DiscoverConfig(input)
    \/ ShutdownSignal \/ AcceptFails \/ MqttTaskCompleted \/ MqttEnds
    \/ TargetStops \/ MeshcoreStops
    \/ \E c \in Connections :
          \/ \E peer \in Peers[c] : Accept(c, peer)
          \/ \E request \in Requests[c] : HeaderArrives(c, request)
          \/ \E frame \in Frames[c] : RelayFrame(c, frame)
          \/ HeaderFails(c) \/ Answered(c) \/ UpgradeFails(c) \/ Upgraded(c) \/ RelayEnds(c)
          \/ Reap(c) \/ AbortConnection(c)
          \/ SessionStarts(c) \/ SessionEnds(c) \/ KickSession(c)
          \/ HookStarts(c) \/ HookReturns(c) \/ DelayedCloseFires(c) \/ AbortedCloseEnds(c)

ProcessSpec == ProcessInit /\ [][ProcessNext]_vars

\* main runs, its timers fire, aborted tasks end, an HTTP answer and the
\* target's bounded stop end.  No fairness for sessions, hooks or MeshCore.io.
Fairness ==
    /\ WF_vars(MainSteps) /\ WF_vars(StepTimesOut) /\ WF_vars(TargetStops)
    /\ \A c \in Connections :
          /\ WF_vars(HeaderFails(c)) /\ WF_vars(Answered(c)) /\ WF_vars(UpgradeFails(c))
          /\ WF_vars(AbortConnection(c)) /\ WF_vars(AbortedCloseEnds(c))

FairProcessSpec == ProcessSpec /\ Fairness
----------------------------------------------------------------------------
(* Properties *)

\* The state keeps its types, and the permits of the frontend semaphore that
\* are not free are held one each by live connection tasks, finished ones
\* waiting to be joined holding none (main.rs:133-162): a connection that ends,
\* fails or is aborted never leaks its permit or returns it twice.
SlotsAreHeldByTasks ==
    /\ pc \in Closing \cup {"load", "healthcheck", "bind", "start_target", "start_meshcore",
                           "unwind", "start_broker", "serving", "exited"}
    /\ target \in {"off", "running", "stopping", "stopped"}
    /\ meshcore \in {"off", "running", "stopping", "stopped"}
    /\ hook \subseteq session /\ session \subseteq Connections
    /\ free + Cardinality({c \in Connections : Live(c)}) = MAX_FRONTEND_CONNECTIONS

\* Main leaves through its shutdown (main.rs:171-204) with no task behind it
\* except what its timed steps gave up on: heartbeat, listener task, hooks and
\* connection tasks have ended, every delayed close that was listed has ended
\* and one that was not comes from a hook that was running when the hooks were
\* unregistered.  A start that fails at MeshCore.io stops the target first.
ExitLeavesNoTask ==
    /\ history.ended = "shutdown" =>
          /\ ~heartbeat /\ ~hooks /\ mqtt = "ended"
          /\ \A c \in Connections : conn[c] = Idle
          /\ \A c \in Connections :
                closes[c] = "none" \/ (closes[c] = "stray" /\ c \in history.overtaken)
          /\ meshcore \in {"off", "stopped"} \/ "stop_meshcore" \in history.cut
          /\ target \in {"off", "stopped"} \/ "stop_target" \in history.cut
    /\ history.ended = "meshcore" => target \in {"off", "stopped"}

\* What the frame copier lets through is a well-formed message stream for the
\* receiver behind it (websocket.rs:100-203): no message of a fragmented or a
\* single frame is longer than the limit, none starts inside another, none
\* continues nothing, whatever control frames are mixed in.
WireIsWellFormed ==
    \A c \in Connections : conn[c].at = "relaying" => ~conn[c].received.fault

\* Two addresses agree on their first n bits.
SamePrefix(a, b, n) ==
    \A k \in 1 .. n : LET weight == Weight(a.family)[Width[a.family] - k] IN
        (a.bits \div weight) % 2 = (b.bits \div weight) % 2
Vouched(ip) ==
    \E n \in frontend.trusted : n.family = ip.family /\ SamePrefix(n, ip, n.prefix_len)

\* The source told to the broker (proxy.rs:4-65) is the peer, or an address
\* of the forwarded chain all of whose later hops, the peer included, are
\* trusted; it is not itself trusted unless the chain is exhausted or cannot
\* be read.  The PROXY line's addresses are of the family it names.
SourceIsVouchedFor ==
    \A c \in Connections : conn[c].at = "upgrading" =>
        LET hops == Forwarded(conn[c].request)
            line == conn[c].line
            chain == (IF Range(hops) \subseteq Address THEN hops ELSE << >>) \o <<conn[c].peer>>
        IN  /\ \E i \in DOMAIN chain :
                  /\ line.source = chain[i]
                  /\ \A j \in (i + 1) .. Len(chain) : Vouched(chain[j])
                  /\ i = 1 \/ ~Vouched(chain[i])
            /\ line.family = (IF line.source.family = "v4" THEN "TCP4" ELSE "TCP6")
            /\ line.destination.family = line.source.family

\* What the policy, the session and the integration models assume of their
\* constants, and what the started parts check again.
PolicyCanUse(cfg) ==
    /\ cfg.allowed_iata # {} /\ cfg.allowed_iata \cup DOMAIN cfg.secondary_iata \subseteq ThreeLetters
    /\ cfg.allowed_iata \cap DOMAIN cfg.secondary_iata = {}
    /\ Range(cfg.secondary_iata) \subseteq cfg.allowed_iata
    /\ cfg.ws_max_payload_bytes > 0 /\ cfg.json_publish_max_bytes > 0
SessionsCanUse(cfg) ==
    /\ \A u \in cfg.subscribers :
          /\ u.username # "" /\ u.password # ""
          /\ LowerCase[u.username] \notin ReservedNames
          /\ u.max_connections >= 1 /\ u.role \in 1 .. 3
          /\ \A v \in cfg.subscribers : LowerCase[u.username] = LowerCase[v.username] => u = v
    /\ cfg.token_max_age_seconds >= 0
IntegrationsCanUse(cfg) ==
    /\ cfg.target_mqtt.enabled => TargetConnects(cfg.target_mqtt.url)
    /\ cfg.target_mqtt.reconnect_period_ms \in {0} \cup Bounds(1000, 300000)
    /\ cfg.target_mqtt.connect_timeout_ms \in Bounds(1000, 300000)
    /\ cfg.meshcore_io.enabled =>
          IdentityAccepts(cfg.meshcore_io.private_key) /\ cfg.meshcore_io.api_url # Empty
    /\ cfg.meshcore_io.workers >= 1 /\ cfg.meshcore_io.attempts >= 1
    /\ cfg.meshcore_io.max_queued_uploads >= 1 /\ cfg.meshcore_io.ingress_dedup_ms >= 1000

\* Every mix of YAML and environment the loader accepts (config/mod.rs:37-270)
\* is one the other parts can run on: the assumptions of the policy, session
\* and integration models hold of it, neither integration refuses its URL or
\* key at start, and the healthcheck asks for a path the frontend answers.
AcceptedConfigIsUsable ==
    config \notin {Unset, Refused} =>
        /\ PolicyCanUse(config) /\ SessionsCanUse(config) /\ IntegrationsCanUse(config)
        /\ Dispatch([method |-> "GET", path |-> config.healthcheck.url.path,
                     upgrade |-> << >>, forwarded |-> << >>]) = "200 OK"

\* Once the accept loop is left, or a failed start unwinds, the process ends,
\* although sessions may refuse to die and MeshCore.io never to stop
\* (main.rs:171-204, timed_shutdown).
ShutdownEnds == (pc \in Closing \cup {"unwind"}) ~> (pc = "exited")

\* A client that sends no complete request, or whose upgrade RMQTT never
\* answers, loses its task and its permit (websocket.rs:11-44, server.rs:18-62).
HandshakesEnd ==
    \A c \in Connections :
        (conn[c].at \in {"header", "answering", "upgrading"} /\ pc # "exited")
            ~> (conn[c].at \in {"relaying", "done", "outside"} \/ pc = "exited")
=============================================================================
