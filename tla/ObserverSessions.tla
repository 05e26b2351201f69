-------------------------- MODULE ObserverSessions --------------------------
(* Who is connected to the broker, and in whose name:                       *)
(*   - ObserverOwnership (src/mqtt/auth/ownership.rs): public key -> the    *)
(*     connection that owns it;                                             *)
(*   - SubscriberConnections (src/mqtt/auth/subscribers.rs): user -> the    *)
(*     connections that hold one of its max_connections places;             *)
(*   - MeshcoreHandler.observer_sessions (src/mqtt/broker/hooks.rs): public *)
(*     key -> the session to kick when the key is taken over;               *)
(*   - the delayed closes of DenialNotifier (src/mqtt/broker/               *)
(*     notifications.rs).                                                   *)
(* Each map has its own mutex, and the hooks of different connections run   *)
(* on different tokio workers: one action is one critical section, and pc   *)
(* records how far a connection's hook has come.  A connection id names one *)
(* network connection and is never reused.                                  *)
EXTENDS Integers, FiniteSets

CONSTANTS
    Keys,            \* observer public keys
    Observers,       \* connection ids that present an observer token
    KeyOf,           \* Observers -> the public key of the token
    Users,           \* configured subscriber accounts
    Viewers,         \* connection ids that present a subscriber password
    UserOf,          \* Viewers -> the account
    max_connections, \* Users -> its connection limit
    None             \* no connection

Conns == Observers \cup Viewers

ASSUME SessionAssumption ==
    /\ KeyOf \in [Observers -> Keys]
    /\ UserOf \in [Viewers -> Users]
    /\ max_connections \in [Users -> Nat]
    /\ Observers \cap Viewers = {}
    /\ None \notin Conns
    /\ IsFiniteSet(Viewers)

VARIABLES
    pc,            \* connection -> progress through its life and its hooks
    owner,         \* ObserverOwnership.owners
    session,       \* MeshcoreHandler.observer_sessions
    previous,      \* observer -> local `previous' of its ClientAuthenticate hook
    connections,   \* SubscriberConnections.connections
    delayed,       \* connections with a delayed close under way
    newest,        \* history: key -> the last connection that authenticated for it
    raced          \* history: keys two connections authenticated for at once

sessionHistory == <<newest, raced>>
sessionVars == <<pc, owner, session, previous, connections, delayed, sessionHistory>>

(* new -> owning -> [replacing ->] admitted -> connected -> disconnecting   *)
(*     -> released -> offline -> re_released -> gone                        *)
(* ClientDisconnected runs in disconnecting and released, SessionTerminated *)
(* (the same handler) in offline and re_released.  A viewer has no owning,  *)
(* replacing, released or re_released step.                                 *)
Stages == {"new", "owning", "replacing", "admitted", "connected",
           "disconnecting", "released", "offline", "re_released", "gone"}

Goto(c, stage) == pc' = [pc EXCEPT ![c] = stage]

----------------------------------------------------------------------------
(* ClientAuthenticate.  The token or password check itself has no effect on *)
(* the state: a connection is either refused or accepted.                   *)

Refuse(c) ==
    /\ pc[c] = "new"
    /\ Goto(c, "gone")
    /\ UNCHANGED <<owner, session, previous, connections, delayed, sessionHistory>>

\* AuthService::authenticate, observer: ObserverOwnership::set, unconditionally.
SetToKey(c, k) == owner' = [owner EXCEPT ![k] = k]
Set(c, k) == owner' = [owner EXCEPT ![k] = c]

ClaimKey(c) ==
    LET k == KeyOf[c] IN
    /\ pc[c] = "new"
    /\ Goto(c, "owning")
    /\ Set(c, k)
    /\ newest' = [newest EXCEPT ![k] = c]
    /\ raced' = IF \E d \in Observers : KeyOf[d] = k /\ pc[d] = "owning"
                  THEN raced \cup {k} ELSE raced
    /\ UNCHANGED <<session, previous, connections, delayed>>

\* observer_sessions.insert: the replaced session, if another one, is kicked next.
InsertSession(c) ==
    LET k == KeyOf[c] IN
    /\ pc[c] = "owning"
    /\ session' = [session EXCEPT ![k] = c]
    /\ previous' = [previous EXCEPT ![c] = IF session[k] = c THEN None ELSE session[k]]
    /\ Goto(c, IF previous'[c] = None THEN "admitted" ELSE "replacing")
    /\ UNCHANGED <<owner, connections, delayed, sessionHistory>>

\* External: RMQTT closes a session it has registered; it does not know one
\* whose CONNECT is still being handled, and one that is gone stays gone.
Kicked(stages, c) ==
    IF stages[c] = "connected" THEN [stages EXCEPT ![c] = "disconnecting"] ELSE stages

KickPrevious(c) ==
    /\ pc[c] = "replacing"
    /\ pc' = Kicked([pc EXCEPT ![c] = "admitted"], previous[c])
    /\ previous' = [previous EXCEPT ![c] = None]
    /\ UNCHANGED <<owner, session, connections, delayed, sessionHistory>>

\* SubscriberConnections::authenticate with a matching password.
HasPlaceForOneMore(c, u) == Cardinality(connections[u]) <= max_connections[u]
HasPlace(c, u) == c \in connections[u] \/ Cardinality(connections[u]) < max_connections[u]

TakePlace(c) ==
    LET u == UserOf[c] IN
    /\ pc[c] = "new"
    /\ HasPlace(c, u)
    /\ connections' = [connections EXCEPT ![u] = @ \cup {c}]
    /\ Goto(c, "admitted")
    /\ UNCHANGED <<owner, session, previous, delayed, sessionHistory>>

----------------------------------------------------------------------------
(* External: RMQTT registers the admitted session, and the network or the   *)
(* client ends it.                                                          *)

Register(c) ==
    /\ pc[c] = "admitted"
    /\ Goto(c, "connected")
    /\ UNCHANGED <<owner, session, previous, connections, delayed, sessionHistory>>

Disconnect(c) ==
    /\ pc[c] = "connected"
    /\ Goto(c, "disconnecting")
    /\ UNCHANGED <<owner, session, previous, connections, delayed, sessionHistory>>

----------------------------------------------------------------------------
(* DenialNotifier::close_after_flush spawns a task that sleeps and then     *)
(* kicks the id it was given; a second task for the same id changes nothing.*)

CloseAfterFlush(c) == delayed' = delayed \cup {c}

DelayedClose(c) ==
    /\ c \in delayed
    /\ delayed' = delayed \ {c}
    /\ pc' = Kicked(pc, c)
    /\ UNCHANGED <<owner, session, previous, connections, sessionHistory>>

----------------------------------------------------------------------------
(* ClientDisconnected and SessionTerminated share one handler:              *)
(* AuthService::release, then the removal of the observer session.          *)

ReleaseUnchecked(c, k) == owner' = [owner EXCEPT ![k] = None]
Release(c, k) == owner' = [owner EXCEPT ![k] = IF @ = c THEN None ELSE @]

ReleaseKey(c) ==
    /\ pc[c] \in {"disconnecting", "offline"}
    /\ Goto(c, IF pc[c] = "disconnecting" THEN "released" ELSE "re_released")
    /\ Release(c, KeyOf[c])
    /\ UNCHANGED <<session, previous, connections, delayed, sessionHistory>>

RemoveAnySession(c, k) == session' = [session EXCEPT ![k] = None]
KeepSession(c, k) == session' = session
RemoveOwnSession(c, k) == session' = [session EXCEPT ![k] = IF @ = c THEN None ELSE @]

RemoveSession(c) ==
    /\ pc[c] \in {"released", "re_released"}
    /\ Goto(c, IF pc[c] = "released" THEN "offline" ELSE "gone")
    /\ RemoveOwnSession(c, KeyOf[c])
    /\ UNCHANGED <<owner, previous, connections, delayed, sessionHistory>>

FreePlace(c, u) == connections' = [connections EXCEPT ![u] = @ \ {c}]

ReleasePlace(c) ==
    /\ pc[c] \in {"disconnecting", "offline"}
    /\ Goto(c, IF pc[c] = "disconnecting" THEN "offline" ELSE "gone")
    /\ FreePlace(c, UserOf[c])
    /\ UNCHANGED <<owner, session, previous, delayed, sessionHistory>>

----------------------------------------------------------------------------
SessionInit ==
    /\ pc = [c \in Conns |-> "new"]
    /\ owner = [k \in Keys |-> None]
    /\ session = [k \in Keys |-> None]
    /\ previous = [c \in Observers |-> None]
    /\ connections = [u \in Users |-> {}]
    /\ delayed = {}
    /\ newest = [k \in Keys |-> None]
    /\ raced = {}

\* Steps the broker takes by itself once they are possible.
ObserverHook(c) ==
    \/ InsertSession(c)
    \/ KickPrevious(c)
    \/ Register(c)
    \/ ReleaseKey(c)
    \/ RemoveSession(c)

ViewerHook(c) == Register(c) \/ ReleasePlace(c)

\* The denial that starts a delayed close (the ACL hooks of PublishPipeline); the
\* connection may have been kicked since its hook was called.  A subscriber
\* account is denied without one.
Deny(c) ==
    /\ pc[c] \in {"connected", "disconnecting"}
    /\ CloseAfterFlush(c)
    /\ UNCHANGED <<pc, owner, session, previous, connections, sessionHistory>>

SessionNext ==
    \/ \E c \in Observers :
           ClaimKey(c) \/ ObserverHook(c) \/ Deny(c) \/ DelayedClose(c)
    \/ \E c \in Viewers : TakePlace(c) \/ ViewerHook(c)
    \/ \E c \in Conns : Refuse(c) \/ Disconnect(c)

SessionSpec == SessionInit /\ [][SessionNext]_sessionVars

(* Tokio polls every spawned hook and timer, so a started hook finishes and *)
(* a delayed close fires; nothing obliges a client to connect or to leave.  *)
SessionFairness ==
    /\ \A c \in Observers : WF_sessionVars(ObserverHook(c)) /\ WF_sessionVars(DelayedClose(c))
    /\ \A c \in Viewers : WF_sessionVars(ViewerHook(c))

FairSessionSpec == SessionSpec /\ SessionFairness

----------------------------------------------------------------------------
(* The maps and the history hold connections of the right kind, and every   *)
(* connection is at a stage of its life (hooks.rs lines 24-33).             *)
SessionTypeOK ==
    /\ pc \in [Conns -> Stages]
    /\ owner \in [Keys -> Observers \cup {None}]
    /\ session \in [Keys -> Observers \cup {None}]
    /\ previous \in [Observers -> Observers \cup {None}]
    /\ connections \in [Users -> SUBSET Viewers]
    /\ delayed \subseteq Observers
    /\ newest \in [Keys -> Observers \cup {None}]
    /\ raced \subseteq Keys

Holding == {"owning", "replacing", "admitted", "connected", "disconnecting"}
Left == {"released", "offline", "re_released", "gone"}

(* ownership.rs lines 4-6: the newest authenticated connection owns the     *)
(* key, and it keeps it until its own disconnect hook runs, whatever older  *)
(* connections do meanwhile (their late releases cannot take it away).      *)
NewestOwnsUntilItLeaves ==
    \A k \in Keys : newest[k] # None =>
        IF pc[newest[k]] \in Left THEN owner[k] = None ELSE owner[k] = newest[k]

(* The maps name only connections that still are to run the hook that       *)
(* removes them: no key stays owned, and no session is counted by           *)
(* observer_count, on behalf of a connection that is gone.                  *)
NoOrphans ==
    \A c \in Observers :
        /\ owner[KeyOf[c]] = c => pc[c] \in Holding
        /\ session[KeyOf[c]] = c => pc[c] \in (Holding \ {"owning"}) \cup {"released"}

InHook(c) == pc[c] \in {"owning", "replacing", "disconnecting", "released",
                        "re_released"}

(* Unless two CONNECTs of one key ran between ownership.set and             *)
(* observer_sessions.insert at the same time, the two maps agree on every   *)
(* key whose connections are not in the middle of a hook (hooks.rs lines    *)
(* 168-189 against 370-388, two locks each).                                *)
OwnerAndSessionAgree ==
    \A k \in Keys \ raced :
        (\A c \in Observers : KeyOf[c] = k => ~InHook(c)) => owner[k] = session[k]

(* subscribers.rs lines 30-40: an account never has more admitted or        *)
(* connected clients than max_connections, and a client that has left frees *)
(* its place: the places taken are exactly the clients still there.         *)
PlacesAreConnections ==
    \A u \in Users :
        /\ connections[u] = {c \in Viewers : UserOf[c] = u
                               /\ pc[c] \in {"admitted", "connected", "disconnecting"}}
        /\ Cardinality(connections[u]) <= max_connections[u]

(* RUST.md line 87: "the newest authenticated connection owns the public    *)
(* key and replaces the older connection" - so the connection a hook is     *)
(* about to kick as replaced is never the newest one of its key.            *)
NewestIsNotReplaced ==
    \A c \in Observers : pc[c] = "replacing" => previous[c] # newest[KeyOf[c]]

(* Every connection that is denied with a close, is kicked or hangs up in   *)
(* the end leaves no trace in the three maps.                               *)
ClosedIsForgotten ==
    \A c \in Conns :
        c \in delayed \/ pc[c] = "disconnecting" ~>
            /\ \A k \in Keys : owner[k] # c /\ session[k] # c
            /\ \A u \in Users : c \notin connections[u]
============================================================================
