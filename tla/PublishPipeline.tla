-------------------------- MODULE PublishPipeline --------------------------
(* An observer's publish on its way through the broker, composed with       *)
(* takeover (ObserverSessions) and the stale-status guard (StatusGuard).    *)
(* RMQTT calls two hooks per publish (src/mqtt/broker/hooks.rs):            *)
(*   MessagePublishCheckAcl  reads ownership, authorises, asks the guard;   *)
(*   MessagePublish          reads ownership again, authorises again, asks  *)
(*                           the guard again, offers the message to target  *)
(*                           MQTT and MeshCore.io, and returns the          *)
(*                           normalised publish to route.                   *)
(* Ownership, guard and integrations have locks of their own, so the steps  *)
(* of several connections interleave.  A last will takes the second hook    *)
(* only.  One connection's publishes are handled one after the other.       *)
EXTENDS ObserverSessions

CONSTANTS
    Messages,      \* [owned, stale, ts]: see below
    Timestamps, NoTimestamp, NoRecord, Capacity, TTL, SweepInterval,
    MaxTime, MaxTickets,
    MaxPublishes   \* bound on the publishes (and wills) of one connection

(* A message is known by the decision of Policy!AuthorizePublish for it     *)
(* when the sender owns its key and when it does not, and by the device     *)
(* timestamp if it is a status that carries one.  A non-owner is always     *)
(* denied (publish.rs lines 121-128 or an earlier check).                   *)
ASSUME MessageAssumption ==
    Messages \subseteq [owned : {"allow", "deny", "close"},
                        stale : {"deny", "close"},
                        ts : Timestamps \cup {NoTimestamp}]

(* The part of StatusGuard's assumption its use here depends on.            *)
ASSUME PipelineAssumption ==
    /\ IsFiniteSet(Keys)
    /\ Timestamps \subseteq Nat \ {0}
    /\ NoTimestamp \notin Timestamps
    /\ Capacity \in Nat \ {0}
    /\ SweepInterval \in Nat \ {0}

VARIABLES
    latest, insertion, ticket, last_sweep_at, clock, accepted, evicted,
    pub,           \* observer -> the publish it is handling
    published,     \* observer -> number of publishes started
    forwarded,     \* history: observer -> last status timestamp it forwarded
    refusedRoutes, \* history: observers a refused publish of was routed
    lateForwards,  \* history: observer -> forwards made while not the owner
    lateRoutes     \* history: observer -> routings made while not the owner

guardVars == <<latest, insertion, ticket, last_sweep_at, clock, accepted, evicted>>
pipelineHistory == <<forwarded, refusedRoutes, lateForwards, lateRoutes>>
pipelineVars == <<sessionVars, guardVars, pub, published, pipelineHistory>>

Guard == INSTANCE StatusGuard

Idle == [stage |-> "idle"]
At(c, stage) == pub[c].stage = stage
Step(c, stage) == pub' = [pub EXCEPT ![c].stage = stage]
Done(c) == pub' = [pub EXCEPT ![c] = Idle]

\* `owns' is a local of the hook: what is_observer_owner returned when asked.
ReadOwner(c, stage) ==
    pub' = [pub EXCEPT ![c].stage = stage, ![c].owns = (owner[KeyOf[c]] = c)]

Decision(p) == IF p.owns THEN p.msg.owned ELSE p.msg.stale

\* validate_status, at the frozen time of this model (StatusGuard ages records).
IsStatus(p) == p.msg.ts # NoTimestamp
AlwaysFresh(c) == TRUE
Fresh(c) == IsStatus(pub[c]) => ~Guard!IsStale(KeyOf[c], pub[c].msg.ts, clock)
ValidateStatus(c) ==
    IF IsStatus(pub[c]) THEN Guard!AcceptStatus(KeyOf[c], pub[c].msg.ts, clock)
                        ELSE UNCHANGED guardVars

----------------------------------------------------------------------------
(* MessagePublishCheckAcl *)

AclReadsNothing(c, m) ==
    pub' = [pub EXCEPT ![c] = [stage |-> "acl", msg |-> m, owns |-> TRUE]]
AclReadOwner(c, m) ==
    pub' = [pub EXCEPT ![c] = [stage |-> "acl", msg |-> m,
                               owns |-> (owner[KeyOf[c]] = c)]]

BeginPublish(c, m) ==
    /\ pc[c] = "connected"
    /\ At(c, "idle")
    /\ published[c] < MaxPublishes
    /\ published' = [published EXCEPT ![c] = @ + 1]
    /\ AclReadOwner(c, m)
    /\ UNCHANGED <<sessionVars, guardVars, pipelineHistory>>

AclDeny(c) ==
    /\ At(c, "acl")
    /\ Decision(pub[c]) # "allow"
    /\ Done(c)
    /\ IF Decision(pub[c]) = "close" THEN CloseAfterFlush(c) ELSE UNCHANGED delayed
    /\ UNCHANGED <<pc, owner, session, previous, connections, sessionHistory,
                   guardVars, published, pipelineHistory>>

AclAllow(c) ==
    /\ At(c, "acl")
    /\ Decision(pub[c]) = "allow"
    /\ IF Fresh(c) THEN Step(c, "allowed") ELSE Done(c)
    /\ ValidateStatus(c)
    /\ UNCHANGED <<sessionVars, published, pipelineHistory>>

----------------------------------------------------------------------------
(* MessagePublish, for a publish and for a last will.  RMQTT publishes the  *)
(* will of a closing session before it reports the disconnect.              *)

BeginTransform(c) ==
    /\ At(c, "allowed")
    /\ ReadOwner(c, "transform")
    /\ UNCHANGED <<sessionVars, guardVars, published, pipelineHistory>>

BeginWill(c, m) ==
    /\ pc[c] = "disconnecting"
    /\ At(c, "idle")
    /\ published[c] <= MaxPublishes
    /\ published' = [published EXCEPT ![c] = MaxPublishes + 1]
    /\ pub' = [pub EXCEPT ![c] = [stage |-> "will", msg |-> m,
                                  owns |-> (owner[KeyOf[c]] = c)]]
    /\ UNCHANGED <<sessionVars, guardVars, pipelineHistory>>

\* transform_and_forward up to the offers: on Ok the message goes on.
TransformAllow(c) ==
    /\ pub[c].stage \in {"transform", "will"}
    /\ Decision(pub[c]) = "allow"
    /\ Fresh(c)
    /\ Step(c, "forward")
    /\ ValidateStatus(c)
    /\ UNCHANGED <<sessionVars, published, pipelineHistory>>

\* On Err a will goes to the sink topic, empty and not retained; for a publish
\* the hook returns no replacement, and RMQTT routes the publish as received.
RouteUnchanged(c) == Step(c, "route_refused")
SinkWill(c) == Done(c)

TransformDeny(c) ==
    /\ pub[c].stage \in {"transform", "will"}
    /\ Decision(pub[c]) = "allow" => ~Fresh(c)
    /\ IF Decision(pub[c]) = "allow" THEN ValidateStatus(c) ELSE UNCHANGED guardVars
    /\ IF At(c, "will") THEN SinkWill(c) ELSE RouteUnchanged(c)
    /\ UNCHANGED <<sessionVars, published, pipelineHistory>>

Late(c) == IF owner[KeyOf[c]] = c THEN 0 ELSE 1

\* The offers to target MQTT and MeshCore.io.
Forward(c) ==
    /\ At(c, "forward")
    /\ Step(c, "route")
    /\ forwarded' = [forwarded EXCEPT ![c] = IF IsStatus(pub[c]) THEN pub[c].msg.ts ELSE @]
    /\ lateForwards' = [lateForwards EXCEPT ![c] = @ + Late(c)]
    /\ UNCHANGED <<sessionVars, guardVars, published, refusedRoutes, lateRoutes>>

\* External: RMQTT stores and routes the publish.
RouteMessage(c) ==
    /\ pub[c].stage \in {"route", "route_refused"}
    /\ Done(c)
    /\ refusedRoutes' = IF At(c, "route_refused") THEN refusedRoutes \cup {c}
                                                   ELSE refusedRoutes
    /\ lateRoutes' = [lateRoutes EXCEPT ![c] = @ + Late(c)]
    /\ UNCHANGED <<sessionVars, guardVars, published, forwarded, lateForwards>>

----------------------------------------------------------------------------
\* A session handles its close after the publish it is at.
SessionStep(c) ==
    /\ \/ ClaimKey(c) \/ InsertSession(c) \/ KickPrevious(c) \/ Register(c)
       \/ Disconnect(c) \/ DelayedClose(c) \/ RemoveSession(c)
       \/ At(c, "idle") /\ ReleaseKey(c)
    /\ UNCHANGED <<guardVars, pub, published, pipelineHistory>>

PublishStep(c) ==
    \/ AclDeny(c) \/ AclAllow(c)
    \/ BeginTransform(c) \/ TransformAllow(c) \/ TransformDeny(c)
    \/ Forward(c) \/ RouteMessage(c)

PipelineInit ==
    /\ SessionInit
    /\ Guard!GuardInit
    /\ pub = [c \in Observers |-> Idle]
    /\ published = [c \in Observers |-> 0]
    /\ forwarded = [c \in Observers |-> 0]
    /\ refusedRoutes = {}
    /\ lateForwards = [c \in Observers |-> 0]
    /\ lateRoutes = [c \in Observers |-> 0]

PipelineNext ==
    \E c \in Observers :
        \/ SessionStep(c)
        \/ PublishStep(c)
        \/ \E m \in Messages : BeginPublish(c, m) \/ BeginWill(c, m)

PipelineSpec == PipelineInit /\ [][PipelineNext]_pipelineVars

----------------------------------------------------------------------------
(* A connection whose key was taken over affects the rest of the world at   *)
(* most once more: with the one publish (or will) that had passed an        *)
(* ownership check before.  What it sends later is refused at the door, and *)
(* its will is sunk (hooks.rs lines 259-264, 319-324 and 341-346).          *)
TakenOverSpeaksAtMostOnce ==
    \A c \in Observers : lateForwards[c] <= 1 /\ lateRoutes[c] <= 1

(* The statuses one connection forwards to the integrations never go back   *)
(* in device time, however other connections of the key interleave: both    *)
(* hooks ask the guard (hooks.rs lines 103 and 277).                        *)
ForwardedInOrder ==
    [][\A c \in Observers : forwarded'[c] >= forwarded[c]]_pipelineVars

(* hooks.rs lines 274-276: the broker "rejects status messages whose device *)
(* timestamp is older than the newest accepted one per public key, before   *)
(* routing or forwarding" - so what the second hook refuses, as stale or as *)
(* sent by a connection that was replaced meanwhile, is not routed either.  *)
RefusedIsNeverRouted == refusedRoutes = {}
============================================================================
