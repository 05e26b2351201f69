-------------------------- MODULE Sessions_proofs --------------------------
(* Takeover and the publish hooks, for any number of keys, connections,     *)
(* viewers and messages: who owns a key (the theorems of ObserverSessions), *)
(* then what a connection that lost its key still gets through and the      *)
(* order of the statuses it forwards (the theorems of PublishPipeline).     *)
(*                                                                          *)
(* The inductive invariant of ownership adds to the checked properties only *)
(* what `newest' records: the newest connection of a key presented that key *)
(* and has left the "new" stage, and a key nobody authenticated for has no  *)
(* owner.  That the two maps agree needs one more: who may be between their *)
(* inserts.                                                                 *)
EXTENDS PublishPipeline, FiniteSetTheorems, TLAPS

\* A key nobody has claimed has no owner; the newest connection of a key is one
\* of that key, and has left the stage "new".
NewestIsOfItsKey ==
    \A k \in Keys :
        /\ newest[k] = None => owner[k] = None
        /\ newest[k] # None => KeyOf[newest[k]] = k /\ pc[newest[k]] # "new"

OwnershipInv ==
    /\ SessionTypeOK
    /\ NewestIsOfItsKey
    /\ NewestOwnsUntilItLeaves
    /\ NoOrphans

----------------------------------------------------------------------------
\* A kick moves at most one connection, from connected to disconnecting.
LEMMA KickedStages ==
    ASSUME NEW stages \in [Conns -> Stages], NEW c
    PROVE  /\ Kicked(stages, c) \in [Conns -> Stages]
           /\ \A d \in Conns :
                  \/ Kicked(stages, c)[d] = stages[d]
                  \/ stages[d] = "connected" /\ Kicked(stages, c)[d] = "disconnecting"
BY DEF Kicked, Stages

\* The handler starts with empty maps, which have their types.
LEMMA SessionTypeInit == SessionInit => SessionTypeOK
BY SessionAssumption DEF SessionInit, SessionTypeOK, Stages, Conns

\* Every action keeps every variable in its type.
LEMMA SessionTypeStep == SessionTypeOK /\ [SessionNext]_sessionVars => SessionTypeOK'
<1> SUFFICES ASSUME SessionTypeOK, [SessionNext]_sessionVars PROVE SessionTypeOK'
  OBVIOUS
<1> USE SessionAssumption DEF SessionTypeOK, Conns, Goto
<1>1. ASSUME NEW c \in Observers, ClaimKey(c) PROVE SessionTypeOK'
  BY <1>1 DEF ClaimKey, Set, Stages
<1>2. ASSUME NEW c \in Observers, InsertSession(c) PROVE SessionTypeOK'
  BY <1>2 DEF InsertSession, sessionHistory, Stages
<1>3. ASSUME NEW c \in Observers, KickPrevious(c) PROVE SessionTypeOK'
  <2>1. [pc EXCEPT ![c] = "admitted"] \in [Conns -> Stages]
    BY DEF Stages
  <2>2. pc' \in [Conns -> Stages]
    BY <1>3, <2>1, KickedStages DEF KickPrevious
  <2> QED BY <1>3, <2>2 DEF KickPrevious, sessionHistory
<1>4. ASSUME NEW c \in Conns, Register(c) PROVE SessionTypeOK'
  BY <1>4 DEF Register, sessionHistory, Stages
<1>5. ASSUME NEW c \in Observers, ReleaseKey(c) PROVE SessionTypeOK'
  BY <1>5 DEF ReleaseKey, Release, sessionHistory, Stages
<1>6. ASSUME NEW c \in Observers, RemoveSession(c) PROVE SessionTypeOK'
  BY <1>6 DEF RemoveSession, RemoveOwnSession, sessionHistory, Stages
<1>7. ASSUME NEW c \in Observers, Deny(c) PROVE SessionTypeOK'
  BY <1>7 DEF Deny, CloseAfterFlush, sessionHistory
<1>8. ASSUME NEW c \in Observers, DelayedClose(c) PROVE SessionTypeOK'
  <2>1. pc' \in [Conns -> Stages]
    BY <1>8, KickedStages DEF DelayedClose
  <2> QED BY <1>8, <2>1 DEF DelayedClose, sessionHistory
<1>9. ASSUME NEW c \in Viewers, TakePlace(c) PROVE SessionTypeOK'
  BY <1>9 DEF TakePlace, sessionHistory, Stages
<1>10. ASSUME NEW c \in Viewers, ReleasePlace(c) PROVE SessionTypeOK'
  BY <1>10 DEF ReleasePlace, FreePlace, sessionHistory, Stages
<1>11. ASSUME NEW c \in Conns, Refuse(c) PROVE SessionTypeOK'
  BY <1>11 DEF Refuse, sessionHistory, Stages
<1>12. ASSUME NEW c \in Conns, Disconnect(c) PROVE SessionTypeOK'
  BY <1>12 DEF Disconnect, sessionHistory, Stages
<1>13. CASE UNCHANGED sessionVars
  BY <1>13 DEF sessionVars, sessionHistory
<1> QED
  BY <1>1, <1>2, <1>3, <1>4, <1>5, <1>6, <1>7, <1>8, <1>9, <1>10, <1>11, <1>12, <1>13
  DEF SessionNext, ObserverHook, ViewerHook

\* The maps and histories always hold values of their types.
THEOREM SessionTypeCorrect == SessionSpec => []SessionTypeOK
BY SessionTypeInit, SessionTypeStep, PTL DEF SessionSpec

----------------------------------------------------------------------------
\* Before anyone connects nothing is owned.
LEMMA OwnershipInit == SessionInit => OwnershipInv
<1> SUFFICES ASSUME SessionInit PROVE OwnershipInv
  OBVIOUS
<1>1. SessionTypeOK
  BY SessionTypeInit
<1>2. NewestIsOfItsKey /\ NewestOwnsUntilItLeaves
  BY DEF SessionInit, NewestIsOfItsKey, NewestOwnsUntilItLeaves
<1>3. NoOrphans
  BY SessionAssumption DEF SessionInit, NoOrphans, Conns
<1> QED BY <1>1, <1>2, <1>3 DEF OwnershipInv

(* What kicks, registrations, refusals and hang-ups do: they leave the maps *)
(* and histories alone and move connections only along stages before the    *)
(* release.                                                                 *)
QuietMoves ==
    /\ UNCHANGED <<owner, session, newest, raced>>
    /\ \A d \in Observers :
          \/ pc'[d] = pc[d]
          \/ /\ pc[d] \in {"replacing", "admitted", "connected"}
             /\ pc'[d] \in {"admitted", "connected", "disconnecting"}
          \/ pc[d] = "new" /\ pc'[d] = "gone"

MapStep(c) == ClaimKey(c) \/ InsertSession(c) \/ ReleaseKey(c) \/ RemoveSession(c)

(* Every step is one of the four that write a map, or quiet.                *)
LEMMA QuietOrMapStep ==
    ASSUME SessionTypeOK, [SessionNext]_sessionVars
    PROVE  QuietMoves \/ \E c \in Observers : MapStep(c)
<1> USE SessionAssumption DEF Conns
<1>1. ASSUME NEW c \in Observers, KickPrevious(c) PROVE QuietMoves
  <2> DEFINE stages == [pc EXCEPT ![c] = "admitted"]
  <2>1. stages \in [Conns -> Stages]
    BY DEF SessionTypeOK, Stages
  <2>2. \A d \in Conns :
          \/ pc'[d] = stages[d]
          \/ stages[d] = "connected" /\ pc'[d] = "disconnecting"
    <3>1. pc' = Kicked(stages, previous[c])
      BY <1>1 DEF KickPrevious
    <3> HIDE DEF stages
    <3> QED BY <2>1, <3>1, KickedStages
  <2> QED BY <1>1, <2>2 DEF KickPrevious, SessionTypeOK, QuietMoves, sessionHistory
<1>2. ASSUME NEW c \in Observers, DelayedClose(c) PROVE QuietMoves
  <2>1. \A d \in Conns :
          \/ pc'[d] = pc[d]
          \/ pc[d] = "connected" /\ pc'[d] = "disconnecting"
    BY <1>2, KickedStages DEF DelayedClose, SessionTypeOK
  <2> QED BY <1>2, <2>1 DEF DelayedClose, QuietMoves, sessionHistory
<1>3. ASSUME NEW c \in Observers, Deny(c) PROVE QuietMoves
  BY <1>3 DEF Deny, QuietMoves, sessionHistory
<1>4. ASSUME NEW c \in Viewers, TakePlace(c) \/ ReleasePlace(c) PROVE QuietMoves
  BY <1>4 DEF TakePlace, ReleasePlace, Goto, SessionTypeOK, QuietMoves, sessionHistory
<1>5. ASSUME NEW c \in Conns, Register(c) \/ Refuse(c) \/ Disconnect(c) PROVE QuietMoves
  BY <1>5 DEF Register, Refuse, Disconnect, Goto, SessionTypeOK, QuietMoves, sessionHistory
<1>6. CASE UNCHANGED sessionVars
  BY <1>6 DEF sessionVars, sessionHistory, QuietMoves
<1> QED
  BY <1>1, <1>2, <1>3, <1>4, <1>5, <1>6 DEF SessionNext, ObserverHook, ViewerHook, MapStep

\* A quiet step keeps the ownership invariant.
LEMMA QuietStep ==
    ASSUME OwnershipInv, SessionTypeOK', QuietMoves
    PROVE  OwnershipInv'
<1> USE SessionAssumption DEF OwnershipInv, SessionTypeOK, Conns, Left, Holding, QuietMoves
<1>1. NewestIsOfItsKey'
  BY DEF NewestIsOfItsKey
<1>2. NewestOwnsUntilItLeaves'
  BY DEF NewestOwnsUntilItLeaves, NewestIsOfItsKey
<1>3. NoOrphans'
  BY DEF NoOrphans
<1> QED BY <1>1, <1>2, <1>3

\* The newest authenticated connection becomes the owner, whoever was.
LEMMA ClaimKeepsOwnership ==
    ASSUME OwnershipInv, SessionTypeOK', NEW c \in Observers, ClaimKey(c)
    PROVE  OwnershipInv'
<1> USE SessionAssumption
    DEF OwnershipInv, SessionTypeOK, Conns, Left, Holding, ClaimKey, Set, Goto
<1>1. NewestIsOfItsKey'
  BY DEF NewestIsOfItsKey
<1>2. NewestOwnsUntilItLeaves'
  BY DEF NewestOwnsUntilItLeaves, NewestIsOfItsKey
<1>3. NoOrphans'
  BY DEF NoOrphans
<1> QED BY <1>1, <1>2, <1>3

\* The session insert does not touch ownership, and names a live connection.
LEMMA InsertKeepsOwnership ==
    ASSUME OwnershipInv, SessionTypeOK', NEW c \in Observers, InsertSession(c)
    PROVE  OwnershipInv'
<1> USE SessionAssumption
    DEF OwnershipInv, SessionTypeOK, Conns, Left, Holding, InsertSession, Goto, sessionHistory
<1>1. NewestIsOfItsKey'
  BY DEF NewestIsOfItsKey
<1>2. NewestOwnsUntilItLeaves'
  BY DEF NewestOwnsUntilItLeaves, NewestIsOfItsKey
<1>3. NoOrphans'
  BY DEF NoOrphans
<1> QED BY <1>1, <1>2, <1>3

\* A release clears the key only for its owner, so that of an older connection
\* leaves the newer owner in place.
LEMMA ReleaseKeepsOwnership ==
    ASSUME OwnershipInv, SessionTypeOK', NEW c \in Observers, ReleaseKey(c)
    PROVE  OwnershipInv'
<1> USE SessionAssumption
    DEF OwnershipInv, SessionTypeOK, Conns, Left, Holding, ReleaseKey, Release, Goto,
        sessionHistory
<1>1. NewestIsOfItsKey'
  BY DEF NewestIsOfItsKey
<1>2. NewestOwnsUntilItLeaves'
  BY DEF NewestOwnsUntilItLeaves, NewestIsOfItsKey
<1>3. NoOrphans'
  BY DEF NoOrphans
<1> QED BY <1>1, <1>2, <1>3

\* A connection removes its own session only, after it has released its key.
LEMMA RemoveKeepsOwnership ==
    ASSUME OwnershipInv, SessionTypeOK', NEW c \in Observers, RemoveSession(c)
    PROVE  OwnershipInv'
<1> USE SessionAssumption
    DEF OwnershipInv, SessionTypeOK, Conns, Left, Holding, RemoveSession,
        RemoveOwnSession, Goto, sessionHistory
<1>1. NewestIsOfItsKey'
  BY DEF NewestIsOfItsKey
<1>2. NewestOwnsUntilItLeaves'
  BY DEF NewestOwnsUntilItLeaves, NewestIsOfItsKey
<1>3. NoOrphans'
  BY DEF NoOrphans
<1> QED BY <1>1, <1>2, <1>3

\* Every action preserves the ownership invariant.
LEMMA OwnershipStep == OwnershipInv /\ [SessionNext]_sessionVars => OwnershipInv'
<1> SUFFICES ASSUME OwnershipInv, [SessionNext]_sessionVars PROVE OwnershipInv'
  OBVIOUS
<1>0. SessionTypeOK /\ SessionTypeOK'
  BY SessionTypeStep DEF OwnershipInv
<1>1. CASE QuietMoves
  BY <1>0, <1>1, QuietStep
<1>2. ASSUME NEW c \in Observers, MapStep(c) PROVE OwnershipInv'
  BY <1>0, <1>2, ClaimKeepsOwnership, InsertKeepsOwnership, ReleaseKeepsOwnership,
     RemoveKeepsOwnership DEF MapStep
<1> QED BY <1>0, <1>1, <1>2, QuietOrMapStep

\* The ownership invariant holds in every reachable state.
LEMMA OwnershipInvariant == SessionSpec => []OwnershipInv
BY OwnershipInit, OwnershipStep, PTL DEF SessionSpec

(* The newest authenticated connection of a key owns it until its own       *)
(* disconnect hook runs, for any number of competing connections.           *)
THEOREM NewestOwns == SessionSpec => []NewestOwnsUntilItLeaves
<1>1. OwnershipInv => NewestOwnsUntilItLeaves
  BY DEF OwnershipInv
<1> QED BY <1>1, OwnershipInvariant, PTL

(* No connection that has run its hooks is left as owner or as session.     *)
THEOREM NothingOrphaned == SessionSpec => []NoOrphans
<1>1. OwnershipInv => NoOrphans
  BY DEF OwnershipInv
<1> QED BY <1>1, OwnershipInvariant, PTL

----------------------------------------------------------------------------
(* On a key that no two CONNECTs raced for, only the newest connection can  *)
(* be between ownership.set and observer_sessions.insert; from its insert   *)
(* to its removal the session is its own, and afterwards there is none.     *)
SessionFollowsNewest ==
    \A k \in Keys \ raced :
        /\ \A c \in Observers : KeyOf[c] = k /\ pc[c] = "owning" => newest[k] = c
        /\ newest[k] = None => session[k] = None
        /\ newest[k] # None =>
              /\ pc[newest[k]] \in (Holding \ {"owning"}) \cup {"released"} =>
                     session[k] = newest[k]
              /\ pc[newest[k]] \in Left \ {"released"} => session[k] = None

\* Every action keeps the session with the newest connection.
LEMMA SessionFollowsStep ==
    ASSUME OwnershipInv, SessionFollowsNewest, [SessionNext]_sessionVars
    PROVE  SessionFollowsNewest'
<1>0. SessionTypeOK /\ SessionTypeOK' /\ NewestIsOfItsKey
  BY SessionTypeStep DEF OwnershipInv
<1> USE SessionAssumption DEF Conns, Left, Holding, SessionFollowsNewest
<1>1. CASE QuietMoves
  BY <1>0, <1>1 DEF QuietMoves, SessionTypeOK, NewestIsOfItsKey
<1>2. ASSUME NEW c \in Observers, ClaimKey(c) PROVE SessionFollowsNewest'
  BY <1>0, <1>2 DEF ClaimKey, Goto, SessionTypeOK, NewestIsOfItsKey
<1>3. ASSUME NEW c \in Observers, InsertSession(c) PROVE SessionFollowsNewest'
  BY <1>0, <1>3 DEF InsertSession, Goto, sessionHistory, SessionTypeOK, NewestIsOfItsKey
<1>4. ASSUME NEW c \in Observers, ReleaseKey(c) PROVE SessionFollowsNewest'
  BY <1>0, <1>4 DEF ReleaseKey, Goto, sessionHistory, SessionTypeOK, NewestIsOfItsKey
<1>5. ASSUME NEW c \in Observers, RemoveSession(c) PROVE SessionFollowsNewest'
  BY <1>0, <1>5 DEF RemoveSession, RemoveOwnSession, Goto, sessionHistory, SessionTypeOK,
                    NewestIsOfItsKey
<1> QED BY <1>0, <1>1, <1>2, <1>3, <1>4, <1>5, QuietOrMapStep DEF MapStep

(* Between hooks, ownership and observer_sessions name the same connection  *)
(* of every key that was not raced for.                                     *)
THEOREM MapsAgree == SessionSpec => []OwnerAndSessionAgree
<1>1. SessionInit => OwnershipInv /\ SessionFollowsNewest
  <2>1. SessionInit => SessionFollowsNewest
    BY SessionAssumption DEF SessionInit, SessionFollowsNewest, Conns
  <2> QED BY <2>1, OwnershipInit
<1>2. OwnershipInv /\ SessionFollowsNewest /\ [SessionNext]_sessionVars
          => (OwnershipInv /\ SessionFollowsNewest)'
  BY OwnershipStep, SessionFollowsStep
<1>3. OwnershipInv /\ SessionFollowsNewest => OwnerAndSessionAgree
  <2> SUFFICES ASSUME OwnershipInv, SessionFollowsNewest, NEW k \in Keys \ raced,
                      \A c \in Observers : KeyOf[c] = k => ~InHook(c)
               PROVE  owner[k] = session[k]
    BY DEF OwnerAndSessionAgree
  <2> USE DEF OwnershipInv, NewestIsOfItsKey, SessionFollowsNewest, SessionTypeOK
  <2>1. CASE newest[k] = None
    BY <2>1
  <2>2. CASE newest[k] # None
    <3>1. newest[k] \in Observers /\ pc[newest[k]] \in Stages \ {"new"}
          /\ ~InHook(newest[k])
      BY <2>2, SessionAssumption DEF Conns
    <3> QED BY <2>2, <3>1 DEF InHook, Stages, Holding, Left, NewestOwnsUntilItLeaves
  <2> QED BY <2>1, <2>2
<1> QED BY <1>1, <1>2, <1>3, PTL DEF SessionSpec

----------------------------------------------------------------------------
\* A kick moves nobody but the connection it names.
LEMMA KickedOthers ==
    ASSUME NEW stages \in [Conns -> Stages], NEW c, NEW d \in Conns, d # c
    PROVE  Kicked(stages, c)[d] = stages[d]
BY DEF Kicked

\* The places of an account are a finite set, so that they can be counted.
LEMMA PlacesFinite ==
    ASSUME SessionTypeOK, NEW u \in Users
    PROVE  /\ IsFiniteSet(connections[u])
           /\ Cardinality(connections[u]) \in Nat
<1>1. connections[u] \subseteq Viewers
  BY DEF SessionTypeOK
<1> QED BY <1>1, SessionAssumption, FS_Subset, FS_CardinalityType

PlacesTaken == {"admitted", "connected", "disconnecting"}

\* A step that no viewer takes part in keeps the places.
LEMMA QuietPlaces ==
    ASSUME PlacesAreConnections, UNCHANGED connections,
           \A d \in Viewers : pc'[d] \in PlacesTaken <=> pc[d] \in PlacesTaken
    PROVE  PlacesAreConnections'
BY DEF PlacesAreConnections, PlacesTaken

\* Every action keeps the places equal to the live connections and bounded.
LEMMA PlacesStep ==
    SessionTypeOK /\ PlacesAreConnections /\ [SessionNext]_sessionVars
        => PlacesAreConnections'
<1> SUFFICES ASSUME SessionTypeOK, PlacesAreConnections, [SessionNext]_sessionVars
             PROVE  PlacesAreConnections'
  OBVIOUS
<1> USE SessionAssumption DEF Conns
<1>1. ASSUME NEW c \in Observers, pc' = [pc EXCEPT ![c] = pc'[c]], UNCHANGED connections
      PROVE  PlacesAreConnections'
  <2>1. \A d \in Viewers : pc'[d] = pc[d]
    BY <1>1 DEF SessionTypeOK
  <2> QED BY <1>1, <2>1, QuietPlaces
<1>2. ASSUME NEW c \in Observers, KickPrevious(c) PROVE PlacesAreConnections'
  <2> DEFINE stages == [pc EXCEPT ![c] = "admitted"]
  <2>1. stages \in [Conns -> Stages] /\ \A d \in Viewers : stages[d] = pc[d]
    BY DEF SessionTypeOK, Stages
  <2>2. pc' = Kicked(stages, previous[c]) /\ UNCHANGED connections
    BY <1>2 DEF KickPrevious
  <2>3. \A d \in Viewers : d # previous[c]
    BY DEF SessionTypeOK
  <2> HIDE DEF stages
  <2>4. \A d \in Viewers : pc'[d] = pc[d]
    BY <2>1, <2>2, <2>3, KickedOthers
  <2> QED BY <2>2, <2>4, QuietPlaces
<1>3. ASSUME NEW c \in Observers, DelayedClose(c) PROVE PlacesAreConnections'
  <2>1. \A d \in Viewers : pc'[d] = pc[d]
    BY <1>3, KickedOthers DEF DelayedClose, SessionTypeOK
  <2> QED BY <1>3, <2>1, QuietPlaces DEF DelayedClose
<1>4. ASSUME NEW c \in Viewers, TakePlace(c) PROVE PlacesAreConnections'
  <2> DEFINE u == UserOf[c]
  <2>1. u \in Users /\ c \notin connections[u]
    BY <1>4 DEF TakePlace, PlacesAreConnections
  <2>2. /\ connections' = [connections EXCEPT ![u] = @ \cup {c}]
        /\ pc' = [pc EXCEPT ![c] = "admitted"]
        /\ Cardinality(connections[u]) < max_connections[u]
    BY <1>4, <2>1 DEF TakePlace, HasPlace, Goto
  <2>3. Cardinality(connections'[u]) = Cardinality(connections[u]) + 1
    BY <2>1, <2>2, PlacesFinite, FS_AddElement DEF SessionTypeOK
  <2>4. Cardinality(connections'[u]) <= max_connections[u]
    BY <2>1, <2>2, <2>3, PlacesFinite
  <2>5. \A v \in Users : connections'[v] = {d \in Viewers : UserOf[d] = v
                               /\ pc'[d] \in {"admitted", "connected", "disconnecting"}}
    BY <2>2 DEF SessionTypeOK, PlacesAreConnections
  <2>6. \A v \in Users : v # u => connections'[v] = connections[v]
    BY <2>2 DEF SessionTypeOK
  <2> QED BY <2>4, <2>5, <2>6 DEF PlacesAreConnections
<1>5. ASSUME NEW c \in Viewers, ReleasePlace(c) PROVE PlacesAreConnections'
  <2> DEFINE u == UserOf[c]
  <2>1. u \in Users
    OBVIOUS
  <2>2. /\ connections' = [connections EXCEPT ![u] = @ \ {c}]
        /\ pc' = [pc EXCEPT ![c] = pc'[c]]
        /\ pc'[c] \in {"offline", "gone"}
    BY <1>5 DEF ReleasePlace, FreePlace, Goto, SessionTypeOK
  <2>3. Cardinality(connections'[u]) <= Cardinality(connections[u])
    <3>1. connections'[u] \subseteq connections[u]
      BY <2>1, <2>2 DEF SessionTypeOK
    <3> QED BY <2>1, <3>1, PlacesFinite, FS_Subset
  <2>4. Cardinality(connections'[u]) \in Nat
    <3>1. connections'[u] \subseteq Viewers
      BY <2>1, <2>2 DEF SessionTypeOK
    <3> QED BY <3>1, FS_Subset, FS_CardinalityType
  <2>5. Cardinality(connections'[u]) <= max_connections[u]
    BY <2>1, <2>3, <2>4, PlacesFinite DEF PlacesAreConnections
  <2>6. \A v \in Users : connections'[v] = {d \in Viewers : UserOf[d] = v
                               /\ pc'[d] \in {"admitted", "connected", "disconnecting"}}
    BY <2>2 DEF SessionTypeOK, PlacesAreConnections
  <2>7. \A v \in Users : v # u => connections'[v] = connections[v]
    BY <2>2 DEF SessionTypeOK
  <2> QED BY <2>5, <2>6, <2>7 DEF PlacesAreConnections
<1>6. ASSUME NEW c \in Conns, Register(c) \/ Refuse(c) \/ Disconnect(c)
      PROVE  PlacesAreConnections'
  <2>1. \A d \in Viewers : pc'[d] \in PlacesTaken <=> pc[d] \in PlacesTaken
    BY <1>6 DEF Register, Refuse, Disconnect, Goto, SessionTypeOK, PlacesTaken
  <2> QED BY <1>6, <2>1, QuietPlaces DEF Register, Refuse, Disconnect
<1>7. ASSUME NEW c \in Observers,
             ClaimKey(c) \/ InsertSession(c) \/ ReleaseKey(c) \/ RemoveSession(c)
      PROVE  PlacesAreConnections'
  <2>1. pc' = [pc EXCEPT ![c] = pc'[c]] /\ UNCHANGED connections
    BY <1>7 DEF ClaimKey, InsertSession, ReleaseKey, RemoveSession, Goto, SessionTypeOK
  <2> QED BY <1>1, <2>1
<1>8. ASSUME NEW c \in Observers, Deny(c) PROVE PlacesAreConnections'
  BY <1>8, QuietPlaces DEF Deny
<1>9. CASE UNCHANGED sessionVars
  BY <1>9, QuietPlaces DEF sessionVars
<1> QED
  BY <1>2, <1>3, <1>4, <1>5, <1>6, <1>7, <1>8, <1>9
  DEF SessionNext, ObserverHook, ViewerHook

\* No place is taken before anyone connects.
LEMMA PlacesInit == SessionInit => PlacesAreConnections
<1> SUFFICES ASSUME SessionInit, NEW u \in Users
             PROVE  /\ connections[u] = {}
                    /\ \A c \in Viewers : pc[c] = "new"
                    /\ Cardinality(connections[u]) <= max_connections[u]
  BY DEF PlacesAreConnections
<1> QED BY FS_EmptySet, SessionAssumption DEF SessionInit, Conns

(* The places taken of an account are exactly its clients still there, and  *)
(* never more than its limit.                                               *)
THEOREM PlacesBounded == SessionSpec => []PlacesAreConnections
<1>1. SessionInit => SessionTypeOK /\ PlacesAreConnections
  BY SessionTypeInit, PlacesInit
<1>2. SessionTypeOK /\ PlacesAreConnections /\ [SessionNext]_sessionVars
          => (SessionTypeOK /\ PlacesAreConnections)'
  BY SessionTypeStep, PlacesStep
<1> QED BY <1>1, <1>2, PTL DEF SessionSpec

----------------------------------------------------------------------------
(* A connection that does not own its key any more never owns it again.     *)

HookStages == {"acl", "allowed", "transform", "will", "forward", "route", "route_refused"}
Handled == [stage : HookStages, msg : Messages, owns : BOOLEAN]

Working ==
    /\ pc \in [Conns -> Stages]
    /\ owner \in [Keys -> Observers \cup {None}]
    /\ pub \in [Observers -> {Idle} \cup Handled]
    /\ lateForwards \in [Observers -> Nat]
    /\ lateRoutes \in [Observers -> Nat]
    /\ \A c \in Observers : pc[c] = "new" => pub[c] = Idle

Lost(c) == pc[c] # "new" /\ owner[KeyOf[c]] # c

\* A forward, or a routing, that no later ownership check can prevent.
WillForward(c) ==
    \/ pub[c].stage = "forward"
    \/ pub[c].stage \in {"transform", "will"} /\ pub[c].owns
WillRoute(c) ==
    \/ pub[c].stage \in {"allowed", "transform", "forward", "route", "route_refused"}
    \/ pub[c].stage \in {"acl", "will"} /\ pub[c].owns

ForwardsCounted ==
    \A c \in Observers :
        lateForwards[c] = 0 \/ (lateForwards[c] = 1 /\ Lost(c) /\ ~WillForward(c))
RoutesCounted ==
    \A c \in Observers :
        lateRoutes[c] = 0 \/ (lateRoutes[c] = 1 /\ Lost(c) /\ ~WillRoute(c))

LateInv == Working /\ ForwardsCounted /\ RoutesCounted

(* A publish is allowed only on the word of an ownership check.             *)
LEMMA AllowedIsOwned ==
    ASSUME NEW p \in Handled, Decision(p) = "allow"
    PROVE  p.owns
<1>1. p.msg.stale \in {"deny", "close"}
  BY MessageAssumption DEF Handled
<1> QED BY <1>1 DEF Decision

(* How one step may change the sessions: a key passes to a connection that  *)
(* was new, or is released, and no connection is new again.                 *)
LEMMA SessionMoves ==
    ASSUME Working, [PipelineNext]_pipelineVars
    PROVE  /\ pc' \in [Conns -> Stages]
           /\ owner' \in [Keys -> Observers \cup {None}]
           /\ \A c \in Observers : pc'[c] = "new" => pc[c] = "new"
           /\ \A c \in Observers : Lost(c) => Lost(c)'
<1> USE SessionAssumption DEF Conns, Working, Lost
<1>1. ASSUME UNCHANGED <<pc, owner>>
      PROVE  /\ pc' \in [Conns -> Stages]
             /\ owner' \in [Keys -> Observers \cup {None}]
             /\ \A c \in Observers : pc'[c] = "new" => pc[c] = "new"
             /\ \A c \in Observers : Lost(c) => Lost(c)'
  BY <1>1
<1>2. ASSUME NEW d \in Observers, SessionStep(d)
      PROVE  /\ pc' \in [Conns -> Stages]
             /\ owner' \in [Keys -> Observers \cup {None}]
             /\ \A c \in Observers : pc'[c] = "new" => pc[c] = "new"
             /\ \A c \in Observers : Lost(c) => Lost(c)'
  <2>1. CASE ClaimKey(d)
    BY <2>1 DEF ClaimKey, Goto, Set, Stages
  <2>2. CASE InsertSession(d)
    BY <2>2 DEF InsertSession, Goto, Stages
  <2>3. CASE KickPrevious(d)
    BY <2>3 DEF KickPrevious, Kicked, Stages
  <2>4. CASE Register(d)
    BY <2>4 DEF Register, Goto, Stages
  <2>5. CASE Disconnect(d)
    BY <2>5 DEF Disconnect, Goto, Stages
  <2>6. CASE DelayedClose(d)
    BY <2>6 DEF DelayedClose, Kicked, Stages
  <2>7. CASE RemoveSession(d)
    BY <2>7 DEF RemoveSession, Goto, Stages
  <2>8. CASE ReleaseKey(d)
    BY <2>8 DEF ReleaseKey, Goto, Release, Stages
  <2> QED BY <1>2, <2>1, <2>2, <2>3, <2>4, <2>5, <2>6, <2>7, <2>8 DEF SessionStep
<1>3. ASSUME NEW d \in Observers, PublishStep(d) PROVE UNCHANGED <<pc, owner>>
  BY <1>3 DEF PublishStep, AclDeny, AclAllow, BeginTransform, TransformAllow, TransformDeny,
              Forward, RouteMessage, sessionVars
<1>4. ASSUME NEW d \in Observers, NEW m \in Messages, BeginPublish(d, m) \/ BeginWill(d, m)
      PROVE  UNCHANGED <<pc, owner>>
  BY <1>4 DEF BeginPublish, BeginWill, sessionVars
<1>5. UNCHANGED pipelineVars => UNCHANGED <<pc, owner>>
  BY DEF pipelineVars, sessionVars
<1> QED
  BY <1>1, <1>2, <1>3, <1>4, <1>5 DEF PipelineNext

----------------------------------------------------------------------------
(* What a step of a hook does to the publish it handles: it commits to a    *)
(* forward or a routing only on a fresh ownership check, and one is counted *)
(* as late only when it ends such a commitment of a connection that lost    *)
(* its key.                                                                 *)
HookMove(d) ==
    /\ pc[d] # "new"
    /\ \E p \in {Idle} \cup Handled : pub' = [pub EXCEPT ![d] = p]
    /\ WillForward(d)' => WillForward(d) \/ owner[KeyOf[d]] = d
    /\ WillRoute(d)' => WillRoute(d) \/ owner[KeyOf[d]] = d
    /\ \/ lateForwards' = lateForwards
       \/ /\ Lost(d) /\ WillForward(d) /\ ~WillForward(d)'
          /\ lateForwards' = [lateForwards EXCEPT ![d] = @ + 1]
    /\ \/ lateRoutes' = lateRoutes
       \/ /\ Lost(d) /\ WillRoute(d) /\ ~WillRoute(d)'
          /\ lateRoutes' = [lateRoutes EXCEPT ![d] = @ + 1]

(* The publish being handled is a record of the hook's locals.              *)
LEMMA HandledFields ==
    ASSUME Working, NEW d \in Observers, pub[d] # Idle
    PROVE  /\ pub[d] \in Handled
           /\ pub[d].stage \in HookStages
           /\ pc[d] # "new"
BY DEF Working, Handled

(* A hook that moves to another stage keeps the message and what it read.   *)
LEMMA NextStage ==
    ASSUME Working, NEW d \in Observers, pub[d] # Idle, NEW stage \in HookStages,
           Step(d, stage)
    PROVE  /\ [pub[d] EXCEPT !.stage = stage] \in Handled
           /\ pub' = [pub EXCEPT ![d] = [pub[d] EXCEPT !.stage = stage]]
           /\ pub'[d].stage = stage /\ pub'[d].owns = pub[d].owns /\ pub'[d].msg = pub[d].msg
<1>1. pub[d] \in Handled
  BY HandledFields
<1> QED BY <1>1 DEF Step, Working, Handled

(* A new publish, a will and the second hook read the owner.                *)
LEMMA BeginMoves ==
    ASSUME Working, NEW d \in Observers,
           BeginTransform(d) \/ \E m \in Messages : BeginPublish(d, m) \/ BeginWill(d, m)
    PROVE  HookMove(d)
<1>1. CASE BeginTransform(d)
  <2>1. pub[d] \in Handled /\ pub[d] # Idle /\ pc[d] # "new"
    BY <1>1, HandledFields DEF BeginTransform, At, Idle
  <2> DEFINE mine == owner[KeyOf[d]] = d
             p == [pub[d] EXCEPT !.stage = "transform", !.owns = mine]
  <2>2. mine \in BOOLEAN
    OBVIOUS
  <2>3. pub' = [pub EXCEPT ![d] = p]
    BY <1>1 DEF BeginTransform, ReadOwner, Working
  <2> HIDE DEF mine
  <2>4. p \in Handled /\ p.stage = "transform" /\ p.owns = mine
    BY <2>1, <2>2 DEF Handled, HookStages
  <2> HIDE DEF p
  <2>5. pub'[d] = p
    BY <2>3 DEF Working
  <2>6. WillForward(d)' => mine
    BY <2>4, <2>5 DEF WillForward
  <2>7. WillRoute(d)
    BY <1>1 DEF WillRoute, BeginTransform, At
  <2> QED
    BY <1>1, <2>1, <2>3, <2>4, <2>6, <2>7 DEF HookMove, BeginTransform, pipelineHistory, mine
<1>2. ASSUME NEW m \in Messages, BeginPublish(d, m) \/ BeginWill(d, m) PROVE HookMove(d)
  <2> DEFINE mine == owner[KeyOf[d]] = d
             stage == IF BeginPublish(d, m) THEN "acl" ELSE "will"
             p == [stage |-> stage, msg |-> m, owns |-> mine]
  <2>1. pc[d] # "new" /\ UNCHANGED pipelineHistory /\ pub' = [pub EXCEPT ![d] = p]
    BY <1>2 DEF BeginPublish, BeginWill, AclReadOwner
  <2>2. mine \in BOOLEAN /\ stage \in {"acl", "will"}
    OBVIOUS
  <2> HIDE DEF mine, stage
  <2>3. p \in Handled /\ p.stage \in {"acl", "will"} /\ p.owns = mine
    BY <2>2 DEF Handled, HookStages
  <2> HIDE DEF p
  <2>4. pub'[d] = p
    BY <2>1 DEF Working
  <2>5. WillForward(d)' => mine
    BY <2>3, <2>4 DEF WillForward
  <2>6. WillRoute(d)' => mine
    BY <2>3, <2>4 DEF WillRoute
  <2> QED
    BY <2>1, <2>3, <2>5, <2>6 DEF HookMove, pipelineHistory, mine
<1> QED BY <1>1, <1>2

(* A publish that is done commits to nothing.                               *)
LEMMA DoneMoves ==
    ASSUME Working, NEW d \in Observers, Done(d)
    PROVE  /\ pub' = [pub EXCEPT ![d] = Idle]
           /\ ~WillForward(d)' /\ ~WillRoute(d)'
<1>1. pub'[d] = Idle
  BY DEF Done, Working
<1>2. pub'[d].stage = "idle"
  BY <1>1 DEF Idle
<1> QED BY <1>2 DEF Done, WillForward, WillRoute

(* The steps that do not read the owner only carry on what the last check   *)
(* allowed.                                                                 *)
LEMMA PublishMoves ==
    ASSUME Working, NEW d \in Observers, PublishStep(d)
    PROVE  HookMove(d)
<1>1. pub[d] # Idle /\ pub[d] \in Handled /\ pc[d] # "new"
  <2>1. pub[d].stage # "idle"
    BY DEF PublishStep, AclDeny, AclAllow, BeginTransform, TransformAllow, TransformDeny,
           Forward, RouteMessage, At
  <2> QED BY <2>1, HandledFields DEF Idle
<1>2. CASE AclDeny(d)
  BY <1>1, <1>2, DoneMoves DEF AclDeny, HookMove, pipelineHistory
<1>3. CASE AclAllow(d)
  <2>1. pub[d].owns /\ WillRoute(d)
    BY <1>1, <1>3, AllowedIsOwned DEF AclAllow, At, WillRoute
  <2>2. CASE Fresh(d)
    <3>1. Step(d, "allowed")
      BY <1>3, <2>2 DEF AclAllow
    <3>2. ~WillForward(d)'
      BY <1>1, <3>1, NextStage DEF WillForward, HookStages
    <3> QED
      BY <1>1, <1>3, <2>1, <3>1, <3>2, NextStage
      DEF AclAllow, HookMove, pipelineHistory, HookStages
  <2>3. CASE ~Fresh(d)
    BY <1>1, <1>3, <2>3, DoneMoves DEF AclAllow, HookMove, pipelineHistory
  <2> QED BY <2>2, <2>3
<1>4. CASE BeginTransform(d)
  BY <1>4, BeginMoves
<1>5. CASE TransformAllow(d)
  <2>1. Step(d, "forward") /\ WillForward(d) /\ WillRoute(d)
    BY <1>1, <1>5, AllowedIsOwned DEF TransformAllow, WillForward, WillRoute
  <2> QED
    BY <1>1, <1>5, <2>1, NextStage DEF TransformAllow, HookMove, pipelineHistory, HookStages
<1>6. CASE TransformDeny(d)
  <2>1. CASE At(d, "will")
    BY <1>1, <1>6, <2>1, DoneMoves DEF TransformDeny, SinkWill, HookMove, pipelineHistory
  <2>2. CASE ~At(d, "will")
    <3>1. Step(d, "route_refused") /\ WillRoute(d)
      BY <1>6, <2>2 DEF TransformDeny, RouteUnchanged, At, WillRoute
    <3>2. ~WillForward(d)'
      BY <1>1, <3>1, NextStage DEF WillForward, HookStages
    <3> QED
      BY <1>1, <1>6, <3>1, <3>2, NextStage
      DEF TransformDeny, HookMove, pipelineHistory, HookStages
  <2> QED BY <2>1, <2>2
<1>7. CASE Forward(d)
  <2>1. Step(d, "route") /\ WillForward(d) /\ WillRoute(d)
    BY <1>7 DEF Forward, At, WillForward, WillRoute
  <2>2. ~WillForward(d)'
    BY <1>1, <2>1, NextStage DEF WillForward, HookStages
  <2>3. \/ lateForwards' = lateForwards
        \/ Lost(d) /\ lateForwards' = [lateForwards EXCEPT ![d] = @ + 1]
    <3>1. CASE owner[KeyOf[d]] = d
      BY <1>7, <3>1 DEF Forward, Late, Working
    <3>2. CASE owner[KeyOf[d]] # d
      BY <1>1, <1>7, <3>2 DEF Forward, Late, Lost
    <3> QED BY <3>1, <3>2
  <2>4. lateRoutes' = lateRoutes
    BY <1>7 DEF Forward
  <2>5. \E p \in {Idle} \cup Handled : pub' = [pub EXCEPT ![d] = p]
    BY <1>1, <2>1, NextStage DEF HookStages
  <2> QED
    BY <1>1, <2>1, <2>2, <2>3, <2>4, <2>5 DEF HookMove
<1>8. CASE RouteMessage(d)
  <2>1. Done(d) /\ WillRoute(d) /\ lateForwards' = lateForwards
    BY <1>8 DEF RouteMessage, WillRoute
  <2>2. \/ lateRoutes' = lateRoutes
        \/ Lost(d) /\ lateRoutes' = [lateRoutes EXCEPT ![d] = @ + 1]
    <3>1. CASE owner[KeyOf[d]] = d
      BY <1>8, <3>1 DEF RouteMessage, Late, Working
    <3>2. CASE owner[KeyOf[d]] # d
      BY <1>1, <1>8, <3>2 DEF RouteMessage, Late, Lost
    <3> QED BY <3>1, <3>2
  <2> QED
    BY <1>1, <2>1, <2>2, DoneMoves DEF HookMove
<1> QED
  BY <1>2, <1>3, <1>4, <1>5, <1>6, <1>7, <1>8 DEF PublishStep

----------------------------------------------------------------------------
(* Every step is a step of one hook on its publish, or leaves the publishes *)
(* and their counts alone.                                                  *)
LEMMA HookOrSession ==
    ASSUME Working, [PipelineNext]_pipelineVars
    PROVE  \/ UNCHANGED <<pub, lateForwards, lateRoutes>>
           \/ \E d \in Observers : HookMove(d) /\ UNCHANGED <<pc, owner>>
<1>1. ASSUME NEW d \in Observers, SessionStep(d)
      PROVE  UNCHANGED <<pub, lateForwards, lateRoutes>>
  BY <1>1 DEF SessionStep, pipelineHistory
<1>2. ASSUME NEW d \in Observers, PublishStep(d)
      PROVE  HookMove(d) /\ UNCHANGED <<pc, owner>>
  BY <1>2, PublishMoves
  DEF PublishStep, AclDeny, AclAllow, BeginTransform, TransformAllow, TransformDeny,
      Forward, RouteMessage, sessionVars
<1>3. ASSUME NEW d \in Observers, NEW m \in Messages, BeginPublish(d, m) \/ BeginWill(d, m)
      PROVE  HookMove(d) /\ UNCHANGED <<pc, owner>>
  <2>1. UNCHANGED <<pc, owner>>
    BY <1>3 DEF BeginPublish, BeginWill, sessionVars
  <2> QED BY <1>3, <2>1, BeginMoves
<1>4. UNCHANGED pipelineVars => UNCHANGED <<pub, lateForwards, lateRoutes>>
  BY DEF pipelineVars, pipelineHistory
<1> QED
  BY <1>1, <1>2, <1>3, <1>4 DEF PipelineNext

(* The counts stay within one: a commitment made before the loss is spent   *)
(* by the late step, and none is made after it.                             *)
LEMMA LateInvStep ==
    ASSUME LateInv, [PipelineNext]_pipelineVars
    PROVE  LateInv'
<1>1. /\ pc' \in [Conns -> Stages]
      /\ owner' \in [Keys -> Observers \cup {None}]
      /\ \A c \in Observers : pc'[c] = "new" => pc[c] = "new"
      /\ \A c \in Observers : Lost(c) => Lost(c)'
  BY SessionMoves DEF LateInv
<1>2. CASE UNCHANGED <<pub, lateForwards, lateRoutes>>
  <2>1. Working'
    BY <1>1, <1>2 DEF LateInv, Working
  <2>2. ForwardsCounted' /\ RoutesCounted'
    BY <1>1, <1>2 DEF LateInv, ForwardsCounted, RoutesCounted, WillForward, WillRoute
  <2> QED BY <2>1, <2>2 DEF LateInv
<1>3. ASSUME NEW d \in Observers, HookMove(d), UNCHANGED <<pc, owner>>
      PROVE  LateInv'
  <2>1. PICK p \in {Idle} \cup Handled : pub' = [pub EXCEPT ![d] = p]
    BY <1>3 DEF HookMove
  <2>2. \A c \in Observers : c # d => pub'[c] = pub[c]
    BY <2>1 DEF LateInv, Working
  <2>3. Working'
    <3>1. pub' \in [Observers -> {Idle} \cup Handled]
      BY <2>1 DEF LateInv, Working
    <3>2. lateForwards' \in [Observers -> Nat] /\ lateRoutes' \in [Observers -> Nat]
      BY <1>3 DEF LateInv, Working, HookMove
    <3>3. \A c \in Observers : pc'[c] = "new" => pub'[c] = Idle
      BY <1>3, <2>2 DEF LateInv, Working, HookMove
    <3> QED BY <1>1, <3>1, <3>2, <3>3 DEF Working
  <2>4. ForwardsCounted'
    <3> SUFFICES ASSUME NEW c \in Observers
                 PROVE  (lateForwards[c] = 0 \/ (lateForwards[c] = 1 /\ Lost(c) /\ ~WillForward(c)))'
      BY DEF ForwardsCounted
    <3>1. CASE c # d
      <4>1. lateForwards'[c] = lateForwards[c] /\ (WillForward(c)' <=> WillForward(c))
        BY <1>3, <2>2, <3>1 DEF HookMove, LateInv, Working, WillForward
      <4> QED BY <1>1, <4>1 DEF LateInv, ForwardsCounted
    <3>2. CASE c = d
      <4>1. WillForward(d)' => WillForward(d) \/ owner[KeyOf[d]] = d
        BY <1>3 DEF HookMove
      <4>2. CASE lateForwards' = lateForwards
        BY <1>1, <3>2, <4>1, <4>2 DEF LateInv, ForwardsCounted, Lost
      <4>3. CASE /\ Lost(d) /\ WillForward(d) /\ ~WillForward(d)'
                 /\ lateForwards' = [lateForwards EXCEPT ![d] = @ + 1]
        <5>1. lateForwards[d] = 0
          BY <4>3 DEF LateInv, ForwardsCounted
        <5>2. lateForwards'[d] = 1
          BY <4>3, <5>1 DEF LateInv, Working
        <5> QED BY <1>1, <3>2, <4>3, <5>2
      <4> QED BY <1>3, <4>2, <4>3 DEF HookMove
    <3> QED BY <3>1, <3>2
  <2>5. RoutesCounted'
    <3> SUFFICES ASSUME NEW c \in Observers
                 PROVE  (lateRoutes[c] = 0 \/ (lateRoutes[c] = 1 /\ Lost(c) /\ ~WillRoute(c)))'
      BY DEF RoutesCounted
    <3>1. CASE c # d
      <4>1. lateRoutes'[c] = lateRoutes[c] /\ (WillRoute(c)' <=> WillRoute(c))
        BY <1>3, <2>2, <3>1 DEF HookMove, LateInv, Working, WillRoute
      <4> QED BY <1>1, <4>1 DEF LateInv, RoutesCounted
    <3>2. CASE c = d
      <4>1. WillRoute(d)' => WillRoute(d) \/ owner[KeyOf[d]] = d
        BY <1>3 DEF HookMove
      <4>2. CASE lateRoutes' = lateRoutes
        BY <1>1, <3>2, <4>1, <4>2 DEF LateInv, RoutesCounted, Lost
      <4>3. CASE /\ Lost(d) /\ WillRoute(d) /\ ~WillRoute(d)'
                 /\ lateRoutes' = [lateRoutes EXCEPT ![d] = @ + 1]
        <5>1. lateRoutes[d] = 0
          BY <4>3 DEF LateInv, RoutesCounted
        <5>2. lateRoutes'[d] = 1
          BY <4>3, <5>1 DEF LateInv, Working
        <5> QED BY <1>1, <3>2, <4>3, <5>2
      <4> QED BY <1>3, <4>2, <4>3 DEF HookMove
    <3> QED BY <3>1, <3>2
  <2> QED BY <2>3, <2>4, <2>5 DEF LateInv
<1> QED
  BY <1>2, <1>3, HookOrSession DEF LateInv

(* The counts and the records hold from the start.                          *)
LEMMA LateInvHolds == PipelineSpec => []LateInv
<1>1. PipelineInit => LateInv
  <2> SUFFICES ASSUME PipelineInit PROVE LateInv
    OBVIOUS
  <2>1. Working
    <3>1. pc \in [Conns -> Stages] /\ owner \in [Keys -> Observers \cup {None}]
      BY DEF PipelineInit, SessionInit, Stages
    <3>2. /\ pub \in [Observers -> {Idle} \cup Handled]
          /\ \A c \in Observers : pub[c] = Idle
      BY DEF PipelineInit
    <3>3. lateForwards \in [Observers -> Nat] /\ lateRoutes \in [Observers -> Nat]
      BY DEF PipelineInit
    <3> QED BY <3>1, <3>2, <3>3 DEF Working
  <2>2. \A c \in Observers : lateForwards[c] = 0 /\ lateRoutes[c] = 0
    BY DEF PipelineInit
  <2>3. ForwardsCounted /\ RoutesCounted
    <3>1. ForwardsCounted
      BY <2>2 DEF ForwardsCounted
    <3>2. RoutesCounted
      BY <2>2 DEF RoutesCounted
    <3> QED BY <3>1, <3>2
  <2> QED BY <2>1, <2>3 DEF LateInv
<1>2. LateInv /\ [PipelineNext]_pipelineVars => LateInv'
  BY LateInvStep
<1> QED BY <1>1, <1>2, PTL DEF PipelineSpec

(* A connection that was taken over forwards at most one more message and   *)
(* has at most one more routed, however many connections, keys and          *)
(* publishes interleave with its hooks (hooks.rs lines 259-264, 319-346).   *)
THEOREM TakenOverIsCutOff == PipelineSpec => []TakenOverSpeaksAtMostOnce
<1>1. LateInv => TakenOverSpeaksAtMostOnce
  <2> SUFFICES ASSUME LateInv, NEW c \in Observers
               PROVE  lateForwards[c] <= 1 /\ lateRoutes[c] <= 1
    BY DEF TakenOverSpeaksAtMostOnce
  <2>1. lateForwards[c] \in {0, 1}
    BY DEF LateInv, ForwardsCounted
  <2>2. lateRoutes[c] \in {0, 1}
    BY DEF LateInv, RoutesCounted
  <2> QED BY <2>1, <2>2
<1> QED BY <1>1, LateInvHolds, PTL

----------------------------------------------------------------------------
(* The sessions inside the pipeline.  The pipeline steps observer sessions  *)
(* with the actions of ObserverSessions and starts delayed closes from its  *)
(* own ACL hook.  That hook may run on after a kick, but a session handles  *)
(* its close only between two publishes, so whoever handles a publish has   *)
(* not released anything yet - which is all that Deny asks for.             *)

BusyIsPresent ==
    \A c \in Observers : pub[c] # Idle => pc[c] \in {"connected", "disconnecting"}

(* A session moves only while it handles no publish, except that a kick or  *)
(* a hang-up takes it from connected to disconnecting.                      *)
LEMMA BusyStep ==
    ASSUME Working, BusyIsPresent, [PipelineNext]_pipelineVars
    PROVE  BusyIsPresent'
<1> USE SessionAssumption DEF Conns, Working, BusyIsPresent
<1>1. ASSUME UNCHANGED <<pc, pub>> PROVE BusyIsPresent'
  BY <1>1
<1>2. ASSUME NEW d \in Observers, SessionStep(d) PROVE BusyIsPresent'
  <2>1. pub' = pub
    BY <1>2 DEF SessionStep
  <2>2. \A c \in Observers : pub[c] # Idle /\ pc[c] \in {"connected", "disconnecting"}
                               => pc'[c] \in {"connected", "disconnecting"}
    <3>1. CASE ClaimKey(d)
      BY <3>1 DEF ClaimKey, Goto
    <3>2. CASE InsertSession(d)
      BY <3>2 DEF InsertSession, Goto
    <3>3. CASE KickPrevious(d)
      BY <3>3 DEF KickPrevious, Kicked, Stages
    <3>4. CASE Register(d)
      BY <3>4 DEF Register, Goto
    <3>5. CASE Disconnect(d)
      BY <3>5 DEF Disconnect, Goto
    <3>6. CASE DelayedClose(d)
      BY <3>6 DEF DelayedClose, Kicked
    <3>7. CASE RemoveSession(d)
      BY <3>7 DEF RemoveSession, Goto
    <3>8. CASE At(d, "idle") /\ ReleaseKey(d)
      <4>1. pub[d] = Idle
        BY <3>8 DEF At, Handled, HookStages
      <4> QED BY <3>8, <4>1 DEF ReleaseKey, Goto
    <3> QED BY <1>2, <3>1, <3>2, <3>3, <3>4, <3>5, <3>6, <3>7, <3>8 DEF SessionStep
  <2> QED BY <2>1, <2>2
<1>3. ASSUME NEW d \in Observers, PublishStep(d) PROVE BusyIsPresent'
  <2>1. pub[d] # Idle
    BY <1>3 DEF PublishStep, AclDeny, AclAllow, BeginTransform, TransformAllow, TransformDeny,
                Forward, RouteMessage, At, Idle
  <2>2. pc' = pc
    BY <1>3 DEF PublishStep, AclDeny, AclAllow, BeginTransform, TransformAllow, TransformDeny,
                Forward, RouteMessage, sessionVars
  <2>3. \A c \in Observers : c # d => pub'[c] = pub[c]
    BY <1>3 DEF PublishStep, AclDeny, AclAllow, BeginTransform, TransformAllow, TransformDeny,
                Forward, RouteMessage, Step, Done, ReadOwner, SinkWill, RouteUnchanged
  <2> QED BY <2>1, <2>2, <2>3
<1>4. ASSUME NEW d \in Observers, NEW m \in Messages, BeginPublish(d, m) \/ BeginWill(d, m)
      PROVE  BusyIsPresent'
  BY <1>4 DEF BeginPublish, BeginWill, AclReadOwner, sessionVars
<1>5. UNCHANGED pipelineVars => UNCHANGED <<pc, pub>>
  BY DEF pipelineVars, sessionVars
<1> QED
  BY <1>1, <1>2, <1>3, <1>4, <1>5 DEF PipelineNext

(* Seen through the session variables, a step of the pipeline is a step of  *)
(* ObserverSessions or nothing.                                             *)
LEMMA PipelineStepsSessions ==
    ASSUME Working, BusyIsPresent, [PipelineNext]_pipelineVars
    PROVE  [SessionNext]_sessionVars
<1>1. ASSUME NEW d \in Observers, SessionStep(d) PROVE SessionNext
  BY <1>1 DEF SessionStep, SessionNext, ObserverHook, Conns
<1>2. ASSUME NEW d \in Observers, AclDeny(d) PROVE [SessionNext]_sessionVars
  <2>1. CASE Decision(pub[d]) = "close"
    <3>1. pub[d] # Idle
      BY <1>2 DEF AclDeny, At, Idle
    <3>2. Deny(d)
      BY <1>2, <2>1, <3>1 DEF AclDeny, Deny, BusyIsPresent
    <3> QED BY <3>2 DEF SessionNext
  <2>2. CASE Decision(pub[d]) # "close"
    BY <1>2, <2>2 DEF AclDeny, sessionVars
  <2> QED BY <2>1, <2>2
<1>3. ASSUME NEW d \in Observers, PublishStep(d), ~AclDeny(d) PROVE UNCHANGED sessionVars
  BY <1>3 DEF PublishStep, AclAllow, BeginTransform, TransformAllow, TransformDeny,
              Forward, RouteMessage
<1>4. ASSUME NEW d \in Observers, NEW m \in Messages, BeginPublish(d, m) \/ BeginWill(d, m)
      PROVE  UNCHANGED sessionVars
  BY <1>4 DEF BeginPublish, BeginWill
<1>5. UNCHANGED pipelineVars => UNCHANGED sessionVars
  BY DEF pipelineVars
<1> QED
  BY <1>1, <1>2, <1>3, <1>4, <1>5 DEF PipelineNext

(* The pipeline, with its two hooks per publish, wills and denials, only    *)
(* ever moves the ownership and session maps as ObserverSessions lets them  *)
(* (hooks.rs lines 168-189, 255-346 and 370-388): the pipeline implements   *)
(* the session specification.                                               *)
THEOREM PipelineImplementsSessions == PipelineSpec => SessionSpec
<1>1. PipelineInit => SessionInit /\ BusyIsPresent
  BY DEF PipelineInit, BusyIsPresent
<1>2. LateInv => Working
  BY DEF LateInv
<1>3. Working /\ BusyIsPresent /\ [PipelineNext]_pipelineVars => BusyIsPresent'
  BY BusyStep
<1>4. Working /\ BusyIsPresent /\ [PipelineNext]_pipelineVars => [SessionNext]_sessionVars
  BY PipelineStepsSessions
<1> QED BY <1>1, <1>2, <1>3, <1>4, LateInvHolds, PTL DEF PipelineSpec, SessionSpec

(* Publishes, wills and denials in flight do not disturb takeover: in the   *)
(* pipeline too the newest connection owns its key until it leaves, no map  *)
(* names a connection that is gone, and the two maps agree outside the      *)
(* hooks of a key.                                                          *)
THEOREM TakeoverHoldsInThePipeline ==
    PipelineSpec => [](NewestOwnsUntilItLeaves /\ NoOrphans /\ OwnerAndSessionAgree)
BY PipelineImplementsSessions, NewestOwns, NothingOrphaned, MapsAgree, PTL

----------------------------------------------------------------------------
(* The order of the forwarded statuses.  The guard answers at one moment of *)
(* the wall clock here, so nothing ages out, and while it has room for      *)
(* every key nothing is evicted either: what it has seen only grows.        *)

Seen(k, ts) == k \in DOMAIN latest /\ latest[k].ts >= ts

GuardKeeps ==
    /\ clock = 0 /\ last_sweep_at = 0
    /\ DOMAIN latest \subseteq Keys
    /\ \A k \in DOMAIN latest : latest[k].ts \in Timestamps

InOrder(c) ==
    /\ forwarded[c] # 0 => Seen(KeyOf[c], forwarded[c])
    /\ At(c, "forward") /\ IsStatus(pub[c]) =>
           Seen(KeyOf[c], pub[c].msg.ts) /\ pub[c].msg.ts >= forwarded[c]

OrderInv ==
    /\ GuardKeeps
    /\ forwarded \in [Observers -> Timestamps \cup {0}]
    /\ \A c \in Observers : InOrder(c)

(* Asked about a status, the guard loses no record and sets none back; a    *)
(* status it does not refuse is the newest of its key from then on.         *)
LEMMA GuardOnlyGrows ==
    ASSUME Cardinality(Keys) <= Capacity, GuardKeeps,
           NEW k \in Keys, NEW ts \in Timestamps, Guard!AcceptStatus(k, ts, clock)
    PROVE  /\ GuardKeeps'
           /\ \A j \in DOMAIN latest : j \in DOMAIN latest' /\ latest'[j].ts >= latest[j].ts
           /\ ~Guard!IsStale(k, ts, clock) => k \in DOMAIN latest' /\ latest'[k].ts = ts
<1> USE PipelineAssumption
<1>1. ~Guard!SweepDue(clock) /\ Guard!Surviving(clock) = DOMAIN latest
  BY DEF Guard!SweepDue, Guard!Surviving, GuardKeeps
<1>2. clock' = 0 /\ last_sweep_at' = 0
  BY <1>1 DEF Guard!AcceptStatus, GuardKeeps
<1>3. CASE Guard!IsStale(k, ts, clock)
  <2>1. latest' = [j \in DOMAIN latest |-> latest[j]]
    BY <1>1, <1>3 DEF Guard!AcceptStatus, Guard!RefuseStatus
  <2> QED BY <1>2, <1>3, <2>1 DEF GuardKeeps
<1>4. CASE ~Guard!IsStale(k, ts, clock)
  <2> DEFINE known == DOMAIN latest \cup {k}
  <2>1. ~Guard!OverCapacity(known)
    <3>1. known \subseteq Keys
      BY DEF GuardKeeps
    <3>2. Cardinality(known) <= Cardinality(Keys) /\ IsFiniteSet(known)
      BY <3>1, FS_Subset
    <3>3. Cardinality(known) \in Nat /\ Cardinality(Keys) \in Nat
      BY <3>2, FS_CardinalityType
    <3> HIDE DEF known
    <3>4. Guard!Cardinality(known) = Cardinality(known)
      BY DEF Guard!Cardinality, Cardinality
    <3> QED BY <3>2, <3>3, <3>4 DEF Guard!OverCapacity
  <2>2. Guard!RecordStatus(k, ts, clock)
    BY <1>4 DEF Guard!AcceptStatus
  <2>3. latest' = [j \in known \ Guard!KeysIn({}) |->
                       IF j = k THEN Guard!NewRecord(ts, clock) ELSE latest[j]]
    BY <1>1, <2>1, <2>2 DEF Guard!RecordStatus
  <2>4. Guard!KeysIn({}) = {}
    BY DEF Guard!KeysIn
  <2>5. latest' = [j \in known |-> IF j = k THEN Guard!NewRecord(ts, clock) ELSE latest[j]]
    BY <2>3, <2>4
  <2>6. Guard!NewRecord(ts, clock).ts = ts
    BY DEF Guard!NewRecord
  <2>7. k \in DOMAIN latest => ts >= latest[k].ts
    BY <1>1, <1>4 DEF Guard!IsStale, GuardKeeps
  <2>8. \A j \in DOMAIN latest : j \in DOMAIN latest' /\ latest'[j].ts >= latest[j].ts
    <3> SUFFICES ASSUME NEW j \in DOMAIN latest
                 PROVE  j \in DOMAIN latest' /\ latest'[j].ts >= latest[j].ts
      OBVIOUS
    <3>1. CASE j = k
      BY <2>5, <2>6, <2>7, <3>1
    <3>2. CASE j # k
      <4>1. latest'[j] = latest[j] /\ j \in DOMAIN latest'
        BY <2>5, <3>2
      <4>2. latest[j].ts \in Nat
        BY DEF GuardKeeps
      <4> QED BY <4>1, <4>2
    <3> QED BY <3>1, <3>2
  <2> QED BY <1>2, <2>5, <2>6, <2>8 DEF GuardKeeps
<1> QED BY <1>3, <1>4

(* A step of another connection, or of the guard, takes no order away.      *)
LEMMA SeenStaysSeen ==
    ASSUME OrderInv, GuardKeeps', NEW k, NEW ts \in Timestamps, Seen(k, ts),
           \A j \in DOMAIN latest : j \in DOMAIN latest' /\ latest'[j].ts >= latest[j].ts
    PROVE  Seen(k, ts)'
<1>1. k \in DOMAIN latest /\ k \in DOMAIN latest'
  BY DEF Seen
<1>2. latest[k].ts \in Timestamps /\ latest'[k].ts \in Timestamps
  BY <1>1 DEF OrderInv, GuardKeeps
<1>3. ts <= latest[k].ts /\ latest[k].ts <= latest'[k].ts
  BY <1>1 DEF Seen
<1>4. \A x, y, z \in Nat : x <= y /\ y <= z => z >= x
  OBVIOUS
<1>5. latest'[k].ts >= ts
  BY <1>2, <1>3, <1>4, PipelineAssumption
<1> QED BY <1>1, <1>5 DEF Seen

(* What a publish step does to the guard and to the statuses on their way:  *)
(* the guard is asked about the status that goes on, or is left alone, and  *)
(* only a status that passed both hooks is forwarded.                       *)
LEMMA GuardStep ==
    ASSUME Cardinality(Keys) <= Capacity, Working, OrderInv, [PipelineNext]_pipelineVars
    PROVE  /\ GuardKeeps'
           /\ \A j \in DOMAIN latest : j \in DOMAIN latest' /\ latest'[j].ts >= latest[j].ts
<1>1. CASE UNCHANGED guardVars
  <2>1. latest' = latest /\ clock' = clock /\ last_sweep_at' = last_sweep_at
    BY <1>1 DEF guardVars
  <2>2. GuardKeeps'
    BY <2>1 DEF OrderInv, GuardKeeps
  <2>3. \A j \in DOMAIN latest : latest[j].ts \in Nat
    BY PipelineAssumption DEF OrderInv, GuardKeeps
  <2> QED BY <2>1, <2>2, <2>3
<1>2. ASSUME NEW d \in Observers, pub[d] # Idle, ValidateStatus(d)
      PROVE  /\ GuardKeeps'
             /\ \A j \in DOMAIN latest : j \in DOMAIN latest' /\ latest'[j].ts >= latest[j].ts
  <2>1. CASE IsStatus(pub[d])
    <3>1. pub[d].msg.ts \in Timestamps /\ KeyOf[d] \in Keys
      BY <1>2, <2>1, HandledFields, MessageAssumption, SessionAssumption DEF IsStatus, Handled
    <3> QED
      BY <1>2, <2>1, <3>1, GuardOnlyGrows DEF ValidateStatus, OrderInv
  <2>2. CASE ~IsStatus(pub[d])
    BY <1>1, <1>2, <2>2 DEF ValidateStatus
  <2> QED BY <2>1, <2>2
<1>3. ASSUME NEW d \in Observers, AclAllow(d) \/ TransformAllow(d) \/ TransformDeny(d)
      PROVE  UNCHANGED guardVars \/ (pub[d] # Idle /\ ValidateStatus(d))
  BY <1>3 DEF AclAllow, TransformAllow, TransformDeny, At, Idle
<1>4. ASSUME NEW d \in Observers,
             \/ SessionStep(d) \/ AclDeny(d) \/ BeginTransform(d) \/ Forward(d) \/ RouteMessage(d)
             \/ \E m \in Messages : BeginPublish(d, m) \/ BeginWill(d, m)
      PROVE  UNCHANGED guardVars
  BY <1>4 DEF SessionStep, AclDeny, BeginTransform, Forward, RouteMessage, BeginPublish, BeginWill
<1>5. UNCHANGED pipelineVars => UNCHANGED guardVars
  BY DEF pipelineVars
<1> QED
  BY <1>1, <1>2, <1>3, <1>4, <1>5 DEF PipelineNext, PublishStep

(* A status that is about to be forwarded was there before, or has just     *)
(* passed the guard of the second hook.                                     *)
LEMMA PassesTheGuard ==
    ASSUME Working, NEW c \in Observers, [PipelineNext]_pipelineVars, At(c, "forward")'
    PROVE  \/ pub'[c] = pub[c]
           \/ /\ TransformAllow(c)
              /\ pub'[c].msg = pub[c].msg
              /\ pub[c] # Idle
<1>1. CASE UNCHANGED pub
  BY <1>1
<1>2. ASSUME NEW d \in Observers, PublishStep(d)
      PROVE  \/ pub'[c] = pub[c]
             \/ TransformAllow(c) /\ pub'[c].msg = pub[c].msg /\ pub[c] # Idle
  <2>1. CASE c # d
    BY <1>2, <2>1, PublishMoves DEF HookMove, Working
  <2>2. CASE c = d
    <3>1. CASE TransformAllow(c)
      <4>1. pub[c] # Idle /\ Step(c, "forward")
        BY <3>1 DEF TransformAllow, Idle
      <4>2. pub'[c].msg = pub[c].msg
        BY <4>1, NextStage DEF HookStages
      <4> QED BY <3>1, <4>1, <4>2
    <3>2. CASE Done(c)
      BY <3>2 DEF Done, Idle, At, Working
    <3>3. ASSUME NEW stage \in HookStages, pub[c] # Idle, Step(c, stage), stage # "forward"
          PROVE  FALSE
      BY <3>3, NextStage DEF At
    <3>4. CASE BeginTransform(c)
      <4>1. pub[c] \in Handled
        BY <3>4, HandledFields DEF BeginTransform, At, Idle
      <4> DEFINE mine == owner[KeyOf[c]] = c
                 p == [pub[c] EXCEPT !.stage = "transform", !.owns = mine]
      <4>2. pub'[c] = p
        BY <3>4 DEF BeginTransform, ReadOwner, Working
      <4> HIDE DEF mine
      <4>3. p.stage = "transform"
        BY <4>1 DEF Handled
      <4> QED BY <4>2, <4>3 DEF At
    <3>5. CASE \/ AclDeny(c) \/ AclAllow(c) \/ TransformDeny(c) \/ Forward(c)
               \/ RouteMessage(c)
      <4>1. \/ Done(c)
            \/ pub[c] # Idle /\ (Step(c, "allowed") \/ Step(c, "route_refused") \/ Step(c, "route"))
        BY <3>5 DEF AclDeny, AclAllow, TransformDeny, Forward, RouteMessage, SinkWill,
                    RouteUnchanged, At, Idle
      <4> QED BY <3>2, <3>3, <4>1 DEF HookStages
    <3> QED BY <1>2, <2>2, <3>1, <3>4, <3>5 DEF PublishStep
  <2> QED BY <2>1, <2>2
<1>3. ASSUME NEW d \in Observers, NEW m \in Messages, BeginPublish(d, m) \/ BeginWill(d, m)
      PROVE  pub'[c] = pub[c]
  BY <1>3 DEF BeginPublish, BeginWill, AclReadOwner, At, Working
<1>4. ASSUME NEW d \in Observers, SessionStep(d) PROVE UNCHANGED pub
  BY <1>4 DEF SessionStep
<1>5. UNCHANGED pipelineVars => UNCHANGED pub
  BY DEF pipelineVars
<1> QED
  BY <1>1, <1>2, <1>3, <1>4, <1>5 DEF PipelineNext

(* The history of forwards changes when a status is forwarded.              *)
LEMMA ForwardedMoves ==
    ASSUME OrderInv, [PipelineNext]_pipelineVars
    PROVE  \/ forwarded' = forwarded
           \/ \E d \in Observers :
                 /\ At(d, "forward") /\ IsStatus(pub[d]) /\ Step(d, "route")
                 /\ forwarded' = [forwarded EXCEPT ![d] = pub[d].msg.ts]
                 /\ UNCHANGED guardVars
<1>1. CASE UNCHANGED pipelineHistory \/ UNCHANGED forwarded
  BY <1>1 DEF pipelineHistory
<1>2. ASSUME NEW d \in Observers, Forward(d), IsStatus(pub[d])
      PROVE  /\ At(d, "forward") /\ IsStatus(pub[d]) /\ Step(d, "route")
             /\ forwarded' = [forwarded EXCEPT ![d] = pub[d].msg.ts]
             /\ UNCHANGED guardVars
  BY <1>2 DEF Forward
<1>3. ASSUME NEW d \in Observers, Forward(d), ~IsStatus(pub[d])
      PROVE  forwarded' = forwarded
  BY <1>3 DEF Forward, OrderInv
<1>4. ASSUME NEW d \in Observers,
             \/ SessionStep(d)
             \/ PublishStep(d) /\ ~Forward(d)
             \/ \E m \in Messages : BeginPublish(d, m) \/ BeginWill(d, m)
      PROVE  UNCHANGED pipelineHistory \/ UNCHANGED forwarded
  BY <1>4 DEF PublishStep, SessionStep, AclDeny, AclAllow, BeginTransform, TransformAllow,
              TransformDeny, RouteMessage, BeginPublish, BeginWill
<1>5. UNCHANGED pipelineVars => UNCHANGED pipelineHistory
  BY DEF pipelineVars
<1> QED
  BY <1>1, <1>2, <1>3, <1>4, <1>5 DEF PipelineNext

(* A step keeps every connection's statuses in order.                       *)
LEMMA OrderInvStep ==
    ASSUME Cardinality(Keys) <= Capacity, Working, OrderInv, [PipelineNext]_pipelineVars
    PROVE  /\ OrderInv'
           /\ \A c \in Observers : forwarded'[c] >= forwarded[c]
<1> DEFINE seen(k, ts) == k \in DOMAIN latest' /\ latest'[k].ts >= ts
<1> USE PipelineAssumption
<1>1. /\ GuardKeeps'
      /\ \A j \in DOMAIN latest : j \in DOMAIN latest' /\ latest'[j].ts >= latest[j].ts
  BY GuardStep
<1>2. \A k, ts : ts \in Timestamps /\ Seen(k, ts) => seen(k, ts)
  BY <1>1, SeenStaysSeen DEF Seen
<1>3. \A c \in Observers : forwarded[c] \in Timestamps \cup {0} /\ forwarded[c] \in Nat
  <2>1. \A c \in Observers : forwarded[c] \in Timestamps \cup {0}
    BY DEF OrderInv
  <2>2. Timestamps \cup {0} \subseteq Nat
    OBVIOUS
  <2> QED BY <2>1, <2>2
<1>4. ASSUME NEW c \in Observers, pub[c] # Idle, IsStatus(pub[c])
      PROVE  pub[c].msg.ts \in Timestamps
  <2>1. pub[c].msg \in Messages
    BY <1>4, HandledFields DEF Handled
  <2> QED BY <1>4, <2>1, MessageAssumption DEF IsStatus
<1>5. /\ forwarded' \in [Observers -> Timestamps \cup {0}]
      /\ \A c \in Observers : /\ forwarded'[c] >= forwarded[c]
                              /\ forwarded'[c] # 0 => seen(KeyOf[c], forwarded'[c])
  <2>1. CASE forwarded' = forwarded
    BY <1>2, <1>3, <2>1 DEF OrderInv, InOrder
  <2>2. ASSUME NEW d \in Observers, At(d, "forward"), IsStatus(pub[d]),
               forwarded' = [forwarded EXCEPT ![d] = pub[d].msg.ts]
        PROVE  /\ forwarded' \in [Observers -> Timestamps \cup {0}]
               /\ \A c \in Observers : /\ forwarded'[c] >= forwarded[c]
                                       /\ forwarded'[c] # 0 => seen(KeyOf[c], forwarded'[c])
    <3>1. pub[d] # Idle
      BY <2>2 DEF At, Idle
    <3>2. pub[d].msg.ts \in Timestamps
      BY <1>4, <2>2, <3>1
    <3>3. seen(KeyOf[d], pub[d].msg.ts) /\ pub[d].msg.ts >= forwarded[d]
      BY <1>2, <2>2, <3>2 DEF OrderInv, InOrder
    <3>4. forwarded'[d] = pub[d].msg.ts
      BY <2>2 DEF OrderInv
    <3>5. \A c \in Observers : c # d => forwarded'[c] = forwarded[c]
      BY <2>2 DEF OrderInv
    <3>6. forwarded' \in [Observers -> Timestamps \cup {0}]
      BY <2>2, <3>2 DEF OrderInv
    <3>7. ASSUME NEW c \in Observers
          PROVE  /\ forwarded'[c] >= forwarded[c]
                 /\ forwarded'[c] # 0 => seen(KeyOf[c], forwarded'[c])
      <4>1. CASE c = d
        BY <3>3, <3>4, <4>1
      <4>2. CASE c # d
        BY <1>2, <1>3, <3>5, <4>2 DEF OrderInv, InOrder
      <4> QED BY <4>1, <4>2
    <3> QED BY <3>6, <3>7
  <2> QED BY <2>1, <2>2, ForwardedMoves
<1>6. ASSUME NEW c \in Observers, At(c, "forward")', IsStatus(pub'[c])
      PROVE  seen(KeyOf[c], pub'[c].msg.ts) /\ pub'[c].msg.ts >= forwarded'[c]
  <2>1. CASE TransformAllow(c) /\ pub'[c].msg = pub[c].msg /\ pub[c] # Idle
    <3>1. IsStatus(pub[c]) /\ pub[c].msg.ts \in Timestamps
      BY <1>4, <1>6, <2>1 DEF IsStatus
    <3> HIDE DEF seen
    <3>2. Guard!AcceptStatus(KeyOf[c], pub[c].msg.ts, clock)
      BY <2>1, <3>1 DEF TransformAllow, ValidateStatus
    <3>3. ~Guard!IsStale(KeyOf[c], pub[c].msg.ts, clock)
      BY <2>1, <3>1 DEF TransformAllow, Fresh
    <3>4. KeyOf[c] \in Keys
      BY SessionAssumption
    <3>5. KeyOf[c] \in DOMAIN latest' /\ latest'[KeyOf[c]].ts = pub[c].msg.ts
      BY <3>1, <3>2, <3>3, <3>4, GuardOnlyGrows DEF OrderInv
    <3>6. forwarded' = forwarded
      BY <2>1 DEF TransformAllow, pipelineHistory
    <3>7. pub[c].msg.ts >= forwarded[c]
      <4>1. CASE forwarded[c] = 0
        <5>1. pub[c].msg.ts \in Nat
          BY <3>1
        <5> QED BY <4>1, <5>1
      <4>2. CASE forwarded[c] # 0
        <5>1. seen(KeyOf[c], forwarded[c])
          BY <1>2, <1>3, <4>2 DEF OrderInv, InOrder
        <5> QED BY <3>5, <3>6, <5>1 DEF seen
      <4> QED BY <4>1, <4>2
    <3>8. pub[c].msg.ts \in Nat
      BY <3>1
    <3>9. seen(KeyOf[c], pub[c].msg.ts)
      BY <3>5, <3>8 DEF seen
    <3> QED BY <2>1, <3>6, <3>7, <3>9
  <2>2. CASE pub'[c] = pub[c]
    <3>1. At(c, "forward") /\ IsStatus(pub[c])
      BY <1>6, <2>2 DEF At
    <3>2. pub[c] # Idle
      BY <3>1 DEF At, Idle
    <3>3. pub[c].msg.ts \in Timestamps
      BY <1>4, <3>1, <3>2
    <3>4. seen(KeyOf[c], pub[c].msg.ts) /\ pub[c].msg.ts >= forwarded[c]
      BY <1>2, <3>1, <3>3 DEF OrderInv, InOrder
    <3>5. forwarded'[c] = forwarded[c]
      <4>1. ASSUME NEW d \in Observers, At(d, "forward"), Step(d, "route"),
                   forwarded' = [forwarded EXCEPT ![d] = pub[d].msg.ts]
            PROVE  forwarded'[c] = forwarded[c]
        <5>1. CASE c # d
          BY <4>1, <5>1 DEF OrderInv
        <5>2. CASE c = d
          <6>1. pub'[c].stage = "route"
            BY <3>2, <4>1, <5>2, NextStage DEF HookStages
          <6> QED BY <1>6, <6>1 DEF At
        <5> QED BY <5>1, <5>2
      <4> QED BY <4>1, ForwardedMoves
    <3> QED BY <2>2, <3>4, <3>5
  <2> QED BY <1>6, <2>1, <2>2, PassesTheGuard
<1>7. \A c \in Observers : InOrder(c)'
  BY <1>5, <1>6 DEF InOrder, Seen, At
<1> QED
  BY <1>1, <1>5, <1>7 DEF OrderInv

(* With room in the guard for every key, the statuses a connection forwards *)
(* to the integrations never go back in device time, for any number of      *)
(* connections that publish for the key and take it over meanwhile          *)
(* (hooks.rs lines 103 and 277).                                            *)
THEOREM ForwardsKeepOrder ==
    ASSUME Cardinality(Keys) <= Capacity
    PROVE  PipelineSpec => ForwardedInOrder
<1>1. PipelineInit => OrderInv
  <2> SUFFICES ASSUME PipelineInit PROVE OrderInv
    OBVIOUS
  <2>1. GuardKeeps
    BY DEF PipelineInit, Guard!GuardInit, GuardKeeps
  <2>2. /\ forwarded \in [Observers -> Timestamps \cup {0}]
        /\ \A c \in Observers : forwarded[c] = 0 /\ pub[c] = Idle
    BY DEF PipelineInit
  <2>3. \A c \in Observers : InOrder(c)
    BY <2>2 DEF InOrder, At, Idle
  <2> QED BY <2>1, <2>2, <2>3 DEF OrderInv
<1>2. Working /\ OrderInv /\ [PipelineNext]_pipelineVars =>
          OrderInv' /\ \A c \in Observers : forwarded'[c] >= forwarded[c]
  BY OrderInvStep
<1>3. LateInv => Working
  BY DEF LateInv
<1>4. PipelineSpec => []OrderInv
  BY <1>1, <1>2, <1>3, LateInvHolds, PTL DEF PipelineSpec
<1> QED
  BY <1>2, <1>3, <1>4, LateInvHolds, PTL DEF PipelineSpec, ForwardedInOrder

============================================================================
