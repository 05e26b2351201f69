------------------------------ MODULE Frontend ------------------------------
(* The decisions of src/frontend on one connection: which answer a request  *)
(* gets, which source address the broker is told, which WebSocket frames    *)
(* are copied to the broker.  A request is its method, its path and its     *)
(* header lines, the Upgrade and X-Forwarded-For ones kept by name.         *)
EXTENDS Config

CONSTANTS
    UsizeMax,               \* the largest usize, 2^w - 1
    CONTROL_MAX             \* 125: the largest control frame

ASSUME SizeAssumption == UsizeMax \in Nat /\ CONTROL_MAX \in Nat /\ Unset \notin Int

----------------------------------------------------------------------------
(* server.rs: handle_frontend_connection *)

\* is_websocket_upgrade folds the name's case and trims only the value
IsWebsocketUpgrade(request) ==
    \E line \in Range(request.upgrade) :
        LowerCase[line.name] = "upgrade" /\ LowerCase[Trim[line.value]] = "websocket"

\* A request that is not UTF-8 has an empty method and path.
Dispatch(request) ==
    CASE request.path = "/status" ->
            IF request.method = "GET" THEN "200 OK" ELSE "405 Method Not Allowed"
      [] request.path # "/status" /\ request.method = "GET" /\ IsWebsocketUpgrade(request) ->
            "proxy"
      [] OTHER -> "404 Not Found"

\* status.rs: the part of the body that does not count anything
StatusBody == [status |-> "ok", storage |-> "stateless"]

\* health.rs: an answer is a status code and a body, Junk when it is no JSON
HealthcheckPasses(answer) ==
    /\ answer # Refused
    /\ answer.code = 200
    /\ answer.body # Junk
    /\ answer.body.status = "ok" /\ answer.body.storage = "stateless"

----------------------------------------------------------------------------
(* proxy.rs *)

IsTrustedProxy(ip, networks) == \E n \in networks : NetworkContains(n, ip)

\* every comma-separated entry of every X-Forwarded-For line, in order
Forwarded(request) ==
    FlattenSeq([i \in DOMAIN request.forwarded |->
        IF LowerCase[Trim[request.forwarded[i].name]] = "x-forwarded-for"
        THEN request.forwarded[i].value ELSE << >>])

\* The walk from the last entry back, as long as the hop before is trusted.
LeftmostHop(source, candidate, networks) == candidate
NextHop(source, candidate, networks) ==
    IF IsTrustedProxy(source, networks) THEN candidate ELSE source

\* the source once the last n entries have been considered
Walk(hops, peer, networks) ==
    LET source[n \in 0 .. Len(hops)] ==
            IF n = 0 THEN peer
            ELSE NextHop(source[n - 1], hops[Len(hops) + 1 - n], networks)
    IN  source

\* An entry that is no address makes the whole header unusable.
ForwardedSource(request, peer, networks) ==
    LET hops == Forwarded(request) IN
    IF ~IsTrustedProxy(peer, networks) \/ ~(Range(hops) \subseteq Address)
    THEN peer
    ELSE Walk(hops, peer, networks)[Len(hops)]

\* A destination of the other family is replaced by the unspecified address.
ProxyProtocolLine(source, destination) ==
    [family |-> IF source.family = "v4" THEN "TCP4" ELSE "TCP6",
     source |-> source,
     destination |-> IF source.family = destination.family THEN destination
                     ELSE [family |-> source.family, bits |-> 0]]

----------------------------------------------------------------------------
(* websocket.rs: copy_websocket_frames_limited.  A frame is its kind        *)
(* ("continuation", "data", "control" or "reserved"), its fin bit and its   *)
(* payload length; fragmented_size is the size of the message that is open, *)
(* Unset when none is.                                                      *)

CheckedAdd(size, len) == IF size + len > UsizeMax THEN Unset ELSE size + len

\* The size of the message after this frame, Unset when it is not counted.
MessageSize(fragmented_size, frame) ==
    CASE frame.kind = "continuation" -> CheckedAdd(fragmented_size, frame.len)
      [] frame.kind = "data" -> frame.len
      [] OTHER -> Unset

FrameAccepts(fragmented_size, frame, max_message_size) ==
    CASE frame.kind = "continuation" ->
            /\ fragmented_size # Unset
            /\ MessageSize(fragmented_size, frame) # Unset
            /\ MessageSize(fragmented_size, frame) <= max_message_size
      [] frame.kind = "data" ->
            fragmented_size = Unset /\ frame.len <= max_message_size
      [] frame.kind = "control" -> frame.fin /\ frame.len <= CONTROL_MAX
      [] OTHER -> FALSE

ResetByControl(fragmented_size, frame) ==
    IF frame.fin THEN Unset ELSE MessageSize(fragmented_size, frame)
FragmentedSize(fragmented_size, frame) ==
    CASE frame.kind = "control" -> fragmented_size
      [] frame.fin /\ frame.kind # "control" -> Unset
      [] OTHER -> MessageSize(fragmented_size, frame)
=============================================================================
