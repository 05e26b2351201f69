------------------------------- MODULE Poster -------------------------------
(* HttpMeshcorePoster (src/meshcore_io/poster.rs): one upload is signed and *)
(* posted, and what comes back is classified as accepted, permanently       *)
(* rejected or to be retried.                                               *)
(*                                                                          *)
(* An exchange is everything the outside decides about one post:            *)
(*   sent      a response came before the timeout                           *)
(*   status    its HTTP status                                              *)
(*   declared  its Content-Length, or None                                  *)
(*   received  the bytes of body read before it ended or broke              *)
(*   broken    the body's stream failed                                     *)
(*   code      the string under "code" of a JSON body: a full code, its     *)
(*             prefix where only that counts, "other", or None.             *)
(* Signatures, diagnostics and response texts are left out.                 *)
EXTENDS Integers

CONSTANTS
    None,                \* Option::None
    MAX_RESPONSE_BYTES,
    dry_run              \* config.dry_run

ASSUME PosterAssumption == MAX_RESPONSE_BYTES \in Nat /\ dry_run \in BOOLEAN

----------------------------------------------------------------------------
(* RadioParams, in integers: frequency in units of 100 Hz, so that rounding *)
(* to 3 decimals of a MHz shows, bandwidth in Hz, the others as they are.   *)

Within(option, low, high) == option # None /\ low <= option /\ option <= high

Valid(radio) ==
    /\ Within(radio.freq, 1000000, 10000000)
    /\ Within(radio.bw, 1, 1000000)
    /\ Within(radio.sf, 5, 12)
    /\ Within(radio.cr, 4, 8)

Rounded(radio) ==
    [radio EXCEPT !.freq = IF @ = None THEN None ELSE ((@ + 5) \div 10) * 10]

----------------------------------------------------------------------------
IsSuccess(status) == status \in 200..299
IsClientError(status) == status \in 400..499

TerminalCodes == {"ERR_ADVERT_", "ERR_COORDS_"}

ClientErrorsAreFinal(status, code) ==
    IsSuccess(status) \/ code \in TerminalCodes \/ IsClientError(status)
IsPermanent(status, code) ==
    \/ IsSuccess(status)
    \/ code \in TerminalCodes
    \/ IsClientError(status) /\ status # 408 /\ status # 429

ClassifyResponse(status, code) ==
    IF code = "NODES_INSERTED" THEN "accepted"
    ELSE IF IsPermanent(status, code) THEN "rejected" ELSE "retry"

Oversized(exchange) ==
    \/ exchange.declared # None /\ exchange.declared > MAX_RESPONSE_BYTES
    \/ exchange.received > MAX_RESPONSE_BYTES

\* The guards in the order of post(): signed_request refuses invalid radio
\* parameters before anything is sent.
Post(radio, exchange) ==
    CASE ~Valid(radio) \/ dry_run -> "rejected"
      [] OTHER ->
           IF ~exchange.sent \/ Oversized(exchange) \/ exchange.broken THEN "retry"
           ELSE ClassifyResponse(exchange.status, exchange.code)
=============================================================================
