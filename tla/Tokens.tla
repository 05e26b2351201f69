------------------------------- MODULE Tokens -------------------------------
(* AuthService::authenticate for an observer (src/mqtt/auth/mod.rs) and the *)
(* verification of its token (jwt.rs): the first failing check in the order *)
(* of the code.  A user name is its prefix and the rest; a token is its     *)
(* number of parts, whether header and claims decode, its claims, and the   *)
(* key its signature, if it decodes, verifies under.                        *)
EXTENDS Policy

CONSTANTS
    Absent,                        \* a claim, a signature or a password that is not there
    CurvePoints,                   \* the public keys that are points of Ed25519's curve
    I64Min, I64Max,                \* the range of i64
    MAX_FUTURE_IAT_SKEW_SECONDS,
    token_max_age_seconds,         \* Config: 0 disables the check
    expected_audience              \* Config: "" disables the check

\* At an age limit of I64Max the saturated age of a token cannot exceed it.
ASSUME TokenAssumption ==
    /\ I64Min \in Int /\ I64Max \in Nat /\ I64Min < 0
    /\ MAX_FUTURE_IAT_SKEW_SECONDS \in Nat
    /\ token_max_age_seconds \in 0..(I64Max - 1)
    /\ Absent \notin Int /\ Absent \notin PublicKeys

Saturate(n) == IF n > I64Max THEN I64Max ELSE IF n < I64Min THEN I64Min ELSE n
SaturatingAdd(a, b) == Saturate(a + b)
WrappingSub(a, b) == ((a - b - I64Min) % (I64Max - I64Min + 1)) + I64Min
SaturatingSub(a, b) == Saturate(a - b)

\* The user name's key: the prefix is exact, the rest trimmed and upper-cased.
UsernameKey(name) == Uppercased(name.rest)
UsernameChecks(name) ==
    << Check(name.prefix # "v1_", "AuthInvalidUsernameFormat", TRUE),
       Check(UsernameKey(name) \notin PublicKeys, "AuthInvalidPublicKey", TRUE) >>

\* Expiry is looked at before the algorithm and the signature.
VerifyTokenChecks(token, key, now) ==
    LET same_key == Uppercased(token.key) = key IN
    << Check(token.parts # 3, "AuthInvalidToken", TRUE),
       Check(~token.header_decodes, "AuthInvalidToken", TRUE),
       Check(~token.claims_decode, "AuthInvalidToken", TRUE),
       Check(same_key /\ token.exp # Absent /\ now > token.exp, "AuthStaleToken", TRUE),
       Check(token.alg # "Ed25519" \/ token.typ # "JWT" \/ ~same_key, "AuthInvalidToken", TRUE),
       Check(token.signed_by = Absent, "AuthInvalidToken", TRUE),
       Check(key \notin CurvePoints, "AuthInvalidPublicKey", TRUE),
       Check(token.signed_by # key, "AuthInvalidToken", TRUE) >>

IsStaleToken(iat, now) ==
    \/ iat > SaturatingAdd(now, MAX_FUTURE_IAT_SKEW_SECONDS)
    \/ token_max_age_seconds > 0 /\ SaturatingSub(now, iat) > token_max_age_seconds

ClaimChecks(token, now) ==
    << Check(expected_audience # "" /\ token.aud # expected_audience, "AuthWrongAudience", TRUE),
       Check(IsStaleToken(token.iat, now), "AuthStaleToken", TRUE) >>

\* A password that is not UTF-8 is a token of no parts.
AuthenticateObserver(name, token, now) ==
    FirstFailing(UsernameChecks(name) \o
        IF token = Absent
        THEN << Check(TRUE, "AuthMissingToken", TRUE) >>
        ELSE VerifyTokenChecks(token, UsernameKey(name), now) \o ClaimChecks(token, now))
=============================================================================
