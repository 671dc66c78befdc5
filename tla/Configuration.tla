---------------------------- MODULE Configuration ----------------------------
(***************************************************************************)
(* What a process makes of its environment (src/config.ts): validateConfig *)
(* refuses some environments, and a process that is refused never serves;  *)
(* safeParseInt then reads the numbers again by a rule of its own.         *)
(*                                                                         *)
(* A number is given as a text: "unset", "empty", "decimal" (a sign and    *)
(* digits), or "other", which Number() may still take for a number: "1e4", *)
(* "0x10", a blank (0).  `safe` is Number.isSafeInteger(Number(text)).     *)
(* Other texts are "unset", "" or themselves, up to case and blanks where  *)
(* the code ignores them; of a secret only the length matters, of a URL    *)
(* whether it is a plain http(s) one.                                      *)
(***************************************************************************)
EXTENDS Integers

IntegerVars == {"PORT", "REGISTRY_APP_ID", "REPUTATION_APP_ID", "REPLICA_COUNT", "TRUST_PROXY_HOPS"}
TimerVars == {"REQUEST_TIMEOUT_MS", "HMAC_TIMESTAMP_SKEW_MS"}
TextVars == {"NODE_ENV", "LOG_LEVEL", "LOG_FORMAT", "ALGO_NETWORK", "X402_ENABLED",
             "X402_PAYMENT_RECIPIENT", "X402_NETWORK", "CORS_ALLOWED_ORIGINS"}
UrlVars == {"ALGOD_URL", "INDEXER_URL", "X402_FACILITATOR_URL"}

Numerals == [kind : {"unset", "empty", "decimal", "other"}, safe : BOOLEAN, number : Int]

Environment == [number : [IntegerVars \cup TimerVars -> Numerals],
                text : [TextVars -> STRING],
                url : [UrlVars -> {"", "plain", "other"}],
                secretLength : Nat]

Given(env, name) == env.text[name] \notin {"unset", ""}

-----------------------------------------------------------------------------
(* validateConfig *)

Least == [name \in IntegerVars |-> IF name \in {"PORT", "REPLICA_COUNT"} THEN 1 ELSE 0]

validateIntegerEnv(env, name) ==
  LET raw == env.number[name]
  IN  raw.kind \in {"unset", "empty"} \/
      /\ raw.kind = "decimal" /\ raw.safe /\ raw.number >= Least[name]
      /\ name = "PORT" => raw.number <= 65535

\* Number(raw) is a positive safe integer; an empty text is 0.
validateTimer(env, name) ==
  LET raw == env.number[name]
  IN  raw.kind = "unset" \/ (raw.kind # "empty" /\ raw.safe /\ raw.number > 0)

OneOf(env, name, texts) == Given(env, name) => env.text[name] \in texts

InProduction(env) == env.text["NODE_ENV"] = "production"

\* Required of a production service: a secret, and origins listed by name.
ProductionReady(env) ==
  /\ env.secretLength > 0
  /\ Given(env, "CORS_ALLOWED_ORIGINS") /\ env.text["CORS_ALLOWED_ORIGINS"] # "*"

\* validateConfig throws nothing.
validateConfig(env) ==
  /\ \A name \in IntegerVars : validateIntegerEnv(env, name)
  /\ \A name \in TimerVars : validateTimer(env, name)
  /\ env.text["X402_ENABLED"] = "true" => Given(env, "X402_PAYMENT_RECIPIENT")
  /\ OneOf(env, "LOG_LEVEL", {"debug", "info", "warn", "error"})
  /\ OneOf(env, "LOG_FORMAT", {"json", "pretty"})
  /\ OneOf(env, "X402_NETWORK", {"algorand-testnet", "algorand-mainnet"})
  /\ env.text["ALGO_NETWORK"] \in {"unset", "testnet", "mainnet"}
  /\ env.secretLength > 0 => env.secretLength >= 32
  /\ InProduction(env) => ProductionReady(env)
  /\ \A name \in UrlVars : env.url[name] # "other"

-----------------------------------------------------------------------------
(* config *)

safeParseInt(raw, fallback) ==
  IF raw.kind = "decimal" /\ raw.safe THEN raw.number ELSE fallback

Fallback ==
  [name \in IntegerVars \cup TimerVars |->
     CASE name = "PORT" -> 3000
       [] name = "REPLICA_COUNT" -> 1
       [] name = "REQUEST_TIMEOUT_MS" -> 10000
       [] name = "HMAC_TIMESTAMP_SKEW_MS" -> 60000
       [] OTHER -> 0]

\* What the modules of the service read: the numbers, by the names of their variables.
config(env) ==
  [production |-> InProduction(env),
   number |-> [name \in IntegerVars \cup TimerVars |->
                 safeParseInt(env.number[name], Fallback[name])],
   x402Enabled |-> env.text["X402_ENABLED"] = "true",
   x402Recipient |-> Given(env, "X402_PAYMENT_RECIPIENT"),
   corsAllowedOrigins |->
     IF Given(env, "CORS_ALLOWED_ORIGINS") THEN env.text["CORS_ALLOWED_ORIGINS"] ELSE "*",
   secretLength |-> env.secretLength]

\* hmac-auth.ts and x402.ts: when the two middlewares do anything.
isHmacAuthEnabled(conf) == conf.secretLength > 0
x402Active(conf) == conf.x402Enabled /\ conf.x402Recipient

\* hmacAuth() itself throws on a short secret, at the mounting of the middleware.
hmacAuthMounts(conf) == isHmacAuthEnabled(conf) => conf.secretLength >= 32

\* security.ts reads the replica count by itself, with parseInt, of a text that
\* validateConfig has accepted.
REPLICA_COUNT(env) ==
  LET raw == env.number["REPLICA_COUNT"]
  IN  IF raw.kind = "decimal" /\ raw.number > 0 THEN raw.number ELSE 1

\* What the rest of the service takes for granted of a configuration: timers that
\* wait, a secret long enough to mount, a payee where payment is asked for, and in
\* production signatures and named origins.
Sound(conf) ==
  /\ \A name \in TimerVars : conf.number[name] > 0
  /\ hmacAuthMounts(conf)
  /\ conf.x402Enabled => x402Active(conf)
  /\ conf.production => isHmacAuthEnabled(conf) /\ conf.corsAllowedOrigins # "*"
=============================================================================
