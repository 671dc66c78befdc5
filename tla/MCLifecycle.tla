----------------------------- MODULE MCLifecycle -----------------------------
(***************************************************************************)
(* One record request, one read that may hang, two subscribers, one file.  *)
(* Three environments: nothing set, production with timers in a notation   *)
(* that Number() reads and safeParseInt does not, and production without a *)
(* secret, which is refused.                                               *)
(***************************************************************************)
EXTENDS Lifecycle, TLC

CONSTANTS s1, s2

MCPaths == {WebhooksJson}
MCUrlOf == (s1 :> "https") @@ (s2 :> "http")

Bare ==
  [number |-> [name \in IntegerVars \cup TimerVars |->
                 [kind |-> "unset", safe |-> FALSE, number |-> 0]],
   text |-> [name \in TextVars |-> "unset"],
   url |-> [name \in UrlVars |-> ""],
   secretLength |-> 0]

Unsigned == [Bare EXCEPT !.text["NODE_ENV"] = "production",
                         !.text["CORS_ALLOWED_ORIGINS"] = "https://app.example"]

Production ==
  [Unsigned EXCEPT !.secretLength = 32, !.text["X402_ENABLED"] = "true",
                   !.text["X402_PAYMENT_RECIPIENT"] = "recipient",
                   !.number["REQUEST_TIMEOUT_MS"] = [kind |-> "other", safe |-> TRUE, number |-> 10000],
                   !.number["HMAC_TIMESTAMP_SKEW_MS"] = [kind |-> "decimal", safe |-> TRUE, number |-> 5000]]

MCEnvironments == {Bare, Unsigned, Production}
=============================================================================
