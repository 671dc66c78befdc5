------------------------------- MODULE Routes -------------------------------
(***************************************************************************)
(* The routes the methods of both SDKs ask for, and the tables by which    *)
(* the middlewares tell them apart.                                        *)
(***************************************************************************)
EXTENDS Naturals, FiniteSets, TLC

ReadingRoutes == {"health", "score", "delegation", "sybil-check", "reputation",
                  "underwrite", "trust-graph", "passport"}

\* The methods that POST, and those of them whose caller may give a key.
MutatingRoutes == {"counterparty-check", "credit-estimate", "reputation/record", "delegate", "revoke"}
KeyedRoutes == {"reputation/record", "delegate", "revoke"}

SdkRoutes == ReadingRoutes \union MutatingRoutes

X402_PRICING == SdkRoutes \ {"health", "delegate", "revoke"}

\* /reputation is public and /reputation/record is not: the patterns are anchored.
HMAC_BYPASS_PATHS == SdkRoutes \ KeyedRoutes

\* What the rate limiter lets through without counting.
OperationalRoutes == {"health"}

DEFAULT_OVERRIDES ==
  ("delegate" :> 5) @@ ("revoke" :> 5) @@ ("underwrite" :> 30) @@ ("counterparty-check" :> 120)

RATE_LIMIT_MAX == 600

lookupOverride(route) ==
  IF route \in DOMAIN DEFAULT_OVERRIDES THEN DEFAULT_OVERRIDES[route] ELSE RATE_LIMIT_MAX
=============================================================================
