----------------------------- MODULE MCGateway -----------------------------
(***************************************************************************)
(* Two calls at a time, over the routes and tables of the code.  For the   *)
(* keys: a delegation and a revocation under one key with two bodies, two  *)
(* delegations under two keys, two of a whole amount, which Python cannot  *)
(* sign, under one.  For the price: a report from TypeScript beside a      *)
(* delegation under its key and with its body, one from Python, and a      *)
(* priced GET.  For the limiter: these, a counterparty check, and a probe  *)
(* of the service's health.                                                *)
(*                                                                         *)
(* The maxima of the limiter are replaced by their ranks among the routes  *)
(* asked for, 1 for 5, 2 for 120 and 3 for 600: a few requests reach them. *)
(***************************************************************************)
EXTENDS Gateway, Routes

CONSTANTS c1, c2, k1, k2, b1, b2, whole

Ask(path, key, body, sdk) == [path |-> path, key |-> key, body |-> body, sdk |-> sdk]

Report(key, body, sdk) == Ask("reputation/record", key, body, sdk)
Delegation(key, body, sdk) == Ask("delegate", key, body, sdk)
Revocation == Ask("revoke", k1, b2, "python")
Score == Ask("score", NoKey, b1, "python")
Check == Ask("counterparty-check", NoKey, b1, "ts")
Probe == Ask("health", NoKey, b1, "ts")

MCIntents == {Report(k1, b1, "ts"), Report(k1, b1, "python"),
              Delegation(k1, b1, "ts"), Delegation(k2, b1, "ts"), Revocation,
              Delegation(k1, whole, "ts"), Delegation(k1, whole, "python"),
              Score, Check, Probe}

Together(first, second) == [c \in Calls |-> IF c = c1 THEN first ELSE second]

MCMixes == {Together(Delegation(k1, b1, "ts"), Revocation),
            Together(Delegation(k1, b1, "ts"), Delegation(k2, b1, "ts")),
            Together(Delegation(k1, whole, "ts"), Delegation(k1, whole, "python")),
            Together(Report(k1, b1, "python"), Probe),
            Together(Report(k1, b1, "ts"), Delegation(k1, b1, "ts")),
            Together(Score, Probe),
            Together(Check, Probe)}

\* The tables, for the routes that are asked for.
Asked == {intent.path : intent \in MCIntents}
MCPosts == MutatingRoutes \cap Asked
MCPriced == X402_PRICING \cap Asked
MCSigned == Asked \ HMAC_BYPASS_PATHS
MCBypass == OperationalRoutes \cap Asked

MCMaxOf == ("delegate" :> 1) @@ ("revoke" :> 1) @@ ("counterparty-check" :> 2) @@ [route \in Asked |-> 3]

ASSUME RanksAssumption ==
  \A q, r \in Asked : MCMaxOf[q] < MCMaxOf[r] <=> lookupOverride(q) < lookupOverride(r)
=============================================================================
