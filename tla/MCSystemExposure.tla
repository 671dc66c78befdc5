-------------------------- MODULE MCSystemExposure --------------------------
(***************************************************************************)
(* A small instance: a cap of 5 cents and a share of 3, two wallets, limits *)
(* that round down, up and past the caps, and one other store on the chain. *)
(***************************************************************************)
EXTENDS SystemExposure

CONSTANTS ExposureJson, RateLimitJson

MCPaths == {ExposureJson, RateLimitJson}
MCRawLimits == {4, 14, 25, 40}
=============================================================================
