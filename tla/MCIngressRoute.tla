--------------------------- MODULE MCIngressRoute ---------------------------
(***************************************************************************)
(* Two hosts, two TLS Secrets and three sets of extra annotations: none,   *)
(* one of the operator's own, and two that collide with managed keys.      *)
(***************************************************************************)
EXTENDS IngressRoute

CONSTANTS h1, h2, t1, t2
MCHosts == {h1, h2}
MCSecrets == {t1, t2}
MCExtras == {{}, {"added"}, {"entrypoints", "dnsnames"}}
=============================================================================
