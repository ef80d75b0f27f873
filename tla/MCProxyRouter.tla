---- MODULE MCProxyRouter ----
(***************************************************************************)
(* Instance of ProxyRouter for TLC.                                        *)
(***************************************************************************)
EXTENDS ProxyRouter, TLC

CONSTANTS t1, c1, p1, p2, h1

MCJobs == {t1}
MCCheckers == {c1}
MCProxies == {p1, p2}
MCHosts == {h1}
Symmetry == Permutations(MCProxies)
====
