---- MODULE MCHooksBridge ----
(***************************************************************************)
(* Instance of HooksBridge for TLC.                                        *)
(***************************************************************************)
EXTENDS HooksBridge

CONSTANTS j1, j2, e1, e2

MCJobs == {j1, j2}
MCEvents == {e1, e2}
MCHandled == {e1}
====
