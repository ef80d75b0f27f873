---- MODULE MCSessions ----
(***************************************************************************)
(* Instance of Sessions for TLC: one signal for every branch of the policy *)
(* that ends in a state of its own.                                        *)
(***************************************************************************)
EXTENDS Sessions

Sig(v, l) == [vendor |-> v, level |-> l]
MCSignals ==
    {Sig("script", "suspected"), Sig("script", "page"), Sig("captcha", "widget"),
     Sig("denied", "page"), Sig("script", "hard")}
====
