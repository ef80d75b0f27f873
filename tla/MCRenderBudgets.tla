---- MODULE MCRenderBudgets ----
EXTENDS RenderBudgets, TLC
CONSTANTS t1, t2, t3, h, h2, o, o2, o3, p, s, s2

MCTasks == {t1, t2, t3}
MCKeys == {h, h2, o, o2, o3, p, s, s2}
\* Same host and origin with two sessions, another origin on the same
\* host, and another host behind the same proxy.
MCRequests == {<<h, o, p, s>>, <<h, o2, p, s2>>, <<h2, o3, p, s>>}
MCLimit == <<2, 1, 2, 1>>
Symmetry == Permutations(MCTasks)
====
