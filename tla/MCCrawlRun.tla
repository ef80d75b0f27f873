---- MODULE MCCrawlRun ----
EXTENDS CrawlRun, TLC
CONSTANTS a, b, c

\* The seed has two links; the first leads back and to the second as well, so
\* that the second is reached with two depths.
MCLinks == (a :> {b, c}) @@ (b :> {a, c}) @@ (c :> {a})
\* A cycle of two pages, for the runs with many retries.
MCCycle == (a :> {b}) @@ (b :> {a})
====
