----------------------------- MODULE MCHosting -----------------------------
(***************************************************************************)
(* Instances of Hosting for TLC: the bounds of the run.                    *)
(***************************************************************************)
EXTENDS Hosting

\* At most the things named happen, each once but for those in twice.
Bound(once, twice, taken) ==
    [count |-> [c \in Count |-> IF c \in twice THEN 2 ELSE IF c \in once THEN 1 ELSE 0],
     taken |-> taken]

HostLimits ==
    {Bound({"app", "reset", "stop", "entry"}, {"host"}, FALSE),
     Bound({"host", "file", "stop", "entry"}, {"app"}, FALSE),
     Bound({"create", "link", "app", "break", "relay", "file", "entry"}, {}, FALSE),
     Bound({"host", "create", "link", "reset", "break"}, {}, FALSE),
     Bound({"join", "link", "file", "break", "app", "entry"}, {}, TRUE),
     Bound({"host", "link", "switch", "page", "app", "file"}, {}, FALSE)}
=============================================================================
