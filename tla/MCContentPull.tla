---------------------------- MODULE MCContentPull ----------------------------
(***************************************************************************)
(* Instances of ContentPull for TLC: the bounds of each run.               *)
(***************************************************************************)
EXTENDS ContentPull

OfFirst(n) == [d \in Device |-> IF d = 1 THEN n ELSE 0]

\* Those on hear of ids that one device publishes, and nothing breaks.
OneWay(on, ids, n) ==
    [on |-> on, ids |-> ids, copies |-> OfFirst(n), breaks |-> [d \in Device |-> 0], expiries |-> 0]

\* Two devices publish one clip each; one publishes more than the relay keeps;
\* one publishes while both may lose their connection, or one of them does and a
\* body expires; one publishes the same to two others.  One publishes alone, more
\* than its cache holds, some of it again, while its connection breaks and a body
\* expires.
PullLimits ==
    LET two == OneWay({1, 2}, {1, 2}, 2)
    IN  {[OneWay({1, 2}, {1, 2}, 1) EXCEPT !.copies[2] = 1],
         OneWay({1, 2}, {1, 2, 3}, 3),
         [two EXCEPT !.breaks[1] = 1, !.breaks[2] = 1],
         [two EXCEPT !.breaks[1] = 1, !.expiries = 1],
         [two EXCEPT !.breaks[2] = 1, !.expiries = 1],
         OneWay({1, 2, 3}, {1}, 2),
         [OneWay({1}, Id, 5) EXCEPT !.breaks[1] = 1, !.expiries = 1]}

\* One body.
TeeLimits == {OneWay({1, 2, 3}, {1}, 1)}
=============================================================================
