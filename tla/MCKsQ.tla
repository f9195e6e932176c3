------------------------------- MODULE MCKsQ -------------------------------
(* Small instances of KsQ.                                                 *)
EXTENDS KsQ

CONSTANTS p1, p2, c1, c2    \* the threads
CONSTANTS x, y              \* the items

MCThreads == {p1, p2, c1, c2}
MCItems == {x, y}
MCMaxLens == {0, 1, 2}

Of(a, b, c, d) == [t \in MCThreads |->
    CASE t = p1 -> a [] t = p2 -> b [] t = c1 -> c [] t = c2 -> d]

\* Two pushers against two poppers; a timed popper beside an untimed one; an
\* owner that wakes, terminates and destroys while others push and pop; an
\* owner that flushes and waits.
MCRoles == {
    Of({"push"}, {"push"}, {"pop"}, {"pop"}),
    Of({"push"}, {"trypush"}, {"pop"}, {"trypop", "term"}),
    Of({"push"}, {"push", "term"}, {"pop_timeout"}, {"pop"}),
    Of({"push"}, {"push"}, {"pop"}, {"wake", "term", "destroy"}),
    Of({"push"}, {"wait", "term"}, {"pop"}, {"term", "set_flush_fn", "flush", "destroy"}) }

\* One thread that pushes and one that pops, as in tests/testq.c.
OnePusher == { Of({"push"}, {}, {"pop"}, {}) }
=============================================================================
