----------------------------- MODULE MCMLFQ -----------------------------
EXTENDS MLFQ

CONSTANTS a, b

MCProcs == {a, b}

\* Explore ticks up to its last value but not across the wrap, which is
\* the subject of promotion_wrap; every other interval then completes.
TicksBeforeWrap == ticks < 2^W - 1
=============================================================================
