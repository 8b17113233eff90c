--------------------------- MODULE MCSchedulerLock ---------------------------
EXTENDS SchedulerLock

\* Three tokens are held at most (one invocation in flight per instance, and
\* the key a crashed or misled one left behind); the fourth can be the next.
=============================================================================
