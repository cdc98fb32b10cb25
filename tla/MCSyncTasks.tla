---------------------------- MODULE MCSyncTasks -----------------------------
\* Every kind of sync, plain; of the bills also a dry run and target webflow;
\* and each of them resuming nothing or a task.
EXTENDS SyncTasks

CONSTANTS t1, t2

Ask(k, i, d, f) == [kind |-> k, index |-> i, dry |-> d, from |-> f]

Plain   == {Ask(k, TRUE, FALSE, f) : k \in Kinds, f \in {None, t1, t2}}
Special == {Ask("bill", i, ~i, f) : i \in BOOLEAN, f \in {None, t1, t2}}
AllAsked == Plain \cup Special
BillAsked == {Ask("bill", TRUE, FALSE, None)}
=============================================================================
