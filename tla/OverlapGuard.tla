---------------------------- MODULE OverlapGuard ----------------------------
(***************************************************************************)
(* What the Redis overlap lock of pipelines/scraper_triggered_legbot.py    *)
(* promises its callers, whatever it is made of: for one (jurisdiction,    *)
(* session) at most one LegBot run is admitted at a time.                  *)
(***************************************************************************)
CONSTANT Runs       \* the trigger calls made for one (jurisdiction, session)

VARIABLE active     \* the runs whose pipeline is executing

Init == active = {}

\* A run is admitted only when no other is executing.
Admit(r) == /\ active = {}
            /\ active' = {r}

\* A run ends: it finished, failed, or its process died.
Leave(r) == /\ r \in active
            /\ active' = active \ {r}

Next == \E r \in Runs : Admit(r) \/ Leave(r)

Spec == Init /\ [][Next]_active
=============================================================================
