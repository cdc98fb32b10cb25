-------------------------- MODULE MCLegislatorBio --------------------------
(* An instance of LegislatorBio for TLC: a member of Congress and a state  *)
(* legislator, on pages of one item.                                       *)
EXTENDS LegislatorBio

CONSTANTS us1, fl1

OrderDef == <<us1, fl1>>

Weekly == [dryRun |-> FALSE, photos |-> TRUE, photosDryRun |-> FALSE, strict |-> FALSE,
           autoCreate |-> FALSE, limit |-> 0, only |-> "all"]

\* What staff try by hand: Congress, strictly, with new members; a report
\* on one record of a state, photos looked up but not uploaded.
Manual ==
    {[Weekly EXCEPT !.strict = TRUE, !.autoCreate = TRUE, !.only = "US"],
     [Weekly EXCEPT !.dryRun = TRUE, !.photosDryRun = TRUE, !.limit = 1, !.only = "state"]}
=============================================================================
