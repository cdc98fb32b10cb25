---------------------------- MODULE MCSchedule -----------------------------
(* Instance of Schedule for TLC: a host that scrapes and one that does not. *)
EXTENDS Schedule

CONSTANTS va, mi

ManifestsDef == {{va, mi}, {mi}}

HostsDef == {{"openstates_scrape", "patch_refresh", "bill_sync", "openstates_archive"},
             {"people_pull", "voatz_sync", "grantbot_scrape"}}
====
