---------------------------- MODULE MCListUpdater ----------------------------
(* Instances of ListUpdater for TLC: two lists, each old or new.  Times that  *)
(* cannot be read, reads that fail, and records that are lost or late, come   *)
(* in different behaviours, with two, four and three bundles.                 *)
EXTENDS ListUpdater

CONSTANTS old, new, none

VARIABLE hard

File(f, s, r) == [n \in {"easylist.txt", "scamlist.txt", "resources.json"} |->
                    CASE n = "easylist.txt" -> f
                      [] n = "scamlist.txt" -> s
                      [] n = "resources.json" -> r]

\* Version 1, then version 2 built without one of its sources and with a
\* resources file nobody asked for, then version 2 once more the same day,
\* complete, then a manifest of version 3 nobody can read.
MCBundle ==
  << [version |-> 1, degraded |-> FALSE, readable |-> TRUE,
      files |-> File(old, old, none)],
     [version |-> 2, degraded |-> TRUE, readable |-> TRUE,
      files |-> File(new, old, old)],
     [version |-> 2, degraded |-> FALSE, readable |-> TRUE,
      files |-> File(new, new, none)],
     [version |-> 3, degraded |-> FALSE, readable |-> FALSE,
      files |-> File(none, none, none)] >>

MCInit == Init /\ held[Resources] # new /\ hard \in {"times", "reads", "records"}

AllTimed == phase = "look" /\ (ListsFresh \/ CheckedToday) => phase' # "read"

AllRead ==
  phase = "read" =>
    /\ local'.version = marker.version
    /\ \A n \in Targets : local'.held_sha256[n] = held[n]
    /\ held'[Resources] = NoFile

AllRecorded == Asked \/ records # {} => excused \/ ~excused'

Within ==
  CASE hard = "times"   -> AllRead /\ AllRecorded /\ published' <= 2
    [] hard = "reads"   -> AllTimed /\ AllRecorded
    [] hard = "records" -> AllTimed /\ AllRead /\ published' <= 3

MCNext == Next /\ Within /\ UNCHANGED hard
MCSpec == MCInit /\ [][MCNext]_<<vars, hard>> /\ Fairness
==============================================================================
