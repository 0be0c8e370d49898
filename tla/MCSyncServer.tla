---------------------------- MODULE MCSyncServer ----------------------------
(* An instance of SyncServer for TLC: a bookmark and a password, committed  *)
(* together, which takes two batches of one to read.  A reset meets one of  *)
(* a fault, a second commit, polls for one of the types, and a bookmark     *)
(* that is encrypted and may be stored as anything.                         *)
EXTENDS SyncServer

CONSTANTS laptop, desktop

VARIABLE hard

MCTypeOf == [i \in {"bookmark", "password"} |->
               IF i = "password" THEN "passwords" ELSE "bookmarks"]
MCFieldsOf == [i \in {"bookmark", "password"} |->
                 IF i = "password" THEN {"passwords"} ELSE {"bookmarks", "encrypted"}]
MCBatches == {<<"bookmark", "password">>}
AllTypes == {"bookmarks", "passwords"}
MCPolls == {AllTypes, {"passwords"}}

MCInit == Init /\ hard \in {"fault", "commit", "polls", "fields"}

Within ==
  /\ hard = "fault" \/ faults' = 0
  /\ hard = "commit" \/ commits' <= 1
  /\ hard = "polls" \/ \A r \in reqs' : r.kind = "updates" => r.types = AllTypes
  /\ hard = "fields" \/ chain'.items["bookmark"].type # "encrypted"

MCNext == Next /\ Within /\ UNCHANGED hard
MCSpec == MCInit /\ [][MCNext]_<<vars, hard>> /\ Fairness
=============================================================================
