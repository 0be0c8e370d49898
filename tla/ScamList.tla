------------------------------- MODULE ScamList -------------------------------
(***************************************************************************)
(* The list of scam sites in use: scam_service.cc.  Navigations on several *)
(* threads ask for a load, at most one every half hour; the loads run on   *)
(* the pool with no order between them, a later one at a lower priority,   *)
(* while the updater replaces the file.                                    *)
(***************************************************************************)
EXTENDS Naturals, FiniteSets

CONSTANTS
  ScamJobs,      \* the loads there can be at a time
  MaxScamWrites, \* bound on the times the file is replaced
  MaxScamFaults  \* bound on the reads that fail

ASSUME ScamAssumption == {MaxScamWrites, MaxScamFaults} \subseteq Nat

VARIABLES
  scamFile,    \* the version on the disk, 0 if there is none
  scamGood,    \* the versions that parse
  scamList,    \* list_: the version in use, 0 if none
  scamTime,    \* loaded_mtime_us_
  scamFailed,  \* status_ = kFailed
  scamStarted, \* load_started_
  scamDue,     \* kCheckInterval is over
  scamLoad,    \* the loads
  scamFaults

scamVars == <<scamFile, scamGood, scamList, scamTime, scamFailed, scamStarted,
              scamDue, scamLoad, scamFaults>>

ScamVersions == 1..(MaxScamWrites + 1)
NoScamLoad == [at |-> "none", time |-> 0, text |-> 0]

ScamTypeOK ==
  /\ {scamFile, scamList, scamTime} \subseteq 0..(MaxScamWrites + 1)
  /\ scamGood \subseteq ScamVersions
  /\ scamLoad \in [ScamJobs -> [at : {"none", "posted", "read", "put"},
                                time : {0} \cup ScamVersions, text : {0} \cup ScamVersions]]
  /\ scamList \in {0} \cup scamGood
  /\ scamFailed => scamList = 0
  /\ (scamList = 0) = (scamTime = 0)

ScamInit ==
  /\ scamFile \in {0, 1} /\ scamGood \in SUBSET ScamVersions
  /\ scamList = 0 /\ scamTime = 0 /\ scamFailed = FALSE
  /\ scamStarted = FALSE /\ scamDue = FALSE
  /\ scamLoad = [j \in ScamJobs |-> NoScamLoad]
  /\ scamFaults = 0

\* EnsureLoading(): one thread wins the exchange.
EnsureScamLoading(j) ==
  /\ ~scamStarted \/ scamDue
  /\ scamLoad[j] = NoScamLoad
  /\ scamStarted' = TRUE /\ scamDue' = FALSE
  /\ scamLoad' = [scamLoad EXCEPT ![j].at = "posted"]
  /\ UNCHANGED <<scamFile, scamGood, scamList, scamTime, scamFailed, scamFaults>>

-----------------------------------------------------------------------------
(* LoadOnBackgroundThread(). *)

EndScamLoad(j) == scamLoad' = [scamLoad EXCEPT ![j] = NoScamLoad]
\* A failure leaves the list in use alone.
ScamFails(j) == EndScamLoad(j) /\ scamFailed' = (scamFailed \/ scamList = 0)

ScamLook(j) ==
  /\ scamLoad[j].at = "posted"
  /\ IF scamFile = 0 THEN ScamFails(j)
     ELSE /\ IF scamList # 0 /\ scamTime = scamFile THEN EndScamLoad(j)
             ELSE scamLoad' = [scamLoad EXCEPT ![j] =
                                 [at |-> "read", time |-> scamFile, text |-> 0]]
          /\ UNCHANGED scamFailed
  /\ UNCHANGED <<scamFile, scamGood, scamList, scamTime, scamStarted, scamDue, scamFaults>>

ScamRead(j, readable) ==
  /\ scamLoad[j].at = "read"
  /\ readable \/ scamFaults < MaxScamFaults
  /\ scamFaults' = IF readable THEN scamFaults ELSE scamFaults + 1
  /\ IF readable /\ scamFile \in scamGood
     THEN /\ scamLoad' = [scamLoad EXCEPT ![j].at = "put", ![j].text = scamFile]
          /\ UNCHANGED scamFailed
     ELSE ScamFails(j)
  /\ UNCHANGED <<scamFile, scamGood, scamList, scamTime, scamStarted, scamDue>>

\* A bug for the checks: the time that is noted is the one of this moment.
TimeAtPut(j) == scamFile
\* The time that was seen before the text was read.
ScamTimeSeen(j) == scamLoad[j].time

ScamPut(j) ==
  /\ scamLoad[j].at = "put"
  /\ scamList' = scamLoad[j].text
  /\ scamTime' = ScamTimeSeen(j)
  /\ scamFailed' = FALSE
  /\ EndScamLoad(j)
  /\ UNCHANGED <<scamFile, scamGood, scamStarted, scamDue, scamFaults>>

-----------------------------------------------------------------------------
\* The updater replaces the file, or it appears.
ScamFileWritten ==
  /\ scamFile \in 0..MaxScamWrites
  /\ scamFile' = scamFile + 1
  /\ UNCHANGED <<scamGood, scamList, scamTime, scamFailed, scamStarted, scamDue,
                 scamLoad, scamFaults>>

\* Bound: not while every load there can be is still on its way.
ScamIntervalEnds ==
  /\ scamStarted /\ ~scamDue
  /\ \E j \in ScamJobs : scamLoad[j] = NoScamLoad
  /\ scamDue' = TRUE
  /\ UNCHANGED <<scamFile, scamGood, scamList, scamTime, scamFailed, scamStarted,
                 scamLoad, scamFaults>>

ScamLoadProceeds(j) == ScamLook(j) \/ ScamRead(j, TRUE) \/ ScamPut(j)
ScamAsked == \E j \in ScamJobs : EnsureScamLoading(j)

ScamNext ==
  \/ ScamAsked \/ ScamFileWritten \/ ScamIntervalEnds
  \/ \E j \in ScamJobs : ScamLoadProceeds(j) \/ ScamRead(j, FALSE)

ScamSpec == ScamInit /\ [][ScamNext]_scamVars

\* The file, when it parses, is the list in use.
ScamListCurrent == scamFile \in scamGood => scamList = scamFile
=============================================================================
