------------------------------ MODULE Publisher ------------------------------
(***************************************************************************)
(* The bundle of lists that browsers download: tools/publish_lists.py as   *)
(* the two jobs of .github/workflows/lists.yml run it.                     *)
(*                                                                         *)
(* The build job fetches the bundle that is published now, builds a new    *)
(* one and checks every list against it.  The publish job, once approved,  *)
(* signs those bytes and replaces the assets of the release: every one is  *)
(* removed and uploaded again, several at a time, the lists before the     *)
(* manifest and its signature.  It may be cut off at any point, and a      *)
(* publish job that failed may be run again.  One run at a time: the       *)
(* workflow has a concurrency group.                                       *)
(***************************************************************************)
EXTENDS Integers, FiniteSets

CONSTANTS
  EasySizes,  \* the rules that a source of easylist.txt may hold
  UboSizes,   \* and those of ubo.txt, which stands for the lists made whole
  EasyFloor, UboFloor,  \* the floors of a first run
  Fragile,    \* the lists whose bytes a disk or a transfer may spoil
  MaxVersion, \* bound on the days since 2026
  MaxPubs,    \* bound on the bundles built
  NoAsset, Bad  \* an asset that is not there, bytes that are not the list's

ASSUME PublisherAssumption ==
  /\ EasySizes \subseteq Nat \ {0}
  /\ UboSizes \subseteq Nat \ {0}
  /\ {EasyFloor, UboFloor, MaxVersion, MaxPubs} \subseteq Nat
  /\ Fragile \subseteq {"easylist", "ubo"}

BundleLists == {"easylist", "ubo"}
Ends == {"manifest", "signature"}
Assets == BundleLists \cup Ends
Pubs == 1..MaxPubs

VARIABLES
  asset,   \* the release: which bundle every asset is of
  bundle,  \* the bundles built so far (`base' and `clean' are history: what was
           \* published whole then, and whether that was untouched)
  damage,  \* what of them is not the bytes that were written
  job,     \* the run in hand
  failed,  \* the runs whose publish job failed
  \* History, for the properties only.
  whole,   \* the bundle that was last published to its end
  settled  \* and nothing has been touched since

pubVars == <<asset, bundle, damage, job, failed, whole, settled>>

NoRun == [at |-> "idle", of |-> 0, todo |-> {}]
Built == DOMAIN bundle

PublisherTypeOK ==
  /\ asset \in [Assets -> Pubs \cup {NoAsset, Bad}]
  /\ \E n \in 0..MaxPubs : bundle \in
       [1..n -> [easylist : Nat, ubo : Nat, degraded : BOOLEAN, version : 0..MaxVersion,
                 base : 0..MaxPubs, clean : BOOLEAN]]
  /\ damage \subseteq Built \X BundleLists
  /\ job \in [at : {"idle", "approval", "lists", "ends"}, of : Built \cup {0},
              todo : SUBSET Assets]
  /\ failed \subseteq Built
  /\ whole \in Built \cup {0}
  /\ settled \in BOOLEAN

PublisherInit ==
  /\ asset = [a \in Assets |-> NoAsset]
  /\ bundle = <<>>
  /\ damage = {}
  /\ job = NoRun
  /\ failed = {}
  /\ whole = 0
  /\ settled = FALSE

-----------------------------------------------------------------------------
(* The build job. *)

Unknown == -1
\* A bug for the checks: the bundle that is published now is not there.
PreviousNotFetched(l) == Unknown
\* read_previous() and previous_entries(): the count the manifest wrote down, or
\* that of the list itself when there is no manifest; -1 when there is neither.
PreviousEntries(l) ==
  IF asset["manifest"] \in Built THEN bundle[asset["manifest"]][l]
  ELSE IF asset[l] \in Built THEN bundle[asset[l]][l]
  ELSE Unknown

\* int(previous * share), with the share in per cent.
ShrinkFloor(previous, share) == (previous * share) \div 100
ShareOf(l, degraded) == IF l = "easylist" /\ degraded THEN 35 ELSE 80
FirstFloor(l) == IF l = "easylist" THEN EasyFloor ELSE UboFloor

\* check_coverage().
Covers(l, entries, degraded) ==
  LET previous == PreviousEntries(l) IN
  entries >= IF previous = Unknown THEN FirstFloor(l)
             ELSE ShrinkFloor(previous, ShareOf(l, degraded))

\* Versions are days, of a clock that may be wrong; a lower one is refused.
IsBelow(version) ==
  asset["manifest"] \in Built /\ version < bundle[asset["manifest"]].version

\* A bug for the checks: what was meant to be written is believed.
NotRead(bad) == TRUE
\* confirm_on_disk(), of the staging folder and again of what is signed.
Confirmed(bad) == bad = {}

\* e1 and e2 are the rules of EasyList and EasyPrivacy, 0 for a source that failed;
\* one is enough.  The other lists are built of all their sources.  `staged' is
\* what the disk did not keep, `moved' what did not survive the way to the next
\* job.  A bundle that is refused leaves everything as it was.
Build(e1, e2, u, version, staged, moved) ==
  LET n == Cardinality(Built) + 1
      degraded == (e1 = 0) # (e2 = 0) IN
  /\ job.at = "idle"
  /\ n <= MaxPubs
  /\ e1 + e2 > 0 /\ Covers("easylist", e1 + e2, degraded)
  /\ u > 0 /\ Covers("ubo", u, FALSE)
  /\ ~IsBelow(version)
  /\ Confirmed(staged)
  /\ bundle' = [i \in 1..n |->
                  IF i = n THEN [easylist |-> e1 + e2, ubo |-> u,
                                 degraded |-> degraded, version |-> version,
                                 base |-> whole, clean |-> settled]
                  ELSE bundle[i]]
  /\ damage' = damage \cup {n} \X (staged \cup moved)
  /\ job' = [at |-> "approval", of |-> n, todo |-> {}]
  /\ UNCHANGED <<asset, failed, whole, settled>>

-----------------------------------------------------------------------------
(* The publish job. *)

DamageOf(n) == {l \in BundleLists : <<n, l>> \in damage}

\* Nobody has to approve.
Rejected ==
  /\ job.at = "approval"
  /\ job' = NoRun
  /\ UNCHANGED <<asset, bundle, damage, failed, whole, settled>>

\* sign_bundle().
Sign ==
  /\ job.at = "approval"
  /\ Confirmed(DamageOf(job.of))
  /\ job' = [job EXCEPT !.at = "lists", !.todo = BundleLists]
  /\ UNCHANGED <<asset, bundle, damage, failed, whole, settled>>

\* gh release upload --clobber.
RemoveAsset(a) ==
  /\ a \in job.todo
  /\ asset[a] # NoAsset
  /\ asset' = [asset EXCEPT ![a] = NoAsset]
  /\ settled' = FALSE
  /\ UNCHANGED <<bundle, damage, job, failed, whole>>

UploadAsset(a) ==
  /\ a \in job.todo
  /\ asset[a] = NoAsset
  /\ asset' = [asset EXCEPT ![a] = IF <<job.of, a>> \in damage THEN Bad ELSE job.of]
  /\ job' = [job EXCEPT !.todo = @ \ {a}]
  /\ settled' = FALSE
  /\ UNCHANGED <<bundle, damage, failed, whole>>

UploadEnds ==
  /\ job.at = "lists" /\ job.todo = {}
  /\ job' = [job EXCEPT !.at = "ends", !.todo = Ends]
  /\ UNCHANGED <<asset, bundle, damage, failed, whole, settled>>

Published ==
  /\ job.at = "ends" /\ job.todo = {}
  /\ job' = NoRun
  /\ whole' = job.of
  /\ settled' = TRUE
  /\ UNCHANGED <<asset, bundle, damage, failed>>

\* No key, no artifact, no network; the runner is gone.
PublishFails ==
  /\ job.at # "idle"
  /\ job' = NoRun
  /\ failed' = failed \cup {job.of}
  /\ UNCHANGED <<asset, bundle, damage, whole, settled>>

\* "Re-run failed jobs": the same artifact, at a later time.
RunAgain(n) ==
  /\ job.at = "idle"
  /\ n \in failed
  /\ failed' = failed \ {n}
  /\ job' = [at |-> "approval", of |-> n, todo |-> {}]
  /\ UNCHANGED <<asset, bundle, damage, whole, settled>>

PublisherNext ==
  \/ \E e1, e2 \in EasySizes \cup {0}, u \in UboSizes, version \in 1..MaxVersion,
        staged, moved \in SUBSET Fragile : Build(e1, e2, u, version, staged, moved)
  \/ Rejected \/ Sign \/ UploadEnds \/ Published \/ PublishFails
  \/ \E a \in Assets : RemoveAsset(a) \/ UploadAsset(a)
  \/ \E n \in Built : RunAgain(n)

PublisherSpec == PublisherInit /\ [][PublisherNext]_pubVars

-----------------------------------------------------------------------------
(* Properties *)

\* When a publication has come to its end, whatever was cut off before it and
\* whichever run it was, the manifest, its signature and every list on the
\* release are those of one bundle, byte for byte, and stay so until the next
\* upload begins: a browser that reads them then refuses none.
PublishedIsWhole == settled => \A a \in Assets : asset[a] = whole

IsSmallStep(from, to) ==
  /\ to.version >= from.version
  /\ \A l \in BundleLists :
       to[l] >= ShrinkFloor(from[l], ShareOf(l, to.degraded))

\* From one bundle that was published to its end to the next that is built, no list
\* loses more than the limits allow and the version does not go back, unless an
\* upload had touched the release between them.
StepsAreSmall ==
  [][LET to == bundle[whole'] IN
     whole' > whole /\ whole # 0 /\ to.base = whole /\ to.clean
       => IsSmallStep(bundle[whole], to)]_pubVars

\* "80 per cent (refuse a drop of more than 20)": the same with no exception.
NoSharpDrop ==
  [][LET to == bundle[whole'] IN
     whole' > whole /\ whole # 0 /\ to.base = whole
       => IsSmallStep(bundle[whole], to)]_pubVars
=============================================================================
