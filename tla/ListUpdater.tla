----------------------------- MODULE ListUpdater -----------------------------
(***************************************************************************)
(* How an installed browser keeps its blocking lists current:              *)
(* boring-core/components/boring/lists/list_updater.cc.                    *)
(*                                                                         *)
(* The updater lives on the UI thread and has one check in flight at most. *)
(* A check is a chain of handlers, each started by the answer to the last  *)
(* request; `phase' names the answer the check is waiting for.  Everything *)
(* that touches the disk is a job of the thread pool.  The check waits for *)
(* LookAtWhatWeHave and SaveList, but not for RecordCheck: that job is     *)
(* posted and forgotten, so it may run long after the check has ended,     *)
(* beside the next check, or, when the browser goes away first, never.     *)
(*                                                                         *)
(* Time is counted in days.  A manifest is named by the place of its       *)
(* bundle in the order of publication, a list file by its content.         *)
(***************************************************************************)
EXTENDS Integers, FiniteSets, Sequences

CONSTANTS
  Names,        \* names a manifest may use for a file
  Targets,      \* those GetDownloadTarget() has a place for
  Aged,         \* the lists whose age decides whether to look (filters, scam)
  Resources,    \* resources.json, a name that has no place any more
  Contents,     \* what a downloaded file may contain
  NoFile,       \* no such file, or no bytes
  Bundle,       \* what the publisher signs, in order of publication
  FreshEnough,  \* kFreshEnough, in days
  CheckInterval,\* kCheckInterval, in days
  MaxDay,       \* bound on the calendar
  MaxChecks     \* bound on the checks that go to the network

Bundles == DOMAIN Bundle
BundleType == [version : Nat \ {0}, degraded : BOOLEAN, readable : BOOLEAN,
               files : [Names -> Contents \cup {NoFile}]]

\* publish_lists.py refuses a version below the published one; an equal
\* version, a second bundle of the same day, is accepted.
ASSUME BundleAssumption ==
  /\ Bundle \in Seq(BundleType)
  /\ \A b, c \in Bundles : b <= c => Bundle[b].version <= Bundle[c].version

ASSUME NamesAssumption ==
  /\ Targets \subseteq Names
  /\ Aged \subseteq Targets
  /\ Aged # {}
  /\ Resources \in Names \ Targets
  /\ NoFile \notin Contents

ASSUME DaysAssumption ==
  /\ FreshEnough \in Nat
  /\ CheckInterval \in Nat \ {0}
  /\ MaxDay \in Nat
  /\ MaxChecks \in Nat

VARIABLES
  today,      \* the calendar
  published,  \* how many bundles have been published
  \* The download folder, shared by every run of the browser.
  held,       \* the file in place for each name
  writtenAt,  \* its modification day
  part,       \* names with a .part file beside them
  marker,     \* the last-check file
  \* The updater, on the UI thread.
  phase,      \* the answer the running check waits for
  local,      \* local_
  version,    \* version_
  degraded,   \* degraded_
  manifest,   \* manifest_, by the bundle it was signed as; 0 for other bytes
  wanted,     \* the part of wanted_ after next_
  fetching,   \* wanted_[next_]
  body,       \* the bytes handed to SaveList
  checks,     \* checks that went to the network so far
  \* The thread pool.
  records,    \* RecordCheck jobs that have not ended
  \* History, for the properties only.
  applied,    \* bundles some check ended "ok" with
  lost,       \* a record was lost, still on its way when a check looked, or not
              \* readable then
  askedOn,    \* the day of the last request for a manifest
  excused     \* the last ask need not be on the marker

diskVars    == <<held, writtenAt, part, marker>>
uiVars      == <<phase, local, version, degraded, manifest, wanted, fetching,
                 body>>
historyVars == <<applied, lost, askedOn, excused>>
vars == <<today, published, diskVars, uiVars, checks, records, historyVars>>

-----------------------------------------------------------------------------
Never == -1
NoName == "no name"
Outcomes == {"ok", "network", "signature", "manifest", "content", "stale"}

\* The answers that come from the network or from SaveList.
AskedPhases == {"manifest", "signature", "list", "part", "replace", "saved",
                "unsaved"}
Phases == {"idle", "look", "read", "looked"} \cup AskedPhases
Running == phase # "idle"          \* running_
Asked   == phase \in AskedPhases   \* asked_

NoFiles == [n \in Names |-> NoFile]
NoLocal == [worth_asking |-> FALSE, held_sha256 |-> NoFiles, version |-> 0,
            degraded |-> FALSE]
NoMarker == [at |-> Never, version |-> 0, degraded |-> FALSE, outcome |-> ""]

\* What base::WriteFile leaves between opening the file and writing it, and
\* all that is left when the write never happens.  ReadMarker() then finds no
\* text and MarkerValue() no version, so the version reads as 0.
EmptyMarker == [NoMarker EXCEPT !.at = today]

LocalType == [worth_asking : BOOLEAN,
              held_sha256 : [Names -> Contents \cup {NoFile}],
              version : Nat, degraded : BOOLEAN]
MarkerType == [at : Nat \cup {Never}, version : Nat, degraded : BOOLEAN,
               outcome : Outcomes \cup {""}]
RecordType == [check : Nat, version : Nat, degraded : BOOLEAN,
               outcome : Outcomes, opened : BOOLEAN]

TypeOK ==
  /\ today \in Nat
  /\ published \in 0 .. Len(Bundle)
  /\ held \in [Names -> Contents \cup {NoFile}]
  /\ writtenAt \in [Names -> Nat]
  /\ part \subseteq Names
  /\ marker \in MarkerType
  /\ phase \in Phases
  /\ local \in LocalType
  /\ version \in Nat
  /\ degraded \in BOOLEAN
  /\ manifest \in 0 .. published
  /\ wanted \subseteq Targets
  /\ fetching \in Targets \cup {NoName}
  /\ body \in Contents \cup {NoFile}
  /\ checks \in Nat
  /\ records \subseteq RecordType
  /\ applied \subseteq 1 .. published
  /\ lost \in BOOLEAN
  /\ askedOn \in Nat \cup {Never}
  /\ excused \in BOOLEAN

\* A browser just installed: shipped lists of day 0 beside it, nothing
\* downloaded but, perhaps, the resources file of an older browser.
Init ==
  /\ today = 0
  /\ published = 0
  /\ \E r \in Contents \cup {NoFile} : held = [NoFiles EXCEPT ![Resources] = r]
  /\ writtenAt = [n \in Names |-> 0]
  /\ part = {}
  /\ marker = NoMarker
  /\ phase = "idle"
  /\ local = NoLocal
  /\ version = 0
  /\ degraded = FALSE
  /\ manifest = 0
  /\ wanted = {}
  /\ fetching = NoName
  /\ body = NoFile
  /\ checks = 0
  /\ records = {}
  /\ applied = {}
  /\ lost = FALSE
  /\ askedOn = Never
  /\ excused = FALSE

-----------------------------------------------------------------------------
(* The end of a check. *)

ResetUi ==
  /\ phase' = "idle"
  /\ local' = NoLocal
  /\ version' = 0
  /\ degraded' = FALSE
  /\ manifest' = 0
  /\ wanted' = {}
  /\ fetching' = NoName
  /\ body' = NoFile

\* A bug for the checks: the version and the degraded flag of the manifest are
\* recorded whatever the outcome (no all_saved_).
RecordOfManifest(outcome, v, d) ==
  [check |-> checks, opened |-> FALSE, outcome |-> outcome, version |-> v,
   degraded |-> d]

\* A bug for the checks: a check that fails records version 0.
RecordOfZero(outcome, v, d) ==
  [check |-> checks, opened |-> FALSE, outcome |-> outcome,
   version  |-> IF outcome = "ok" THEN v ELSE 0, degraded |-> FALSE]

\* What RecordCheck is posted with.  Only a clean finish records the version
\* of the manifest; any other leaves the one that was on the marker.
RecordOf(outcome, v, d) ==
  [check |-> checks, opened |-> FALSE, outcome |-> outcome,
   version  |-> IF outcome = "ok" THEN v ELSE local.version,
   degraded |-> IF outcome = "ok" THEN d ELSE local.degraded]

\* A bug for the checks: only a check that worked is written down.
FinishQuietly(outcome, v, d) ==
  /\ ResetUi
  /\ records' = IF outcome = "ok" THEN records \cup {RecordOf(outcome, v, d)}
                ELSE records
  /\ applied' = IF outcome = "ok" THEN applied \cup {manifest} ELSE applied

\* FinishWith() and Finish() of a check that went to the network: v and d are
\* version_ and degraded_.
FinishWith(outcome, v, d) ==
  /\ ResetUi
  /\ records' = records \cup {RecordOf(outcome, v, d)}
  /\ applied' = IF outcome = "ok" THEN applied \cup {manifest} ELSE applied

(* The start of a check. *)

\* The guards on the setting, the loader factory and the feed address only
\* decide whether a call does anything, so a call that does is an action.
MaybeCheck ==
  /\ ~Running
  /\ checks < MaxChecks
  /\ phase' = "look"
  /\ UNCHANGED <<today, published, diskVars, local, version, degraded, manifest,
                 wanted, fetching, body, checks, records, historyVars>>

\* GetListPath() takes the newer of the shipped list (day 0) and the
\* downloaded one; the older of the aged lists decides.
ListsFresh == \A n \in Aged : today - writtenAt[n] < FreshEnough

\* "Past that, look no more than once a day."
CheckedToday == marker.at # Never /\ today - marker.at < CheckInterval

\* LookAtWhatWeHave(), as far as the modification times.  GetWrittenAt() of a file
\* it gets no answer about is no time at all, so a look may go on whatever the times.
LookAge ==
  /\ phase = "look"
  /\ \/ /\ ListsFresh \/ CheckedToday
        /\ phase' = "looked"
        /\ excused' = (excused \/ records # {})
        /\ UNCHANGED local
     \/ /\ phase' = "read"
        /\ local' = [NoLocal EXCEPT !.worth_asking = TRUE]
        /\ excused' = (excused \/ records # {} \/ CheckedToday)
  /\ lost' = (lost \/ records # {})
  /\ UNCHANGED <<today, published, diskVars, version, degraded, manifest, wanted,
                 fetching, body, checks, records, applied, askedOn>>

\* ReadMarker(): a marker that cannot be read is an empty text, and its version 0.
MarkerTexts == {marker, NoMarker}

\* HashOfFile() of every file a download would have put there; one that cannot be
\* read has none, as if it were not there.
Hashes == {[n \in Names |-> IF n \in readable THEN held[n] ELSE NoFile] :
             readable \in SUBSET Targets}

\* LookAtWhatWeHave(), the rest.  Nobody looks whether DeleteFile() could remove the
\* resources file of an older browser.
LookRead ==
  /\ phase = "read"
  /\ phase' = "looked"
  /\ held' \in {held, [held EXCEPT ![Resources] = NoFile]}
  /\ \E text \in MarkerTexts, hashes \in Hashes :
       /\ local' = [worth_asking |-> TRUE, held_sha256 |-> hashes,
                    version |-> text.version, degraded |-> text.degraded]
       /\ lost' = (lost \/ text.version # marker.version)
  /\ UNCHANGED <<today, published, writtenAt, part, marker, version, degraded,
                 manifest, wanted, fetching, body, checks, records, applied,
                 askedOn, excused>>

OnLookedAtDisk ==
  /\ phase = "looked"
  /\ \/ /\ ~local.worth_asking
        /\ ResetUi
        /\ UNCHANGED <<checks, askedOn, excused>>
     \/ /\ local.worth_asking
        /\ phase' = "manifest"
        /\ version' = local.version
        /\ checks' = checks + 1
        /\ askedOn' = today
        /\ excused' = FALSE
        /\ UNCHANGED <<local, degraded, manifest, wanted, fetching, body>>
  /\ UNCHANGED <<today, published, diskVars, records, applied, lost>>

(* The manifest and its signature. *)

\* The host answers with any manifest ever published, with other bytes (0),
\* or not at all.
OnManifest ==
  /\ phase = "manifest"
  /\ \/ /\ FinishWith("network", version, degraded)
     \/ /\ \E m \in 0 .. published : manifest' = m
        /\ phase' = "signature"
        /\ UNCHANGED <<local, version, degraded, wanted, fetching, body, records,
                       applied>>
  /\ UNCHANGED <<today, published, diskVars, checks, lost, askedOn, excused>>

\* ManifestIsSigned(): the bytes of a bundle and the signature made for it.
ManifestIsSigned(m, sig) == m # 0 /\ sig = m

\* A bug for the checks: no manifest is ever stale.
NothingIsStale(b) == FALSE

\* "a manifest older than the one already applied is a stale copy"
IsStale(b) == Bundle[b].version < local.version

\* Bugs for the checks: a place is not asked for; the version already on the
\* marker is taken for held.
WantedAnyName(b) ==
  {n \in Names : /\ Bundle[b].files[n] # NoFile
                 /\ Bundle[b].files[n] # local.held_sha256[n]}
WantedNewVersion(b) ==
  {n \in Targets : /\ Bundle[b].version # local.version
                   /\ Bundle[b].files[n] \notin {NoFile, local.held_sha256[n]}}

\* The files of a bundle that have a place and are not held already.
WantedOf(b) ==
  {n \in Targets : /\ Bundle[b].files[n] # NoFile
                   /\ Bundle[b].files[n] # local.held_sha256[n]}

\* FetchNextList(): the files come in the order of the manifest, which is the
\* publisher's; any order is allowed here.
FetchNextList(rest, v, d) ==
  \/ /\ rest = {}
     /\ FinishWith("ok", v, d)
  \/ /\ \E n \in rest : fetching' = n /\ wanted' = rest \ {n}
     /\ phase' = "list"
     /\ version' = v
     /\ degraded' = d
     /\ body' = NoFile
     /\ UNCHANGED <<local, manifest, records, applied>>

ApplyManifest ==
  \/ /\ ~Bundle[manifest].readable
     /\ FinishWith("manifest", version, degraded)
  \/ /\ Bundle[manifest].readable
     /\ IsStale(manifest)
     /\ FinishWith("stale", version, degraded)
  \/ /\ Bundle[manifest].readable
     /\ ~IsStale(manifest)
     /\ FetchNextList(WantedOf(manifest), Bundle[manifest].version,
                      Bundle[manifest].degraded)

\* The signature file is a request of its own, so it may be of another bundle.
OnManifestSignature ==
  /\ phase = "signature"
  /\ \E sig \in 0 .. published :
       \/ ~ManifestIsSigned(manifest, sig) /\ FinishWith("signature", version, degraded)
       \/ ManifestIsSigned(manifest, sig) /\ ApplyManifest
  /\ UNCHANGED <<today, published, diskVars, checks, lost, askedOn, excused>>

(* The lists. *)

\* The host answers with any bytes, or not at all.
OnListDownloaded ==
  /\ phase = "list"
  /\ \/ FinishWith("network", version, degraded)
     \/ /\ \E bytes \in Contents : body' = bytes
        /\ phase' = "part"
        /\ UNCHANGED <<local, version, degraded, manifest, wanted, fetching,
                       records, applied>>
  /\ UNCHANGED <<today, published, diskVars, checks, lost, askedOn, excused>>

\* A bug for the checks: whatever arrived is saved.
AnyBytes(bytes) == TRUE

\* The size and the hash the manifest promised.
IsPromised(bytes) == bytes = Bundle[manifest].files[fetching]

\* SaveList() up to the .part file: the check of the bytes, the folder, the
\* write.  A failed write leaves no .part behind.
SavePart ==
  /\ phase = "part"
  /\ \/ /\ IsPromised(body)
        /\ phase' = "replace"
        /\ part' = part \cup {fetching}
     \/ /\ ~IsPromised(body)
        /\ phase' = "unsaved"
        /\ UNCHANGED part
     \/ /\ IsPromised(body)
        /\ phase' = "unsaved"
        /\ part' \in {part, part \ {fetching}}
  /\ UNCHANGED <<today, published, held, writtenAt, marker, local, version,
                 degraded, manifest, wanted, fetching, body, checks, records,
                 historyVars>>

\* SaveList(), the rest: the .part file takes the place of the list.
SaveReplace ==
  /\ phase = "replace"
  /\ part' = part \ {fetching}
  /\ \/ /\ phase' = "saved"
        /\ held' = [held EXCEPT ![fetching] = body]
        /\ writtenAt' = [writtenAt EXCEPT ![fetching] = today]
     \/ /\ phase' = "unsaved"
        /\ UNCHANGED <<held, writtenAt>>
  /\ UNCHANGED <<today, published, marker, local, version, degraded, manifest,
                 wanted, fetching, body, checks, records, historyVars>>

\* A bug for the checks: a list that could not be saved ends nothing.
OnListSavedOnly ==
  /\ phase = "saved"
  /\ FetchNextList(wanted, version, degraded)
  /\ UNCHANGED <<today, published, diskVars, checks, lost, askedOn, excused>>

OnListSaved ==
  /\ \/ phase = "unsaved" /\ FinishWith("content", version, degraded)
     \/ phase = "saved" /\ FetchNextList(wanted, version, degraded)
  /\ UNCHANGED <<today, published, diskVars, checks, lost, askedOn, excused>>

(* RecordCheck(), on the thread pool. *)

\* The folder is there and the marker is opened, which empties it.  A second
\* writer cannot open it meanwhile.
RecordOpen(r) ==
  /\ \A o \in records : ~o.opened
  /\ marker' = EmptyMarker
  /\ records' = (records \ {r}) \cup {[r EXCEPT !.opened = TRUE]}
  /\ UNCHANGED <<today, published, held, writtenAt, part, uiVars, checks,
                 historyVars>>

RecordWrite(r) ==
  /\ r.opened
  /\ marker' = [at |-> today, version |-> r.version, degraded |-> r.degraded,
                outcome |-> r.outcome]
  /\ records' = records \ {r}
  /\ UNCHANGED <<today, published, held, writtenAt, part, uiVars, checks,
                 historyVars>>

\* The folder cannot be made, the marker not opened, or the write fails; the
\* result of WriteFile is not looked at.
RecordRefused(r) ==
  /\ records' = records \ {r}
  /\ lost' = TRUE
  /\ excused' = TRUE
  /\ UNCHANGED <<today, published, diskVars, uiVars, checks, applied, askedOn>>

(* Everything else that happens. *)

Publish ==
  /\ published < Len(Bundle)
  /\ published' = published + 1
  /\ UNCHANGED <<today, diskVars, uiVars, checks, records, historyVars>>

NextDay ==
  /\ today < MaxDay
  /\ today' = today + 1
  /\ UNCHANGED <<published, diskVars, uiVars, checks, records, historyVars>>

\* The browser is closed or dies, and is started again later.  Jobs that have
\* not begun are skipped at shutdown; one that was writing may be cut off.
Exit ==
  /\ Running \/ records # {}
  /\ ResetUi
  /\ records' = {}
  /\ lost' = (lost \/ records # {})
  /\ excused' = (excused \/ records # {} \/ Asked)
  /\ UNCHANGED <<today, published, diskVars, checks, applied, askedOn>>

PoolStep == \/ LookAge \/ LookRead \/ SavePart \/ SaveReplace
            \/ \E r \in records : RecordOpen(r) \/ RecordWrite(r) \/ RecordRefused(r)

UiStep == \/ OnLookedAtDisk \/ OnManifest \/ OnManifestSignature
          \/ OnListDownloaded \/ OnListSaved

Next == MaybeCheck \/ UiStep \/ PoolStep \/ Publish \/ NextDay \/ Exit

Spec == Init /\ [][Next]_vars

\* Every posted job runs and every request is answered, if only by an error.
Fairness == WF_vars(PoolStep) /\ WF_vars(UiStep)
FairSpec == Spec /\ Fairness

-----------------------------------------------------------------------------
(* Properties. *)

\* Whatever the host serves, a list in place is one that a signed manifest
\* promised for that name, and whole: the hash is compared with the verified
\* manifest (SaveList) and the file appears in one step (ReplaceFile).  Nothing
\* is ever put where a name has no place.
Integrity ==
  /\ \A n \in Names \ {Resources} :
       held[n] = NoFile \/ \E b \in 1 .. published : held[n] = Bundle[b].files[n]
  /\ \A n \in Names \ (Targets \cup {Resources}) : held[n] = NoFile

\* The marker names a version only when some check put every list of that
\* version in place, and calls it degraded only when that very bundle was:
\* FinishWith() carries both forward together when a check fails.
MarkerHonest ==
  /\ marker.version # 0 =>
       \E b \in applied : /\ Bundle[b].version = marker.version
                          /\ Bundle[b].degraded = marker.degraded
  /\ marker.outcome = "ok" => marker.version # 0

\* "Everything the manifest offered is either already here or has just been
\* put in place" (FetchNextList): when a check ends ok, every list of its
\* manifest is held as promised, also after earlier checks that stopped part
\* way, after the browser went away between two of their lists, and when what is
\* here could not be read.
WholeBundle ==
  [][\A r \in records' \ records :
       r.outcome = "ok" /\ ~r.opened =>
         \A n \in Targets : Bundle[manifest].files[n] \in {NoFile, held[n]}]_vars

ApplyingPhases == {"list", "part", "replace", "saved", "unsaved"}
AppliedFloor(v) == \A u \in applied : Bundle[u].version <= v

\* No list of a bundle that was applied is replaced by one of an older bundle.
ListsAtFloor ==
  \A u \in applied, n \in Targets :
    Bundle[u].files[n] # NoFile =>
      \E w \in 1 .. published : /\ Bundle[w].version >= Bundle[u].version
                                /\ held[n] = Bundle[w].files[n]

\* "The publisher only ever counts up, so a manifest older than the one
\* already applied is a stale copy and must not walk us backwards"
\* (ApplyManifest), as it is written.
NeverWalksBack == phase \in ApplyingPhases => AppliedFloor(version)

\* What the code does keep of it: checks that fail, stop part way or are cut
\* off by the end of the browser never walk the lists back, as long as every
\* RecordCheck has reached the disk before the next check looks there, and that
\* check can read it.
NoWalkBack == ~lost => NeverWalksBack /\ ListsAtFloor

\* Under the same condition the marker keeps up with what was applied, so the
\* version the next check compares with is the newest.
MarkerKeepsUp == ~lost /\ records = {} => AppliedFloor(marker.version)

\* "Checked at most once a day": a second manifest is asked for on one day
\* only after the browser went away, the disk refused the marker or the time it was
\* written, or the check looked before the last one's marker was there.
OnceADay ==
  [][phase = "looked" /\ phase' = "manifest" => askedOn < today \/ excused]_vars

\* "Every path out goes through here" (FinishWith): a check that has started
\* ends, so the next one can start.
EveryCheckEnds == Running ~> ~Running
==============================================================================
