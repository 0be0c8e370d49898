------------------------------ MODULE ReleaseJob ------------------------------
(***************************************************************************)
(* .github/workflows/release.yml: from a build tree that anybody may use   *)
(* to a draft release, by way of tools/joblock.py (here TreeClaim, what it *)
(* promises), apply.py, sign_windows.py, rename_release.py and             *)
(* make_appcast.py.  The job holds a claim on the tree but not its lock    *)
(* between its steps; a second user of the tree takes it whenever no claim *)
(* of another stands, lays its own source in it, builds and packages.  Any *)
(* step may fail, the runner may die, and the job is killed when its time  *)
(* is up.                                                                  *)
(***************************************************************************)
EXTENDS TreeClaim

CONSTANTS
  Parts,     \* the binaries that are checked, signed and packed
  Sources,   \* what may be laid in the tree
  JobSource, \* and which of them the job was started for
  Version,   \* the version that every source gives itself
  UpdateKey, \* the public key that every source compiles in
  JobTime,   \* timeout-minutes of the job
  MaxClock,  \* bound on the time
  MaxJobs,   \* bound on the jobs started
  NoDraft

ASSUME ReleaseAssumption ==
  /\ {"release", "other"} \subseteq Owners
  /\ JobSource \in Sources
  /\ Version \in [Sources -> Nat]
  /\ {JobTime, MaxClock, MaxJobs} \subseteq Nat
  /\ Parts \cap {"mini_installer", "package"} = {}
  /\ NoOwner \notin Owners

VARIABLES
  source, \* whose source is in the tree
  bin,    \* out\Default: every binary, what it was made of, whether signed
  mini,   \* mini_installer.exe: the binaries it holds
  pkg,    \* what package.py left in build\
  newer,  \* the files written since the moment that the job noted
  dist,   \* the folder the draft is made of
  draft,
  rel,    \* the job in hand
  jobs

buildVars == <<source, bin, mini, pkg, newer>>
outVars == <<dist, draft>>
releaseVars == <<cvars, buildVars, outVars, rel, jobs>>

Steps == {"idle", "take", "claim", "claimed", "apply", "lists", "note", "build",
          "fresh", "version", "smoke", "sign", "repack", "package", "pick",
          "signInstaller", "verify", "name", "copy", "zip", "sums", "feed", "draft",
          "back", "backing"}
Binary == [of : Sources, signed : BOOLEAN]
Binaries == [Parts -> Binary]
Installer == [parts : Binaries, signed : BOOLEAN]
Made == Parts \cup {"mini_installer", "package"}
NoJob == [at |-> "idle", start |-> 0, allow |-> FALSE, signing |-> FALSE, asked |-> 0,
          key |-> "none"]
EmptyDist == [x \in {} |-> x]

ReleaseTypeOK ==
  /\ clock \in 0..MaxClock
  /\ user \in Owners \cup {NoOwner}
  /\ claim.owner \in Owners \cup {NoOwner}
  /\ source \in Sources
  /\ bin \in Binaries /\ mini \in Binaries
  /\ pkg \in [installer : Installer, zip : Binaries]
  /\ newer \subseteq Made
  /\ rel.at \in Steps /\ rel.start \in 0..MaxClock
  /\ jobs \in 0..MaxJobs

ReleaseInit ==
  /\ clock = 0
  /\ ClaimInit
  /\ source \in Sources
  /\ \E s \in Sources, signed \in BOOLEAN :
       LET bs == [p \in Parts |-> [of |-> s, signed |-> signed]] IN
       /\ bin = bs /\ mini = bs
       /\ pkg = [installer |-> [parts |-> bs, signed |-> signed], zip |-> bs]
  /\ newer = {}
  /\ dist = EmptyDist
  /\ draft = NoDraft
  /\ rel = NoJob
  /\ jobs = 0

-----------------------------------------------------------------------------
(* The job's own steps. *)

\* The job is running, and has come to this step.
At(s) == rel.at = s /\ clock < rel.start + JobTime
\* The same under the lock.
Inside(s) == At(s) /\ user = "release"
GoTo(s) == rel' = [rel EXCEPT !.at = s]
Locked == {"apply", "lists", "build", "smoke", "sign", "repack", "package"}

StartRelease(allow, signing, asked, key) ==
  /\ rel.at = "idle"
  /\ jobs < MaxJobs /\ clock < MaxClock
  /\ jobs' = jobs + 1
  /\ rel' = [at |-> "take", start |-> clock, allow |-> allow, signing |-> signing,
             asked |-> asked, key |-> key]
  /\ UNCHANGED <<cvars, buildVars, outVars>>

\* A bug for the checks: the lease is shorter than the job.
ShortLease == JobTime - 1
\* joblock.py --claim; the lease is as long as the job may run.  Every job has an
\* owner of its own, for which "release" stands: in this model a job may take over
\* what a dead one left, where the code would wait for it to run out.
Lease == JobTime

TakeTree ==
  /\ At("take")
  /\ Begin("release")
  /\ GoTo("claim")
  /\ UNCHANGED <<buildVars, outVars, jobs>>

ClaimTree ==
  /\ Inside("claim")
  /\ claim' = [owner |-> "release", expires |-> clock + Lease]
  /\ Note("release")
  /\ GoTo("claimed")
  /\ UNCHANGED <<buildVars, outVars, jobs>>

TreeClaimed ==
  /\ Inside("claimed")
  /\ End /\ claim' = claim
  /\ GoTo("apply")
  /\ UNCHANGED <<buildVars, outVars, jobs>>

\* Every step under the lock takes it anew.
EnterStep ==
  /\ \E s \in Locked : At(s)
  /\ Begin("release")
  /\ UNCHANGED <<buildVars, outVars, rel, jobs>>

LeaveStep(next) ==
  /\ End /\ claim' = claim
  /\ GoTo(next)
  /\ UNCHANGED <<outVars, jobs>>

\* apply.py (SourceTree has what it does).
Apply ==
  /\ Inside("apply")
  /\ source' = JobSource
  /\ LeaveStep("lists")
  /\ UNCHANGED <<bin, mini, pkg, newer>>

\* The lists (ListFeeds) and the smoke tests leave the binaries alone.
PassStep ==
  /\ \/ Inside("lists") /\ LeaveStep("note")
     \/ Inside("smoke") /\ LeaveStep(IF rel.signing THEN "sign" ELSE "package")
  /\ UNCHANGED buildVars

NoteStart ==
  /\ At("note")
  /\ newer' = {}
  /\ GoTo("build")
  /\ UNCHANGED <<cvars, source, bin, mini, pkg, outVars, jobs>>

\* ninja: it relinks what it finds changed, which it judges by the times of files
\* that apply.py puts back with the times they had; but the installer is packed
\* again whenever a binary in it was written.
Relinked(ps) ==
  [p \in Parts |-> IF p \in ps THEN [of |-> source, signed |-> FALSE] ELSE bin[p]]

Ninja(ps) ==
  /\ bin' = Relinked(ps)
  /\ mini' = bin'
  /\ newer' = newer \cup ps
                 \cup (IF ps # {} \/ mini # bin THEN {"mini_installer"} ELSE {})
  /\ UNCHANGED <<source, pkg>>

BuildBrowser(ps) ==
  /\ Inside("build")
  /\ Ninja(ps)
  /\ LeaveStep("fresh")

AllFresh == Parts \cup {"mini_installer"} \subseteq newer

CheckFresh ==
  /\ At("fresh")
  /\ rel.allow \/ AllFresh
  /\ GoTo("version")
  /\ UNCHANGED <<cvars, buildVars, outVars, jobs>>

\* chrome/VERSION, chrome.exe and what was asked for.
CheckVersion ==
  /\ At("version")
  /\ \A p \in Parts : Version[bin[p].of] = Version[source]
  /\ rel.asked = Version[source]
  /\ GoTo("smoke")
  /\ UNCHANGED <<cvars, buildVars, outVars, jobs>>

\* sign_windows.py.  A file that was signed before is signed again.
SignBinaries ==
  /\ Inside("sign")
  /\ bin' = [p \in Parts |-> [bin[p] EXCEPT !.signed = TRUE]]
  /\ newer' = newer \cup Parts
  /\ LeaveStep("repack")
  /\ UNCHANGED <<source, mini, pkg>>

Repack ==
  /\ Inside("repack")
  /\ Ninja({})
  /\ LeaveStep("package")

\* package.py.
PackageOf == [installer |-> [parts |-> mini, signed |-> FALSE], zip |-> bin]

Package ==
  /\ Inside("package")
  /\ pkg' = PackageOf
  /\ newer' = newer \cup {"package"}
  /\ LeaveStep("pick")
  /\ UNCHANGED <<source, bin, mini>>

PickFiles ==
  /\ At("pick")
  /\ "package" \in newer
  /\ GoTo(IF rel.signing THEN "signInstaller" ELSE "name")
  /\ UNCHANGED <<cvars, buildVars, outVars, jobs>>

SignInstaller ==
  /\ At("signInstaller")
  /\ pkg' = [pkg EXCEPT !.installer.signed = TRUE]
  /\ GoTo("verify")
  /\ UNCHANGED <<cvars, source, bin, mini, newer, outVars, jobs>>

CheckSignatures ==
  /\ At("verify")
  /\ pkg.installer.signed /\ \A p \in Parts : bin[p].signed
  /\ GoTo("name")
  /\ UNCHANGED <<cvars, buildVars, outVars, jobs>>

-----------------------------------------------------------------------------
(* rename_release.py, on an empty folder. *)

NameFiles ==
  /\ At("name")
  /\ rel.asked = Version[source]
  /\ dist' = EmptyDist
  /\ GoTo("copy")
  /\ UNCHANGED <<cvars, buildVars, draft, jobs>>

\* A copy that differs from the original is refused (ReleaseFails).
CopyInstaller ==
  /\ At("copy")
  /\ dist' = [installer |-> pkg.installer]
  /\ GoTo("zip")
  /\ UNCHANGED <<cvars, buildVars, draft, jobs>>

CopyZip ==
  /\ At("zip")
  /\ dist' = [installer |-> dist.installer, zip |-> pkg.zip]
  /\ GoTo("sums")
  /\ UNCHANGED <<cvars, buildVars, draft, jobs>>

WriteSums ==
  /\ At("sums")
  /\ dist' = [installer |-> dist.installer, zip |-> dist.zip,
              sums |-> <<dist.installer, dist.zip>>]
  /\ GoTo("feed")
  /\ UNCHANGED <<cvars, buildVars, draft, jobs>>

-----------------------------------------------------------------------------
(* make_appcast.py --require-signature --check-key-from the build tree. *)

\* The key that signs is the one that the browser in the tree compiles in.
KeyFits(key) == key = UpdateKey[source]

WriteFeed ==
  /\ At("feed")
  /\ KeyFits(rel.key)
  /\ dist' = [installer |-> dist.installer, zip |-> dist.zip, sums |-> dist.sums,
              feed |-> [over |-> dist.installer, key |-> rel.key]]
  /\ GoTo("draft")
  /\ UNCHANGED <<cvars, buildVars, draft, jobs>>

MakeDraft ==
  /\ At("draft")
  /\ draft' = [files |-> dist, signing |-> rel.signing, allow |-> rel.allow]
  /\ GoTo("back")
  /\ UNCHANGED <<cvars, buildVars, dist, jobs>>

-----------------------------------------------------------------------------
(* Failure, the end of the job, and the other user. *)

\* Whatever the step was, what it held is let go.
LetGo == user' = IF user = "release" THEN NoOwner ELSE user

\* A step fails, or the time is up.
ReleaseFails ==
  /\ rel.at \notin {"idle", "back", "backing"}
  /\ GoTo("back")
  /\ LetGo
  /\ UNCHANGED <<clock, claim, releasing, faulty, buildVars, outVars, jobs>>

\* The runner dies, in the middle of whatever it writes.
RunnerDies ==
  /\ rel.at # "idle"
  /\ rel' = NoJob
  /\ LetGo /\ releasing' = {}
  /\ UNCHANGED <<clock, claim, faulty, outVars, jobs>>
  /\ \/ UNCHANGED buildVars
     \/ /\ rel.at = "apply" /\ user = "release"
        /\ source' = JobSource
        /\ UNCHANGED <<bin, mini, pkg, newer>>
     \/ /\ rel.at = "build" /\ user = "release"
        /\ \E ps \in SUBSET Parts :
             /\ bin' = Relinked(ps)
             /\ newer' = newer \cup ps
        /\ UNCHANGED <<source, mini, pkg>>

\* joblock.py --release, whatever happened before: it asks, and then removes.
AskTreeBack ==
  /\ rel.at = "back"
  /\ IF claim.owner = "release"
     THEN AskBack /\ GoTo("backing")
     ELSE UNCHANGED cvars /\ rel' = NoJob
  /\ UNCHANGED <<buildVars, outVars, jobs>>

GiveTreeBack ==
  /\ rel.at = "backing"
  /\ releasing' = {}
  /\ IF claim \in releasing THEN GiveBack ELSE LeaveIt
  /\ rel' = NoJob
  /\ UNCHANGED <<buildVars, outVars, jobs>>

OtherBegins ==
  /\ Begin("other")
  /\ UNCHANGED <<buildVars, outVars, rel, jobs>>

OtherWorks ==
  /\ user = "other"
  /\ \/ \E s \in Sources : source' = s /\ UNCHANGED <<bin, mini, pkg, newer>>
     \/ \E ps \in SUBSET Parts : Ninja(ps)
     \/ /\ pkg' = PackageOf /\ newer' = newer \cup {"package"}
        /\ UNCHANGED <<source, bin, mini>>
  /\ UNCHANGED <<cvars, outVars, rel, jobs>>

OtherEnds ==
  /\ user = "other"
  /\ End /\ claim' = claim
  /\ UNCHANGED <<buildVars, outVars, rel, jobs>>

\* The job does not outlive its time.
TimePasses ==
  /\ clock < MaxClock
  /\ rel.at # "idle" => clock < rel.start + JobTime
  /\ ClockRuns
  /\ UNCHANGED <<buildVars, outVars, rel, jobs>>

ReleaseNext ==
  \/ \E allow, signing \in BOOLEAN, asked \in {Version[s] : s \in Sources},
        key \in {UpdateKey[s] : s \in Sources} : StartRelease(allow, signing, asked, key)
  \/ TakeTree \/ ClaimTree \/ TreeClaimed \/ EnterStep
  \/ Apply \/ PassStep \/ NoteStart \/ CheckFresh \/ CheckVersion
  \/ \E ps \in SUBSET Parts : BuildBrowser(ps)
  \/ SignBinaries \/ Repack \/ Package \/ PickFiles \/ SignInstaller \/ CheckSignatures
  \/ NameFiles \/ CopyInstaller \/ CopyZip \/ WriteSums \/ WriteFeed \/ MakeDraft
  \/ ReleaseFails \/ RunnerDies \/ AskTreeBack \/ GiveTreeBack
  \/ OtherBegins \/ OtherWorks \/ OtherEnds \/ TimePasses

ReleaseSpec == ReleaseInit /\ [][ReleaseNext]_releaseVars

-----------------------------------------------------------------------------
(* Property *)

\* What a draft offers is one build.  The zip holds the binaries that the
\* installer holds, the checksums and the feed's signature are those of the bytes
\* that people download, and a copy of that browser accepts the signature.  Unless
\* the job was told to ship what ninja did not relink, every binary was made of
\* the job's source, and a job with a certificate ships nothing unsigned.
DraftIsOneBuild ==
  draft # NoDraft =>
    LET d == draft.files IN
    /\ d.zip = d.installer.parts
    /\ d.sums = <<d.installer, d.zip>>
    /\ d.feed.over = d.installer
    /\ ~draft.allow => \A p \in Parts :
         /\ d.zip[p].of = JobSource
         /\ d.feed.key = UpdateKey[d.zip[p].of]
    /\ draft.signing => d.installer.signed /\ \A p \in Parts : d.zip[p].signed
=============================================================================
