-------------------------- MODULE ReleaseJobProofs --------------------------
(***************************************************************************)
(* Proof about the release job, for any binaries, sources, lease and       *)
(* number of jobs: what a draft offers is one build.                       *)
(***************************************************************************)
EXTENDS ReleaseJob, TLAPS

\* The steps after a step of the job, each of which begins where the last one ends.
Packing == {"pick", "signInstaller", "verify", "name", "copy", "zip", "sums", "feed", "draft"}
AfterFresh == {"version", "smoke", "sign", "repack", "package"} \cup Packing
AfterNote == {"build", "fresh"} \cup AfterFresh
AfterApply == {"lists", "note"} \cup AfterNote
AfterClaim == {"apply"} \cup AfterApply
Signed == {"name", "copy", "zip", "sums", "feed", "draft"}

\* The job is at one of these steps, and its time is not up.
During(steps) == rel.at \in steps /\ clock < rel.start + JobTime

Installers == [parts : Binaries, signed : BOOLEAN]
Packages == [installer : Installers, zip : Binaries]
Jobs == [at : Steps, start : Nat, allow : BOOLEAN, signing : BOOLEAN,
         asked : Nat, key : {UpdateKey[s] : s \in Sources} \cup {"none"}]

Typed ==
  /\ clock \in Nat
  /\ source \in Sources
  /\ bin \in Binaries /\ mini \in Binaries /\ pkg \in Packages
  /\ rel \in Jobs /\ rel.start <= clock
  /\ claim.expires \in Nat

\* The claim of the job covers the whole of its time, and nobody else is in the tree.
Claims ==
  /\ rel.at \in {"claim", "claimed"} => user = "release"
  /\ During({"claimed"} \cup AfterClaim) =>
       claim.owner = "release" /\ claim.expires >= rel.start + JobTime
  /\ During(AfterClaim) => user # "other"

\* What the tree holds, step by step.
Tree ==
  /\ During(AfterApply) => source = JobSource
  /\ During({"build", "fresh"}) => \A p \in Parts : p \in newer => bin[p].of = JobSource
  /\ During({"fresh", "version", "smoke", "sign", "package"}) => mini = bin
  /\ During(AfterFresh) => rel.allow \/ \A p \in Parts : bin[p].of = JobSource
  /\ During({"repack", "package"} \cup Packing) /\ rel.signing =>
       \A p \in Parts : bin[p].signed

\* What is packed.
Packed ==
  /\ During(Packing) =>
       /\ pkg.installer.parts = bin /\ pkg.zip = bin
  /\ During({"verify"} \cup Signed) /\ rel.signing => pkg.installer.signed

\* What is put together for the draft.
Put ==
  /\ During({"zip", "sums", "feed", "draft"}) => dist.installer = pkg.installer
  /\ During({"sums", "feed", "draft"}) => dist.zip = pkg.zip
  /\ During({"feed", "draft"}) => dist.sums = <<dist.installer, dist.zip>>
  /\ During({"draft"}) =>
       dist.feed.over = dist.installer /\ dist.feed.key = UpdateKey[JobSource]

ReleaseInv == Typed /\ Claims /\ Tree /\ Packed /\ Put /\ DraftIsOneBuild

-----------------------------------------------------------------------------

\* What going to a step leaves as it is.
LEMMA GoesTo ==
  ASSUME rel \in Jobs, NEW s \in Steps, GoTo(s)
  PROVE  /\ rel' \in Jobs /\ rel'.at = s /\ rel'.start = rel.start
         /\ rel'.allow = rel.allow /\ rel'.signing = rel.signing
         /\ rel'.asked = rel.asked /\ rel'.key = rel.key
  BY DEF Jobs, GoTo

LEMMA DraftStays == DraftIsOneBuild /\ UNCHANGED draft => DraftIsOneBuild'
BY DEF DraftIsOneBuild

\* Whatever the tree holds, before the job has the claim and after it has failed
\* nothing is asked of it.
Away == {"idle", "take", "claim", "back", "backing"}
LEMMA AwayInv ==
  ASSUME Typed', rel'.at \in Away, rel'.at = "claim" => user' = "release",
         DraftIsOneBuild'
  PROVE  ReleaseInv'
BY DEF ReleaseInv, Claims, Tree, Packed, Put, During, Away, AfterClaim, AfterApply, AfterNote,
   AfterFresh, Packing, Signed

\* A step of the job that leaves the draft as it is.
Moves(from, to) ==
  /\ rel.at = from /\ clock < rel.start + JobTime
  /\ to \in Steps /\ GoTo(to)
  /\ UNCHANGED <<clock, draft>>

LEMMA MovesFacts ==
  ASSUME Typed, NEW from, NEW to, Moves(from, to)
  PROVE  /\ rel' \in Jobs /\ rel'.at = to
         /\ \A S : During(S)' <=> to \in S
         /\ \A S : During(S) <=> from \in S
         /\ rel'.allow = rel.allow /\ rel'.signing = rel.signing /\ rel'.key = rel.key
         /\ clock' = clock /\ rel'.start = rel.start
BY GoesTo DEF Typed, Moves, During

LEMMA TreeClaimedInv ==
  ASSUME ReleaseInv, TreeClaimed
  PROVE  ReleaseInv'
<1> USE DEF ReleaseInv, TreeClaimed, End, AfterClaim, AfterApply, AfterNote,
            AfterFresh, Packing, Signed
<1>1. Moves("claimed", "apply")
  BY ReleaseAssumption DEF Moves, At, Inside, Steps, cvars, outVars
<1>2. Typed'
  BY <1>1, MovesFacts DEF Typed, buildVars, cvars
<1>3. Claims'
  BY <1>1, MovesFacts, ReleaseAssumption DEF Claims, cvars
<1>4. Tree' /\ Packed' /\ Put'
  BY <1>1, MovesFacts DEF Tree, Packed, Put, buildVars, outVars
<1> QED
  BY <1>1, <1>2, <1>3, <1>4, DraftStays DEF Moves

LEMMA ApplyInv ==
  ASSUME ReleaseInv, Apply
  PROVE  ReleaseInv'
<1> USE DEF ReleaseInv, Apply, LeaveStep, End, AfterClaim, AfterApply, AfterNote,
            AfterFresh, Packing, Signed
<1>1. Moves("apply", "lists")
  BY ReleaseAssumption DEF Moves, At, Inside, Steps, cvars, outVars
<1>2. Typed'
  BY <1>1, MovesFacts, ReleaseAssumption DEF Typed
<1>3. Claims'
  BY <1>1, MovesFacts, ReleaseAssumption DEF Claims, cvars
<1>4. Tree'
  BY <1>1, MovesFacts DEF Typed, Tree, buildVars, Inside, At
<1>5. Packed'
  BY <1>1, MovesFacts DEF Packed, buildVars
<1>6. Put'
  BY <1>1, MovesFacts DEF Put, buildVars, outVars
<1> QED
  BY <1>1, <1>2, <1>3, <1>4, <1>5, <1>6, DraftStays DEF Moves

LEMMA NoteStartInv ==
  ASSUME ReleaseInv, NoteStart
  PROVE  ReleaseInv'
<1> USE DEF ReleaseInv, NoteStart, AfterClaim, AfterApply, AfterNote, AfterFresh,
            Packing, Signed
<1>1. Moves("note", "build")
  BY ReleaseAssumption DEF Moves, At, Inside, Steps, cvars, outVars
<1>2. Typed'
  BY <1>1, MovesFacts DEF Typed, buildVars, cvars
<1>3. Claims'
  BY <1>1, MovesFacts, ReleaseAssumption DEF Claims, cvars
<1>4. Tree' /\ Packed' /\ Put'
  BY <1>1, MovesFacts DEF Tree, Packed, Put, buildVars, outVars
<1> QED
  BY <1>1, <1>2, <1>3, <1>4, DraftStays DEF Moves

LEMMA CheckFreshInv ==
  ASSUME ReleaseInv, CheckFresh
  PROVE  ReleaseInv'
<1> USE DEF ReleaseInv, CheckFresh, AfterClaim, AfterApply, AfterNote, AfterFresh,
            Packing, Signed
<1>1. Moves("fresh", "version")
  BY ReleaseAssumption DEF Moves, At, Inside, Steps, cvars, outVars
<1>2. Typed'
  BY <1>1, MovesFacts DEF Typed, buildVars, cvars
<1>3. Claims'
  BY <1>1, MovesFacts, ReleaseAssumption DEF Claims, cvars
<1>4. Tree' /\ Packed' /\ Put'
  BY <1>1, MovesFacts DEF Tree, Packed, Put, buildVars, outVars, AllFresh
<1> QED
  BY <1>1, <1>2, <1>3, <1>4, DraftStays DEF Moves

LEMMA CheckVersionInv ==
  ASSUME ReleaseInv, CheckVersion
  PROVE  ReleaseInv'
<1> USE DEF ReleaseInv, CheckVersion, AfterClaim, AfterApply, AfterNote, AfterFresh,
            Packing, Signed
<1>1. Moves("version", "smoke")
  BY ReleaseAssumption DEF Moves, At, Inside, Steps, cvars, outVars
<1>2. Typed'
  BY <1>1, MovesFacts DEF Typed, buildVars, cvars
<1>3. Claims'
  BY <1>1, MovesFacts, ReleaseAssumption DEF Claims, cvars
<1>4. Tree' /\ Packed' /\ Put'
  BY <1>1, MovesFacts DEF Tree, Packed, Put, buildVars, outVars
<1> QED
  BY <1>1, <1>2, <1>3, <1>4, DraftStays DEF Moves

LEMMA SignBinariesInv ==
  ASSUME ReleaseInv, SignBinaries
  PROVE  ReleaseInv'
<1> USE DEF ReleaseInv, SignBinaries, LeaveStep, End, AfterClaim, AfterApply,
            AfterNote, AfterFresh, Packing, Signed
<1>1. Moves("sign", "repack")
  BY ReleaseAssumption DEF Moves, At, Inside, Steps, cvars, outVars
<1>2. Typed'
  <2>1. \A b \in Binary : [b EXCEPT !.signed = TRUE] \in Binary
    BY DEF Binary
  <2>2. bin' \in Binaries
    BY <2>1 DEF Typed, Binaries
  <2> QED
    BY <1>1, <2>2, MovesFacts DEF Typed
<1>3. Claims'
  BY <1>1, MovesFacts, ReleaseAssumption DEF Claims, cvars
<1>4. Tree'
  BY <1>1, MovesFacts DEF Typed, Tree, buildVars, Binaries, Binary
<1>5. Packed'
  BY <1>1, MovesFacts DEF Packed, buildVars
<1>6. Put'
  BY <1>1, MovesFacts DEF Put, buildVars, outVars
<1> QED
  BY <1>1, <1>2, <1>3, <1>4, <1>5, <1>6, DraftStays DEF Moves

LEMMA RepackInv ==
  ASSUME ReleaseInv, Repack
  PROVE  ReleaseInv'
<1> USE DEF ReleaseInv, Repack, LeaveStep, End, AfterClaim, AfterApply, AfterNote,
            AfterFresh, Packing, Signed
<1>1. Moves("repack", "package")
  BY ReleaseAssumption DEF Moves, At, Inside, Steps, cvars, outVars
<1>2. Typed'
  BY <1>1, MovesFacts DEF Typed, buildVars, cvars, Ninja, Relinked, Binaries, Binary
<1>3. Claims'
  BY <1>1, MovesFacts, ReleaseAssumption DEF Claims, cvars
<1>4. Tree'
  BY <1>1, MovesFacts DEF Typed, Tree, buildVars, Ninja, Relinked, Binaries, Binary
<1>5. Packed'
  BY <1>1, MovesFacts DEF Packed, buildVars, Ninja
<1>6. Put'
  BY <1>1, MovesFacts DEF Put, buildVars, outVars, Ninja
<1> QED
  BY <1>1, <1>2, <1>3, <1>4, <1>5, <1>6, DraftStays DEF Moves

LEMMA PackageInv ==
  ASSUME ReleaseInv, Package
  PROVE  ReleaseInv'
<1> USE DEF ReleaseInv, Package, LeaveStep, End, AfterClaim, AfterApply, AfterNote,
            AfterFresh, Packing, Signed
<1>1. Moves("package", "pick")
  BY ReleaseAssumption DEF Moves, At, Inside, Steps, cvars, outVars
<1>2. Typed'
  BY <1>1, MovesFacts DEF Typed, buildVars, cvars, PackageOf, Packages, Installers
<1>3. Claims'
  BY <1>1, MovesFacts, ReleaseAssumption DEF Claims, cvars
<1>4. Tree'
  BY <1>1, MovesFacts DEF Typed, Tree, buildVars
<1>5. Packed'
  BY <1>1, MovesFacts DEF Packed, buildVars, PackageOf, Tree
<1>6. Put'
  BY <1>1, MovesFacts DEF Put, buildVars, outVars
<1> QED
  BY <1>1, <1>2, <1>3, <1>4, <1>5, <1>6, DraftStays DEF Moves

LEMMA SignInstallerInv ==
  ASSUME ReleaseInv, SignInstaller
  PROVE  ReleaseInv'
<1> USE DEF ReleaseInv, SignInstaller, AfterClaim, AfterApply, AfterNote, AfterFresh,
            Packing, Signed
<1>1. Moves("signInstaller", "verify")
  BY ReleaseAssumption DEF Moves, At, Inside, Steps, cvars, outVars
<1>2. Typed'
  BY <1>1, MovesFacts DEF Typed, buildVars, cvars, Packages, Installers
<1>3. Claims'
  BY <1>1, MovesFacts, ReleaseAssumption DEF Claims, cvars
<1>4. Tree'
  BY <1>1, MovesFacts DEF Typed, Tree, buildVars
<1>5. Packed'
  BY <1>1, MovesFacts DEF Packed, buildVars, Typed, Packages, Installers
<1>6. Put'
  BY <1>1, MovesFacts DEF Put, buildVars, outVars
<1> QED
  BY <1>1, <1>2, <1>3, <1>4, <1>5, <1>6, DraftStays DEF Moves

LEMMA CheckSignaturesInv ==
  ASSUME ReleaseInv, CheckSignatures
  PROVE  ReleaseInv'
<1> USE DEF ReleaseInv, CheckSignatures, AfterClaim, AfterApply, AfterNote,
            AfterFresh, Packing, Signed
<1>1. Moves("verify", "name")
  BY ReleaseAssumption DEF Moves, At, Inside, Steps, cvars, outVars
<1>2. Typed'
  BY <1>1, MovesFacts DEF Typed, buildVars, cvars
<1>3. Claims'
  BY <1>1, MovesFacts, ReleaseAssumption DEF Claims, cvars
<1>4. Tree' /\ Packed' /\ Put'
  BY <1>1, MovesFacts DEF Tree, Packed, Put, buildVars, outVars
<1> QED
  BY <1>1, <1>2, <1>3, <1>4, DraftStays DEF Moves

LEMMA NameFilesInv ==
  ASSUME ReleaseInv, NameFiles
  PROVE  ReleaseInv'
<1> USE DEF ReleaseInv, NameFiles, AfterClaim, AfterApply, AfterNote, AfterFresh,
            Packing, Signed
<1>1. Moves("name", "copy")
  BY ReleaseAssumption DEF Moves, At, Inside, Steps, cvars, outVars
<1>2. Typed'
  BY <1>1, MovesFacts DEF Typed, buildVars, cvars
<1>3. Claims'
  BY <1>1, MovesFacts, ReleaseAssumption DEF Claims, cvars
<1>4. Tree' /\ Packed' /\ Put'
  BY <1>1, MovesFacts DEF Tree, Packed, Put, buildVars, outVars
<1> QED
  BY <1>1, <1>2, <1>3, <1>4, DraftStays DEF Moves

LEMMA CopyInstallerInv ==
  ASSUME ReleaseInv, CopyInstaller
  PROVE  ReleaseInv'
<1> USE DEF ReleaseInv, CopyInstaller, AfterClaim, AfterApply, AfterNote, AfterFresh,
            Packing, Signed
<1>1. Moves("copy", "zip")
  BY ReleaseAssumption DEF Moves, At, Inside, Steps, cvars, outVars
<1>2. Typed'
  BY <1>1, MovesFacts DEF Typed, buildVars, cvars
<1>3. Claims'
  BY <1>1, MovesFacts, ReleaseAssumption DEF Claims, cvars
<1>4. Tree' /\ Packed' /\ Put'
  BY <1>1, MovesFacts DEF Tree, Packed, Put, buildVars, outVars
<1> QED
  BY <1>1, <1>2, <1>3, <1>4, DraftStays DEF Moves

LEMMA CopyZipInv ==
  ASSUME ReleaseInv, CopyZip
  PROVE  ReleaseInv'
<1> USE DEF ReleaseInv, CopyZip, AfterClaim, AfterApply, AfterNote, AfterFresh,
            Packing, Signed
<1>1. Moves("zip", "sums")
  BY ReleaseAssumption DEF Moves, At, Inside, Steps, cvars, outVars
<1>2. Typed'
  BY <1>1, MovesFacts DEF Typed, buildVars, cvars
<1>3. Claims'
  BY <1>1, MovesFacts, ReleaseAssumption DEF Claims, cvars
<1>4. Tree' /\ Packed' /\ Put'
  BY <1>1, MovesFacts DEF Tree, Packed, Put, buildVars, outVars
<1> QED
  BY <1>1, <1>2, <1>3, <1>4, DraftStays DEF Moves

LEMMA WriteSumsInv ==
  ASSUME ReleaseInv, WriteSums
  PROVE  ReleaseInv'
<1> USE DEF ReleaseInv, WriteSums, AfterClaim, AfterApply, AfterNote, AfterFresh,
            Packing, Signed
<1>1. Moves("sums", "feed")
  BY ReleaseAssumption DEF Moves, At, Inside, Steps, cvars, outVars
<1>2. Typed'
  BY <1>1, MovesFacts DEF Typed, buildVars, cvars
<1>3. Claims'
  BY <1>1, MovesFacts, ReleaseAssumption DEF Claims, cvars
<1>4. Tree' /\ Packed' /\ Put'
  BY <1>1, MovesFacts DEF Tree, Packed, Put, buildVars, outVars
<1> QED
  BY <1>1, <1>2, <1>3, <1>4, DraftStays DEF Moves

LEMMA WriteFeedInv ==
  ASSUME ReleaseInv, WriteFeed
  PROVE  ReleaseInv'
<1> USE DEF ReleaseInv, WriteFeed, AfterClaim, AfterApply, AfterNote, AfterFresh,
            Packing, Signed
<1>1. Moves("feed", "draft")
  BY ReleaseAssumption DEF Moves, At, Inside, Steps, cvars, outVars
<1>2. Typed'
  BY <1>1, MovesFacts DEF Typed, buildVars, cvars
<1>3. Claims'
  BY <1>1, MovesFacts, ReleaseAssumption DEF Claims, cvars
<1>4. Tree'
  BY <1>1, MovesFacts DEF Typed, Tree, buildVars
<1>5. Packed'
  BY <1>1, MovesFacts DEF Packed, buildVars
<1>6. Put'
  BY <1>1, MovesFacts DEF Put, buildVars, outVars, KeyFits, Tree
<1> QED
  BY <1>1, <1>2, <1>3, <1>4, <1>5, <1>6, DraftStays DEF Moves

LEMMA ListsLeftInv ==
  ASSUME ReleaseInv, Inside("lists"), LeaveStep("note"), UNCHANGED buildVars
  PROVE  ReleaseInv'
<1> USE DEF ReleaseInv, LeaveStep, End, AfterClaim, AfterApply, AfterNote, AfterFresh,
            Packing, Signed
<1>1. Moves("lists", "note")
  BY ReleaseAssumption DEF Moves, At, Inside, Steps, cvars, outVars
<1>2. Typed'
  BY <1>1, MovesFacts DEF Typed, buildVars, cvars
<1>3. Claims'
  BY <1>1, MovesFacts, ReleaseAssumption DEF Claims, cvars
<1>4. Tree' /\ Packed' /\ Put'
  BY <1>1, MovesFacts DEF Tree, Packed, Put, buildVars, outVars
<1> QED
  BY <1>1, <1>2, <1>3, <1>4, DraftStays DEF Moves

LEMMA SmokeLeftSigningInv ==
  ASSUME ReleaseInv, Inside("smoke"), LeaveStep("sign"), UNCHANGED buildVars
  PROVE  ReleaseInv'
<1> USE DEF ReleaseInv, LeaveStep, End, AfterClaim, AfterApply, AfterNote, AfterFresh,
            Packing, Signed
<1>1. Moves("smoke", "sign")
  BY ReleaseAssumption DEF Moves, At, Inside, Steps, cvars, outVars
<1>2. Typed'
  BY <1>1, MovesFacts DEF Typed, buildVars, cvars
<1>3. Claims'
  BY <1>1, MovesFacts, ReleaseAssumption DEF Claims, cvars
<1>4. Tree' /\ Packed' /\ Put'
  BY <1>1, MovesFacts DEF Tree, Packed, Put, buildVars, outVars
<1> QED
  BY <1>1, <1>2, <1>3, <1>4, DraftStays DEF Moves

LEMMA SmokeLeftPackageInv ==
  ASSUME ReleaseInv, Inside("smoke"), ~rel.signing, LeaveStep("package"), UNCHANGED buildVars
  PROVE  ReleaseInv'
<1> USE DEF ReleaseInv, LeaveStep, End, AfterClaim, AfterApply, AfterNote, AfterFresh,
            Packing, Signed
<1>1. Moves("smoke", "package")
  BY ReleaseAssumption DEF Moves, At, Inside, Steps, cvars, outVars
<1>2. Typed'
  BY <1>1, MovesFacts DEF Typed, buildVars, cvars
<1>3. Claims'
  BY <1>1, MovesFacts, ReleaseAssumption DEF Claims, cvars
<1>4. Tree' /\ Packed' /\ Put'
  BY <1>1, MovesFacts DEF Tree, Packed, Put, buildVars, outVars
<1> QED
  BY <1>1, <1>2, <1>3, <1>4, DraftStays DEF Moves

LEMMA PickedSigningInv ==
  ASSUME ReleaseInv, At("pick"), GoTo("signInstaller"),
         UNCHANGED <<cvars, buildVars, outVars, jobs>>
  PROVE  ReleaseInv'
<1> USE DEF ReleaseInv, At, AfterClaim, AfterApply, AfterNote, AfterFresh, Packing,
            Signed
<1>1. Moves("pick", "signInstaller")
  BY ReleaseAssumption DEF Moves, At, Inside, Steps, cvars, outVars
<1>2. Typed'
  BY <1>1, MovesFacts DEF Typed, buildVars, cvars
<1>3. Claims'
  BY <1>1, MovesFacts, ReleaseAssumption DEF Claims, cvars
<1>4. Tree' /\ Packed' /\ Put'
  BY <1>1, MovesFacts DEF Tree, Packed, Put, buildVars, outVars
<1> QED
  BY <1>1, <1>2, <1>3, <1>4, DraftStays DEF Moves

LEMMA PickedPlainInv ==
  ASSUME ReleaseInv, At("pick"), ~rel.signing, GoTo("name"),
         UNCHANGED <<cvars, buildVars, outVars, jobs>>
  PROVE  ReleaseInv'
<1> USE DEF ReleaseInv, At, AfterClaim, AfterApply, AfterNote, AfterFresh, Packing,
            Signed
<1>1. Moves("pick", "name")
  BY ReleaseAssumption DEF Moves, At, Inside, Steps, cvars, outVars
<1>2. Typed'
  BY <1>1, MovesFacts DEF Typed, buildVars, cvars
<1>3. Claims'
  BY <1>1, MovesFacts, ReleaseAssumption DEF Claims, cvars
<1>4. Tree' /\ Packed' /\ Put'
  BY <1>1, MovesFacts DEF Tree, Packed, Put, buildVars, outVars
<1> QED
  BY <1>1, <1>2, <1>3, <1>4, DraftStays DEF Moves

LEMMA BuildBrowserInv ==
  ASSUME ReleaseInv, NEW ps \in SUBSET Parts, BuildBrowser(ps)
  PROVE  ReleaseInv'
<1> USE DEF ReleaseInv, BuildBrowser, LeaveStep, End, AfterClaim, AfterApply,
            AfterNote, AfterFresh, Packing, Signed
<1>1. Moves("build", "fresh")
  BY ReleaseAssumption DEF Moves, At, Inside, Steps, cvars, outVars
<1>2. Typed'
  BY <1>1, MovesFacts DEF Typed, buildVars, cvars, Ninja, Relinked, Binaries, Binary
<1>3. Claims'
  BY <1>1, MovesFacts, ReleaseAssumption DEF Claims, cvars
<1>4. Tree'
  <2>1. source = JobSource /\ \A q \in Parts : q \in newer => bin[q].of = JobSource
    BY <1>1, MovesFacts DEF Tree
  <2>2. \A q \in Parts : q \in newer' <=> q \in newer \/ q \in ps
    BY ReleaseAssumption DEF Ninja
  <2>3. source' = source /\ mini' = bin'
    BY DEF Ninja
  <2>4. \A q \in Parts : q \in newer' => bin'[q].of = JobSource
    BY <2>1, <2>2 DEF Ninja, Relinked
  <2> QED
    BY <1>1, MovesFacts, <2>1, <2>3, <2>4 DEF Tree
<1>5. Packed'
  BY <1>1, MovesFacts DEF Packed, buildVars, Ninja
<1>6. Put'
  BY <1>1, MovesFacts DEF Put, buildVars, outVars, Ninja
<1> QED
  BY <1>1, <1>2, <1>3, <1>4, <1>5, <1>6, DraftStays DEF Moves

LEMMA MakeDraftInv ==
  ASSUME ReleaseInv, MakeDraft
  PROVE  ReleaseInv'
<1> USE DEF ReleaseInv, MakeDraft
<1>1. /\ rel.at = "draft" /\ clock < rel.start + JobTime
      /\ rel' \in Jobs /\ rel'.at = "back" /\ rel'.start = rel.start
  BY GoesTo DEF At, Typed, Steps
<1>2. Typed'
  BY <1>1 DEF Typed, buildVars, cvars
<1>3. DraftIsOneBuild'
  <2> DEFINE d == draft'.files
  <2>1. d = dist /\ draft'.signing = rel.signing /\ draft'.allow = rel.allow
    OBVIOUS
  <2>2. /\ d.installer = pkg.installer /\ d.zip = pkg.zip
        /\ d.sums = <<d.installer, d.zip>>
        /\ d.feed.over = d.installer /\ d.feed.key = UpdateKey[JobSource]
    BY <1>1, <2>1 DEF Put, During
  <2>3. /\ pkg.installer.parts = bin /\ pkg.zip = bin
        /\ rel.signing => pkg.installer.signed
    BY <1>1 DEF Packed, During, Packing, Signed
  <2>4. /\ rel.allow \/ \A p \in Parts : bin[p].of = JobSource
        /\ rel.signing => \A p \in Parts : bin[p].signed
    BY <1>1 DEF Tree, During, Packing, AfterFresh
  <2> HIDE DEF d
  <2>5. /\ d.zip = d.installer.parts
        /\ ~draft'.allow => \A p \in Parts :
             d.zip[p].of = JobSource /\ d.feed.key = UpdateKey[d.zip[p].of]
        /\ draft'.signing => d.installer.signed /\ \A p \in Parts : d.zip[p].signed
    BY <2>1, <2>2, <2>3, <2>4
  <2> QED
    BY <2>2, <2>5 DEF DraftIsOneBuild, d
<1> QED
  BY <1>1, <1>2, <1>3, AwayInv DEF Away

LEMMA StartReleaseInv ==
  ASSUME ReleaseInv, NEW allow \in BOOLEAN, NEW signing \in BOOLEAN,
         NEW asked \in {Version[s] : s \in Sources}, NEW key \in {UpdateKey[s] : s \in Sources},
         StartRelease(allow, signing, asked, key)
  PROVE  ReleaseInv'
<1> USE DEF ReleaseInv, StartRelease
<1>1. rel' \in Jobs /\ rel'.at = "take"
  BY ReleaseAssumption DEF Jobs, Steps, Typed
<1>2. Typed' /\ DraftIsOneBuild'
  BY <1>1, DraftStays DEF Typed, buildVars, cvars, outVars
<1> QED
  BY <1>1, <1>2, AwayInv DEF Away

LEMMA TakeTreeInv ==
  ASSUME ReleaseInv, TakeTree
  PROVE  ReleaseInv'
<1> USE DEF ReleaseInv, TakeTree
<1>1. rel' \in Jobs /\ rel'.at = "claim" /\ rel'.start = rel.start /\ user' = "release"
  BY GoesTo DEF Typed, Steps, Begin
<1>2. Typed' /\ DraftIsOneBuild'
  BY <1>1, DraftStays DEF Typed, buildVars, outVars, Begin
<1> QED
  BY <1>1, <1>2, AwayInv DEF Away

LEMMA ClaimTreeInv ==
  ASSUME ReleaseInv, ClaimTree
  PROVE  ReleaseInv'
<1> USE DEF ReleaseInv, ClaimTree
<1>1. /\ rel' \in Jobs /\ rel'.at = "claimed" /\ rel'.start = rel.start
      /\ clock' = clock /\ user' = "release"
  BY GoesTo DEF Typed, Steps, Note, Inside
<1>2. Typed' /\ DraftIsOneBuild'
  BY <1>1, DraftStays, ReleaseAssumption DEF Typed, buildVars, outVars, Lease
<1>3. Claims'
  <2>1. /\ clock < rel.start + JobTime /\ rel.at = "claim" /\ rel.start \in Nat /\ clock \in Nat
        /\ JobTime \in Nat
    BY ReleaseAssumption DEF Inside, At, Typed, Jobs
  <2>2. claim'.owner = "release" /\ claim'.expires = clock + JobTime
    BY DEF Lease
  <2>3. rel.start <= clock
    BY DEF Typed
  <2> QED
    BY <1>1, <2>1, <2>2, <2>3 DEF Claims, During, AfterClaim, AfterApply, AfterNote, AfterFresh,
       Packing
<1>4. Tree' /\ Packed' /\ Put'
  BY <1>1 DEF Tree, Packed, Put, During, AfterApply, AfterNote, AfterFresh, Packing, Signed
<1> QED
  BY <1>2, <1>3, <1>4

LEMMA EnterStepInv ==
  ASSUME ReleaseInv, EnterStep
  PROVE  ReleaseInv'
<1> USE DEF ReleaseInv, EnterStep, Begin
<1>1. Typed' /\ DraftIsOneBuild'
  BY DraftStays DEF Typed, buildVars, outVars
<1>2. Claims'
  BY DEF Claims, During
<1>3. Tree' /\ Packed' /\ Put'
  BY DEF Tree, Packed, Put, During, buildVars, outVars
<1> QED
  BY <1>1, <1>2, <1>3

-----------------------------------------------------------------------------
(* The end of the job, and the other user. *)

LEMMA ReleaseFailsInv ==
  ASSUME ReleaseInv, ReleaseFails
  PROVE  ReleaseInv'
<1> USE DEF ReleaseInv, ReleaseFails
<1>1. rel' \in Jobs /\ rel'.at = "back" /\ rel'.start = rel.start
  BY GoesTo DEF Typed, Steps
<1>2. Typed' /\ DraftIsOneBuild'
  BY <1>1, DraftStays DEF Typed, buildVars, outVars
<1> QED
  BY <1>1, <1>2, AwayInv DEF Away

LEMMA NoJobFacts == NoJob \in Jobs /\ NoJob.at = "idle" /\ NoJob.start = 0
BY DEF NoJob, Jobs, Steps

LEMMA RelinkedTyped ==
  ASSUME Typed, NEW ps \in SUBSET Parts
  PROVE  Relinked(ps) \in Binaries
BY DEF Relinked, Typed, Binaries, Binary

LEMMA RunnerDiesInv ==
  ASSUME ReleaseInv, RunnerDies
  PROVE  ReleaseInv'
<1> USE DEF ReleaseInv, RunnerDies
<1>1. rel' \in Jobs /\ rel'.at = "idle" /\ rel'.start = 0
  BY NoJobFacts
<1>2. source' \in Sources /\ bin' \in Binaries /\ mini' \in Binaries /\ pkg' \in Packages
  BY RelinkedTyped, ReleaseAssumption DEF Typed, buildVars
<1>3. Typed' /\ DraftIsOneBuild'
  BY <1>1, <1>2, DraftStays DEF Typed, outVars
<1> QED
  BY <1>1, <1>3, AwayInv DEF Away

LEMMA GivingBackInv ==
  ASSUME ReleaseInv, AskTreeBack \/ GiveTreeBack
  PROVE  ReleaseInv'
<1> USE DEF ReleaseInv, AskTreeBack, GiveTreeBack
<1>1. /\ rel' \in Jobs /\ rel'.at \in {"idle", "backing"}
      /\ rel'.start \in {0, rel.start}
  BY NoJobFacts, GoesTo DEF Typed, Steps
<1>2. Typed' /\ DraftIsOneBuild'
  BY <1>1, DraftStays DEF Typed, buildVars, outVars, cvars, AskBack, GiveBack, LeaveIt,
     NoClaim
<1> QED
  BY <1>1, <1>2, AwayInv DEF Away

LEMMA OtherBeginsInv ==
  ASSUME ReleaseInv, OtherBegins
  PROVE  ReleaseInv'
<1> USE DEF ReleaseInv, OtherBegins, Begin
<1>1. Typed' /\ DraftIsOneBuild'
  BY DraftStays DEF Typed, buildVars, outVars
<1>2. Claims'
  <2>1. rel.at \notin {"claim", "claimed"}
    BY ReleaseAssumption DEF Claims
  <2>2. ASSUME During(AfterClaim)
        PROVE  FALSE
    <3>1. claim.owner = "release" /\ claim.expires >= rel.start + JobTime
      BY <2>2 DEF Claims, During
    <3>2. clock < claim.expires
      BY <2>2, <3>1, ReleaseAssumption DEF During, Typed, Jobs
    <3> QED
      BY <3>1, <3>2 DEF Stands
  <2> QED
    BY <2>1, <2>2 DEF Claims, During
<1>3. Tree' /\ Packed' /\ Put'
  BY DEF Tree, Packed, Put, During, buildVars, outVars
<1> QED
  BY <1>1, <1>2, <1>3

LEMMA OtherWorksInv ==
  ASSUME ReleaseInv, OtherWorks
  PROVE  ReleaseInv'
<1> USE DEF ReleaseInv, OtherWorks
<1>1. ~During(AfterClaim)
  BY DEF Claims
<1>2. UNCHANGED <<rel, clock, user, claim, draft>>
  BY DEF cvars, outVars
<1>3. Typed'
  <2>1. source' \in Sources /\ bin' \in Binaries /\ mini' \in Binaries
    BY RelinkedTyped DEF Typed, Ninja
  <2>2. PackageOf \in Packages
    BY DEF Typed, PackageOf, Packages, Installers
  <2>3. pkg' \in Packages
    BY <2>2 DEF Typed, Ninja
  <2> QED
    BY <1>2, <2>1, <2>3 DEF Typed
<1>4. Claims'
  BY <1>2 DEF Claims, During
<1>5. Tree' /\ Packed' /\ Put'
  BY <1>1, <1>2 DEF Tree, Packed, Put, During, AfterClaim, AfterApply, AfterNote, AfterFresh,
     Packing, Signed
<1>6. DraftIsOneBuild'
  BY <1>2, DraftStays
<1> QED
  BY <1>3, <1>4, <1>5, <1>6

LEMMA OtherEndsInv ==
  ASSUME ReleaseInv, OtherEnds
  PROVE  ReleaseInv'
<1> USE DEF ReleaseInv, OtherEnds, End
<1>1. Typed' /\ DraftIsOneBuild'
  BY DraftStays DEF Typed, buildVars, outVars
<1>2. Claims'
  BY ReleaseAssumption DEF Claims, During
<1>3. Tree' /\ Packed' /\ Put'
  BY DEF Tree, Packed, Put, During, buildVars, outVars
<1> QED
  BY <1>1, <1>2, <1>3

LEMMA TimePassesInv ==
  ASSUME ReleaseInv, TimePasses
  PROVE  ReleaseInv'
<1> USE DEF ReleaseInv, TimePasses, ClockRuns
<1>1. Typed' /\ DraftIsOneBuild'
  BY DraftStays DEF Typed, Jobs, buildVars, outVars
<1>2. ASSUME NEW S, During(S)'
      PROVE  During(S)
  BY <1>2, ReleaseAssumption DEF During, Typed, Jobs
<1>3. Claims'
  BY <1>2 DEF Claims
<1>4. Tree' /\ Packed' /\ Put'
  BY <1>2 DEF Tree, Packed, Put, buildVars, outVars
<1> QED
  BY <1>1, <1>3, <1>4

LEMMA ReleaseInvInit == ReleaseInit => ReleaseInv
<1> SUFFICES ASSUME ReleaseInit PROVE ReleaseInv
  OBVIOUS
<1>1. rel \in Jobs /\ rel.at = "idle" /\ rel.start = 0
  BY NoJobFacts DEF ReleaseInit
<1>2. bin \in Binaries /\ mini \in Binaries /\ pkg \in Packages
  <2>1. PICK s \in Sources, signed \in BOOLEAN :
          LET bs == [p \in Parts |-> [of |-> s, signed |-> signed]] IN
          /\ bin = bs /\ mini = bs
          /\ pkg = [installer |-> [parts |-> bs, signed |-> signed], zip |-> bs]
    BY DEF ReleaseInit
  <2>2. bin \in Binaries
    BY <2>1 DEF Binaries, Binary
  <2> QED
    BY <2>1, <2>2 DEF Packages, Installers
<1>3. claim.expires = 0
  BY DEF ReleaseInit, ClaimInit, NoClaim
<1>4. Typed
  BY <1>1, <1>2, <1>3 DEF ReleaseInit, Typed
<1>5. Claims /\ Tree /\ Packed /\ Put
  BY <1>1 DEF Claims, Tree, Packed, Put, During, AfterClaim, AfterApply, AfterNote,
     AfterFresh, Packing, Signed
<1> QED
  BY <1>4, <1>5 DEF ReleaseInv, ReleaseInit, DraftIsOneBuild

LEMMA ReleaseRests == ReleaseInv /\ UNCHANGED releaseVars => ReleaseInv'
<1> SUFFICES ASSUME ReleaseInv, UNCHANGED releaseVars PROVE ReleaseInv'
  OBVIOUS
<1> USE DEF ReleaseInv, releaseVars, cvars, buildVars, outVars
<1>1. Typed' /\ Claims' /\ DraftIsOneBuild'
  BY DraftStays DEF Typed, Claims, During
<1>2. Tree' /\ Packed' /\ Put'
  BY DEF Tree, Packed, Put, During
<1> QED
  BY <1>1, <1>2

LEMMA ReleaseInvNext == ReleaseInv /\ [ReleaseNext]_releaseVars => ReleaseInv'
<1> SUFFICES ASSUME ReleaseInv, [ReleaseNext]_releaseVars PROVE ReleaseInv'
  OBVIOUS
<1>1. CASE PassStep
  BY <1>1, ListsLeftInv, SmokeLeftSigningInv, SmokeLeftPackageInv DEF PassStep
<1>2. CASE PickFiles
  BY <1>2, PickedSigningInv, PickedPlainInv DEF PickFiles
<1>3. CASE \E allow, signing \in BOOLEAN, asked \in {Version[s] : s \in Sources},
              key \in {UpdateKey[s] : s \in Sources} : StartRelease(allow, signing, asked, key)
  BY <1>3, StartReleaseInv
<1>4. CASE \E ps \in SUBSET Parts : BuildBrowser(ps)
  BY <1>4, BuildBrowserInv
<1>5. CASE TakeTree \/ ClaimTree \/ TreeClaimed \/ EnterStep \/ Apply \/ NoteStart
           \/ CheckFresh \/ CheckVersion \/ SignBinaries \/ Repack \/ Package
  BY <1>5, TakeTreeInv, ClaimTreeInv, TreeClaimedInv, EnterStepInv, ApplyInv, NoteStartInv,
     CheckFreshInv, CheckVersionInv, SignBinariesInv, RepackInv, PackageInv
<1>6. CASE SignInstaller \/ CheckSignatures \/ NameFiles \/ CopyInstaller \/ CopyZip
           \/ WriteSums \/ WriteFeed \/ MakeDraft
  BY <1>6, SignInstallerInv, CheckSignaturesInv, NameFilesInv, CopyInstallerInv, CopyZipInv,
     WriteSumsInv, WriteFeedInv, MakeDraftInv
<1>7. CASE ReleaseFails \/ RunnerDies \/ AskTreeBack \/ GiveTreeBack
           \/ OtherBegins \/ OtherWorks \/ OtherEnds \/ TimePasses
  BY <1>7, ReleaseFailsInv, RunnerDiesInv, GivingBackInv, OtherBeginsInv, OtherWorksInv,
     OtherEndsInv, TimePassesInv
<1> QED
  BY <1>1, <1>2, <1>3, <1>4, <1>5, <1>6, <1>7, ReleaseRests DEF ReleaseNext

\* However the steps of the job and of the other user of the tree fall, whatever fails
\* and however many jobs there are, a draft offers one build, of the job's source.
THEOREM DraftsAreOneBuild == ReleaseSpec => []DraftIsOneBuild
<1>1. ReleaseInv => DraftIsOneBuild
  BY DEF ReleaseInv
<1> QED
  BY <1>1, ReleaseInvInit, ReleaseInvNext, PTL DEF ReleaseSpec

-----------------------------------------------------------------------------
\* What the types say besides: the bounds, who is in the tree, and what is written.
Bounds ==
  /\ clock <= MaxClock
  /\ user \in Owners \cup {NoOwner}
  /\ claim.owner \in Owners \cup {NoOwner}
  /\ newer \subseteq Made
  /\ jobs \in 0..MaxJobs

LEMMA BoundsInit == ReleaseInit => Bounds
<1> SUFFICES ASSUME ReleaseInit PROVE Bounds
  OBVIOUS
<1>1. claim.owner = NoOwner /\ user = NoOwner
  BY DEF ReleaseInit, ClaimInit, NoClaim
<1>2. clock = 0 /\ jobs = 0 /\ newer = {} /\ MaxClock \in Nat /\ MaxJobs \in Nat
  BY ReleaseAssumption DEF ReleaseInit
<1> QED
  BY <1>1, <1>2 DEF Bounds

\* Only the clock moves it, and only up to its bound.
LEMMA ClockIsBounded ==
  ASSUME Typed, Bounds, ReleaseNext
  PROVE  clock' <= MaxClock
<1>1. CASE TimePasses
  BY <1>1, ReleaseAssumption DEF TimePasses, ClockRuns, Typed
<1>2. CASE ~TimePasses
  <2>1. clock' = clock
    <3> USE DEF cvars, LeaveStep, End, Begin
    <3>1. CASE \E allow, signing \in BOOLEAN, asked \in {Version[s] : s \in Sources},
                  key \in {UpdateKey[s] : s \in Sources} :
                    StartRelease(allow, signing, asked, key)
      BY <3>1 DEF StartRelease
    <3>2. CASE TakeTree \/ ClaimTree \/ TreeClaimed \/ EnterStep
      BY <3>2 DEF TakeTree, ClaimTree, TreeClaimed, EnterStep, Note
    <3>3. CASE Apply \/ PassStep \/ NoteStart \/ CheckFresh \/ CheckVersion
      BY <3>3 DEF Apply, PassStep, NoteStart, CheckFresh, CheckVersion
    <3>4. CASE \E ps \in SUBSET Parts : BuildBrowser(ps)
      BY <3>4 DEF BuildBrowser
    <3>5. CASE SignBinaries \/ Repack \/ Package \/ PickFiles \/ SignInstaller
               \/ CheckSignatures
      BY <3>5 DEF SignBinaries, Repack, Package, PickFiles, SignInstaller, CheckSignatures
    <3>6. CASE NameFiles \/ CopyInstaller \/ CopyZip \/ WriteSums \/ WriteFeed \/ MakeDraft
      BY <3>6 DEF NameFiles, CopyInstaller, CopyZip, WriteSums, WriteFeed, MakeDraft
    <3>7. CASE ReleaseFails \/ RunnerDies
      BY <3>7 DEF ReleaseFails, RunnerDies
    <3>8. CASE AskTreeBack \/ GiveTreeBack
      BY <3>8 DEF AskTreeBack, GiveTreeBack, AskBack, GiveBack, LeaveIt
    <3>9. CASE OtherBegins \/ OtherWorks \/ OtherEnds
      BY <3>9 DEF OtherBegins, OtherWorks, OtherEnds
    <3> QED
      BY <1>2, <3>1, <3>2, <3>3, <3>4, <3>5, <3>6, <3>7, <3>8, <3>9 DEF ReleaseNext
  <2> QED
    BY <2>1 DEF Bounds
<1> QED
  BY <1>1, <1>2

LEMMA BoundsNext == ReleaseInv /\ Bounds /\ [ReleaseNext]_releaseVars => Bounds'
<1> SUFFICES ASSUME ReleaseInv, Bounds, [ReleaseNext]_releaseVars PROVE Bounds'
  OBVIOUS
<1>1. CASE UNCHANGED releaseVars
  BY <1>1 DEF releaseVars, cvars, buildVars, Bounds
<1>2. CASE ReleaseNext
  <2>1. clock' <= MaxClock
    BY <1>2, ClockIsBounded DEF ReleaseInv
  <2> DEFINE Rest == /\ user' \in Owners \cup {NoOwner}
                     /\ claim'.owner \in Owners \cup {NoOwner}
                     /\ newer' \subseteq Made
                     /\ jobs' \in 0..MaxJobs
  <2>2. Rest
    <3> USE ReleaseAssumption DEF Bounds, cvars, buildVars, outVars, LeaveStep, End, Begin
    <3>0. NoClaim.owner = NoOwner
      BY DEF NoClaim
    <3>1. CASE \E allow, signing \in BOOLEAN, asked \in {Version[s] : s \in Sources},
                  key \in {UpdateKey[s] : s \in Sources} :
                    StartRelease(allow, signing, asked, key)
      BY <3>1 DEF StartRelease
    <3>2. CASE TakeTree \/ TreeClaimed \/ EnterStep
      BY <3>2 DEF TakeTree, TreeClaimed, EnterStep
    <3>3. CASE ClaimTree
      BY <3>3 DEF ClaimTree, Note
    <3>4. CASE Apply \/ PassStep \/ NoteStart \/ CheckFresh \/ CheckVersion
      BY <3>4 DEF Apply, PassStep, NoteStart, CheckFresh, CheckVersion
    <3>5. CASE \E ps \in SUBSET Parts : BuildBrowser(ps)
      BY <3>5 DEF BuildBrowser, Ninja, Made
    <3>6. CASE SignBinaries \/ Repack \/ Package
      BY <3>6 DEF SignBinaries, Repack, Package, Ninja, Made
    <3>7. CASE PickFiles \/ SignInstaller \/ CheckSignatures
      BY <3>7 DEF PickFiles, SignInstaller, CheckSignatures
    <3>8. CASE NameFiles \/ CopyInstaller \/ CopyZip \/ WriteSums \/ WriteFeed \/ MakeDraft
      BY <3>8 DEF NameFiles, CopyInstaller, CopyZip, WriteSums, WriteFeed, MakeDraft
    <3>9. CASE ReleaseFails \/ RunnerDies
      BY <3>9 DEF ReleaseFails, RunnerDies, LetGo, Made
    <3>10. CASE AskTreeBack \/ GiveTreeBack
      BY <3>10, <3>0 DEF AskTreeBack, GiveTreeBack, AskBack, GiveBack, LeaveIt
    <3>11. CASE OtherBegins \/ OtherEnds \/ TimePasses
      BY <3>11 DEF OtherBegins, OtherEnds, TimePasses, ClockRuns
    <3>12. CASE OtherWorks
      BY <3>12 DEF OtherWorks, Ninja, Made
    <3> QED
      BY <1>2, <3>1, <3>2, <3>3, <3>4, <3>5, <3>6, <3>7, <3>8, <3>9, <3>10, <3>11, <3>12
         DEF ReleaseNext
  <2> QED
    BY <2>1, <2>2 DEF Bounds
<1> QED
  BY <1>1, <1>2

LEMMA ReleaseIsTyped == ReleaseInv /\ Bounds => ReleaseTypeOK
<1> SUFFICES ASSUME ReleaseInv, Bounds PROVE ReleaseTypeOK
  OBVIOUS
<1>1. rel.at \in Steps /\ rel.start \in Nat /\ rel.start <= clock /\ clock \in Nat
  BY DEF ReleaseInv, Typed, Jobs
<1>2. clock \in 0..MaxClock /\ rel.start \in 0..MaxClock
  BY <1>1, ReleaseAssumption DEF Bounds
<1> QED
  BY <1>1, <1>2 DEF ReleaseInv, Typed, Bounds, ReleaseTypeOK, Packages, Installers, Installer

\* The variables of the release job keep their types and their bounds.
THEOREM ReleaseTypeCorrect == ReleaseSpec => []ReleaseTypeOK
<1> QED
  BY ReleaseInvInit, ReleaseInvNext, BoundsInit, BoundsNext, ReleaseIsTyped, PTL
     DEF ReleaseSpec
=============================================================================
