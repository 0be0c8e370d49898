----------------------------- MODULE SourceTree -----------------------------
(***************************************************************************)
(* One Chromium tree that several branches build in, in turn:              *)
(* tools/clean_tree.py, tools/apply.py and its --restore, tools/rebrand.py *)
(* and the store of originals, tools/pristine.py.  They run one at a time  *)
(* (JobLock), and any of them can be killed between two writes or in one.  *)
(*                                                                         *)
(* A text is what a file holds at each of a few places; a patch says for   *)
(* every file it touches what must be there (from) and what is there       *)
(* afterwards (to), and `git apply' checks all files before it changes     *)
(* any.  Ungoogled-chromium's own changes are part of the original.        *)
(*                                                                         *)
(* A branch is one state of a checkout's patches: edited, they are another *)
(* branch, and so are patches in its folder that its series does not name. *)
(***************************************************************************)
EXTENDS Naturals, Sequences, FiniteSetsExt

CONSTANTS
  Files, Places, Branches,
  Original,    \* file -> text, Absent where Chromium has none
  Series,      \* branch -> its patches, in the order of patches/series
  Overlay,     \* branch -> the files of its chromium_src, with their texts
  Branded,     \* the files that rebrand.py rewrites
  StringFiles, \* those of them that clean_tree.py leaves to it
  Substituted, \* the files ungoogled-chromium changes: HEAD is not the original
  Listed,      \* those of them on its domain_substitution.list
  Sights,      \* sets of branches whose patches clean_tree.py may find
  FirstStore,  \* the files snapshot.py may have saved before the first run
  MaxSeries,   \* the longest series
  MaxRuns,     \* bound on the tools started
  Torn, Renamed, NoBranch

VARIABLES
  tree,    \* file -> text
  store,   \* file -> the copy in the pristine store, Absent where there is none
  boring,  \* whose components/boring is in the tree
  job,     \* the tool that is running
  ready,   \* the branch that the tree was made ready for, or holds
  last,    \* how the last tool ended
  runs,
  spoilt   \* History: the store may have got what is not an original

treeVars == <<tree, store, boring, job, ready, last, runs, spoilt>>

-----------------------------------------------------------------------------
(* Texts and patches *)

\* What a file that is not there holds.
Absent == [s \in {} |-> s]

Touched(patch) == DOMAIN patch
Created(patch) == {f \in Touched(patch) : patch[f].from = Absent}

Holds(text, part) ==
  IF part = Absent \/ text = Absent THEN part = text
  ELSE \A s \in DOMAIN part : text[s] = part[s]

\* The text once `from' has become `to'.
Edited(text, to) ==
  IF to = Absent \/ text = Absent THEN to
  ELSE [s \in Places |-> IF s \in DOMAIN to THEN to[s] ELSE text[s]]

Fits(texts, patch, fs) == \A f \in fs : Holds(texts[f], patch[f].from)
IsIn(texts, patch, fs) == \A f \in fs : Holds(texts[f], patch[f].to)

Apply(texts, patch, fs) ==
  [f \in Files |-> IF f \in fs THEN Edited(texts[f], patch[f].to) ELSE texts[f]]
Reverse(texts, patch, fs) ==
  [f \in Files |-> IF f \in fs THEN Edited(texts[f], patch[f].from) ELSE texts[f]]

Unreadable == [s \in Places |-> Torn]
Rebranded == [s \in Places |-> Renamed]

PatchesOf(b, f) == {i \in 1..Len(Series[b]) : f \in Touched(Series[b][i])}
ByFile(b) == {f \in Files : PatchesOf(b, f) # {}}
OverlayFiles(b) == DOMAIN Overlay[b]
Ours(bs) == UNION {ByFile(b) : b \in bs}
OfOthers(b) == Ours(Branches \ {b})

\* The patches up to the n-th that change a place of a file, and what the first n
\* make of a text: at every place the last of them has the say.
ChangersAt(b, f, s, n) == {i \in PatchesOf(b, f) : i <= n /\ s \in DOMAIN Series[b][i][f].to}
Patched(b, f, text, n) ==
  IF \A i \in PatchesOf(b, f) : i > n THEN text
  ELSE [s \in Places |->
          IF ChangersAt(b, f, s, n) = {} THEN text[s]
          ELSE Series[b][Max(ChangersAt(b, f, s, n))][f].to[s]]
GoOn(b, f, text) ==
  \A i \in PatchesOf(b, f) : Holds(Patched(b, f, text, i - 1), Series[b][i][f].from)

\* What apply.py starts its patches from, and what a build is to find in the tree.
Unpatched(b) ==
  [f \in Files |-> IF f \in OverlayFiles(b) THEN Overlay[b][f]
                   ELSE IF f \in Branded THEN Rebranded
                   ELSE Original[f]]
Wanted(b) == [f \in Files |-> Patched(b, f, Unpatched(b)[f], Len(Series[b]))]

\* A file that ungoogled-chromium changes, so that no tool has its original, and that
\* our patches change in different ways, or that clean_tree.py does not look at.
Contested ==
  {f \in Substituted : \E b, c \in Branches :
     \E i \in PatchesOf(b, f), j \in PatchesOf(c, f) :
       f \notin Listed \/ Series[b][i][f] # Series[c][j][f]}

\* The text of a whole file.  A patch makes a file as a whole, or changes some places
\* of one; none takes a file away, which `touched' would not see.
IsText(text) == text = Absent \/ text = [s \in Places |-> text[s]]
IsPatch(patch) ==
  \A f \in Touched(patch) :
    /\ f \in Files
    /\ DOMAIN patch[f].to # {} /\ DOMAIN patch[f].to \subseteq Places
    /\ IF patch[f].from = Absent THEN IsText(patch[f].to)
       ELSE DOMAIN patch[f].from = DOMAIN patch[f].to

\* A branch's series goes on over Chromium's files.  It does not patch the copies it
\* lays over the tree, nor lay one over a file that ungoogled-chromium changes, and it
\* leaves the files that rebrand.py rewrites to it.
ASSUME TreeAssumption ==
  /\ {MaxRuns, MaxSeries} \subseteq Nat
  /\ Places # {}
  /\ DOMAIN Original = Files /\ \A f \in Files : IsText(Original[f])
  /\ StringFiles \subseteq Branded /\ Branded \cup Substituted \subseteq Files
  /\ Listed \subseteq Substituted
  /\ Sights \subseteq SUBSET Branches
  /\ NoBranch \notin Branches
  /\ \A f \in FirstStore \cup Branded \cup Substituted : Original[f] # Absent
  /\ \A b \in Branches :
       /\ Len(Series[b]) \in 0..MaxSeries
       /\ \A i \in 1..Len(Series[b]) : IsPatch(Series[b][i])
       /\ \A f \in ByFile(b) : GoOn(b, f, Original[f])
       /\ OverlayFiles(b) \subseteq Files \ (ByFile(b) \cup Branded \cup Substituted)
       /\ \A f \in OverlayFiles(b) : IsText(Overlay[b][f]) /\ Overlay[b][f] # Absent
       /\ ByFile(b) \cap Branded = {}

-----------------------------------------------------------------------------
NoJob == [tool |-> "none", branch |-> NoBranch, at |-> "none", left |-> {},
          n |-> 0, pass |-> 0, again |-> FALSE, trees |-> {}, untried |-> {},
          undone |-> {}, unsure |-> {}, hidden |-> {}]

Ended == [tool |-> "none", branch |-> NoBranch, well |-> TRUE, unsure |-> {}, hidden |-> {}]

TreeInit ==
  /\ tree = Original
  /\ \E fs \in SUBSET FirstStore :
       store = [f \in Files |-> IF f \in fs THEN Original[f] ELSE Absent]
  /\ boring = NoBranch
  /\ job = NoJob
  /\ ready \in Branches
  /\ last = Ended
  /\ runs = 0
  /\ spoilt = FALSE

Ats == {"none", "sync", "overlay", "patches", "rebrand", "reverse", "copies",
        "seeds", "foreign", "created"}

TreeTypeOK ==
  /\ \A f \in Files : IsText(tree[f]) /\ IsText(store[f])
  /\ boring \in Branches \cup {NoBranch}
  /\ job.at \in Ats /\ job.left \subseteq Files /\ job.pass \in {0, 1}
  /\ ready \in Branches \cup {NoBranch}
  /\ runs \in 0..MaxRuns
  /\ spoilt \in BOOLEAN

Stored(f) == store[f] # Absent
InTool(tool, at) == job.tool = tool /\ job.at = at
MovesTo(at, fs) == job' = [job EXCEPT !.at = at, !.left = fs, !.n = 1, !.again = FALSE]
NextPatch == job' = [job EXCEPT !.n = @ + 1]
Finishes(well, b) ==
  /\ job' = NoJob
  /\ ready' = b
  /\ last' = [tool |-> job.tool, branch |-> job.branch, well |-> well,
              unsure |-> job.unsure, hidden |-> job.hidden]
GoesOn == UNCHANGED <<boring, ready, last, runs, spoilt>>

Succeeded(tool, b) == last.tool = tool /\ last.branch = b /\ last.well

Begins(tool, b, at, fs) ==
  /\ job = NoJob
  /\ runs < MaxRuns
  /\ runs' = runs + 1
  /\ job' = [NoJob EXCEPT !.tool = tool, !.branch = b, !.at = at, !.left = fs, !.n = 1,
                            !.unsure = IF tool = "apply" THEN last.unsure ELSE {},
                            !.hidden = IF tool # "clean" THEN last.hidden ELSE {}]
  /\ last' = Ended
  /\ UNCHANGED <<tree, store, boring, ready, spoilt>>

PutBack(fs) == tree' = [f \in Files |-> IF f \in fs THEN store[f] ELSE tree[f]]

-----------------------------------------------------------------------------
(* apply.py *)

\* In a tree that is shared, clean_tree.py comes first.
StartApply(b) == ready = b /\ Begins("apply", b, "sync", {})

\* build_rust(), sync_tree() and the generated files; each may fail.
Sync ==
  /\ InTool("apply", "sync")
  /\ \/ /\ boring' = job.branch /\ MovesTo("overlay", OverlayFiles(job.branch))
        /\ UNCHANGED <<ready, last>>
     \/ UNCHANGED boring /\ Finishes(FALSE, NoBranch)
  /\ UNCHANGED <<tree, store, runs, spoilt>>

\* snapshot(), and pristine.text(): the first time, the tree's copy is saved, even if
\* it is what a branch has left there that clean_tree.py did not know.
Snapshot(f) ==
  /\ job.at \in {"overlay", "rebrand"}
  /\ f \in job.left
  /\ ~Stored(f) /\ tree[f] # Absent
  /\ store' = [store EXCEPT ![f] = tree[f]]
  /\ spoilt' = (spoilt \/ f \in job.hidden)
  /\ UNCHANGED <<tree, boring, job, ready, last, runs>>

OverlayFile(f) ==
  /\ InTool("apply", "overlay")
  /\ f \in job.left
  /\ Stored(f) \/ tree[f] = Absent
  /\ tree' = [tree EXCEPT ![f] = Overlay[job.branch][f]]
  /\ job' = [job EXCEPT !.left = @ \ {f}]
  /\ UNCHANGED store /\ GoesOn

OverlaidAll ==
  /\ InTool("apply", "overlay")
  /\ job.left = {}
  /\ MovesTo("patches", {})
  /\ UNCHANGED <<tree, store>> /\ GoesOn

Patch == Series[job.branch][job.n]
Patching == InTool("apply", "patches") /\ job.n <= Len(Series[job.branch])

AlreadyApplied ==
  /\ Patching
  /\ IsIn(tree, Patch, Touched(Patch))
  /\ NextPatch
  /\ UNCHANGED <<tree, store>> /\ GoesOn

ApplyPatch ==
  /\ Patching
  /\ ~IsIn(tree, Patch, Touched(Patch)) /\ Fits(tree, Patch, Touched(Patch))
  /\ tree' = Apply(tree, Patch, Touched(Patch))
  /\ NextPatch
  /\ UNCHANGED store /\ GoesOn

\* A patch that is neither in nor goes on.  On the first pass its files are put
\* back, those that have an original in the store, and there is a second pass.
Rewound == {f \in Touched(Patch) : Stored(f)}
Stuck ==
  /\ Patching
  /\ ~IsIn(tree, Patch, Touched(Patch)) /\ ~Fits(tree, Patch, Touched(Patch))

Rewind ==
  /\ Stuck
  /\ job.pass = 0 /\ Rewound # {}
  /\ PutBack(Rewound)
  /\ job' = [job EXCEPT !.n = @ + 1, !.again = TRUE]
  /\ UNCHANGED store /\ GoesOn

FailToApply ==
  /\ Stuck
  /\ job.pass = 1 \/ Rewound = {}
  /\ Finishes(FALSE, NoBranch)
  /\ UNCHANGED <<tree, store, boring, runs, spoilt>>

PatchesEnd ==
  /\ InTool("apply", "patches")
  /\ job.n > Len(Series[job.branch])
  /\ IF job.again
     THEN job' = [job EXCEPT !.pass = 1, !.n = 1, !.again = FALSE]
     ELSE MovesTo("rebrand", Branded)
  /\ UNCHANGED <<tree, store>> /\ GoesOn

\* Always from the original; a text without the lines it knows stops rebrand.py.
Rebrand(f) ==
  /\ InTool("apply", "rebrand")
  /\ f \in job.left /\ Stored(f)
  /\ IF store[f] # Unreadable
     THEN /\ tree' = [tree EXCEPT ![f] = Rebranded]
          /\ job' = [job EXCEPT !.left = @ \ {f}]
          /\ UNCHANGED <<ready, last>>
     ELSE UNCHANGED tree /\ Finishes(FALSE, NoBranch)
  /\ UNCHANGED <<store, boring, runs, spoilt>>

ApplyEnds ==
  /\ InTool("apply", "rebrand")
  /\ job.left = {}
  /\ Finishes(TRUE, NoBranch)
  /\ UNCHANGED <<tree, store, boring, runs, spoilt>>

-----------------------------------------------------------------------------
(* apply.py --restore *)

StartRestore(b) == Succeeded("apply", b) /\ Begins("restore", b, "reverse", {})

\* A bug for the checks: the oldest patch is reversed first.
OldestFirst == Series[job.branch][job.n]
NewestFirst == Series[job.branch][Len(Series[job.branch]) + 1 - job.n]

\* Newest first; what does not reverse is left.
ReversePatch ==
  /\ InTool("restore", "reverse")
  /\ job.n <= Len(Series[job.branch])
  /\ tree' = IF IsIn(tree, NewestFirst, Touched(NewestFirst))
             THEN Reverse(tree, NewestFirst, Touched(NewestFirst)) ELSE tree
  /\ NextPatch
  /\ UNCHANGED store /\ GoesOn

ReverseEnds ==
  /\ InTool("restore", "reverse")
  /\ job.n > Len(Series[job.branch])
  /\ MovesTo("copies", {f \in Files : Stored(f)})
  /\ UNCHANGED <<tree, store>> /\ GoesOn

\* Also clean_tree.py's way of putting back what it has in its todo list.
CopyBack(f) ==
  /\ job.at = "copies"
  /\ f \in job.left
  /\ PutBack({f})
  /\ job' = [job EXCEPT !.left = @ \ {f}]
  /\ UNCHANGED store /\ GoesOn

RestoreEnds ==
  /\ InTool("restore", "copies")
  /\ job.left = {}
  /\ boring' = NoBranch
  /\ Finishes(TRUE, NoBranch)
  /\ UNCHANGED <<tree, store, runs, spoilt>>

-----------------------------------------------------------------------------
(* clean_tree.py *)

\* expected(): Absent if the patches do not go on.
Expected(b, f, base) ==
  IF GoOn(b, f, base) THEN Patched(b, f, base, Len(Series[b])) ELSE Absent

Want(b, f) ==
  LET base == IF f \in OverlayFiles(b) THEN Overlay[b][f] ELSE store[f]
  IN  IF PatchesOf(b, f) # {} THEN Expected(b, f, base) ELSE base

Differs(f) ==
  f \notin StringFiles /\ Stored(f) /\ tree[f] # Absent /\ store[f] # tree[f]

\* A bug for the checks: only the files that the branch's own patches touch.
UnexpectedOfOurs(b) ==
  {f \in ByFile(b) : Stored(f) /\ tree[f] # Absent /\ tree[f] # Want(b, f)}
Unexpected(b) ==
  {f \in Files \ StringFiles : Stored(f) /\ tree[f] # Absent /\ tree[f] # Want(b, f)}

\* Patches that lie on one another hide from apply.py that they are in.
Stacked(b) ==
  {f \in ByFile(b) :
     /\ Cardinality(PatchesOf(b, f)) > 1 /\ Differs(f)
     /\ \E i \in PatchesOf(b, f) : ~Holds(tree[f], Series[b][i][f].to)}

\* The rest of every patch that is to be redone.
RestOf(b, fs) ==
  fs \cup {f \in Files : Differs(f) /\ \E i \in DOMAIN Series[b] :
                           f \in Touched(Series[b][i]) /\ Touched(Series[b][i]) \cap fs # {}}

\* As long as a pass finds more: the smallest set to which no pass adds a file.
Todo(b) ==
  LET first == Unexpected(b) \cup Stacked(b)
      whole == {fs \in {first \cup more : more \in SUBSET {f \in Files : Differs(f)}} :
                  RestOf(b, fs) \subseteq fs}
  IN  {f \in Files : \A fs \in whole : f \in fs}

StartClean(b) ==
  /\ \E f \in Files : Stored(f)
  /\ Begins("clean", b, "copies", Todo(b))

\* Files that have no copy, but whose original git has, and that a branch patches whose
\* patches it finds: committed on any head, or in a worktree under .claude/worktrees.
\* They are put back too, unless this branch has a use for them.
Seeds(seen) == {f \in Ours(seen) \ (StringFiles \cup Substituted) :
                  ~Stored(f) /\ tree[f] # Absent /\ Original[f] # Absent}

\* History: files without a copy that another branch patches, unknown to the tool, as
\* those of a main checkout that are not committed.
Unfound(b, seen) == {f \in OfOthers(b) \ (Ours(seen) \cup Substituted) :
                       ~Stored(f) /\ Original[f] # Absent}

FindsOurs(seen) ==
  job' = [job EXCEPT !.at = "seeds", !.left = Seeds(seen), !.n = 1, !.again = FALSE,
                     !.hidden = Unfound(job.branch, seen)]

CopiedBack ==
  /\ InTool("clean", "copies")
  /\ job.left = {}
  /\ \E seen \in Sights : FindsOurs(seen)
  /\ UNCHANGED <<tree, store>> /\ GoesOn

\* A file that the branch patches stays as it was found: its patches have to fit.
Seed(f) ==
  /\ InTool("clean", "seeds")
  /\ f \in job.left
  /\ store' = [store EXCEPT ![f] = Original[f]]
  /\ tree' = IF f \in ByFile(job.branch) \cup OverlayFiles(job.branch) THEN tree
             ELSE [tree EXCEPT ![f] = Original[f]]
  /\ job' = [job EXCEPT !.left = @ \ {f}, !.unsure = @ \cup ({f} \cap ByFile(job.branch))]
  /\ GoesOn

\* On listed files the patches of the other worktrees that there are now come off, file by
\* file, in at most three passes over them, where git says that one reverses exactly.  Of
\* a branch that has no worktree any more they stay in: History.
Foreign(b, trees) ==
  {x \in (trees \ {b}) \X (1..MaxSeries) \X (Listed \ ByFile(b)) :
     x[2] <= Len(Series[x[1]]) /\ x[3] \in Touched(Series[x[1]][x[2]])}
Beyond(b, trees) ==
  {f \in (OfOthers(b) \cap Substituted) \ (ByFile(b) \cup Ours(trees \ {b})) : ~Stored(f)}

FindsForeign(trees) ==
  job' = [job EXCEPT !.at = "foreign", !.n = 1, !.again = FALSE, !.trees = trees,
                     !.untried = Foreign(job.branch, trees),
                     !.hidden = @ \cup Beyond(job.branch, trees)]

SeedsEnd ==
  /\ InTool("clean", "seeds")
  /\ job.left = {}
  /\ \E trees \in Sights : FindsForeign(trees)
  /\ UNCHANGED <<tree, store>> /\ GoesOn

TryForeign(c, i, f) ==
  /\ InTool("clean", "foreign")
  /\ <<c, i, f>> \in job.untried
  /\ IF IsIn(tree, Series[c][i], {f})
     THEN /\ tree' = Reverse(tree, Series[c][i], {f})
          /\ job' = [job EXCEPT !.untried = @ \ {<<c, i, f>>}, !.again = TRUE,
                                !.undone = @ \cup {<<c, i, f>>}]
     ELSE UNCHANGED tree /\ job' = [job EXCEPT !.untried = @ \ {<<c, i, f>>}]
  /\ UNCHANGED store /\ GoesOn

ForeignEnds ==
  /\ InTool("clean", "foreign")
  /\ job.untried = {}
  /\ IF job.again /\ job.n < 3
     THEN job' = [job EXCEPT !.n = @ + 1, !.again = FALSE,
                             !.untried = Foreign(job.branch, job.trees) \ job.undone]
     ELSE MovesTo("created", {})
  /\ UNCHANGED <<tree, store>> /\ GoesOn

\* New files of a patch, if one is missing or is another than the patch makes.
Stale(patch) ==
  LET made == {f \in Created(patch) : tree[f] # Absent}
  IN  IF made # Created(patch) \/ ~IsIn(tree, patch, made) THEN made ELSE {}

RemoveCreated ==
  /\ InTool("clean", "created")
  /\ job.n <= Len(Series[job.branch])
  /\ tree' = [f \in Files |-> IF f \in Stale(Patch) THEN Absent ELSE tree[f]]
  /\ NextPatch
  /\ UNCHANGED store /\ GoesOn

CleanEnds ==
  /\ InTool("clean", "created")
  /\ job.n > Len(Series[job.branch])
  /\ Finishes(TRUE, job.branch)
  /\ UNCHANGED <<tree, store, boring, runs, spoilt>>

-----------------------------------------------------------------------------
(* The tool is killed: between two writes, in a copy into the tree or into     *)
(* the store, or in git, which removes what a patch changes and then writes.   *)
(* A file that git has removed is passed over by clean_tree.py for ever, and    *)
(* half a copy in the store is taken for the original: `spoilt'.               *)

Killed == job' = NoJob /\ ready' = NoBranch /\ UNCHANGED <<boring, last, runs>>

KillBetween == job # NoJob /\ Killed /\ UNCHANGED <<tree, store, spoilt>>

KillInCopy(f) ==
  /\ f \in job.left
  /\ Stored(f) \/ (job.at = "overlay" /\ tree[f] = Absent)
  /\ tree' = [tree EXCEPT ![f] = Unreadable]
  /\ Killed /\ UNCHANGED <<store, spoilt>>

KillInSave(f) ==
  /\ f \in job.left
  /\ ~Stored(f) /\ tree[f] # Absent
  /\ store' = [store EXCEPT ![f] = Unreadable]
  /\ spoilt' = TRUE
  /\ Killed /\ UNCHANGED tree

\* Saved from git, and killed before or while it is put back.
KillInSeed(f) ==
  /\ InTool("clean", "seeds")
  /\ f \in job.left \ (ByFile(job.branch) \cup OverlayFiles(job.branch))
  /\ store' = [store EXCEPT ![f] = Original[f]]
  /\ tree' = tree \/ tree' = [tree EXCEPT ![f] = Unreadable]
  /\ Killed /\ UNCHANGED spoilt

Rewinding == IF Stuck /\ job.pass = 0 THEN Rewound ELSE {}
KillInRewind(fs) ==
  /\ fs # {}
  /\ PutBack(fs)
  /\ Killed /\ UNCHANGED <<store, spoilt>>

Changing ==
  IF Patching /\ ~IsIn(tree, Patch, Touched(Patch)) /\ Fits(tree, Patch, Touched(Patch))
  THEN Touched(Patch) ELSE {}

KillInGit(removed, written) ==
  /\ removed # {}
  /\ written # {} => removed = Changing
  /\ tree' = [f \in Files |-> IF f \in written THEN Edited(tree[f], Patch[f].to)
                              ELSE IF f \in removed THEN Absent ELSE tree[f]]
  /\ spoilt' = (spoilt \/ \E f \in Files : tree[f] # Absent /\ tree'[f] = Absent)
  /\ Killed /\ UNCHANGED store

TreeNext ==
  \/ \E b \in Branches : StartApply(b) \/ StartRestore(b) \/ StartClean(b)
  \/ Sync \/ OverlaidAll \/ AlreadyApplied \/ ApplyPatch \/ Rewind
  \/ FailToApply \/ PatchesEnd \/ ApplyEnds
  \/ ReversePatch \/ ReverseEnds \/ RestoreEnds
  \/ CopiedBack \/ SeedsEnd \/ ForeignEnds \/ RemoveCreated \/ CleanEnds
  \/ \E f \in Files : Snapshot(f) \/ OverlayFile(f) \/ Rebrand(f) \/ CopyBack(f) \/ Seed(f)
  \/ \E x \in job.untried : TryForeign(x[1], x[2], x[3])
  \/ KillBetween
  \/ \E f \in Files : KillInCopy(f) \/ KillInSave(f) \/ KillInSeed(f)
  \/ \E fs \in SUBSET Rewinding : KillInRewind(fs)
  \/ \E removed, written \in SUBSET Changing : KillInGit(removed, written)

TreeSpec == TreeInit /\ [][TreeNext]_treeVars

-----------------------------------------------------------------------------
(* Properties *)

\* The tree never quietly mixes two branches.  When clean_tree.py and apply.py have gone
\* through for a branch, every file that it wants is as it wants it: the overlay,
\* rebrand.py's text, or Chromium's with this branch's patches and no other's.  Left out
\* are contested files, whose original no tool has, those that clean_tree.py left as it
\* found them because it had had no original of them before, and those it could not know
\* that a branch patches whose patches it did not find.
BuildsOneBranch ==
  \A b \in Branches :
    Succeeded("apply", b) /\ ~spoilt =>
      /\ boring = b
      /\ \A f \in Files \ (Contested \cup last.unsure \cup last.hidden) :
           tree[f] = Wanted(b)[f] \/ Wanted(b)[f] = Absent

\* "So put back whatever it would trip on": after clean_tree.py has gone through, apply.py
\* does not fail, but for a file that was left as it was found, or whose branch was not.
CleanTreeTakesPatches ==
  [][FailToApply => spoilt \/ job.unsure # {} \/ job.hidden # {}]_treeVars

\* What the store holds of Chromium's files is what Chromium has there, whichever
\* branches built in the tree, and whatever was killed, but for a save, unless apply.py
\* lays its overlay on a file that was changed by a branch clean_tree.py did not find.
StoreIsOriginal ==
  ~spoilt =>
    \A f \in Files : Stored(f) => store[f] = Original[f] \/ Original[f] = Absent

\* --restore undoes every change to a file of Chromium's, the branch's own and what
\* branches before it left: what has a copy is put back and the copy is the original,
\* and what has none comes back by its patches alone, if clean_tree.py knew of every
\* branch that had changed it.
RestoreUndoes ==
  /\ StoreIsOriginal
  /\ \A b \in Branches :
       Succeeded("restore", b) /\ ~spoilt =>
         \A f \in Files \ (Contested \cup last.hidden) :
           tree[f] = Original[f] \/ Original[f] = Absent
=============================================================================
