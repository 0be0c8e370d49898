# Formal models of the Boring browser and its sync server

TLA+ models of the parts of this repository that keep state, with TLC
configurations that check them on small instances and proofs, checked by TLAPS,
that hold for every value of their constants. All line numbers refer to `src/`.

The repository holds a Chromium overlay (`boring-core`, C++ with some Python,
Rust and JavaScript), a standalone sync server (`sync-server`, Go) and assets.
There are four kinds of process in it: the browser process (a UI thread, a
sequence that loads blocking engines, and a pool of threads), the renderers, the
sync server (one goroutine per request), and the tools that build and publish
(Python, run by workflows and by hand).

## 1. Inventory

| Component | State | Operations | Interacts with |
|---|---|---|---|
| **List updater** `components/boring/lists` | `running_`, `asked_`, `all_saved_`, `local_`, `version_`, `wanted_`; the download folder and its last-check file | `MaybeCheck`, `LookAtWhatWeHave`, `OnManifest`, `OnManifestSignature`, `OnListDownloaded`, `SaveList`, `OnListSaved`, `RecordCheck` | update host (requests), thread pool (jobs), the folder, which every later run of the browser reads |
| **User lists and My filters** `adblock/custom_rules.cc` | preferences `kBoringUserLists`, `kBoringCustomRules`; `UserListFetcher`; a folder of copies | add, remove, refresh, download, save, delete | pool, load runner, preferences |
| **Ad blocking engines** `adblock/adblock_service.cc` | engines, wishes for engines, file times | `EnsureLoading`, `WantLists`, `EnginesFor`, loads | load runner, every thread that asks about a request, the updater's folder |
| **Request decisions** throttle, checker, alias lookup, redirect proxy | one request in flight, counts per page | check, defer, look up, redirect | renderer, browser and network threads, engines |
| **Blocked counts, off sites** | counts per tab, sites with blocking off | note, reset, toggle | request decisions, pages |
| **Scam protection** `scam/` | blocklist, allowed hosts of the session | load, check a navigation, proceed | the updater's folder, navigations |
| **Assistance** `assistance/` | one session over two tabs | capture, share, poll, show, stop | scripts in two tabs, Gemini's page |
| **AI summary** `ai/` | the page held, one request, what every tab shows | hold, ask, send, answer, cancel | preferences, network, the tabs of the settings page |
| **Sync server** `sync-server/server`, `store` | one file per chain: items, version, birthday | `Commit`, `Updates`, `Birthday`, `SetBirthday`, `Clear`; one goroutine per request | browsers (HTTP), the disk |
| **List build tools** `tools/get_*.py` | the output folder: lists, notices, an index, `sources.json` | fetch, prune, write, remove what lingers | list hosts; publisher and release job |
| **List publisher** `tools/publish_lists.py`, `lists.yml` | the bundle in hand, the assets of the release | fetch what is published, build, check, sign, upload | update host, which the list updater reads |
| **Build lock** `tools/joblock.py` | lock and holder files | run under the lock, claim, release, status | other jobs |
| **Patch tools** `tools/apply.py`, `clean_tree.py`, `pristine.py`, `rebrand.py` | the source tree, the store of originals | apply, restore, clean | git, one another, on one tree |
| **Release job** `release.yml` and its tools | the build output, the package, the feed, the draft | the steps of the workflow | build lock, another user of the tree |
| **Test foreground lock** `tools/focus_lock.py` | holders, the keeper thread | hold, keep, release | tests, the person at the machine |
| Takeover and phone helpers, idle tabs, guards, privacy rewrites, popunder throttle, browser updater, protection page, element picker, other pages, engine library, package checks, assets, rebase tools, smoke tests, generated sync protocol | little or none, or in Chromium | per call | - |

What is hard in them:

* **Ordering.** `RecordCheck` is posted and forgotten; the deletes and saves of a
  user's list are unordered jobs; blocklists load on the pool without a sequence;
  the answer to a poll may come after the session has moved on.
* **Atomicity.** A sync request takes the store's lock up to three times; `--release`
  reads and removes the holder file without the lock; the text that is sent for a
  summary is that of the moment of sending.
* **Stale state.** File times noted before the file is read; a tree that holds the
  patches of another branch; binaries that ninja did not link again; a tab that
  shows what has been replaced.
* **Partial failure.** A check that stops between two lists; a commit whose save
  fails after memory has changed; an upload that is cut off.
* **Crash and restart.** Files replaced in one step beside a marker written in place;
  jobs that are skipped at shutdown; a server that comes back without what it
  could not save; tools killed in the middle of a file.
* **Reentrancy.** `UserListFetcher::Finish()` calls `ApplyCustomRules()`, which calls
  `Queue()` of the same fetcher.
* **Unreliable delivery and timeouts.** A host that serves any manifest, signature and
  file; an answer that is lost after its commit was stored; a resolver that
  never answers; leases that run out.

`PROJECT.json` lists each of these at its line, with the properties that cover
it or the reason why none does.

What makes each component correct:

* list updater: only promised files, whole bundles, no way back to an older one, one
  look a day, and no check that never ends;
* user lists: each list queued once, the entry names the copy on disk, the engine is
  built from the rules as they are, the queue always moves;
* ad blocking engines: a wish for a list always ends in a load, and every engine comes
  to hold the files as they are;
* request decisions: what goes out was let through by the lists, and a request that
  is held back is let go or cancelled;
* scam protection: the newest blocklist comes into use;
* assistance and AI summary: nothing is sent twice, or to a place the person was
  not shown; no answer lands under a page it was not asked for;
* sync server: no acknowledged write is lost, no device misses an item (of its type), a reset
  reaches every device;
* list build tools: a line is kept exactly when uBlock would keep it; what
  `sources.json` says of a list is true of its bytes;
* publisher: a release is one whole bundle, and no list shrinks sharply from one to the next;
* build lock: the tree is one owner's at a time, and always comes free;
* patch tools: a build finds one branch's text, and a restore Chromium's own;
* release job: a draft is of one build, signed throughout or not at all, under a feed
  that its own key verifies;
* foreground lock: the foreground is free when the last test is done.

## 2. Modules

| Module | What it is |
|---|---|
| `ListUpdater` | the updater, its thread pool, the folder, the calendar, the publisher's promise |
| `SyncServer` | the store and its requests over one chain, and the browsers as far as the protocol binds them |
| `UserLists` | preferences, fetcher, pool jobs and the build of the custom engine |
| `TreeClaim` | abstract: a tree that one owner at a time may use, and claims on it |
| `JobLock` | the lock file, the holder file and the processes of `joblock.py`; implements `TreeClaim` |
| `SourceTree` | `apply.py`, `apply.py --restore`, `clean_tree.py` and `rebrand.py` on one tree |
| `FocusLock` | the holds of the tests and the keeper thread |
| `Directives` | the conditional blocks of a list, line by line |
| `ListFeeds` | the three tools that write the lists of a build |
| `Publisher` | the two jobs that publish a bundle |
| `ReleaseJob` | the release workflow; extends `TreeClaim` |
| `RequestCheck` | a request in renderer, browser, resolver and proxy |
| `Engines` | the loads and engines of the ad blocker |
| `ScamList` | the loads of the scam blocklist |
| `AssistanceSession` | a session over two tabs |
| `AiSummary` | the held page and the tabs that show it |
| `MCListUpdater`, `MCSyncServer`, `MCUserLists` | instances of one module each |
| `MCBuildTree` | `JobLock`, `SourceTree` and `FocusLock` |
| `MCPublishing` | `Directives`, `ListFeeds`, `Publisher` and `ReleaseJob` |
| `MCBrowser` | `RequestCheck`, `Engines`, `ScamList`, `AssistanceSession` and `AiSummary` |
| `ListUpdaterProofs`, `SyncServerProofs`, `UserListsProofs` | theorems about one module each |
| `BuildTreeProofs` | theorems about `JobLock`, `SourceTree`, `FocusLock` and their instance |
| `PublishingProofs`, `ReleaseJobProofs` | theorems about `Directives`, `ListFeeds`, `Publisher`, `ReleaseJob` and their instance |
| `AssistanceProofs`, `BrowserProofs` | theorems about `AssistanceSession` and `AiSummary`; about `RequestCheck`, `Engines`, `ScamList` and the instance of all five |

The last three instances hold several components that share no state in these models. One
of them, the `subject`, moves in a behaviour while the others rest, so that a run
is the union of their state spaces and never their product.

Two components meet in `ReleaseJob`: the job and another user of the tree go through
the actions of `TreeClaim`, which is what `JobLock` is shown to provide.

Definitions named "A bug for the checks" are mutated forms of the definition that
follows them: the corresponding run must find a property violated when the
code's form is replaced. They are not part of any specification.

### ListUpdater

`phase` is the answer the one running check waits for; `phase # "idle"` is
`running_`. `MaybeCheck` starts a check, and each handler of
`list_updater.cc` is an action: `OnLookedAtDisk`, `OnManifest`,
`OnManifestSignature` (with `ApplyManifest` and `FetchNextList`, which it calls),
`OnListDownloaded`, `OnListSaved`. `LookAtWhatWeHave` is two actions (`LookAge`,
`LookRead`), because a late `RecordCheck` may write the marker between them.
`SaveList` is two (`SavePart`, `SaveReplace`), because the browser may die between
them. `RecordCheck` is a job in `records` with two steps, the opening that empties the
marker and the write, and it may fail or be lost. `Finish` is part of every action
that ends a check. `all_saved_` is true exactly when the outcome is `"ok"`
(`MaybeCheck` sets it, `FinishWith` clears it for every other outcome), so
`RecordOf` reads the outcome. A look may get no time of a file (`LookAge`), no text of the marker, no hash
of a list, and may leave the resources file of an older browser where it is (`LookRead`). `Exit` ends the browser at any point. The host is nondeterministic: any manifest
ever published, other bytes, any signature, any content. A hash stands for the
content it is the hash of.

### SyncServer

`chain` is the chain in memory, `disk` its file, `reqs` the goroutines. A request
passes `ReadBirthday`, perhaps `SetBirthday`, then `Commit`, `GetUpdates` or
`Clear`: one action for each use of the store's lock. Every saving step has two
outcomes, as `saveLocked` does: the file is renamed into place, or the save
fails and only memory has changed. `Restart` reads the file. Devices send
`SendCommit`, `SendClear` and `SendPoll`, one at a time each, and may `GiveUp`.
Progress tokens are the versions they encode. Birthdays are fresh numbers. What an item is
stored as is any of the fields its specifics may have set (`dataTypeOf`), because the order in which `Range`
yields them is undefined, and an encrypted item has `encrypted` beside the field of its type.

### UserLists

`entry` and `text` are the preferences, `file` the copies, `fetcher` the fields of
`UserListFetcher` (queue, pending, current, and what `loader_` or the posted job is
at), `noted` is `custom_text_`. `StartNext`, `Queue`, `Forget`, `NoteTry`,
`Refreshed` (`MaybeRefreshUserLists`) and `NoteRules` are the functions of the
code; `AddUserList`, `RemoveUserList`, `SetCustomRules`, `Navigate` its callers;
`OnDownloaded` and `OnSaved` the replies; `CheckAndSave` and `DeleteFile` jobs of
the pool, in any order; `ReadLists` and `SetCustomEngine` the build on the load
runner, which is a sequence. The disk may refuse to delete a copy (nobody looks, so it stays, and the list is
in `raced`) or to give one out (the build goes on without it, and its key is noted all the same: `missed`). A number names a download, its bytes, the copy made
from them and the time its entry notes.

### TreeClaim and JobLock

`proc` holds the processes of `joblock.py` and where each of them is: `Start` a
command, `Take` the operating system's lock, or `GiveUp` when the wait is over;
`Enter` or `Refuse` after the holder file was read; `Decide`, `OpenHolder`,
`WriteHolder` for `_write_holder`, whose `write_text` truncates before it
writes; `CommandEnds` and `Release`. A claim is a command with a lease that does
nothing else. `ReleaseClaim`, `RemoveHolder` and `RemoveOpenHolder` are `--release`, which
reads and removes without the lock; `Status` takes the lock for a moment. `Kill` ends a
process anywhere, and with it its lock. `--wait` waits for the lock only: a lease in force
turns a command away at once.

`TreeClaim` has the user of the tree, the last claim and the claims that are being given
back; `JobLock` implements it with the user being the process past the check and the
claim being the holder file (`Claimed`, `ImplementsClaim`). A claim may be lost by a fault,
which both sides remember.

### SourceTree

A text is what a file holds at each of a few places, a patch is what must be there and what
comes instead. `git apply` is `Holds`, `Edited`, `Fits` and `IsIn`. The three tools go
through the same files and patches as the code does, one write at a time, and may be
killed between two writes, in a copy (`KillInCopy`, `KillInSave`, `KillInRewind`), in git
(`KillInGit`) or while the store is seeded (`KillInSeed`). What the first n patches of a branch make of
a text is `Patched`: at every place the last of them that changes it has the say. Whether they go on in
their order is `GoOn`. `Wanted` is what a build of a branch is to find: overlays, brand
names, and Chromium's files with all its patches. What `clean_tree.py` puts back is `Todo`: files that are
not as the branch would `Want` them, `Stacked` ones whose patches do not reverse, and the `RestOf`
their patches, in passes until one adds nothing: the smallest set that a pass leaves as it is.

What `clean_tree.py` knows of other branches is what it finds: `Seeds` are files in patches that are committed on some head or lie in a
worktree under `.claude/worktrees`, `Foreign` the patches in the worktrees that there are, which come off listed files one by
one (`TryForeign`), in three passes at most (`ForeignEnds`). `Sights` has the sets of branches that it may find, and each of the two looks
picks one: a branch whose worktree was removed, whose patches are edited (which makes another branch) or not committed in the main
checkout is not found.

Three sets of files are left out of what the properties promise. `Contested`
are files that ungoogled-chromium changes, so that neither git nor the store has an original, and that our branches patch
differently, or that are not on `domain_substitution.list`, so that nothing is reversed on them: `clean_tree.py` prints
them as unresolved. `unsure` (of a job and of the tool before it) are files that the branch itself patches and whose
original went to the store only now, from HEAD: their text in the tree is not looked at this time, and may be another branch's.
`hidden` (likewise) are files without a copy that only branches change whose patches were not found (`Unfound`, `Beyond`): what such a branch
left in them stays, and the tool cannot know. An overlay that is laid on one of them saves the wrong original, which `spoilt` remembers.

### FocusLock

`Acquire` and `ReleaseHold` are the two ends of a hold, under `_guard`; the last release
waits for the keeper thread (`Unlock`), two seconds at most. The keeper is
`KeeperWakes` and `KeeperAsks`.

### Directives

The lines of a list are read one after the other: `ReadIf`, `ReadElse`, `ReadEndif`,
`ReadPlain` over a stack of blocks. The property compares the lines kept with a definition
that looks at the whole list at once (`DroppedAfter`).

### ListFeeds

A file is the number of the run that wrote it. Each tool writes its files in the
code's order and may be killed between two (`Killed`) or in one (`CutFile`, `CutIndex`,
`CutSources`, `FileWithoutNotice`). A list whose sources fail is left as it was.

### Publisher

`Build` is `build_bundle`: what is published is compared (`PreviousEntries`, `Covers`), the
version must not go back, and the bytes are read back (`Confirmed`). `Sign`,
`RemoveAsset`, `UploadAsset` and `UploadEnds` are the publish job, which may fail
(`PublishFails`) and be run again (`RunAgain`). Bytes may be spoilt on the way
(`DamageOf`).

### ReleaseJob

One action for each step of `release.yml`, in order; steps under the lock enter and leave
it (`EnterStep`, `LeaveStep`). A binary is the source it was built of and whether it
is signed. Ninja links again whatever it likes, so that `CheckFresh` has something to
find. The other user lays its own source, builds and packages whenever no claim bars it.

### RequestCheck

`request` is the throttle's state, `question` what the browser does for it, `lookups` the
alias lookups that exist, `reply` the answer under way. `WillStartRequest`,
`WillRedirectRequest`, `OnResult`, `OnDisconnect` are the throttle; `Check` and
`CheckAliases` the checker; `StartLookup`, `OnComplete`, `LookupTimesOut`, `LookupBreaks` the
lookup, which ends in `Finish`; `CreateLoaderAndStart` the proxy. `enabled` is the profile's `EnabledLists`: `Check` copies it into
`question.lists`, and `CheckAliases` judges by that copy, with the engines of its own moment. `ListsLoaded` reloads the
engines and `SettingsChange` changes the person's choice of lists and the site's switch, both at any time.

### Engines and ScamList

`posted` and `load` are `load_runner_`: a load notes the time of a file before it reads it
(`NoteTime`, `ReadText`), puts an engine, then looks at the wishes (`TakeWishes`). Files are
replaced and reads fail in between. In `ScamList` the loads run on the pool side by side.

### AssistanceSession and AiSummary

The session's handlers and the scripts it posts into its two tabs, in the order of each tab;
`Unheard` answers are those of a request before (`CutOff`). In `AiSummary` every tab has
messages to the browser and answers to it under way, and shows what it was last told.

## 3. Runs

| Run | Question | Result |
|---|---|---|
| `ListUpdater` | what an install holds after any mix of answers, failures, failed reads, late records and exits, and does every check end | `TypeOK`, `Integrity`, `MarkerHonest`, `NoWalkBack`, `MarkerKeepsUp`, `WholeBundle`, `OnceADay`, `EveryCheckEnds` hold |
| `ListUpdaterRollback` | is an older manifest always refused, as `list_updater.cc:528` says | no, see below |
| `SyncServer` | commits, polls and resets of two devices with faults, and do they end up in sync | `TypeOK`, `VersionsNumberItems`, `Durable`, `NoMissedUpdate`, `StaleIsRefused`, `AllEndUpInSync` hold |
| `SyncServerReset` | does a client with an old birthday always start over, as `server.go:135` says | no, see below |
| `UserLists` | two lists around downloads, jobs, builds, an exit or a disk that refuses | `TypeOK`, `PendingIsQueuedOrRunning`, `CopyIsTheOneNoted`, `EngineIsCurrent`, `EveryDownloadEnds` hold |
| `UserListsRemoved` | does a removed list leave nothing behind, as `custom_rules.cc:366` says | no, see below |
| `BuildTree` | who may use the build tree, what the patch tools leave in it, who may take the foreground | `TypeOK`, `ClaimHolds`, `ImplementsClaim`, `TreeComesFree` (lock), `BuildsOneBranch`, `RestoreUndoes` (tree), `ForegroundComesFree` hold |
| `BuildTreeStuck` | does `clean_tree.py` put back whatever `apply.py` would trip on, as `clean_tree.py:146` says | no, see below |
| `Publishing` | what is shipped, from the lines of a list to a release | `TypeOK`, `PrunedAsUbo`, `SourcesDescribeLists`, `PublishedIsWhole`, `StepsAreSmall`, `DraftIsOneBuild` hold |
| `PublishingDrop` | is a bundle that shrinks sharply always refused, as `publish_lists.py:206` says | no, see below |
| `Browser` | requests, engines, the blocklist, assistance and summaries | `TypeOK`, `SentWasAllowed`, `DeferredEnds` (request), `WishIsHeard`, `ListsComeCurrent` (engines, blocklist), `AnswersFit` (assistance, summary) hold |
| `BrowserSummary` | does the person see where the text goes before it goes, as `ai_summary_service.h:31` says | no, see below |

Bounds, and why they are enough:

* `ListUpdater`: three checks are needed to apply a bundle, lose or delay its record and
  be served an older one; `MaxDay = 2` lets the lists age past `FreshEnough` and the
  marker past `CheckInterval` (both 1) more than once. The four bundles are an
  ordinary one, a degraded one with a file nobody has a place for, a second one of
  the same version, and one that cannot be read. Two lists are enough to stop
  between them. `hard` says what goes wrong on the disk in a behaviour: the times of files, their texts, or
  the records; the proofs have all three at once.
* `SyncServer`: `MaxBatch = 1` makes a commit of two items span two batches; two
  requests at once is the smallest number that can race over a birthday. `hard` says what
  may come beside a reset: a fault, a second commit, polls for one type, which leave the
  tokens at different places, or a bookmark that is stored under `encrypted`. There is no symmetry,
  for the sake of the temporal property; the invariants are proved for all of them together.
* `UserLists`: two lists are one that runs and one that waits. Four inputs allow add,
  remove and add again of one list beside the other; one exit. `hard` says which of the two a behaviour has, an exit or
  a disk that refuses deletes and reads; the proofs have both at once. The run has no symmetry, for
  the sake of its temporal property; its invariants are proved for any number of lists and inputs.
* `BuildTree`. Lock: two processes and two owners, leases of none and of one tick, three
  commands on a clock of three ticks, so that a lease runs out while its owner works and
  while another waits. Tree: two branches of seven files, one for each way a file can be
  handled (stacked patches, a patch over two files, a plain one, one ungoogled-chromium
  changes, a new one, an overlay, a string file), and four runs of the tools: enough to
  spoil a tree for one branch, clean it for the other and apply or restore. `Sights`: every look finds the patches of both branches or
  of none; when it always finds both, nothing is ever `hidden`.
  `BuildTreeStuck` has two branches
  with the same three patches, two on the same lines and one that makes a file, and finds both. Foreground: three
  tests and three keepers.
* `Publishing`. Six lines nest two blocks with an else part each. Four runs of the list tools
  are a whole set of three after a run that was killed. Two bundles, of two lists with sizes
  around the limits; `PublishingDrop` has a third bundle, which the drop needs. One release job on a clock as long as the job may
  run, over a tree whose first state is any one; two binaries are enough for a mix.
* `Browser`. Request: two URLs, two choices of lists, two changes of engines or settings while it is out, which is what it takes to enable other lists and
  to reload the engines between the check of a request and that of its aliases. Engines: two files for the
  main engine and two optional engines, one file replaced, one read that fails, as many
  waiting loads as there can be wishes. Blocklist: two loads side by side, two new files, one
  fault. Assistance: two questions and one move of the person in the source page. Summary: two pages, two tabs; one tab at a time has
  messages to the browser under way.

Every bound is a conjunct of an action's guard, so a run that has used them
up stops: `CHECK_DEADLOCK FALSE`. The proofs do not depend on them.

The disagreements:

* `NeverWalksBack` (`ListUpdaterRollback`): the version a manifest is compared with
  is the one on the marker, which a forgotten job writes. When that job is lost, or the marker
  cannot be read, an older signed manifest is applied over the newer one. `NoWalkBack` is what
  does hold: no way back while every record reaches the disk before the next
  look, and that look can read it.
* `NothingFromBefore` (`SyncServerReset`): the birthday is compared under one
  use of the lock and the commit stored under another; a reset fits between them.
  `StaleIsRefused` is what holds: a request that arrives after the reset with the
  old birthday is never carried out.
* `NothingLeftBehind` (`UserListsRemoved`): the delete of a removed list may run
  before the save of its download. `CopyIsTheOneNoted` is what holds: the copy on disk is the one
  the entry notes, apart from lists with two jobs under way at once, with a job under way as the browser
  was closed, or whose copy the disk refused to delete.
* `CleanTreeTakesPatches` (`BuildTreeStuck`): what is put back has a copy in the store, and a file that
  a patch makes has none. If git was killed before it made the file, or another branch made it with another text
  (so that `clean_tree.py` removes it), the rest of that patch stays in, `apply.py` takes the patch for a failure,
  and its second pass breaks the stack. `BuildsOneBranch` is what holds: it fails, and never mixes.
* `NoSharpDrop` (`PublishingDrop`): an upload that is cut off between its lists and its
  manifest leaves a release without a manifest, and the next bundle is then compared with the
  lists that are there, which no browser could take. `StepsAreSmall` is what holds: when no upload
  has touched the release in between, the limits are kept against what browsers have.
* `SentWhereShown` (`BrowserSummary`): a page put aside, or settings saved, while a tab
  shows an earlier state, does not redraw that tab; its button sends the new page, or to the new place.
  `SummaryFits` (in `AnswersFit`) is what holds: no page is sent twice, and a summary stands under the page it is of.

Some properties name an exception, because there the code does less than its comments say, or does not look at a failure:

* `NoMissedUpdate` leaves out items that are stored under another type. `store.go:144` says that a poll returns every item of its types,
  and `dataTypeOf` takes the first field that it is given: an encrypted item has two, and under `encrypted` it is in no answer to a poll
  for its type, while the tokens go past it.
* `BuildsOneBranch` and `RestoreUndoes` leave out `hidden` files. `clean_tree.py:2` says that it puts back what another branch left
  changed, but a file without a copy in the store is put back only if a patch touches it that the tool finds, and on listed files only
  patches in worktrees of now are undone.
* `AnswersFit` bounds how often a question is sent by the calls of `Share()`, not by one. `assistance_session.cc:182` says of a fresh adapter
  for each request that it sends at most once, but each call makes one, and the state stays ready until its script has answered.
* `CopyIsTheOneNoted` leaves out copies that the disk refused to delete, `EngineIsCurrent` copies that the last build could not read,
  `NoWalkBack` and `MarkerKeepsUp` markers that could not be read: nothing in the code looks at these failures.
* `SentWasAllowed` promises of an alias what the lists say that were enabled at the check, with the engines of the lookup's end.

## 4. Fairness

* `ListUpdater`: weak fairness of the pool and of the UI handlers. Every posted job
  runs, and every request is answered, if only by an error. `MaybeCheck` has
  none: nobody has to open a page. The loaders set no timeout, so a host that
  holds a connection open for ever is outside this assumption.
* `SyncServer`: weak fairness of the goroutine of each device's request (Go's
  scheduler, a lock that is always released), and strong fairness of each
  device's poll for all its types: a poll is disabled while another request
  of the device is awaited, again and again, and the browser keeps polling.
  `AllEndUpInSync` is about the time when nothing but polls is sent, which
  the bounds on commits and resets bring about.
* `UserLists`: weak fairness of downloads, replies, save jobs and builds. Nothing is
  assumed of the person, of navigation, or of the delete jobs.
* `BuildTree`: weak fairness of each process of `joblock.py` and of the clock. Processes may be
  killed, and a command that waits for the lock gives up when its time is over.
* `Browser`: posted tasks, messages and loads run, each of the two loads of the blocklist
  fairly by itself; timers fire, half an hour goes by, and the person goes on browsing, which is what calls `EnsureLoading()`. Nothing
  is assumed of the resolver, which may never answer, nor of the disk, where a read may fail.

## 5. Proofs

For any value of the constants that satisfies the modules' named assumptions, TLAPS
checks that an invariant (`IInv`, `LockInv`, `TreeInv`, `StoreInv`, `UndoneInv`, `FocusInv`, `DirectivesInv`, `FeedsInv`, `PubInv`,
`ReleaseInv`, `RequestInv`, `EnginesInv`, `AssistanceInv`, `SummaryInv`) holds initially, is kept by every
action, and implies the properties. TLC evaluates the assumptions on every run. What they ask for:

* `NamesAssumption`, `DaysAssumption`; `SyncAssumption`; `UserListsAssumption`; `LockAssumption`;
  `PublisherAssumption`; `ReleaseAssumption`; `AssistanceAssumption`; `SummaryAssumption`; `ScamAssumption`: bounds are
  numbers, names are those of their sets, and stand-in values are not among the values they stand beside;
* `BundleAssumption`: besides, that published versions count up, which `publish_lists.py` enforces;
* `EnginesAssumption`, `FocusAssumption`: besides, that there are finitely many optional engines and test
  threads, and room for a posted load for each of the former, because the proofs count them;
* `TreeAssumption`: `NoBranch` is no branch, texts are whole, `StringFiles`, `Branded` and `Substituted` are files that
  Chromium has, and what holds of the repository's `patches/` and `chromium_src/`: a patch makes a file as a whole or changes places of one, and takes none
  away; a branch's series goes on over Chromium's files, one patch after another; a branch neither patches what it lays over
  the tree, nor lays anything over a file that ungoogled-chromium changes, and leaves the branded files to `rebrand.py`;
* `FeedsAssumption`: no two lists share a name, and a `sources.json` that was cut short cannot be read.

Each of the three composed runs has its type invariant proved for the composition as well (`BrowserTypeCorrect`,
`BuildTreeTypeCorrect`, `PublishingTypeCorrect`): a step of the one that moves is a step of its own specification
and leaves the variables of the others as they are.

**`ListUpdaterProofs`**: `TypeOK`, `Integrity`, `MarkerHonest`, `NoWalkBack` and
`MarkerKeepsUp`. None is inductive alone: whether a list may be replaced depends on
what the phases before have established. `IInv` adds

* `PhaseInv`, what each phase holds: the hashes that could be read are those on disk until the first
  list is saved; while lists are applied the manifest is a signed one, and all its
  lists but the ones still wanted are in place;
* `Honest`: every version that is on its way (on the marker, in `local_`, in a
  record) is 0 or that of an applied bundle;
* `HeldPromised`: what is on disk was promised;
* `Floor`: while no record was lost, late or unreadable, every version on its way is at least
  that of every bundle applied so far, and so are the lists. That needs the published versions to
  count up (`BundleAssumption`), which `publish_lists.py` enforces.

The action properties `WholeBundle` and `OnceADay` follow from it: for the first, a check
ends ok only where `PhaseInv` has nothing left to fetch (lemma `OkStep`); the second takes one more
invariant, `DayInv`, of what the marker and the records say of the day the last manifest was asked for.

**`SyncServerProofs`**: `TypeOK`, `VersionsNumberItems`, `Durable`,
`StaleIsRefused` and `NoMissedUpdate`. `IInv` adds

* `Fresh`: a birthday made by a request and not set yet is nobody else's. Without it
  a late `SetBirthday` could bring an old birthday back, under which an
  acknowledged item would be missing;
* `Kept`: what was acknowledged is in memory as well as in the file, under the same birthday
  (memory may have been cleared and the save have failed, or the other way round);
* `Stale`: a request that was stale when it came stays so, whatever happens to the
  chain, because birthdays never repeat.

`NoMissedUpdate` takes two more: `Asked`, that the request a device waits for carries the birthday the device
has and a position no further than its tokens, and `Known`, that the tokens of the chain's devices are
not beyond the chain, which is why a commit never slips in behind a token. `UpdatesFacts` is the counting argument:
what a batch leaves out is newer than all of it, and the batch is full.

The lemmas about `Min`, `Max` and
`Committed` (what a commit makes of a well-formed chain) are stated for all arguments.

**`UserListsProofs`**: `TypeOK`, `PendingIsQueuedOrRunning`, `CopyIsTheOneNoted` and
`EngineIsCurrent`. The lemmas `StartNextFacts`, `QueueFacts`, `ForgetFacts` and
`RefreshedFacts` say of each function of the fetcher what it keeps and how it
`Goes` on: what runs goes on unchanged, or an idle fetcher begins the next
download. Everything else uses only that. `IInv` adds

* `Fetching`: `PendingIsQueuedOrRunning`, in the form the functions keep it;
* `Jobs`: a save that is left of an earlier download is behind the one that runs, so its
  reply is for nobody;
* `Apart`: a list outside `raced` has one job at most, which is why the copy of the
  last download is the one that stays;
* `Copies`: what the file holds in each stage;
* `Builds`: the last build asked for has the key of the preferences as they are, and
  what it has read is what is noted, or will be once the reply that waits is
  handled. Of a copy that it could not read it says nothing (`missed`).

**`BuildTreeProofs`**, the lock: `LockTypeOK`, `ClaimHolds` and that `JobLock` implements `TreeClaim`
(`ImplementsClaim`): initial states map to initial states, and every step of a process is a step of
the claim or leaves it as it is. The invariant says who can be past the check (only the holder of the operating
system's lock), what a process remembers of the holder file against what is in it, and that a claim told to
its owner is in the file until it runs out, was given back, or a fault was noted.

The tools on the tree: `TreeTypeOK`, for any files, branches and series, wherever a tool is killed. `TreeInv` says
that every file, in the tree and in the store, is whole, unreadable as a whole or not there (a patch is applied to whole
texts only, which needs lemmas on what `Edited`, `Apply` and `Reverse` make of a text), and that a tool at work has a
branch, a patch of its series or the end of it, and only files of the tree left to do.

The store of originals (`StoreHoldsOriginals`: `StoreIsOriginal`). `snapshot` and `pristine.text` save whatever the tree
has when a file is first needed, so the store is right only if the tree is right at that moment, and which branch left it as it
is is no matter of this run's. `StoreInv` has the three things it takes: a file that no branch patches and that is not in the
store has never been changed (`Untouched`); of a file that some branch patches, and for which git has the original, nothing
but the original may be in the tree, or nothing at all, unless it has a copy or is `hidden`, from the end of `clean_tree.py`'s seeding until the overlay has been laid over it
(`Prepared`); and the branded files are patched by no branch. A kill takes `ready` away, so that `clean_tree.py` comes first
again.

What a build finds (`TreeIsOfOneBranch`: `BuildsOneBranch`) and what a restore leaves (`RestorePutsOriginalsBack`:
`RestoreUndoes`) take a chain of invariants, each of them over the one before:

* `DoneInv`: up to the patch that `apply.py` is at, and has not rewound, every place that a patch of the branch has changed has what the
  last of them left there (`DoneUpTo`, in `Progress`), and the same downwards while `--restore` takes patches off. A patch
  that is `in` by chance does no harm, because only its own places matter, and the patch before it cannot have been passed
  over. The lemmas are about `Patched`: what one more patch does to it (`Max` of the patches that change a place), and
  that it does not matter from where the series starts at a place that it changes.
* `ThereInv`: as long as nothing is spoilt, no file of Chromium's is missing (`Present`); one that ungoogled-chromium
  changes, and that has no copy, has one of two texts (`Single`), if it is not contested. The three passes of
  `clean_tree.py` fall short of files only that are contested: the patches of any other agree on it, so that undoing one is undoing
  all, and one pass is enough. A file that no other branch patches has nothing of another branch in it (`Alone`).
* `KeptInv`: what was left unsure has its original by now (`Unsure`), what is laid over the tree stays (`Laid`), and it was saved first (`Saved`).
* `CleanInv`: where no patch of the branch changes a file, the file is Chromium's (`Based`). `clean_tree.py` comes to this in steps
  (`Cleaned`): what has a copy is put back or was as it should be, because `Todo` leaves out no file that
  differs; what has none is seeded from git, or is of ungoogled-chromium's (`Bare`) and loses the patches of
  other branches, one by one, or is `hidden`.
* `OneInv`: `DoneUpTo` the end of the series and `Based` say of every place of a file what it holds, and that is `Wanted`.
* `UndoneInv`: a file without a copy has, all the way down, what the patches that are left make of Chromium's
  (`Undoing`), and a file with a copy gets it, which is the original.

No step of this is an induction over the series: `Patched` is a definition by the last patch at a place, not a
recursion, and that the tools arrive at it one patch at a time is what the invariants say.

The foreground lock: `ForegroundComesFree` and `FocusTypeOK`, for any number of tests and keepers. The count of
holders is the size of the set of threads inside, every keeper but the newest has ended, and the guard is only held
when nobody is inside.

**`PublishingProofs`**, how a list is read: `PrunedAsUbo`, for a list of any length with blocks nested to any depth.
The property looks back over the whole text (`DroppedAfter`), the tool keeps a stack. `StackIsRight` ties them
together: block i of the stack is that of the one line that is still open with as many open blocks inside it as lie
above i on the stack, and the stack tells of it what the text says (`Tells`). Each action appends one line, so the proof is a
step from n lines to n + 1, and the lemmas say what one more line does to the counts and to which lines are open
(`CountGrows`, `DepthGrows`, `OpenGrows`, `ElsesGrow`, `TurnsInnermost`).

How the lists are written: `SourcesDescribeLists`, for any names and any numbers of lists and of earlier runs. It speaks of
a release that has run the three tools one after the other; `RunIsRight` says what a run of `get_filterlists.py` has written so far,
step by step, and `FreshIsRight` what it and the next two leave, whatever was killed before.

How the bundle is published: `PublishedIsWhole`, `StepsAreSmall` and `PublisherTypeOK`, for any sizes, floors and number of
bundles. The invariant relates every asset to the bundle that is being uploaded: what is not on the `todo` of the run is of
the bundle in hand, a settled release is of the bundle that was published last, and a bundle that was compared with a clean
release was compared with that one.

**`ReleaseJobProofs`**: `DraftIsOneBuild` and `ReleaseTypeOK`. `Claims` says that the claim of the job covers the whole of its
time, so that nobody else is in the tree from the claim to the draft; `Tree`, `Packed` and `Put` say step by step
what the tree, the package and the files for the draft hold, and of what they were made.

**`AssistanceProofs`**: `GuidanceFits` and `SummaryFits`, the two halves of `AnswersFit`, and the types of both modules, for
any number of questions, pages, tabs and holds. `AssistanceInv` adds to `GuidanceFits`

* `CapturesInOrder`: scripts under way capture one question after the other, and only the last is of the question of now,
  so that a snapshot is never of a later question than the session's;
* `ResultsFit`: results under way name the question of now or none, and a page that was parsed is of a snapshot of it;
* `NothingAsked` and `CapturedOnce`: while the page is being captured no other script is under way for the session, and
  at most one result of it;
* `SharesFirst`: between the person's share and Gemini's answer to it there is no poll that could show something older;
* `SentAsShared`: a prompt that was shared is sent, under way, in the composer or lost, and never two of them at once. This is
  the counting argument for `sends[r] <= shares[r]`.

`SummaryInv` says that the loader works on the held page or on nothing, that a page that still waits was not sent, and that
what tabs show, or are about to be told, fits.

**`BrowserProofs`**, a request: `RequestTypeOK` and `SentWasAllowed`, for any number of changes of lists and
settings. `Remembered`, `Asked`, `Answered` and `Passed` follow a verdict from the lists through the checker, the
lookup and the answer to the throttle and the proxy: what each of them holds was said at some moment of
the URL that is being asked about. Of aliases they follow the choices of lists that blocked one all the time (`cloak`), of which
the check leaves the one that it copied.

The engines: `WishIsHeard` and `EnginesTypeOK`, for any number of optional engines. `PostsBounded` counts the loads that are
posted against the wishes and the call of `EnsureLoading()` that may still come, which is why their number is bounded at all.

The composition: `TypeOK` and `AnswersFit` of `MCBrowser`.

## 6. Only model-checked

* Liveness (`EveryCheckEnds`, `AllEndUpInSync`, `EveryDownloadEnds`, `TreeComesFree`,
  `DeferredEnds`, `ListsComeCurrent`): temporal
  reasoning under fairness is out of the prover's reach.
* What the violation runs show, of course, and nothing about a list in `raced`.

## 7. Not modelled, and why

* Two browser processes of one person sharing the download folder, and a clock that
  is set back (`NextDay` only counts up).
* Downloads that never end: the loaders have no timeout of their own.
* `newBirthday()`'s fixed fallback when the system has no randomness, and items of
  a sync file that cannot be read (the server refuses to start).
* Chains beside the one modelled: they share only the lock.
* `CheckAddress` and `CheckCustomRules`, which decide whether an input happens at all;
  off-the-record profiles, which have no lists of their own; an engine library that
  fails to load or that takes none of the lists it is given. An engine with nothing to read stands for the null engine.
* Preferences lost in a crash: an `Exit` of `UserLists` is an orderly one as far as
  the preferences go. The copies of all lists are read in one step of
  `ReadLists`; the code reads one after another on the load runner.
* Two browser windows' worth of summaries at once: one tab at a time talks to the browser. The menu that
  calls `HoldPage` is in a patch of Chromium and calls at any time here.
* `AssistanceSession`: the scripts its destructor posts. Its parsing of a page or an answer is whether there
  is something to show.
* `RequestCheck`: more than one redirect, and `adblock_throttle.cc`, which decides the requests of frames in one step.
* `Engines`: the cache of serialised engines, keyed on the hashes of the texts an engine is built from.
* `SourceTree`: CRLF line ends, the retry of `git apply` over them, and `build_rust`. `spoilt` excepts three things from its properties: a
  copy to the store of originals that was cut off is taken for the original ever after, and so is the text of an unknown branch under
  an overlay; a file that git had removed as it was killed is passed over by `clean_tree.py`. `Contested`, `unsure` and `hidden`
  files are left out as well (section 2), and new files of another branch that still lie in the tree.
* `ListFeeds`, `Publisher`: how a list is parsed, and sizes in bytes. Lists, notices and keys are values.
* `ReleaseJob`: how an installer is packed, and the names of files, which follow from the version.
* The order in which Chromium delivers signals to a tab, which is what takeover, idle tabs and the popunder throttle are about.
* About half of the Python lines of the repository are tests, smoke tests, probes and screen captures, one script per feature, each
  driving one browser session in a straight line, and a further part converts images, licences and
  texts. They keep no state that outlives a run and promise nothing to another component, so a model of them would
  be a copy; the map covers the tools that do, and with them less than a tenth of those lines.
* The components marked `not_modelled` in `PROJECT.json`, each with its reason.

## 8. What could come next

* Abstract specifications of a chain that is only written and reset, for `SyncServer`, and of a store of
  whole bundles, for `ListUpdater` as long as records arrive in time.
* `Publisher` composed with `ListUpdater`: here the host of the one is any host, which covers the other.
