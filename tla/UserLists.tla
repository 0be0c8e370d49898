------------------------------ MODULE UserLists ------------------------------
(***************************************************************************)
(* Filter lists a person adds by address, and the engine built from them:  *)
(* boring-core/components/boring/adblock/custom_rules.cc and the parts of  *)
(* adblock_service.cc that build the engine of a profile's own rules.      *)
(*                                                                         *)
(* Three parties.  The UI thread keeps the preferences and the fetcher,    *)
(* which downloads one list at a time.  The thread pool saves and deletes  *)
(* the copies, every job on its own and in any order.  The load runner, a  *)
(* sequence, builds the engine from the copies it finds, one build after   *)
(* another.                                                                *)
(*                                                                         *)
(* Downloads are numbered.  A number stands for the bytes of that          *)
(* download, for the copy made of them, and for the time its entry notes   *)
(* when it ends well; two of them never note the same time.  0 is no copy. *)
(*                                                                         *)
(* An engine with nothing to read stands for the null engine.  Profiles    *)
(* off the record, which have no lists, and an engine library that cannot  *)
(* be loaded are left out.                                                 *)
(***************************************************************************)
EXTENDS Integers, FiniteSets, Sequences, SequencesExt

CONSTANTS
  Urls,       \* addresses of lists
  NoUrl,      \* an empty current_
  MaxLists,   \* kMaxUserLists
  Texts,      \* what My filters may hold
  NoRules,    \* nothing in My filters
  MaxInputs,  \* bound on what the person does and the weeks that pass
  MaxExits    \* bound on the times the browser is closed

ASSUME UserListsAssumption ==
  /\ IsFiniteSet(Urls)
  /\ Urls # {}
  /\ NoUrl \notin Urls
  /\ MaxLists \in Nat
  /\ NoRules \in Texts
  /\ MaxInputs \in Nat
  /\ MaxExits \in Nat

VARIABLES
  \* The profile: its preferences and its folder.
  entry,    \* kBoringUserLists, by address
  text,     \* kBoringCustomRules
  file,     \* the copy of each list
  \* The UI thread.
  fetcher,  \* UserListFetcher
  noted,    \* custom_text_, or NotNoted
  \* The thread pool.
  saves,    \* CheckAndSave jobs that have not run
  deletes,  \* how many DeleteFile jobs of each list have not run
  \* The load runner.
  builds,   \* builds that have not begun
  building, \* the build that has read its files, or NoEngine
  engine,   \* custom_
  inputs,   \* inputs so far
  exits,    \* exits so far
  \* History, for the properties only.
  raced     \* lists with two jobs under way at once, or with one (or its
            \* reply) under way when the browser was closed, or with a
            \* copy that could not be deleted

profileVars == <<entry, text, file>>
poolVars == <<saves, deletes>>
buildVars == <<builds, building, engine>>
bounds == <<inputs, exits>>
vars == <<profileVars, fetcher, noted, poolVars, buildVars, bounds, raced>>

-----------------------------------------------------------------------------
\* An entry by what the code reads of it.  `ripe': it is longer ago than
\* kUserListInterval that it was updated, or than kUserListRetry that it was
\* tried in vain.
NoEntry  == [listed |-> FALSE, updated |-> 0, tried |-> FALSE, ripe |-> FALSE]
NewEntry == [NoEntry EXCEPT !.listed = TRUE]
EntryType == [listed : BOOLEAN, updated : Nat, tried : BOOLEAN, ripe : BOOLEAN]

\* `stage': what current_ waits for, its download, its CheckAndSave, or the
\* reply of that with or without an error.  `started': downloads so far, and
\* so the number of the one that runs.
Stages == {"none", "download", "save", "saved", "unsaved"}
IdleFetcher(started) == [queue |-> <<>>, pending |-> {}, current |-> NoUrl,
                         stage |-> "none", started |-> started]
FetcherType == [queue : Seq(Urls), pending : SUBSET Urls,
                current : Urls \cup {NoUrl}, stage : Stages, started : Nat]

\* What ForContext() makes the key of: the rules and the copies in use.
KeyType == [text : Texts, copies : [Urls -> Nat]]
KeyOf(e, t) == [text |-> t, copies |-> [u \in Urls |-> e[u].updated]]
NotNoted == [text |-> NoRules, copies |-> <<>>]

\* An engine, by the key it was built for and the copies it was built from.
\* None is built until the first key is noted.  `missed', for the properties
\* only: the lists whose copy was there and could not be read.
EngineType == [key : KeyType, read : [Urls -> Nat], missed : SUBSET Urls]
NoEngine == [key |-> NotNoted, read |-> <<>>, missed |-> {}]

TypeOK ==
  /\ entry \in [Urls -> EntryType]
  /\ \A u \in Urls : ~entry[u].listed => entry[u] = NoEntry
  /\ text \in Texts
  /\ file \in [Urls -> Nat]
  /\ fetcher \in FetcherType
  /\ fetcher.current = NoUrl <=> fetcher.stage = "none"
  /\ noted \in KeyType \cup {NotNoted}
  /\ saves \subseteq [url : Urls, copy : Nat \ {0}]
  /\ deletes \in [Urls -> Nat]
  /\ builds \in Seq(KeyType)
  /\ building \in EngineType \cup {NoEngine}
  /\ engine \in EngineType \cup {NoEngine}
  /\ inputs \in Nat
  /\ exits \in Nat
  /\ raced \subseteq Urls

Init ==
  /\ entry = [u \in Urls |-> NoEntry]
  /\ text = NoRules
  /\ file = [u \in Urls |-> 0]
  /\ fetcher = IdleFetcher(0)
  /\ noted = NotNoted
  /\ saves = {}
  /\ deletes = [u \in Urls |-> 0]
  /\ builds = <<>>
  /\ building = NoEngine
  /\ engine = NoEngine
  /\ inputs = 0
  /\ exits = 0
  /\ raced = {}

-----------------------------------------------------------------------------
(* The fetcher. *)

StartNext(f) ==
  IF f.current # NoUrl \/ f.queue = <<>>
    THEN f
    ELSE [f EXCEPT !.current = Head(f.queue), !.queue = Tail(f.queue),
                   !.stage = "download", !.started = @ + 1]

Queue(f, u) ==
  IF u \in f.pending
    THEN f
    ELSE StartNext([f EXCEPT !.pending = @ \cup {u}, !.queue = Append(@, u)])

\* A bug for the checks: a list that is removed stays in the queue.
StillQueued(q, u) == q

\* pending_ keeps a list from being queued twice, so it is there once at most.
Dequeued(q, u) ==
  IF u \in ToSet(q) THEN RemoveAt(q, CHOOSE k \in DOMAIN q : q[k] = u) ELSE q

\* Bugs for the checks: the loader goes, current_ stays; the next list waits
\* until one is added.
ForgetLoader(f, u) ==
  IF u \notin f.pending
    THEN f
    ELSE [f EXCEPT !.pending = @ \ {u}, !.queue = Dequeued(@, u),
                   !.stage = IF u = f.current THEN "none" ELSE @]
ForgetAlone(f, u) ==
  LET others == [f EXCEPT !.pending = @ \ {u}, !.queue = Dequeued(@, u)]
  IN  IF u \notin f.pending THEN f
      ELSE IF u # f.current THEN others
      ELSE [others EXCEPT !.current = NoUrl, !.stage = "none"]

\* "The person removed the list: stop it if it is running."
Forget(f, u) ==
  LET others == [f EXCEPT !.pending = @ \ {u}, !.queue = Dequeued(@, u)]
  IN  IF u \notin f.pending THEN f
      ELSE IF u # f.current THEN others
      ELSE StartNext([others EXCEPT !.current = NoUrl, !.stage = "none"])

\* "Downloads lists that are due: never finished, a week old, or a day since a
\* failed try."
Due(f, e) == {u \in Urls : /\ e[u].listed
                           /\ u \notin f.pending
                           /\ ~e[u].tried \/ e[u].ripe}

\* MaybeRefreshUserLists(), for each order the entries may have.  It does
\* nothing while the setting Keep blocking lists up to date is off, which it
\* may be at any time.
Refreshed(f, e) ==
  {f} \cup {StartNext([f EXCEPT !.pending = @ \cup Due(f, e),
                                !.queue = @ \o order]) : order \in SetToSeqs(Due(f, e))}

\* A bug for the checks: rules that change while a build waits get none.
NoteRulesOnce(e, t) ==
  /\ noted' = KeyOf(e, t)
  /\ builds' = IF KeyOf(e, t) # noted /\ builds = <<>>
                 THEN Append(builds, KeyOf(e, t)) ELSE builds

\* NoteCustomRules() and BuildCustomRules() for the preferences as they are.
NoteRules(e, t) ==
  /\ noted' = KeyOf(e, t)
  /\ builds' = IF KeyOf(e, t) = noted THEN builds ELSE Append(builds, KeyOf(e, t))

\* ProfileLists::ForContext(), with the fetcher, the entries and the rules as
\* the caller leaves them.
ForContext(f, e, t) ==
  /\ fetcher' \in Refreshed(f, e)
  /\ NoteRules(e, t)

-----------------------------------------------------------------------------
(* What the person does, and time. *)

Input == inputs < MaxInputs /\ inputs' = inputs + 1

Listed == {u \in Urls : entry[u].listed}

AddUserList(u) ==
  /\ Input
  /\ ~entry[u].listed
  /\ Cardinality(Listed) < MaxLists
  /\ entry' = [entry EXCEPT ![u] = NewEntry]
  /\ fetcher' = Queue(fetcher, u)
  /\ UNCHANGED <<text, file, noted, poolVars, buildVars, exits, raced>>

Saving(u) == \E s \in saves : s.url = u

\* A page may ask for it twice, so the list need not be there any more.
RemoveUserList(u) ==
  /\ Input
  /\ entry' = [entry EXCEPT ![u] = NoEntry]
  /\ deletes' = [deletes EXCEPT ![u] = @ + 1]
  /\ ForContext(Forget(fetcher, u), entry', text)
  /\ raced' = IF Saving(u) \/ deletes[u] > 0 THEN raced \cup {u} ELSE raced
  /\ UNCHANGED <<text, file, saves, building, engine, exits>>

\* AddCustomRule(), and the whole text set on the Protection page.
SetCustomRules ==
  /\ Input
  /\ text' \in Texts
  /\ ForContext(fetcher, entry, text')
  /\ UNCHANGED <<entry, file, poolVars, building, engine, exits, raced>>

\* A page load.
Navigate ==
  /\ ForContext(fetcher, entry, text)
  /\ UNCHANGED <<profileVars, poolVars, building, engine, bounds, raced>>

TimePasses(u) ==
  /\ Input
  /\ entry[u].tried
  /\ entry' = [entry EXCEPT ![u].ripe = TRUE]
  /\ UNCHANGED <<text, file, fetcher, noted, poolVars, buildVars, exits, raced>>

-----------------------------------------------------------------------------
(* A download. *)

\* A bug for the checks: a failed try moves the time of the copy too.
NoteAnyTry(u, ok) == [entry EXCEPT ![u] = [listed |-> TRUE, tried |-> TRUE,
                                           ripe |-> FALSE, updated |-> fetcher.started]]

\* NoteTry(), for a list that is still there.
NoteTry(u, ok) ==
  [entry EXCEPT ![u] = [listed |-> TRUE, tried |-> TRUE, ripe |-> FALSE,
                        updated |-> IF ok THEN fetcher.started ELSE @.updated]]

\* Finish(): the entry first, then the rules, which may queue this profile's
\* lists, then the next list of the queue.
Finish(ok) ==
  LET u    == fetcher.current
      idle == [fetcher EXCEPT !.current = NoUrl, !.stage = "none",
                              !.pending = @ \ {u}]
      kept == IF entry[u].listed THEN NoteTry(u, ok) ELSE entry
  IN  /\ entry' = kept
      /\ deletes' = IF entry[u].listed THEN deletes ELSE [deletes EXCEPT ![u] = @ + 1]
      /\ \E f \in Refreshed(idle, kept) : fetcher' = StartNext(f)
      /\ NoteRules(kept, text)

\* OnDownloaded(): with a body it goes on to CheckAndSave.
OnDownloaded ==
  /\ fetcher.stage = "download"
  /\ \/ Finish(FALSE) /\ UNCHANGED <<saves, raced>>
     \/ LET u == fetcher.current
        IN  /\ fetcher' = [fetcher EXCEPT !.stage = "save"]
            /\ saves' = saves \cup {[url |-> u, copy |-> fetcher.started]}
            /\ raced' = IF Saving(u) \/ deletes[u] > 0 THEN raced \cup {u} ELSE raced
            /\ UNCHANGED <<entry, deletes, noted, builds>>
  /\ UNCHANGED <<text, file, building, engine, bounds>>

\* The reply of a job reaches the fetcher that still waits for that download.
Replied(s, stage) ==
  fetcher' = IF fetcher.stage = "save" /\ s.copy = fetcher.started
               THEN [fetcher EXCEPT !.stage = stage] ELSE fetcher

\* CheckAndSave(): not a list or not saved, or the copy is replaced in one step.
CheckAndSave(s) ==
  /\ saves' = saves \ {s}
  /\ \/ Replied(s, "unsaved") /\ UNCHANGED file
     \/ Replied(s, "saved") /\ file' = [file EXCEPT ![s.url] = s.copy]
  /\ UNCHANGED <<entry, text, noted, deletes, buildVars, bounds, raced>>

OnSaved ==
  /\ fetcher.stage \in {"saved", "unsaved"}
  /\ Finish(fetcher.stage = "saved")
  /\ UNCHANGED <<text, file, saves, building, engine, bounds, raced>>

\* DeleteFileInBackground(): nobody looks whether the copy is gone.
DeleteFile(u) ==
  /\ deletes[u] > 0
  /\ deletes' = [deletes EXCEPT ![u] = @ - 1]
  /\ \/ file' = [file EXCEPT ![u] = 0] /\ UNCHANGED raced
     \/ file[u] # 0 /\ raced' = raced \cup {u} /\ UNCHANGED file
  /\ UNCHANGED <<entry, text, fetcher, noted, saves, buildVars, bounds>>

-----------------------------------------------------------------------------
(* The load runner. *)

\* BuildCustomOnBackgroundThread(), as far as the copies.  One that cannot be
\* read is passed over.
ReadLists ==
  /\ builds # <<>>
  /\ building = NoEngine
  /\ \E missed \in SUBSET {u \in Urls : Head(builds).copies[u] # 0 /\ file[u] # 0} :
       building' = [key |-> Head(builds), missed |-> missed,
                    read |-> [u \in Urls |->
                                IF Head(builds).copies[u] = 0 \/ u \in missed
                                  THEN 0 ELSE file[u]]]
  /\ builds' = Tail(builds)
  /\ UNCHANGED <<profileVars, fetcher, noted, poolVars, engine, bounds, raced>>

\* SetCustomEngine()
SetCustomEngine ==
  /\ building # NoEngine
  /\ building' = NoEngine
  /\ engine' = IF building.key = noted THEN building ELSE engine
  /\ UNCHANGED <<profileVars, fetcher, noted, poolVars, builds, bounds, raced>>

-----------------------------------------------------------------------------
\* The browser is closed and opened again.  A job that has not begun is
\* skipped at shutdown.
Exit ==
  /\ exits < MaxExits
  /\ exits' = exits + 1
  /\ fetcher' = IdleFetcher(fetcher.started)
  /\ noted' = NotNoted
  /\ saves' = {}
  /\ deletes' = [u \in Urls |-> 0]
  /\ builds' = <<>>
  /\ building' = NoEngine
  /\ engine' = NoEngine
  /\ raced' = raced \cup {u \in Urls : \/ Saving(u) \/ deletes[u] > 0
                                       \/ u = fetcher.current /\ fetcher.stage = "saved"}
  /\ UNCHANGED <<profileVars, inputs>>

Next ==
  \/ \E u \in Urls : AddUserList(u) \/ RemoveUserList(u) \/ TimePasses(u)
                     \/ DeleteFile(u)
  \/ \E s \in saves : CheckAndSave(s)
  \/ SetCustomRules \/ Navigate \/ OnDownloaded \/ OnSaved \/ ReadLists
  \/ SetCustomEngine \/ Exit

Spec == Init /\ [][Next]_vars

\* A download ends, if only by an error, and what is posted runs.
Fairness == /\ WF_vars(OnDownloaded) /\ WF_vars(OnSaved)
            /\ WF_vars(\E s \in saves : CheckAndSave(s))
            /\ WF_vars(ReadLists) /\ WF_vars(SetCustomEngine)
FairSpec == Spec /\ Fairness

-----------------------------------------------------------------------------
(* Properties. *)

\* "queued or running" (pending_): what is pending is the list that runs and
\* those in the queue, each once, and all of them are still wanted.  The
\* fetcher waits only when something runs.  Forget() inside a download and
\* Queue() inside Finish() must both leave it so.
PendingIsQueuedOrRunning ==
  LET waiting == ToSet(fetcher.queue)
  IN  /\ fetcher.pending = waiting \cup ({fetcher.current} \ {NoUrl})
      /\ fetcher.current \notin waiting
      /\ IsInjective(fetcher.queue)
      /\ fetcher.current = NoUrl => fetcher.queue = <<>>
      /\ fetcher.pending \subseteq Listed

\* "When the copy in use was downloaded; null while there is none"
\* (UserListInfo): once nothing of a list is under way, its entry names the
\* copy that is there, and a list that was removed has none.  It is so unless
\* a delete and a save of the list were under way at once, a job was when
\* the browser was closed, or the disk refused to delete its copy.
Settled(u) == ~Saving(u) /\ deletes[u] = 0
              /\ ~(u = fetcher.current /\ fetcher.stage = "saved")
CopyIsTheOneNoted ==
  \A u \in Urls \ raced : Settled(u) => file[u] = entry[u].updated

\* "Built from rules that have changed since: a newer build is coming"
\* (SetCustomEngine): when the load runner has nothing left to do, the engine
\* is the one of the preferences as they are, built from the copies noted
\* there, but for those that could not be read: the key is noted all the same,
\* so they stay out until the rules change.  No build that was dropped, or that
\* read a copy just replaced, is the last word.
EngineIsCurrent ==
  noted # NotNoted /\ builds = <<>> /\ building = NoEngine =>
    /\ engine.key = KeyOf(entry, text)
    /\ \A u \in Urls \ (raced \cup engine.missed) :
         Settled(u) => engine.read[u] = entry[u].updated

\* Every download that is queued comes to its end: removing the list that runs,
\* failing, or queueing more from inside Finish() never stops the queue.
EveryDownloadEnds ==
  \A u \in Urls : u \in fetcher.pending ~> u \notin fetcher.pending

\* "Removed while it was being fetched: leave nothing behind" (Finish).
NothingLeftBehind ==
  \A u \in Urls : ~entry[u].listed /\ ~Saving(u) /\ deletes[u] = 0 => file[u] = 0
==============================================================================
