------------------------------- MODULE Engines -------------------------------
(***************************************************************************)
(* The engines that block: adblock_service.cc.  The first caller starts a  *)
(* load; later ones start another when half an hour has gone by, or when a *)
(* profile wants a list that no engine has been built from.  Loads run one *)
(* after another on load_runner_, and look at every file's time before     *)
(* they read it, while the updater may replace it in between.  A file can  *)
(* be locked for a moment.  (The engine of a person's own rules, built on  *)
(* the same runner, is in UserLists.)                                      *)
(***************************************************************************)
EXTENDS Naturals, Sequences, FiniteSets

CONSTANTS
  MainLists, \* the files of the main engine
  Optional,  \* the other engines; each has one file here, of its name
  MaxWrites, \* bound on the times the files are replaced, together
  MaxFaults, \* bound on the reads that fail
  MaxPosts   \* bound on the loads that wait

ASSUME EnginesAssumption ==
  /\ MainLists \cap Optional = {} /\ IsFiniteSet(Optional)
  /\ {MaxWrites, MaxFaults, MaxPosts} \subseteq Nat
  /\ MaxPosts > Cardinality(Optional)

ListFiles == MainLists \cup Optional
AllEngines == {"main"} \cup Optional
FilesOf(e) == IF e = "main" THEN MainLists ELSE {e}

VARIABLES
  writes,
  written,    \* how often every file has been written, 0 if it is not there
  faults,
  engine,     \* the engines: of every file the time noted, the text read, and
              \* whether it has the scriptlets and stubs
  wanted,     \* the optional engines that some profile has asked for
  started,    \* load_started_
  due,        \* kCheckInterval is over
  posted,     \* loads that wait on load_runner_
  load,       \* the load that runs
  resources,  \* resources.json: whether it was looked at, whether it was read
  \* History, for the properties only.
  tried       \* the engines that a load has tried since they were wanted

engineVars == <<writes, written, faults, engine, wanted, started, due, posted, load,
                resources, tried>>

Versions == 0..(MaxWrites + 1)
Nothing == [f \in ListFiles |-> 0]
NoEngine == [there |-> FALSE, time |-> Nothing, text |-> Nothing, stubs |-> FALSE]
EngineType ==
  [there : BOOLEAN, time : [ListFiles -> Versions],
   text : [ListFiles -> Versions], stubs : BOOLEAN]
NoLoad == [at |-> "none", of |-> "main", todo |-> {}, left |-> {},
           time |-> Nothing, text |-> Nothing]

EnginesTypeOK ==
  /\ written \in [ListFiles -> Versions]
  /\ engine \in [AllEngines -> EngineType]
  /\ wanted \subseteq Optional
  /\ posted \in 0..MaxPosts
  /\ load.at \in {"none", "look", "time", "text", "wishes", "next"}
  /\ load.todo \subseteq Optional /\ load.left \subseteq ListFiles
  /\ tried \subseteq wanted
  /\ started = FALSE => posted = 0 /\ load = NoLoad /\ wanted = {}

\* Bound: one file at most is not there at first.
EnginesInit ==
  /\ written \in {w \in [ListFiles -> {0, 1}] : Cardinality({f \in ListFiles : w[f] = 0}) <= 1}
  /\ writes = 0 /\ faults = 0
  /\ engine = [e \in AllEngines |-> NoEngine]
  /\ wanted = {}
  /\ started = FALSE
  /\ due = FALSE
  /\ posted = 0
  /\ load = NoLoad
  /\ resources = [seen |-> FALSE, read |-> FALSE]
  /\ tried = {}

-----------------------------------------------------------------------------
(* Callers, on several threads.  The atomic exchange and the lock make each of *)
(* these one step.                                                             *)

EnsureLoading ==
  /\ ~started \/ due
  /\ started' = TRUE
  /\ due' = FALSE
  /\ posted' = posted + 1
  /\ UNCHANGED <<writes, written, faults, engine, wanted, load, resources, tried>>

\* A bug for the checks: a load that is under way is thought to hear the wish.
PostIfIdle == IF load = NoLoad THEN posted' = posted + 1 ELSE UNCHANGED posted
\* PostLoad(): a load of its own.
PostForWish == posted' = posted + 1

\* Of the engines asked for, those nobody wanted before: one load for all of them.
Wants(es) ==
  LET fresh == {e \in es \ wanted : ~engine[e].there} IN
  /\ fresh # {}
  /\ wanted' = wanted \cup fresh
  /\ PostForWish
  /\ UNCHANGED <<writes, written, faults, engine, due, load, resources, tried>>

\* WantLists(), when a profile's settings are read.
WantLists(es) == Wants(es) /\ started' = TRUE

\* EnginesFor(), of a request of a profile that has these lists on.
EnginesFor(es) == engine["main"].there /\ Wants(es) /\ UNCHANGED started

-----------------------------------------------------------------------------
(* LoadOnBackgroundThread(). *)

\* LoadResources(): once per file, readable or not.  Engines that are in use get
\* what was read.  Nothing replaces the file while the browser runs.
LoadResources(readable) ==
  IF resources.seen THEN UNCHANGED <<resources, engine, faults>>
  ELSE /\ resources' = [seen |-> TRUE, read |-> readable]
       /\ engine' = [e \in AllEngines |-> [engine[e] EXCEPT !.stubs = @ \/ readable]]
       /\ faults' = IF readable THEN faults ELSE faults + 1

BeginLoad(readable) ==
  /\ load = NoLoad /\ posted > 0
  /\ readable \/ faults < MaxFaults
  /\ posted' = posted - 1
  /\ LoadResources(readable)
  /\ load' = [load EXCEPT !.at = "look"]
  /\ UNCHANGED <<writes, written, wanted, started, due, tried>>

After(e) == IF e = "main" THEN "wishes" ELSE "next"
TimesOf(e) == [f \in ListFiles |-> IF f \in FilesOf(e) THEN written[f] ELSE 0]

\* LoadMain(), LoadCookies(), LoadRegional(), LoadAggressive(): without a file, or
\* with an engine of the files as they are, there is nothing to do.
UpToDate(e) == engine[e].there /\ engine[e].time = TimesOf(e)
Look ==
  /\ load.at = "look"
  /\ LET e == load.of IN
     IF (\A f \in FilesOf(e) : written[f] = 0) \/ UpToDate(e)
     THEN load' = [load EXCEPT !.at = After(e)]
     ELSE load' = [load EXCEPT !.at = "time", !.left = FilesOf(e),
                     !.time = Nothing, !.text = Nothing]
  /\ tried' = IF load.of \in wanted THEN tried \cup {load.of} ELSE tried
  /\ UNCHANGED <<writes, written, faults, engine, wanted, started, due, posted, resources>>

\* Build(), file by file in a certain order: first the time, then the text.
NoteTime ==
  /\ load.at = "time" /\ load.left # {}
  /\ LET f == CHOOSE g \in load.left : TRUE IN
     load' = IF written[f] = 0 THEN [load EXCEPT !.left = @ \ {f}]
             ELSE [load EXCEPT !.at = "text", !.time[f] = written[f]]
  /\ UNCHANGED <<writes, written, faults, engine, wanted, started, due, posted, resources, tried>>

\* A bug for the checks: the time of a file that could not be read is kept.
TimeKept(f) == load.time[f]
\* A file that could not be read is not among the sources.
TimeUnread(f) == 0

InHand == {f \in load.left : load.time[f] # 0}

ReadText(f, readable) ==
  /\ load.at = "text"
  /\ f \in InHand
  /\ readable \/ faults < MaxFaults
  /\ faults' = IF readable THEN faults ELSE faults + 1
  /\ load' = IF readable
             THEN [load EXCEPT !.at = "time", !.left = @ \ {f}, !.text[f] = written[f]]
             ELSE [load EXCEPT !.at = "time", !.left = @ \ {f}, !.time[f] = TimeUnread(f)]
  /\ UNCHANGED <<writes, written, engine, wanted, started, due, posted, resources, tried>>

\* With no text at all the engine in use is left alone.
PutEngine ==
  /\ load.at = "time" /\ load.left = {}
  /\ engine' = IF load.text = Nothing THEN engine
               ELSE [engine EXCEPT ![load.of] =
                       [there |-> TRUE, time |-> load.time, text |-> load.text,
                        stubs |-> resources.read]]
  /\ load' = [load EXCEPT !.at = After(load.of), !.time = Nothing, !.text = Nothing]
  /\ UNCHANGED <<writes, written, faults, wanted, started, due, posted, resources, tried>>

\* The wishes of this moment, behind the main engine.
TakeWishes ==
  /\ load.at = "wishes"
  /\ load' = [load EXCEPT !.at = "next", !.todo = wanted]
  /\ UNCHANGED <<writes, written, faults, engine, wanted, started, due, posted, resources, tried>>

\* One after another, in a certain order.
NextEngine ==
  /\ load.at = "next" /\ load.todo # {}
  /\ LET e == CHOOSE x \in load.todo : TRUE IN
     load' = [load EXCEPT !.at = "look", !.of = e, !.todo = @ \ {e}]
  /\ UNCHANGED <<writes, written, faults, engine, wanted, started, due, posted, resources, tried>>

EndLoad ==
  /\ load.at = "next" /\ load.todo = {}
  /\ load' = NoLoad
  /\ UNCHANGED <<writes, written, faults, engine, wanted, started, due, posted, resources, tried>>

-----------------------------------------------------------------------------
\* The list updater replaces a file (ListUpdater), or it appears.
FileWritten(f) ==
  /\ writes < MaxWrites
  /\ writes' = writes + 1
  /\ written' = [written EXCEPT ![f] = @ + 1]
  /\ UNCHANGED <<faults, engine, wanted, started, due, posted, load, resources, tried>>

\* Bound: the interval is over only when a load can still be posted for everybody.
IntervalEnds ==
  /\ started /\ ~due
  /\ posted + Cardinality(Optional \ wanted) < MaxPosts
  /\ due' = TRUE
  /\ UNCHANGED <<writes, written, faults, engine, wanted, started, posted, load, resources, tried>>

LoadProceeds ==
  \/ BeginLoad(TRUE) \/ Look \/ PutEngine \/ TakeWishes \/ EndLoad
  \/ NoteTime \/ NextEngine \/ \E f \in ListFiles : ReadText(f, TRUE)

EnginesNext ==
  \/ EnsureLoading \/ IntervalEnds
  \/ \E es \in SUBSET Optional : WantLists(es) \/ EnginesFor(es)
  \/ LoadProceeds
  \/ BeginLoad(FALSE)
  \/ \E f \in ListFiles : ReadText(f, FALSE) \/ FileWritten(f)

EnginesSpec == EnginesInit /\ [][EnginesNext]_engineVars

-----------------------------------------------------------------------------
(* Properties *)

\* A wish is heard: as long as no load has tried a wanted engine, a load is on its
\* way that will, whenever the wish was made: one that waits, or one that has yet to
\* come to the wishes or to this engine.
WishIsHeard ==
  \A e \in wanted \ tried :
    \/ posted > 0 \/ load.at = "wishes"
    \/ load.of = "main" /\ load.at \in {"look", "time", "text"}
    \/ e \in load.todo
    \/ load.of = e /\ load.at = "look"

\* When the files stay as they are, every engine that is wanted comes to hold
\* them, with the scriptlets and stubs if those were read.
EngineIsUpToDate(e) ==
  LET on == {f \in FilesOf(e) : written[f] > 0} IN
  on # {} => /\ engine[e].there
             /\ \A f \in FilesOf(e) : engine[e].text[f] = written[f]
             /\ engine[e].stubs = resources.read

EnginesCurrent == \A e \in {"main"} \cup wanted : EngineIsUpToDate(e)
=============================================================================
