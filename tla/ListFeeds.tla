------------------------------ MODULE ListFeeds ------------------------------
(***************************************************************************)
(* The lists that a build packs: tools/get_filterlists.py,                 *)
(* get_scamlist.py and get_ubo_resources.py, run one after the other on    *)
(* the output folder of the build.  Two of them keep sources.json, which   *)
(* says of every list which bytes it is and where they came from.  A       *)
(* source may fail, and a run may be killed between any two files or in    *)
(* the middle of one; what it leaves is what the next run finds.           *)
(***************************************************************************)
EXTENDS Integers, FiniteSets

CONSTANTS
  Whole,         \* lists made of all their sources or not written
  Regional,      \* regional lists of this tool or of an older one
  MaxFeedRuns,   \* bound on the runs of the tools
  NoFile, Cut    \* a file that is not there, one that was cut short

\* easylist.txt may be made of some of its sources, and so may the scam list.
FilterLists == {"easylist"} \cup Whole \cup Regional
FeedFiles == FilterLists \cup {"scamlist", "resources"}
\* easylist.txt has its licence in sources.json only.
Noticed == FeedFiles \ {"easylist"}
Described == FeedFiles \ {"scamlist"}

Contents == {NoFile, Cut} \cup 1..MaxFeedRuns

\* No two lists have one name, and a sources.json that was cut short is none.
ASSUME FeedsAssumption ==
  /\ Whole \cap Regional = {}
  /\ {"easylist", "scamlist", "resources"} \cap (Whole \cup Regional) = {}
  /\ MaxFeedRuns \in Nat
  /\ NoFile # Cut /\ {NoFile, Cut} \cap (1..MaxFeedRuns) = {}
  /\ Cut \notin [Described -> Contents]

VARIABLES
  file,     \* what is in every list: the run that wrote it
  notice,   \* and in its notice
  index,    \* regional/index.json
  sources,  \* sources.json: which bytes every list is said to have, or Cut
  tool,     \* the tool that is running
  feedRuns,
  \* History, for the properties only.
  fresh     \* the tools of a release that have run with success, in order

feedVars == <<file, notice, index, sources, tool, feedRuns, fresh>>

NothingSaid == [l \in Described |-> NoFile]
Idle == [at |-> "idle", name |-> "none", todo |-> {}, built |-> {}, regional |-> {},
         lists |-> NothingSaid, failed |-> FALSE]

FeedsTypeOK ==
  /\ file \in [FeedFiles -> Contents]
  /\ notice \in [Noticed -> Contents]
  /\ index \in (SUBSET Regional) \cup {Cut}
  /\ sources \in [Described -> Contents] \cup {Cut}
  /\ tool.at \in {"idle", "easylist", "fetch", "lists", "remove", "sources", "write"}
  /\ feedRuns \in 0..MaxFeedRuns
  /\ fresh \in 0..3

FeedsInit ==
  /\ file = [l \in FeedFiles |-> NoFile]
  /\ notice = [l \in Noticed |-> NoFile]
  /\ index = {}
  /\ sources = NothingSaid
  /\ tool = Idle
  /\ feedRuns = 0
  /\ fresh = 0

\* A bug for the checks: what another tool wrote down is forgotten.
SourcesForgotten == NothingSaid
\* read_manifest(): one that cannot be read is an empty one.
SourcesRead == IF sources = Cut THEN NothingSaid ELSE sources

\* What the run in hand writes.
Mine == feedRuns

Stops(ok, nth) ==
  /\ tool' = Idle
  /\ fresh' = IF ok /\ fresh = nth - 1 THEN nth ELSE 0

-----------------------------------------------------------------------------
(* get_filterlists.py *)

\* `regional' are the regional lists the tool has at this time, and none with
\* --no-regional, which leaves those that are there.
StartFilterLists(regional, all) ==
  /\ tool.at = "idle"
  /\ feedRuns < MaxFeedRuns
  /\ feedRuns' = feedRuns + 1
  /\ tool' = [Idle EXCEPT !.at = "easylist",
                !.name = IF all THEN "full" ELSE "noregional",
                !.regional = IF all THEN regional ELSE {},
                !.lists = SourcesRead]
  /\ fresh' = 0
  /\ UNCHANGED <<file, notice, index, sources>>

\* build_filter_list(): with no source at all the old file is left.
BuildEasylist(healthy) ==
  /\ tool.at = "easylist"
  /\ file' = IF healthy THEN [file EXCEPT !["easylist"] = Mine] ELSE file
  /\ tool' = [tool EXCEPT !.at = "fetch", !.failed = ~healthy,
                !.lists = IF healthy THEN [@ EXCEPT !["easylist"] = Mine] ELSE @]
  /\ UNCHANGED <<notice, index, sources, feedRuns, fresh>>

\* build_all() and the licence texts: what came back whole, with its licence.
FetchLists(complete) ==
  /\ tool.at = "fetch"
  /\ complete \subseteq Whole \cup tool.regional
  /\ tool' = [tool EXCEPT !.at = "lists", !.todo = complete, !.built = complete,
                !.failed = @ \/ complete # Whole \cup tool.regional]
  /\ UNCHANGED <<file, notice, index, sources, feedRuns, fresh>>

WriteList(l) ==
  /\ tool.at = "lists"
  /\ l \in tool.todo
  /\ file' = [file EXCEPT ![l] = Mine]
  /\ notice' = [notice EXCEPT ![l] = Mine]
  /\ tool' = [tool EXCEPT !.todo = @ \ {l}, !.lists[l] = Mine]
  /\ UNCHANGED <<index, sources, feedRuns, fresh>>

\* "A list that is no longer written must not linger and be packaged."
Lingering == {r \in Regional : r \notin tool.built}

Without(ls) == [l \in FeedFiles |-> IF l \in ls THEN NoFile ELSE file[l]]

RemoveLingering ==
  /\ tool.at = "lists" /\ tool.name = "full"
  /\ tool.todo = {}
  /\ file' = Without(Lingering)
  /\ tool' = [tool EXCEPT !.at = "remove",
                !.lists = [l \in Described |->
                             IF l \in Lingering /\ file[l] # NoFile THEN NoFile ELSE @[l]]]
  /\ UNCHANGED <<notice, index, sources, feedRuns, fresh>>

WriteIndex ==
  /\ tool.at = "remove"
  /\ notice' = [l \in Noticed |-> IF l \in Lingering THEN NoFile ELSE notice[l]]
  /\ index' = Regional \cap tool.built
  /\ tool' = [tool EXCEPT !.at = "sources"]
  /\ UNCHANGED <<file, sources, feedRuns, fresh>>

WriteSources ==
  /\ \/ tool.at = "sources"
     \/ tool.at = "lists" /\ tool.name = "noregional" /\ tool.todo = {}
  /\ sources' = tool.lists
  /\ Stops(tool.name = "full" /\ ~tool.failed, 1)
  /\ UNCHANGED <<file, notice, index, feedRuns>>

-----------------------------------------------------------------------------
(* get_scamlist.py and get_ubo_resources.py: everything is fetched first. *)

StartFeed(name) ==
  /\ tool.at = "idle"
  /\ feedRuns < MaxFeedRuns
  /\ feedRuns' = feedRuns + 1
  /\ tool' = [Idle EXCEPT !.at = "write", !.name = name]
  /\ UNCHANGED <<file, notice, index, sources, fresh>>

FeedFails ==
  /\ tool.at = "write"
  /\ Stops(FALSE, 0)
  /\ UNCHANGED <<file, notice, index, sources, feedRuns>>

WriteScamList ==
  /\ tool.at = "write" /\ tool.name = "scamlist"
  /\ file' = [file EXCEPT !["scamlist"] = Mine]
  /\ notice' = [notice EXCEPT !["scamlist"] = Mine]
  /\ Stops(TRUE, 2)
  /\ UNCHANGED <<index, sources, feedRuns>>

\* sources.json is read only now, after the fetch.
WriteResources ==
  /\ tool.at = "write" /\ tool.name = "resources"
  /\ file' = [file EXCEPT !["resources"] = Mine]
  /\ notice' = [notice EXCEPT !["resources"] = Mine]
  /\ sources' = [SourcesRead EXCEPT !["resources"] = Mine]
  /\ Stops(TRUE, 3)
  /\ UNCHANGED <<index, feedRuns>>

-----------------------------------------------------------------------------
(* A run that is killed, between two files or in the middle of one. *)

\* What the write in hand may have left.
CutFile ==
  /\ \/ \E l \in tool.todo : file' = [file EXCEPT ![l] = Cut]
     \/ tool.at = "easylist" /\ file' = [file EXCEPT !["easylist"] = Cut]
     \/ tool.at = "write" /\ file' = [file EXCEPT ![tool.name] = Cut]
     \/ /\ tool.at = "lists" /\ tool.name = "full" /\ tool.todo = {}
        /\ \E ls \in SUBSET Lingering : file' = Without(ls)
  /\ UNCHANGED <<notice, index, sources>>

FileWithoutNotice ==
  /\ tool.at \in {"lists", "write"}
  /\ \E l \in tool.todo \cup (IF tool.at = "write" THEN {tool.name} ELSE {}) :
       /\ file' = [file EXCEPT ![l] = Mine]
       /\ notice' \in {notice, [notice EXCEPT ![l] = Cut], [notice EXCEPT ![l] = Mine]}
  /\ UNCHANGED <<index, sources>>

CutIndex ==
  /\ tool.at = "remove"
  /\ index' = Cut
  /\ UNCHANGED <<file, notice, sources>>

CutSources ==
  /\ tool.at = "sources"
  /\ sources' = Cut
  /\ UNCHANGED <<file, notice, index>>

\* Bound: a kill is followed as long as the three runs of a release may come after.
Killed ==
  /\ tool.at # "idle"
  /\ feedRuns + 3 <= MaxFeedRuns
  /\ Stops(FALSE, 0)
  /\ \/ UNCHANGED <<file, notice, index, sources>>
     \/ CutFile \/ FileWithoutNotice \/ CutIndex \/ CutSources
  /\ UNCHANGED feedRuns

FeedsNext ==
  \/ \E regional \in SUBSET Regional, all \in BOOLEAN : StartFilterLists(regional, all)
  \/ \E healthy \in BOOLEAN : BuildEasylist(healthy)
  \/ \E complete \in SUBSET (Whole \cup Regional) : FetchLists(complete)
  \/ \E l \in Whole \cup Regional : WriteList(l)
  \/ RemoveLingering \/ WriteIndex \/ WriteSources
  \/ \E name \in {"scamlist", "resources"} : StartFeed(name)
  \/ FeedFails \/ WriteScamList \/ WriteResources
  \/ Killed

FeedsSpec == FeedsInit /\ [][FeedsNext]_feedVars

\* After the three tools have run with success as release.yml runs them,
\* whatever came before, every list in the folder is one that sources.json
\* describes with the bytes that are there and that has its own notice, the
\* regional lists there are those of the index, and nothing is cut short.
SourcesDescribeLists ==
  fresh = 3 =>
    /\ \A l \in Described : file[l] # NoFile => sources[l] = file[l]
    /\ \A l \in Noticed : notice[l] = file[l]
    /\ index = {r \in Regional : file[r] # NoFile}
    /\ \A l \in FeedFiles : file[l] # Cut /\ (l \notin Regional => file[l] # NoFile)
=============================================================================
