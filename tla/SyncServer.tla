------------------------------ MODULE SyncServer ------------------------------
(***************************************************************************)
(* The sync service: sync-server/server/server.go over store/store.go.     *)
(*                                                                         *)
(* One chain is modelled; chains share nothing but the store's lock.  A    *)
(* request is a goroutine.  It takes the lock once to read the birthday,   *)
(* once more to set one when there is none, and once more to do what it    *)
(* was sent for, so other requests, and the death of the server, come      *)
(* between any two of these.  Each use of the lock is one action: memory   *)
(* and file change together, or the save fails and only memory does.  (A   *)
(* server that dies while it saves leaves the old file or the new one.)    *)
(*                                                                         *)
(* The devices are browsers, outside this repository: all that is assumed  *)
(* of them is what the protocol asks.  A device waits for one answer at a  *)
(* time, may give up on it, keeps the birthday and the tokens it is given, *)
(* and starts over when told its birthday is not the chain's.  An answer   *)
(* is handed over in the step that makes it: only that device reads what   *)
(* it changes, and an answer lost on the way is one given up on before.    *)
(***************************************************************************)
EXTENDS Integers, FiniteSets, Sequences, FiniteSetsExt

CONSTANTS
  Devices,
  Ids,        \* ids of items
  TypeOf,     \* the data type of each
  FieldsOf,   \* the fields its specifics may have set: the one of its type, and
              \* `encrypted' beside it
  Batches,    \* what one commit may carry: sequences of ids
  Polls,      \* the sets of types one request for updates may ask for
  MaxBatch,   \* maxBatch
  MaxRequests,\* bound on the requests in flight
  MaxCommits, \* bound on the commits sent
  MaxClears,  \* bound on the resets sent
  MaxFaults   \* bound on failed saves, lost answers and crashes

Types  == {TypeOf[i] : i \in Ids}
Fields == UNION {FieldsOf[i] : i \in Ids}

ASSUME SyncAssumption ==
  /\ IsFiniteSet(Ids)
  /\ TypeOf \in [Ids -> Types]
  /\ FieldsOf \in [Ids -> SUBSET Fields]
  /\ Batches \subseteq Seq(Ids)
  /\ \A b \in Batches : \A j, k \in DOMAIN b : b[j] = b[k] => j = k
  /\ Polls \subseteq (SUBSET Types) \ {{}}
  /\ MaxBatch \in Nat \ {0}
  /\ MaxRequests \in Nat
  /\ MaxCommits \in Nat
  /\ MaxClears \in Nat
  /\ MaxFaults \in Nat

VARIABLES
  chain,   \* the chain in memory
  disk,    \* the chain's file
  reqs,    \* requests being handled
  device,  \* what each device remembers
  births,  \* birthdays made so far; they are 1, 2, ... and none repeats
  commits, \* commits sent
  clears,  \* resets sent
  faults,  \* faults so far
  \* History, for the properties only.
  acked,   \* commits answered with SUCCESS
  undone   \* the server died with something in memory that was not on disk

vars == <<chain, disk, reqs, device, births, commits, clears, faults, acked,
          undone>>

-----------------------------------------------------------------------------
NoBirthday == 0
Birthdays == 1 .. births

\* An item, by its version, 0 when there is none, and its DataType.  `late', for
\* the properties only: its commit named a birthday that was no longer the chain's.
NoField == "none"
NoItem == [version |-> 0, type |-> NoField, late |-> FALSE]
NewChain == [birthday |-> NoBirthday, version |-> 0,
             items |-> [i \in Ids |-> NoItem]]
NewDevice == [birthday |-> NoBirthday, token |-> [t \in Types |-> 0],
              seen |-> [i \in Ids |-> 0]]

ItemType == [version : Nat, type : Fields \cup {NoField}, late : BOOLEAN]
ChainType == [birthday : Birthdays \cup {NoBirthday}, version : Nat,
              items : [Ids -> ItemType]]
DeviceType == [birthday : Birthdays \cup {NoBirthday}, token : [Types -> Nat],
               seen : [Ids -> Nat]]
RequestType ==
  [dev : Devices, awaited : BOOLEAN, kind : {"commit", "updates", "clear"},
   given : Birthdays \cup {NoBirthday}, ids : Batches \cup {<<>>},
   types : SUBSET Types, since : Nat,
   pc : {"arrived", "unnamed", "checked"}, birthday : Birthdays \cup {NoBirthday},
   stale : BOOLEAN]

TypeOK ==
  /\ chain \in ChainType
  /\ disk \in ChainType
  /\ reqs \subseteq RequestType
  /\ \A r \in reqs : r.pc # "arrived" => r.birthday \in Birthdays
  /\ device \in [Devices -> DeviceType]
  /\ births \in Nat
  /\ commits \in Nat
  /\ clears \in Nat
  /\ faults \in Nat
  /\ acked \subseteq [id : Ids, version : Nat, birthday : Birthdays]
  /\ undone \in BOOLEAN

Init ==
  /\ chain = NewChain
  /\ disk = NewChain
  /\ reqs = {}
  /\ device = [d \in Devices |-> NewDevice]
  /\ births = 0
  /\ commits = 0
  /\ clears = 0
  /\ faults = 0
  /\ acked = {}
  /\ undone = FALSE

-----------------------------------------------------------------------------
(* store.go *)

\* A failed saveLocked() leaves the file as it was, and memory changed.
Saved(c) == chain' = c /\ disk' = c /\ UNCHANGED faults
NotSaved(c) == /\ faults < MaxFaults
               /\ chain' = c
               /\ UNCHANGED disk
               /\ faults' = faults + 1

\* A bug for the checks: the items of one commit share a version.
CommittedTogether(ids, types, late) ==
  [chain EXCEPT
     !.version = @ + 1,
     !.items = [i \in Ids |->
       IF \E k \in DOMAIN ids : ids[k] = i
         THEN [version |-> chain.version + 1, type |-> types[i], late |-> late]
         ELSE chain.items[i]]]

\* Commit(): each item takes the next version, whatever was there under its id.
Committed(ids, types, late) ==
  [chain EXCEPT
     !.version = @ + Len(ids),
     !.items = [i \in Ids |->
       IF \E k \in DOMAIN ids : ids[k] = i
         THEN [version |-> chain.version + (CHOOSE k \in DOMAIN ids : ids[k] = i),
               type |-> types[i], late |-> late]
         ELSE chain.items[i]]]

\* Updates(): the oldest `limit' of the items newer than `since'.
Newer(since, types) ==
  {i \in Ids : /\ chain.items[i].version > since
               /\ types = {} \/ chain.items[i].type \in types}
Updates(since, types, limit) ==
  LET out == Newer(since, types)
  IN  {i \in out : Cardinality({j \in out : chain.items[j].version
                                            < chain.items[i].version}) < limit}

\* Clear()
Cleared == NewChain

-----------------------------------------------------------------------------
(* What the devices send. *)

\* In flight, nothing known of the chain yet.  `stale', for the properties
\* only: the device holds a birthday, and it is not the chain's.
Request(d, kind, ids, types, since) ==
  [dev |-> d, awaited |-> TRUE, kind |-> kind, given |-> device[d].birthday,
   ids |-> ids, types |-> types, since |-> since, pc |-> "arrived",
   birthday |-> NoBirthday,
   stale |-> device[d].birthday \notin {NoBirthday, chain.birthday}]

Idle(d) == \A r \in reqs : r.dev # d \/ ~r.awaited

Send(r) ==
  /\ Idle(r.dev)
  /\ Cardinality(reqs) < MaxRequests
  /\ reqs' = reqs \cup {r}
  /\ UNCHANGED <<chain, disk, device, births, faults, acked, undone>>

SendCommit(d) ==
  /\ commits < MaxCommits
  /\ commits' = commits + 1
  /\ \E ids \in Batches : Send(Request(d, "commit", ids, {}, 0))
  /\ UNCHANGED clears

SendClear(d) ==
  /\ clears < MaxClears
  /\ clears' = clears + 1
  /\ Send(Request(d, "clear", <<>>, {}, 0))
  /\ UNCHANGED commits

\* A bug for the checks: the highest token decides where the batch starts.
SinceHighest(d, types) == Max({device[d].token[t] : t \in types})

\* "The lowest one decides where this batch starts."
Since(d, types) == Min({device[d].token[t] : t \in types})

Poll(d, types) ==
  /\ Send(Request(d, "updates", <<>>, types, Since(d, types)))
  /\ UNCHANGED <<commits, clears>>

SendPoll(d) == \E types \in Polls : Poll(d, types)

\* The device, or something on the way, closes the connection; the goroutine
\* goes on.
GiveUp(r) ==
  /\ r.awaited
  /\ faults < MaxFaults
  /\ faults' = faults + 1
  /\ reqs' = (reqs \ {r}) \cup {[r EXCEPT !.awaited = FALSE]}
  /\ UNCHANGED <<chain, disk, device, births, commits, clears, acked, undone>>

-----------------------------------------------------------------------------
(* handleCommand() *)

\* The device of an answered request gets `d'; one that was given up on goes
\* nowhere.
Answer(r, d) ==
  /\ reqs' = reqs \ {r}
  /\ device' = IF r.awaited THEN [device EXCEPT ![r.dev] = d] ELSE device

\* A bug for the checks: a reset does not reach those that hold a birthday.
AcceptsAny(r, birthday) == TRUE

\* "A client holding an old birthday must start over."
Accepts(r, birthday) == r.given \in {NoBirthday, birthday}

Named(r, birthday) ==
  IF Accepts(r, birthday)
    THEN /\ reqs' = (reqs \ {r}) \cup
                      {[r EXCEPT !.pc = "checked", !.birthday = birthday]}
         /\ UNCHANGED device
    ELSE Answer(r, NewDevice)

\* A bug for the checks: a chain without a birthday is used as it is.
ReadAnyBirthday(r) ==
  /\ r.pc = "arrived"
  /\ Named(r, chain.birthday)
  /\ UNCHANGED <<chain, disk, births, commits, clears, faults, acked, undone>>

\* Birthday(), and newBirthday() when there is none.  The check of the given
\* birthday uses nothing but what was read here.
ReadBirthday(r) ==
  /\ r.pc = "arrived"
  /\ \/ /\ chain.birthday # NoBirthday
        /\ Named(r, chain.birthday)
        /\ UNCHANGED births
     \/ /\ chain.birthday = NoBirthday
        /\ births' = births + 1
        /\ reqs' = (reqs \ {r}) \cup
                     {[r EXCEPT !.pc = "unnamed", !.birthday = births + 1]}
        /\ UNCHANGED device
  /\ UNCHANGED <<chain, disk, commits, clears, faults, acked, undone>>

\* SetBirthday(), whatever the birthday has become meanwhile.  When the save
\* fails the device gets an error, and memory keeps the birthday.
SetBirthday(r) ==
  /\ r.pc = "unnamed"
  /\ LET c == [chain EXCEPT !.birthday = r.birthday]
     IN  \/ Saved(c) /\ Named(r, r.birthday)
         \/ NotSaved(c) /\ Answer(r, device[r.dev])
  /\ UNCHANGED <<births, commits, clears, acked, undone>>

\* dataTypeOf(): the number of the first field that Range yields, in an order it
\* leaves undefined; none when there is no field it knows.
dataTypeOf(i) == IF FieldsOf[i] = {} THEN {NoField} ELSE FieldsOf[i]
DataTypes == {types \in [Ids -> Fields \cup {NoField}] :
                \A i \in Ids : types[i] \in dataTypeOf(i)}

\* A bug for the checks: the answer is SUCCESS whether it was saved or not.
CommitAnyway(r) ==
  /\ r.pc = "checked" /\ r.kind = "commit"
  /\ \E types \in DataTypes :
     LET c == Committed(r.ids, types, r.given \notin {NoBirthday, chain.birthday})
         entries == {r.ids[k] : k \in DOMAIN r.ids}
         d == [device[r.dev] EXCEPT
                 !.birthday = r.birthday,
                 !.seen = [i \in Ids |-> IF i \in entries THEN c.items[i].version
                                                          ELSE @[i]]]
     IN  /\ Saved(c) \/ NotSaved(c)
         /\ Answer(r, d)
         /\ acked' = acked \cup {[id |-> i, version |-> c.items[i].version,
                                  birthday |-> r.birthday] : i \in entries}
  /\ UNCHANGED <<births, commits, clears, undone>>

\* commit() of entries that come under these types: SUCCESS and the new versions, or
\* TRANSIENT_ERROR for every entry.
CommitAs(r, types) ==
  /\ r.pc = "checked" /\ r.kind = "commit"
  /\ LET c == Committed(r.ids, types, r.given \notin {NoBirthday, chain.birthday})
         entries == {r.ids[k] : k \in DOMAIN r.ids}
         named == [device[r.dev] EXCEPT !.birthday = r.birthday]
         success == [named EXCEPT
                       !.seen = [i \in Ids |-> IF i \in entries
                                                 THEN c.items[i].version
                                                 ELSE @[i]]]
     IN  \/ /\ Saved(c)
            /\ Answer(r, success)
            /\ acked' = acked \cup {[id |-> i, version |-> c.items[i].version,
                                     birthday |-> r.birthday] : i \in entries}
         \/ /\ NotSaved(c)
            /\ Answer(r, named)
            /\ UNCHANGED acked
  /\ UNCHANGED <<births, commits, clears, undone>>

Commit(r) == \E types \in DataTypes : CommitAs(r, types)

\* A bug for the checks: the token of a full batch is short of its last item.
ReachedShort(items) ==
  IF Cardinality(items) = MaxBatch
    THEN Max({chain.items[i].version : i \in items}) - 1
    ELSE chain.version

\* "Tell the client how far it has now read."
Reached(items) ==
  IF Cardinality(items) = MaxBatch
    THEN Max({chain.items[i].version : i \in items})
    ELSE chain.version

\* getUpdates()
GetUpdates(r) ==
  /\ r.pc = "checked" /\ r.kind = "updates"
  /\ LET items == Updates(r.since, r.types, MaxBatch)
     IN  Answer(r, [birthday |-> r.birthday,
                    token |-> [t \in Types |-> IF t \in r.types THEN Reached(items)
                                               ELSE device[r.dev].token[t]],
                    seen |-> [i \in Ids |-> IF i \in items
                                              THEN chain.items[i].version
                                              ELSE device[r.dev].seen[i]]])
  /\ UNCHANGED <<chain, disk, births, commits, clears, faults, acked, undone>>

\* The answer carries the birthday that was just thrown away; the device that
\* asked for the reset starts over.
Clear(r) ==
  /\ r.pc = "checked" /\ r.kind = "clear"
  /\ \/ Saved(Cleared) /\ Answer(r, NewDevice)
     \/ NotSaved(Cleared) /\ Answer(r, device[r.dev])
  /\ UNCHANGED <<births, commits, clears, acked, undone>>

\* The server dies and is started again: New() reads the file, and nobody gets
\* an answer.
Restart ==
  /\ faults < MaxFaults
  /\ faults' = faults + 1
  /\ chain' = disk
  /\ reqs' = {}
  /\ undone' = (undone \/ chain # disk)
  /\ UNCHANGED <<disk, device, births, commits, clears, acked>>

Handle(r) == ReadBirthday(r) \/ SetBirthday(r) \/ Commit(r) \/ GetUpdates(r)
             \/ Clear(r)

Next ==
  \/ \E d \in Devices : SendCommit(d) \/ SendClear(d) \/ SendPoll(d)
  \/ \E r \in reqs : Handle(r) \/ GiveUp(r)
  \/ Restart

Spec == Init /\ [][Next]_vars

\* A goroutine that has a request goes on, and a device keeps polling for all
\* its types, as the browser does.
Fairness ==
  \A d \in Devices : /\ WF_vars(\E r \in reqs : r.dev = d /\ Handle(r))
                     /\ SF_vars(Poll(d, Types))
FairSpec == Spec /\ Fairness

-----------------------------------------------------------------------------
(* Properties. *)

\* Versions number the writes of a chain: no two items share one and none is
\* beyond the chain's, in memory and on disk.  The batches of getUpdates(),
\* which cut at a version, rest on this.
Numbered(c) ==
  \A i, j \in Ids :
    c.items[i].version # 0 =>
      /\ c.items[i].version <= c.version
      /\ c.items[i].version = c.items[j].version => i = j
VersionsNumberItems == Numbered(chain) /\ Numbered(disk)

\* What was answered with SUCCESS is on disk as long as the file has the
\* birthday the answer had: Commit() answers after the rename.
Durable ==
  \A a \in acked : disk.birthday = a.birthday =>
                     disk.items[a.id].version >= a.version

\* "Updates returns every item of the given types newer than sinceVersion" (Updates):
\* a device whose birthday is the chain's has every item up to the token of the item's
\* type.  No batch boundary, late request, lost answer or race of requests loses one, as
\* long as the server did not die with changes it could not save.  Left out is an item
\* that is stored under another field of its specifics, which dataTypeOf() came to first:
\* no poll for its type returns it, while the tokens go past it.
SeenToToken(i) ==
  \A d \in Devices :
    device[d].birthday = chain.birthday /\ chain.birthday # NoBirthday
    /\ chain.items[i].version \in 1 .. device[d].token[TypeOf[i]]
    => device[d].seen[i] >= chain.items[i].version
Filed(i) == chain.items[i].type = TypeOf[i]
NoMissedUpdate == ~undone => \A i \in Ids : Filed(i) => SeenToToken(i)

\* "This is how a reset from one device reaches the others": a request that
\* arrives with a birthday the chain no longer has is never carried out, not
\* even when the chain gets another birthday, or the server dies, meanwhile.
StaleIsRefused == \A r \in reqs : r.stale => r.pc # "checked"

\* "A client holding an old birthday must start over", as it is written: no
\* item came into the chain from a client that held another birthday.
NothingFromBefore == \A i \in Ids : ~chain.items[i].late

\* When nothing more is sent but polls, every device ends up with the chain's
\* birthday and with every item of it that is stored under its type.
InSync(d) == /\ device[d].birthday = chain.birthday
             /\ \A i \in Ids : Filed(i) => device[d].seen[i] = chain.items[i].version
AllEndUpInSync == <>[](undone \/ \A d \in Devices : InSync(d))
==============================================================================
