--------------------------- MODULE SyncServerProofs ---------------------------
(***************************************************************************)
(* Proofs about SyncServer, for any devices, items, batches and number of  *)
(* requests.  IInv is the inductive invariant.  What it adds to the        *)
(* properties is that a birthday on its way into the chain is still        *)
(* nobody's (Fresh), and that memory keeps what was acknowledged as well   *)
(* as the file does (Kept).  ReadInv adds what devices know of the chain.  *)
(***************************************************************************)
EXTENDS SyncServer, FiniteSetTheorems, WellFoundedInduction, TLAPS

\* A commit carries a batch, a request for updates the token it starts from.
WellFormed == \A r \in reqs : r.kind = "commit" => r.ids \in Batches

\* A birthday that was made for the chain and not set yet.
Unset(b) == \E r \in reqs : r.pc = "unnamed" /\ r.birthday = b

\* Nobody else has it.
Fresh ==
  \A r \in reqs : r.pc = "unnamed" =>
    /\ r.birthday \notin {chain.birthday, disk.birthday}
    /\ \A q \in reqs : /\ q.given # r.birthday
                       /\ q.pc # "arrived" /\ q.birthday = r.birthday => q = r
    /\ \A d \in Devices : device[d].birthday # r.birthday
    /\ \A a \in acked : a.birthday # r.birthday

Holds(c) == \A a \in acked : c.birthday = a.birthday =>
                               c.items[a.id].version >= a.version
Kept == Holds(chain) /\ Holds(disk)

\* A request that was stale when it came in stays so.
Stale == \A r \in reqs : r.stale => /\ r.given \notin {NoBirthday, chain.birthday}
                                    /\ r.pc # "checked"

IInv == TypeOK /\ WellFormed /\ VersionsNumberItems /\ Fresh /\ Kept /\ Stale

-----------------------------------------------------------------------------
(* The operators. *)

\* A non-empty set of natural numbers has a least element, which is its Min.
LEMMA MinFacts ==
  ASSUME NEW S, S \subseteq Nat, S # {}
  PROVE  Min(S) \in S /\ \A y \in S : Min(S) <= y
<1> DEFINE R == OpToRel(<, Nat)
<1>1. IsWellFoundedOn(R, Nat)
  BY NatLessThanWellFounded
<1>2. \A p : p \in R <=> p \in Nat \X Nat /\ p[1] < p[2]
  BY DEF OpToRel
<1> HIDE DEF R
<1>3. PICK x \in S : \A y \in S : ~ (<<y, x>> \in R)
  BY <1>1, WFMin
<1>4. \A y \in S : x <= y
  <2> SUFFICES ASSUME NEW y \in S PROVE x <= y
    OBVIOUS
  <2>1. <<y, x>> \in Nat \X Nat /\ <<y, x>>[1] = y /\ <<y, x>>[2] = x
    OBVIOUS
  <2>2. ~ (y < x)
    BY <1>2, <1>3, <2>1
  <2>3. QED
    BY <2>2
<1>5. QED
  BY <1>4 DEF Min

\* So has a set of numbers up to some bound a greatest one.
LEMMA MaxFacts ==
  ASSUME NEW S, S \subseteq Nat, S # {}, NEW n \in Nat, \A x \in S : x <= n
  PROVE  Max(S) \in S /\ \A x \in S : x <= Max(S)
<1> DEFINE T == {n - x : x \in S}
<1>1. T \subseteq Nat /\ T # {}
  <2>1. \A x \in S : x \in Nat /\ x <= n
    OBVIOUS
  <2>2. \A x \in S : n - x \in Nat
    BY <2>1
  <2>3. QED
    BY <2>2
<1>2. PICK m \in T : \A y \in T : m <= y
  <2> HIDE DEF T
  <2>1. QED
    BY <1>1, MinFacts
<1>3. PICK x \in S : m = n - x
  BY <1>2
<1>4. \A y \in S : x >= y
  <2> SUFFICES ASSUME NEW y \in S PROVE x >= y
    OBVIOUS
  <2>1. n - y \in T
    OBVIOUS
  <2>2. n - x <= n - y
    BY <1>2, <1>3, <2>1
  <2>3. x \in Nat /\ y \in Nat
    OBVIOUS
  <2>4. QED
    BY <2>2, <2>3
<1>5. QED
  BY <1>4 DEF Max

\* What Commit() makes of a well-formed chain: each item of the batch has the
\* version of its place, all other items are as they were.
LEMMA CommittedFacts ==
  ASSUME chain \in ChainType, NEW ids \in Batches, NEW types \in DataTypes,
         NEW late \in BOOLEAN
  PROVE  LET c == Committed(ids, types, late) IN
           /\ Len(ids) \in Nat
           /\ c \in ChainType
           /\ c.birthday = chain.birthday
           /\ c.version = chain.version + Len(ids)
           /\ \A k \in 1 .. Len(ids) : /\ ids[k] \in Ids
                                       /\ c.items[ids[k]].version = chain.version + k
           /\ \A i \in Ids : \/ \E k \in 1 .. Len(ids) : ids[k] = i
                             \/ c.items[i] = chain.items[i]
<1> DEFINE c == Committed(ids, types, late)
           In(i) == \E k \in DOMAIN ids : ids[k] = i
           At(i) == CHOOSE k \in DOMAIN ids : ids[k] = i
<1>1. ids \in Seq(Ids) /\ \A j, k \in DOMAIN ids : ids[j] = ids[k] => j = k
  BY SyncAssumption
<1>2. /\ Len(ids) \in Nat /\ DOMAIN ids = 1 .. Len(ids)
      /\ \A k \in 1 .. Len(ids) : ids[k] \in Ids
  BY <1>1
<1>3. \A i \in Ids : In(i) => At(i) \in 1 .. Len(ids) /\ ids[At(i)] = i
  BY <1>2
<1>4. \A k \in 1 .. Len(ids) : In(ids[k]) /\ At(ids[k]) = k
  BY <1>1, <1>2
<1> DEFINE items == [i \in Ids |->
                       IF In(i) THEN [version |-> chain.version + At(i),
                                      type |-> types[i], late |-> late]
                       ELSE chain.items[i]]
<1>5. c = [birthday |-> chain.birthday, version |-> chain.version + Len(ids),
           items |-> items]
  <2>1. c = [chain EXCEPT !.version = chain.version + Len(ids), !.items = items]
    BY DEF Committed
  <2>2. QED
    BY <2>1 DEF ChainType
<1> HIDE DEF c, In, At
<1>6. items \in [Ids -> ItemType]
  <2> SUFFICES ASSUME NEW i \in Ids PROVE items[i] \in ItemType
    OBVIOUS
  <2>1. CASE In(i)
    <3>1. types[i] \in Fields \cup {NoField}
      BY DEF DataTypes
    <3>2. QED
      BY <1>3, <2>1, <3>1 DEF ItemType, ChainType
  <2>2. CASE ~In(i)
    BY <2>2 DEF ChainType
  <2>3. QED
    BY <2>1, <2>2
<1>7. \A k \in 1 .. Len(ids) : items[ids[k]].version = chain.version + k
  BY <1>2, <1>4
<1>8. \A i \in Ids : (\E k \in 1 .. Len(ids) : ids[k] = i) \/ items[i] = chain.items[i]
  BY <1>2 DEF In
<1> HIDE DEF items
<1>9. c \in ChainType
  BY <1>2, <1>5, <1>6 DEF ChainType
<1>10. QED
  BY <1>2, <1>5, <1>7, <1>8, <1>9 DEF c

\* It numbers the items anew, and every item it touches goes up.
LEMMA CommittedNumbers ==
  ASSUME chain \in ChainType, Numbered(chain), NEW ids \in Batches,
         NEW types \in DataTypes, NEW late \in BOOLEAN
  PROVE  LET c == Committed(ids, types, late) IN
           /\ Numbered(c)
           /\ \A i \in Ids : c.items[i].version >= chain.items[i].version
<1> DEFINE c == Committed(ids, types, late)
<1>1. /\ Len(ids) \in Nat
      /\ c.version = chain.version + Len(ids)
      /\ \A k \in 1 .. Len(ids) : /\ ids[k] \in Ids
                                  /\ c.items[ids[k]].version = chain.version + k
      /\ \A i \in Ids : \/ \E k \in 1 .. Len(ids) : ids[k] = i
                        \/ c.items[i] = chain.items[i]
  BY CommittedFacts
<1> HIDE DEF c
<1>2. /\ chain.version \in Nat
      /\ \A i \in Ids : chain.items[i].version \in Nat
      /\ \A i \in Ids : chain.items[i].version <= chain.version
  BY DEF ChainType, ItemType, Numbered
<1>3. \A i \in Ids : c.items[i].version >= chain.items[i].version
  BY <1>1, <1>2
<1>4. ASSUME NEW i \in Ids, NEW j \in Ids, c.items[i].version # 0
      PROVE  /\ c.items[i].version <= c.version
             /\ c.items[i].version = c.items[j].version => i = j
  <2>1. CASE \E k \in 1 .. Len(ids) : ids[k] = i
    <3>1. PICK k \in 1 .. Len(ids) : ids[k] = i
      BY <2>1
    <3>2. c.items[i].version = chain.version + k
      BY <1>1, <3>1
    <3>3. CASE \E l \in 1 .. Len(ids) : ids[l] = j
      <4>1. PICK l \in 1 .. Len(ids) : ids[l] = j
        BY <3>3
      <4>2. c.items[j].version = chain.version + l
        BY <1>1, <4>1
      <4>3. c.items[i].version = c.items[j].version => k = l
        BY <1>2, <3>2, <4>2
      <4>4. c.items[i].version <= c.version
        BY <1>1, <1>2, <3>2
      <4>5. QED
        BY <3>1, <4>1, <4>3, <4>4
    <3>4. CASE c.items[j] = chain.items[j]
      BY <1>1, <1>2, <3>2, <3>4
    <3>5. QED
      BY <1>1, <3>3, <3>4
  <2>2. CASE c.items[i] = chain.items[i]
    <3>1. c.items[i].version <= c.version
      BY <1>1, <1>2, <2>2
    <3>2. CASE \E l \in 1 .. Len(ids) : ids[l] = j
      <4>1. PICK l \in 1 .. Len(ids) : ids[l] = j
        BY <3>2
      <4>2. c.items[j].version = chain.version + l
        BY <1>1, <4>1
      <4>3. c.items[i].version <= chain.version /\ c.items[i].version \in Nat
        BY <1>2, <2>2
      <4>4. c.items[j].version # c.items[i].version
        <5>1. chain.version \in Nat /\ Len(ids) \in Nat /\ l \in Nat /\ l > 0
          BY <1>1, <1>2
        <5>2. chain.version < chain.version + l
          BY <5>1
        <5>3. QED
          BY <4>2, <4>3, <5>1, <5>2
      <4>5. QED
        BY <3>1, <4>4
    <3>3. CASE c.items[j] = chain.items[j]
      BY <1>4, <2>2, <3>1, <3>3 DEF Numbered
    <3>4. QED
      BY <1>1, <3>1, <3>2, <3>3
  <2>3. QED
    BY <1>1, <2>1, <2>2
<1>5. QED
  BY <1>3, <1>4 DEF Numbered, c

-----------------------------------------------------------------------------
(* The steps.  Most keep the birthdays made so far, and with them the types. *)

LEMMA TypesKept ==
  ASSUME births' = births
  PROVE  /\ Birthdays' = Birthdays
         /\ ChainType' = ChainType
         /\ DeviceType' = DeviceType
         /\ RequestType' = RequestType
BY DEF Birthdays, ChainType, DeviceType, RequestType

LEMMA NewFacts ==
  ASSUME births \in Nat
  PROVE  NewChain \in ChainType /\ NewDevice \in DeviceType
BY SyncAssumption
   DEF NewChain, NewDevice, NoItem, NoBirthday, ChainType, ItemType, DeviceType, Birthdays

LEMMA InitIInv == Init => IInv
<1> SUFFICES ASSUME Init PROVE IInv
  OBVIOUS
<1>1. TypeOK
  BY NewFacts DEF Init, TypeOK
<1>2. VersionsNumberItems /\ Kept
  BY DEF Init, VersionsNumberItems, Numbered, Kept, Holds, NewChain, NoItem
<1>3. WellFormed /\ Fresh /\ Stale
  BY DEF Init, WellFormed, Fresh, Stale
<1>4. QED
  BY <1>1, <1>2, <1>3 DEF IInv

LEMMA SendStep ==
  ASSUME IInv, NEW d \in Devices, NEW kind \in {"commit", "updates", "clear"},
         NEW ids \in Batches \cup {<<>>}, kind = "commit" => ids \in Batches,
         NEW types \in SUBSET Types, NEW since \in Nat,
         Send(Request(d, kind, ids, types, since)),
         commits' \in Nat, clears' \in Nat
  PROVE  IInv'
<1> DEFINE b == device[d].birthday
           n == Request(d, kind, ids, types, since)
<1>1. /\ TypeOK /\ WellFormed /\ VersionsNumberItems /\ Fresh /\ Kept /\ Stale
  BY DEF IInv
<1>2. /\ UNCHANGED <<chain, disk, device, births, faults, acked, undone>>
      /\ reqs' = reqs \cup {n}
  BY DEF Send
<1>3. b \in Birthdays \cup {NoBirthday}
  BY <1>1 DEF TypeOK, DeviceType
<1>4. /\ n \in RequestType /\ n.pc = "arrived" /\ n.given = b /\ n.kind = kind /\ n.ids = ids
      /\ n.stale => b \notin {NoBirthday, chain.birthday}
  BY <1>3 DEF Request, RequestType, NoBirthday
<1> HIDE DEF n
<1>5. TypeOK'
  <2>1. undone' \in BOOLEAN
    BY <1>1, <1>2 DEF TypeOK
  <2>2. reqs' \subseteq RequestType' /\ \A r \in reqs' : r.pc # "arrived" => r.birthday \in Birthdays'
    BY <1>1, <1>2, <1>4, TypesKept DEF TypeOK
  <2>3. QED
    BY <1>1, <1>2, <2>1, <2>2, TypesKept DEF TypeOK
<1>6. WellFormed' /\ Stale'
  BY <1>1, <1>2, <1>4 DEF WellFormed, Stale
<1>7. VersionsNumberItems' /\ Kept'
  BY <1>1, <1>2 DEF VersionsNumberItems, Numbered, Kept, Holds
<1>8. Fresh'
  BY <1>1, <1>2, <1>4 DEF Fresh
<1>9. QED
  BY <1>5, <1>6, <1>7, <1>8 DEF IInv

LEMMA SendCommitStep == ASSUME IInv, NEW d \in Devices, SendCommit(d) PROVE IInv'
<1>1. PICK ids \in Batches : Send(Request(d, "commit", ids, {}, 0))
  BY DEF SendCommit
<1>2. commits' \in Nat /\ clears' \in Nat
  BY DEF SendCommit, IInv, TypeOK
<1>3. QED
  BY <1>1, <1>2, SendStep

LEMMA SendClearStep == ASSUME IInv, NEW d \in Devices, SendClear(d) PROVE IInv'
<1>1. Send(Request(d, "clear", <<>>, {}, 0))
  BY DEF SendClear
<1>2. commits' \in Nat /\ clears' \in Nat
  BY DEF SendClear, IInv, TypeOK
<1>3. QED
  BY <1>1, <1>2, SendStep

LEMMA SendPollStep == ASSUME IInv, NEW d \in Devices, SendPoll(d) PROVE IInv'
<1>1. PICK types \in Polls : Poll(d, types)
  BY DEF SendPoll
<1>2. types \in SUBSET Types /\ types # {}
  BY SyncAssumption
<1>3. Since(d, types) \in Nat
  <2> DEFINE S == {device[d].token[t] : t \in types}
  <2>1. \A t \in types : device[d].token[t] \in Nat
    BY <1>2 DEF IInv, TypeOK, DeviceType
  <2>2. S \subseteq Nat /\ S # {}
    BY <1>2, <2>1
  <2>3. Min(S) \in Nat
    <3> HIDE DEF S
    <3>1. QED
      BY <2>2, MinFacts
  <2>4. QED
    BY <2>3 DEF Since
<1>4. commits' \in Nat /\ clears' \in Nat
  BY <1>1 DEF Poll, IInv, TypeOK
<1>5. QED
  BY <1>1, <1>2, <1>3, <1>4, SendStep DEF Poll

LEMMA GiveUpStep == ASSUME IInv, NEW r \in reqs, GiveUp(r) PROVE IInv'
<1> DEFINE n == [r EXCEPT !.awaited = FALSE]
<1>1. /\ TypeOK /\ WellFormed /\ VersionsNumberItems /\ Fresh /\ Kept /\ Stale
      /\ r \in RequestType
  BY DEF IInv, TypeOK
<1>2. /\ UNCHANGED <<chain, disk, device, births, commits, clears, acked, undone>>
      /\ reqs' = (reqs \ {r}) \cup {n}
      /\ faults' = faults + 1
  BY DEF GiveUp
<1>3. /\ n \in RequestType /\ n.pc = r.pc /\ n.given = r.given /\ n.kind = r.kind
      /\ n.ids = r.ids /\ n.birthday = r.birthday /\ n.stale = r.stale
  BY <1>1 DEF RequestType
<1> HIDE DEF n
<1>4. TypeOK'
  <2>1. undone' \in BOOLEAN
    BY <1>1, <1>2 DEF TypeOK
  <2>2. /\ reqs' \subseteq RequestType'
        /\ \A q \in reqs' : q.pc # "arrived" => q.birthday \in Birthdays'
    BY <1>1, <1>2, <1>3, TypesKept DEF TypeOK
  <2>3. QED
    BY <1>1, <1>2, <2>1, <2>2, TypesKept DEF TypeOK
<1>5. WellFormed' /\ Stale'
  BY <1>1, <1>2, <1>3 DEF WellFormed, Stale
<1>6. VersionsNumberItems' /\ Kept'
  BY <1>1, <1>2 DEF VersionsNumberItems, Numbered, Kept, Holds
<1>7. Fresh'
  BY <1>1, <1>2, <1>3 DEF Fresh
<1>8. QED
  BY <1>4, <1>5, <1>6, <1>7 DEF IInv

\* A request that is answered leaves; its device takes up what it was told.
LEMMA AnswerFacts ==
  ASSUME TypeOK, NEW r \in reqs, NEW d \in DeviceType, Answer(r, d)
  PROVE  /\ reqs' = reqs \ {r}
         /\ device' \in [Devices -> DeviceType]
         /\ \A e \in Devices : device'[e] \in {device[e], d}
<1>1. r.dev \in Devices
  BY DEF TypeOK, RequestType
<1>2. QED
  BY <1>1 DEF Answer, TypeOK

\* The birthday a request was named with is no other request's on its way.
LEMMA NamedFacts ==
  ASSUME TypeOK, NEW r \in reqs, NEW b \in Birthdays, births' = births,
         Named(r, b)
  PROVE  /\ device' \in [Devices -> DeviceType]
         /\ \A e \in Devices : device'[e].birthday \in {device[e].birthday, NoBirthday}
         /\ \/ reqs' = reqs \ {r}
            \/ \E n \in RequestType :
                 /\ reqs' = (reqs \ {r}) \cup {n}
                 /\ n.pc = "checked" /\ n.birthday = b /\ n.given = r.given
                 /\ n.kind = r.kind /\ n.ids = r.ids /\ n.stale = r.stale
                 /\ n.given \in {NoBirthday, b}
<1>1. r \in RequestType /\ births \in Nat /\ device \in [Devices -> DeviceType]
  BY DEF TypeOK
<1>2. CASE Accepts(r, b)
  <2> DEFINE n == [r EXCEPT !.pc = "checked", !.birthday = b]
  <2>1. /\ n \in RequestType /\ n.pc = "checked" /\ n.birthday = b /\ n.given = r.given
        /\ n.kind = r.kind /\ n.ids = r.ids /\ n.stale = r.stale
    BY <1>1 DEF RequestType
  <2>2. reqs' = (reqs \ {r}) \cup {n} /\ device' = device
    BY <1>2 DEF Named
  <2>3. n.given \in {NoBirthday, b}
    BY <1>2, <2>1 DEF Accepts
  <2> HIDE DEF n
  <2>4. QED
    BY <1>1, <2>1, <2>2, <2>3
<1>3. CASE ~Accepts(r, b)
  <2>1. Answer(r, NewDevice) /\ NewDevice \in DeviceType
    BY <1>1, <1>3, NewFacts DEF Named
  <2>2. NewDevice.birthday = NoBirthday
    BY DEF NewDevice
  <2>3. QED
    BY <2>1, <2>2, AnswerFacts
<1>4. QED
  BY <1>2, <1>3

\* A step that takes up one birthday, which is on no other request's way,
\* leaves the others unknown.
LEMMA FreshKept ==
  ASSUME TypeOK, Fresh, NEW r \in reqs, NEW b,
         \A q \in reqs \ {r} : q.pc = "unnamed" => q.birthday # b,
         \/ reqs' = reqs \ {r}
         \/ \E n \in RequestType :
              /\ reqs' = (reqs \ {r}) \cup {n}
              /\ n.pc = "checked" /\ n.birthday = b /\ n.given = r.given,
         chain'.birthday \in {chain.birthday, NoBirthday, b},
         disk'.birthday \in {chain.birthday, disk.birthday, NoBirthday, b},
         \A d \in Devices : device'[d].birthday \in {device[d].birthday, NoBirthday, b},
         \A a \in acked' : a \in acked \/ a.birthday = b
  PROVE  Fresh'
<1> SUFFICES ASSUME NEW q \in reqs', q.pc = "unnamed"
             PROVE  /\ q.birthday \notin {chain'.birthday, disk'.birthday}
                    /\ \A p \in reqs' :
                         /\ p.given # q.birthday
                         /\ p.pc # "arrived" /\ p.birthday = q.birthday => p = q
                    /\ \A d \in Devices : device'[d].birthday # q.birthday
                    /\ \A a \in acked' : a.birthday # q.birthday
  BY DEF Fresh
<1>1. q \in reqs \ {r}
  OBVIOUS
<1>2. q.birthday # b /\ q.birthday # NoBirthday
  BY <1>1 DEF TypeOK, Birthdays, NoBirthday
<1>3. /\ q.birthday \notin {chain.birthday, disk.birthday}
      /\ \A p \in reqs : /\ p.given # q.birthday
                         /\ p.pc # "arrived" /\ p.birthday = q.birthday => p = q
      /\ \A d \in Devices : device[d].birthday # q.birthday
      /\ \A a \in acked : a.birthday # q.birthday
  BY <1>1 DEF Fresh
<1>4. \A p \in reqs' : /\ p.given # q.birthday
                       /\ p.pc # "arrived" /\ p.birthday = q.birthday => p = q
  BY <1>2, <1>3
<1>5. QED
  BY <1>2, <1>3, <1>4

LEMMA ReadBirthdayStep == ASSUME IInv, NEW r \in reqs, ReadBirthday(r) PROVE IInv'
<1>1. /\ TypeOK /\ WellFormed /\ VersionsNumberItems /\ Fresh /\ Kept /\ Stale
      /\ r \in RequestType /\ r.pc = "arrived" /\ births \in Nat
      /\ reqs \subseteq RequestType
  BY DEF IInv, TypeOK, ReadBirthday
<1>2. UNCHANGED <<chain, disk, commits, clears, faults, acked, undone>>
  BY DEF ReadBirthday
<1>3. VersionsNumberItems' /\ Kept'
  BY <1>1, <1>2 DEF VersionsNumberItems, Numbered, Kept, Holds
<1>4. CASE chain.birthday # NoBirthday /\ Named(r, chain.birthday) /\ births' = births
  <2>1. chain.birthday \in Birthdays
    BY <1>1, <1>4 DEF TypeOK, ChainType
  <2>2. /\ device' \in [Devices -> DeviceType]
        /\ \A e \in Devices : device'[e].birthday \in {device[e].birthday, NoBirthday}
        /\ \/ reqs' = reqs \ {r}
           \/ \E n \in RequestType :
                /\ reqs' = (reqs \ {r}) \cup {n}
                /\ n.pc = "checked" /\ n.birthday = chain.birthday /\ n.given = r.given
                /\ n.kind = r.kind /\ n.ids = r.ids /\ n.stale = r.stale
                /\ n.given \in {NoBirthday, chain.birthday}
    BY <1>1, <1>4, <2>1, NamedFacts
  <2>3. TypeOK'
    <3>1. undone' \in BOOLEAN
      BY <1>1, <1>2 DEF TypeOK
    <3>2. /\ reqs' \subseteq RequestType'
          /\ \A q \in reqs' : q.pc # "arrived" => q.birthday \in Birthdays'
      BY <1>1, <1>4, <2>1, <2>2, TypesKept DEF TypeOK
    <3>3. QED
      BY <1>1, <1>2, <1>4, <2>2, <3>1, <3>2, TypesKept DEF TypeOK
  <2>4. WellFormed' /\ Stale'
    BY <1>1, <1>2, <2>2 DEF WellFormed, Stale
  <2>5. Fresh'
    <3>1. \A q \in reqs \ {r} : q.pc = "unnamed" => q.birthday # chain.birthday
      BY <1>1 DEF Fresh
    <3>2. \/ reqs' = reqs \ {r}
          \/ \E n \in RequestType :
               /\ reqs' = (reqs \ {r}) \cup {n}
               /\ n.pc = "checked" /\ n.birthday = chain.birthday /\ n.given = r.given
      BY <2>2
    <3>3. QED
      BY <1>1, <1>2, <2>2, <3>1, <3>2, FreshKept
  <2>6. QED
    BY <1>3, <2>3, <2>4, <2>5 DEF IInv
<1>5. CASE /\ births' = births + 1
           /\ reqs' = (reqs \ {r}) \cup {[r EXCEPT !.pc = "unnamed", !.birthday = births + 1]}
           /\ UNCHANGED device
  <2> DEFINE n == [r EXCEPT !.pc = "unnamed", !.birthday = births + 1]
  <2>1. /\ Birthdays \subseteq Birthdays' /\ births + 1 \in Birthdays'
        /\ births + 1 \notin Birthdays \cup {NoBirthday}
    BY <1>1, <1>5 DEF Birthdays, NoBirthday
  <2>2. /\ n \in RequestType' /\ n.pc = "unnamed" /\ n.birthday = births + 1
        /\ n.given = r.given /\ n.kind = r.kind /\ n.ids = r.ids /\ n.stale = r.stale
    BY <1>1, <2>1 DEF RequestType
  <2>3. /\ ChainType \subseteq ChainType' /\ DeviceType \subseteq DeviceType'
        /\ RequestType \subseteq RequestType'
    BY <2>1 DEF ChainType, DeviceType, RequestType
  <2>4. reqs' = (reqs \ {r}) \cup {n}
    BY <1>5
  <2> HIDE DEF n
  <2>5. TypeOK'
    <3>1. undone' \in BOOLEAN
      BY <1>1, <1>2 DEF TypeOK
    <3>2. /\ reqs' \subseteq RequestType'
          /\ \A q \in reqs' : q.pc # "arrived" => q.birthday \in Birthdays'
      BY <1>1, <2>1, <2>2, <2>3, <2>4 DEF TypeOK
    <3>3. /\ chain' \in ChainType' /\ disk' \in ChainType'
          /\ device' \in [Devices -> DeviceType'] /\ births' \in Nat
      BY <1>1, <1>2, <1>5, <2>3 DEF TypeOK
    <3>4. acked' \subseteq [id : Ids, version : Nat, birthday : Birthdays']
      BY <1>1, <1>2, <2>1 DEF TypeOK
    <3>5. QED
      BY <1>1, <1>2, <3>1, <3>2, <3>3, <3>4 DEF TypeOK
  <2>6. WellFormed' /\ Stale'
    BY <1>1, <1>2, <2>2, <2>4 DEF WellFormed, Stale
  <2>7. Fresh'
    <3>1. /\ chain.birthday # births + 1 /\ disk.birthday # births + 1
          /\ \A d \in Devices : device[d].birthday # births + 1
          /\ \A a \in acked : a.birthday # births + 1
          /\ \A q \in reqs : q.given # births + 1
          /\ \A q \in reqs : q.pc # "arrived" => q.birthday # births + 1
      BY <1>1, <2>1 DEF TypeOK, ChainType, DeviceType, RequestType
    <3>2. QED
      BY <1>1, <1>2, <1>5, <2>2, <2>4, <3>1 DEF Fresh
  <2>8. QED
    BY <1>3, <2>5, <2>6, <2>7 DEF IInv
<1>6. QED
  BY <1>4, <1>5 DEF ReadBirthday

LEMMA SetBirthdayStep == ASSUME IInv, NEW r \in reqs, SetBirthday(r) PROVE IInv'
<1> DEFINE c == [chain EXCEPT !.birthday = r.birthday]
<1>1. /\ TypeOK /\ WellFormed /\ VersionsNumberItems /\ Fresh /\ Kept /\ Stale
      /\ r \in RequestType /\ r.pc = "unnamed" /\ r.birthday \in Birthdays
      /\ chain \in ChainType /\ births' = births /\ births \in Nat
      /\ commits' = commits /\ clears' = clears /\ acked' = acked /\ undone' = undone
  BY DEF IInv, TypeOK, SetBirthday
<1>2. /\ c \in ChainType /\ c.birthday = r.birthday /\ c.version = chain.version
      /\ c.items = chain.items
  BY <1>1 DEF ChainType
<1>3. \/ Saved(c) /\ Named(r, r.birthday)
      \/ NotSaved(c) /\ Answer(r, device[r.dev])
  BY DEF SetBirthday
<1>4. \A q \in reqs \ {r} : q.pc = "unnamed" => q.birthday # r.birthday
  BY <1>1 DEF Fresh
<1> HIDE DEF c
<1>5. /\ chain' = c /\ disk' \in {c, disk} /\ faults' \in Nat
  BY <1>1, <1>3 DEF Saved, NotSaved, TypeOK
<1>6. /\ device' \in [Devices -> DeviceType]
      /\ \A e \in Devices : device'[e].birthday \in {device[e].birthday, NoBirthday}
      /\ \/ reqs' = reqs \ {r}
         \/ \E n \in RequestType :
              /\ reqs' = (reqs \ {r}) \cup {n}
              /\ n.pc = "checked" /\ n.birthday = r.birthday /\ n.given = r.given
              /\ n.kind = r.kind /\ n.ids = r.ids /\ n.stale = r.stale
              /\ n.given \in {NoBirthday, r.birthday}
  <2>1. CASE Named(r, r.birthday)
    BY <1>1, <2>1, NamedFacts
  <2>2. CASE Answer(r, device[r.dev])
    <3>1. device[r.dev] \in DeviceType /\ r.dev \in Devices
      BY <1>1 DEF TypeOK, RequestType
    <3>2. reqs' = reqs \ {r} /\ device' = device
      BY <1>1, <2>2, <3>1 DEF Answer, TypeOK
    <3>3. QED
      BY <1>1, <3>2 DEF TypeOK
  <2>3. QED
    BY <1>3, <2>1, <2>2
<1>7. TypeOK'
  <2>1. undone' \in BOOLEAN
    BY <1>1 DEF TypeOK
  <2>2. /\ reqs' \subseteq RequestType'
        /\ \A q \in reqs' : q.pc # "arrived" => q.birthday \in Birthdays'
    BY <1>1, <1>6, TypesKept DEF TypeOK
  <2>3. QED
    BY <1>1, <1>2, <1>5, <1>6, <2>1, <2>2, TypesKept DEF TypeOK
<1>8. WellFormed'
  BY <1>1, <1>6 DEF WellFormed
<1>9. VersionsNumberItems'
  BY <1>1, <1>2, <1>5 DEF VersionsNumberItems, Numbered
<1>10. Kept'
  BY <1>1, <1>2, <1>5 DEF Kept, Holds, Fresh
<1>11. Fresh'
  <2>1. \/ reqs' = reqs \ {r}
        \/ \E n \in RequestType :
             /\ reqs' = (reqs \ {r}) \cup {n}
             /\ n.pc = "checked" /\ n.birthday = r.birthday /\ n.given = r.given
    BY <1>6
  <2>2. QED
    BY <1>1, <1>2, <1>4, <1>5, <1>6, <2>1, FreshKept
<1>12. Stale'
  BY <1>1, <1>2, <1>5, <1>6 DEF Stale, Fresh
<1>13. QED
  BY <1>7, <1>8, <1>9, <1>10, <1>11, <1>12 DEF IInv

LEMMA CommitStep == ASSUME IInv, NEW r \in reqs, Commit(r) PROVE IInv'
<1> PICK types \in DataTypes : CommitAs(r, types)
  BY DEF Commit
<1> DEFINE late == r.given \notin {NoBirthday, chain.birthday}
           c == Committed(r.ids, types, late)
           entries == {r.ids[k] : k \in DOMAIN r.ids}
           named == [device[r.dev] EXCEPT !.birthday = r.birthday]
           seen == [i \in Ids |-> IF i \in entries THEN c.items[i].version
                                  ELSE named.seen[i]]
           success == [named EXCEPT !.seen = seen]
           news == {[id |-> i, version |-> c.items[i].version,
                     birthday |-> r.birthday] : i \in entries}
<1>1. /\ TypeOK /\ WellFormed /\ VersionsNumberItems /\ Fresh /\ Kept /\ Stale
      /\ r \in RequestType /\ r.pc = "checked" /\ r.birthday \in Birthdays
      /\ chain \in ChainType /\ births' = births /\ r.ids \in Batches
      /\ commits' = commits /\ clears' = clears /\ undone' = undone
      /\ r.dev \in Devices /\ device[r.dev] \in DeviceType
  BY DEF IInv, TypeOK, CommitAs, WellFormed, RequestType
<1>2. r.ids \in Seq(Ids) /\ entries \subseteq Ids
  BY <1>1, SyncAssumption
<1>3. /\ c \in ChainType /\ c.birthday = chain.birthday /\ Numbered(c)
      /\ \A i \in Ids : c.items[i].version >= chain.items[i].version
  BY <1>1, CommittedFacts, CommittedNumbers DEF VersionsNumberItems
<1>4. \A i \in Ids : c.items[i].version \in Nat /\ chain.items[i].version \in Nat
  BY <1>1, <1>3 DEF ChainType, ItemType
<1>5. /\ named \in DeviceType /\ named.birthday = r.birthday
  BY <1>1 DEF DeviceType
<1>6. seen \in [Ids -> Nat]
  BY <1>4, <1>5 DEF DeviceType
<1>7. success \in DeviceType /\ success.birthday = r.birthday
  <2> HIDE DEF seen, named
  <2>1. QED
    BY <1>5, <1>6 DEF DeviceType
<1>8. \/ Saved(c) /\ Answer(r, success) /\ acked' = acked \cup news
      \/ NotSaved(c) /\ Answer(r, named) /\ acked' = acked
  BY DEF CommitAs
<1>9. news \subseteq [id : Ids, version : Nat, birthday : Birthdays]
  BY <1>1, <1>2, <1>4
<1>10. \A a \in news : /\ a.birthday = r.birthday /\ a.id \in Ids
                       /\ a.version = c.items[a.id].version
  BY <1>2
<1> HIDE DEF c, entries, named, seen, success, news
<1>11. /\ reqs' = reqs \ {r} /\ device' \in [Devices -> DeviceType]
       /\ \A e \in Devices : device'[e].birthday \in {device[e].birthday, r.birthday}
  BY <1>1, <1>5, <1>7, <1>8, AnswerFacts
<1>12. /\ chain' = c /\ disk' \in {c, disk} /\ faults' \in Nat
       /\ acked' \subseteq acked \cup news
       /\ disk' = c \/ acked' = acked
  BY <1>1, <1>8 DEF Saved, NotSaved, TypeOK
<1>13. TypeOK'
  <2>1. undone' \in BOOLEAN
    BY <1>1 DEF TypeOK
  <2>2. /\ reqs' \subseteq RequestType'
        /\ \A q \in reqs' : q.pc # "arrived" => q.birthday \in Birthdays'
    BY <1>1, <1>11, TypesKept DEF TypeOK
  <2>3. acked' \subseteq [id : Ids, version : Nat, birthday : Birthdays']
    BY <1>1, <1>9, <1>12, TypesKept DEF TypeOK
  <2>4. QED
    BY <1>1, <1>3, <1>11, <1>12, <2>1, <2>2, <2>3, TypesKept DEF TypeOK
<1>14. WellFormed' /\ Stale'
  BY <1>1, <1>3, <1>11, <1>12 DEF WellFormed, Stale
<1>15. VersionsNumberItems'
  BY <1>1, <1>3, <1>12 DEF VersionsNumberItems
<1>16. Fresh'
  <2>1. \A q \in reqs \ {r} : q.pc = "unnamed" => q.birthday # r.birthday
    BY <1>1 DEF Fresh
  <2>2. \A a \in acked' : a \in acked \/ a.birthday = r.birthday
    BY <1>10, <1>12
  <2>3. QED
    BY <1>1, <1>3, <1>11, <1>12, <2>1, <2>2, FreshKept
<1>17. Kept'
  <2>1. ASSUME NEW a \in acked, c.birthday = a.birthday
        PROVE  c.items[a.id].version >= a.version
    <3>1. a.id \in Ids /\ a.version \in Nat
      BY <1>1 DEF TypeOK
    <3>2. chain.items[a.id].version >= a.version
      BY <1>1, <1>3, <2>1 DEF Kept, Holds
    <3>3. QED
      BY <1>3, <1>4, <3>1, <3>2
  <2>2. \A a \in news : c.items[a.id].version >= a.version
    BY <1>4, <1>10
  <2>3. QED
    BY <1>1, <1>12, <2>1, <2>2 DEF Kept, Holds
<1>18. QED
  BY <1>13, <1>14, <1>15, <1>16, <1>17 DEF IInv

LEMMA GetUpdatesStep == ASSUME IInv, NEW r \in reqs, GetUpdates(r) PROVE IInv'
<1> DEFINE items == Updates(r.since, r.types, MaxBatch)
           V == {chain.items[i].version : i \in items}
           d == [birthday |-> r.birthday,
                 token |-> [t \in Types |-> IF t \in r.types THEN Reached(items)
                                            ELSE device[r.dev].token[t]],
                 seen |-> [i \in Ids |-> IF i \in items THEN chain.items[i].version
                                         ELSE device[r.dev].seen[i]]]
<1>1. /\ TypeOK /\ WellFormed /\ VersionsNumberItems /\ Fresh /\ Kept /\ Stale
      /\ r \in RequestType /\ r.pc = "checked" /\ r.birthday \in Birthdays
      /\ chain \in ChainType /\ Numbered(chain)
      /\ r.dev \in Devices /\ device[r.dev] \in DeviceType
  BY DEF IInv, TypeOK, GetUpdates, RequestType, VersionsNumberItems
<1>2. /\ UNCHANGED <<chain, disk, births, commits, clears, faults, acked, undone>>
      /\ Answer(r, d)
  BY DEF GetUpdates
<1>3. /\ items \subseteq Ids
      /\ chain.version \in Nat
      /\ \A i \in Ids : chain.items[i].version \in Nat
      /\ \A i \in Ids : chain.items[i].version <= chain.version
  BY <1>1 DEF Updates, Newer, ChainType, ItemType, Numbered
<1>4. Reached(items) \in Nat
  <2>1. CASE Cardinality(items) = MaxBatch
    <3>1. items # {}
      BY <2>1, FS_EmptySet, SyncAssumption
    <3> HIDE DEF items
    <3>2. V \subseteq Nat /\ V # {} /\ \A x \in V : x <= chain.version
      BY <1>3, <3>1
    <3>3. Max(V) \in V
      <4> HIDE DEF V
      <4>1. QED
        BY <1>3, <3>2, MaxFacts
    <3>4. QED
      BY <2>1, <3>2, <3>3 DEF Reached
  <2>2. CASE Cardinality(items) # MaxBatch
    BY <1>3, <2>2 DEF Reached
  <2>3. QED
    BY <2>1, <2>2
<1> HIDE DEF items
<1>5. d \in DeviceType /\ d.birthday = r.birthday
  BY <1>1, <1>3, <1>4 DEF DeviceType
<1> HIDE DEF d
<1>6. /\ reqs' = reqs \ {r} /\ device' \in [Devices -> DeviceType]
      /\ \A e \in Devices : device'[e].birthday \in {device[e].birthday, r.birthday}
  BY <1>1, <1>2, <1>5, AnswerFacts
<1>7. TypeOK'
  <2>1. undone' \in BOOLEAN
    BY <1>1, <1>2 DEF TypeOK
  <2>2. /\ reqs' \subseteq RequestType'
        /\ \A q \in reqs' : q.pc # "arrived" => q.birthday \in Birthdays'
    BY <1>1, <1>2, <1>6, TypesKept DEF TypeOK
  <2>3. QED
    BY <1>1, <1>2, <1>6, <2>1, <2>2, TypesKept DEF TypeOK
<1>8. WellFormed' /\ Stale'
  BY <1>1, <1>2, <1>6 DEF WellFormed, Stale
<1>9. VersionsNumberItems' /\ Kept'
  BY <1>1, <1>2 DEF VersionsNumberItems, Numbered, Kept, Holds
<1>10. Fresh'
  <2>1. \A q \in reqs \ {r} : q.pc = "unnamed" => q.birthday # r.birthday
    BY <1>1 DEF Fresh
  <2>2. QED
    BY <1>1, <1>2, <1>6, <2>1, FreshKept
<1>11. QED
  BY <1>7, <1>8, <1>9, <1>10 DEF IInv

LEMMA ClearStep == ASSUME IInv, NEW r \in reqs, Clear(r) PROVE IInv'
<1>1. /\ TypeOK /\ WellFormed /\ VersionsNumberItems /\ Fresh /\ Kept /\ Stale
      /\ r \in RequestType /\ r.pc = "checked" /\ r.birthday \in Birthdays
      /\ births' = births /\ births \in Nat
      /\ commits' = commits /\ clears' = clears /\ acked' = acked /\ undone' = undone
      /\ r.dev \in Devices /\ device[r.dev] \in DeviceType
  BY DEF IInv, TypeOK, Clear, RequestType
<1>2. /\ NewChain \in ChainType /\ NewDevice \in DeviceType
      /\ NewChain.birthday = NoBirthday /\ NewDevice.birthday = NoBirthday
      /\ \A i \in Ids : NewChain.items[i].version = 0
  BY <1>1, NewFacts DEF NewChain, NewDevice, NoItem
<1>3. \/ Saved(NewChain) /\ Answer(r, NewDevice)
      \/ NotSaved(NewChain) /\ Answer(r, device[r.dev])
  BY DEF Clear, Cleared
<1>4. /\ chain' = NewChain /\ disk' \in {NewChain, disk} /\ faults' \in Nat
  BY <1>1, <1>3 DEF Saved, NotSaved, TypeOK
<1>5. /\ reqs' = reqs \ {r} /\ device' \in [Devices -> DeviceType]
      /\ \A e \in Devices : device'[e].birthday \in {device[e].birthday, NoBirthday}
  <2>1. CASE Answer(r, NewDevice)
    BY <1>1, <1>2, <2>1, AnswerFacts
  <2>2. CASE Answer(r, device[r.dev])
    BY <1>1, <2>2 DEF Answer, TypeOK
  <2>3. QED
    BY <1>3, <2>1, <2>2
<1>6. TypeOK'
  <2>1. undone' \in BOOLEAN
    BY <1>1 DEF TypeOK
  <2>2. /\ reqs' \subseteq RequestType'
        /\ \A q \in reqs' : q.pc # "arrived" => q.birthday \in Birthdays'
    BY <1>1, <1>5, TypesKept DEF TypeOK
  <2>3. QED
    BY <1>1, <1>2, <1>4, <1>5, <2>1, <2>2, TypesKept DEF TypeOK
<1>7. WellFormed' /\ Stale'
  BY <1>1, <1>2, <1>4, <1>5 DEF WellFormed, Stale
<1>8. VersionsNumberItems'
  BY <1>1, <1>2, <1>4 DEF VersionsNumberItems, Numbered
<1>9. Kept'
  <2>1. \A a \in acked : a.birthday # NoBirthday
    BY <1>1 DEF TypeOK, Birthdays, NoBirthday
  <2>2. QED
    BY <1>1, <1>2, <1>4, <2>1 DEF Kept, Holds
<1>10. Fresh'
  <2>1. \A q \in reqs \ {r} : q.pc = "unnamed" => q.birthday # r.birthday
    BY <1>1 DEF Fresh
  <2>2. /\ chain'.birthday = NoBirthday
        /\ disk'.birthday \in {disk.birthday, NoBirthday}
    BY <1>2, <1>4
  <2>3. /\ chain'.birthday \in {chain.birthday, NoBirthday, r.birthday}
        /\ disk'.birthday \in {chain.birthday, disk.birthday, NoBirthday, r.birthday}
        /\ \A e \in Devices :
             device'[e].birthday \in {device[e].birthday, NoBirthday, r.birthday}
        /\ \A a \in acked' : a \in acked \/ a.birthday = r.birthday
    BY <1>1, <1>5, <2>2
  <2>4. QED
    BY <1>1, <1>5, <2>1, <2>3, FreshKept
<1>11. QED
  BY <1>6, <1>7, <1>8, <1>9, <1>10 DEF IInv

LEMMA RestartStep == ASSUME IInv, Restart PROVE IInv'
<1> USE DEF Restart, IInv
<1>1. TypeOK'
  <2>1. undone' \in BOOLEAN
    BY DEF TypeOK
  <2>2. QED
    BY <2>1, TypesKept DEF TypeOK
<1>2. WellFormed' /\ Fresh' /\ Stale'
  BY DEF WellFormed, Fresh, Stale
<1>3. VersionsNumberItems' /\ Kept'
  BY DEF VersionsNumberItems, Numbered, Kept, Holds
<1>4. QED
  BY <1>1, <1>2, <1>3

LEMMA NextIInv == IInv /\ [Next]_vars => IInv'
<1> SUFFICES ASSUME IInv, [Next]_vars PROVE IInv'
  OBVIOUS
<1>1. CASE UNCHANGED vars
  <2>1. TypeOK'
    <3>1. undone' \in BOOLEAN
      BY <1>1 DEF vars, IInv, TypeOK
    <3>2. QED
      BY <1>1, <3>1, TypesKept DEF vars, IInv, TypeOK
  <2>2. (WellFormed /\ VersionsNumberItems /\ Fresh /\ Kept /\ Stale)'
    BY <1>1 DEF vars, IInv, WellFormed, VersionsNumberItems, Numbered, Fresh, Kept,
                Holds, Stale
  <2>3. QED
    BY <2>1, <2>2 DEF IInv
<1>2. ASSUME NEW d \in Devices, SendCommit(d) \/ SendClear(d) \/ SendPoll(d)
      PROVE  IInv'
  BY <1>2, SendCommitStep, SendClearStep, SendPollStep
<1>3. ASSUME NEW r \in reqs, Handle(r) \/ GiveUp(r)
      PROVE  IInv'
  BY <1>3, ReadBirthdayStep, SetBirthdayStep, CommitStep, GetUpdatesStep, ClearStep,
     GiveUpStep DEF Handle
<1>4. QED
  BY <1>1, <1>2, <1>3, RestartStep DEF Next

\* IInv holds in every reachable state of the service.
THEOREM Inductive == Spec => []IInv
<1>1. QED
  BY InitIInv, NextIInv, PTL DEF Spec

\* The variables have their types: in particular tokens are versions, and no
\* request is carried out without a birthday.
THEOREM TypeCorrect == Spec => []TypeOK
<1>1. IInv => TypeOK
  BY DEF IInv
<1>2. QED
  BY <1>1, Inductive, PTL

\* No two items of a chain share a version, in memory or on disk.
THEOREM VersionsAreNumbers == Spec => []VersionsNumberItems
<1>1. IInv => VersionsNumberItems
  BY DEF IInv
<1>2. QED
  BY <1>1, Inductive, PTL

\* A commit that was acknowledged stays on disk until the chain is reset,
\* whatever saves fail and however often the server dies.
THEOREM AcknowledgedIsDurable == Spec => []Durable
<1>1. IInv => Durable
  BY DEF IInv, Kept, Holds, Durable
<1>2. QED
  BY <1>1, Inductive, PTL

\* A request that comes in after a reset with the old birthday is refused.
THEOREM ResetReachesOthers == Spec => []StaleIsRefused
<1>1. IInv => StaleIsRefused
  BY DEF IInv, Stale, StaleIsRefused
<1>2. QED
  BY <1>1, Inductive, PTL

-----------------------------------------------------------------------------
(* No device misses an item.  What a device knows of its chain (Known) rests *)
(* on what its request was sent with (Asked): the position a request reads   *)
(* from is the device's own as long as the device waits for the answer.      *)

\* A device that starts over has read nothing.
StartsOver(d) == d.birthday = NoBirthday => \A t \in Types : d.token[t] = 0

Asked ==
  /\ \A d \in Devices : StartsOver(device[d])
  /\ \A r \in reqs : r.kind = "updates" => r.types # {}
  /\ \A r \in reqs : r.pc = "checked" => r.given \in {NoBirthday, r.birthday}
  /\ \A r \in reqs : r.awaited =>
       /\ r.given = device[r.dev].birthday
       /\ r.kind = "updates" => \A t \in r.types : r.since <= device[r.dev].token[t]
  /\ \A q, r \in reqs : q.awaited /\ r.awaited /\ q.dev = r.dev => q = r

\* A device of the chain has read no further than the chain goes, and has seen
\* what it has read past and is stored under its type.
UpToDate(d, c) ==
  d.birthday = c.birthday =>
    /\ \A t \in Types : d.token[t] <= c.version
    /\ \A i \in Ids : c.items[i].type = TypeOf[i] /\ c.items[i].version \in 1 .. d.token[TypeOf[i]]
                        => d.seen[i] >= c.items[i].version

Known == ~undone => \A d \in Devices : UpToDate(device[d], chain)

ReadInv == IInv /\ Asked /\ Known

\* An item that a batch leaves out is newer than the whole of it, and the batch
\* is full.
LEMMA UpdatesFacts ==
  ASSUME chain \in ChainType, Numbered(chain), NEW since \in Nat, NEW types
  PROVE  LET items == Updates(since, types, MaxBatch) IN
           /\ items \subseteq Newer(since, types)
           /\ \A i \in Newer(since, types) \ items :
                /\ Cardinality(items) = MaxBatch
                /\ \A j \in items : chain.items[j].version < chain.items[i].version
<1> DEFINE out == Newer(since, types)
           items == Updates(since, types, MaxBatch)
           v(i) == chain.items[i].version
           Below(i) == {j \in out : v(j) < v(i)}
<1>1. /\ out \subseteq Ids /\ IsFiniteSet(out)
      /\ \A i \in out : v(i) \in Nat /\ v(i) > 0 /\ v(i) <= chain.version
      /\ \A i, j \in out : v(i) = v(j) => i = j
      /\ chain.version \in Nat /\ MaxBatch \in Nat /\ MaxBatch > 0
  <2>1. out \subseteq Ids /\ \A i \in out : v(i) > since
    BY DEF Newer
  <2>2. IsFiniteSet(out)
    BY <2>1, FS_Subset, SyncAssumption
  <2>3. \A i \in Ids : v(i) \in Nat
    BY DEF ChainType, ItemType
  <2>4. QED
    BY <2>1, <2>2, <2>3, SyncAssumption DEF ChainType, Numbered
<1>2. items = {i \in out : Cardinality(Below(i)) < MaxBatch}
  BY DEF Updates
<1> HIDE DEF out, items, v, Below
<1>3. \A i \in out : IsFiniteSet(Below(i)) /\ Cardinality(Below(i)) \in Nat
  <2> TAKE i \in out
  <2>1. Below(i) \in SUBSET out
    BY DEF Below
  <2>2. QED
    BY <1>1, <2>1, FS_Subset, FS_CardinalityType
<1>4. ASSUME NEW i \in out \ items, NEW j \in items
      PROVE  v(j) < v(i)
  <2>1. CASE v(i) <= v(j)
    <3>1. Below(i) \in SUBSET Below(j)
      BY <1>1, <1>2, <2>1 DEF Below
    <3>2. Cardinality(Below(i)) <= Cardinality(Below(j))
      BY <1>2, <1>3, <3>1, FS_Subset
    <3>3. /\ Cardinality(Below(i)) \in Nat /\ Cardinality(Below(j)) \in Nat
          /\ Cardinality(Below(j)) < MaxBatch /\ ~(Cardinality(Below(i)) < MaxBatch)
      BY <1>2, <1>3
    <3>4. QED
      BY <1>1, <3>2, <3>3
  <2>2. QED
    BY <1>1, <1>2, <2>1
<1>5. ASSUME NEW i \in out \ items
      PROVE  Cardinality(items) = MaxBatch
  <2> DEFINE W == {v(k) : k \in out \ items}
             V == {v(k) : k \in items}
  <2>1. PICK m \in out \ items : \A k \in out \ items : v(m) <= v(k)
    <3>1. W \subseteq Nat /\ W # {}
      BY <1>1
    <3> HIDE DEF W
    <3>2. Min(W) \in W /\ \A y \in W : Min(W) <= y
      BY <3>1, MinFacts
    <3>3. QED
      BY <3>2 DEF W
  <2>2. items = Below(m)
    <3>1. items \subseteq Below(m)
      BY <1>2, <1>4 DEF Below
    <3>2. ASSUME NEW j \in Below(m) PROVE j \in items
      BY <1>1, <2>1 DEF Below
    <3>3. QED
      BY <3>1, <3>2
  <2>3. IsFiniteSet(items) /\ Cardinality(items) \in Nat /\ Cardinality(items) >= MaxBatch
    <3>1. m \in out /\ ~(Cardinality(Below(m)) < MaxBatch)
      BY <1>2
    <3>2. QED
      BY <1>1, <1>3, <2>2, <3>1
  <2>4. items # {}
    BY <1>1, <2>3, FS_EmptySet
  <2>5. PICK k \in items : \A j \in items : v(j) <= v(k)
    <3>1. V \subseteq Nat /\ V # {} /\ \A x \in V : x <= chain.version
      <4>1. \A j \in items : v(j) \in Nat /\ v(j) <= chain.version
        BY <1>1, <1>2
      <4>2. QED
        BY <2>4, <4>1
    <3> HIDE DEF V
    <3>2. Max(V) \in V /\ \A x \in V : x <= Max(V)
      BY <1>1, <3>1, MaxFacts
    <3>3. QED
      BY <3>2 DEF V
  <2>6. items \in SUBSET (Below(k) \cup {k})
    <3>1. \A j \in items : j \in out /\ v(j) \in Nat /\ v(j) <= v(k)
      BY <1>1, <1>2, <2>5
    <3>2. \A j \in items : v(j) < v(k) \/ j = k
      BY <1>1, <1>2, <3>1
    <3>3. QED
      BY <3>1, <3>2 DEF Below
  <2>7. k \in out /\ Cardinality(Below(k)) < MaxBatch
    BY <1>2
  <2>8. /\ IsFiniteSet(Below(k) \cup {k})
        /\ Cardinality(Below(k) \cup {k}) = Cardinality(Below(k)) + 1
    <3>1. k \notin Below(k)
      BY <1>1, <2>7 DEF Below
    <3>2. QED
      BY <1>3, <2>7, <3>1, FS_AddElement
  <2>9. Cardinality(items) <= Cardinality(Below(k)) + 1
    BY <2>6, <2>8, FS_Subset
  <2>10. QED
    BY <1>1, <1>3, <2>3, <2>7, <2>9
<1>6. items \subseteq out
  BY <1>2
<1>7. QED
  BY <1>4, <1>5, <1>6 DEF out, items, v

\* The token of an answer is no further than the chain, and nothing newer than
\* the position asked from lies behind it but what the answer holds.
LEMMA ReachedFacts ==
  ASSUME chain \in ChainType, Numbered(chain), NEW since \in Nat, NEW types
  PROVE  LET items == Updates(since, types, MaxBatch) IN
           /\ items \subseteq Newer(since, types)
           /\ Reached(items) \in Nat /\ Reached(items) <= chain.version
           /\ \A i \in Newer(since, types) :
                chain.items[i].version <= Reached(items) => i \in items
<1> DEFINE items == Updates(since, types, MaxBatch)
           V == {chain.items[i].version : i \in items}
<1>1. /\ items \subseteq Newer(since, types)
      /\ \A i \in Newer(since, types) \ items :
           /\ Cardinality(items) = MaxBatch
           /\ \A j \in items : chain.items[j].version < chain.items[i].version
  BY UpdatesFacts
<1>2. /\ Newer(since, types) \subseteq Ids
      /\ chain.version \in Nat
      /\ \A i \in Ids : chain.items[i].version \in Nat
      /\ \A i \in Ids : chain.items[i].version <= chain.version
  BY DEF Newer, ChainType, ItemType, Numbered
<1> HIDE DEF items
<1>3. CASE Cardinality(items) = MaxBatch
  <2>1. items # {}
    BY <1>3, FS_EmptySet, SyncAssumption
  <2>2. V \subseteq Nat /\ V # {} /\ \A x \in V : x <= chain.version
    BY <1>1, <1>2, <2>1
  <2>3. Max(V) \in V
    <3> HIDE DEF V
    <3>1. QED
      BY <1>2, <2>2, MaxFacts
  <2>4. Reached(items) \in V
    BY <1>3, <2>3 DEF Reached
  <2>5. PICK j \in items : Reached(items) = chain.items[j].version
    BY <2>4
  <2>6. \A i \in Newer(since, types) \ items : Reached(items) < chain.items[i].version
    BY <1>1, <2>5
  <2>7. Reached(items) \in Nat /\ Reached(items) <= chain.version
    BY <2>2, <2>4
  <2>8. QED
    BY <1>1, <1>2, <2>6, <2>7 DEF items
<1>4. CASE Cardinality(items) # MaxBatch
  BY <1>1, <1>2, <1>4 DEF Reached, items
<1>5. QED
  BY <1>3, <1>4

\* An answer is for the one request its device waits for.
LEMMA AskedAnswered ==
  ASSUME TypeOK, Asked, NEW r \in reqs, NEW d, StartsOver(d), Answer(r, d)
  PROVE  Asked'
<1>1. reqs' = reqs \ {r} /\ \A q \in reqs : q.dev \in Devices
  BY DEF Answer, TypeOK, RequestType
<1>2. \A e \in Devices : device'[e] = IF r.awaited /\ e = r.dev THEN d ELSE device[e]
  BY <1>1 DEF Answer, TypeOK
<1>3. \A e \in Devices : StartsOver(device'[e])
  BY <1>2 DEF Asked
<1>4. \A q \in reqs' : q.awaited => device'[q.dev] = device[q.dev]
  BY <1>1, <1>2 DEF Asked
<1>5. QED
  BY <1>1, <1>3, <1>4 DEF Asked, StartsOver

\* A request that goes on keeps what it was sent with.
LEMMA AskedGoesOn ==
  ASSUME TypeOK, Asked, NEW r \in reqs, NEW n, device' = device,
         reqs' = (reqs \ {r}) \cup {n},
         n.dev = r.dev, n.kind = r.kind, n.types = r.types, n.since = r.since,
         n.given = r.given, n.awaited => r.awaited,
         n.pc = "checked" => n.given \in {NoBirthday, n.birthday}
  PROVE  Asked'
<1>1. \A q, p \in reqs' : q.awaited /\ p.awaited /\ q.dev = p.dev => q = p
  BY DEF Asked
<1>2. \A q \in reqs' : q.awaited =>
        /\ q.given = device'[q.dev].birthday
        /\ q.kind = "updates" => \A t \in q.types : q.since <= device'[q.dev].token[t]
  BY DEF Asked
<1>3. \A q \in reqs' : /\ q.kind = "updates" => q.types # {}
                       /\ q.pc = "checked" => q.given \in {NoBirthday, q.birthday}
  BY DEF Asked
<1>4. \A e \in Devices : StartsOver(device'[e])
  BY DEF Asked
<1>5. QED
  BY <1>1, <1>2, <1>3, <1>4 DEF Asked, StartsOver

LEMMA AskedNamed ==
  ASSUME TypeOK, Asked, NEW r \in reqs, NEW b, Named(r, b)
  PROVE  Asked' /\ \A e \in Devices : device'[e] \in {device[e], NewDevice}
<1>1. r \in RequestType
  BY DEF TypeOK
<1>2. CASE Accepts(r, b)
  <2> DEFINE n == [r EXCEPT !.pc = "checked", !.birthday = b]
  <2>1. /\ n.dev = r.dev /\ n.kind = r.kind /\ n.types = r.types /\ n.since = r.since
        /\ n.given = r.given /\ n.awaited = r.awaited /\ n.birthday = b
    BY <1>1 DEF RequestType
  <2>2. reqs' = (reqs \ {r}) \cup {n} /\ device' = device
    BY <1>2 DEF Named
  <2>3. n.given \in {NoBirthday, n.birthday}
    BY <1>2, <2>1 DEF Accepts
  <2> HIDE DEF n
  <2>4. Asked'
    BY <2>1, <2>2, <2>3, AskedGoesOn
  <2>5. QED
    BY <2>2, <2>4
<1>3. CASE ~Accepts(r, b)
  <2>1. Answer(r, NewDevice)
    BY <1>3 DEF Named
  <2>2. StartsOver(NewDevice)
    BY DEF StartsOver, NewDevice
  <2>3. \A e \in Devices : device'[e] \in {device[e], NewDevice}
    BY <1>1, <2>1 DEF Answer, TypeOK, RequestType
  <2>4. QED
    BY <2>1, <2>2, <2>3, AskedAnswered
<1>4. QED
  BY <1>2, <1>3

LEMMA NewIsUpToDate == ASSUME NEW c \in ChainType PROVE UpToDate(NewDevice, c)
<1>1. /\ \A t \in Types : NewDevice.token[t] = 0
      /\ \A i \in Ids : TypeOf[i] \in Types
  BY DEF NewDevice, Types
<1>2. c.version \in Nat /\ \A i \in Ids : c.items[i].version \in Nat
  BY DEF ChainType, ItemType
<1>3. QED
  BY <1>1, <1>2 DEF UpToDate

LEMMA ReadInvInit == Init => ReadInv
<1> SUFFICES ASSUME Init PROVE ReadInv
  OBVIOUS
<1>1. Asked
  BY DEF Init, Asked, StartsOver, NewDevice
<1>2. NewChain \in ChainType
  BY NewFacts DEF Init
<1>3. Known
  BY <1>2, NewIsUpToDate DEF Init, Known
<1>4. QED
  BY <1>1, <1>3, InitIInv DEF ReadInv

\* What is sent starts from what the device has.
LEMMA SendRead ==
  ASSUME ReadInv, NEW d \in Devices, NEW kind, NEW ids, NEW types, NEW since,
         kind = "updates" => /\ types # {}
                             /\ \A t \in types : since <= device[d].token[t],
         Send(Request(d, kind, ids, types, since))
  PROVE  Asked' /\ Known'
<1> DEFINE n == Request(d, kind, ids, types, since)
<1>1. /\ n.dev = d /\ n.kind = kind /\ n.types = types /\ n.since = since
      /\ n.given = device[d].birthday /\ n.pc = "arrived"
  BY DEF Request
<1>2. /\ reqs' = reqs \cup {n} /\ \A r \in reqs : r.dev # d \/ ~r.awaited
      /\ UNCHANGED <<chain, device, undone>>
  BY <1>1 DEF Send, Idle
<1> HIDE DEF n
<1>3. Asked'
  <2>1. \A q, r \in reqs' : q.awaited /\ r.awaited /\ q.dev = r.dev => q = r
    BY <1>1, <1>2 DEF ReadInv, Asked
  <2>2. \A r \in reqs' : r.awaited =>
          /\ r.given = device'[r.dev].birthday
          /\ r.kind = "updates" => \A t \in r.types : r.since <= device'[r.dev].token[t]
    BY <1>1, <1>2 DEF ReadInv, Asked
  <2>3. \A r \in reqs' : /\ r.kind = "updates" => r.types # {}
                         /\ r.pc = "checked" => r.given \in {NoBirthday, r.birthday}
    BY <1>1, <1>2 DEF ReadInv, Asked
  <2>4. \A e \in Devices : StartsOver(device'[e])
    BY <1>2 DEF ReadInv, Asked
  <2>5. QED
    BY <2>1, <2>2, <2>3, <2>4 DEF Asked, StartsOver
<1>4. Known'
  BY <1>2 DEF ReadInv, Known, UpToDate
<1>5. QED
  BY <1>3, <1>4

LEMMA SendsRead ==
  ASSUME ReadInv, NEW d \in Devices, SendCommit(d) \/ SendClear(d) \/ SendPoll(d)
  PROVE  Asked' /\ Known'
<1>1. CASE SendCommit(d)
  <2>1. PICK ids \in Batches : Send(Request(d, "commit", ids, {}, 0))
    BY <1>1 DEF SendCommit
  <2>2. QED
    BY <2>1, SendRead
<1>2. CASE SendClear(d)
  <2>1. Send(Request(d, "clear", <<>>, {}, 0))
    BY <1>2 DEF SendClear
  <2>2. QED
    BY <2>1, SendRead
<1>3. CASE SendPoll(d)
  <2>1. PICK types \in Polls : Poll(d, types)
    BY <1>3 DEF SendPoll
  <2>2. types \in SUBSET Types /\ types # {}
    BY SyncAssumption
  <2>3. \A t \in types : Since(d, types) <= device[d].token[t]
    <3> DEFINE S == {device[d].token[t] : t \in types}
    <3>1. \A t \in types : device[d].token[t] \in Nat
      BY <2>2 DEF ReadInv, IInv, TypeOK, DeviceType
    <3>2. S \subseteq Nat /\ S # {} /\ \A t \in types : device[d].token[t] \in S
      BY <2>2, <3>1
    <3>3. \A y \in S : Min(S) <= y
      <4> HIDE DEF S
      <4>1. QED
        BY <3>2, MinFacts
    <3>4. Since(d, types) = Min(S)
      BY DEF Since
    <3> HIDE DEF S
    <3>5. QED
      BY <3>2, <3>3, <3>4
  <2>4. QED
    BY <2>1, <2>2, <2>3, SendRead DEF Poll
<1>4. QED
  BY <1>1, <1>2, <1>3

LEMMA GiveUpRead ==
  ASSUME ReadInv, NEW r \in reqs, GiveUp(r)
  PROVE  Asked' /\ Known'
<1> DEFINE n == [r EXCEPT !.awaited = FALSE]
<1>1. TypeOK /\ Asked /\ Known /\ r \in RequestType
  BY DEF ReadInv, IInv, TypeOK
<1>2. /\ UNCHANGED <<chain, device, undone>> /\ reqs' = (reqs \ {r}) \cup {n}
  BY DEF GiveUp
<1>3. /\ n.dev = r.dev /\ n.kind = r.kind /\ n.types = r.types /\ n.since = r.since
      /\ n.given = r.given /\ ~n.awaited /\ n.birthday = r.birthday /\ n.pc = r.pc
  BY <1>1 DEF RequestType
<1> HIDE DEF n
<1>4. n.pc = "checked" => n.given \in {NoBirthday, n.birthday}
  BY <1>1, <1>3 DEF Asked
<1>5. Asked'
  BY <1>1, <1>2, <1>3, <1>4, AskedGoesOn
<1>6. Known'
  BY <1>1, <1>2 DEF Known, UpToDate
<1>7. QED
  BY <1>5, <1>6

LEMMA ReadBirthdayRead ==
  ASSUME ReadInv, NEW r \in reqs, ReadBirthday(r)
  PROVE  Asked' /\ Known'
<1>1. TypeOK /\ Asked /\ Known /\ r \in RequestType /\ chain \in ChainType
  BY DEF ReadInv, IInv, TypeOK
<1>2. chain' = chain /\ undone' = undone
  BY DEF ReadBirthday
<1>3. CASE Named(r, chain.birthday)
  <2>1. Asked' /\ \A e \in Devices : device'[e] \in {device[e], NewDevice}
    BY <1>1, <1>3, AskedNamed
  <2>2. UpToDate(NewDevice, chain)
    BY <1>1, NewIsUpToDate
  <2>3. Known'
    BY <1>1, <1>2, <2>1, <2>2 DEF Known
  <2>4. QED
    BY <2>1, <2>3
<1>4. CASE /\ reqs' = (reqs \ {r}) \cup {[r EXCEPT !.pc = "unnamed", !.birthday = births + 1]}
           /\ device' = device
  <2> DEFINE n == [r EXCEPT !.pc = "unnamed", !.birthday = births + 1]
  <2>1. /\ n.dev = r.dev /\ n.kind = r.kind /\ n.types = r.types /\ n.since = r.since
        /\ n.given = r.given /\ n.awaited = r.awaited /\ n.pc = "unnamed"
    BY <1>1 DEF RequestType
  <2>2. reqs' = (reqs \ {r}) \cup {n}
    BY <1>4
  <2> HIDE DEF n
  <2>3. Asked'
    BY <1>1, <1>4, <2>1, <2>2, AskedGoesOn
  <2>4. Known'
    BY <1>1, <1>2, <1>4 DEF Known, UpToDate
  <2>5. QED
    BY <2>3, <2>4
<1>5. QED
  BY <1>3, <1>4 DEF ReadBirthday

\* The birthday that is set is no device's, so none is of the chain.
LEMMA SetBirthdayRead ==
  ASSUME ReadInv, NEW r \in reqs, SetBirthday(r)
  PROVE  Asked' /\ Known'
<1> DEFINE c == [chain EXCEPT !.birthday = r.birthday]
<1>1. /\ TypeOK /\ Asked /\ Fresh /\ r \in RequestType /\ r.pc = "unnamed"
      /\ r.birthday # NoBirthday /\ r.dev \in Devices /\ chain \in ChainType
  BY DEF ReadInv, IInv, TypeOK, SetBirthday, RequestType, Birthdays, NoBirthday
<1>2. \/ Saved(c) /\ Named(r, r.birthday)
      \/ NotSaved(c) /\ Answer(r, device[r.dev])
  BY DEF SetBirthday
<1>3. chain'.birthday = r.birthday
  BY <1>1, <1>2 DEF Saved, NotSaved, ChainType
<1>4. Asked' /\ \A e \in Devices : device'[e] \in {device[e], NewDevice}
  <2>1. CASE Named(r, r.birthday)
    BY <1>1, <2>1, AskedNamed
  <2>2. CASE Answer(r, device[r.dev])
    <3>1. Asked'
      BY <1>1, <2>2, AskedAnswered DEF Asked
    <3>2. device' = device
      BY <1>1, <2>2 DEF Answer, TypeOK
    <3>3. QED
      BY <3>1, <3>2
  <2>3. QED
    BY <1>2, <2>1, <2>2
<1>5. \A e \in Devices : device'[e].birthday # r.birthday
  BY <1>1, <1>4 DEF Fresh, NewDevice
<1>6. Known'
  BY <1>3, <1>5 DEF Known, UpToDate
<1>7. QED
  BY <1>4, <1>6

\* What is new in the chain is beyond every position read so far.
LEMMA CommitRead ==
  ASSUME ReadInv, NEW r \in reqs, Commit(r)
  PROVE  Asked' /\ Known'
<1> PICK types \in DataTypes : CommitAs(r, types)
  BY DEF Commit
<1> DEFINE late == r.given \notin {NoBirthday, chain.birthday}
           c == Committed(r.ids, types, late)
<1>1. /\ TypeOK /\ Asked /\ Known /\ r \in RequestType /\ r.ids \in Batches
      /\ r.pc = "checked" /\ r.birthday \in Birthdays /\ r.birthday # NoBirthday
      /\ r.dev \in Devices /\ device[r.dev] \in DeviceType
      /\ chain \in ChainType /\ undone' = undone
  BY DEF ReadInv, IInv, TypeOK, WellFormed, RequestType, Birthdays, NoBirthday, CommitAs
<1>2. /\ Len(r.ids) \in Nat
      /\ c \in ChainType
      /\ c.birthday = chain.birthday
      /\ c.version = chain.version + Len(r.ids)
      /\ \A k \in 1 .. Len(r.ids) : /\ r.ids[k] \in Ids
                                    /\ c.items[r.ids[k]].version = chain.version + k
      /\ \A i \in Ids : \/ \E k \in 1 .. Len(r.ids) : r.ids[k] = i
                        \/ c.items[i] = chain.items[i]
  BY <1>1, CommittedFacts
<1>3. PICK d : /\ Answer(r, d) /\ d.birthday = r.birthday
               /\ d.token = device[r.dev].token
               /\ \A i \in Ids : \/ d.seen[i] = device[r.dev].seen[i]
                                 \/ \E k \in 1 .. Len(r.ids) : r.ids[k] = i
               /\ chain' = c
  <2> DEFINE named == [device[r.dev] EXCEPT !.birthday = r.birthday]
             entries == {r.ids[k] : k \in DOMAIN r.ids}
             seen == [i \in Ids |-> IF i \in entries THEN c.items[i].version
                                    ELSE named.seen[i]]
             success == [named EXCEPT !.seen = seen]
  <2>1. \/ Saved(c) /\ Answer(r, success)
        \/ NotSaved(c) /\ Answer(r, named)
    BY DEF CommitAs
  <2>2. chain' = c
    BY <2>1 DEF Saved, NotSaved
  <2>3. /\ named.birthday = r.birthday /\ named.token = device[r.dev].token
        /\ named.seen = device[r.dev].seen /\ named \in DeviceType
    BY <1>1 DEF DeviceType
  <2>4. DOMAIN r.ids = 1 .. Len(r.ids)
    BY <1>1, SyncAssumption
  <2>5. \A i \in Ids : \/ seen[i] = device[r.dev].seen[i]
                       \/ \E k \in 1 .. Len(r.ids) : r.ids[k] = i
    BY <2>3, <2>4
  <2> HIDE DEF named, seen, c
  <2>6. /\ success.birthday = r.birthday /\ success.token = device[r.dev].token
        /\ success.seen = seen
    BY <2>3 DEF DeviceType
  <2> HIDE DEF success
  <2>7. QED
    BY <2>1, <2>2, <2>3, <2>5, <2>6
<1> HIDE DEF c
<1>4. Asked'
  BY <1>1, <1>3, AskedAnswered DEF StartsOver
<1>5. \A e \in Devices : device'[e] = IF r.awaited /\ e = r.dev THEN d ELSE device[e]
  BY <1>1, <1>3 DEF Answer, TypeOK
<1>6. r.awaited => device[r.dev].birthday \in {NoBirthday, r.birthday}
  BY <1>1 DEF Asked
<1>7. ASSUME ~undone, NEW e \in Devices, device'[e].birthday = c.birthday
      PROVE  /\ \A t \in Types : device'[e].token[t] <= c.version
             /\ \A i \in Ids : /\ c.items[i].type = TypeOf[i]
                             /\ c.items[i].version \in 1 .. device'[e].token[TypeOf[i]]
                             => device'[e].seen[i] >= c.items[i].version
  <2>1. /\ device'[e].token = device[e].token
        /\ \A i \in Ids : \/ device'[e].seen[i] = device[e].seen[i]
                          \/ \E k \in 1 .. Len(r.ids) : r.ids[k] = i
    BY <1>3, <1>5
  <2>2. /\ chain.version \in Nat /\ \A i \in Ids : chain.items[i].version \in Nat
        /\ \A i \in Ids : TypeOf[i] \in Types
        /\ \A t \in Types : device[e].token[t] \in Nat
    <3>1. \A i \in Ids : TypeOf[i] \in Types
      BY DEF Types
    <3>2. QED
      BY <1>1, <3>1 DEF ChainType, ItemType, DeviceType, TypeOK
  <2>3. CASE device[e].birthday = chain.birthday
    <3>1. UpToDate(device[e], chain)
      BY <1>1, <1>7 DEF Known
    <3>2. /\ \A t \in Types : device[e].token[t] <= chain.version
          /\ \A i \in Ids : /\ chain.items[i].type = TypeOf[i]
                          /\ chain.items[i].version \in 1 .. device[e].token[TypeOf[i]]
                          => device[e].seen[i] >= chain.items[i].version
      BY <2>3, <3>1 DEF UpToDate
    <3>3. \A t \in Types : device'[e].token[t] <= c.version
      BY <1>2, <2>1, <2>2, <3>2
    <3>4. ASSUME NEW i \in Ids, c.items[i].type = TypeOf[i],
                 c.items[i].version \in 1 .. device'[e].token[TypeOf[i]]
          PROVE  device'[e].seen[i] >= c.items[i].version
      <4>1. CASE \E k \in 1 .. Len(r.ids) : r.ids[k] = i
        <5>1. PICK k \in 1 .. Len(r.ids) : r.ids[k] = i
          BY <4>1
        <5>2. c.items[i].version = chain.version + k /\ k > 0 /\ k \in Nat
          BY <1>2, <5>1
        <5>3. /\ device[e].token[TypeOf[i]] \in Nat
              /\ device[e].token[TypeOf[i]] <= chain.version
              /\ c.items[i].version <= device[e].token[TypeOf[i]]
          BY <2>1, <2>2, <3>2, <3>4
        <5>4. QED
          BY <2>2, <5>2, <5>3
      <4>2. CASE ~ \E k \in 1 .. Len(r.ids) : r.ids[k] = i
        BY <1>2, <2>1, <3>2, <3>4, <4>2
      <4>3. QED
        BY <4>1, <4>2
    <3>5. QED
      BY <3>3, <3>4
  <2>4. CASE device[e].birthday # chain.birthday
    <3>1. device[e].birthday = NoBirthday
      BY <1>2, <1>3, <1>5, <1>6, <1>7, <2>4
    <3>2. \A t \in Types : device'[e].token[t] = 0
      BY <1>1, <2>1, <3>1 DEF Asked, StartsOver
    <3>3. c.version \in Nat
      BY <1>2, <2>2
    <3>4. QED
      BY <2>2, <3>2, <3>3
  <2>5. QED
    BY <2>3, <2>4
<1>8. Known'
  BY <1>1, <1>3, <1>7 DEF Known, UpToDate
<1>9. QED
  BY <1>4, <1>8

\* An answer brings what lies between the position it was asked from and the
\* token it carries; the device had the rest.
LEMMA GetUpdatesRead ==
  ASSUME ReadInv, NEW r \in reqs, GetUpdates(r)
  PROVE  Asked' /\ Known'
<1> DEFINE items == Updates(r.since, r.types, MaxBatch)
           old == device[r.dev]
           d == [birthday |-> r.birthday,
                 token |-> [t \in Types |-> IF t \in r.types THEN Reached(items)
                                            ELSE old.token[t]],
                 seen |-> [i \in Ids |-> IF i \in items THEN chain.items[i].version
                                         ELSE old.seen[i]]]
           Has(i) == /\ chain.items[i].type = TypeOf[i]
                     /\ chain.items[i].version \in 1 .. old.token[TypeOf[i]]
                     => old.seen[i] >= chain.items[i].version
<1>1. /\ TypeOK /\ Asked /\ Known /\ r \in RequestType
      /\ r.pc = "checked" /\ r.kind = "updates" /\ r.since \in Nat
      /\ r.birthday \in Birthdays /\ r.birthday # NoBirthday
      /\ r.dev \in Devices /\ old \in DeviceType
      /\ chain \in ChainType /\ Numbered(chain)
  BY DEF ReadInv, IInv, TypeOK, RequestType, Birthdays, NoBirthday, GetUpdates,
         VersionsNumberItems
<1>2. chain' = chain /\ undone' = undone /\ Answer(r, d)
  BY DEF GetUpdates
<1>3. /\ items \subseteq Newer(r.since, r.types)
      /\ Reached(items) \in Nat /\ Reached(items) <= chain.version
      /\ \A i \in Newer(r.since, r.types) :
           chain.items[i].version <= Reached(items) => i \in items
  BY <1>1, ReachedFacts
<1>4. /\ chain.version \in Nat /\ \A i \in Ids : chain.items[i].version \in Nat
      /\ \A t \in Types : old.token[t] \in Nat
      /\ \A i \in Ids : TypeOf[i] \in Types
  <2>1. \A i \in Ids : TypeOf[i] \in Types
    BY DEF Types
  <2>2. QED
    BY <1>1, <2>1 DEF ChainType, ItemType, DeviceType
<1>5. /\ d.birthday = r.birthday
      /\ \A t \in Types : d.token[t] = IF t \in r.types THEN Reached(items)
                                       ELSE old.token[t]
      /\ \A i \in Ids : d.seen[i] = IF i \in items THEN chain.items[i].version
                                    ELSE old.seen[i]
  OBVIOUS
<1> HIDE DEF items, d
<1>6. Asked'
  BY <1>1, <1>2, <1>5, AskedAnswered DEF StartsOver
<1>7. \A e \in Devices : device'[e] = IF r.awaited /\ e = r.dev THEN d ELSE device[e]
  BY <1>1, <1>2 DEF Answer, TypeOK
<1>8. ASSUME ~undone, r.awaited, r.birthday = chain.birthday
      PROVE  /\ \A t \in Types : d.token[t] <= chain.version
             /\ \A i \in Ids : /\ chain.items[i].type = TypeOf[i]
                             /\ chain.items[i].version \in 1 .. d.token[TypeOf[i]]
                             => d.seen[i] >= chain.items[i].version
  <2>1. old.birthday \in {NoBirthday, r.birthday}
    BY <1>1, <1>8 DEF Asked
  <2>2. (\A t \in Types : old.token[t] <= chain.version) /\ \A i \in Ids : Has(i)
    <3>1. CASE old.birthday = NoBirthday
      <4>1. \A t \in Types : old.token[t] = 0
        BY <1>1, <3>1 DEF Asked, StartsOver
      <4>2. QED
        BY <1>4, <4>1
    <3>2. CASE old.birthday = r.birthday
      BY <1>1, <1>8, <3>2 DEF Known, UpToDate
    <3>3. QED
      BY <2>1, <3>1, <3>2
  <2>3. \A t \in Types : d.token[t] <= chain.version
    BY <1>3, <1>5, <2>2
  <2>4. ASSUME NEW i \in Ids, chain.items[i].type = TypeOf[i],
               chain.items[i].version \in 1 .. d.token[TypeOf[i]]
        PROVE  d.seen[i] >= chain.items[i].version
    <3>1. CASE i \in items
      BY <1>4, <1>5, <3>1
    <3>2. CASE i \notin items /\ TypeOf[i] \in r.types
      <4>1. chain.items[i].version <= Reached(items)
        BY <1>3, <1>4, <1>5, <2>4, <3>2
      <4>2. ~ (chain.items[i].version > r.since)
        BY <1>3, <2>4, <3>2, <4>1 DEF Newer
      <4>3. r.since <= old.token[TypeOf[i]]
        BY <1>1, <1>8, <3>2 DEF Asked
      <4>4. chain.items[i].version \in 1 .. old.token[TypeOf[i]]
        BY <1>1, <1>4, <2>4, <4>2, <4>3
      <4>5. QED
        BY <1>5, <2>2, <2>4, <3>2, <4>4
    <3>3. CASE i \notin items /\ TypeOf[i] \notin r.types
      BY <1>4, <1>5, <2>2, <2>4, <3>3
    <3>4. QED
      BY <3>1, <3>2, <3>3
  <2>5. QED
    BY <2>3, <2>4
<1>9. Known'
  <2> SUFFICES ASSUME ~undone, NEW e \in Devices
               PROVE  UpToDate(device'[e], chain)
    BY <1>2 DEF Known
  <2>1. CASE r.awaited /\ e = r.dev
    BY <1>5, <1>7, <1>8, <2>1 DEF UpToDate
  <2>2. CASE ~(r.awaited /\ e = r.dev)
    BY <1>1, <1>7, <2>2 DEF Known
  <2>3. QED
    BY <2>1, <2>2
<1>10. QED
  BY <1>6, <1>9

\* A chain that was cleared has no birthday, and its devices have read nothing.
LEMMA ClearRead ==
  ASSUME ReadInv, NEW r \in reqs, Clear(r)
  PROVE  Asked' /\ Known'
<1>1. /\ TypeOK /\ Asked /\ r \in RequestType /\ r.dev \in Devices
  BY DEF ReadInv, IInv, TypeOK, RequestType
<1>2. PICK d : Answer(r, d) /\ StartsOver(d)
  <2>1. StartsOver(NewDevice) /\ StartsOver(device[r.dev])
    BY <1>1 DEF Asked, StartsOver, NewDevice
  <2>2. QED
    BY <2>1 DEF Clear
<1>3. Asked'
  BY <1>1, <1>2, AskedAnswered
<1>4. chain' = NewChain
  BY DEF Clear, Saved, NotSaved, Cleared
<1>5. Known'
  <2> SUFFICES ASSUME NEW e \in Devices PROVE UpToDate(device'[e], NewChain)
    BY <1>4 DEF Known
  <2>1. StartsOver(device'[e])
    BY <1>3 DEF Asked, StartsOver
  <2>2. /\ NewChain.birthday = NoBirthday /\ NewChain.version = 0
        /\ \A i \in Ids : NewChain.items[i].version = 0
    BY DEF NewChain, NoItem
  <2>3. QED
    BY <2>1, <2>2 DEF UpToDate, StartsOver
<1>6. QED
  BY <1>3, <1>5

LEMMA RestartRead == ASSUME ReadInv, Restart PROVE Asked' /\ Known'
<1>1. Asked'
  BY DEF Restart, ReadInv, Asked, StartsOver
<1>2. Known'
  BY DEF Restart, ReadInv, Known, UpToDate
<1>3. QED
  BY <1>1, <1>2

LEMMA NextReadInv == ReadInv /\ [Next]_vars => ReadInv'
<1> SUFFICES ASSUME ReadInv, [Next]_vars PROVE ReadInv'
  OBVIOUS
<1>1. IInv'
  BY NextIInv DEF ReadInv
<1>2. CASE UNCHANGED vars
  <2>1. Asked' /\ Known'
    BY <1>2 DEF vars, ReadInv, Asked, StartsOver, Known, UpToDate
  <2>2. QED
    BY <1>1, <2>1 DEF ReadInv
<1>3. ASSUME NEW d \in Devices, SendCommit(d) \/ SendClear(d) \/ SendPoll(d)
      PROVE  ReadInv'
  BY <1>1, <1>3, SendsRead DEF ReadInv
<1>4. ASSUME NEW r \in reqs, Handle(r) \/ GiveUp(r)
      PROVE  ReadInv'
  BY <1>1, <1>4, ReadBirthdayRead, SetBirthdayRead, CommitRead, GetUpdatesRead,
     ClearRead, GiveUpRead DEF Handle, ReadInv
<1>5. CASE Restart
  BY <1>1, <1>5, RestartRead DEF ReadInv
<1>6. QED
  BY <1>2, <1>3, <1>4, <1>5 DEF Next

\* A device has seen every item of its chain up to its token, wherever batches
\* are cut, answers are lost and requests race, until the server loses what it
\* could not save; but for items that are stored under another type.
THEOREM DevicesMissNothing == Spec => []NoMissedUpdate
<1>1. ReadInv => NoMissedUpdate
  BY DEF ReadInv, Known, UpToDate, NoMissedUpdate, Filed, SeenToToken
<1>2. QED
  BY <1>1, ReadInvInit, NextReadInv, PTL DEF Spec
=============================================================================
