--------------------------- MODULE UserListsProofs ---------------------------
(***************************************************************************)
(* Proofs about UserLists, for any addresses, rules and number of inputs   *)
(* and exits.  IInv is the inductive invariant.  What it adds to the       *)
(* properties is which jobs of a list may be under way together (Jobs),    *)
(* what its copy on disk is meanwhile (Copies), and what the last build    *)
(* that was asked for has read (Builds).                                   *)
(***************************************************************************)
EXTENDS UserLists, SequenceTheorems, FiniteSetTheorems, TLAPS

\* A reply with a copy in place waits for the UI thread.
Saved(u) == fetcher.stage = "saved" /\ fetcher.current = u

\* Nothing noted is newer than the last download, and a save that is left of an
\* earlier download is behind it.
Jobs ==
  /\ fetcher.stage # "none" => fetcher.started > 0
  /\ \A u \in Urls : /\ entry[u].updated <= fetcher.started
                     /\ fetcher.stage # "none" => entry[u].updated < fetcher.started
  /\ \A s \in saves : /\ s.copy <= fetcher.started
                      /\ fetcher.stage \in {"download", "saved", "unsaved"} =>
                           s.copy < fetcher.started
                      /\ fetcher.stage = "save" /\ s.copy = fetcher.started =>
                           s.url = fetcher.current

\* A list without a race has one job at most: the save of the download that
\* runs, or deletes of what is not noted any more.
Apart ==
  \A u \in Urls \ raced :
    /\ \A s \in saves : s.url = u => /\ fetcher.current = u
                                     /\ fetcher.stage = "save"
                                     /\ s.copy = fetcher.started
    /\ deletes[u] > 0 => /\ entry[u].updated = 0
                         /\ ~Saving(u) /\ ~Saved(u)

Copies ==
  \A u \in Urls \ raced :
    /\ deletes[u] = 0 /\ ~Saved(u) => file[u] = entry[u].updated
    /\ Saved(u) => file[u] = fetcher.started

\* The key of the last build that was asked for, and what the one that runs, or
\* else the engine, was built from and could not read.
LastKey == IF builds # <<>> THEN builds[Len(builds)]
           ELSE IF building # NoEngine THEN building.key ELSE engine.key
LastRead == IF building # NoEngine THEN building.read ELSE engine.read
LastMissed == IF building # NoEngine THEN building.missed ELSE engine.missed

Builds ==
  /\ noted \in {NotNoted, KeyOf(entry, text)}
  /\ noted = NotNoted => builds = <<>> /\ building = NoEngine /\ engine = NoEngine
  /\ noted # NotNoted => LastKey = noted
  /\ noted # NotNoted /\ builds = <<>> =>
       \A u \in Urls \ (raced \cup LastMissed) :
         \/ LastRead[u] = entry[u].updated
         \/ entry[u].updated # 0 /\ Saved(u) /\ LastRead[u] = fetcher.started

\* What the fetcher keeps of itself.
Queued(f) ==
  /\ f.pending = ToSet(f.queue) \cup ({f.current} \ {NoUrl})
  /\ f.current \notin ToSet(f.queue)
  /\ IsInjective(f.queue)
Fetches(f) == /\ f \in FetcherType
              /\ f.current = NoUrl <=> f.stage = "none"
              /\ Queued(f)
Moves(f) == f.current = NoUrl => f.queue = <<>>

\* The fetcher goes on with what it does, or begins a download when it is idle.
Goes(f, g) ==
  \/ g.current = f.current /\ g.stage = f.stage /\ g.started = f.started
  \/ /\ f.current = NoUrl /\ g.current # NoUrl
     /\ g.stage = "download" /\ g.started = f.started + 1

\* The fetcher when the download that runs is given up or has come to its end.
Stopped(f) == [f EXCEPT !.current = NoUrl, !.stage = "none"]

Fetching == Fetches(fetcher) /\ Moves(fetcher) /\ fetcher.pending \subseteq Listed

IInv == TypeOK /\ Fetching /\ Jobs /\ Apart /\ Copies /\ Builds

-----------------------------------------------------------------------------
(* The queue. *)

LEMMA ToSetFacts ==
  ASSUME NEW q \in Seq(Urls)
  PROVE  /\ Len(q) \in Nat
         /\ \A k \in 1 .. Len(q) : q[k] \in Urls
         /\ ToSet(q) = {q[k] : k \in 1 .. Len(q)}
         /\ IsInjective(q) <=> \A j, k \in 1 .. Len(q) : q[j] = q[k] => j = k
BY DEF ToSet, IsInjective

\* The queue without its first list.
LEMMA TailFacts ==
  ASSUME NEW q \in Seq(Urls), q # <<>>, IsInjective(q)
  PROVE  /\ Head(q) \in Urls
         /\ Tail(q) \in Seq(Urls)
         /\ IsInjective(Tail(q))
         /\ Head(q) \notin ToSet(Tail(q))
         /\ ToSet(q) = ToSet(Tail(q)) \cup {Head(q)}
<1>1. PICK t \in Seq(Urls) : t = Tail(q)
  BY HeadTailProperties
<1>2. /\ Len(q) \in Nat \ {0} /\ Head(q) = q[1]
      /\ \A j, k \in 1 .. Len(q) : q[j] = q[k] => j = k
      /\ ToSet(q) = {q[k] : k \in 1 .. Len(q)}
      /\ \A k \in 1 .. Len(q) : q[k] \in Urls
  BY ToSetFacts, EmptySeq
<1>3. Len(t) = Len(q) - 1 /\ \A k \in 1 .. Len(q) - 1 : t[k] = q[k + 1]
  BY <1>1, HeadTailProperties
<1>4. ToSet(t) = {t[k] : k \in 1 .. Len(q) - 1}
  BY <1>3, ToSetFacts
<1>5. \A k \in 1 .. Len(q) - 1 : k + 1 \in 1 .. Len(q) /\ 1 \in 1 .. Len(q) /\ k + 1 # 1
  BY <1>2
<1>6. q[1] \notin ToSet(t)
  BY <1>2, <1>3, <1>4, <1>5
<1>7. ToSet(q) = ToSet(t) \cup {q[1]}
  <2>1. \A k \in 1 .. Len(q) : k = 1 \/ (k - 1 \in 1 .. Len(q) - 1 /\ k = (k - 1) + 1)
    BY <1>2
  <2>2. 1 \in 1 .. Len(q)
    BY <1>2
  <2>3. \A k \in 1 .. Len(q) : q[k] = q[1] \/ q[k] \in ToSet(t)
    BY <1>3, <1>4, <2>1
  <2>4. \A k \in 1 .. Len(q) - 1 : t[k] \in ToSet(q)
    BY <1>2, <1>3, <1>5
  <2>5. ToSet(t) \subseteq ToSet(q)
    BY <1>4, <2>4
  <2>6. ToSet(q) \subseteq ToSet(t) \cup {q[1]}
    BY <1>2, <2>3
  <2>7. q[1] \in ToSet(q)
    BY <1>2, <2>2
  <2>8. QED
    BY <2>5, <2>6, <2>7
<1>8. IsInjective(t)
  <2> SUFFICES ASSUME NEW j \in 1 .. Len(q) - 1, NEW k \in 1 .. Len(q) - 1, t[j] = t[k]
               PROVE  j = k
    BY <1>3, ToSetFacts
  <2>1. j + 1 \in 1 .. Len(q) /\ k + 1 \in 1 .. Len(q) /\ q[j + 1] = q[k + 1]
    BY <1>2, <1>3
  <2>2. QED
    BY <1>2, <2>1
<1>9. QED
  BY <1>1, <1>2, <1>6, <1>7, <1>8

-----------------------------------------------------------------------------
(* The fetcher. *)

LEMMA StartNextFacts ==
  ASSUME NEW f, Fetches(f)
  PROVE  LET g == StartNext(f) IN
           Fetches(g) /\ Moves(g) /\ g.pending = f.pending /\ Goes(f, g)
<1>1. CASE f.current # NoUrl \/ f.queue = <<>>
  BY <1>1 DEF StartNext, Moves, Goes
<1>2. CASE f.current = NoUrl /\ f.queue # <<>>
  <2>1. PICK h, t : h = Head(f.queue) /\ t = Tail(f.queue)
    OBVIOUS
  <2>2. f \in FetcherType
    BY DEF Fetches
  <2>3. /\ h \in Urls /\ t \in Seq(Urls) /\ IsInjective(t) /\ h \notin ToSet(t)
        /\ ToSet(f.queue) = ToSet(t) \cup {h}
    BY <1>2, <2>1, <2>2, TailFacts DEF FetcherType, Fetches, Queued
  <2> DEFINE g == [f EXCEPT !.current = h, !.queue = t, !.stage = "download",
                            !.started = f.started + 1]
  <2>4. StartNext(f) = g
    BY <1>2, <2>1 DEF StartNext
  <2>5. /\ g \in FetcherType /\ g.current = h /\ g.queue = t
        /\ g.stage = "download" /\ g.started = f.started + 1
        /\ g.pending = f.pending
    <3>1. f.started + 1 \in Nat
      BY <2>2 DEF FetcherType
    <3>2. PICK n \in Nat : n = f.started + 1
      BY <3>1
    <3>3. g = [f EXCEPT !.current = h, !.queue = t, !.stage = "download", !.started = n]
      BY <3>2
    <3> HIDE DEF g
    <3>4. g \in FetcherType
      BY <2>2, <2>3, <3>3 DEF FetcherType, Stages
    <3>5. QED
      BY <2>2, <3>2, <3>3, <3>4 DEF FetcherType
  <2>6. h # NoUrl
    BY <2>3, UserListsAssumption
  <2> HIDE DEF g
  <2>7. Queued(g)
    BY <1>2, <2>3, <2>5, <2>6 DEF Queued, Fetches
  <2>8. Fetches(g) /\ Moves(g) /\ Goes(f, g)
    BY <1>2, <2>5, <2>6, <2>7 DEF Fetches, Moves, Goes
  <2>9. QED
    BY <2>4, <2>5, <2>8
<1>3. QED
  BY <1>1, <1>2

\* Two queues of different lists, one after the other.
LEMMA ConcatFacts ==
  ASSUME NEW q \in Seq(Urls), IsInjective(q), NEW p \in Seq(Urls), IsInjective(p),
         \A j \in 1 .. Len(q), k \in 1 .. Len(p) : q[j] # p[k]
  PROVE  /\ q \o p \in Seq(Urls)
         /\ IsInjective(q \o p)
         /\ ToSet(q \o p) = ToSet(q) \cup ToSet(p)
<1>1. PICK m, n \in Nat : m = Len(q) /\ n = Len(p)
  BY ToSetFacts
<1>2. PICK c \in Seq(Urls) : c = q \o p
  BY ConcatProperties
<1>3. /\ Len(c) = m + n
      /\ \A i \in 1 .. m : c[i] = q[i]
      /\ \A i \in m + 1 .. m + n : i - m \in 1 .. n /\ c[i] = p[i - m]
  BY <1>1, <1>2, ConcatProperties
<1>4. /\ \A j, k \in 1 .. m : q[j] = q[k] => j = k
      /\ \A j, k \in 1 .. n : p[j] = p[k] => j = k
      /\ ToSet(q) = {q[k] : k \in 1 .. m}
      /\ ToSet(p) = {p[k] : k \in 1 .. n}
      /\ ToSet(c) = {c[k] : k \in 1 .. m + n}
  BY <1>1, <1>3, ToSetFacts
<1>5. IsInjective(c)
  <2> SUFFICES ASSUME NEW i \in 1 .. m + n, NEW j \in 1 .. m + n, c[i] = c[j]
               PROVE  i = j
    BY <1>3, ToSetFacts
  <2>1. CASE i \in 1 .. m /\ j \in 1 .. m
    BY <1>3, <1>4, <2>1
  <2>2. CASE i \in m + 1 .. m + n /\ j \in m + 1 .. m + n
    <3>1. i - m = j - m
      BY <1>3, <1>4, <2>2
    <3>2. QED
      BY <2>2, <3>1
  <2>3. CASE i \in 1 .. m /\ j \in m + 1 .. m + n
    BY <1>1, <1>3, <2>3
  <2>4. CASE i \in m + 1 .. m + n /\ j \in 1 .. m
    BY <1>1, <1>3, <2>4
  <2>5. QED
    BY <2>1, <2>2, <2>3, <2>4
<1>6. ToSet(c) = ToSet(q) \cup ToSet(p)
  <2>1. \A i \in 1 .. m + n : c[i] \in ToSet(q) \/ c[i] \in ToSet(p)
    <3> SUFFICES ASSUME NEW i \in 1 .. m + n PROVE c[i] \in ToSet(q) \/ c[i] \in ToSet(p)
      OBVIOUS
    <3>1. CASE i \in 1 .. m
      BY <1>3, <1>4, <3>1
    <3>2. CASE i \in m + 1 .. m + n
      <4>1. i - m \in 1 .. n /\ c[i] = p[i - m]
        BY <1>3, <3>2
      <4>2. QED
        BY <1>4, <4>1
    <3>3. QED
      BY <3>1, <3>2
  <2>2. \A k \in 1 .. m : k \in 1 .. m + n
    OBVIOUS
  <2>3. \A k \in 1 .. n : k + m \in m + 1 .. m + n /\ k + m \in 1 .. m + n /\ (k + m) - m = k
    OBVIOUS
  <2>4. \A k \in 1 .. n : p[k] = c[k + m]
    BY <1>3, <2>3
  <2>5. ToSet(c) \subseteq ToSet(q) \cup ToSet(p)
    BY <1>4, <2>1
  <2>6. ToSet(q) \subseteq ToSet(c)
    BY <1>3, <1>4, <2>2
  <2>7. ToSet(p) \subseteq ToSet(c)
    <3>1. \A k \in 1 .. n : c[k + m] \in ToSet(c)
      BY <1>4, <2>3
    <3>2. \A k \in 1 .. n : p[k] \in ToSet(c)
      BY <2>4, <3>1
    <3>3. ToSet(p) = {p[k] : k \in 1 .. n}
      BY <1>4
    <3>4. QED
      BY <3>2, <3>3
  <2>8. QED
    BY <2>5, <2>6, <2>7
<1>7. QED
  BY <1>2, <1>5, <1>6

LEMMA AppendFacts ==
  ASSUME NEW q \in Seq(Urls), IsInjective(q), NEW u \in Urls \ ToSet(q)
  PROVE  /\ Append(q, u) \in Seq(Urls)
         /\ IsInjective(Append(q, u))
         /\ ToSet(Append(q, u)) = ToSet(q) \cup {u}
<1>1. PICK p \in Seq(Urls) : p = <<u>>
  <2>1. <<u>> \in Seq(Urls)
    <3>1. u \in Urls
      OBVIOUS
    <3>2. QED
      BY <3>1
  <2>2. QED
    BY <2>1
<1>2. Len(p) = 1 /\ p[1] = u
  BY <1>1
<1>3. IsInjective(p) /\ ToSet(p) = {u}
  BY <1>2, ToSetFacts
<1>4. \A j \in 1 .. Len(q), k \in 1 .. Len(p) : q[j] # p[k]
  BY <1>2, ToSetFacts
<1>5. Append(q, u) = q \o p
  BY <1>1, AppendIsConcat
<1>6. QED
  BY <1>3, <1>4, <1>5, ConcatFacts

\* The queue without a list that is removed.
LEMMA DequeuedFacts ==
  ASSUME NEW q \in Seq(Urls), IsInjective(q), NEW u \in Urls
  PROVE  /\ Dequeued(q, u) \in Seq(Urls)
         /\ IsInjective(Dequeued(q, u))
         /\ ToSet(Dequeued(q, u)) = ToSet(q) \ {u}
         /\ q = <<>> => Dequeued(q, u) = <<>>
<1>1. /\ Len(q) \in Nat
      /\ \A j, k \in 1 .. Len(q) : q[j] = q[k] => j = k
      /\ ToSet(q) = {q[k] : k \in 1 .. Len(q)}
      /\ DOMAIN q = 1 .. Len(q)
      /\ \A k \in 1 .. Len(q) : q[k] \in Urls
  BY ToSetFacts
<1>2. CASE u \notin ToSet(q)
  BY <1>2 DEF Dequeued
<1>3. CASE u \in ToSet(q)
  <2>1. PICK i \in 1 .. Len(q) : i = CHOOSE k \in DOMAIN q : q[k] = u
    BY <1>1, <1>3
  <2>2. q[i] = u
    BY <1>1, <1>3, <2>1
  <2>3. PICK p, r : p = SubSeq(q, 1, i - 1) /\ r = SubSeq(q, i + 1, Len(q))
    OBVIOUS
  <2>4. Dequeued(q, u) = p \o r
    BY <1>3, <2>1, <2>3 DEF Dequeued, RemoveAt
  <2>5. /\ p \in Seq(Urls) /\ Len(p) = i - 1
        /\ \A k \in 1 .. i - 1 : p[k] = q[k]
    <3>1. \A k \in 1 .. i - 1 : q[k] \in Urls
      BY <1>1, <2>1
    <3>2. 1 \in Int /\ i - 1 \in Int /\ i \in Nat /\ i >= 1
      BY <1>1, <2>1
    <3>3. /\ SubSeq(q, 1, i - 1) \in Seq(Urls)
          /\ Len(SubSeq(q, 1, i - 1)) = IF 1 <= i - 1 THEN (i - 1) - 1 + 1 ELSE 0
          /\ \A k \in 1 .. (i - 1) - 1 + 1 : SubSeq(q, 1, i - 1)[k] = q[1 + k - 1]
      BY <3>1, <3>2, SubSeqProperties
    <3>4. QED
      BY <2>3, <3>2, <3>3
  <2>6. /\ r \in Seq(Urls) /\ Len(r) = Len(q) - i
        /\ \A k \in 1 .. Len(q) - i : r[k] = q[i + k]
    <3>1. \A k \in i + 1 .. Len(q) : q[k] \in Urls
      BY <1>1, <2>1
    <3>2. i + 1 \in Int /\ Len(q) \in Int /\ i \in Nat /\ i <= Len(q)
      BY <1>1, <2>1
    <3>3. /\ SubSeq(q, i + 1, Len(q)) \in Seq(Urls)
          /\ Len(SubSeq(q, i + 1, Len(q))) =
               IF i + 1 <= Len(q) THEN Len(q) - (i + 1) + 1 ELSE 0
          /\ \A k \in 1 .. Len(q) - (i + 1) + 1 :
               SubSeq(q, i + 1, Len(q))[k] = q[(i + 1) + k - 1]
      BY <3>1, <3>2, SubSeqProperties
    <3>4. QED
      BY <2>3, <3>2, <3>3
  <2>7. IsInjective(p)
    <3>1. \A j, k \in 1 .. Len(p) : p[j] = p[k] => j = k
      BY <1>1, <2>1, <2>5
    <3>2. QED
      BY <2>5, <3>1, ToSetFacts
  <2>8. IsInjective(r)
    <3>1. \A j \in 1 .. Len(r) : i + j \in 1 .. Len(q) /\ r[j] = q[i + j]
      BY <1>1, <2>1, <2>6
    <3>2. \A j, k \in 1 .. Len(r) : r[j] = r[k] => i + j = i + k
      BY <1>1, <3>1
    <3>3. \A j, k \in 1 .. Len(r) : r[j] = r[k] => j = k
      BY <2>1, <2>6, <3>2
    <3>4. QED
      BY <2>6, <3>3, ToSetFacts
  <2>9. \A j \in 1 .. Len(p), k \in 1 .. Len(r) : p[j] # r[k]
    <3>1. \A k \in 1 .. Len(r) : i + k \in 1 .. Len(q) /\ r[k] = q[i + k]
      BY <1>1, <2>1, <2>6
    <3>2. \A j \in 1 .. Len(p) : j \in 1 .. Len(q) /\ p[j] = q[j] /\ j < i
      BY <1>1, <2>1, <2>5
    <3>3. \A j \in 1 .. Len(p), k \in 1 .. Len(r) : j # i + k
      BY <2>1, <2>5, <2>6, <3>2
    <3>4. QED
      BY <1>1, <3>1, <3>2, <3>3
  <2>10. ToSet(p) \cup ToSet(r) = ToSet(q) \ {u}
    <3>1. /\ ToSet(p) = {p[k] : k \in 1 .. Len(p)}
          /\ ToSet(r) = {r[k] : k \in 1 .. Len(r)}
      BY <2>5, <2>6, ToSetFacts
    <3>2. \A k \in 1 .. Len(q) :
            \/ k = i
            \/ k \in 1 .. Len(p) /\ p[k] = q[k]
            \/ k - i \in 1 .. Len(r) /\ r[k - i] = q[k]
      <4> SUFFICES ASSUME NEW k \in 1 .. Len(q), k # i
                   PROVE  \/ k \in 1 .. Len(p) /\ p[k] = q[k]
                          \/ k - i \in 1 .. Len(r) /\ r[k - i] = q[k]
        OBVIOUS
      <4>1. CASE k < i
        BY <1>1, <2>1, <2>5, <4>1
      <4>2. CASE k > i
        <5>1. k - i \in 1 .. Len(q) - i /\ i + (k - i) = k
          BY <1>1, <2>1, <4>2
        <5>2. QED
          BY <2>6, <5>1
      <4>3. QED
        BY <1>1, <2>1, <4>1, <4>2
    <3> DEFINE n == Len(q)
    <3>a. n \in Nat /\ i \in 1 .. n /\ Len(p) = i - 1 /\ Len(r) = n - i
      BY <1>1, <2>1, <2>5, <2>6
    <3>b. \A k \in 1 .. Len(p) : k \in 1 .. n /\ k # i
      <4> HIDE DEF n
      <4>1. QED
        BY <3>a
    <3>c. \A k \in 1 .. Len(r) : i + k \in 1 .. n /\ i + k # i
      <4> HIDE DEF n
      <4>1. QED
        BY <3>a
    <3>3. \A k \in 1 .. Len(p) : k \in 1 .. Len(q) /\ k # i /\ p[k] = q[k]
      BY <2>5, <3>b
    <3>4. \A k \in 1 .. Len(r) : i + k \in 1 .. Len(q) /\ i + k # i /\ r[k] = q[i + k]
      BY <2>6, <3>c
    <3>5. \A k \in 1 .. Len(p) : p[k] \in ToSet(q) /\ p[k] # u
      BY <1>1, <2>2, <3>3
    <3>6. \A k \in 1 .. Len(r) : r[k] \in ToSet(q) /\ r[k] # u
      BY <1>1, <2>2, <3>4
    <3>7. \A k \in 1 .. Len(q) : q[k] # u => q[k] \in ToSet(p) \cup ToSet(r)
      BY <2>2, <3>1, <3>2
    <3>8. QED
      BY <1>1, <3>1, <3>5, <3>6, <3>7
  <2>11. q # <<>>
    BY <1>1, <2>1, EmptySeq
  <2>12. QED
    BY <2>4, <2>5, <2>6, <2>7, <2>8, <2>9, <2>10, <2>11, ConcatFacts
<1>4. QED
  BY <1>2, <1>3

LEMMA QueueFacts ==
  ASSUME NEW f, Fetches(f), Moves(f), NEW u \in Urls
  PROVE  LET g == Queue(f, u) IN
           /\ Fetches(g) /\ Moves(g) /\ Goes(f, g)
           /\ g.pending = f.pending \cup {u}
<1>1. CASE u \in f.pending
  BY <1>1 DEF Queue, Goes
<1>2. CASE u \notin f.pending
  <2>1. f \in FetcherType /\ IsInjective(f.queue) /\ u \notin ToSet(f.queue) /\ u # f.current
    BY <1>2, UserListsAssumption DEF Fetches, Queued
  <2>2. PICK q \in Seq(Urls) : /\ q = Append(f.queue, u) /\ IsInjective(q)
                               /\ ToSet(q) = ToSet(f.queue) \cup {u}
    BY <2>1, AppendFacts DEF FetcherType
  <2>3. PICK h : h = [f EXCEPT !.pending = f.pending \cup {u}, !.queue = q]
    OBVIOUS
  <2>4. Queue(f, u) = StartNext(h)
    BY <1>2, <2>2, <2>3 DEF Queue
  <2>5. /\ h \in FetcherType /\ h.pending = f.pending \cup {u} /\ h.queue = q
        /\ h.current = f.current /\ h.stage = f.stage /\ h.started = f.started
    BY <2>1, <2>3 DEF FetcherType
  <2>6. Fetches(h)
    BY <2>1, <2>2, <2>5 DEF Fetches, Queued
  <2>7. QED
    BY <2>4, <2>5, <2>6, StartNextFacts DEF Goes
<1>3. QED
  BY <1>1, <1>2

\* What runs goes on, unless it is the list that is removed.
LEMMA ForgetFacts ==
  ASSUME NEW f, Fetches(f), Moves(f), NEW u \in Urls
  PROVE  LET g == Forget(f, u) IN
           /\ Fetches(g) /\ Moves(g)
           /\ Goes(IF u = f.current THEN Stopped(f) ELSE f, g)
           /\ g.pending = f.pending \ {u}
<1>1. f \in FetcherType /\ Queued(f)
  BY DEF Fetches
<1>2. CASE u \notin f.pending
  <2>1. u # f.current /\ f.pending = f.pending \ {u}
    BY <1>1, <1>2, UserListsAssumption DEF Queued
  <2>2. QED
    BY <1>2, <2>1 DEF Forget, Goes
<1>3. CASE u \in f.pending
  <2>1. PICK q \in Seq(Urls) : /\ q = Dequeued(f.queue, u) /\ IsInjective(q)
                               /\ ToSet(q) = ToSet(f.queue) \ {u}
                               /\ f.queue = <<>> => q = <<>>
    BY <1>1, DequeuedFacts DEF FetcherType, Queued
  <2>2. PICK h : h = [f EXCEPT !.pending = f.pending \ {u}, !.queue = q]
    OBVIOUS
  <2>3. /\ h \in FetcherType /\ h.pending = f.pending \ {u} /\ h.queue = q
        /\ h.current = f.current /\ h.stage = f.stage /\ h.started = f.started
    BY <1>1, <2>2 DEF FetcherType
  <2>4. CASE u # f.current
    <3>1. Forget(f, u) = h
      BY <1>3, <2>1, <2>2, <2>4 DEF Forget
    <3>2. Fetches(h) /\ Moves(h) /\ Goes(f, h)
      BY <1>1, <2>1, <2>3, <2>4, UserListsAssumption DEF Fetches, Queued, Moves, Goes
    <3>3. QED
      BY <2>3, <2>4, <3>1, <3>2
  <2>5. CASE u = f.current
    <3>1. PICK k : k = [h EXCEPT !.current = NoUrl, !.stage = "none"]
      OBVIOUS
    <3>2. Forget(f, u) = StartNext(k)
      BY <1>3, <2>1, <2>2, <2>5, <3>1 DEF Forget
    <3>3. /\ k \in FetcherType /\ k.pending = f.pending \ {u} /\ k.queue = q
          /\ k.current = NoUrl /\ k.stage = "none" /\ k.started = f.started
      BY <2>3, <3>1 DEF FetcherType, Stages
    <3>4. NoUrl \notin ToSet(q) /\ u \notin ToSet(f.queue)
      BY <1>1, <2>1, <2>5, ToSetFacts, UserListsAssumption DEF Queued
    <3>5. Fetches(k)
      BY <1>1, <2>1, <2>5, <3>3, <3>4 DEF Fetches, Queued
    <3>6. /\ Stopped(f).current = NoUrl /\ Stopped(f).stage = "none"
          /\ Stopped(f).started = f.started
      BY <1>1 DEF Stopped, FetcherType
    <3>7. QED
      BY <2>5, <3>2, <3>3, <3>5, <3>6, StartNextFacts DEF Goes
  <2>6. QED
    BY <2>4, <2>5
<1>4. QED
  BY <1>2, <1>3

\* Lists that are due, in some order, after those that wait.
LEMMA RefreshedFacts ==
  ASSUME NEW f, Fetches(f), NEW e, NEW g \in Refreshed(f, e)
  PROVE  /\ Fetches(g) /\ Goes(f, g)
         /\ Moves(f) => Moves(g)
         /\ g.pending \subseteq f.pending \cup {u \in Urls : e[u].listed}
         /\ f.pending \subseteq g.pending
<1>1. CASE g = f
  BY <1>1 DEF Goes
<1>2. CASE g # f
  <2> DEFINE D == Due(f, e)
  <2>1. PICK order \in SetToSeqs(D) :
          g = StartNext([f EXCEPT !.pending = f.pending \cup D, !.queue = f.queue \o order])
    BY <1>2 DEF Refreshed
  <2>2. D \subseteq Urls /\ D \cap f.pending = {} /\ D \subseteq {u \in Urls : e[u].listed}
    BY DEF Due
  <2>3. f \in FetcherType /\ Queued(f) /\ f.queue \in Seq(Urls) /\ IsInjective(f.queue)
    BY DEF Fetches, FetcherType, Queued
  <2>4. /\ order \in Seq(Urls) /\ IsInjective(order) /\ ToSet(order) = D
    <3>1. IsFiniteSet(D)
      BY <2>2, UserListsAssumption, FS_Subset
    <3>2. PICK n \in Nat : n = Cardinality(D)
      BY <3>1, FS_CardinalityType
    <3>3. order \in [1 .. n -> D] /\ \A i, j \in 1 .. n : i # j => order[i] # order[j]
      BY <2>1, <3>2 DEF SetToSeqs
    <3> HIDE DEF D
    <3>4. order \in Seq(Urls) /\ Len(order) = n
      BY <2>2, <3>3
    <3>5. IsInjective(order)
      BY <3>3, <3>4, ToSetFacts
    <3>6. ToSet(order) = {order[k] : k \in 1 .. n}
      BY <3>4, ToSetFacts
    <3>7. Cardinality(1 .. n) = n
      BY FS_Interval
    <3>8. \A d \in D : \E k \in 1 .. n : order[k] = d
      <4>1. order \in Injection(1 .. n, D)
        <5>1. \A i, j \in 1 .. n : order[i] = order[j] => i = j
          BY <3>3
        <5>2. IsInjective(order)
          BY <3>3, <5>1 DEF IsInjective
        <5>3. QED
          BY <3>3, <5>2 DEF Injection
      <4>2. order \in Surjection(1 .. n, D)
        BY <3>1, <3>2, <3>7, <4>1, FS_Injection
      <4>3. QED
        BY <4>2 DEF Surjection
    <3>9. QED
      BY <3>3, <3>4, <3>5, <3>6, <3>8
  <2> HIDE DEF D
  <2>5. PICK q \in Seq(Urls) : /\ q = f.queue \o order /\ IsInjective(q)
                               /\ ToSet(q) = ToSet(f.queue) \cup D
    <3>1. \A j \in 1 .. Len(f.queue), k \in 1 .. Len(order) : f.queue[j] # order[k]
      <4>1. ToSet(f.queue) \subseteq f.pending
        BY <2>3 DEF Queued
      <4>2. \A j \in 1 .. Len(f.queue) : f.queue[j] \in ToSet(f.queue)
        BY <2>3, ToSetFacts
      <4>3. \A k \in 1 .. Len(order) : order[k] \in ToSet(order)
        BY <2>4, ToSetFacts
      <4>4. QED
        BY <2>2, <2>4, <4>1, <4>2, <4>3
    <3>2. QED
      BY <2>3, <2>4, <3>1, ConcatFacts
  <2>6. PICK h : h = [f EXCEPT !.pending = f.pending \cup D, !.queue = q]
    OBVIOUS
  <2>7. g = StartNext(h)
    BY <2>1, <2>5, <2>6 DEF D
  <2>8. /\ h \in FetcherType /\ h.pending = f.pending \cup D /\ h.queue = q
        /\ h.current = f.current /\ h.stage = f.stage /\ h.started = f.started
    BY <2>2, <2>3, <2>6 DEF FetcherType
  <2>9. f.current \notin D
    BY <2>2, <2>3, UserListsAssumption DEF Queued
  <2>10. Fetches(h)
    BY <2>3, <2>5, <2>8, <2>9 DEF Fetches, Queued
  <2>11. QED
    BY <2>2, <2>7, <2>8, <2>10, StartNextFacts DEF Goes
<1>3. QED
  BY <1>1, <1>2

LEMMA GoesOn ==
  ASSUME NEW a, NEW b, NEW c, Goes(a, b), Goes(b, c)
  PROVE  Goes(a, c)
BY DEF Goes

-----------------------------------------------------------------------------
(* Keys and builds. *)

LEMMA KeyFacts ==
  /\ \A k \in KeyType : k # NotNoted
  /\ \A k \in EngineType : k # NoEngine
  /\ \A e \in [Urls -> EntryType], t \in Texts :
       /\ KeyOf(e, t) \in KeyType
       /\ KeyOf(e, t).text = t
       /\ \A u \in Urls : KeyOf(e, t).copies[u] = e[u].updated
<1>1. \A c \in [Urls -> Nat] : c # <<>>
  <2> SUFFICES ASSUME NEW c \in [Urls -> Nat], c = <<>> PROVE FALSE
    OBVIOUS
  <2>1. DOMAIN c = Urls /\ DOMAIN c = {}
    OBVIOUS
  <2>2. QED
    BY <2>1, UserListsAssumption
<1>2. \A k \in KeyType : k # NotNoted
  BY <1>1 DEF KeyType, NotNoted
<1>3. \A k \in EngineType : k # NoEngine
  BY <1>1 DEF EngineType, NoEngine
<1>4. ASSUME NEW e \in [Urls -> EntryType], NEW t \in Texts
      PROVE  /\ KeyOf(e, t) \in KeyType
             /\ KeyOf(e, t).text = t
             /\ \A u \in Urls : KeyOf(e, t).copies[u] = e[u].updated
  <2>1. \A u \in Urls : e[u].updated \in Nat
    BY DEF EntryType
  <2>2. QED
    BY <2>1 DEF KeyOf, KeyType
<1>5. QED
  BY <1>2, <1>3, <1>4

\* A build is asked for unless the last one was for the same key.
LEMMA NoteRulesFacts ==
  ASSUME TypeOK, Builds, NEW e \in [Urls -> EntryType], NEW t \in Texts,
         NoteRules(e, t)
  PROVE  /\ noted' = KeyOf(e, t) /\ noted' \in KeyType /\ noted' # NotNoted
         /\ builds' \in Seq(KeyType)
         /\ builds' # <<>> => \/ builds'[Len(builds')] = noted'
                              \/ builds' = builds /\ noted' = noted
         /\ builds' = <<>> => builds = <<>> /\ noted = noted'
<1>1. KeyOf(e, t) \in KeyType /\ KeyOf(e, t) # NotNoted
  BY KeyFacts
<1>2. CASE KeyOf(e, t) = noted
  BY <1>1, <1>2 DEF NoteRules, TypeOK
<1>3. CASE KeyOf(e, t) # noted
  <2>1. PICK k \in KeyType : k = KeyOf(e, t)
    BY <1>1
  <2>2. builds' = Append(builds, k) /\ builds \in Seq(KeyType)
    BY <1>3, <2>1 DEF NoteRules, TypeOK
  <2>3. /\ builds' \in Seq(KeyType) /\ builds' # <<>>
        /\ Len(builds') = Len(builds) + 1 /\ builds'[Len(builds) + 1] = k
    BY <2>2, AppendProperties
  <2>4. noted' = k
    BY <2>1 DEF NoteRules
  <2>5. builds'[Len(builds')] = k
    BY <2>3
  <2>6. noted' = KeyOf(e, t) /\ noted' \in KeyType /\ noted' # NotNoted
    BY <1>1, <2>1, <2>4
  <2>7. builds'[Len(builds')] = noted'
    BY <2>4, <2>5
  <2>8. QED
    BY <2>3, <2>6, <2>7
<1>4. QED
  BY <1>2, <1>3

\* Builds is kept by a step that notes the rules ...
LEMMA NotedBuilds ==
  ASSUME TypeOK, Builds, NoteRules(entry', text'), entry' \in [Urls -> EntryType],
         text' \in Texts, UNCHANGED <<building, engine>>, raced \subseteq raced',
         \A u \in Urls : Saved(u) /\ entry'[u].updated = entry[u].updated
                           /\ entry[u].updated # 0 =>
                         Saved(u)' /\ fetcher'.started = fetcher.started
  PROVE  Builds'
<1>1. PICK e, t : e = entry' /\ t = text'
  OBVIOUS
<1>2. /\ noted' = KeyOf(e, t) /\ noted' # NotNoted
      /\ builds' # <<>> => \/ builds'[Len(builds')] = noted'
                           \/ builds' = builds /\ noted' = noted
      /\ builds' = <<>> => builds = <<>> /\ noted = noted'
  BY <1>1, NoteRulesFacts
<1>3. LastKey' = noted'
  <2>1. CASE builds' = <<>>
    BY <1>2, <2>1 DEF Builds, LastKey
  <2>2. CASE builds' # <<>>
    BY <1>2, <2>2 DEF Builds, LastKey
  <2>3. QED
    BY <2>1, <2>2
<1>4. ASSUME builds' = <<>>, NEW u \in Urls \ (raced' \cup LastMissed')
      PROVE  \/ LastRead'[u] = entry'[u].updated
             \/ entry'[u].updated # 0 /\ Saved(u)' /\ LastRead'[u] = fetcher'.started
  <2>1. LastRead' = LastRead /\ LastMissed' = LastMissed
    BY DEF LastRead, LastMissed
  <2>2. noted = KeyOf(entry, text) /\ noted = KeyOf(e, t) /\ builds = <<>>
    BY <1>2, <1>4 DEF Builds
  <2>3. entry[u].updated = e[u].updated
    <3>1. KeyOf(entry, text).copies[u] = entry[u].updated
      BY KeyFacts DEF TypeOK
    <3>2. KeyOf(e, t).copies[u] = e[u].updated
      BY <1>1, KeyFacts
    <3>3. QED
      BY <2>2, <3>1, <3>2
  <2>4. \/ LastRead[u] = entry[u].updated
        \/ entry[u].updated # 0 /\ Saved(u) /\ LastRead[u] = fetcher.started
    BY <1>2, <2>1, <2>2 DEF Builds
  <2>5. QED
    BY <1>1, <2>1, <2>3, <2>4
<1>5. QED
  BY <1>1, <1>2, <1>3, <1>4 DEF Builds

\* ... and by one that leaves them as they are.
LEMMA SameBuilds ==
  ASSUME TypeOK, Builds, UNCHANGED <<text, noted, builds, building, engine>>,
         \A u \in Urls : entry'[u].updated = entry[u].updated, raced \subseteq raced',
         \A u \in Urls : Saved(u) => Saved(u)' /\ fetcher'.started = fetcher.started
  PROVE  Builds'
<1>1. KeyOf(entry, text)' = KeyOf(entry, text)
  BY DEF KeyOf
<1>2. LastKey' = LastKey /\ LastRead' = LastRead /\ LastMissed' = LastMissed
  BY DEF LastKey, LastRead, LastMissed
<1>3. QED
  BY <1>1, <1>2 DEF Builds

-----------------------------------------------------------------------------
(* What a step of the fetcher leaves of the jobs. *)

\* The fetcher goes on, after the download that runs was given up or not.
Follows(f) == f \in {fetcher, Stopped(fetcher)} /\ Goes(f, fetcher')

LEMMA StoppedFacts ==
  ASSUME TypeOK
  PROVE  /\ Stopped(fetcher).current = NoUrl /\ Stopped(fetcher).stage = "none"
         /\ Stopped(fetcher).started = fetcher.started
BY DEF TypeOK, FetcherType, Stopped

LEMMA FollowsSaved ==
  ASSUME TypeOK, NEW f, Follows(f), NEW u \in Urls
  PROVE  /\ Saved(u)' => f = fetcher /\ Saved(u)
         /\ f = fetcher /\ Saved(u) => Saved(u)' /\ fetcher'.started = fetcher.started
BY StoppedFacts, UserListsAssumption DEF Follows, Goes, Saved

LEMMA FollowsJobs ==
  ASSUME TypeOK, Jobs, NEW f, Follows(f), saves' = saves,
         entry' \in [Urls -> EntryType],
         \A u \in Urls : \/ entry'[u].updated \in {0, entry[u].updated}
                         \/ f = Stopped(fetcher) /\ entry'[u].updated = fetcher.started
  PROVE  Jobs'
<1>1. /\ fetcher.started \in Nat
      /\ \A s \in saves : s.copy \in Nat
      /\ \A u \in Urls : entry[u].updated \in Nat
      /\ fetcher.current = NoUrl <=> fetcher.stage = "none"
  BY DEF TypeOK, FetcherType, EntryType
<1>2. CASE f = fetcher /\ fetcher'.stage = fetcher.stage
           /\ fetcher'.current = fetcher.current /\ fetcher'.started = fetcher.started
  BY <1>1, <1>2, StoppedFacts DEF Jobs
<1>3. CASE fetcher'.stage = "none" /\ fetcher'.started = fetcher.started
  BY <1>1, <1>3 DEF Jobs
<1>4. CASE fetcher'.stage = "download" /\ fetcher'.started = fetcher.started + 1
  BY <1>1, <1>4 DEF Jobs
<1>5. QED
  BY <1>2, <1>3, <1>4, StoppedFacts DEF Follows, Goes

-----------------------------------------------------------------------------
(* The steps. *)

LEMMA InitIInv == Init => IInv
<1> SUFFICES ASSUME Init PROVE IInv
  OBVIOUS
<1>1. <<>> \in Seq(Urls) /\ <<>> \in Seq(KeyType)
  OBVIOUS
<1>2. fetcher = IdleFetcher(0)
  BY DEF Init
<1>3. /\ fetcher \in FetcherType /\ fetcher.queue = <<>> /\ fetcher.pending = {}
      /\ fetcher.current = NoUrl /\ fetcher.stage = "none" /\ fetcher.started = 0
  BY <1>1, <1>2 DEF IdleFetcher, FetcherType, Stages
<1>4. /\ NoEntry \in EntryType /\ NoEntry.updated = 0
  BY DEF NoEntry, EntryType
<1>5. TypeOK
  BY <1>1, <1>3, <1>4, UserListsAssumption DEF Init, TypeOK
<1>6. Fetching
  <2>1. ToSet(fetcher.queue) = {} /\ IsInjective(fetcher.queue)
    BY <1>3 DEF ToSet, IsInjective
  <2>2. QED
    BY <1>3, <2>1 DEF Fetching, Fetches, Queued, Moves
<1>7. Jobs /\ Apart /\ Copies
  BY <1>3, <1>4 DEF Init, Jobs, Apart, Copies, Saved, Saving
<1>8. Builds
  BY DEF Init, Builds
<1>9. QED
  BY <1>5, <1>6, <1>7, <1>8 DEF IInv

LEMMA EntryFacts ==
  ASSUME TypeOK
  PROVE  /\ NoEntry \in EntryType /\ NoEntry.updated = 0 /\ ~NoEntry.listed
         /\ NewEntry \in EntryType /\ NewEntry.updated = 0 /\ NewEntry.listed
         /\ \A u \in Urls : /\ entry[u] \in EntryType /\ entry[u].updated \in Nat
                            /\ ~entry[u].listed => entry[u].updated = 0
<1>1. /\ NoEntry \in EntryType /\ NoEntry.updated = 0 /\ ~NoEntry.listed
      /\ NewEntry \in EntryType /\ NewEntry.updated = 0 /\ NewEntry.listed
  BY DEF NoEntry, NewEntry, EntryType
<1>2. \A u \in Urls : entry[u] \in EntryType /\ entry[u].updated \in Nat
  BY DEF TypeOK, EntryType
<1>3. \A u \in Urls : ~entry[u].listed => entry[u].updated = 0
  BY <1>1 DEF TypeOK
<1>4. QED
  BY <1>1, <1>2, <1>3

LEMMA AddUserListStep ==
  ASSUME IInv, NEW u \in Urls, AddUserList(u)
  PROVE  IInv'
<1>1. PICK f : f = fetcher'
  OBVIOUS
<1>2. Fetches(f) /\ Moves(f) /\ Goes(fetcher, f) /\ f.pending = fetcher.pending \cup {u}
  BY <1>1, QueueFacts DEF IInv, Fetching, AddUserList
<1>3. /\ entry' \in [Urls -> EntryType] /\ entry'[u] = NewEntry /\ ~entry[u].listed
      /\ \A v \in Urls : v # u => entry'[v] = entry[v]
      /\ entry[u].updated = 0
  BY EntryFacts DEF IInv, TypeOK, AddUserList
<1>4. /\ UNCHANGED <<text, file, noted, saves, deletes, builds, building, engine, raced>>
      /\ exits' = exits /\ inputs' = inputs + 1
  BY DEF AddUserList, Input, poolVars, buildVars
<1>5. \A v \in Urls : entry'[v].updated = entry[v].updated
  BY <1>3, EntryFacts DEF IInv
<1>6. TypeOK'
  <2>1. \A v \in Urls : ~entry'[v].listed => entry'[v] = NoEntry
    BY <1>3, EntryFacts DEF IInv, TypeOK
  <2>2. inputs' \in Nat
    BY <1>4 DEF IInv, TypeOK
  <2>3. QED
    BY <1>1, <1>2, <1>3, <1>4, <2>1, <2>2 DEF IInv, TypeOK, Fetches
<1>7. Fetching'
  <2>1. f.pending \subseteq {v \in Urls : entry'[v].listed}
    BY <1>2, <1>3, EntryFacts DEF IInv, Fetching, Listed
  <2>2. QED
    BY <1>1, <1>2, <2>1 DEF Fetching, Listed
<1>8. Follows(fetcher)
  BY <1>1, <1>2 DEF Follows
<1>9. \A v \in Urls : Saved(v)' <=> Saved(v)
  BY <1>8, FollowsSaved DEF IInv
<1>10. \A v \in Urls : Saved(v) => Saved(v)' /\ fetcher'.started = fetcher.started
  BY <1>8, FollowsSaved DEF IInv
<1>11. Jobs'
  BY <1>3, <1>4, <1>5, <1>8, FollowsJobs DEF IInv
<1>12. Apart'
  <2>1. fetcher.current # NoUrl => /\ f.current = fetcher.current /\ f.stage = fetcher.stage
                                   /\ f.started = fetcher.started
    BY <1>2 DEF Goes
  <2>2. QED
    BY <1>1, <1>4, <1>5, <1>9, <2>1, UserListsAssumption DEF IInv, Apart, Saving
<1>13. Copies'
  BY <1>4, <1>5, <1>9, <1>10 DEF IInv, Copies
<1>14. Builds'
  BY <1>4, <1>5, <1>10, SameBuilds DEF IInv
<1>15. QED
  BY <1>6, <1>7, <1>11, <1>12, <1>13, <1>14 DEF IInv

\* What ForContext() does to the fetcher and the rules it notes.
LEMMA ForContextFacts ==
  ASSUME NEW f, Fetches(f), Moves(f), NEW e, NEW t, ForContext(f, e, t)
  PROVE  /\ Fetches(fetcher') /\ Moves(fetcher') /\ Goes(f, fetcher')
         /\ fetcher'.pending \subseteq f.pending \cup {u \in Urls : e[u].listed}
         /\ NoteRules(e, t)
<1>1. PICK g : g = fetcher' /\ g \in Refreshed(f, e)
  BY DEF ForContext
<1>2. /\ Fetches(g) /\ Moves(g) /\ Goes(f, g)
      /\ g.pending \subseteq f.pending \cup {u \in Urls : e[u].listed}
  BY <1>1, RefreshedFacts
<1>3. QED
  BY <1>1, <1>2 DEF ForContext

LEMMA RemoveUserListStep ==
  ASSUME IInv, NEW u \in Urls, RemoveUserList(u)
  PROVE  IInv'
<1>1. PICK g : g = Forget(fetcher, u)
  OBVIOUS
<1>2. PICK f0 : f0 = IF u = fetcher.current THEN Stopped(fetcher) ELSE fetcher
  OBVIOUS
<1>3. Fetches(g) /\ Moves(g) /\ Goes(f0, g) /\ g.pending = fetcher.pending \ {u}
  BY <1>1, <1>2, ForgetFacts DEF IInv, Fetching
<1>4. PICK e, t : e = entry' /\ t = text
  OBVIOUS
<1>5. /\ Fetches(fetcher') /\ Moves(fetcher') /\ Goes(g, fetcher')
      /\ fetcher'.pending \subseteq g.pending \cup {v \in Urls : e[v].listed}
      /\ NoteRules(e, t)
  BY <1>1, <1>3, <1>4, ForContextFacts DEF RemoveUserList
<1>6. /\ UNCHANGED <<text, file, saves, building, engine, exits>> /\ inputs' = inputs + 1
      /\ deletes' = [deletes EXCEPT ![u] = deletes[u] + 1]
      /\ raced' = IF Saving(u) \/ deletes[u] > 0 THEN raced \cup {u} ELSE raced
  BY DEF RemoveUserList, Input
<1>7. /\ entry' \in [Urls -> EntryType] /\ entry'[u] = NoEntry
      /\ \A v \in Urls : v # u => entry'[v] = entry[v]
  BY EntryFacts DEF IInv, TypeOK, RemoveUserList
<1>8. Follows(f0)
  BY <1>2, <1>3, <1>5, GoesOn DEF Follows
<1>9. /\ entry'[u].updated = 0
      /\ \A v \in Urls : v # u => entry'[v].updated = entry[v].updated
  BY <1>7, EntryFacts DEF IInv
<1>10. /\ deletes' \in [Urls -> Nat] /\ deletes'[u] = deletes[u] + 1 /\ deletes'[u] > 0
       /\ \A v \in Urls : v # u => deletes'[v] = deletes[v]
  BY <1>6 DEF IInv, TypeOK
<1>11. noted' \in KeyType /\ builds' \in Seq(KeyType)
  BY <1>4, <1>5, <1>7, NoteRulesFacts DEF IInv, TypeOK
<1>12. TypeOK'
  <2>1. \A v \in Urls : ~entry'[v].listed => entry'[v] = NoEntry
    BY <1>7 DEF IInv, TypeOK
  <2>2. inputs' \in Nat /\ raced' \subseteq Urls
    BY <1>6 DEF IInv, TypeOK
  <2>3. QED
    BY <1>5, <1>6, <1>7, <1>10, <1>11, <2>1, <2>2 DEF IInv, TypeOK, Fetches
<1>13. Fetching'
  <2>1. \A v \in fetcher.pending : v \in Urls /\ entry[v].listed
    BY DEF IInv, Fetching, Listed
  <2>2. \A v \in fetcher.pending \ {u} : v \in Urls /\ entry'[v].listed
    BY <1>7, <2>1
  <2>3. fetcher'.pending \subseteq {v \in Urls : entry'[v].listed}
    BY <1>3, <1>4, <1>5, <2>2
  <2>4. QED
    BY <1>5, <2>3 DEF Fetching, Listed
<1>14. Jobs'
  BY <1>6, <1>7, <1>8, <1>9, FollowsJobs DEF IInv
<1>15. ~Saved(u)' /\ \A v \in Urls : v # u => (Saved(v)' <=> Saved(v))
  <2>1. \A v \in Urls : /\ Saved(v)' => f0 = fetcher /\ Saved(v)
                        /\ f0 = fetcher /\ Saved(v) => Saved(v)'
    BY <1>8, FollowsSaved DEF IInv
  <2>2. Saved(u) => f0 # fetcher
    BY <1>2, StoppedFacts, UserListsAssumption DEF IInv, Saved
  <2>3. \A v \in Urls : v # u /\ Saved(v) => f0 = fetcher
    BY <1>2 DEF Saved
  <2>4. QED
    BY <2>1, <2>2, <2>3
<1>16. Apart'
  <2> SUFFICES ASSUME NEW v \in Urls \ raced'
               PROVE  /\ \A s \in saves' : s.url = v => /\ fetcher'.current = v
                                                        /\ fetcher'.stage = "save"
                                                        /\ s.copy = fetcher'.started
                      /\ deletes'[v] > 0 => /\ entry'[v].updated = 0
                                            /\ ~Saving(v)' /\ ~Saved(v)'
    BY DEF Apart
  <2>1. v \in Urls \ raced
    BY <1>6
  <2>2. Saving(v)' <=> Saving(v)
    BY <1>6 DEF Saving
  <2>3. CASE v = u
    <3>1. ~Saving(u)
      BY <1>6, <2>3
    <3>2. QED
      BY <1>6, <1>9, <1>15, <2>2, <2>3, <3>1 DEF Saving
  <2>4. CASE v # u
    <3>1. fetcher.current = v => /\ fetcher'.current = v /\ fetcher'.stage = fetcher.stage
                                 /\ fetcher'.started = fetcher.started
      BY <1>2, <1>8, <2>4, UserListsAssumption DEF Follows, Goes
    <3>2. QED
      BY <1>6, <1>9, <1>10, <1>15, <2>1, <2>2, <2>4, <3>1 DEF IInv, Apart
  <2>5. QED
    BY <2>3, <2>4
<1>17. Copies'
  <2> SUFFICES ASSUME NEW v \in Urls \ raced'
               PROVE  /\ deletes'[v] = 0 /\ ~Saved(v)' => file'[v] = entry'[v].updated
                      /\ Saved(v)' => file'[v] = fetcher'.started
    BY DEF Copies
  <2>1. v \in Urls \ raced
    BY <1>6
  <2>2. CASE v = u
    BY <1>10, <1>15, <2>2
  <2>3. CASE v # u
    <3>1. Saved(v)' => fetcher'.started = fetcher.started
      BY <1>8, FollowsSaved DEF IInv
    <3>2. QED
      BY <1>6, <1>9, <1>10, <1>15, <2>1, <2>3, <3>1 DEF IInv, Copies
  <2>4. QED
    BY <2>2, <2>3
<1>18. Builds'
  <2>1. \A v \in Urls : Saved(v) /\ entry'[v].updated = entry[v].updated
                        /\ entry[v].updated # 0 =>
                      Saved(v)' /\ fetcher'.started = fetcher.started
    <3>1. \A v \in Urls : Saved(v)' => fetcher'.started = fetcher.started
      BY <1>8, FollowsSaved DEF IInv
    <3>2. QED
      BY <1>9, <1>15, <3>1
  <2>2. NoteRules(entry', text') /\ text' \in Texts /\ raced \subseteq raced'
    BY <1>4, <1>5, <1>6 DEF IInv, TypeOK
  <2>3. QED
    BY <1>6, <1>7, <2>1, <2>2, NotedBuilds DEF IInv
<1>19. QED
  BY <1>12, <1>13, <1>14, <1>16, <1>17, <1>18 DEF IInv

\* A step that only goes through ForContext(), or only lets the fetcher go on.
LEMMA QuietStep ==
  ASSUME IInv, Follows(fetcher), UNCHANGED <<entry, file, saves, deletes, raced>>
  PROVE  Jobs' /\ Apart' /\ Copies'
<1>1. entry \in [Urls -> EntryType]
  BY DEF IInv, TypeOK
<1>2. \A v \in Urls : /\ Saved(v)' <=> Saved(v)
                      /\ Saved(v) => fetcher'.started = fetcher.started
  BY FollowsSaved DEF IInv
<1>3. Jobs'
  BY <1>1, FollowsJobs DEF IInv
<1>4. fetcher.current # NoUrl => /\ fetcher'.current = fetcher.current
                                 /\ fetcher'.stage = fetcher.stage
                                 /\ fetcher'.started = fetcher.started
  BY DEF Follows, Goes
<1>5. Apart'
  BY <1>2, <1>4, UserListsAssumption DEF IInv, Apart, Saving
<1>6. Copies'
  BY <1>2 DEF IInv, Copies
<1>7. QED
  BY <1>3, <1>5, <1>6

LEMMA ContextStep ==
  ASSUME IInv, ForContext(fetcher, entry, text'), text' \in Texts,
         UNCHANGED <<entry, file, saves, deletes, building, engine, raced>>,
         inputs' \in Nat, exits' \in Nat
  PROVE  IInv'
<1>1. PICK t : t = text'
  OBVIOUS
<1>2. /\ Fetches(fetcher') /\ Moves(fetcher') /\ Goes(fetcher, fetcher')
      /\ fetcher'.pending \subseteq fetcher.pending \cup Listed
      /\ NoteRules(entry, t)
  BY <1>1, ForContextFacts DEF IInv, Fetching, Listed
<1>3. entry \in [Urls -> EntryType]
  BY DEF IInv, TypeOK
<1>4. noted' \in KeyType /\ builds' \in Seq(KeyType)
  BY <1>1, <1>2, <1>3, NoteRulesFacts DEF IInv
<1>5. TypeOK'
  BY <1>2, <1>4 DEF IInv, TypeOK, Fetches
<1>6. Fetching'
  BY <1>2 DEF IInv, Fetching, Listed
<1>7. Follows(fetcher)
  BY <1>2 DEF Follows
<1>8. Builds'
  <2>1. \A v \in Urls : Saved(v) => Saved(v)' /\ fetcher'.started = fetcher.started
    BY <1>7, FollowsSaved DEF IInv
  <2>2. NoteRules(entry', text')
    BY <1>1, <1>2
  <2>3. QED
    BY <1>3, <2>1, <2>2, NotedBuilds DEF IInv
<1>9. QED
  BY <1>5, <1>6, <1>7, <1>8, QuietStep DEF IInv

LEMMA SetCustomRulesStep == IInv /\ SetCustomRules => IInv'
<1> SUFFICES ASSUME IInv, SetCustomRules PROVE IInv'
  OBVIOUS
<1>1. inputs' \in Nat /\ exits' \in Nat
  BY DEF IInv, TypeOK, SetCustomRules, Input
<1>2. QED
  BY <1>1, ContextStep DEF SetCustomRules, poolVars

LEMMA NavigateStep == IInv /\ Navigate => IInv'
<1> SUFFICES ASSUME IInv, Navigate PROVE IInv'
  OBVIOUS
<1>1. text' = text /\ text \in Texts /\ inputs' \in Nat /\ exits' \in Nat
  BY DEF IInv, TypeOK, Navigate, profileVars, bounds
<1>2. ForContext(fetcher, entry, text')
  BY <1>1 DEF Navigate
<1>3. QED
  BY <1>1, <1>2, ContextStep DEF Navigate, poolVars, profileVars

LEMMA TimePassesStep == ASSUME IInv, NEW u \in Urls, TimePasses(u) PROVE IInv'
<1>1. /\ UNCHANGED <<text, file, fetcher, noted, saves, deletes, builds, building, engine,
                     raced, exits>>
      /\ inputs' = inputs + 1 /\ entry[u].tried
      /\ entry' = [entry EXCEPT ![u].ripe = TRUE]
  BY DEF TimePasses, Input, poolVars, buildVars
<1>2. /\ entry' \in [Urls -> EntryType]
      /\ \A v \in Urls : /\ entry'[v].updated = entry[v].updated
                         /\ entry'[v].listed = entry[v].listed
      /\ \A v \in Urls : v # u => entry'[v] = entry[v]
  BY <1>1 DEF IInv, TypeOK, EntryType
<1>3. entry[u].listed
  <2>1. ~NoEntry.tried
    BY DEF NoEntry
  <2>2. QED
    BY <1>1, <2>1 DEF IInv, TypeOK
<1>4. TypeOK'
  <2>1. \A v \in Urls : ~entry'[v].listed => entry'[v] = NoEntry
    BY <1>2, <1>3 DEF IInv, TypeOK
  <2>2. inputs' \in Nat
    BY <1>1 DEF IInv, TypeOK
  <2>3. QED
    BY <1>1, <1>2, <2>1, <2>2 DEF IInv, TypeOK
<1>5. Listed' = Listed
  BY <1>2 DEF Listed
<1>6. \A v \in Urls : Saved(v)' <=> Saved(v)
  BY <1>1 DEF Saved
<1>7. Fetching' /\ Jobs'
  BY <1>1, <1>2, <1>5 DEF IInv, Fetching, Jobs
<1>8. Apart' /\ Copies'
  BY <1>1, <1>2, <1>6 DEF IInv, Apart, Copies, Saving
<1>9. Builds'
  BY <1>1, <1>2, <1>6, SameBuilds DEF IInv
<1>10. QED
  BY <1>4, <1>7, <1>8, <1>9 DEF IInv

\* The end of a download: its list is still there, so only its entry changes,
\* and the fetcher goes on from where it would be without that download.
LEMMA FinishFacts ==
  ASSUME IInv, NEW ok \in BOOLEAN, fetcher.stage # "none", Finish(ok)
  PROVE  /\ Fetches(fetcher') /\ Moves(fetcher') /\ Goes(Stopped(fetcher), fetcher')
         /\ fetcher'.pending \subseteq {v \in Urls : entry'[v].listed}
         /\ fetcher.current \in Urls
         /\ entry' \in [Urls -> EntryType]
         /\ \A v \in Urls : ~entry'[v].listed => entry'[v] = NoEntry
         /\ \A v \in Urls : v # fetcher.current => entry'[v] = entry[v]
         /\ entry'[fetcher.current].updated =
              IF ok THEN fetcher.started ELSE entry[fetcher.current].updated
         /\ deletes' = deletes
         /\ NoteRules(entry', text)
<1>1. PICK u, f : u = fetcher.current /\ f = fetcher
  OBVIOUS
<1>2. /\ f \in FetcherType /\ Queued(f) /\ u \in Urls /\ u = f.current /\ u # NoUrl
      /\ f.started \in Nat
  BY <1>1, UserListsAssumption DEF IInv, TypeOK, FetcherType, Fetching, Fetches
<1>3. entry[u].listed
  BY <1>1, <1>2 DEF IInv, Fetching, Listed, Queued
<1>4. PICK d : d = [f EXCEPT !.current = NoUrl, !.stage = "none", !.pending = f.pending \ {u}]
  OBVIOUS
<1>5. PICK e : e = NoteTry(u, ok)
  OBVIOUS
<1>6. PICK g : g \in Refreshed(d, e) /\ fetcher' = StartNext(g)
  BY <1>1, <1>3, <1>4, <1>5 DEF Finish
<1>7. entry' = e /\ deletes' = deletes /\ NoteRules(e, text)
  BY <1>1, <1>3, <1>5 DEF Finish
<1>8. /\ d \in FetcherType /\ d.current = NoUrl /\ d.stage = "none"
      /\ d.pending = f.pending \ {u} /\ d.queue = f.queue /\ d.started = f.started
  BY <1>2, <1>4 DEF FetcherType, Stages
<1>9. Fetches(d)
  <2>1. f.queue \in Seq(Urls)
    BY <1>2 DEF FetcherType
  <2>2. NoUrl \notin ToSet(f.queue)
    BY <2>1, ToSetFacts, UserListsAssumption
  <2>3. QED
    BY <1>2, <1>8, <2>2 DEF Fetches, Queued
<1>10. /\ Fetches(g) /\ Goes(d, g)
       /\ g.pending \subseteq d.pending \cup {v \in Urls : e[v].listed}
  BY <1>6, <1>9, RefreshedFacts
<1>11. /\ Fetches(fetcher') /\ Moves(fetcher') /\ Goes(g, fetcher')
       /\ fetcher'.pending = g.pending
  BY <1>6, <1>10, StartNextFacts
<1>12. Goes(Stopped(fetcher), fetcher')
  <2>1. Goes(d, fetcher')
    BY <1>10, <1>11, GoesOn
  <2>2. QED
    BY <1>1, <1>8, <2>1, StoppedFacts DEF IInv, Goes
<1>13. e = [entry EXCEPT ![u] = [listed |-> TRUE, tried |-> TRUE, ripe |-> FALSE,
                                 updated |-> IF ok THEN f.started ELSE entry[u].updated]]
  BY <1>1, <1>5 DEF NoteTry
<1>14. /\ e \in [Urls -> EntryType] /\ e[u].listed
       /\ e[u].updated = IF ok THEN f.started ELSE entry[u].updated
       /\ \A v \in Urls : v # u => e[v] = entry[v]
  <2>1. (IF ok THEN f.started ELSE entry[u].updated) \in Nat
    BY <1>2, EntryFacts DEF IInv
  <2>2. PICK n \in Nat : n = IF ok THEN f.started ELSE entry[u].updated
    BY <2>1
  <2>3. PICK w : w = [listed |-> TRUE, tried |-> TRUE, ripe |-> FALSE, updated |-> n]
    OBVIOUS
  <2>4. w \in EntryType /\ w.listed /\ w.updated = n
    BY <2>3 DEF EntryType
  <2>5. e = [entry EXCEPT ![u] = w]
    BY <1>13, <2>2, <2>3
  <2>6. QED
    BY <1>2, <2>2, <2>4, <2>5 DEF IInv, TypeOK
<1>15. \A v \in Urls : ~e[v].listed => e[v] = NoEntry
  BY <1>14 DEF IInv, TypeOK
<1>16. fetcher'.pending \subseteq {v \in Urls : e[v].listed}
  <2>1. \A v \in f.pending : v \in Urls /\ entry[v].listed
    BY <1>1 DEF IInv, Fetching, Listed
  <2>2. \A v \in f.pending \ {u} : v \in Urls /\ e[v].listed
    BY <1>14, <2>1
  <2>3. QED
    BY <1>8, <1>10, <1>11, <2>2
<1>17. QED
  BY <1>1, <1>2, <1>7, <1>11, <1>12, <1>14, <1>15, <1>16

\* A download that ends, with a copy in place or without.
LEMMA FinishStep ==
  ASSUME IInv, NEW ok \in BOOLEAN, Finish(ok),
         IF ok THEN fetcher.stage = "saved" ELSE fetcher.stage \in {"download", "unsaved"},
         UNCHANGED <<text, file, saves, building, engine, raced, inputs, exits>>
  PROVE  IInv'
<1>1. fetcher.stage # "none"
  OBVIOUS
<1>2. PICK u : u = fetcher.current
  OBVIOUS
<1>3. /\ Fetches(fetcher') /\ Moves(fetcher') /\ Goes(Stopped(fetcher), fetcher')
      /\ fetcher'.pending \subseteq {v \in Urls : entry'[v].listed}
      /\ u \in Urls
      /\ entry' \in [Urls -> EntryType]
      /\ \A v \in Urls : ~entry'[v].listed => entry'[v] = NoEntry
      /\ \A v \in Urls : v # u => entry'[v] = entry[v]
      /\ entry'[u].updated = IF ok THEN fetcher.started ELSE entry[u].updated
      /\ deletes' = deletes
      /\ NoteRules(entry', text)
  BY <1>1, <1>2, FinishFacts
<1>4. Follows(Stopped(fetcher))
  BY <1>3 DEF Follows
<1>5. \A v \in Urls : ~Saved(v)' /\ ~(fetcher'.current = v /\ fetcher'.stage = "save")
  BY <1>3, StoppedFacts, UserListsAssumption DEF IInv, Goes, Saved
<1>6. noted' \in KeyType /\ builds' \in Seq(KeyType)
  <2>1. PICK e, t : e = entry' /\ t = text
    OBVIOUS
  <2>2. QED
    BY <1>3, <2>1, NoteRulesFacts DEF IInv, TypeOK
<1>7. TypeOK'
  BY <1>3, <1>6 DEF IInv, TypeOK, Fetches
<1>8. Fetching'
  BY <1>3 DEF Fetching, Listed
<1>9. Jobs'
  <2>1. \A v \in Urls : \/ entry'[v].updated \in {0, entry[v].updated}
                        \/ entry'[v].updated = fetcher.started
    BY <1>3
  <2>2. QED
    BY <1>3, <1>4, <2>1, FollowsJobs DEF IInv
<1>10. \A v \in Urls \ raced : ~Saving(v)
  BY DEF IInv, Apart, Saving
<1>11. \A v \in Urls : v # u \/ ~ok => entry'[v].updated = entry[v].updated
  BY <1>3
<1>12. ok => Saved(u)
  BY <1>2 DEF Saved
<1>13. Apart'
  <2>1. \A v \in Urls \ raced : deletes[v] > 0 => entry'[v].updated = 0
    BY <1>11, <1>12 DEF IInv, Apart
  <2>2. \A v \in Urls \ raced : ~Saving(v)'
    BY <1>10 DEF Saving
  <2>3. QED
    BY <1>3, <1>5, <2>1, <2>2 DEF Apart, Saving
<1>14. Copies'
  <2> SUFFICES ASSUME NEW v \in Urls \ raced, deletes[v] = 0
               PROVE  file[v] = entry'[v].updated
    BY <1>3, <1>5 DEF Copies
  <2>1. CASE v = u /\ ok
    BY <1>3, <1>12, <2>1 DEF IInv, Copies
  <2>2. CASE v # u \/ ~ok
    <3>1. ~Saved(v)
      BY <1>2, <2>2 DEF Saved
    <3>2. QED
      BY <1>11, <2>2, <3>1 DEF IInv, Copies
  <2>3. QED
    BY <2>1, <2>2
<1>15. Builds'
  <2>1. \A v \in Urls : ~(Saved(v) /\ entry'[v].updated = entry[v].updated)
    <3> SUFFICES ASSUME NEW v \in Urls, Saved(v) PROVE entry'[v].updated # entry[v].updated
      OBVIOUS
    <3>1. v = u /\ ok
      BY <1>2 DEF Saved
    <3>2. entry[v].updated < fetcher.started /\ entry[v].updated \in Nat
      BY <1>1, EntryFacts DEF IInv, Jobs
    <3>3. QED
      BY <1>3, <3>1, <3>2
  <2>2. NoteRules(entry', text') /\ text' \in Texts
    BY <1>3 DEF IInv, TypeOK
  <2>3. QED
    BY <1>3, <2>1, <2>2, NotedBuilds DEF IInv
<1>16. QED
  BY <1>7, <1>8, <1>9, <1>13, <1>14, <1>15 DEF IInv

LEMMA OnSavedStep == IInv /\ OnSaved => IInv'
<1> SUFFICES ASSUME IInv, OnSaved PROVE IInv'
  OBVIOUS
<1>1. UNCHANGED <<text, file, saves, building, engine, raced, inputs, exits>>
  BY DEF OnSaved, bounds
<1>2. CASE fetcher.stage = "saved"
  <2>1. Finish(TRUE)
    BY <1>2 DEF OnSaved
  <2>2. QED
    BY <1>1, <1>2, <2>1, FinishStep
<1>3. CASE fetcher.stage = "unsaved"
  <2>1. Finish(FALSE)
    BY <1>3 DEF OnSaved
  <2>2. QED
    BY <1>1, <1>3, <2>1, FinishStep
<1>4. QED
  BY <1>2, <1>3 DEF OnSaved

LEMMA OnDownloadedStep == IInv /\ OnDownloaded => IInv'
<1> SUFFICES ASSUME IInv, OnDownloaded PROVE IInv'
  OBVIOUS
<1>1. /\ UNCHANGED <<text, file, building, engine, inputs, exits>>
      /\ fetcher.stage = "download"
  BY DEF OnDownloaded, bounds
<1>2. CASE Finish(FALSE) /\ UNCHANGED <<saves, raced>>
  BY <1>1, <1>2, FinishStep
<1>3. CASE ~(Finish(FALSE) /\ UNCHANGED <<saves, raced>>)
  <2>1. PICK u, n : u = fetcher.current /\ n = fetcher.started
    OBVIOUS
  <2>2. /\ fetcher' = [fetcher EXCEPT !.stage = "save"]
        /\ saves' = saves \cup {[url |-> u, copy |-> n]}
        /\ raced' = IF Saving(u) \/ deletes[u] > 0 THEN raced \cup {u} ELSE raced
        /\ UNCHANGED <<entry, deletes, noted, builds>>
    BY <1>3, <2>1 DEF OnDownloaded
  <2>3. fetcher \in FetcherType /\ u \in Urls /\ n \in Nat /\ n > 0
    BY <1>1, <2>1 DEF IInv, TypeOK, FetcherType, Jobs
  <2>4. /\ fetcher' \in FetcherType /\ fetcher'.current = u /\ fetcher'.stage = "save"
        /\ fetcher'.started = n /\ fetcher'.queue = fetcher.queue
        /\ fetcher'.pending = fetcher.pending
    BY <2>1, <2>2, <2>3 DEF FetcherType, Stages
  <2>5. PICK j : j = [url |-> u, copy |-> n]
    OBVIOUS
  <2>6. /\ j \in [url : Urls, copy : Nat \ {0}] /\ j.url = u /\ j.copy = n
        /\ saves' = saves \cup {j}
    BY <2>2, <2>3, <2>5
  <2>7. u # NoUrl /\ raced' \subseteq Urls /\ raced \subseteq raced'
    BY <2>2, <2>3, UserListsAssumption DEF IInv, TypeOK
  <2>8. TypeOK'
    <3>1. saves' \subseteq [url : Urls, copy : Nat \ {0}]
      BY <2>6 DEF IInv, TypeOK
    <3>2. QED
      BY <1>1, <2>2, <2>4, <2>7, <3>1 DEF IInv, TypeOK
  <2>9. Fetching'
    BY <2>1, <2>2, <2>4, <2>7 DEF IInv, Fetching, Fetches, Queued, Moves, Listed
  <2>10. Jobs'
    BY <1>1, <2>1, <2>2, <2>3, <2>4, <2>6 DEF IInv, Jobs
  <2>11. \A v \in Urls : ~Saved(v) /\ ~Saved(v)'
    BY <1>1, <2>4 DEF Saved
  <2>12. Apart'
    <3> SUFFICES ASSUME NEW v \in Urls \ raced'
                 PROVE  /\ \A s \in saves' : s.url = v => /\ fetcher'.current = v
                                                          /\ fetcher'.stage = "save"
                                                          /\ s.copy = fetcher'.started
                        /\ deletes'[v] > 0 => entry'[v].updated = 0 /\ ~Saving(v)'
      BY <2>11 DEF Apart
    <3>1. ~Saving(v)
      BY <1>1, <2>7 DEF IInv, Apart, Saving
    <3>2. \A s \in saves' : s.url = v => s = j
      BY <2>6, <3>1 DEF Saving
    <3>3. deletes[v] > 0 => v # u
      BY <2>2
    <3>4. QED
      BY <2>2, <2>4, <2>6, <2>7, <3>2, <3>3 DEF IInv, Apart, Saving
  <2>13. Copies'
    BY <1>1, <2>2, <2>7, <2>11 DEF IInv, Copies
  <2>14. Builds'
    BY <1>1, <2>2, <2>7, <2>11, SameBuilds DEF IInv
  <2>15. QED
    BY <2>8, <2>9, <2>10, <2>12, <2>13, <2>14 DEF IInv
<1>4. QED
  BY <1>2, <1>3

LEMMA CheckAndSaveStep == ASSUME IInv, NEW s \in saves, CheckAndSave(s) PROVE IInv'
<1>1. /\ UNCHANGED <<entry, text, noted, deletes, builds, building, engine, inputs, exits,
                     raced>>
      /\ saves' = saves \ {s}
  BY DEF CheckAndSave, buildVars, bounds
<1>2. PICK u, n : u = s.url /\ n = s.copy
  OBVIOUS
<1>3. u \in Urls /\ n \in Nat \ {0} /\ fetcher \in FetcherType
  BY <1>2 DEF IInv, TypeOK
<1>4. PICK stage \in {"saved", "unsaved"} :
        /\ fetcher' = IF fetcher.stage = "save" /\ n = fetcher.started
                         THEN [fetcher EXCEPT !.stage = stage] ELSE fetcher
        /\ file' = IF stage = "saved" THEN [file EXCEPT ![u] = n] ELSE file
  BY <1>2 DEF CheckAndSave, Replied
<1> DEFINE Mine == fetcher.stage = "save" /\ n = fetcher.started
<1>5. /\ fetcher' \in FetcherType /\ fetcher'.current = fetcher.current
      /\ fetcher'.started = fetcher.started
      /\ fetcher'.queue = fetcher.queue /\ fetcher'.pending = fetcher.pending
      /\ Mine => fetcher'.stage = stage
      /\ ~Mine => fetcher'.stage = fetcher.stage
  <2>1. CASE Mine
    BY <1>3, <1>4, <2>1 DEF FetcherType, Stages
  <2>2. CASE ~Mine
    BY <1>3, <1>4, <2>2
  <2>3. QED
    BY <2>1, <2>2
<1>6. /\ file' \in [Urls -> Nat]
      /\ \A v \in Urls : v # u => file'[v] = file[v]
      /\ stage = "saved" => file'[u] = n
      /\ stage = "unsaved" => file' = file
  BY <1>3, <1>4 DEF IInv, TypeOK
<1>7. /\ Mine => fetcher.current = u
      /\ u \notin raced => Mine
  BY <1>2, <1>3 DEF IInv, Jobs, Apart
<1>8. fetcher'.stage = "none" <=> fetcher.stage = "none"
  BY <1>5
<1> HIDE DEF Mine
<1>9. TypeOK'
  <2>1. fetcher'.current = NoUrl <=> fetcher'.stage = "none"
    BY <1>5, <1>8 DEF IInv, TypeOK
  <2>2. saves' \subseteq [url : Urls, copy : Nat \ {0}]
    BY <1>1 DEF IInv, TypeOK
  <2>3. QED
    BY <1>1, <1>5, <1>6, <2>1, <2>2 DEF IInv, TypeOK
<1>10. Fetching'
  BY <1>1, <1>5, <1>8 DEF IInv, Fetching, Fetches, Queued, Moves, Listed
<1>11. Jobs'
  <2>1. ASSUME NEW t \in saves'
        PROVE  /\ t.copy <= fetcher'.started
               /\ fetcher'.stage \in {"download", "saved", "unsaved"} =>
                    t.copy < fetcher'.started
               /\ fetcher'.stage = "save" /\ t.copy = fetcher'.started =>
                    t.url = fetcher'.current
    <3>1. t \in saves /\ t # s /\ t \in [url : Urls, copy : Nat \ {0}]
          /\ s \in [url : Urls, copy : Nat \ {0}]
      BY <1>1 DEF IInv, TypeOK
    <3>2. CASE Mine
      <4>1. t.copy # fetcher.started
        <5> SUFFICES ASSUME t.copy = fetcher.started PROVE FALSE
          OBVIOUS
        <5>1. t.url = s.url /\ t.copy = s.copy
          BY <1>2, <1>7, <3>1, <3>2 DEF IInv, Jobs, Mine
        <5>2. QED
          BY <3>1, <5>1
      <4>2. t.copy <= fetcher.started /\ t.copy \in Nat /\ fetcher.started \in Nat
        BY <1>3, <3>1 DEF IInv, Jobs, FetcherType
      <4>3. QED
        BY <1>5, <3>2, <4>1, <4>2
    <3>3. CASE ~Mine
      BY <1>5, <3>1, <3>3 DEF IInv, Jobs
    <3>4. QED
      BY <3>2, <3>3
  <2>2. QED
    BY <1>1, <1>5, <1>8, <2>1 DEF IInv, Jobs
<1>12. \A v \in Urls : v # u \/ ~Mine => (Saved(v)' <=> Saved(v))
  BY <1>5, <1>7 DEF Saved, Mine
<1>13. /\ Mine => ~Saved(u)
       /\ Mine => (Saved(u)' <=> stage = "saved")
  BY <1>5, <1>7 DEF Saved, Mine
<1>14. Apart'
  <2> SUFFICES ASSUME NEW v \in Urls \ raced
               PROVE  /\ \A t \in saves' : t.url = v => /\ fetcher'.current = v
                                                        /\ fetcher'.stage = "save"
                                                        /\ t.copy = fetcher'.started
                      /\ deletes[v] > 0 => /\ entry[v].updated = 0
                                           /\ ~Saving(v)' /\ ~Saved(v)'
    BY <1>1 DEF Apart
  <2>1. CASE v = u
    <3>1. Mine /\ deletes[v] = 0
      <4>1. Saving(v)
        BY <1>2, <2>1 DEF Saving
      <4>2. ~(deletes[v] > 0) /\ deletes[v] \in Nat
        BY <4>1 DEF IInv, Apart, TypeOK
      <4>3. QED
        BY <1>7, <2>1, <4>2
    <3>2. \A t \in saves' : t.url # v
      <4> SUFFICES ASSUME NEW t \in saves', t.url = v PROVE FALSE
        OBVIOUS
      <4>1. /\ t \in saves /\ t # s /\ t \in [url : Urls, copy : Nat \ {0}]
            /\ s \in [url : Urls, copy : Nat \ {0}]
        BY <1>1 DEF IInv, TypeOK
      <4>2. t.copy = fetcher.started /\ s.copy = fetcher.started /\ s.url = v
        BY <1>2, <2>1, <4>1 DEF IInv, Apart
      <4>3. QED
        BY <4>1, <4>2
    <3>3. QED
      BY <3>1, <3>2
  <2>2. CASE v # u
    <3>1. \A t \in saves' : t \in saves
      BY <1>1
    <3>2. Saving(v)' => Saving(v)
      BY <3>1 DEF Saving
    <3>3. \A t \in saves : t.url = v => ~Mine
      BY <1>7, <2>2 DEF IInv, Apart
    <3>4. QED
      BY <1>5, <1>12, <2>2, <3>1, <3>2, <3>3 DEF IInv, Apart
  <2>3. QED
    BY <2>1, <2>2
<1>15. Copies'
  <2> SUFFICES ASSUME NEW v \in Urls \ raced
               PROVE  /\ deletes[v] = 0 /\ ~Saved(v)' => file'[v] = entry[v].updated
                      /\ Saved(v)' => file'[v] = fetcher.started
    BY <1>1, <1>5 DEF Copies
  <2>1. CASE v = u
    <3>1. Mine
      BY <1>7, <2>1
    <3>2. CASE stage = "saved"
      BY <1>6, <1>13, <2>1, <3>1, <3>2 DEF Mine
    <3>3. CASE stage = "unsaved"
      BY <1>6, <1>13, <2>1, <3>1, <3>3 DEF IInv, Copies
    <3>4. QED
      BY <3>2, <3>3
  <2>2. CASE v # u
    BY <1>6, <1>12, <2>2 DEF IInv, Copies
  <2>3. QED
    BY <2>1, <2>2
<1>16. Builds'
  <2>1. \A v \in Urls : Saved(v) => Saved(v)' /\ fetcher'.started = fetcher.started
    BY <1>5, <1>12, <1>13
  <2>2. QED
    BY <1>1, <2>1, SameBuilds DEF IInv
<1>17. QED
  BY <1>9, <1>10, <1>11, <1>14, <1>15, <1>16 DEF IInv

LEMMA DeleteFileStep == ASSUME IInv, NEW u \in Urls, DeleteFile(u) PROVE IInv'
<1>1. /\ UNCHANGED <<entry, text, fetcher, noted, saves, builds, building, engine, inputs,
                     exits>>
      /\ deletes[u] > 0
      /\ deletes' = [deletes EXCEPT ![u] = deletes[u] - 1]
      /\ \/ file' = [file EXCEPT ![u] = 0] /\ raced' = raced
         \/ file' = file /\ raced' = raced \cup {u}
  BY DEF DeleteFile, buildVars, bounds
<1>2. /\ deletes[u] - 1 \in Nat
      /\ deletes' \in [Urls -> Nat] /\ deletes'[u] = deletes[u] - 1
      /\ \A v \in Urls : v # u => deletes'[v] = deletes[v]
      /\ file' \in [Urls -> Nat] /\ (u \notin raced' => file'[u] = 0)
      /\ \A v \in Urls : v # u => file'[v] = file[v]
      /\ raced \subseteq raced' /\ raced' \subseteq Urls
  BY <1>1 DEF IInv, TypeOK
<1>3. TypeOK'
  BY <1>1, <1>2 DEF IInv, TypeOK
<1>4. Fetching' /\ Jobs'
  BY <1>1 DEF IInv, Fetching, Listed, Jobs
<1>5. \A v \in Urls : (Saved(v)' <=> Saved(v)) /\ (Saving(v)' <=> Saving(v))
  BY <1>1 DEF Saved, Saving
<1>6. \A v \in Urls : deletes'[v] > 0 => deletes[v] > 0
  BY <1>1, <1>2
<1>7. Apart'
  BY <1>1, <1>2, <1>5, <1>6 DEF IInv, Apart
<1>8. Copies'
  <2>1. u \notin raced => entry[u].updated = 0 /\ ~Saved(u)
    BY <1>1 DEF IInv, Apart
  <2>2. QED
    BY <1>1, <1>2, <1>5, <2>1 DEF IInv, Copies
<1>9. Builds'
  BY <1>1, <1>2, <1>5, SameBuilds DEF IInv
<1>10. QED
  BY <1>3, <1>4, <1>7, <1>8, <1>9 DEF IInv

\* The steps of the load runner, which see to Builds and nothing else.
LEMMA RunnerStep ==
  ASSUME IInv, UNCHANGED <<entry, text, file, fetcher, noted, saves, deletes, inputs, exits,
                           raced>>,
         builds' \in Seq(KeyType), building' \in EngineType \cup {NoEngine},
         engine' \in EngineType \cup {NoEngine}, Builds'
  PROVE  IInv'
<1>1. TypeOK'
  BY DEF IInv, TypeOK
<1>2. Fetching' /\ Jobs' /\ Apart' /\ Copies'
  BY DEF IInv, Fetching, Listed, Jobs, Apart, Copies, Saved, Saving
<1>3. QED
  BY <1>1, <1>2 DEF IInv

LEMMA ReadListsStep == IInv /\ ReadLists => IInv'
<1> SUFFICES ASSUME IInv, ReadLists PROVE IInv'
  OBVIOUS
<1>1. /\ UNCHANGED <<entry, text, file, fetcher, noted, saves, deletes, engine, inputs, exits,
                     raced>>
      /\ builds # <<>> /\ building = NoEngine
  BY DEF ReadLists, profileVars, poolVars, bounds
<1>2. builds \in Seq(KeyType)
  BY DEF IInv, TypeOK
<1>3. PICK k \in KeyType, q \in Seq(KeyType) :
        /\ k = Head(builds) /\ q = Tail(builds) /\ k = builds[1]
        /\ Len(builds) \in Nat \ {0} /\ Len(q) = Len(builds) - 1
        /\ \A i \in 1 .. Len(q) : q[i] = builds[i + 1]
  <2>1. /\ Head(builds) \in KeyType /\ Tail(builds) \in Seq(KeyType)
        /\ Head(builds) = builds[1]
        /\ Len(builds) \in Nat \ {0} /\ Len(Tail(builds)) = Len(builds) - 1
        /\ \A i \in 1 .. Len(Tail(builds)) : Tail(builds)[i] = builds[i + 1]
    <3>1. Head(builds) = builds[1]
      BY <1>1, <1>2
    <3>2. QED
      BY <1>1, <1>2, <3>1, HeadTailProperties, EmptySeq
  <2>2. QED
    BY <2>1
<1>4. PICK m \in SUBSET Urls :
        /\ builds' = q
        /\ building' = [key |-> k, missed |-> m,
                        read |-> [u \in Urls |-> IF k.copies[u] = 0 \/ u \in m
                                                   THEN 0 ELSE file[u]]]
  <2>1. PICK m \in SUBSET {u \in Urls : Head(builds).copies[u] # 0 /\ file[u] # 0} :
          building' = [key |-> Head(builds), missed |-> m,
                       read |-> [u \in Urls |-> IF Head(builds).copies[u] = 0 \/ u \in m
                                                  THEN 0 ELSE file[u]]]
    BY Zenon DEF ReadLists
  <2>2. m \in SUBSET Urls /\ builds' = q
    BY <1>3 DEF ReadLists
  <2>3. k = Head(builds)
    BY <1>3
  <2>4. QED
    BY <2>1, <2>2, <2>3
<1>5. PICK r : r = [u \in Urls |-> IF k.copies[u] = 0 \/ u \in m THEN 0 ELSE file[u]]
  OBVIOUS
<1>6. /\ r \in [Urls -> Nat]
      /\ building' = [key |-> k, missed |-> m, read |-> r] /\ builds' = q
  BY <1>4, <1>5 DEF IInv, TypeOK
<1>7. /\ building' \in EngineType /\ building' # NoEngine
      /\ building'.key = k /\ building'.read = r /\ building'.missed = m
  <2>1. /\ building' \in EngineType
        /\ building'.key = k /\ building'.read = r /\ building'.missed = m
    BY <1>3, <1>6 DEF EngineType
  <2>2. QED
    BY <2>1, KeyFacts
<1>8. noted # NotNoted /\ noted = KeyOf(entry, text) /\ noted = builds[Len(builds)]
  BY <1>1 DEF IInv, Builds, LastKey
<1>9. LastKey' = noted
  <2>1. CASE q = <<>>
    <3>1. Len(q) = 0
      BY <2>1, EmptySeq
    <3>2. Len(builds) = 1
      BY <1>3, <3>1
    <3>3. QED
      BY <1>3, <1>6, <1>7, <1>8, <2>1, <3>2 DEF LastKey
  <2>2. CASE q # <<>>
    <3>1. Len(q) \in Nat \ {0}
      BY <2>2, EmptySeq
    <3>2. q[Len(q)] = builds[Len(builds)]
      BY <1>3, <3>1
    <3>3. QED
      BY <1>6, <1>8, <2>2, <3>2 DEF LastKey
  <2>3. QED
    BY <2>1, <2>2
<1>10. ASSUME q = <<>>, NEW u \in Urls \ (raced \cup m)
       PROVE  \/ r[u] = entry[u].updated
              \/ entry[u].updated # 0 /\ Saved(u) /\ r[u] = fetcher.started
  <2>1. k = KeyOf(entry, text)
    <3>1. Len(q) = 0
      BY <1>10, EmptySeq
    <3>2. Len(builds) = 1
      BY <1>3, <3>1
    <3>3. QED
      BY <1>3, <1>8, <3>2
  <2>2. k.copies[u] = entry[u].updated
    BY <2>1, KeyFacts DEF IInv, TypeOK
  <2>3. CASE entry[u].updated = 0
    BY <1>5, <2>2, <2>3
  <2>4. CASE entry[u].updated # 0
    <3>1. r[u] = file[u] /\ deletes[u] = 0
      BY <1>5, <2>2, <2>4 DEF IInv, TypeOK, Apart
    <3>2. QED
      BY <2>4, <3>1 DEF IInv, Copies
  <2>5. QED
    BY <2>3, <2>4
<1>11. Builds'
  <2>1. LastRead' = r /\ LastMissed' = m
    BY <1>7 DEF LastRead, LastMissed
  <2>2. \A u \in Urls : Saved(u)' <=> Saved(u)
    BY <1>1 DEF Saved
  <2>3. KeyOf(entry, text)' = KeyOf(entry, text)
    BY <1>1 DEF KeyOf
  <2>4. QED
    BY <1>1, <1>6, <1>8, <1>9, <1>10, <2>1, <2>2, <2>3 DEF Builds
<1>12. QED
  BY <1>1, <1>3, <1>6, <1>7, <1>11, RunnerStep DEF IInv, TypeOK

LEMMA SetCustomEngineStep == IInv /\ SetCustomEngine => IInv'
<1> SUFFICES ASSUME IInv, SetCustomEngine PROVE IInv'
  OBVIOUS
<1>1. /\ UNCHANGED <<entry, text, file, fetcher, noted, saves, deletes, builds, inputs, exits,
                     raced>>
      /\ building # NoEngine /\ building' = NoEngine
      /\ engine' = IF building.key = noted THEN building ELSE engine
  BY DEF SetCustomEngine, profileVars, poolVars, bounds
<1>2. /\ builds \in Seq(KeyType)
      /\ engine' \in EngineType \cup {NoEngine}
  BY <1>1 DEF IInv, TypeOK
<1>3. /\ noted # NotNoted
      /\ builds = <<>> => LastKey = building.key /\ engine' = building
      /\ LastKey = noted
  BY <1>1 DEF IInv, Builds, LastKey
<1>4. LastKey' = noted
  <2>1. CASE builds = <<>>
    BY <1>1, <1>3, <2>1 DEF LastKey
  <2>2. CASE builds # <<>>
    BY <1>1, <1>3, <2>2 DEF LastKey
  <2>3. QED
    BY <2>1, <2>2
<1>5. builds = <<>> => LastRead' = LastRead /\ LastMissed' = LastMissed
  BY <1>1, <1>3 DEF LastRead, LastMissed
<1>6. /\ \A u \in Urls : Saved(u)' <=> Saved(u)
      /\ KeyOf(entry, text)' = KeyOf(entry, text)
  BY <1>1 DEF Saved, KeyOf
<1>7. Builds'
  BY <1>1, <1>3, <1>4, <1>5, <1>6 DEF IInv, Builds
<1>8. QED
  BY <1>1, <1>2, <1>7, RunnerStep DEF IInv, TypeOK

LEMMA ExitStep == IInv /\ Exit => IInv'
<1> SUFFICES ASSUME IInv, Exit PROVE IInv'
  OBVIOUS
<1>1. /\ UNCHANGED <<entry, text, file, inputs>> /\ exits' = exits + 1
      /\ fetcher' = IdleFetcher(fetcher.started)
      /\ noted' = NotNoted /\ saves' = {} /\ deletes' = [u \in Urls |-> 0]
      /\ builds' = <<>> /\ building' = NoEngine /\ engine' = NoEngine
      /\ raced \subseteq raced' /\ raced' \subseteq Urls
      /\ \A u \in Urls \ raced' : deletes[u] = 0 /\ ~Saved(u)
  BY DEF IInv, TypeOK, Exit, profileVars, Saved
<1>2. fetcher.started \in Nat /\ <<>> \in Seq(Urls) /\ <<>> \in Seq(KeyType)
  BY DEF IInv, TypeOK, FetcherType
<1>3. /\ fetcher' \in FetcherType /\ fetcher'.queue = <<>> /\ fetcher'.pending = {}
      /\ fetcher'.current = NoUrl /\ fetcher'.stage = "none"
      /\ fetcher'.started = fetcher.started
  BY <1>1, <1>2 DEF IdleFetcher, FetcherType, Stages
<1>4. TypeOK'
  BY <1>1, <1>2, <1>3 DEF IInv, TypeOK
<1>5. Fetching'
  <2>1. ToSet(fetcher'.queue) = {} /\ IsInjective(fetcher'.queue)
    BY <1>3 DEF ToSet, IsInjective
  <2>2. QED
    BY <1>3, <2>1 DEF Fetching, Fetches, Queued, Moves
<1>6. \A u \in Urls : ~Saved(u)' /\ ~Saving(u)' /\ deletes'[u] = 0
  BY <1>1, <1>3 DEF Saved, Saving
<1>7. Jobs' /\ Apart'
  BY <1>1, <1>3, <1>6 DEF IInv, Jobs, Apart
<1>8. Copies' /\ Builds'
  BY <1>1, <1>6 DEF IInv, Copies, Builds
<1>9. QED
  BY <1>4, <1>5, <1>7, <1>8 DEF IInv

LEMMA NextIInv == IInv /\ [Next]_vars => IInv'
<1> SUFFICES ASSUME IInv, [Next]_vars PROVE IInv'
  OBVIOUS
<1>1. CASE UNCHANGED vars
  <2>1. UNCHANGED <<entry, text, file, fetcher, noted, saves, deletes, builds, building,
                    engine, inputs, exits, raced>>
    BY <1>1 DEF vars, profileVars, poolVars, buildVars, bounds
  <2>2. QED
    BY <2>1 DEF IInv, TypeOK, Fetching, Listed, Jobs, Apart, Copies, Builds, LastKey,
                LastRead, LastMissed, Saved, Saving
<1>2. CASE \E u \in Urls : AddUserList(u) \/ RemoveUserList(u) \/ TimePasses(u) \/ DeleteFile(u)
  BY <1>2, AddUserListStep, RemoveUserListStep, TimePassesStep, DeleteFileStep
<1>3. CASE \E s \in saves : CheckAndSave(s)
  BY <1>3, CheckAndSaveStep
<1>4. CASE SetCustomRules \/ Navigate \/ OnDownloaded \/ OnSaved \/ ReadLists
           \/ SetCustomEngine \/ Exit
  BY <1>4, SetCustomRulesStep, NavigateStep, OnDownloadedStep, OnSavedStep, ReadListsStep,
     SetCustomEngineStep, ExitStep
<1>5. QED
  BY <1>1, <1>2, <1>3, <1>4 DEF Next

\* IInv holds in every reachable state.
THEOREM Inductive == Spec => []IInv
<1>1. QED
  BY InitIInv, NextIInv, PTL DEF Spec

\* The variables have their types: an entry that is not listed is empty, and
\* current_ is empty exactly when nothing runs.
THEOREM TypeCorrect == Spec => []TypeOK
<1>1. IInv => TypeOK
  BY DEF IInv
<1>2. QED
  BY <1>1, Inductive, PTL

\* pending_ is what runs and what waits, each once, whatever is added, removed
\* or refreshed while a download, its save or its reply is under way.
THEOREM PendingIsExact == Spec => []PendingIsQueuedOrRunning
<1>1. IInv => PendingIsQueuedOrRunning
  BY DEF IInv, Fetching, Fetches, Queued, Moves, PendingIsQueuedOrRunning
<1>2. QED
  BY <1>1, Inductive, PTL

\* The entry of a list names the copy on disk, for any number of lists, inputs
\* and exits, but for lists with two jobs under way at once, those with one
\* under way when the browser was closed, and those with a copy that could not be
\* deleted.
THEOREM CopiesAreNoted == Spec => []CopyIsTheOneNoted
<1>1. IInv => CopyIsTheOneNoted
  BY DEF IInv, Copies, CopyIsTheOneNoted, Settled, Saved
<1>2. QED
  BY <1>1, Inductive, PTL

\* The last build stands for the rules and copies of the preferences, but for
\* those lists and for copies it could not read.
THEOREM LastBuildIsCurrent == Spec => []EngineIsCurrent
<1>1. IInv => EngineIsCurrent
  BY DEF IInv, Builds, LastKey, LastRead, LastMissed, EngineIsCurrent, Settled, Saved
<1>2. QED
  BY <1>1, Inductive, PTL
=============================================================================
