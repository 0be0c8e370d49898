-------------------------- MODULE BuildTreeProofs --------------------------
(***************************************************************************)
(* Proofs about the tools around the build tree, for any number of         *)
(* processes, branches, files, patches and test threads: the lock on the   *)
(* tree and what it promises; the store of originals, the tree that a      *)
(* build finds and the tree that a restore leaves; the lock on the         *)
(* foreground; and the types of all three in the run that composes them.   *)
(***************************************************************************)
EXTENDS MCBuildTree, FiniteSetTheorems, WellFoundedInduction, TLAPS

-----------------------------------------------------------------------------
(* The lock on the build tree: joblock.py *)

\* The states of a process that has been given an owner.
Owning == Using \cup {"waiting", "checking"}

\* Type correctness, with what the owner of a process is.
LockTyped ==
  /\ LockTypeOK
  /\ \A p \in Procs : proc[p].at \in Owning => proc[p].owner \in Owners

LEMMA ProcFields ==
  ASSUME NEW r \in ProcType
  PROVE  /\ r.at \in Using \cup {"gone", "waiting", "checking", "status", "removing"}
         /\ r.owner \in Owners \cup {NoOwner} /\ r.lease \in Nat /\ r.until \in Nat
         /\ r.note \in HolderType /\ r.was \in HolderType
  BY DEF ProcType

LEMMA HolderFields ==
  /\ NoHolder \in HolderType
  /\ \A h \in HolderType : h.expires \in Nat /\ h.owner \in Owners \cup {NoOwner}
  BY DEF HolderType, NoHolder

LEMMA GoneIsProc == Gone \in ProcType
  BY HolderFields DEF Gone, ProcType

\* What the helpers that change a process do to its type.
LEMMA GoesTyped ==
  ASSUME proc \in [Procs -> ProcType], NEW p \in Procs, NEW where \in Using, Goes(p, where)
  PROVE  proc' \in [Procs -> ProcType]
  BY DEF Goes, ProcType

LEMMA TypedInit == LockAssumption /\ LockInit => LockTyped
<1> SUFFICES ASSUME LockAssumption, LockInit PROVE LockTyped
  OBVIOUS
<1>1. LockTypeOK
  BY GoneIsProc, HolderFields DEF LockInit, LockTypeOK
<1>2. \A p \in Procs : proc[p].at \notin Owning
  BY DEF LockInit, Gone, Owning, Using
<1> QED BY <1>1, <1>2 DEF LockTyped

LEMMA TypedNext == LockAssumption /\ LockTyped /\ [LockNext]_lockVars => LockTyped'
<1> SUFFICES ASSUME LockAssumption, LockTyped, [LockNext]_lockVars PROVE LockTyped'
  OBVIOUS
<1> USE LockAssumption DEF LockAssumption, LockTyped, LockTypeOK
<1>1. ASSUME NEW p \in Procs, NEW o \in Owners, NEW lease \in Leases, NEW wait \in Waits,
             Start(p, o, lease, wait)
      PROVE  LockTyped'
  <2>1. [Gone EXCEPT !.at = "waiting", !.owner = o, !.lease = lease, !.until = now + wait]
          \in ProcType
    <3>1. now + wait \in Nat /\ lease \in Nat
      OBVIOUS
    <3> QED BY <3>1, HolderFields DEF Gone, ProcType
  <2> QED BY <1>1, <2>1 DEF Start, NoFault, Owning, Using, Gone
<1>2. ASSUME NEW p \in Procs, NEW o \in Owners \cup {NoOwner}, ReleaseClaim(p, o)
      PROVE  LockTyped'
  <2>1. [Gone EXCEPT !.at = "removing", !.was = holder] \in ProcType
    BY GoneIsProc DEF Gone, ProcType
  <2>2. holder.owner \in Owners
    BY <1>2 DEF ReleaseClaim, HolderType
  <2> QED BY <1>2, <2>1, <2>2 DEF ReleaseClaim, NoFault, Owning, Using, Gone
<1>3. ASSUME NEW p \in Procs, Status(p) PROVE LockTyped'
  BY <1>3 DEF Status, NoFault, Goes, Owning, Using, ProcType
<1>4. ASSUME NEW p \in Procs, Proceed(p) PROVE LockTyped'
  <2>1. CASE Take(p)
    BY <2>1 DEF Take, At, Goes, NoFault, Owning, Using, ProcType
  <2>2. CASE GiveUp(p) \/ Refuse(p) \/ StatusEnds(p) \/ RemoveHolder(p)
    <3>1. Ends(p) /\ lock' \in {lock, NoProc} /\ holder' \in {holder, NoHolder}
      BY <2>2 DEF GiveUp, Refuse, StatusEnds, RemoveHolder, Drops
    <3>2. UNCHANGED <<now, starts, granted>> /\ torn' \in BOOLEAN /\ late' \in BOOLEAN
      BY <2>2 DEF GiveUp, Refuse, StatusEnds, RemoveHolder, NoFault, Regrets, IsLive
    <3> QED BY <3>1, <3>2, GoneIsProc, HolderFields DEF Ends, Gone, Owning, Using
  <2>3. CASE Enter(p)
    BY <2>3 DEF Enter, At, Goes, NoFault, Owning, Using, ProcType
  <2>4. CASE Decide(p)
    <3>1. proc[p].owner \in Owners
      BY <2>4 DEF Decide, At, Owning, Using
    <3>2. ExpiryFor(p) \in Nat
      BY ProcFields, HolderFields DEF ExpiryFor
    <3>3. [owner |-> proc[p].owner, expires |-> ExpiryFor(p)] \in HolderType
      BY <3>1, <3>2 DEF HolderType
    <3> HIDE DEF ExpiryFor
    <3> QED BY <2>4, <3>1, <3>3 DEF Decide, NoFault, Owning, Using, ProcType
  <2>5. CASE OpenHolder(p)
    <3>1. proc[p].at = "opening" /\ proc[p] \in ProcType
      BY <2>5 DEF OpenHolder, At
    <3>2. PICK r : r = [proc[p] EXCEPT !.at = "opened", !.was = holder]
      OBVIOUS
    <3>3. r \in ProcType /\ r.owner = proc[p].owner /\ r.at = "opened"
      BY <3>1, <3>2 DEF ProcType, Using
    <3>4. proc' = [proc EXCEPT ![p] = r]
      BY <2>5, <3>2 DEF OpenHolder
    <3>5. proc[p].owner \in Owners
      BY <3>1 DEF Owning, Using
    <3> QED BY <2>5, <3>3, <3>4, <3>5, HolderFields DEF OpenHolder, NoFault
  <2>6. CASE WriteHolder(p)
    <3>1. proc[p].note \in HolderType /\ proc[p].note.expires \in Nat
      BY ProcFields, HolderFields
    <3>2. proc[p].owner \in Owners
      BY <2>6 DEF WriteHolder, Owning, Using
    <3>3. \E where \in Using : Goes(p, where)
      BY <2>6 DEF WriteHolder, Using
    <3>4. proc' \in [Procs -> ProcType]
      BY <3>3, GoesTyped
    <3>5. \A q \in Procs : proc'[q].owner = proc[q].owner
                           /\ (q # p => proc'[q].at = proc[q].at)
      BY <3>3 DEF Goes, ProcType
    <3>6. holder' \in HolderType /\ granted' \in [Owners -> Nat]
      BY <2>6, <3>1 DEF WriteHolder
    <3> QED BY <2>6, <3>2, <3>4, <3>5, <3>6 DEF WriteHolder, NoFault
  <2>7. CASE CommandEnds(p)
    BY <2>7 DEF CommandEnds, At, Goes, NoFault, Owning, Using, ProcType
  <2>8. CASE Release(p)
    BY <2>8, GoneIsProc, HolderFields DEF Release, Drops, Ends, NoFault, Gone, Owning, Using
  <2>9. ASSUME NEW q \in Procs, RemoveOpenHolder(p, q) PROVE LockTyped'
    <3>1. CASE Ends(p) /\ UNCHANGED late
      BY <2>9, <3>1, GoneIsProc DEF RemoveOpenHolder, Ends, Gone, Owning, Using
    <3>2. CASE proc' = [proc EXCEPT ![p] = Gone, ![q].at = "unlinked"] /\ late' = TRUE
      <4>1. p # q /\ proc[q].owner \in Owners
        BY <2>9 DEF RemoveOpenHolder, Opened, At, Owning, Using
      <4>2. proc' \in [Procs -> ProcType]
        BY <3>2, <4>1, GoneIsProc DEF ProcType, Using
      <4>3. proc'[p] = Gone /\ proc'[q].owner = proc[q].owner
            /\ \A r \in Procs \ {p, q} : proc'[r] = proc[r]
        BY <3>2, <4>1 DEF ProcType
      <4> QED BY <2>9, <3>2, <4>1, <4>2, <4>3 DEF RemoveOpenHolder, Gone, Owning, Using
    <3> QED BY <2>9, <3>1, <3>2 DEF RemoveOpenHolder
  <2> QED BY <1>4, <2>1, <2>2, <2>3, <2>4, <2>5, <2>6, <2>7, <2>8, <2>9 DEF Proceed
<1>5. ASSUME NEW p \in Procs, Kill(p) PROVE LockTyped'
  BY <1>5, GoneIsProc DEF Kill, Drops, Ends, At, Gone, Owning, Using
<1>6. CASE LockTick
  BY <1>6 DEF LockTick, NoFault
<1>7. CASE UNCHANGED lockVars
  BY <1>7 DEF lockVars
<1> QED BY <1>1, <1>2, <1>3, <1>4, <1>5, <1>6, <1>7 DEF LockNext

\* The types of the lock, its holder file and the processes hold.
THEOREM LockTypeCorrect == LockSpec => []LockTypeOK
<1>1. LockInit => LockTyped
  BY LockAssumption, TypedInit
<1>2. LockTyped /\ [LockNext]_lockVars => LockTyped'
  BY LockAssumption, TypedNext
<1>3. LockTyped => LockTypeOK
  BY DEF LockTyped
<1> QED BY <1>1, <1>2, <1>3, PTL DEF LockSpec

-----------------------------------------------------------------------------
(* A claim holds. *)

\* The process that is past waiting is the one with the lock.
LockHeld == \A p \in Procs : proc[p].at \in Using \cup {"checking", "status"} <=> lock = p

\* What is known of a note between the decision and the write.
NotesRight ==
  \A p \in Procs :
    /\ proc[p].at \in {"opening", "opened", "unlinked"} => proc[p].note.owner = proc[p].owner
    /\ proc[p].at = "opened" => holder = NoHolder
    /\ proc[p].at = "unlinked" => late

\* An owner that was told of a claim finds it in the holder file, or in the hands
\* of its own process that has the file open.
ClaimKept ==
  ~torn /\ ~late =>
    /\ ClaimHolds
    /\ \A o \in Owners : granted[o] > now =>
         \/ holder.owner = o /\ holder.expires >= granted[o]
         \/ \E p \in Procs : /\ proc[p].at = "opened" /\ proc[p].owner = o
                             /\ proc[p].lease # 0 \/ proc[p].note.expires >= granted[o]
    /\ \A p \in Procs :
         proc[p].at = "opening" /\ proc[p].lease = 0 /\ granted[proc[p].owner] > now =>
           proc[p].note.expires >= granted[proc[p].owner]

LockInv == LockTyped /\ LockHeld /\ NotesRight /\ ClaimKept

LEMMA GoesEffect ==
  ASSUME proc \in [Procs -> ProcType], NEW p \in Procs, NEW where, Goes(p, where)
  PROVE  /\ proc'[p].at = where /\ proc'[p].owner = proc[p].owner
         /\ proc'[p].lease = proc[p].lease /\ proc'[p].note = proc[p].note
         /\ proc'[p].was = proc[p].was
         /\ \A q \in Procs \ {p} : proc'[q] = proc[q]
  BY DEF Goes, ProcType

LEMMA EndsEffect ==
  ASSUME proc \in [Procs -> ProcType], NEW p \in Procs, Ends(p)
  PROVE  /\ proc'[p].at = "gone" /\ \A q \in Procs \ {p} : proc'[q] = proc[q]
  BY DEF Ends, Gone

LEMMA LockInvInit == LockAssumption /\ LockInit => LockInv
<1> SUFFICES ASSUME LockAssumption, LockInit PROVE LockInv
  OBVIOUS
<1>1. LockTyped
  BY TypedInit
<1>2. \A p \in Procs : proc[p].at = "gone" /\ lock # p
  BY DEF LockInit, Gone, LockAssumption
<1> QED BY <1>1, <1>2 DEF LockInv, LockHeld, NotesRight, ClaimKept, ClaimHolds, Using, LockInit

\* Steps of a process that leave the holder file, the lock and what was granted.
LEMMA QuietStep ==
  ASSUME LockInv, LockTyped', NEW p \in Procs,
         UNCHANGED <<now, holder, granted, torn, late>>,
         proc[p].at \in {"gone", "waiting", "checking", "status", "removing"}
           \/ proc'[p].at \in {"gone", "ending"},
         proc[p].at # "opened", proc[p].at # "opening" \/ proc'[p].at = "gone",
         proc'[p].at \notin Using \/ (proc'[p].at = "ending" /\ proc[p].at \in Using
                                       /\ proc'[p].owner = proc[p].owner),
         \A q \in Procs \ {p} : proc'[q] = proc[q],
         LockHeld'
  PROVE  LockInv'
<1>1. NotesRight'
  BY DEF LockInv, NotesRight, Using
<1>2. ClaimKept'
  <2> SUFFICES ASSUME ~torn, ~late PROVE ClaimKept'
    BY DEF ClaimKept
  <2>1. ClaimHolds'
    BY DEF LockInv, ClaimKept, ClaimHolds
  <2>2. \A q \in Procs : proc[q].at = "opened" => q # p
    OBVIOUS
  <2>3. \A q \in Procs : proc'[q].at = "opening" => q # p
    BY DEF Using
  <2> QED BY <2>1, <2>2, <2>3 DEF LockInv, ClaimKept
<1> QED BY <1>1, <1>2 DEF LockInv

LEMMA LockInvNext == LockAssumption /\ LockInv /\ [LockNext]_lockVars => LockInv'
<1> SUFFICES ASSUME LockAssumption, LockInv, [LockNext]_lockVars PROVE LockInv'
  OBVIOUS
<1>0. LockTyped' /\ LockTyped /\ LockHeld /\ NotesRight /\ ClaimKept /\ LockTypeOK /\ LockTypeOK'
      /\ NoProc \notin Procs /\ proc \in [Procs -> ProcType] /\ proc' \in [Procs -> ProcType]
  BY TypedNext DEF LockInv, LockTyped, LockTypeOK, LockAssumption
<1>1. ASSUME NEW p \in Procs, NEW o \in Owners, NEW lease \in Leases, NEW wait \in Waits,
             Start(p, o, lease, wait)
      PROVE  LockInv'
  <2>1. proc[p].at = "gone" /\ proc'[p].at = "waiting" /\ \A q \in Procs \ {p} : proc'[q] = proc[q]
    BY <1>0, <1>1 DEF Start, At, Gone
  <2>2. LockHeld'
    BY <1>0, <1>1, <2>1 DEF Start, LockHeld, Using
  <2> QED BY <1>0, <1>1, <2>1, <2>2, QuietStep DEF Start, NoFault, Using
<1>2. ASSUME NEW p \in Procs, NEW o \in Owners \cup {NoOwner}, ReleaseClaim(p, o)
      PROVE  LockInv'
  <2>1. proc[p].at = "gone" /\ proc'[p].at = "removing" /\ \A q \in Procs \ {p} : proc'[q] = proc[q]
    BY <1>0, <1>2 DEF ReleaseClaim, At, Gone
  <2>2. LockHeld' /\ NotesRight'
    BY <1>0, <1>2, <2>1 DEF ReleaseClaim, LockHeld, NotesRight, NoFault, Using
  <2>3. \A w \in Owners : granted'[w] \in {granted[w], 0} /\ granted[w] \in Nat /\ now \in Nat
    BY <1>0, <1>2 DEF ReleaseClaim, LockTypeOK
  <2>4. ClaimKept'
    <3> SUFFICES ASSUME ~torn, ~late PROVE ClaimKept'
      BY <1>2 DEF ClaimKept, ReleaseClaim, NoFault
    <3>1. ClaimHolds'
      BY <1>0, <1>2, <2>1, <2>3 DEF ClaimKept, ClaimHolds, ReleaseClaim, Using
    <3>2. \A w \in Owners : granted'[w] > now => granted'[w] = granted[w]
      BY <2>3
    <3>3. \A q \in Procs : proc'[q].at \in {"opened", "opening"} =>
             q # p /\ proc'[q] = proc[q] /\ proc[q].owner \in Owners
      BY <1>0, <2>1 DEF LockTyped, Owning, Using
    <3>4. UNCHANGED <<now, holder>>
      BY <1>2 DEF ReleaseClaim
    <3>5. \A w \in Owners : granted'[w] > now =>
         \/ holder.owner = w /\ holder.expires >= granted'[w]
         \/ \E q \in Procs : /\ proc'[q].at = "opened" /\ proc'[q].owner = w
                             /\ proc'[q].lease # 0 \/ proc'[q].note.expires >= granted'[w]
      BY <1>0, <2>1, <3>2 DEF ClaimKept
    <3>6. \A q \in Procs :
         proc'[q].at = "opening" /\ proc'[q].lease = 0 /\ granted'[proc'[q].owner] > now =>
           proc'[q].note.expires >= granted'[proc'[q].owner]
      BY <1>0, <3>2, <3>3 DEF ClaimKept
    <3> QED BY <3>1, <3>4, <3>5, <3>6 DEF ClaimKept
  <2> QED BY <1>0, <2>2, <2>4 DEF LockInv
<1>3. ASSUME NEW p \in Procs, Status(p) PROVE LockInv'
  <2>1. Goes(p, "status") /\ proc[p].at = "gone" /\ lock = NoProc /\ lock' = p
    BY <1>3 DEF Status, At
  <2>2. proc'[p].at = "status" /\ \A q \in Procs \ {p} : proc'[q] = proc[q]
    BY <1>0, <2>1, GoesEffect
  <2>3. LockHeld'
    BY <1>0, <2>1, <2>2 DEF LockHeld
  <2> QED BY <1>0, <1>3, <2>1, <2>2, <2>3, QuietStep DEF Status, NoFault, Using
<1>4. ASSUME NEW p \in Procs, Take(p) PROVE LockInv'
  <2>1. Goes(p, "checking") /\ proc[p].at = "waiting" /\ lock = NoProc /\ lock' = p
    BY <1>4 DEF Take, At
  <2>2. proc'[p].at = "checking" /\ \A q \in Procs \ {p} : proc'[q] = proc[q]
    BY <1>0, <2>1, GoesEffect
  <2>3. LockHeld'
    BY <1>0, <2>1, <2>2 DEF LockHeld
  <2> QED BY <1>0, <1>4, <2>1, <2>2, <2>3, QuietStep DEF Take, NoFault, Using
<1>5. ASSUME NEW p \in Procs, GiveUp(p) \/ Refuse(p) \/ StatusEnds(p) PROVE LockInv'
  <2>1. Ends(p) /\ proc[p].at \in {"waiting", "checking", "status"}
        /\ UNCHANGED <<now, holder, granted, torn, late>>
    BY <1>5 DEF GiveUp, Refuse, StatusEnds, At, NoFault
  <2>2. proc'[p].at = "gone" /\ \A q \in Procs \ {p} : proc'[q] = proc[q]
    BY <1>0, <2>1, EndsEffect
  <2>3. lock' = (IF lock = p THEN NoProc ELSE lock)
    BY <1>0, <1>5 DEF GiveUp, Refuse, StatusEnds, Drops, LockHeld, At, Using
  <2>4. LockHeld'
    BY <1>0, <2>1, <2>2, <2>3 DEF LockHeld, Using
  <2> QED BY <1>0, <2>1, <2>2, <2>4, QuietStep DEF Using
<1>6. ASSUME NEW p \in Procs, CommandEnds(p) PROVE LockInv'
  <2>1. Goes(p, "ending") /\ proc[p].at = "running"
    BY <1>6 DEF CommandEnds, At
  <2>2. proc'[p].at = "ending" /\ proc'[p].owner = proc[p].owner
        /\ \A q \in Procs \ {p} : proc'[q] = proc[q]
    BY <1>0, <2>1, GoesEffect
  <2>3. LockHeld'
    BY <1>0, <1>6, <2>1, <2>2 DEF CommandEnds, LockHeld, Using
  <2> QED BY <1>0, <1>6, <2>1, <2>2, <2>3, QuietStep DEF CommandEnds, NoFault, Using
<1>7. ASSUME NEW p \in Procs, Enter(p) PROVE LockInv'
  <2>1. Goes(p, "deciding") /\ proc[p].at = "checking" /\ ~Barred(p) /\ lock = p
        /\ UNCHANGED <<now, lock, holder, starts, granted, torn, late>>
    BY <1>0, <1>7 DEF Enter, At, NoFault, LockHeld
  <2>2. proc'[p].at = "deciding" /\ proc'[p].owner = proc[p].owner
        /\ \A q \in Procs \ {p} : proc'[q] = proc[q]
    BY <1>0, <2>1, GoesEffect
  <2>3. LockHeld' /\ NotesRight'
    BY <1>0, <2>1, <2>2 DEF LockHeld, NotesRight, Using
  <2>4. \A q \in Procs : proc[q].at \notin Using
    BY <1>0, <2>1 DEF LockHeld, Using
  <2>5. ClaimKept'
    <3> SUFFICES ASSUME ~torn, ~late PROVE ClaimKept'
      BY <2>1 DEF ClaimKept
    <3>1. ASSUME NEW w \in Owners, w # proc[p].owner PROVE granted[w] <= now
      <4> SUFFICES ASSUME granted[w] > now PROVE FALSE
        BY <1>0 DEF LockTypeOK
      <4>1. holder.owner = w /\ holder.expires >= granted[w]
        BY <1>0, <2>4 DEF ClaimKept, Using
      <4>2. IsLive(holder)
        BY <1>0, <4>1, HolderFields DEF IsLive, LockTypeOK
      <4> QED BY <2>1, <3>1, <4>1, <4>2 DEF Barred
    <3>2. ClaimHolds'
      BY <2>1, <2>2, <2>4, <3>1 DEF ClaimHolds
    <3> QED BY <1>0, <2>1, <2>2, <3>2, <2>4 DEF ClaimKept, Using
  <2> QED BY <1>0, <2>3, <2>5 DEF LockInv
<1>8. ASSUME NEW p \in Procs, Decide(p) PROVE LockInv'
  <2>1. proc[p].at = "deciding" /\ lock = p /\ proc[p].owner \in Owners
        /\ UNCHANGED <<now, lock, holder, starts, granted, torn, late>>
    BY <1>0, <1>8 DEF Decide, At, NoFault, LockHeld, LockTyped, Owning, Using
  <2>2. PICK note : note = [owner |-> proc[p].owner, expires |-> ExpiryFor(p)]
    OBVIOUS
  <2>3. note.owner = proc[p].owner /\ note.expires = ExpiryFor(p)
    BY <2>2
  <2>4. proc'[p].at = "opening" /\ proc'[p].owner = proc[p].owner /\ proc'[p].note = note
        /\ proc'[p].lease = proc[p].lease /\ \A q \in Procs \ {p} : proc'[q] = proc[q]
    BY <1>0, <1>8, <2>2 DEF Decide, ProcType
  <2>5. LockHeld' /\ NotesRight'
    BY <1>0, <2>1, <2>3, <2>4 DEF LockHeld, NotesRight, Using
  <2>6. \A q \in Procs \ {p} : proc[q].at \notin Using
    BY <1>0, <2>1 DEF LockHeld, Using
  <2>7. ClaimKept'
    <3> SUFFICES ASSUME ~torn, ~late PROVE ClaimKept'
      BY <2>1 DEF ClaimKept
    <3>1. ClaimHolds'
      BY <1>0, <2>1, <2>4 DEF ClaimKept, ClaimHolds, Using
    <3>2. ASSUME proc[p].lease = 0, granted[proc[p].owner] > now
          PROVE  note.expires >= granted[proc[p].owner]
      <4>1. holder.owner = proc[p].owner /\ holder.expires >= granted[proc[p].owner]
        BY <1>0, <2>1, <2>6, <3>2 DEF ClaimKept, Using
      <4>2. IsLive(holder)
        BY <1>0, <2>1, <3>2, <4>1, HolderFields DEF IsLive, LockTypeOK
      <4> QED BY <2>3, <3>2, <4>1, <4>2 DEF ExpiryFor
    <3> QED BY <1>0, <2>1, <2>4, <2>6, <3>1, <3>2 DEF ClaimKept, Using
  <2> QED BY <1>0, <2>5, <2>7 DEF LockInv
<1>9. ASSUME NEW p \in Procs, OpenHolder(p) PROVE LockInv'
  <2>1. proc[p].at = "opening" /\ lock = p /\ proc[p].owner \in Owners /\ holder' = NoHolder
        /\ UNCHANGED <<now, lock, starts, granted, torn, late>>
    BY <1>0, <1>9 DEF OpenHolder, At, NoFault, LockHeld, LockTyped, Owning, Using
  <2>2. proc'[p].at = "opened" /\ proc'[p].owner = proc[p].owner /\ proc'[p].note = proc[p].note
        /\ proc'[p].lease = proc[p].lease /\ \A q \in Procs \ {p} : proc'[q] = proc[q]
    BY <1>0, <1>9 DEF OpenHolder, ProcType
  <2>3. \A q \in Procs \ {p} : proc[q].at \notin Using
    BY <1>0, <2>1 DEF LockHeld, Using
  <2>4. LockHeld' /\ NotesRight'
    BY <1>0, <2>1, <2>2, <2>3 DEF LockHeld, NotesRight, Using
  <2>5. ClaimKept'
    <3> SUFFICES ASSUME ~torn, ~late PROVE ClaimKept'
      BY <2>1 DEF ClaimKept
    <3>1. ClaimHolds'
      BY <1>0, <2>1, <2>2 DEF ClaimKept, ClaimHolds, Using
    <3>2. ASSUME NEW w \in Owners, granted[w] > now
          PROVE  w = proc[p].owner /\ (proc[p].lease # 0 \/ proc[p].note.expires >= granted[w])
      <4>1. w = proc[p].owner
        BY <1>0, <2>1, <3>2 DEF ClaimKept, ClaimHolds, Using, LockTypeOK
      <4> QED BY <1>0, <2>1, <3>2, <4>1 DEF ClaimKept
    <3>3. \A w \in Owners : granted'[w] > now' =>
            \E q \in Procs : /\ proc'[q].at = "opened" /\ proc'[q].owner = w
                             /\ proc'[q].lease # 0 \/ proc'[q].note.expires >= granted'[w]
      BY <2>1, <2>2, <3>2
    <3> QED BY <2>2, <2>3, <3>1, <3>3 DEF ClaimKept, Using
  <2> QED BY <1>0, <2>4, <2>5 DEF LockInv
<1>10. ASSUME NEW p \in Procs, WriteHolder(p) PROVE LockInv'
  <2>1. proc[p].at \in {"opened", "unlinked"} /\ lock = p /\ proc[p].owner \in Owners
        /\ UNCHANGED <<now, lock, starts, torn, late>>
    BY <1>0, <1>10 DEF WriteHolder, NoFault, LockHeld, LockTyped, Owning, Using
  <2>2. PICK where \in {"running", "ending"} : Goes(p, where)
    BY <1>10 DEF WriteHolder
  <2>3. proc'[p].at = where /\ proc'[p].owner = proc[p].owner
        /\ \A q \in Procs \ {p} : proc'[q] = proc[q]
    BY <1>0, <2>2, GoesEffect
  <2>4. \A q \in Procs \ {p} : proc[q].at \notin Using
    BY <1>0, <2>1 DEF LockHeld, Using
  <2>5. LockHeld' /\ NotesRight'
    BY <1>0, <2>1, <2>2, <2>3, <2>4 DEF LockHeld, NotesRight, Using
  <2>6. ClaimKept'
    <3> SUFFICES ASSUME ~torn, ~late PROVE ClaimKept'
      BY <2>1 DEF ClaimKept
    <3>1. proc[p].at = "opened" /\ holder' = proc[p].note /\ proc[p].note.owner = proc[p].owner
          /\ holder = NoHolder
      BY <1>0, <1>10, <2>1 DEF NotesRight, WriteHolder, At
    <3>2. \A w \in Owners : w # proc[p].owner => granted'[w] = granted[w] /\ granted[w] <= now
      BY <1>0, <1>10, <2>1 DEF WriteHolder, LockTypeOK, ClaimKept, ClaimHolds, Using
    <3>3. granted'[proc[p].owner] > now => proc[p].note.expires >= granted'[proc[p].owner]
      <4>1. CASE proc[p].lease # 0
        <5>1. granted'[proc[p].owner] = proc[p].note.expires
          BY <1>0, <1>10, <2>1, <4>1 DEF WriteHolder, LockTypeOK
        <5> QED BY <1>0, <5>1, <2>1, ProcFields, HolderFields DEF LockTypeOK
      <4>2. CASE proc[p].lease = 0
        <5>1. granted' = granted
          BY <1>10, <4>2 DEF WriteHolder
        <5>2. ASSUME granted[proc[p].owner] > now
              PROVE  proc[p].note.expires >= granted[proc[p].owner]
          <6>1. holder.owner # proc[p].owner
            BY <2>1, <3>1, LockAssumption DEF NoHolder, LockAssumption
          <6>2. PICK q \in Procs : proc[q].at = "opened" /\ proc[q].owner = proc[p].owner
                  /\ (proc[q].lease # 0 \/ proc[q].note.expires >= granted[proc[p].owner])
            BY <1>0, <2>1, <5>2, <6>1 DEF ClaimKept
          <6>3. q = p
            BY <2>4, <6>2 DEF Using
          <6> QED BY <4>2, <6>2, <6>3
        <5> QED BY <5>1, <5>2
      <4> QED BY <4>1, <4>2
    <3>4. ClaimHolds'
      BY <2>1, <2>3, <2>4, <3>2 DEF ClaimHolds
    <3>5. \A w \in Owners : granted'[w] > now => holder'.owner = w /\ holder'.expires >= granted'[w]
      <4> TAKE w \in Owners
      <4>1. CASE w = proc[p].owner
        BY <3>1, <3>3, <4>1
      <4>2. CASE w # proc[p].owner
        BY <1>0, <3>2, <4>2 DEF LockTypeOK
      <4> QED BY <4>1, <4>2
    <3>6. \A q \in Procs : proc'[q].at # "opening"
      BY <2>2, <2>3, <2>4 DEF Using
    <3> QED BY <2>1, <3>4, <3>5, <3>6 DEF ClaimKept
  <2> QED BY <1>0, <2>5, <2>6 DEF LockInv
<1>11. ASSUME NEW p \in Procs, Release(p) PROVE LockInv'
  <2>1. Ends(p) /\ proc[p].at = "ending" /\ lock = p /\ lock' = NoProc
        /\ UNCHANGED <<now, granted, torn, late>>
        /\ (holder' = holder \/ (~IsLive(holder) /\ holder' = NoHolder))
    BY <1>0, <1>11 DEF Release, At, NoFault, LockHeld, Drops, IsDone, Using
  <2>2. proc'[p].at = "gone" /\ \A q \in Procs \ {p} : proc'[q] = proc[q]
    BY <1>0, <2>1, EndsEffect
  <2>3. \A q \in Procs : proc'[q].at \notin Using
    BY <1>0, <2>1, <2>2 DEF LockHeld, Using
  <2>4. LockHeld' /\ NotesRight'
    BY <1>0, <2>1, <2>2, <2>3 DEF LockHeld, NotesRight, Using
  <2>5. ClaimKept'
    <3> SUFFICES ASSUME ~torn, ~late PROVE ClaimKept'
      BY <2>1 DEF ClaimKept
    <3>1. ASSUME NEW w \in Owners, granted[w] > now
          PROVE  holder.owner = w /\ holder.expires >= granted[w]
      <4>1. \A q \in Procs : proc[q].at # "opened"
        BY <2>1, <2>2, <2>3 DEF Using
      <4> QED BY <1>0, <3>1, <4>1 DEF ClaimKept
    <3>2. ASSUME NEW w \in Owners, granted[w] > now PROVE holder' = holder
      BY <1>0, <2>1, <3>1, <3>2, HolderFields DEF IsLive, LockTypeOK
    <3> QED BY <2>1, <2>3, <3>1, <3>2 DEF ClaimKept, ClaimHolds, Using
  <2> QED BY <1>0, <2>4, <2>5 DEF LockInv
<1>12. ASSUME NEW p \in Procs, RemoveHolder(p) PROVE LockInv'
  <2>1. Ends(p) /\ proc[p].at = "removing" /\ lock # p /\ holder' = NoHolder
        /\ UNCHANGED <<now, lock, granted, torn>> /\ late' = (late \/ Regrets(p))
    BY <1>0, <1>12 DEF RemoveHolder, At, LockHeld, Using
  <2>2. proc'[p].at = "gone" /\ \A q \in Procs \ {p} : proc'[q] = proc[q]
    BY <1>0, <2>1, EndsEffect
  <2>3. LockHeld'
    BY <1>0, <2>1, <2>2 DEF LockHeld, Using
  <2>4. NotesRight'
    BY <1>0, <2>1, <2>2 DEF NotesRight
  <2>5. ClaimKept'
    <3> SUFFICES ASSUME ~torn, ~late, ~Regrets(p) PROVE ClaimKept'
      BY <2>1 DEF ClaimKept
    <3>1. ClaimHolds'
      BY <1>0, <2>1, <2>2 DEF ClaimKept, ClaimHolds, Using
    <3>2. \A q \in Procs : proc[q].at # "opened"
      BY <1>0, <1>12 DEF RemoveHolder, Opened, At, LockHeld, Using
    <3>3. ASSUME NEW w \in Owners PROVE granted[w] <= now
      <4> SUFFICES ASSUME granted[w] > now PROVE FALSE
        BY <1>0 DEF LockTypeOK
      <4>1. holder.owner = w /\ holder.expires >= granted[w]
        BY <1>0, <3>2 DEF ClaimKept
      <4> QED BY <1>0, <4>1, HolderFields DEF Regrets, IsLive, LockTypeOK
    <3>4. \A w \in Owners : ~(granted'[w] > now')
      BY <1>0, <2>1, <3>3 DEF LockTypeOK
    <3>5. \A q \in Procs : proc'[q].at = "opening" => proc'[q].owner \in Owners
      BY <1>0 DEF LockTyped, Owning, Using
    <3> QED BY <3>1, <3>4, <3>5 DEF ClaimKept
  <2> QED BY <1>0, <2>3, <2>4, <2>5 DEF LockInv
<1>13. ASSUME NEW p \in Procs, NEW q \in Procs, RemoveOpenHolder(p, q) PROVE LockInv'
  <2>1. proc[p].at = "removing" /\ proc[q].at = "opened" /\ lock = q /\ p # q /\ lock # p
        /\ UNCHANGED <<now, lock, holder, starts, granted, torn>>
    BY <1>0, <1>13 DEF RemoveOpenHolder, At, Opened
  <2>2. CASE Ends(p) /\ UNCHANGED late
    <3>1. proc'[p].at = "gone" /\ \A r \in Procs \ {p} : proc'[r] = proc[r]
      BY <1>0, <2>2, EndsEffect
    <3>2. LockHeld'
      BY <1>0, <2>1, <3>1 DEF LockHeld, Using
    <3> QED BY <1>0, <2>1, <2>2, <3>1, <3>2, QuietStep DEF Using
  <2>3. CASE proc' = [proc EXCEPT ![p] = Gone, ![q].at = "unlinked"] /\ late' = TRUE
    <3>1. proc'[p].at = "gone" /\ proc'[q].at = "unlinked"
          /\ proc'[q].owner = proc[q].owner /\ proc'[q].note = proc[q].note
          /\ \A r \in Procs \ {p, q} : proc'[r] = proc[r]
      BY <1>0, <2>1, <2>3 DEF ProcType, Gone
    <3>2. LockHeld' /\ NotesRight'
      BY <1>0, <2>1, <2>3, <3>1 DEF LockHeld, NotesRight, Using
    <3> QED BY <1>0, <2>3, <3>2 DEF LockInv, ClaimKept
  <2> QED BY <1>13, <2>2, <2>3 DEF RemoveOpenHolder
<1>14. ASSUME NEW p \in Procs, Kill(p) PROVE LockInv'
  <2>1. Ends(p) /\ UNCHANGED <<now, holder, starts, granted, late>>
        /\ torn' = (torn \/ proc[p].at = "opened")
        /\ lock' = (IF lock = p THEN NoProc ELSE lock)
    BY <1>14 DEF Kill, Drops, At
  <2>2. proc'[p].at = "gone" /\ \A q \in Procs \ {p} : proc'[q] = proc[q]
    BY <1>0, <2>1, EndsEffect
  <2>3. LockHeld' /\ NotesRight'
    BY <1>0, <2>1, <2>2 DEF LockHeld, NotesRight, Using
  <2>4. ClaimKept'
    <3> SUFFICES ASSUME ~torn, ~late, proc[p].at # "opened" PROVE ClaimKept'
      BY <2>1 DEF ClaimKept
    <3>1. ClaimHolds'
      BY <1>0, <2>1, <2>2 DEF ClaimKept, ClaimHolds, Using
    <3>2. \A q \in Procs : proc[q].at = "opened" => q # p
      OBVIOUS
    <3>3. \A q \in Procs : proc'[q].at = "opening" => q # p
      BY <2>2
    <3> QED BY <1>0, <2>1, <2>2, <3>1, <3>2, <3>3 DEF ClaimKept
  <2> QED BY <1>0, <2>3, <2>4 DEF LockInv
<1>15. CASE LockTick
  <2>1. now' = now + 1 /\ UNCHANGED <<lock, holder, proc, starts, granted, torn, late>>
    BY <1>15 DEF LockTick, NoFault
  <2>2. LockHeld' /\ NotesRight'
    BY <1>0, <2>1 DEF LockHeld, NotesRight
  <2>3. \A w \in Owners : granted'[w] > now' => granted[w] > now
    BY <1>0, <2>1 DEF LockTypeOK
  <2>4. ClaimKept'
    <3> SUFFICES ASSUME ~torn, ~late PROVE ClaimKept'
      BY <2>1 DEF ClaimKept
    <3>1. ClaimHolds'
      BY <1>0, <2>1 DEF ClaimKept, ClaimHolds, LockTypeOK
    <3>2. \A q \in Procs : proc[q].at = "opening" => proc[q].owner \in Owners
      BY <1>0 DEF LockTyped, Owning, Using
    <3> QED BY <1>0, <2>1, <2>3, <3>1, <3>2 DEF ClaimKept
  <2> QED BY <1>0, <2>2, <2>4 DEF LockInv
<1>16. CASE UNCHANGED lockVars
  BY <1>0, <1>16 DEF lockVars, LockInv, LockHeld, NotesRight, ClaimKept, ClaimHolds
<1> QED
  <2>1. ASSUME NEW p \in Procs, Proceed(p) PROVE LockInv'
    BY <2>1, <1>4, <1>5, <1>6, <1>7, <1>8, <1>9, <1>10, <1>11, <1>12, <1>13 DEF Proceed
  <2> QED BY <2>1, <1>1, <1>2, <1>3, <1>14, <1>15, <1>16 DEF LockNext

\* While an owner has a claim that it has not given back, nobody else's command
\* gets past the holder file.
THEOREM ClaimIsKept == LockSpec => []ClaimHolds
<1>1. LockInit => LockInv
  BY LockAssumption, LockInvInit
<1>2. LockInv /\ [LockNext]_lockVars => LockInv'
  BY LockAssumption, LockInvNext
<1>3. LockInv => ClaimHolds
  BY DEF LockInv, ClaimKept, ClaimHolds
<1> QED BY <1>1, <1>2, <1>3, PTL DEF LockSpec

-----------------------------------------------------------------------------
(* JobLock implements TreeClaim. *)

\* Who has the tree, and what the claim is, with and without a process past the
\* check of the holder file.
LEMMA SeenUser ==
  ASSUME LockInv, LockAssumption, NEW p \in Procs, proc[p].at \in Using
  PROVE  /\ lock = p /\ User = proc[p].owner /\ User \in Owners
         /\ Claim = IF proc[p].at = "opened" THEN proc[p].was ELSE holder
<1>1. lock = p /\ lock # NoProc
  BY DEF LockInv, LockHeld, LockAssumption
<1> QED BY <1>1 DEF User, Claim, At, LockInv, LockTyped, Owning

LEMMA SeenNobody ==
  ASSUME LockInv, \A q \in Procs : proc[q].at \notin Using
  PROVE  User = NoOwner /\ Claim = holder
<1>1. lock = NoProc \/ proc[lock].at \notin Using
  BY DEF LockInv, LockTyped, LockTypeOK
<1> QED BY <1>1 DEF User, Claim, At, Using

\* A process outside the tree changes nothing of that.
LEMMA Unseen ==
  ASSUME LockAssumption, LockInv, LockInv', NEW p \in Procs, holder' = holder,
         proc[p].at \notin Using, proc'[p].at \notin Using,
         \A q \in Procs \ {p} : proc'[q] = proc[q]
  PROVE  UNCHANGED <<User, Claim>>
<1>1. CASE \E q \in Procs : proc[q].at \in Using
  <2>1. PICK q \in Procs : proc[q].at \in Using
    BY <1>1
  <2>2. proc'[q] = proc[q] /\ lock = q /\ lock' = q /\ q # NoProc
    BY <2>1 DEF LockInv, LockHeld, LockAssumption
  <2> QED BY <2>1, <2>2 DEF User, Claim, At
<1>2. CASE \A q \in Procs : proc[q].at \notin Using
  <2>1. \A q \in Procs : proc'[q].at \notin Using
    BY <1>2
  <2>2. lock' = NoProc \/ proc'[lock'].at \notin Using
    BY <2>1 DEF LockInv, LockTyped, LockTypeOK
  <2>3. User' = NoOwner /\ Claim' = holder'
    BY <2>2 DEF User, Claim, At, Using
  <2> QED BY <1>2, <2>3, SeenNobody
<1> QED BY <1>1, <1>2

LEMMA FewerReleasing ==
  ASSUME NEW p \in Procs, proc'[p].at # "removing",
         \A q \in Procs \ {p} : proc'[q].at = "removing" => proc'[q] = proc[q]
  PROVE  Releasing' \subseteq Releasing
  BY DEF Releasing, At

LEMMA SameReleasing ==
  ASSUME NEW p \in Procs, proc[p].at # "removing", proc'[p].at # "removing",
         \A q \in Procs \ {p} : proc'[q] = proc[q]
  PROVE  Releasing' = Releasing
<1>1. Releasing' \subseteq Releasing
  BY FewerReleasing
<1>2. Releasing \subseteq Releasing'
  BY DEF Releasing, At
<1> QED BY <1>1, <1>2

LEMMA ClaimInitMaps == LockInit => Claimed!ClaimInit
  BY DEF LockInit, Claimed!ClaimInit, Claimed!NoClaim, User, Claim, Releasing, At,
       NoHolder, Gone

\* Every step of JobLock is a step of TreeClaim, or one it does not see.
LEMMA ClaimNextMaps ==
  LockAssumption /\ LockInv /\ LockInv' /\ [LockNext]_lockVars
    => [Claimed!ClaimNext]_(Claimed!cvars)
<1> SUFFICES ASSUME LockAssumption, LockInv, LockInv', [LockNext]_lockVars
             PROVE  Claimed!ClaimNext \/ UNCHANGED Claimed!cvars
  OBVIOUS
<1> USE DEF Claimed!cvars
<1>0. LockTyped /\ LockHeld /\ NotesRight /\ LockTyped' /\ LockHeld' /\ NotesRight'
      /\ NoProc \notin Procs /\ NoOwner \notin Owners
      /\ proc \in [Procs -> ProcType] /\ proc' \in [Procs -> ProcType]
      /\ now \in Nat /\ holder \in HolderType /\ torn \in BOOLEAN
  BY DEF LockInv, LockTyped, LockTypeOK, LockAssumption
<1>1. ASSUME NEW p \in Procs, UNCHANGED <<now, holder, torn, late>>,
             proc[p].at \notin Using \cup {"removing"}, proc'[p].at \notin Using \cup {"removing"},
             \A q \in Procs \ {p} : proc'[q] = proc[q]
      PROVE  UNCHANGED Claimed!cvars
  BY <1>1, Unseen, SameReleasing
<1>2. ASSUME NEW p \in Procs, NEW o \in Owners, NEW lease \in Leases, NEW wait \in Waits,
             Start(p, o, lease, wait)
      PROVE  UNCHANGED Claimed!cvars
  BY <1>0, <1>1, <1>2 DEF Start, At, Gone, NoFault, Using
<1>3. ASSUME NEW p \in Procs, Take(p) \/ Status(p) PROVE UNCHANGED Claimed!cvars
  <2>1. proc[p].at \in {"waiting", "gone"} /\ UNCHANGED <<now, holder, torn, late>>
    BY <1>3 DEF Take, Status, At, NoFault
  <2>2. PICK where \in {"checking", "status"} : Goes(p, where)
    BY <1>3 DEF Take, Status
  <2>3. proc'[p].at = where /\ \A q \in Procs \ {p} : proc'[q] = proc[q]
    BY <1>0, <2>2, GoesEffect
  <2> QED BY <1>1, <2>1, <2>2, <2>3 DEF Using
<1>4. ASSUME NEW p \in Procs, GiveUp(p) \/ Refuse(p) \/ StatusEnds(p)
      PROVE  UNCHANGED Claimed!cvars
  <2>1. Ends(p) /\ proc[p].at \in {"waiting", "checking", "status"}
        /\ UNCHANGED <<now, holder, torn, late>>
    BY <1>4 DEF GiveUp, Refuse, StatusEnds, At, NoFault
  <2>2. proc'[p].at = "gone" /\ \A q \in Procs \ {p} : proc'[q] = proc[q]
    BY <1>0, <2>1, EndsEffect
  <2> QED BY <1>1, <2>1, <2>2 DEF Using
<1>5. ASSUME NEW p \in Procs, NEW o \in Owners \cup {NoOwner}, ReleaseClaim(p, o)
      PROVE  Claimed!AskBack
  <2>1. proc[p].at = "gone" /\ proc'[p].at = "removing" /\ proc'[p].was = holder
        /\ holder # NoHolder /\ UNCHANGED <<now, lock, holder, torn, late>>
        /\ \A q \in Procs \ {p} : proc'[q] = proc[q]
    BY <1>0, <1>5 DEF ReleaseClaim, At, Gone, NoFault
  <2>2. UNCHANGED <<User, Claim>>
    BY <2>1, Unseen DEF Using
  <2>3. Claim = holder
    BY <1>0, <2>1 DEF Claim, At, NotesRight, LockTyped, LockTypeOK
  <2>4. Releasing' = Releasing \cup {Claim}
    <3>1. Releasing' \subseteq Releasing \cup {Claim}
      BY <2>1, <2>3 DEF Releasing, At
    <3>2. Releasing \cup {Claim} \subseteq Releasing'
      BY <2>1, <2>3 DEF Releasing, At
    <3> QED BY <3>1, <3>2
  <2> QED BY <2>1, <2>2, <2>4 DEF Claimed!AskBack
<1>6. ASSUME NEW p \in Procs, Enter(p)
      PROVE  Claimed!Begin(proc[p].owner) /\ proc[p].owner \in Owners
  <2>1. Goes(p, "deciding") /\ proc[p].at = "checking" /\ ~Barred(p) /\ lock = p
        /\ UNCHANGED <<now, lock, holder, torn, late>>
    BY <1>0, <1>6 DEF Enter, At, NoFault, LockHeld
  <2>2. proc'[p].at = "deciding" /\ proc'[p].owner = proc[p].owner
        /\ \A q \in Procs \ {p} : proc'[q] = proc[q]
    BY <1>0, <2>1, GoesEffect
  <2>3. proc[p].owner \in Owners
    BY <1>0, <2>1 DEF LockTyped, Owning
  <2>4. User = NoOwner /\ Claim = holder
    BY <1>0, <2>1, SeenNobody DEF LockHeld, Using
  <2>5. User' = proc[p].owner /\ Claim' = holder
    BY <1>0, <2>1, <2>2 DEF User, Claim, At, Using
  <2>6. Releasing' = Releasing
    BY <2>1, <2>2, SameReleasing
  <2>7. Claimed!Stands(Claim) => Claim.owner = proc[p].owner
    BY <2>1, <2>4 DEF Barred, IsLive, Claimed!Stands
  <2> QED BY <2>1, <2>3, <2>4, <2>5, <2>6, <2>7 DEF Claimed!Begin
<1>7. ASSUME NEW p \in Procs, Decide(p) \/ CommandEnds(p) PROVE UNCHANGED Claimed!cvars
  <2>1. proc[p].at \in {"deciding", "running"} /\ proc'[p].at \in {"opening", "ending"}
        /\ proc'[p].owner = proc[p].owner /\ UNCHANGED <<now, lock, holder, torn, late>>
        /\ \A q \in Procs \ {p} : proc'[q] = proc[q]
    <3>1. CASE Decide(p)
      BY <1>0, <3>1 DEF Decide, At, NoFault, ProcType
    <3>2. CASE CommandEnds(p)
      BY <1>0, <3>2, GoesEffect DEF CommandEnds, At, NoFault
    <3> QED BY <1>7, <3>1, <3>2
  <2>2. lock = p /\ User = proc[p].owner /\ Claim = holder
    BY <2>1, SeenUser DEF Using
  <2>3. User' = User /\ Claim' = Claim
    BY <1>0, <2>1, <2>2 DEF User, Claim, At, Using
  <2>4. Releasing' = Releasing
    BY <2>1, SameReleasing
  <2> QED BY <2>1, <2>3, <2>4
<1>8. ASSUME NEW p \in Procs, OpenHolder(p) PROVE UNCHANGED Claimed!cvars
  <2>1. proc[p].at = "opening" /\ UNCHANGED <<now, lock, torn, late>>
    BY <1>8 DEF OpenHolder, At, NoFault
  <2>2. proc'[p].at = "opened" /\ proc'[p].owner = proc[p].owner /\ proc'[p].was = holder
        /\ \A q \in Procs \ {p} : proc'[q] = proc[q]
    BY <1>0, <1>8 DEF OpenHolder, ProcType
  <2>3. User' = User /\ Claim' = Claim
    BY <1>0, <2>1, <2>2, SeenUser DEF User, Claim, At, Using
  <2> QED BY <2>1, <2>2, <2>3, SameReleasing
<1>9. ASSUME NEW p \in Procs, WriteHolder(p)
      PROVE  (Claimed!Note(proc[p].owner) /\ proc[p].owner \in Owners) \/ UNCHANGED Claimed!cvars
  <2>1. proc[p].at \in {"opened", "unlinked"} /\ UNCHANGED <<now, lock, torn, late>>
    BY <1>9 DEF WriteHolder, NoFault
  <2>2. PICK where \in {"running", "ending"} : Goes(p, where)
    BY <1>9 DEF WriteHolder
  <2>3. proc'[p].at = where /\ proc'[p].owner = proc[p].owner
        /\ \A q \in Procs \ {p} : proc'[q] = proc[q]
    BY <1>0, <2>2, GoesEffect
  <2>4. lock = p /\ User = proc[p].owner /\ User \in Owners
        /\ Claim = IF proc[p].at = "opened" THEN proc[p].was ELSE holder
    BY <2>1, SeenUser DEF Using
  <2>5. User' = User /\ Claim' = holder' /\ Releasing' = Releasing
    <3>1. Releasing' = Releasing
      BY <2>1, <2>3, SameReleasing
    <3> QED BY <1>0, <2>1, <2>2, <2>3, <2>4, <3>1 DEF User, Claim, At, Using
  <2>6. CASE proc[p].at = "opened"
    <3>1. holder' = proc[p].note /\ proc[p].note.owner = proc[p].owner
          /\ proc[p].note \in HolderType
      BY <1>0, <1>9, <2>6, ProcFields DEF WriteHolder, At, NotesRight
    <3>2. proc[p].note \in [owner : {proc[p].owner}, expires : Nat]
      BY <1>0, <2>4, <3>1 DEF HolderType, NoHolder
    <3> QED BY <2>1, <2>4, <2>5, <3>1, <3>2 DEF Claimed!Note
  <2>7. CASE proc[p].at = "unlinked"
    <3>1. holder' = holder /\ Claim = holder
      BY <1>9, <2>4, <2>7 DEF WriteHolder, At
    <3> QED BY <2>1, <2>5, <3>1
  <2> QED BY <2>1, <2>6, <2>7
<1>10. ASSUME NEW p \in Procs, Release(p) PROVE Claimed!End
  <2>1. Ends(p) /\ proc[p].at = "ending" /\ UNCHANGED <<now, torn, late>>
        /\ (holder' = holder \/ (~IsLive(holder) /\ holder' = NoHolder))
    BY <1>10 DEF Release, At, NoFault, IsDone
  <2>2. lock = p /\ User \in Owners /\ Claim = holder
    BY <2>1, SeenUser DEF Using
  <2>3. lock' = NoProc
    BY <1>10, <2>2 DEF Release, Drops
  <2>4. proc'[p].at = "gone" /\ \A q \in Procs \ {p} : proc'[q] = proc[q]
    BY <1>0, <2>1, EndsEffect
  <2>5. User' = NoOwner /\ Claim' = holder' /\ Releasing' = Releasing
    BY <2>1, <2>3, <2>4, SameReleasing DEF User, Claim
  <2> QED BY <1>0, <2>1, <2>2, <2>5 DEF Claimed!End, Claimed!Stands, Claimed!NoClaim,
                                        IsLive, NoHolder
<1>11. ASSUME NEW p \in Procs, RemoveHolder(p) PROVE Claimed!GiveBack \/ Claimed!Lose
  <2>1. Ends(p) /\ proc[p].at = "removing" /\ holder' = NoHolder
        /\ UNCHANGED <<now, lock, granted, torn>> /\ late' = (late \/ Regrets(p))
        /\ \A q \in Procs : ~Opened(q)
    BY <1>11 DEF RemoveHolder, At
  <2>2. proc'[p].at = "gone" /\ \A q \in Procs \ {p} : proc'[q] = proc[q]
    BY <1>0, <2>1, EndsEffect
  <2>3. User' = User /\ Claim = holder /\ Claim' = NoHolder
    <3>1. p # lock
      BY <1>0, <2>1 DEF LockHeld, Using
    <3>2. lock = NoProc \/ lock \in Procs
      BY <1>0 DEF LockTyped, LockTypeOK
    <3>3. lock \in Procs => proc'[lock] = proc[lock] /\ proc[lock].at # "opened"
      BY <2>1, <2>2, <3>1 DEF Opened, At
    <3> QED BY <2>1, <3>2, <3>3 DEF User, Claim, At
  <2>4. Releasing' \subseteq Releasing /\ proc[p].was \in Releasing
    BY <2>1, <2>2, FewerReleasing DEF Releasing, At
  <2>5. CASE Regrets(p)
    BY <2>1, <2>3, <2>4, <2>5 DEF Claimed!Lose, Claimed!NoClaim, NoHolder
  <2>6. CASE ~Regrets(p)
    <3>1. holder = proc[p].was \/ ~IsLive(holder)
      BY <2>6 DEF Regrets
    <3> QED BY <2>1, <2>3, <2>4, <2>6, <3>1
            DEF Claimed!GiveBack, Claimed!Stands, Claimed!NoClaim, NoHolder, IsLive
  <2> QED BY <2>5, <2>6
<1>12. ASSUME NEW p \in Procs, NEW q \in Procs, RemoveOpenHolder(p, q)
       PROVE  Claimed!LeaveIt \/ Claimed!Lose
  <2>1. proc[p].at = "removing" /\ proc[q].at = "opened" /\ lock = q /\ p # q
        /\ UNCHANGED <<now, lock, holder, torn>> /\ holder = NoHolder
    BY <1>0, <1>12 DEF RemoveOpenHolder, At, Opened, NotesRight
  <2>2. CASE Ends(p) /\ UNCHANGED late
    <3>1. proc'[p].at = "gone" /\ \A r \in Procs \ {p} : proc'[r] = proc[r]
      BY <1>0, <2>2, EndsEffect
    <3>2. UNCHANGED <<User, Claim>> /\ Releasing' \subseteq Releasing
      BY <2>1, <3>1, Unseen, FewerReleasing DEF Using
    <3> QED BY <2>1, <2>2, <3>2 DEF Claimed!LeaveIt
  <2>3. CASE proc' = [proc EXCEPT ![p] = Gone, ![q].at = "unlinked"] /\ late' = TRUE
    <3>1. proc'[p].at = "gone" /\ proc'[q].at = "unlinked" /\ proc'[q].owner = proc[q].owner
          /\ \A r \in Procs \ {p, q} : proc'[r] = proc[r]
      BY <1>0, <2>1, <2>3 DEF ProcType, Gone
    <3>2. User' = User /\ Claim' = NoHolder
      BY <1>0, <2>1, <3>1 DEF User, Claim, At, Using
    <3>3. Releasing' \subseteq Releasing
      BY <3>1, FewerReleasing
    <3> QED BY <2>1, <2>3, <3>2, <3>3 DEF Claimed!Lose, Claimed!NoClaim, NoHolder
  <2> QED BY <1>12, <2>2, <2>3 DEF RemoveOpenHolder
<1>13. ASSUME NEW p \in Procs, Kill(p)
       PROVE  Claimed!LeaveIt \/ Claimed!End \/ Claimed!Lose
  <2>1. Ends(p) /\ UNCHANGED <<now, holder, late>> /\ torn' = (torn \/ proc[p].at = "opened")
        /\ lock' = (IF lock = p THEN NoProc ELSE lock)
    BY <1>13 DEF Kill, Drops, At
  <2>2. proc'[p].at = "gone" /\ \A q \in Procs \ {p} : proc'[q] = proc[q]
    BY <1>0, <2>1, EndsEffect
  <2>3. Releasing' \subseteq Releasing
    BY <2>2, FewerReleasing
  <2>4. CASE proc[p].at \in Using
    <3>1. lock = p /\ User \in Owners
          /\ Claim = IF proc[p].at = "opened" THEN proc[p].was ELSE holder
      BY <2>4, SeenUser
    <3>2. User' = NoOwner /\ Claim' = holder
      BY <2>1, <3>1 DEF User, Claim
    <3>3. CASE proc[p].at = "opened"
      BY <1>0, <2>1, <2>3, <3>2, <3>3 DEF NotesRight, Claimed!Lose, Claimed!NoClaim, NoHolder
    <3>4. CASE proc[p].at # "opened"
      <4>1. Releasing' = Releasing
        BY <2>2, <2>4, SameReleasing DEF Using
      <4> QED BY <1>0, <2>1, <3>1, <3>2, <3>4, <4>1 DEF Claimed!End
    <3> QED BY <3>3, <3>4
  <2>5. CASE proc[p].at \notin Using
    <3>1. UNCHANGED <<User, Claim>>
      BY <2>1, <2>2, <2>5, Unseen DEF Using
    <3>2. torn' = torn
      BY <1>0, <2>1, <2>5 DEF Using
    <3> QED BY <2>1, <2>3, <3>1, <3>2 DEF Claimed!LeaveIt
  <2> QED BY <2>4, <2>5
<1>14. ASSUME LockTick PROVE Claimed!ClockRuns
  BY <1>14 DEF LockTick, NoFault, Claimed!ClockRuns, User, Claim, Releasing, At
<1>15. CASE UNCHANGED lockVars
  BY <1>15 DEF lockVars, User, Claim, Releasing, At
<1> QED
  <2>1. ASSUME NEW p \in Procs, Proceed(p) PROVE Claimed!ClaimNext \/ UNCHANGED Claimed!cvars
    BY <2>1, <1>3, <1>4, <1>6, <1>7, <1>8, <1>9, <1>10, <1>11, <1>12
       DEF Proceed, Claimed!ClaimNext
  <2>2. ASSUME NEW p \in Procs,
               \/ \E o \in Owners, lease \in Leases, wait \in Waits : Start(p, o, lease, wait)
               \/ \E o \in Owners \cup {NoOwner} : ReleaseClaim(p, o)
               \/ Status(p) \/ Kill(p)
        PROVE  Claimed!ClaimNext \/ UNCHANGED Claimed!cvars
    <3>1. CASE Status(p)
      BY <1>3, <3>1
    <3>2. CASE Kill(p)
      BY <1>13, <3>2 DEF Claimed!ClaimNext
    <3>3. CASE \E o \in Owners \cup {NoOwner} : ReleaseClaim(p, o)
      BY <1>5, <3>3 DEF Claimed!ClaimNext
    <3>4. CASE \E o \in Owners, lease \in Leases, wait \in Waits : Start(p, o, lease, wait)
      BY <1>2, <3>4
    <3> QED BY <2>2, <3>1, <3>2, <3>3, <3>4
  <2>3. CASE LockTick
    BY <1>14, <2>3 DEF Claimed!ClaimNext
  <2>4. CASE \E p \in Procs : Proceed(p)
    BY <2>1, <2>4
  <2> HIDE DEF Claimed!cvars
  <2> QED BY <2>2, <2>3, <2>4, <1>15 DEF LockNext

\* The files of joblock.py keep what TreeClaim promises of the tree.
THEOREM JobLockImplementsTreeClaim == LockSpec => ImplementsClaim
<1>1. LockInit => LockInv
  BY LockAssumption, LockInvInit
<1>2. LockInv /\ [LockNext]_lockVars => LockInv'
  BY LockAssumption, LockInvNext
<1>3. LockInit => Claimed!ClaimInit
  BY ClaimInitMaps
<1>4. LockInv /\ LockInv' /\ [LockNext]_lockVars => [Claimed!ClaimNext]_(Claimed!cvars)
  BY LockAssumption, ClaimNextMaps
<1> QED BY <1>1, <1>2, <1>3, <1>4, PTL DEF LockSpec, ImplementsClaim, Claimed!ClaimSpec

-----------------------------------------------------------------------------
(* The tree: clean_tree.py, apply.py, rebrand.py and pristine.py *)

Tools == {"none", "apply", "restore", "clean"}
Undoable ==
  {x \in Branches \X (1..MaxSeries) \X Substituted :
     x[2] <= Len(Series[x[1]]) /\ x[3] \in Touched(Series[x[1]][x[2]])}
JobType ==
  [tool : Tools, branch : Branches \cup {NoBranch}, at : Ats, left : SUBSET Files,
   n : Nat, pass : {0, 1}, again : BOOLEAN, trees : SUBSET Branches,
   untried : SUBSET Undoable, undone : SUBSET Undoable,
   unsure : SUBSET Files, hidden : SUBSET Files]
LastType == [tool : Tools, branch : Branches \cup {NoBranch}, well : BOOLEAN,
             unsure : SUBSET Files, hidden : SUBSET Files]

\* A file holds a whole text, in the tree and in the store, or is not there.
TextsWhole ==
  /\ DOMAIN tree = Files /\ \A f \in Files : IsText(tree[f])
  /\ DOMAIN store = Files /\ \A f \in Files : IsText(store[f])

\* A tool that runs works for a branch, on one of its patches or past the last; what
\* it has left to overlay is of the branch.
JobTyped ==
  /\ job \in JobType
  /\ job.tool # "none" => job.branch \in Branches /\ job.n # 0
  /\ job.at = "overlay" => job.left \subseteq OverlayFiles(job.branch)

NotesTyped ==
  /\ boring \in Branches \cup {NoBranch} /\ ready \in Branches \cup {NoBranch}
  /\ runs \in 0..MaxRuns /\ spoilt \in BOOLEAN
  /\ last \in LastType

TreeInv == TextsWhole /\ JobTyped /\ NotesTyped

LEMMA NoJobTyped ==
  NoJob \in JobType /\ NoJob.tool = "none" /\ NoJob.at = "none"
BY DEF NoJob, JobType, Tools, Ats

\* A file that is there holds something at every place.
LEMMA AbsentHasNothing ==
  /\ DOMAIN Absent = {} /\ \A text : DOMAIN text = Places => text # Absent
  /\ \A text : IsText(text) /\ text # Absent =>
       DOMAIN text = Places /\ text = [s \in Places |-> text[s]]
BY TreeAssumption DEF Absent, IsText

LEMMA WholeTexts ==
  IsText(Absent) /\ IsText(Unreadable) /\ IsText(Rebranded)
BY DEF IsText, Unreadable, Rebranded

LEMMA TreeInvInit == TreeInit => TreeInv
<1> SUFFICES ASSUME TreeInit PROVE TreeInv
  OBVIOUS
<1>1. TextsWhole
  BY TreeAssumption, WholeTexts DEF TreeInit, TextsWhole
<1>2. JobTyped
  BY NoJobTyped DEF TreeInit, JobTyped
<1>3. NotesTyped
  <2>1. Ended \in LastType
    BY DEF Ended, LastType, Tools
  <2>2. 0 \in 0..MaxRuns
    BY TreeAssumption
  <2> QED
    BY <2>1, <2>2 DEF TreeInit, NotesTyped
<1> QED
  BY <1>1, <1>2, <1>3 DEF TreeInv

\* A patch that goes on leaves a whole text, and so does one that is taken off.
LEMMA EditedOn ==
  ASSUME NEW patch, IsPatch(patch), NEW f \in Touched(patch), NEW text, IsText(text),
         Holds(text, patch[f].from)
  PROVE  IsText(Edited(text, patch[f].to))
BY AbsentHasNothing DEF IsPatch, IsText, Holds, Edited

LEMMA EditedOff ==
  ASSUME NEW patch, IsPatch(patch), NEW f \in Touched(patch), NEW text, IsText(text),
         Holds(text, patch[f].to)
  PROVE  IsText(Edited(text, patch[f].from))
BY AbsentHasNothing DEF IsPatch, IsText, Holds, Edited

LEMMA TextChanges ==
  ASSUME TextsWhole, UNCHANGED store,
         DOMAIN tree' = Files, \A f \in Files : IsText(tree'[f])
  PROVE  TextsWhole'
BY DEF TextsWhole

LEMMA OneTextChanges ==
  ASSUME TextsWhole, UNCHANGED store, NEW f, NEW text, IsText(text),
         tree' = [tree EXCEPT ![f] = text]
  PROVE  TextsWhole'
BY DEF TextsWhole

LEMMA PutBackWhole == ASSUME TextsWhole, UNCHANGED store, NEW fs, PutBack(fs) PROVE TextsWhole'
BY DEF TextsWhole, PutBack

\* What the job does of its own.
LEMMA JobMoves ==
  ASSUME JobTyped, job.tool # "none", NEW at \in Ats, NEW fs \in SUBSET Files, MovesTo(at, fs),
         at = "overlay" => fs \subseteq OverlayFiles(job.branch)
  PROVE  JobTyped'
<1>1. job' \in JobType
  BY DEF JobTyped, JobType, MovesTo
<1>2. job'.tool = job.tool /\ job'.branch = job.branch /\ job'.n = 1 /\ job'.at = at /\ job'.left = fs
  BY DEF JobTyped, JobType, MovesTo
<1> QED
  BY <1>1, <1>2 DEF JobTyped

LEMMA JobTakesNext == ASSUME JobTyped, job.tool # "none", NextPatch PROVE JobTyped'
<1>1. job' \in JobType
  BY DEF JobTyped, JobType, NextPatch
<1>2. job'.tool = job.tool /\ job'.branch = job.branch /\ job'.n = job.n + 1
      /\ job'.at = job.at /\ job'.left = job.left /\ job.n \in Nat
  BY DEF JobTyped, JobType, NextPatch
<1> QED
  BY <1>1, <1>2 DEF JobTyped

LEMMA JobDoes == ASSUME JobTyped, NEW f, job' = [job EXCEPT !.left = @ \ {f}] PROVE JobTyped'
<1>1. job' \in JobType
  BY DEF JobTyped, JobType
<1>2. job'.tool = job.tool /\ job'.branch = job.branch /\ job'.n = job.n
      /\ job'.at = job.at /\ job'.left = job.left \ {f}
  BY DEF JobTyped, JobType
<1> QED
  BY <1>1, <1>2 DEF JobTyped

LEMMA JobFinishes ==
  ASSUME JobTyped, NotesTyped, NEW well \in BOOLEAN, NEW b \in Branches \cup {NoBranch},
         Finishes(well, b), UNCHANGED <<runs, spoilt>>, boring' \in Branches \cup {NoBranch}
  PROVE  JobTyped' /\ NotesTyped'
<1>1. JobTyped'
  BY NoJobTyped DEF Finishes, JobTyped
<1>2. last' \in LastType
  BY DEF Finishes, LastType, JobTyped, JobType
<1> QED
  BY <1>1, <1>2 DEF NotesTyped, Finishes

LEMMA JobBegins ==
  ASSUME TreeInv, NEW tool \in Tools, NEW b \in Branches, NEW at \in Ats, at # "overlay",
         NEW fs \in SUBSET Files, Begins(tool, b, at, fs)
  PROVE  TreeInv'
<1> USE DEF TreeInv
<1>1. TextsWhole'
  BY DEF Begins, TextsWhole
<1>2. NotesTyped'
  BY TreeAssumption DEF Begins, NotesTyped, LastType, Ended, Tools
<1>3. JobTyped'
  <2> DEFINE s == IF tool = "apply" THEN last.unsure ELSE {}
             h == IF tool # "clean" THEN last.hidden ELSE {}
  <2>1. s \in SUBSET Files /\ h \in SUBSET Files
    BY DEF NotesTyped, LastType
  <2>2. job' = [NoJob EXCEPT !.tool = tool, !.branch = b, !.at = at, !.left = fs, !.n = 1,
                               !.unsure = s, !.hidden = h]
    BY DEF Begins
  <2> HIDE DEF s, h
  <2>3. job' = [tool |-> tool, branch |-> b, at |-> at, left |-> fs, n |-> 1, pass |-> 0,
                again |-> FALSE, trees |-> {}, untried |-> {}, undone |-> {},
                unsure |-> s, hidden |-> h]
    BY <2>2 DEF NoJob
  <2>4. job' \in JobType
    BY <2>1, <2>3 DEF JobType
  <2> QED
    BY <2>3, <2>4 DEF JobTyped
<1> QED
  BY <1>1, <1>2, <1>3

\* The sequel of Begins: nothing of the notes but `boring' can change.
LEMMA NotesStay == ASSUME NotesTyped, GoesOn PROVE NotesTyped'
BY DEF NotesTyped, GoesOn

LEMMA PatchOfSeries ==
  ASSUME JobTyped, NEW n \in Nat, n # 0, job.tool # "none", n <= Len(Series[job.branch])
  PROVE  IsPatch(Series[job.branch][n])
BY TreeAssumption DEF JobTyped

LEMMA WorksForBranch ==
  ASSUME JobTyped, NEW tool, NEW at, InTool(tool, at), tool # "none"
  PROVE  job.tool # "none" /\ job.branch \in Branches /\ job.n \in Nat /\ job.n # 0
BY DEF JobTyped, JobType, InTool

LEMMA SyncKeeps == ASSUME TreeInv, Sync PROVE TreeInv'
<1> USE DEF TreeInv
<1>1. job.tool # "none" /\ job.branch \in Branches
  BY WorksForBranch DEF Sync
<1>2. TextsWhole'
  BY DEF Sync, TextsWhole
<1>3. CASE boring' = job.branch /\ MovesTo("overlay", OverlayFiles(job.branch)) /\ UNCHANGED <<ready, last>>
  <2>1. OverlayFiles(job.branch) \subseteq Files /\ "overlay" \in Ats
    BY <1>1, TreeAssumption DEF Ats
  <2>2. JobTyped'
    BY <1>1, <1>3, <2>1, JobMoves
  <2>3. NotesTyped'
    BY <1>1, <1>3 DEF Sync, NotesTyped
  <2> QED
    BY <1>2, <2>2, <2>3
<1>4. CASE UNCHANGED boring /\ Finishes(FALSE, NoBranch)
  <2>1. boring' \in Branches \cup {NoBranch}
    BY <1>4 DEF NotesTyped
  <2> QED
    BY <1>2, <1>4, <2>1, JobFinishes DEF Sync
<1> QED
  BY <1>3, <1>4 DEF Sync

LEMMA SnapshotKeeps == ASSUME TreeInv, NEW f \in Files, Snapshot(f) PROVE TreeInv'
<1>1. TextsWhole'
  BY DEF TreeInv, TextsWhole, Snapshot
<1>2. JobTyped' /\ NotesTyped'
  BY DEF TreeInv, JobTyped, NotesTyped, Snapshot
<1> QED
  BY <1>1, <1>2 DEF TreeInv

LEMMA OverlayFileKeeps == ASSUME TreeInv, NEW f \in Files, OverlayFile(f) PROVE TreeInv'
<1> USE DEF TreeInv
<1>1. job.branch \in Branches /\ f \in OverlayFiles(job.branch)
  BY WorksForBranch DEF OverlayFile, JobTyped, InTool
<1>2. IsText(Overlay[job.branch][f])
  BY <1>1, TreeAssumption
<1>3. TextsWhole'
  BY <1>2, OneTextChanges DEF OverlayFile
<1>4. JobTyped' /\ NotesTyped'
  BY JobDoes, NotesStay DEF OverlayFile
<1> QED
  BY <1>3, <1>4

LEMMA PatchKeeps ==
  ASSUME TreeInv, AlreadyApplied \/ ApplyPatch \/ Rewind \/ FailToApply PROVE TreeInv'
<1> USE DEF TreeInv
<1>1. Patching
  BY DEF AlreadyApplied, ApplyPatch, Rewind, FailToApply, Stuck
<1>2. job.tool # "none" /\ job.branch \in Branches /\ job.n \in Nat /\ job.n # 0 /\ IsPatch(Patch)
  BY <1>1, WorksForBranch, PatchOfSeries DEF Patching, Patch
<1>3. CASE AlreadyApplied
  <2>1. TextsWhole'
    BY <1>3 DEF AlreadyApplied, TextsWhole
  <2> QED
    BY <1>2, <1>3, <2>1, JobTakesNext, NotesStay DEF AlreadyApplied
<1>4. CASE ApplyPatch
  <2>1. Fits(tree, Patch, Touched(Patch)) /\ tree' = Apply(tree, Patch, Touched(Patch))
    BY <1>4 DEF ApplyPatch
  <2>2. \A f \in Files : f \in Touched(Patch) => IsText(Edited(tree[f], Patch[f].to))
    BY <1>2, <2>1, EditedOn DEF Fits, TextsWhole
  <2>3. DOMAIN tree' = Files /\ \A f \in Files : IsText(tree'[f])
    BY <2>1, <2>2 DEF Apply, TextsWhole
  <2>4. TextsWhole'
    BY <1>4, <2>3, TextChanges DEF ApplyPatch
  <2> QED
    BY <1>2, <1>4, <2>4, JobTakesNext, NotesStay DEF ApplyPatch
<1>5. CASE Rewind
  <2>1. TextsWhole'
    BY <1>5, PutBackWhole DEF Rewind
  <2>2. job' = [job EXCEPT !.n = @ + 1, !.again = TRUE]
    BY <1>5 DEF Rewind
  <2>3. job' \in JobType
    <3>1. job \in JobType /\ job.n + 1 \in Nat
      BY <1>2 DEF JobTyped
    <3> QED
      BY <2>2, <3>1 DEF JobType
  <2>4. /\ job'.tool = job.tool /\ job'.branch = job.branch /\ job'.n = job.n + 1
        /\ job'.at = job.at /\ job'.left = job.left
    BY <2>2 DEF JobTyped, JobType
  <2>5. JobTyped'
    BY <1>2, <2>3, <2>4 DEF JobTyped
  <2> QED
    BY <1>5, <2>1, <2>5, NotesStay DEF Rewind
<1>6. CASE FailToApply
  <2>1. TextsWhole' /\ boring' \in Branches \cup {NoBranch}
    BY <1>6 DEF FailToApply, TextsWhole, NotesTyped
  <2> QED
    BY <1>6, <2>1, JobFinishes DEF FailToApply
<1> QED
  BY <1>3, <1>4, <1>5, <1>6

LEMMA PatchesEndKeeps == ASSUME TreeInv, PatchesEnd PROVE TreeInv'
<1> USE DEF TreeInv
<1>1. job.tool # "none" /\ job.branch \in Branches
  BY WorksForBranch DEF PatchesEnd
<1>2. TextsWhole' /\ NotesTyped'
  BY NotesStay DEF PatchesEnd, TextsWhole
<1>3. CASE job' = [job EXCEPT !.pass = 1, !.n = 1, !.again = FALSE]
  <2>1. job' \in JobType
    BY <1>3 DEF JobTyped, JobType
  <2>2. /\ job'.tool = job.tool /\ job'.branch = job.branch /\ job'.n = 1
        /\ job'.at = job.at /\ job'.left = job.left
    BY <1>3 DEF JobTyped, JobType
  <2>3. JobTyped'
    BY <1>1, <2>1, <2>2 DEF JobTyped
  <2> QED
    BY <1>2, <2>3
<1>4. CASE MovesTo("rebrand", Branded)
  <2>1. "rebrand" \in Ats /\ Branded \subseteq Files /\ "rebrand" # "overlay"
    BY TreeAssumption DEF Ats
  <2> QED
    BY <1>1, <1>2, <1>4, <2>1, JobMoves
<1> QED
  BY <1>3, <1>4 DEF PatchesEnd

LEMMA RebrandKeeps == ASSUME TreeInv, NEW f \in Files, Rebrand(f) PROVE TreeInv'
<1> USE DEF TreeInv
<1>1. CASE store[f] # Unreadable
  <2>1. TextsWhole'
    BY <1>1, WholeTexts, OneTextChanges DEF Rebrand
  <2>2. JobTyped' /\ NotesTyped'
    BY <1>1, JobDoes, NotesStay DEF Rebrand, GoesOn
  <2> QED
    BY <2>1, <2>2
<1>2. CASE store[f] = Unreadable
  <2>1. TextsWhole' /\ boring' \in Branches \cup {NoBranch}
    BY <1>2 DEF Rebrand, TextsWhole, NotesTyped
  <2> QED
    BY <1>2, <2>1, JobFinishes DEF Rebrand
<1> QED
  BY <1>1, <1>2

LEMMA EndsKeep ==
  ASSUME TreeInv, ApplyEnds \/ RestoreEnds \/ CleanEnds PROVE TreeInv'
<1> USE DEF TreeInv
<1>1. /\ TextsWhole' /\ boring' \in Branches \cup {NoBranch}
      /\ job.branch \in Branches \cup {NoBranch}
  BY DEF ApplyEnds, RestoreEnds, CleanEnds, TextsWhole, NotesTyped, JobTyped, JobType
<1>2. (Finishes(TRUE, NoBranch) \/ Finishes(TRUE, job.branch)) /\ UNCHANGED <<runs, spoilt>>
  BY DEF ApplyEnds, RestoreEnds, CleanEnds
<1> QED
  BY <1>1, <1>2, JobFinishes

LEMMA ReversePatchKeeps == ASSUME TreeInv, ReversePatch PROVE TreeInv'
<1> USE DEF TreeInv
<1>1. /\ job.tool # "none" /\ job.branch \in Branches /\ job.n \in Nat /\ job.n # 0
      /\ job.n <= Len(Series[job.branch])
  BY WorksForBranch DEF ReversePatch
<1> DEFINE n == Len(Series[job.branch]) + 1 - job.n
<1>2. n \in Nat /\ n # 0 /\ n <= Len(Series[job.branch])
  <2>1. Len(Series[job.branch]) \in Nat
    BY <1>1, TreeAssumption
  <2> QED
    BY <1>1, <2>1
<1>3. IsPatch(NewestFirst)
  <2> HIDE DEF n
  <2>1. IsPatch(Series[job.branch][n])
    BY <1>1, <1>2, PatchOfSeries
  <2> QED
    BY <2>1 DEF NewestFirst, n
<1>4. TextsWhole'
  <2> DEFINE P == NewestFirst
  <2>1. tree' = IF IsIn(tree, P, Touched(P)) THEN Reverse(tree, P, Touched(P)) ELSE tree
    BY DEF ReversePatch
  <2>2. IsPatch(P)
    BY <1>3
  <2> HIDE DEF P
  <2>3. \A f \in Files : IsIn(tree, P, Touched(P)) /\ f \in Touched(P) =>
          IsText(Edited(tree[f], P[f].from))
    BY <2>2, EditedOff DEF IsIn, TextsWhole
  <2>4. DOMAIN tree' = Files /\ \A f \in Files : IsText(tree'[f])
    BY <2>1, <2>3 DEF Reverse, TextsWhole
  <2> QED
    BY <2>4, TextChanges DEF ReversePatch
<1>5. JobTyped' /\ NotesTyped'
  BY <1>1, JobTakesNext, NotesStay DEF ReversePatch
<1> QED
  BY <1>4, <1>5

LEMMA CopyBackKeeps == ASSUME TreeInv, NEW f \in Files, CopyBack(f) PROVE TreeInv'
<1>1. TextsWhole'
  BY PutBackWhole DEF TreeInv, CopyBack
<1>2. JobTyped' /\ NotesTyped'
  BY JobDoes, NotesStay DEF TreeInv, CopyBack
<1> QED
  BY <1>1, <1>2 DEF TreeInv

\* The tools that go on to the next thing to do, the texts as they are.
LEMMA GoOnKeeps ==
  ASSUME TreeInv, OverlaidAll \/ ReverseEnds
  PROVE  TreeInv'
<1> USE DEF TreeInv
<1>1. job.tool # "none" /\ UNCHANGED <<tree, store>> /\ GoesOn
  BY DEF OverlaidAll, ReverseEnds, InTool
<1>2. \E at \in Ats \ {"overlay"}, fs \in SUBSET Files : MovesTo(at, fs)
  <2>1. {"patches", "copies"} \subseteq Ats \ {"overlay"}
    BY DEF Ats
  <2>2. {f \in Files : Stored(f)} \subseteq Files /\ {} \subseteq Files
    OBVIOUS
  <2> QED
    BY <2>1, <2>2 DEF OverlaidAll, ReverseEnds
<1>3. JobTyped'
  BY <1>1, <1>2, JobMoves
<1>4. TextsWhole' /\ NotesTyped'
  BY <1>1, NotesStay DEF TextsWhole
<1> QED
  BY <1>3, <1>4

LEMMA ForeignUndoable ==
  ASSUME NEW b, NEW trees \in SUBSET Branches PROVE Foreign(b, trees) \subseteq Undoable
BY TreeAssumption DEF Foreign, Undoable

\* The stages of clean_tree.py, with what it finds of the other branches' patches.
LEMMA CleanStages ==
  ASSUME TreeInv, CopiedBack \/ SeedsEnd \/ ForeignEnds
  PROVE  /\ job.tool = "clean" /\ job'.tool = job.tool /\ job'.branch = job.branch
         /\ job'.unsure = job.unsure /\ job'.undone = job.undone
         /\ job' \in JobType /\ job'.n # 0 /\ UNCHANGED <<tree, store>> /\ GoesOn
         /\ CopiedBack => \E seen \in Sights :
              /\ job'.at = "seeds" /\ job'.left = Seeds(seen)
              /\ job'.hidden = Unfound(job.branch, seen)
         /\ SeedsEnd => \E trees \in Sights :
              /\ job'.at = "foreign" /\ job'.left = {} /\ job'.trees = trees
              /\ job'.untried = Foreign(job.branch, trees)
              /\ job'.hidden = job.hidden \cup Beyond(job.branch, trees)
         /\ ForeignEnds =>
              /\ job.untried = {} /\ job'.hidden = job.hidden
              /\ \/ job'.at = "created"
                 \/ /\ job'.at = "foreign" /\ job'.trees = job.trees
                    /\ job'.untried = Foreign(job.branch, job.trees) \ job.undone
<1> USE DEF TreeInv
<1>1. job.tool = "clean" /\ job \in JobType /\ UNCHANGED <<tree, store>> /\ GoesOn
      /\ {"seeds", "foreign", "created"} \subseteq Ats
  BY DEF CopiedBack, SeedsEnd, ForeignEnds, InTool, JobTyped, Ats
<1>2. CASE CopiedBack
  <2> PICK seen \in Sights : FindsOurs(seen)
    BY <1>2 DEF CopiedBack
  <2>1. Seeds(seen) \in SUBSET Files /\ Unfound(job.branch, seen) \in SUBSET Files
    BY TreeAssumption DEF Seeds, Unfound, OfOthers, Ours, ByFile
  <2>2. job' \in JobType
    BY <1>1, <2>1 DEF FindsOurs, JobType
  <2>3. /\ job'.tool = job.tool /\ job'.branch = job.branch /\ job'.n = 1
        /\ job'.unsure = job.unsure /\ job'.undone = job.undone
        /\ job'.at = "seeds" /\ job'.left = Seeds(seen) /\ job'.hidden = Unfound(job.branch, seen)
    BY <1>1 DEF FindsOurs, JobType
  <2>4. ~SeedsEnd /\ ~ForeignEnds
    BY <1>2 DEF CopiedBack, SeedsEnd, ForeignEnds, InTool
  <2> QED
    BY <1>1, <2>2, <2>3, <2>4
<1>3. CASE SeedsEnd
  <2> PICK trees \in Sights : FindsForeign(trees)
    BY <1>3 DEF SeedsEnd
  <2>1. Foreign(job.branch, trees) \in SUBSET Undoable /\ trees \in SUBSET Branches
    BY ForeignUndoable, TreeAssumption
  <2>2. Beyond(job.branch, trees) \in SUBSET Files
    BY TreeAssumption DEF Beyond
  <2>3. job' \in JobType
    BY <1>1, <2>1, <2>2 DEF FindsForeign, JobType
  <2>4. /\ job'.tool = job.tool /\ job'.branch = job.branch /\ job'.n = 1
        /\ job'.unsure = job.unsure /\ job'.undone = job.undone
        /\ job'.at = "foreign" /\ job'.left = job.left /\ job'.trees = trees
        /\ job'.untried = Foreign(job.branch, trees)
        /\ job'.hidden = job.hidden \cup Beyond(job.branch, trees)
    BY <1>1 DEF FindsForeign, JobType
  <2>5. ~CopiedBack /\ ~ForeignEnds /\ job.left = {}
    BY <1>3 DEF CopiedBack, SeedsEnd, ForeignEnds, InTool
  <2> QED
    BY <1>1, <2>3, <2>4, <2>5
<1>4. CASE ForeignEnds
  <2>1. ~CopiedBack /\ ~SeedsEnd /\ job.untried = {} /\ job.at = "foreign"
    BY <1>4 DEF CopiedBack, SeedsEnd, ForeignEnds, InTool
  <2>2. CASE MovesTo("created", {})
    <3>1. job' \in JobType
      BY <1>1, <2>2 DEF MovesTo, JobType
    <3>2. /\ job'.tool = job.tool /\ job'.branch = job.branch /\ job'.n = 1
          /\ job'.unsure = job.unsure /\ job'.undone = job.undone /\ job'.hidden = job.hidden
          /\ job'.at = "created" /\ job'.left = {}
      BY <1>1, <2>2 DEF MovesTo, JobType
    <3> QED
      BY <1>1, <2>1, <3>1, <3>2
  <2>3. CASE job' = [job EXCEPT !.n = @ + 1, !.again = FALSE,
                                !.untried = Foreign(job.branch, job.trees) \ job.undone]
    <3>1. Foreign(job.branch, job.trees) \ job.undone \in SUBSET Undoable /\ job.n + 1 \in Nat
          /\ job.n + 1 # 0
      BY <1>1, ForeignUndoable DEF JobType
    <3>2. job' \in JobType
      BY <1>1, <2>3, <3>1 DEF JobType
    <3>3. /\ job'.tool = job.tool /\ job'.branch = job.branch /\ job'.n = job.n + 1
          /\ job'.unsure = job.unsure /\ job'.undone = job.undone /\ job'.hidden = job.hidden
          /\ job'.at = job.at /\ job'.left = job.left /\ job'.trees = job.trees
          /\ job'.untried = Foreign(job.branch, job.trees) \ job.undone
      BY <1>1, <2>3 DEF JobType
    <3> QED
      BY <1>1, <2>1, <3>1, <3>2, <3>3
  <2> QED
    BY <1>4, <2>2, <2>3 DEF ForeignEnds
<1> QED
  BY <1>2, <1>3, <1>4

LEMMA CleanStagesKeep ==
  ASSUME TreeInv, CopiedBack \/ SeedsEnd \/ ForeignEnds PROVE TreeInv'
<1>1. JobTyped'
  BY CleanStages DEF TreeInv, JobTyped
<1>2. TextsWhole' /\ NotesTyped'
  BY CleanStages, NotesStay DEF TreeInv, TextsWhole
<1> QED
  BY <1>1, <1>2 DEF TreeInv

\* clean_tree.py takes an original from git.
LEMMA Seeding ==
  ASSUME JobTyped, NEW f, Seed(f)
  PROVE  /\ job.tool = "clean" /\ job.at = "seeds" /\ f \in job.left
         /\ job'.tool = job.tool /\ job'.branch = job.branch /\ job'.n = job.n
         /\ job'.at = job.at /\ job'.left = job.left \ {f}
         /\ job'.unsure = job.unsure \cup ({f} \cap ByFile(job.branch))
         /\ job'.hidden = job.hidden /\ job' \in JobType /\ GoesOn
<1>1. job' = [job EXCEPT !.left = @ \ {f},
                         !.unsure = @ \cup ({f} \cap ByFile(job.branch))]
  BY DEF Seed
<1>2. job.tool = "clean" /\ job.at = "seeds" /\ f \in job.left /\ GoesOn /\ job \in JobType
  BY DEF Seed, InTool, JobTyped
<1>3. job.unsure \cup ({f} \cap ByFile(job.branch)) \in SUBSET Files
      /\ job.left \ {f} \in SUBSET Files
  BY <1>2 DEF JobType, ByFile
<1>4. job' \in JobType
  BY <1>1, <1>2, <1>3 DEF JobType
<1>5. /\ job'.tool = job.tool /\ job'.branch = job.branch /\ job'.n = job.n
      /\ job'.at = job.at /\ job'.left = job.left \ {f}
      /\ job'.unsure = job.unsure \cup ({f} \cap ByFile(job.branch))
      /\ job'.hidden = job.hidden
  BY <1>1, <1>2 DEF JobType
<1> QED
  BY <1>2, <1>4, <1>5

LEMMA SeedKeeps == ASSUME TreeInv, NEW f \in Files, Seed(f) PROVE TreeInv'
<1> USE DEF TreeInv
<1>1. IsText(Original[f])
  BY TreeAssumption
<1>2. TextsWhole'
  BY <1>1 DEF Seed, TextsWhole
<1>3. JobTyped' /\ NotesTyped'
  BY Seeding, NotesStay DEF JobTyped
<1> QED
  BY <1>2, <1>3

\* clean_tree.py tries to take another branch's patch off one file.
LEMMA Tries ==
  ASSUME JobTyped, NEW x \in job.untried, TryForeign(x[1], x[2], x[3])
  PROVE  /\ x[1] \in Branches /\ x[3] \in Substituted /\ x[3] \in Files
         /\ x[2] \in PatchesOf(x[1], x[3])
         /\ job.tool = "clean" /\ job.at = "foreign"
         /\ tree' = IF IsIn(tree, Series[x[1]][x[2]], {x[3]})
                    THEN Reverse(tree, Series[x[1]][x[2]], {x[3]}) ELSE tree
         /\ job' \in JobType /\ job'.untried = job.untried \ {x}
         /\ job'.tool = job.tool /\ job'.branch = job.branch /\ job'.n = job.n
         /\ job'.at = job.at /\ job'.left = job.left /\ job'.trees = job.trees
         /\ job'.unsure = job.unsure /\ job'.hidden = job.hidden
         /\ UNCHANGED store /\ GoesOn
<1>1. x \in Undoable /\ job \in JobType
  BY DEF JobTyped, JobType
<1>2. x = <<x[1], x[2], x[3]>> /\ x[1] \in Branches /\ x[2] \in 1..MaxSeries /\ x[3] \in Substituted
      /\ x[2] <= Len(Series[x[1]]) /\ x[3] \in Touched(Series[x[1]][x[2]])
  BY <1>1 DEF Undoable
<1>3. x[2] \in PatchesOf(x[1], x[3])
  BY <1>2, TreeAssumption DEF PatchesOf
<1>4. \/ job' = [job EXCEPT !.untried = @ \ {x}, !.again = TRUE, !.undone = @ \cup {x}]
      \/ job' = [job EXCEPT !.untried = @ \ {x}]
  BY <1>2 DEF TryForeign
<1>5. job' \in JobType
  <2> DEFINE rest == job.untried \ {x}
             more == job.undone \cup {x}
  <2>1. rest \in SUBSET Undoable /\ more \in SUBSET Undoable
    BY <1>1 DEF JobType
  <2>2. \/ job' = [job EXCEPT !.untried = rest, !.again = TRUE, !.undone = more]
        \/ job' = [job EXCEPT !.untried = rest]
    BY <1>4
  <2> HIDE DEF rest, more
  <2> QED
    BY <1>1, <2>1, <2>2 DEF JobType
<1>6. /\ job'.untried = job.untried \ {x}
      /\ job'.tool = job.tool /\ job'.branch = job.branch /\ job'.n = job.n
      /\ job'.at = job.at /\ job'.left = job.left /\ job'.trees = job.trees
      /\ job'.unsure = job.unsure /\ job'.hidden = job.hidden
  BY <1>1, <1>4 DEF JobType
<1>7. /\ tree' = IF IsIn(tree, Series[x[1]][x[2]], {x[3]})
                 THEN Reverse(tree, Series[x[1]][x[2]], {x[3]}) ELSE tree
      /\ job.tool = "clean" /\ job.at = "foreign" /\ UNCHANGED store /\ GoesOn
  BY DEF TryForeign, InTool
<1>8. x[3] \in Files
  BY <1>2, TreeAssumption
<1> QED
  BY <1>2, <1>3, <1>5, <1>6, <1>7, <1>8

LEMMA TryForeignKeeps ==
  ASSUME TreeInv, NEW x \in job.untried, TryForeign(x[1], x[2], x[3])
  PROVE  TreeInv'
<1> USE DEF TreeInv
<1> PICK f : f = x[3]
  OBVIOUS
<1> PICK P : P = Series[x[1]][x[2]]
  OBVIOUS
<1>1. f \in Touched(P) /\ IsPatch(P)
  <2>1. x[2] \in 1..Len(Series[x[1]]) /\ x[3] \in Touched(Series[x[1]][x[2]]) /\ x[1] \in Branches
    BY Tries DEF PatchesOf
  <2> QED
    BY <2>1, TreeAssumption
<1>2. tree' = IF IsIn(tree, P, {f}) THEN Reverse(tree, P, {f}) ELSE tree
  BY Tries
<1>3. IsIn(tree, P, {f}) /\ f \in Files => IsText(Edited(tree[f], P[f].from))
  BY <1>1, EditedOff DEF IsIn, TextsWhole
<1>4. DOMAIN tree' = Files /\ \A g \in Files : IsText(tree'[g])
  BY <1>2, <1>3 DEF Reverse, TextsWhole
<1>5. TextsWhole'
  BY <1>4, TextChanges, Tries
<1>6. JobTyped' /\ NotesTyped'
  BY Tries, NotesStay DEF JobTyped
<1> QED
  BY <1>5, <1>6

LEMMA RemoveCreatedKeeps == ASSUME TreeInv, RemoveCreated PROVE TreeInv'
<1> USE DEF TreeInv
<1>1. job.tool # "none"
  BY DEF RemoveCreated, InTool
<1>2. DOMAIN tree' = Files /\ \A f \in Files : IsText(tree'[f])
  BY WholeTexts DEF RemoveCreated, TextsWhole
<1>3. TextsWhole'
  BY <1>2, TextChanges DEF RemoveCreated
<1>4. JobTyped' /\ NotesTyped'
  BY <1>1, JobTakesNext, NotesStay DEF RemoveCreated
<1> QED
  BY <1>3, <1>4

LEMMA KilledTyped ==
  ASSUME TreeInv, Killed, spoilt' \in BOOLEAN PROVE JobTyped' /\ NotesTyped'
BY NoJobTyped DEF TreeInv, JobTyped, NotesTyped, Killed

LEMMA KillsKeep ==
  ASSUME TreeInv,
         \/ KillBetween
         \/ \E f \in Files : KillInCopy(f) \/ KillInSave(f) \/ KillInSeed(f)
         \/ \E fs \in SUBSET Rewinding : KillInRewind(fs)
  PROVE  TreeInv'
<1> USE DEF TreeInv
<1>1. CASE KillBetween
  BY <1>1, KilledTyped DEF KillBetween, TextsWhole, NotesTyped
<1>2. ASSUME NEW f \in Files, KillInCopy(f) PROVE TreeInv'
  <2>1. TextsWhole'
    BY <1>2, WholeTexts, OneTextChanges DEF KillInCopy
  <2> QED
    BY <1>2, <2>1, KilledTyped DEF KillInCopy, NotesTyped
<1>3. ASSUME NEW f \in Files, KillInSave(f) PROVE TreeInv'
  <2>1. TextsWhole'
    BY <1>3, WholeTexts DEF KillInSave, TextsWhole
  <2> QED
    BY <1>3, <2>1, KilledTyped DEF KillInSave
<1>4. ASSUME NEW f \in Files, KillInSeed(f) PROVE TreeInv'
  <2>1. TextsWhole'
    BY <1>4, WholeTexts, TreeAssumption DEF KillInSeed, TextsWhole
  <2> QED
    BY <1>4, <2>1, KilledTyped DEF KillInSeed, NotesTyped
<1>5. ASSUME NEW fs, KillInRewind(fs) PROVE TreeInv'
  <2>1. TextsWhole'
    BY <1>5, PutBackWhole DEF KillInRewind
  <2> QED
    BY <1>5, <2>1, KilledTyped DEF KillInRewind, NotesTyped
<1> QED
  BY <1>1, <1>2, <1>3, <1>4, <1>5

LEMMA KillInGitKeeps ==
  ASSUME TreeInv, NEW removed \in SUBSET Changing, NEW written \in SUBSET Changing,
         KillInGit(removed, written)
  PROVE  TreeInv'
<1> USE DEF TreeInv
<1>1. Patching /\ Fits(tree, Patch, Touched(Patch)) /\ Changing = Touched(Patch)
  BY DEF KillInGit, Changing
<1>2. IsPatch(Patch)
  BY <1>1, WorksForBranch, PatchOfSeries DEF Patching, Patch
<1>3. \A f \in Files : f \in written => IsText(Edited(tree[f], Patch[f].to))
  BY <1>1, <1>2, EditedOn DEF Fits, TextsWhole
<1>4. DOMAIN tree' = Files /\ \A f \in Files : IsText(tree'[f])
  BY <1>3, WholeTexts DEF KillInGit, TextsWhole
<1>5. TextsWhole'
  BY <1>4, TextChanges DEF KillInGit
<1>6. spoilt' \in BOOLEAN
  BY DEF KillInGit, NotesTyped
<1> QED
  BY <1>5, <1>6, KilledTyped DEF KillInGit

LEMMA StartsKeep ==
  ASSUME TreeInv, NEW b \in Branches, StartApply(b) \/ StartRestore(b) \/ StartClean(b)
  PROVE  TreeInv'
<1>1. \E tool \in Tools, at \in Ats \ {"overlay"}, fs \in SUBSET Files : Begins(tool, b, at, fs)
  <2>1. {"apply", "restore", "clean"} \subseteq Tools
        /\ {"sync", "reverse", "copies"} \subseteq Ats \ {"overlay"}
    BY DEF Tools, Ats
  <2>2. Todo(b) \subseteq Files /\ {} \subseteq Files
    BY DEF Todo
  <2> QED
    BY <2>1, <2>2 DEF StartApply, StartRestore, StartClean
<1> QED
  BY <1>1, JobBegins

LEMMA TreeInvNext == ASSUME TreeInv, [TreeNext]_treeVars PROVE TreeInv'
<1>1. CASE UNCHANGED treeVars
  BY <1>1 DEF treeVars, TreeInv, TextsWhole, JobTyped, NotesTyped
<1>2. CASE \E b \in Branches : StartApply(b) \/ StartRestore(b) \/ StartClean(b)
  BY <1>2, StartsKeep
<1>3. CASE Sync \/ PatchesEnd \/ ReversePatch \/ RemoveCreated
  BY <1>3, SyncKeeps, PatchesEndKeeps, ReversePatchKeeps, RemoveCreatedKeeps
<1>4. CASE AlreadyApplied \/ ApplyPatch \/ Rewind \/ FailToApply
  BY <1>4, PatchKeeps
<1>5. CASE ApplyEnds \/ RestoreEnds \/ CleanEnds
  BY <1>5, EndsKeep
<1>6. CASE OverlaidAll \/ ReverseEnds \/ CopiedBack \/ SeedsEnd \/ ForeignEnds
  BY <1>6, GoOnKeeps, CleanStagesKeep
<1>7. CASE \E f \in Files : Snapshot(f) \/ OverlayFile(f) \/ Rebrand(f) \/ CopyBack(f) \/ Seed(f)
  BY <1>7, SnapshotKeeps, OverlayFileKeeps, RebrandKeeps, CopyBackKeeps, SeedKeeps
<1>8. CASE \E x \in job.untried : TryForeign(x[1], x[2], x[3])
  BY <1>8, TryForeignKeeps
<1>9. CASE \/ KillBetween
           \/ \E f \in Files : KillInCopy(f) \/ KillInSave(f) \/ KillInSeed(f)
           \/ \E fs \in SUBSET Rewinding : KillInRewind(fs)
  BY <1>9, KillsKeep
<1>10. CASE \E removed, written \in SUBSET Changing : KillInGit(removed, written)
  BY <1>10, KillInGitKeeps
<1> QED
  BY <1>1, <1>2, <1>3, <1>4, <1>5, <1>6, <1>7, <1>8, <1>9, <1>10 DEF TreeNext

\* Whatever is killed, and when: every file in the tree and in the store is whole or
\* not there (a torn one is `Unreadable'), and a tool works on files there are.
THEOREM TreeTypeCorrect == TreeSpec => []TreeTypeOK
<1>1. TreeInv => TreeTypeOK
  BY DEF TreeInv, TextsWhole, JobTyped, JobType, NotesTyped, TreeTypeOK
<1> QED
  BY <1>1, TreeInvInit, TreeInvNext, PTL DEF TreeSpec

-----------------------------------------------------------------------------
(* What the tools keep in the pristine store *)

\* The files that Chromium has, and those of them that clean_tree.py takes from git.
Native == {f \in Files : Original[f] # Absent}
Seedable == {f \in Ours(Branches) \ (StringFiles \cup Substituted) : Original[f] # Absent}

\* What a tool has left to do, by what it is at.
LeftOf ==
  /\ job.at \in {"overlay", "patches", "rebrand"} => job.tool = "apply"
  /\ job.at = "rebrand" => job.left \subseteq Branded
  /\ job.at = "seeds" => job.left \subseteq Seedable
  /\ job.at = "copies" => \A f \in job.left : Stored(f)

\* After a restore the tree has what the store has.
Restored ==
  /\ last.tool # "none" => job = NoJob
  /\ InTool("restore", "copies") =>
       \A f \in Files : Stored(f) /\ f \notin job.left => tree[f] = store[f]
  /\ last.tool = "restore" => \A f \in Files : Stored(f) => tree[f] = store[f]

\* What is in the store is the original; what no branch patches is the original as long
\* as it is not there; and of what another branch patches no other text is left in a tree
\* that was cleaned, until the overlay is laid, but for what clean_tree.py did not know.
CopiesRight == \A f \in Native : Stored(f) => store[f] = Original[f]
Untouched == \A f \in Native \ Ours(Branches) : ~Stored(f) => tree[f] = Original[f]
Spared(f) == Stored(f) \/ tree[f] = Absent \/ tree[f] = Original[f]
Known(b, fs, hidden) == \A f \in fs \cap OfOthers(b) : Spared(f) \/ f \in hidden
Prepared ==
  /\ job.at = "none" /\ ready # NoBranch => Known(ready, Seedable, last.hidden)
  /\ job.at \in {"sync", "foreign", "created"} => Known(job.branch, Seedable, job.hidden)
  /\ job.at = "overlay" => Known(job.branch, Seedable \cap job.left, job.hidden)
  /\ job.at = "seeds" => Known(job.branch, Seedable \ job.left, job.hidden)

StoreInv == TreeInv /\ LeftOf /\ Restored /\ (~spoilt => CopiesRight /\ Untouched /\ Prepared)

LEMMA StoreInvInit == TreeInit => StoreInv
<1> SUFFICES ASSUME TreeInit PROVE StoreInv
  OBVIOUS
<1>1. NoJob.at = "none" /\ NoJob.tool = "none" /\ Ended.tool = "none"
  BY DEF NoJob, Ended
<1>2. TreeInv
  BY TreeInvInit
<1>3. tree = Original /\ job = NoJob /\ last = Ended
  BY DEF TreeInit
<1>4. Untouched /\ Prepared
  <2>1. ready \in Branches /\ \A f \in Files : tree[f] = Original[f]
    BY <1>3 DEF TreeInit
  <2>2. \A f \in Seedable : f \in Files
    BY DEF Seedable, Ours, ByFile
  <2> QED
    BY <1>1, <1>3, <2>1, <2>2 DEF Untouched, Prepared, Known, Spared, Native
<1>5. CopiesRight
  <2>1. PICK fs \in SUBSET FirstStore :
          store = [f \in Files |-> IF f \in fs THEN Original[f] ELSE Absent]
    BY DEF TreeInit
  <2> QED
    BY <2>1 DEF CopiesRight, Native, Stored
<1>6. LeftOf /\ Restored
  BY <1>1, <1>3 DEF LeftOf, Restored, InTool
<1> QED
  BY <1>2, <1>4, <1>5, <1>6 DEF StoreInv

\* Of a file in the store nothing matters; one that comes in is the original; and of the
\* others only those that a branch patches may change.
Mild(f) ==
  /\ Stored(f) => store'[f] = store[f]
  /\ ~Stored(f) /\ f \in Native => store'[f] \in {Absent, Original[f]}
  /\ ~Stored(f) /\ f \in Native \ Ours(Branches) => store'[f] # Absent \/ tree'[f] = tree[f]

LEMMA StoreKeeps ==
  ASSUME StoreInv, TreeInv', LeftOf', Restored', spoilt => spoilt',
         ~spoilt' => Prepared' /\ \A f \in Files : Mild(f)
  PROVE  StoreInv'
<1>1. ASSUME ~spoilt' PROVE CopiesRight' /\ Untouched'
  <2>1. CopiesRight /\ Untouched /\ \A f \in Files : Mild(f)
    BY <1>1 DEF StoreInv
  <2>2. CopiesRight'
    BY <2>1 DEF CopiesRight, Mild, Native, Stored
  <2>3. Untouched'
    BY <2>1 DEF Untouched, Mild, Native, Stored
  <2> QED
    BY <2>2, <2>3
<1> QED
  BY <1>1 DEF StoreInv

LEMMA TouchedIsOurs ==
  ASSUME NEW b \in Branches, NEW i \in 1..Len(Series[b]), NEW f \in Files, f \in Touched(Series[b][i])
  PROVE  f \in ByFile(b) /\ f \in Ours(Branches)
BY DEF Ours, ByFile, PatchesOf

LEMMA PatchIsOurs ==
  ASSUME JobTyped, NEW tool, NEW at, tool # "none", InTool(tool, at),
         job.n <= Len(Series[job.branch]), NEW f \in Files, f \in Touched(Patch)
  PROVE  f \in ByFile(job.branch) /\ f \in Ours(Branches)
<1>1. job.branch \in Branches /\ job.n \in Nat /\ job.n # 0
  BY WorksForBranch
<1>2. job.n \in 1..Len(Series[job.branch])
  BY <1>1, TreeAssumption
<1> QED
  BY <1>1, <1>2, TouchedIsOurs DEF Patch

\* What clean_tree.py puts back has an original in the store, and of the files that are
\* there and are not what the branch wants it leaves out none.
LEMMA TodoIsStored == ASSUME NEW b \in Branches PROVE \A f \in Todo(b) : f \in Files /\ Stored(f)
<1> DEFINE first == Unexpected(b) \cup Stacked(b)
           differing == {f \in Files : Differs(f)}
           whole == {fs \in {first \cup more : more \in SUBSET differing} :
                       RestOf(b, fs) \subseteq fs}
           all == first \cup differing
<1>1. all \in whole
  <2>1. all \in {first \cup more : more \in SUBSET differing}
    OBVIOUS
  <2>2. RestOf(b, all) \subseteq all
    BY DEF RestOf
  <2> QED
    BY <2>1, <2>2
<1>2. \A f \in all : f \in Files /\ Stored(f)
  BY DEF Unexpected, Stacked, Differs, ByFile
<1>3. Todo(b) = {f \in Files : \A fs \in whole : f \in fs}
  BY DEF Todo
<1> QED
  BY <1>1, <1>2, <1>3

\* While a tool runs there is no last one.
LEMMA NoneLast == ASSUME Restored, job.at # "none" \/ job.left # {} PROVE last.tool = "none"
BY DEF Restored, NoJob

LEMMA OthersRun ==
  ASSUME last'.tool = "none", job'.tool # "restore" \/ job'.at # "copies"
  PROVE  Restored'
BY DEF Restored, InTool

LEMMA OthersEnd ==
  ASSUME NEW well, NEW b, Finishes(well, b), job.tool # "restore"
  PROVE  Restored' /\ LeftOf' /\ job'.at = "none" /\ ready' = b
<1>1. job' = NoJob /\ NoJob.at = "none" /\ last'.tool = job.tool
  BY DEF Finishes, NoJob
<1> QED
  BY <1>1 DEF Finishes, Restored, LeftOf, InTool

\* A tool goes on to the next thing, or to the next patch.
LEMMA Moving ==
  ASSUME JobTyped, NEW at \in Ats, NEW fs \in SUBSET Files, MovesTo(at, fs)
  PROVE  /\ job'.at = at /\ job'.left = fs /\ job'.tool = job.tool
         /\ job'.branch = job.branch /\ job'.hidden = job.hidden
BY DEF JobTyped, JobType, MovesTo

LEMMA NextOne ==
  ASSUME JobTyped, NextPatch
  PROVE  /\ job'.at = job.at /\ job'.left = job.left /\ job'.tool = job.tool
         /\ job'.branch = job.branch /\ job'.hidden = job.hidden
BY DEF JobTyped, JobType, NextPatch

LEMMA StartsKeepStore ==
  ASSUME StoreInv, TreeInv', NEW b \in Branches, StartApply(b) \/ StartRestore(b) \/ StartClean(b)
  PROVE  StoreInv'
<1>1. UNCHANGED <<tree, store, ready, spoilt>> /\ last' = Ended /\ job = NoJob
  BY DEF StartApply, StartRestore, StartClean, Begins
<1>2. NoJob.at = "none" /\ Ended.tool = "none"
  BY DEF NoJob, Ended
<1>3. \/ /\ job'.tool = "apply" /\ job'.at = "sync" /\ ready = b
         /\ job'.branch = b /\ job'.hidden = last.hidden
      \/ job'.tool = "restore" /\ job'.at = "reverse"
      \/ job'.tool = "clean" /\ job'.at = "copies" /\ job'.left = Todo(b)
  <2>1. CASE StartApply(b)
    BY <2>1 DEF StartApply, Begins, NoJob
  <2>2. CASE StartRestore(b)
    BY <2>2 DEF StartRestore, Begins, NoJob
  <2>3. CASE StartClean(b)
    BY <2>3 DEF StartClean, Begins, NoJob
  <2> QED
    BY <2>1, <2>2, <2>3
<1>4. LeftOf'
  BY <1>1, <1>3, TodoIsStored DEF LeftOf, Stored
<1>5. Restored'
  BY <1>1, <1>2, <1>3, OthersRun
<1>6. ~spoilt => Prepared'
  BY <1>1, <1>2, <1>3, TreeAssumption DEF StoreInv, Prepared, Known, Spared, Stored
<1>7. \A f \in Files : Mild(f)
  BY <1>1 DEF Mild, Stored
<1> QED
  BY <1>1, <1>4, <1>5, <1>6, <1>7, StoreKeeps

LEMMA SyncKeepsStore == ASSUME StoreInv, TreeInv', Sync PROVE StoreInv'
<1>1. UNCHANGED <<tree, store, spoilt>> /\ job.at = "sync" /\ job.tool = "apply"
  BY DEF Sync, InTool
<1>2. \A f \in Files : Mild(f)
  BY <1>1 DEF Mild, Stored
<1>3. CASE MovesTo("overlay", OverlayFiles(job.branch)) /\ last' = last
  <2>1. JobTyped /\ OverlayFiles(job.branch) \in SUBSET Files /\ "overlay" \in Ats
    BY <1>1, TreeAssumption DEF StoreInv, TreeInv, JobTyped, Ats
  <2>2. /\ job'.at = "overlay" /\ job'.tool = job.tool
        /\ job'.branch = job.branch /\ job'.hidden = job.hidden
    BY <1>3, <2>1, Moving
  <2>3. Restored' /\ LeftOf'
    BY <1>1, <1>3, <2>2, NoneLast, OthersRun DEF StoreInv, LeftOf
  <2>4. ~spoilt => Prepared'
    BY <1>1, <2>2 DEF StoreInv, Prepared, Known, Spared, Stored
  <2> QED
    BY <1>1, <1>2, <2>3, <2>4, StoreKeeps
<1>4. CASE Finishes(FALSE, NoBranch)
  <2>1. Restored' /\ LeftOf' /\ job'.at = "none" /\ ready' = NoBranch
    BY <1>1, <1>4, OthersEnd
  <2>2. Prepared'
    BY <2>1 DEF Prepared
  <2> QED
    BY <1>1, <1>2, <2>1, <2>2, StoreKeeps
<1> QED
  BY <1>3, <1>4 DEF Sync

LEMMA BrandedNotOurs == \A f \in Branded : f \in Files /\ f \notin Ours(Branches) /\ Original[f] # Absent
BY TreeAssumption DEF Ours

LEMMA OverlayIsSeedable ==
  ASSUME NEW b \in Branches, NEW f \in OverlayFiles(b)
  PROVE  f \in Files /\ (f \in Native \cap Ours(Branches) => f \in Seedable)
<1>1. f \in Files /\ f \notin Substituted /\ f \notin StringFiles
  BY TreeAssumption
<1> QED
  BY <1>1 DEF Native, Seedable

\* Only what the store has, and what some branch patches, is changed.
LEMMA OursChange ==
  ASSUME UNCHANGED store, \A f \in Files : tree'[f] # tree[f] => f \in Ours(Branches) \/ Stored(f)
  PROVE  \A f \in Files : Mild(f)
BY DEF Mild, Stored

\* A file that Chromium has and that is not in the store is what Chromium has, when
\* the overlay is laid over it, or clean_tree.py did not know that a branch patches it.
LEMMA LaidOver ==
  ASSUME StoreInv, ~spoilt, job.at = "overlay", NEW f \in job.left, f \in Native, ~Stored(f)
  PROVE  \/ tree[f] = Original[f] \/ f \in job.hidden
         \/ tree[f] = Absent /\ f \in Ours(Branches)
<1>1. job.branch \in Branches /\ f \in OverlayFiles(job.branch)
  BY WorksForBranch DEF StoreInv, TreeInv, LeftOf, JobTyped, InTool
<1>2. CopiesRight /\ Untouched /\ Prepared
  BY DEF StoreInv
<1>3. CASE f \in Ours(Branches)
  <2>1. f \in Seedable
    BY <1>1, <1>3, OverlayIsSeedable
  <2>2. f \in OfOthers(job.branch)
    BY <1>1, <1>3, TreeAssumption DEF OfOthers, Ours
  <2> QED
    BY <1>2, <1>3, <2>1, <2>2 DEF Prepared, Known, Spared
<1>4. CASE f \notin Ours(Branches)
  BY <1>2, <1>4 DEF Untouched
<1> QED
  BY <1>3, <1>4

LEMMA SnapshotKeepsStore == ASSUME StoreInv, TreeInv', NEW f \in Files, Snapshot(f) PROVE StoreInv'
<1>1. UNCHANGED <<tree, job, ready, last>> /\ spoilt' = (spoilt \/ f \in job.hidden)
      /\ f \in job.left /\ ~Stored(f) /\ tree[f] # Absent /\ store' = [store EXCEPT ![f] = tree[f]]
  BY DEF Snapshot
<1>2. CASE job.at = "overlay"
  <2>1. \A g \in Files : g # f => store'[g] = store[g]
    BY <1>1 DEF StoreInv, TreeInv, TextsWhole
  <2>2. store'[f] = tree[f]
    BY <1>1 DEF StoreInv, TreeInv, TextsWhole
  <2>3. ~spoilt' /\ f \in Native => tree[f] = Original[f]
    BY <1>1, <1>2, LaidOver
  <2>4. ~spoilt' => \A g \in Files : Mild(g)
    BY <1>1, <2>1, <2>2, <2>3 DEF Mild, Stored
  <2>5. LeftOf' /\ Restored'
    BY <1>1, <1>2, NoneLast DEF StoreInv, LeftOf, Restored, InTool
  <2>6. ~spoilt' => Prepared'
    <3>1. \A g \in Seedable : g \in Files
      BY DEF Seedable, Ours, ByFile
    <3>2. \A g \in Seedable : Spared(g) => Spared(g)'
      BY <1>1, <2>1, <2>2, <3>1 DEF Spared, Stored
    <3>3. ~spoilt' => Known(job.branch, Seedable \cap job.left, job.hidden)
      BY <1>1, <1>2 DEF StoreInv, Prepared
    <3> QED
      BY <1>1, <1>2, <3>2, <3>3 DEF Prepared, Known
  <2> QED
    BY <1>1, <2>4, <2>5, <2>6, StoreKeeps
<1>3. CASE job.at = "rebrand"
  <2>1. \A g \in Files : g # f => store'[g] = store[g]
    BY <1>1 DEF StoreInv, TreeInv, TextsWhole
  <2>2. store'[f] = tree[f]
    BY <1>1 DEF StoreInv, TreeInv, TextsWhole
  <2>3. f \in Native \ Ours(Branches)
    BY <1>1, <1>3, BrandedNotOurs DEF StoreInv, LeftOf, Native
  <2>4. ~spoilt => tree[f] = Original[f]
    BY <1>1, <2>3 DEF StoreInv, Untouched
  <2>5. ~spoilt => \A g \in Files : Mild(g)
    BY <1>1, <2>1, <2>2, <2>4 DEF Mild, Stored
  <2>6. LeftOf' /\ Restored'
    BY <1>1, <1>3, NoneLast DEF StoreInv, LeftOf, Restored, InTool
  <2>7. Prepared'
    BY <1>1, <1>3 DEF Prepared
  <2> QED
    BY <1>1, <2>5, <2>6, <2>7, StoreKeeps
<1> QED
  BY <1>2, <1>3 DEF Snapshot

\* A copy is laid over a file that has an original in the store or was not there.
LEMMA LaidMild ==
  ASSUME StoreInv, ~spoilt, UNCHANGED store, NEW f \in Files, f \in job.left,
         Stored(f) \/ (job.at = "overlay" /\ tree[f] = Absent),
         \A g \in Files : g # f => tree'[g] = tree[g]
  PROVE  \A g \in Files : Mild(g)
<1>1. f \in Native \ Ours(Branches) => Stored(f)
  BY DEF StoreInv, Untouched, Native
<1> QED
  BY <1>1 DEF Mild, Stored

LEMMA OverlayFileKeepsStore ==
  ASSUME StoreInv, TreeInv', NEW f \in Files, OverlayFile(f) PROVE StoreInv'
<1>1. UNCHANGED <<store, ready, last, spoilt>> /\ f \in job.left /\ job.at = "overlay"
      /\ (Stored(f) \/ tree[f] = Absent) /\ job.tool = "apply"
  BY DEF OverlayFile, GoesOn, InTool
<1>2. \A g \in Files : g # f => tree'[g] = tree[g]
  BY DEF OverlayFile, StoreInv, TreeInv, TextsWhole
<1>3. /\ job'.at = "overlay" /\ job'.tool = "apply" /\ job'.left = job.left \ {f}
      /\ job'.branch = job.branch /\ job'.hidden = job.hidden
  BY <1>1 DEF OverlayFile, StoreInv, TreeInv, JobTyped, JobType
<1>4. ~spoilt => \A g \in Files : Mild(g)
  BY <1>1, <1>2, LaidMild
<1>5. Restored' /\ LeftOf'
  BY <1>1, <1>3, NoneLast, OthersRun DEF StoreInv, LeftOf
<1>6. ~spoilt => Prepared'
  <2>1. \A g \in Seedable \cap job'.left : g # f /\ g \in Files
    BY <1>1, <1>3 DEF Seedable, Ours, ByFile
  <2>2. \A g \in Seedable \cap job'.left : Spared(g) => Spared(g)'
    BY <1>1, <1>2, <2>1 DEF Spared, Stored
  <2>3. ~spoilt => Known(job.branch, Seedable \cap job.left, job.hidden)
    BY <1>1 DEF StoreInv, Prepared
  <2> QED
    BY <1>3, <2>2, <2>3 DEF Prepared, Known
<1> QED
  BY <1>1, <1>4, <1>5, <1>6, StoreKeeps

LEMMA OverlaidAllKeepsStore == ASSUME StoreInv, TreeInv', OverlaidAll PROVE StoreInv'
<1>1. UNCHANGED <<tree, store, ready, last, spoilt>> /\ job.at = "overlay" /\ job.tool = "apply"
  BY DEF OverlaidAll, GoesOn, InTool
<1>2. job'.at = "patches" /\ job'.tool = "apply"
  <2>1. JobTyped /\ MovesTo("patches", {}) /\ "patches" \in Ats /\ {} \in SUBSET Files
    BY DEF OverlaidAll, StoreInv, TreeInv, Ats
  <2> QED
    BY <1>1, <2>1, Moving
<1>3. Restored' /\ LeftOf' /\ Prepared'
  BY <1>1, <1>2, NoneLast, OthersRun DEF StoreInv, LeftOf, Prepared
<1>4. \A f \in Files : Mild(f)
  BY <1>1, OursChange
<1> QED
  BY <1>1, <1>3, <1>4, StoreKeeps

\* A step of the tool's that moves from file to file or from patch to patch.
LEMMA StepKeepsStore ==
  ASSUME StoreInv, TreeInv', UNCHANGED <<store, ready, last, spoilt>>,
         job.at # "none", job'.at = job.at, job'.tool = job.tool, job'.left \subseteq job.left,
         job.at \in {"patches", "rebrand", "reverse"},
         \A f \in Files : tree'[f] # tree[f] => f \in Ours(Branches) \/ Stored(f)
  PROVE  StoreInv'
<1>1. Restored' /\ LeftOf' /\ Prepared'
  BY NoneLast, OthersRun DEF StoreInv, LeftOf, Prepared
<1> QED
  BY <1>1, OursChange, StoreKeeps

LEMMA PatchStepsKeepStore ==
  ASSUME StoreInv, TreeInv', AlreadyApplied \/ ApplyPatch \/ Rewind PROVE StoreInv'
<1>1. UNCHANGED <<store, ready, last, spoilt>> /\ job.at = "patches" /\ Patching
  BY DEF AlreadyApplied, ApplyPatch, Rewind, Stuck, Patching, GoesOn, InTool
<1>2. job'.at = job.at /\ job'.tool = job.tool /\ job'.left = job.left
  <2>1. CASE NextPatch
    BY <2>1, NextOne DEF StoreInv, TreeInv
  <2>2. CASE Rewind
    BY <2>2 DEF Rewind, StoreInv, TreeInv, JobTyped, JobType
  <2> QED
    BY <2>1, <2>2 DEF AlreadyApplied, ApplyPatch
<1>3. \A f \in Files : f \in Touched(Patch) => f \in Ours(Branches)
  BY <1>1, PatchIsOurs DEF StoreInv, TreeInv, Patching
<1>4. \A f \in Files : tree'[f] # tree[f] => f \in Ours(Branches) \/ Stored(f)
  BY <1>3 DEF AlreadyApplied, ApplyPatch, Rewind, Apply, PutBack, Rewound
<1> QED
  BY <1>1, <1>2, <1>4, StepKeepsStore

\* A tool that ends, and so does one that fails.
LEMMA EndKeepsStore ==
  ASSUME StoreInv, TreeInv', NEW well, NEW b, Finishes(well, b), job.tool # "restore",
         UNCHANGED <<tree, store, spoilt>>,
         b # NoBranch => job.at = "created" /\ b = job.branch
  PROVE  StoreInv'
<1>1. Restored' /\ LeftOf' /\ job'.at = "none" /\ ready' = b
  BY OthersEnd
<1>2. last'.hidden = job.hidden
  BY DEF Finishes
<1>3. ~spoilt => Prepared'
  BY <1>1, <1>2 DEF StoreInv, Prepared, Known, Spared, Stored
<1> QED
  BY <1>1, <1>3, OursChange, StoreKeeps

LEMMA EndsKeepStore ==
  ASSUME StoreInv, TreeInv', FailToApply \/ ApplyEnds \/ CleanEnds PROVE StoreInv'
<1>1. CASE FailToApply \/ ApplyEnds
  <2>1. PICK well \in BOOLEAN : Finishes(well, NoBranch)
    BY <1>1 DEF FailToApply, ApplyEnds
  <2>2. job.tool # "restore" /\ UNCHANGED <<tree, store, spoilt>>
    BY <1>1 DEF FailToApply, ApplyEnds, Stuck, Patching, InTool
  <2> QED
    BY <2>1, <2>2, EndKeepsStore
<1>2. CASE CleanEnds
  BY <1>2, EndKeepsStore DEF CleanEnds, InTool
<1> QED
  BY <1>1, <1>2

LEMMA PatchesEndKeepsStore == ASSUME StoreInv, TreeInv', PatchesEnd PROVE StoreInv'
<1>1. UNCHANGED <<tree, store, ready, last, spoilt>> /\ job.at = "patches" /\ job.tool = "apply"
  BY DEF PatchesEnd, GoesOn, InTool
<1>2. CASE job' = [job EXCEPT !.pass = 1, !.n = 1, !.again = FALSE]
  <2>1. job'.at = job.at /\ job'.tool = job.tool /\ job'.left = job.left
    BY <1>2 DEF StoreInv, TreeInv, JobTyped, JobType
  <2> QED
    BY <1>1, <2>1, StepKeepsStore
<1>3. CASE MovesTo("rebrand", Branded)
  <2>1. JobTyped /\ "rebrand" \in Ats /\ Branded \in SUBSET Files
    BY TreeAssumption DEF StoreInv, TreeInv, Ats
  <2>2. job'.at = "rebrand" /\ job'.left = Branded /\ job'.tool = job.tool
    BY <1>3, <2>1, Moving
  <2>3. Restored' /\ LeftOf' /\ Prepared'
    BY <1>1, <2>2, NoneLast, OthersRun DEF StoreInv, LeftOf, Prepared
  <2> QED
    BY <1>1, <2>3, OursChange, StoreKeeps
<1> QED
  BY <1>2, <1>3 DEF PatchesEnd

LEMMA RebrandKeepsStore == ASSUME StoreInv, TreeInv', NEW f \in Files, Rebrand(f) PROVE StoreInv'
<1>1. UNCHANGED <<store, spoilt>> /\ job.at = "rebrand" /\ job.tool = "apply" /\ Stored(f)
  BY DEF Rebrand, InTool
<1>2. CASE tree' = [tree EXCEPT ![f] = Rebranded] /\ job' = [job EXCEPT !.left = @ \ {f}]
           /\ UNCHANGED <<ready, last>>
  <2>1. job'.at = job.at /\ job'.tool = job.tool /\ job'.left \subseteq job.left
    BY <1>2 DEF StoreInv, TreeInv, JobTyped, JobType
  <2>2. \A g \in Files : tree'[g] # tree[g] => Stored(g)
    BY <1>1, <1>2 DEF StoreInv, TreeInv, TextsWhole
  <2> QED
    BY <1>1, <1>2, <2>1, <2>2, StepKeepsStore
<1>3. CASE UNCHANGED tree /\ Finishes(FALSE, NoBranch)
  BY <1>1, <1>3, EndKeepsStore
<1> QED
  BY <1>2, <1>3 DEF Rebrand

\* The restore.
LEMMA ReversePatchKeepsStore == ASSUME StoreInv, TreeInv', ReversePatch PROVE StoreInv'
<1>1. UNCHANGED <<store, ready, last, spoilt>> /\ job.at = "reverse"
  BY DEF ReversePatch, GoesOn, InTool
<1>2. job'.at = job.at /\ job'.tool = job.tool /\ job'.left = job.left
  BY NextOne DEF ReversePatch, StoreInv, TreeInv
<1>3. \A f \in Files : f \in Touched(NewestFirst) => f \in Ours(Branches)
  <2>1. job.branch \in Branches /\ job.n \in Nat /\ job.n # 0 /\ job.n <= Len(Series[job.branch])
    BY WorksForBranch DEF StoreInv, TreeInv, ReversePatch
  <2>2. PICK i : i = Len(Series[job.branch]) + 1 - job.n
    OBVIOUS
  <2>3. i \in 1..Len(Series[job.branch])
    BY <2>1, <2>2, TreeAssumption
  <2> QED
    BY <2>1, <2>2, <2>3, TouchedIsOurs DEF NewestFirst
<1>4. \A f \in Files : tree'[f] # tree[f] => f \in Ours(Branches)
  BY <1>3 DEF ReversePatch, Reverse
<1> QED
  BY <1>1, <1>2, <1>4, StepKeepsStore

LEMMA ReverseEndsKeepsStore == ASSUME StoreInv, TreeInv', ReverseEnds PROVE StoreInv'
<1>1. UNCHANGED <<tree, store, ready, last, spoilt>> /\ job.at = "reverse"
  BY DEF ReverseEnds, GoesOn, InTool
<1> DEFINE fs == {f \in Files : Stored(f)}
<1>2. JobTyped /\ MovesTo("copies", fs) /\ "copies" \in Ats /\ fs \in SUBSET Files
  BY DEF ReverseEnds, StoreInv, TreeInv, Ats
<1>3. \A f \in Files : f \in fs <=> Stored(f)
  OBVIOUS
<1> HIDE DEF fs
<1>4. job'.at = "copies" /\ job'.left = fs
  BY <1>2, Moving
<1>5. LeftOf' /\ Prepared'
  BY <1>1, <1>2, <1>3, <1>4 DEF LeftOf, Prepared, Stored
<1>6. Restored'
  BY <1>1, <1>3, <1>4, NoneLast DEF StoreInv, Restored, InTool, Stored
<1> QED
  BY <1>1, <1>5, <1>6, OursChange, StoreKeeps

LEMMA CopyBackKeepsStore == ASSUME StoreInv, TreeInv', NEW f \in Files, CopyBack(f) PROVE StoreInv'
<1>1. UNCHANGED <<store, ready, last, spoilt>> /\ job.at = "copies" /\ f \in job.left
  BY DEF CopyBack, GoesOn
<1>2. job'.at = "copies" /\ job'.tool = job.tool /\ job'.left = job.left \ {f}
  BY <1>1 DEF CopyBack, StoreInv, TreeInv, JobTyped, JobType
<1>3. \A g \in Files : tree'[g] = IF g = f THEN store[g] ELSE tree[g]
  BY DEF CopyBack, PutBack
<1>4. Stored(f)
  BY <1>1 DEF StoreInv, LeftOf
<1>5. LeftOf' /\ Prepared'
  BY <1>1, <1>2 DEF StoreInv, LeftOf, Prepared, Stored
<1>6. last.tool = "none"
  BY <1>1, NoneLast DEF StoreInv
<1>7. Restored'
  BY <1>1, <1>2, <1>3, <1>6 DEF StoreInv, Restored, InTool, Stored
<1> QED
  BY <1>1, <1>3, <1>4, <1>5, <1>7, OursChange, StoreKeeps

LEMMA RestoreEndsKeepsStore == ASSUME StoreInv, TreeInv', RestoreEnds PROVE StoreInv'
<1>1. UNCHANGED <<tree, store, spoilt>> /\ InTool("restore", "copies") /\ job.left = {}
      /\ Finishes(TRUE, NoBranch)
  BY DEF RestoreEnds
<1>2. job' = NoJob /\ NoJob.at = "none" /\ NoJob.tool = "none" /\ ready' = NoBranch
  BY <1>1 DEF Finishes, NoJob
<1>3. LeftOf' /\ Prepared'
  BY <1>2 DEF LeftOf, Prepared
<1>4. Restored'
  BY <1>1, <1>2 DEF StoreInv, Restored, InTool, Stored
<1> QED
  BY <1>1, <1>3, <1>4, OursChange, StoreKeeps

LEMMA CleanStagesKeepStore ==
  ASSUME StoreInv, TreeInv', CopiedBack \/ SeedsEnd \/ ForeignEnds PROVE StoreInv'
<1>1. UNCHANGED <<tree, store, ready, last, spoilt>> /\ job.at # "none"
      /\ job.tool = "clean" /\ job'.tool = "clean" /\ job'.branch = job.branch
  BY CleanStages DEF StoreInv, GoesOn, CopiedBack, SeedsEnd, ForeignEnds, InTool
<1>2. CASE CopiedBack
  <2>1. PICK seen \in Sights :
          job'.at = "seeds" /\ job'.left = Seeds(seen) /\ job'.hidden = Unfound(job.branch, seen)
    BY <1>2, CleanStages DEF StoreInv
  <2>2. Seeds(seen) \subseteq Seedable
    BY TreeAssumption DEF Seeds, Seedable, Ours, ByFile
  <2>3. Known(job.branch, Seedable \ Seeds(seen), Unfound(job.branch, seen))
    BY DEF Known, Seeds, Unfound, Seedable, Spared
  <2>4. Prepared'
    BY <1>1, <2>1, <2>3 DEF Prepared, Known, Spared, Stored
  <2>5. LeftOf' /\ Restored'
    BY <1>1, <2>1, <2>2, NoneLast, OthersRun DEF StoreInv, LeftOf
  <2> QED
    BY <1>1, <2>4, <2>5, OursChange, StoreKeeps
<1>3. CASE SeedsEnd \/ ForeignEnds
  <2>1. job'.at \in {"foreign", "created"} /\ job.hidden \subseteq job'.hidden
    BY <1>3, CleanStages DEF StoreInv
  <2>2. ~spoilt => Known(job.branch, Seedable, job.hidden)
    BY <1>3 DEF SeedsEnd, ForeignEnds, InTool, StoreInv, Prepared
  <2>3. ~spoilt => Prepared'
    BY <1>1, <2>1, <2>2 DEF Prepared, Known, Spared, Stored
  <2>4. LeftOf' /\ Restored'
    BY <1>1, <2>1, NoneLast, OthersRun DEF StoreInv, LeftOf
  <2> QED
    BY <1>1, <2>3, <2>4, OursChange, StoreKeeps
<1> QED
  BY <1>2, <1>3

LEMMA SeedKeepsStore == ASSUME StoreInv, TreeInv', NEW f \in Files, Seed(f) PROVE StoreInv'
<1>1. UNCHANGED <<ready, last, spoilt>> /\ job.at = "seeds" /\ f \in job.left /\ f \in Seedable
  BY DEF Seed, GoesOn, InTool, StoreInv, LeftOf
<1>2. /\ job'.at = "seeds" /\ job'.tool = job.tool /\ job'.left = job.left \ {f}
      /\ job'.branch = job.branch /\ job'.hidden = job.hidden
  BY Seeding DEF StoreInv, TreeInv
<1>3. Original[f] # Absent /\ f \in Native
  BY <1>1 DEF Seedable, Native
<1>4. store'[f] = Original[f] /\ \A g \in Files : g # f => store'[g] = store[g]
  BY DEF Seed, StoreInv, TreeInv, TextsWhole
<1>5. \A g \in Files : g # f => tree'[g] = tree[g]
  BY DEF Seed, StoreInv, TreeInv, TextsWhole
<1>6. LeftOf' /\ Restored'
  BY <1>1, <1>2, NoneLast, OthersRun DEF StoreInv, LeftOf
<1>7. ~spoilt => \A g \in Files : Mild(g)
  BY <1>3, <1>4, <1>5 DEF Mild, Stored, StoreInv, CopiesRight
<1>8. ~spoilt => Prepared'
  <2>1. Stored(f)'
    BY <1>3, <1>4 DEF Stored
  <2>2. \A g \in Seedable : g \in Files
    BY DEF Seedable, Ours, ByFile
  <2>3. \A g \in Seedable : g = f \/ Spared(g) => Spared(g)'
    BY <1>4, <1>5, <2>1, <2>2 DEF Spared, Stored
  <2>4. ~spoilt => Known(job.branch, Seedable \ job.left, job.hidden)
    BY <1>1 DEF StoreInv, Prepared
  <2> QED
    BY <1>2, <2>3, <2>4 DEF Prepared, Known
<1> QED
  BY <1>1, <1>6, <1>7, <1>8, StoreKeeps

LEMMA TryForeignKeepsStore ==
  ASSUME StoreInv, TreeInv', NEW x \in job.untried, TryForeign(x[1], x[2], x[3])
  PROVE  StoreInv'
<1> PICK f : f = x[3]
  OBVIOUS
<1>1. UNCHANGED <<store, ready, last, spoilt>> /\ job.at = "foreign"
  BY Tries DEF GoesOn, StoreInv, TreeInv
<1>2. /\ job'.at = job.at /\ job'.tool = job.tool
      /\ job'.branch = job.branch /\ job'.hidden = job.hidden
  BY Tries DEF StoreInv, TreeInv
<1>3. f \in Substituted /\ f \in Ours(Branches)
  <2>1. x[1] \in Branches /\ x[3] \in Substituted /\ x[3] \in Files /\ x[2] \in PatchesOf(x[1], x[3])
    BY Tries DEF StoreInv, TreeInv
  <2> QED
    BY <2>1 DEF Ours, ByFile
<1>4. \A g \in Files : tree'[g] # tree[g] => g = f
  BY Tries DEF Reverse, StoreInv, TreeInv
<1>5. LeftOf' /\ Restored'
  BY <1>1, <1>2, NoneLast, OthersRun DEF StoreInv, LeftOf
<1>6. \A g \in Seedable : g \in Files /\ tree'[g] = tree[g]
  BY <1>3, <1>4 DEF Seedable, Ours, ByFile
<1>7. ~spoilt => Prepared'
  BY <1>1, <1>2, <1>6 DEF StoreInv, Prepared, Known, Spared, Stored
<1> QED
  BY <1>1, <1>3, <1>4, <1>5, <1>7, OursChange, StoreKeeps

LEMMA RemoveCreatedKeepsStore == ASSUME StoreInv, TreeInv', RemoveCreated PROVE StoreInv'
<1>1. UNCHANGED <<store, ready, last, spoilt>> /\ job.at = "created"
  BY DEF RemoveCreated, GoesOn, InTool
<1>2. /\ job'.at = job.at /\ job'.tool = job.tool
      /\ job'.branch = job.branch /\ job'.hidden = job.hidden
  BY NextOne DEF RemoveCreated, StoreInv, TreeInv
<1>3. \A f \in Files : f \in Touched(Patch) => f \in Ours(Branches)
  BY PatchIsOurs DEF StoreInv, TreeInv, RemoveCreated
<1>4. Stale(Patch) \subseteq Touched(Patch)
  BY DEF Stale, Created
<1>5. \A f \in Files : tree'[f] # tree[f] => f \in Ours(Branches) /\ tree'[f] = Absent
  BY <1>3, <1>4 DEF RemoveCreated
<1>6. LeftOf' /\ Restored'
  BY <1>1, <1>2, NoneLast, OthersRun DEF StoreInv, LeftOf
<1>7. \A f \in Seedable : f \in Files
  BY DEF Seedable, Ours, ByFile
<1>8. ~spoilt => Prepared'
  BY <1>1, <1>2, <1>5, <1>7 DEF StoreInv, Prepared, Known, Spared, Stored
<1> QED
  BY <1>1, <1>5, <1>6, <1>8, OursChange, StoreKeeps

\* What is killed leaves nothing to do, and no branch that the tree is ready for.
LEMMA KilledStore ==
  ASSUME StoreInv, TreeInv', Killed, job.at # "none" \/ job.left # {} \/ UNCHANGED <<tree, store>>,
         spoilt => spoilt', ~spoilt' => \A f \in Files : Mild(f)
  PROVE  StoreInv'
<1>1. job' = NoJob /\ NoJob.at = "none" /\ NoJob.tool = "none" /\ ready' = NoBranch /\ last' = last
  BY DEF Killed, NoJob
<1>2. LeftOf' /\ Prepared'
  BY <1>1 DEF LeftOf, Prepared
<1>3. CASE job.at # "none" \/ job.left # {}
  <2>1. Restored'
    BY <1>1, <1>3, NoneLast, OthersRun DEF StoreInv
  <2> QED
    BY <1>2, <2>1, StoreKeeps
<1>4. CASE UNCHANGED <<tree, store>>
  <2>1. Restored'
    BY <1>1, <1>4 DEF StoreInv, Restored, InTool, Stored
  <2> QED
    BY <1>2, <2>1, StoreKeeps
<1> QED
  BY <1>3, <1>4

LEMMA KillsKeepStore ==
  ASSUME StoreInv, TreeInv',
         \/ KillBetween
         \/ \E f \in Files : KillInCopy(f) \/ KillInSave(f) \/ KillInSeed(f)
         \/ \E fs \in SUBSET Rewinding : KillInRewind(fs)
  PROVE  StoreInv'
<1>1. CASE KillBetween
  BY <1>1, KilledStore, OursChange DEF KillBetween
<1>2. ASSUME NEW f \in Files, KillInCopy(f) PROVE StoreInv'
  <2>1. \A g \in Files : g # f => tree'[g] = tree[g]
    BY <1>2 DEF KillInCopy, StoreInv, TreeInv, TextsWhole
  <2>2. ~spoilt => \A g \in Files : Mild(g)
    BY <1>2, <2>1, LaidMild DEF KillInCopy
  <2> QED
    BY <1>2, <2>2, KilledStore DEF KillInCopy
<1>3. ASSUME NEW f \in Files, KillInSave(f) PROVE StoreInv'
  BY <1>3, KilledStore DEF KillInSave
<1>4. ASSUME NEW f \in Files, KillInSeed(f) PROVE StoreInv'
  <2>1. f \in Seedable /\ job.at = "seeds" /\ Killed /\ spoilt' = spoilt
    BY <1>4 DEF KillInSeed, InTool, StoreInv, LeftOf
  <2>2. Original[f] # Absent /\ f \in Native
    BY <2>1 DEF Seedable, Native
  <2>3. store'[f] = Original[f] /\ \A g \in Files : g # f => store'[g] = store[g]
    BY <1>4 DEF KillInSeed, StoreInv, TreeInv, TextsWhole
  <2>4. \A g \in Files : g # f => tree'[g] = tree[g]
    BY <1>4 DEF KillInSeed, StoreInv, TreeInv, TextsWhole
  <2>5. ~spoilt => \A g \in Files : Mild(g)
    BY <2>2, <2>3, <2>4 DEF Mild, Stored, StoreInv, CopiesRight
  <2> QED
    BY <2>1, <2>5, KilledStore
<1>5. ASSUME NEW fs \in SUBSET Rewinding, KillInRewind(fs) PROVE StoreInv'
  <2>1. job.at = "patches" /\ \A f \in fs : Stored(f)
    BY <1>5 DEF KillInRewind, Rewinding, Rewound, Stuck, Patching, InTool
  <2>2. \A f \in Files : tree'[f] # tree[f] => Stored(f)
    BY <1>5, <2>1 DEF KillInRewind, PutBack
  <2> QED
    BY <1>5, <2>1, <2>2, OursChange, KilledStore DEF KillInRewind
<1> QED
  BY <1>1, <1>2, <1>3, <1>4, <1>5

LEMMA KillInGitKeepsStore ==
  ASSUME StoreInv, TreeInv', NEW removed \in SUBSET Changing, NEW written \in SUBSET Changing,
         KillInGit(removed, written)
  PROVE  StoreInv'
<1>1. Patching /\ Changing = Touched(Patch) /\ job.at = "patches"
  BY DEF KillInGit, Changing, Patching, InTool
<1>2. \A f \in Files : f \in Touched(Patch) => f \in Ours(Branches)
  BY <1>1, PatchIsOurs DEF StoreInv, TreeInv, Patching
<1>3. \A f \in Files : tree'[f] # tree[f] => f \in Ours(Branches)
  BY <1>1, <1>2 DEF KillInGit
<1>4. UNCHANGED store /\ Killed /\ (spoilt => spoilt')
  BY DEF KillInGit
<1> QED
  BY <1>1, <1>3, <1>4, OursChange, KilledStore

LEMMA StoreInvNext == ASSUME StoreInv, [TreeNext]_treeVars PROVE StoreInv'
<1>1. TreeInv'
  BY TreeInvNext DEF StoreInv
<1>2. CASE UNCHANGED treeVars
  <2>1. LeftOf' /\ Restored' /\ (Prepared' <=> Prepared) /\ (CopiesRight' <=> CopiesRight)
        /\ (Untouched' <=> Untouched)
    BY <1>2 DEF treeVars, StoreInv, LeftOf, Restored, Prepared, Known, Spared, CopiesRight,
                Untouched, Stored, InTool
  <2> QED
    BY <1>1, <1>2, <2>1 DEF StoreInv, treeVars
<1>3. CASE \E b \in Branches : StartApply(b) \/ StartRestore(b) \/ StartClean(b)
  BY <1>1, <1>3, StartsKeepStore
<1>4. CASE Sync \/ OverlaidAll \/ AlreadyApplied \/ ApplyPatch \/ Rewind \/ FailToApply
           \/ PatchesEnd \/ ApplyEnds
  BY <1>1, <1>4, SyncKeepsStore, OverlaidAllKeepsStore, PatchStepsKeepStore, EndsKeepStore,
     PatchesEndKeepsStore
<1>5. CASE ReversePatch \/ ReverseEnds \/ RestoreEnds
  BY <1>1, <1>5, ReversePatchKeepsStore, ReverseEndsKeepsStore, RestoreEndsKeepsStore
<1>6. CASE CopiedBack \/ SeedsEnd \/ ForeignEnds \/ RemoveCreated \/ CleanEnds
  BY <1>1, <1>6, CleanStagesKeepStore, RemoveCreatedKeepsStore, EndsKeepStore
<1>7. CASE \E f \in Files : Snapshot(f) \/ OverlayFile(f) \/ Rebrand(f) \/ CopyBack(f) \/ Seed(f)
  BY <1>1, <1>7, SnapshotKeepsStore, OverlayFileKeepsStore, RebrandKeepsStore,
     CopyBackKeepsStore, SeedKeepsStore
<1>8. CASE \E x \in job.untried : TryForeign(x[1], x[2], x[3])
  BY <1>1, <1>8, TryForeignKeepsStore
<1>9. CASE \/ KillBetween
           \/ \E f \in Files : KillInCopy(f) \/ KillInSave(f) \/ KillInSeed(f)
           \/ \E fs \in SUBSET Rewinding : KillInRewind(fs)
  BY <1>1, <1>9, KillsKeepStore
<1>10. CASE \E removed, written \in SUBSET Changing : KillInGit(removed, written)
  BY <1>1, <1>10, KillInGitKeepsStore
<1> QED
  BY <1>2, <1>3, <1>4, <1>5, <1>6, <1>7, <1>8, <1>9, <1>10 DEF TreeNext

\* Whichever branches build in the tree, one after another, and whatever is killed, but
\* for the saving of an original: what the store has of a file is what Chromium has
\* there.  It is never a branch's overlay, its patched text or half a copy, unless the
\* overlay was laid on a file changed by a branch whose patches clean_tree.py did not find.
THEOREM StoreHoldsOriginals == TreeSpec => []StoreIsOriginal
<1>1. StoreInv => StoreIsOriginal
  BY DEF StoreInv, CopiesRight, Native, StoreIsOriginal
<1> QED
  BY <1>1, StoreInvInit, StoreInvNext, PTL DEF TreeSpec

-----------------------------------------------------------------------------
(* What the patches of a series make of a file *)

LEMMA LeastOfNat ==
  ASSUME NEW S, S \subseteq Nat, S # {}
  PROVE  \E i \in S : \A j \in S : i <= j
<1> DEFINE R == OpToRel(<, Nat)
<1>1. IsWellFoundedOn(R, Nat)
  BY NatLessThanWellFounded
<1>2. \A i, j \in Nat : j < i => <<j, i>> \in R
  BY DEF OpToRel
<1> HIDE DEF R
<1>3. PICK i \in S : \A j \in S : ~(<<j, i>> \in R)
  BY <1>1, WFMin
<1>4. \A j \in S : i \in Nat /\ j \in Nat /\ ~(j < i)
  BY <1>2, <1>3
<1>5. \A j \in S : i <= j
  BY <1>4
<1> QED
  BY <1>5

LEMMA PatchNumbers ==
  ASSUME NEW b \in Branches, NEW f, NEW i \in PatchesOf(b, f)
  PROVE  /\ i \in 1..Len(Series[b]) /\ i \in Nat /\ i - 1 \in Nat /\ Len(Series[b]) \in Nat
         /\ IsPatch(Series[b][i]) /\ f \in Touched(Series[b][i])
         /\ f \in Files /\ f \in ByFile(b) /\ f \in Ours(Branches)
<1>1. i \in 1..Len(Series[b]) /\ f \in Touched(Series[b][i]) /\ Len(Series[b]) \in Nat
  BY TreeAssumption DEF PatchesOf
<1>2. IsPatch(Series[b][i])
  BY <1>1, TreeAssumption
<1>3. f \in Files
  BY <1>1, <1>2 DEF IsPatch
<1> QED
  BY <1>1, <1>2, <1>3 DEF ByFile, Ours

LEMMA PatchParts ==
  ASSUME NEW b \in Branches, NEW f, NEW i \in PatchesOf(b, f)
  PROVE  /\ Series[b][i][f].to # Absent
         /\ DOMAIN Series[b][i][f].to # {} /\ DOMAIN Series[b][i][f].to \subseteq Places
         /\ Series[b][i][f].from = Absent => DOMAIN Series[b][i][f].to = Places
         /\ Series[b][i][f].from # Absent =>
              DOMAIN Series[b][i][f].from = DOMAIN Series[b][i][f].to
BY PatchNumbers, AbsentHasNothing DEF IsPatch

\* The n-th patch changes its places, and the others are as the patches before it left
\* them.
LEMMA LastChanger ==
  ASSUME NEW b \in Branches, NEW f, NEW n \in PatchesOf(b, f),
         NEW s \in DOMAIN Series[b][n][f].to
  PROVE  n \in ChangersAt(b, f, s, n) /\ Max(ChangersAt(b, f, s, n)) = n
<1>1. n \in ChangersAt(b, f, s, n) /\ \A i \in ChangersAt(b, f, s, n) : i \in Nat /\ i <= n
  BY PatchNumbers DEF ChangersAt
<1> HIDE DEF ChangersAt
<1>2. \A m \in ChangersAt(b, f, s, n) :
        (\A i \in ChangersAt(b, f, s, n) : m >= i) => m = n
  BY <1>1
<1>3. \A i \in ChangersAt(b, f, s, n) : n >= i
  BY <1>1
<1> QED
  BY <1>1, <1>2, <1>3 DEF Max

LEMMA OtherChangers ==
  ASSUME NEW b \in Branches, NEW f, NEW n \in Int, NEW s,
         n \notin PatchesOf(b, f) \/ s \notin DOMAIN Series[b][n][f].to
  PROVE  ChangersAt(b, f, s, n) = ChangersAt(b, f, s, n - 1)
<1>1. \A i \in PatchesOf(b, f) : i \in Nat
  BY PatchNumbers
<1>2. \A i \in PatchesOf(b, f) : (i <= n /\ i # n) <=> i <= n - 1
  BY <1>1
<1> QED
  BY <1>2 DEF ChangersAt

LEMMA PatchedByOne ==
  ASSUME NEW b \in Branches, NEW f, NEW n \in PatchesOf(b, f), NEW text
  PROVE  Patched(b, f, text, n) =
           [s \in Places |-> IF s \in DOMAIN Series[b][n][f].to THEN Series[b][n][f].to[s]
                             ELSE Patched(b, f, text, n - 1)[s]]
<1>1. n \in Nat /\ \A i \in PatchesOf(b, f) : i \in Nat
  BY PatchNumbers
<1>2. Patched(b, f, text, n) =
        [s \in Places |-> IF ChangersAt(b, f, s, n) = {} THEN text[s]
                          ELSE Series[b][Max(ChangersAt(b, f, s, n))][f].to[s]]
  BY <1>1 DEF Patched
<1>3. ASSUME NEW s \in Places, s \in DOMAIN Series[b][n][f].to
      PROVE  Patched(b, f, text, n)[s] = Series[b][n][f].to[s]
  <2>1. ChangersAt(b, f, s, n) # {} /\ Max(ChangersAt(b, f, s, n)) = n
    BY <1>3, LastChanger
  <2> QED
    BY <1>2, <2>1
<1>4. ASSUME NEW s \in Places, s \notin DOMAIN Series[b][n][f].to
      PROVE  Patched(b, f, text, n)[s] = Patched(b, f, text, n - 1)[s]
  <2>1. ChangersAt(b, f, s, n) = ChangersAt(b, f, s, n - 1)
    BY <1>1, <1>4, OtherChangers
  <2>2. CASE \A i \in PatchesOf(b, f) : i > n - 1
    <3>1. \A i \in PatchesOf(b, f) : ~(i <= n - 1)
      BY <1>1, <2>2
    <3>2. ChangersAt(b, f, s, n - 1) = {}
      BY <3>1 DEF ChangersAt
    <3>3. Patched(b, f, text, n - 1) = text
      BY <2>2 DEF Patched
    <3> QED
      BY <1>2, <2>1, <3>2, <3>3
  <2>3. CASE ~\A i \in PatchesOf(b, f) : i > n - 1
    <3>1. Patched(b, f, text, n - 1) =
            [t \in Places |-> IF ChangersAt(b, f, t, n - 1) = {} THEN text[t]
                              ELSE Series[b][Max(ChangersAt(b, f, t, n - 1))][f].to[t]]
      BY <2>3 DEF Patched
    <3> QED
      BY <1>2, <2>1, <3>1
  <2> QED
    BY <2>2, <2>3
<1> QED
  BY <1>2, <1>3, <1>4

LEMMA PatchedPassesBy ==
  ASSUME NEW b \in Branches, NEW f, NEW n \in Int, n \notin PatchesOf(b, f), NEW text
  PROVE  Patched(b, f, text, n) = Patched(b, f, text, n - 1)
<1>1. \A i \in PatchesOf(b, f) : i \in Nat /\ i # n
  BY PatchNumbers
<1>2. \A i \in PatchesOf(b, f) : i > n <=> i > n - 1
  BY <1>1
<1>3. \A s : ChangersAt(b, f, s, n) = ChangersAt(b, f, s, n - 1)
  BY OtherChangers
<1> QED
  BY <1>2, <1>3 DEF Patched

\* A text that was there stays one, and one that was made is one.
LEMMA PatchedText ==
  ASSUME NEW b \in Branches, NEW f, NEW n, NEW text
  PROVE  \/ Patched(b, f, text, n) = text
         \/ /\ DOMAIN Patched(b, f, text, n) = Places
            /\ Patched(b, f, text, n) # Absent
BY AbsentHasNothing DEF Patched

\* A patch that makes a file is the first of its series on it, and Chromium has none.
LEMMA MadeByPatch ==
  ASSUME NEW b \in Branches, NEW f, NEW i \in PatchesOf(b, f), Series[b][i][f].from = Absent
  PROVE  Original[f] = Absent /\ \A s : ChangersAt(b, f, s, i - 1) = {}
<1>1. GoOn(b, f, Original[f])
  BY PatchNumbers, TreeAssumption
<1>2. Patched(b, f, Original[f], i - 1) = Absent
  BY <1>1 DEF GoOn, Holds
<1>3. \A j \in PatchesOf(b, f) : j > i - 1
  BY <1>2, AbsentHasNothing DEF Patched
<1>4. Original[f] = Absent
  BY <1>2, <1>3 DEF Patched
<1>5. \A j \in PatchesOf(b, f) : j \in Nat /\ i - 1 \in Nat
  BY PatchNumbers
<1>6. \A j \in PatchesOf(b, f) : ~(j <= i - 1)
  BY <1>3, <1>5
<1> QED
  BY <1>4, <1>6 DEF ChangersAt

\* The first patch of a series on a file goes on over what Chromium has.
LEMMA FirstPatch ==
  ASSUME NEW b \in Branches, NEW f, PatchesOf(b, f) # {}
  PROVE  \E i \in PatchesOf(b, f) : Holds(Original[f], Series[b][i][f].from)
<1>1. PatchesOf(b, f) \subseteq Nat
  BY PatchNumbers
<1>2. PICK i \in PatchesOf(b, f) : \A j \in PatchesOf(b, f) : i <= j
  BY <1>1, LeastOfNat
<1>3. \A j \in PatchesOf(b, f) : j > i - 1
  BY <1>1, <1>2
<1>4. Patched(b, f, Original[f], i - 1) = Original[f]
  BY <1>3 DEF Patched
<1>5. GoOn(b, f, Original[f])
  BY PatchNumbers, TreeAssumption
<1>6. Holds(Patched(b, f, Original[f], i - 1), Series[b][i][f].from)
  BY <1>5 DEF GoOn
<1> QED
  BY <1>4, <1>6

\* A file that Chromium does not have is the patches' at every place.
LEMMA AllOfOurs ==
  ASSUME NEW b \in Branches, NEW f, PatchesOf(b, f) # {}, Original[f] = Absent, NEW s \in Places
  PROVE  ChangersAt(b, f, s, Len(Series[b])) # {}
<1>1. PICK i \in PatchesOf(b, f) : Holds(Original[f], Series[b][i][f].from)
  BY FirstPatch
<1>2. Series[b][i][f].from = Absent
  BY <1>1 DEF Holds
<1>3. s \in DOMAIN Series[b][i][f].to /\ i <= Len(Series[b])
  BY <1>2, PatchParts, PatchNumbers
<1> QED
  BY <1>3 DEF ChangersAt

\* Where a file is contested by nobody, every patch on it is the same change.
LEMMA OneChange ==
  ASSUME NEW f \in Substituted \ Contested,
         NEW b \in Branches, NEW i \in PatchesOf(b, f), NEW c \in Branches, NEW j \in PatchesOf(c, f)
  PROVE  Series[b][i][f] = Series[c][j][f]
BY DEF Contested

LEMMA ChangeAndBack ==
  ASSUME NEW f \in Substituted \ Contested, NEW b \in Branches, NEW i \in PatchesOf(b, f), NEW text,
         text = Original[f] \/ text = Edited(Original[f], Series[b][i][f].to)
  PROVE  /\ Edited(text, Series[b][i][f].to) = Edited(Original[f], Series[b][i][f].to)
         /\ Edited(text, Series[b][i][f].from) = Original[f]
         /\ text # Absent
<1> DEFINE to == Series[b][i][f].to
           from == Series[b][i][f].from
<1>1. f \in Files /\ Original[f] # Absent /\ IsText(Original[f])
  BY PatchNumbers, TreeAssumption
<1>2. DOMAIN Original[f] = Places /\ Original[f] = [s \in Places |-> Original[f][s]]
  BY <1>1, AbsentHasNothing
<1>3. Holds(Original[f], from)
  <2>1. PICK j \in PatchesOf(b, f) : Holds(Original[f], Series[b][j][f].from)
    BY FirstPatch
  <2>2. Series[b][j][f] = Series[b][i][f]
    BY OneChange
  <2> QED
    BY <2>1, <2>2
<1>4. from # Absent
  BY <1>1, <1>3 DEF Holds
<1>5. to # Absent /\ DOMAIN from = DOMAIN to /\ DOMAIN to \subseteq Places
  BY <1>4, PatchParts
<1>6. text = Original[f] \/ text = Edited(Original[f], to)
  OBVIOUS
<1> HIDE DEF to, from
<1>7. Edited(Original[f], to) = [s \in Places |-> IF s \in DOMAIN to THEN to[s] ELSE Original[f][s]]
  BY <1>1, <1>5 DEF Edited
<1>8. DOMAIN text = Places
  BY <1>2, <1>6, <1>7
<1>9. text # Absent
  BY <1>8, AbsentHasNothing
<1>10. \A s \in Places : s \notin DOMAIN to => text[s] = Original[f][s]
  BY <1>6, <1>7
<1>11. Edited(text, to) = [s \in Places |-> IF s \in DOMAIN to THEN to[s] ELSE text[s]]
  BY <1>5, <1>9 DEF Edited
<1>12. Edited(text, from) = [s \in Places |-> IF s \in DOMAIN from THEN from[s] ELSE text[s]]
  BY <1>4, <1>9 DEF Edited
<1>13. \A s \in DOMAIN from : Original[f][s] = from[s]
  BY <1>1, <1>3, <1>4 DEF Holds
<1>14. Edited(text, to) = Edited(Original[f], to)
  BY <1>7, <1>10, <1>11
<1>15. Edited(text, from) = [s \in Places |-> Original[f][s]]
  BY <1>5, <1>10, <1>12, <1>13
<1> QED
  BY <1>2, <1>9, <1>14, <1>15 DEF to, from

-----------------------------------------------------------------------------
(* How far the patches have come *)

End(b) == Len(Series[b])

\* Wherever one of the first n patches of the branch has changed a file, the file has
\* what the last of them left there.
DoneUpTo(b, n) ==
  \A f \in Files, s \in Places :
    ChangersAt(b, f, s, n) # {} =>
      tree[f] # Absent /\ tree[f][s] = Patched(b, f, Original[f], n)[s]

\* apply.py puts one patch after another, unless it has rewound one and has to go over
\* them again; --restore takes them off in the other order.
Progress ==
  /\ InTool("apply", "patches") /\ ~job.again => DoneUpTo(job.branch, job.n - 1)
  /\ job.at = "rebrand" => DoneUpTo(job.branch, End(job.branch))
  /\ InTool("restore", "reverse") => DoneUpTo(job.branch, End(job.branch) + 1 - job.n)
  /\ \A b \in Branches : Succeeded("apply", b) => DoneUpTo(b, End(b))

LEMMA NothingDone ==
  ASSUME job'.at \notin {"patches", "rebrand", "reverse"}, last'.tool # "apply" \/ ~last'.well
  PROVE  Progress'
BY DEF Progress, InTool, Succeeded

LEMMA DonePast ==
  ASSUME NEW b \in Branches, NEW n \in Nat, n > End(b), DoneUpTo(b, n - 1)
  PROVE  DoneUpTo(b, End(b))
<1>1. End(b) \in Nat
  BY TreeAssumption DEF End
<1>2. \A f, i : i \in PatchesOf(b, f) => i \in Nat /\ i <= End(b)
  BY PatchNumbers DEF End
<1>3. \A f : \A i \in PatchesOf(b, f) : i <= n - 1 /\ i <= End(b)
  BY <1>1, <1>2
<1>4. \A f, s : ChangersAt(b, f, s, n - 1) = ChangersAt(b, f, s, End(b))
  BY <1>3 DEF ChangersAt
<1>5. \A f : (\A i \in PatchesOf(b, f) : i > n - 1) <=> (\A i \in PatchesOf(b, f) : i > End(b))
  BY <1>1, <1>2
<1>6. \A f \in Files : Patched(b, f, Original[f], n - 1) = Patched(b, f, Original[f], End(b))
  BY <1>4, <1>5 DEF Patched
<1> QED
  BY <1>4, <1>6 DEF DoneUpTo

\* A patch that goes on is in, and the patches before it still are.
LEMMA PatchPutOn ==
  ASSUME NEW b \in Branches, NEW n \in 1..Len(Series[b]), DoneUpTo(b, n - 1),
         \A f \in Files : f \notin Touched(Series[b][n]) => tree'[f] = tree[f],
         \A f \in Files : f \in Touched(Series[b][n]) =>
           /\ tree'[f] # Absent
           /\ \A s \in DOMAIN Series[b][n][f].to : tree'[f][s] = Series[b][n][f].to[s]
           /\ \A s \in Places \ DOMAIN Series[b][n][f].to : tree[f] # Absent => tree'[f][s] = tree[f][s]
  PROVE  DoneUpTo(b, n)'
<1>1. n \in Int
  BY TreeAssumption
<1> SUFFICES ASSUME NEW f \in Files, NEW s \in Places, ChangersAt(b, f, s, n) # {}
             PROVE  tree'[f] # Absent /\ tree'[f][s] = Patched(b, f, Original[f], n)[s]
  BY DEF DoneUpTo
<1>2. CASE n \notin PatchesOf(b, f)
  <2>1. ChangersAt(b, f, s, n) = ChangersAt(b, f, s, n - 1)
    BY <1>1, <1>2, OtherChangers
  <2>2. Patched(b, f, Original[f], n) = Patched(b, f, Original[f], n - 1)
    BY <1>1, <1>2, PatchedPassesBy
  <2>3. f \notin Touched(Series[b][n])
    BY <1>2 DEF PatchesOf
  <2> QED
    BY <2>1, <2>2, <2>3 DEF DoneUpTo
<1>3. CASE n \in PatchesOf(b, f)
  <2>1. Patched(b, f, Original[f], n) =
           [t \in Places |-> IF t \in DOMAIN Series[b][n][f].to THEN Series[b][n][f].to[t]
                             ELSE Patched(b, f, Original[f], n - 1)[t]]
    BY <1>3, PatchedByOne
  <2>2. f \in Touched(Series[b][n])
    BY <1>3, PatchNumbers
  <2>3. CASE s \in DOMAIN Series[b][n][f].to
    BY <2>1, <2>2, <2>3
  <2>4. CASE s \notin DOMAIN Series[b][n][f].to
    <3>1. ChangersAt(b, f, s, n) = ChangersAt(b, f, s, n - 1)
      BY <1>1, <2>4, OtherChangers
    <3>2. tree[f] # Absent /\ tree[f][s] = Patched(b, f, Original[f], n - 1)[s]
      BY <3>1 DEF DoneUpTo
    <3> QED
      BY <2>1, <2>2, <2>4, <3>2
  <2> QED
    BY <2>3, <2>4
<1> QED
  BY <1>2, <1>3

\* The newest of the patches that are in is in, so that it can be taken off.
LEMMA NewestIsIn ==
  ASSUME NEW b \in Branches, NEW n \in 1..Len(Series[b]), DoneUpTo(b, n)
  PROVE  IsIn(tree, Series[b][n], Touched(Series[b][n]))
<1> SUFFICES ASSUME NEW f \in Touched(Series[b][n]) PROVE Holds(tree[f], Series[b][n][f].to)
  BY DEF IsIn
<1>1. n \in PatchesOf(b, f)
  BY DEF PatchesOf
<1>2. f \in Files
  BY <1>1, PatchNumbers
<1>3. Series[b][n][f].to # Absent /\ DOMAIN Series[b][n][f].to # {}
      /\ DOMAIN Series[b][n][f].to \subseteq Places
  BY <1>1, PatchParts
<1>4. ASSUME NEW s \in DOMAIN Series[b][n][f].to
      PROVE  tree[f] # Absent /\ tree[f][s] = Series[b][n][f].to[s]
  <2>1. ChangersAt(b, f, s, n) # {}
    BY <1>1, LastChanger
  <2>2. tree[f] # Absent /\ tree[f][s] = Patched(b, f, Original[f], n)[s]
    BY <1>2, <1>3, <2>1 DEF DoneUpTo
  <2>3. Patched(b, f, Original[f], n)[s] = Series[b][n][f].to[s]
    BY <1>1, <1>3, PatchedByOne
  <2> QED
    BY <2>2, <2>3
<1> QED
  BY <1>3, <1>4 DEF Holds

LEMMA PatchTakenOff ==
  ASSUME NEW b \in Branches, NEW n \in 1..Len(Series[b]), DoneUpTo(b, n),
         tree' = Reverse(tree, Series[b][n], Touched(Series[b][n]))
  PROVE  DoneUpTo(b, n - 1)'
<1>1. n \in Int
  BY TreeAssumption
<1> SUFFICES ASSUME NEW f \in Files, NEW s \in Places, ChangersAt(b, f, s, n - 1) # {}
             PROVE  tree'[f] # Absent /\ tree'[f][s] = Patched(b, f, Original[f], n - 1)[s]
  BY DEF DoneUpTo
<1>2. CASE n \notin PatchesOf(b, f)
  <2>1. ChangersAt(b, f, s, n) = ChangersAt(b, f, s, n - 1)
    BY <1>1, <1>2, OtherChangers
  <2>2. Patched(b, f, Original[f], n) = Patched(b, f, Original[f], n - 1)
    BY <1>1, <1>2, PatchedPassesBy
  <2>3. f \notin Touched(Series[b][n])
    BY <1>2 DEF PatchesOf
  <2>4. tree'[f] = tree[f]
    BY <2>3 DEF Reverse
  <2> QED
    BY <2>1, <2>2, <2>4 DEF DoneUpTo
<1>3. CASE n \in PatchesOf(b, f)
  <2> DEFINE from == Series[b][n][f].from
             to == Series[b][n][f].to
             before == Patched(b, f, Original[f], n - 1)
  <2>1. f \in Touched(Series[b][n])
    BY <1>3, PatchNumbers
  <2>2. tree'[f] = Edited(tree[f], from)
    BY <2>1 DEF Reverse
  <2>3. from # Absent
    BY <1>3, MadeByPatch
  <2>4. DOMAIN from = DOMAIN to /\ DOMAIN to # {} /\ DOMAIN to \subseteq Places
    BY <1>3, <2>3, PatchParts
  <2>5. tree[f] # Absent
    <3>1. PICK t \in DOMAIN to : t \in Places
      BY <2>4
    <3>2. ChangersAt(b, f, t, n) # {}
      BY <1>3, LastChanger
    <3> QED
      BY <3>1, <3>2 DEF DoneUpTo
  <2>6. Holds(before, from)
    <3>1. GoOn(b, f, Original[f])
      BY <1>3, PatchNumbers, TreeAssumption
    <3> QED
      BY <1>3, <3>1 DEF GoOn
  <2>7. Patched(b, f, Original[f], n) =
           [t \in Places |-> IF t \in DOMAIN to THEN to[t] ELSE before[t]]
    BY <1>3, PatchedByOne
  <2>8. s \notin DOMAIN to => tree[f][s] = before[s]
    <3> SUFFICES ASSUME s \notin DOMAIN to PROVE tree[f][s] = before[s]
      OBVIOUS
    <3>1. ChangersAt(b, f, s, n) # {}
      BY <1>1, OtherChangers
    <3>2. tree[f][s] = Patched(b, f, Original[f], n)[s]
      BY <3>1 DEF DoneUpTo
    <3> QED
      BY <2>7, <3>2
  <2> HIDE DEF from, to, before
  <2>9. before # Absent /\ \A t \in DOMAIN from : before[t] = from[t]
    BY <2>3, <2>6 DEF Holds
  <2>10. tree'[f] = [t \in Places |-> IF t \in DOMAIN from THEN from[t] ELSE tree[f][t]]
    BY <2>2, <2>3, <2>5 DEF Edited
  <2>11. tree'[f][s] = before[s]
    BY <2>4, <2>8, <2>9, <2>10
  <2>12. tree'[f] # Absent
    BY <2>10, AbsentHasNothing
  <2> QED
    BY <2>11, <2>12 DEF before
<1> QED
  BY <1>2, <1>3

DoneInv == StoreInv /\ Progress

LEMMA AtWork == ASSUME StoreInv, job # NoJob PROVE last.tool = "none"
BY DEF StoreInv, Restored

LEMMA AtIsAtWork == ASSUME NEW at, at # "none", job.at = at PROVE job # NoJob
BY DEF NoJob

LEMMA ProgressInit == TreeInit => Progress
BY DEF TreeInit, Progress, NoJob, Ended, InTool, Succeeded

LEMMA ProgressStarts ==
  ASSUME DoneInv, NEW b \in Branches, StartApply(b) \/ StartRestore(b) \/ StartClean(b)
  PROVE  Progress'
<1>1. last' = Ended /\ Ended.tool = "none" /\ UNCHANGED tree
  BY DEF StartApply, StartRestore, StartClean, Begins, Ended
<1>2. CASE StartApply(b) \/ StartClean(b)
  <2>1. job'.at \in {"sync", "copies"}
    BY <1>2 DEF StartApply, StartClean, Begins, NoJob
  <2> QED
    BY <1>1, <2>1, NothingDone
<1>3. CASE StartRestore(b)
  <2>1. job'.tool = "restore" /\ job'.at = "reverse" /\ job'.branch = b /\ job'.n = 1
    BY <1>3 DEF StartRestore, Begins, NoJob
  <2>2. DoneUpTo(b, End(b))
    BY <1>3 DEF StartRestore, DoneInv, Progress
  <2>3. End(b) + 1 - job'.n = End(b)
    BY <2>1, TreeAssumption DEF End
  <2>4. DoneUpTo(b, End(b))'
    BY <1>1, <2>2 DEF DoneUpTo
  <2>5. DoneUpTo(job.branch, End(job.branch) + 1 - job.n)'
    BY <2>1, <2>3, <2>4 DEF DoneUpTo
  <2> QED
    BY <1>1, <2>1, <2>5 DEF Progress, InTool, Succeeded
<1> QED
  BY <1>2, <1>3

LEMMA ProgressSync == ASSUME DoneInv, Sync PROVE Progress'
<1>1. job # NoJob /\ last.tool = "none" /\ JobTyped
  BY AtWork, AtIsAtWork DEF Sync, InTool, DoneInv, StoreInv, TreeInv
<1>2. CASE MovesTo("overlay", OverlayFiles(job.branch)) /\ last' = last
  <2>1. job'.at = "overlay"
    BY <1>1, <1>2 DEF MovesTo, JobTyped, JobType
  <2> QED
    BY <1>1, <1>2, <2>1, NothingDone
<1>3. CASE Finishes(FALSE, NoBranch)
  <2>1. job'.at = "none" /\ ~last'.well
    BY <1>3 DEF Finishes, NoJob
  <2> QED
    BY <2>1, NothingDone
<1> QED
  BY <1>2, <1>3 DEF Sync

\* The patches go on one by one.
LEMMA ProgressPatches ==
  ASSUME DoneInv, AlreadyApplied \/ ApplyPatch
  PROVE  Progress'
<1>1. InTool("apply", "patches") /\ job.n <= Len(Series[job.branch]) /\ last' = last /\ NextPatch
  BY DEF AlreadyApplied, ApplyPatch, Patching, GoesOn
<1>2. job.branch \in Branches /\ job.n \in Nat /\ job.n # 0 /\ JobTyped
  BY <1>1, WorksForBranch DEF DoneInv, StoreInv, TreeInv
<1>3. job'.tool = job.tool /\ job'.at = job.at /\ job'.branch = job.branch /\ job'.n = job.n + 1
      /\ job'.again = job.again
  BY <1>1, <1>2 DEF NextPatch, JobTyped, JobType
<1>4. last'.tool = "none"
  BY <1>1, AtWork, AtIsAtWork DEF InTool, DoneInv
<1> PICK b : b = job.branch
  OBVIOUS
<1> PICK n : n = job.n
  OBVIOUS
<1>5. ASSUME ~job.again PROVE DoneUpTo(b, n)'
  <2>1. b \in Branches /\ n \in 1..Len(Series[b]) /\ DoneUpTo(b, n - 1)
    BY <1>1, <1>2, <1>5, TreeAssumption DEF DoneInv, Progress
  <2>2. Patch = Series[b][n]
    BY DEF Patch
  <2>3. \A f \in Files : f \notin Touched(Series[b][n]) => tree'[f] = tree[f]
    BY <2>2 DEF AlreadyApplied, ApplyPatch, Apply
  <2>4. ASSUME NEW f \in Files, f \in Touched(Series[b][n])
        PROVE  /\ tree'[f] # Absent
               /\ \A s \in DOMAIN Series[b][n][f].to : tree'[f][s] = Series[b][n][f].to[s]
               /\ \A s \in Places \ DOMAIN Series[b][n][f].to : tree[f] # Absent => tree'[f][s] = tree[f][s]
    <3> DEFINE to == Series[b][n][f].to
               from == Series[b][n][f].from
    <3>1. n \in PatchesOf(b, f)
      BY <2>1, <2>4 DEF PatchesOf
    <3>2. to # Absent /\ DOMAIN to \subseteq Places /\ (from = Absent => DOMAIN to = Places)
      BY <2>1, <3>1, PatchParts
    <3>3. CASE AlreadyApplied
      <4>1. Holds(tree[f], to) /\ tree' = tree
        BY <2>2, <2>4, <3>3 DEF AlreadyApplied, IsIn
      <4> QED
        BY <3>2, <4>1 DEF Holds
    <3>4. CASE ApplyPatch
      <4>1. Holds(tree[f], from) /\ tree'[f] = Edited(tree[f], to)
        BY <2>2, <2>4, <3>4 DEF ApplyPatch, Fits, Apply
      <4> HIDE DEF to, from
      <4>2. CASE tree[f] = Absent
        <5>1. tree'[f] = to /\ DOMAIN to = Places
          BY <3>2, <4>1, <4>2 DEF Edited, Holds
        <5> QED
          BY <3>2, <5>1 DEF to
      <4>3. CASE tree[f] # Absent
        <5>1. tree'[f] = [s \in Places |-> IF s \in DOMAIN to THEN to[s] ELSE tree[f][s]]
          BY <3>2, <4>1, <4>3 DEF Edited
        <5>2. tree'[f] # Absent
          BY <5>1, AbsentHasNothing
        <5> QED
          BY <3>2, <5>1, <5>2 DEF to
      <4> QED
        BY <4>2, <4>3
    <3> QED
      BY <3>3, <3>4
  <2>5. DoneUpTo(b, n)'
    BY <2>1, <2>3, <2>4, PatchPutOn
  <2> QED
    BY <2>5
<1>6. ~job'.again => DoneUpTo(job.branch, job.n - 1)'
  <2>1. job'.n - 1 = n /\ job'.branch = b
    BY <1>2, <1>3
  <2> QED
    BY <1>3, <1>5, <2>1 DEF DoneUpTo
<1> QED
  BY <1>1, <1>3, <1>4, <1>6 DEF Progress, InTool, Succeeded

LEMMA ProgressPass ==
  ASSUME DoneInv, OverlaidAll \/ Rewind \/ PatchesEnd
  PROVE  Progress'
<1>2. InTool("apply", job.at) /\ last' = last
  BY DEF OverlaidAll, Rewind, PatchesEnd, GoesOn, InTool, Stuck, Patching
<1>3. job.branch \in Branches /\ job.n \in Nat /\ JobTyped
  BY <1>2, WorksForBranch DEF DoneInv, StoreInv, TreeInv
<1>4. last'.tool = "none"
  <2>1. job # NoJob
    BY <1>2 DEF InTool, NoJob
  <2> QED
    BY <1>2, <2>1, AtWork DEF DoneInv
<1>5. CASE Rewind
  <2>1. job'.at = "patches" /\ job'.again
    BY <1>3, <1>5 DEF Rewind, Stuck, Patching, InTool, JobTyped, JobType
  <2> QED
    BY <1>4, <2>1 DEF Progress, InTool, Succeeded
<1>6. CASE OverlaidAll \/ (PatchesEnd /\ job.again)
  <2>1. job'.at = "patches" /\ job'.branch = job.branch /\ job'.n = 1
    BY <1>3, <1>6 DEF OverlaidAll, PatchesEnd, MovesTo, InTool, JobTyped, JobType
  <2>2. \A f, i : i \in PatchesOf(job.branch, f) => ~(i <= 0)
    BY <1>3, PatchNumbers
  <2>3. DoneUpTo(job.branch, job.n - 1)'
    <3>1. job'.n - 1 = 0
      BY <2>1
    <3> QED
      BY <2>1, <2>2, <3>1 DEF DoneUpTo, ChangersAt
  <2> QED
    BY <1>4, <2>1, <2>3 DEF Progress, InTool, Succeeded
<1>7. CASE PatchesEnd /\ ~job.again
  <2>1. job'.at = "rebrand" /\ job'.branch = job.branch /\ tree' = tree
    BY <1>3, <1>7 DEF PatchesEnd, MovesTo, InTool, JobTyped, JobType
  <2>2. DoneUpTo(job.branch, job.n - 1) /\ job.n > End(job.branch)
    BY <1>7 DEF PatchesEnd, DoneInv, Progress, End
  <2>3. DoneUpTo(job.branch, End(job.branch))
    BY <1>3, <2>2, DonePast
  <2>4. DoneUpTo(job.branch, End(job.branch))'
    BY <2>1, <2>3 DEF DoneUpTo
  <2> QED
    BY <1>4, <2>1, <2>4 DEF Progress, InTool, Succeeded
<1> QED
  BY <1>5, <1>6, <1>7

\* rebrand.py writes what no patch touches.
LEMMA ProgressRebrand ==
  ASSUME DoneInv, NEW f \in Files, Rebrand(f) \/ Snapshot(f) PROVE Progress'
<1>1. last.tool = "none" /\ JobTyped
  <2>1. job.at # "none"
    BY DEF Rebrand, Snapshot, InTool
  <2>2. job # NoJob
    BY <2>1 DEF NoJob
  <2> QED
    BY <2>2, AtWork DEF DoneInv, StoreInv, TreeInv
<1>2. CASE Finishes(FALSE, NoBranch)
  <2>1. job'.at = "none" /\ ~last'.well
    BY <1>2 DEF Finishes, NoJob
  <2> QED
    BY <2>1, NothingDone
<1>3. CASE Snapshot(f) /\ job.at = "overlay"
  BY <1>1, <1>3, NothingDone DEF Snapshot, GoesOn
<1>4. CASE job.at = "rebrand" /\ ~Finishes(FALSE, NoBranch)
  <2>1. last' = last /\ job'.at = "rebrand" /\ job'.branch = job.branch
    BY <1>1, <1>4 DEF Rebrand, Snapshot, GoesOn, JobTyped, JobType
  <2>2. f \in Branded => f \notin Ours(Branches)
    BY BrandedNotOurs
  <2>3. job.branch \in Branches /\ job.left \subseteq Branded
    BY <1>4, WorksForBranch DEF DoneInv, StoreInv, TreeInv, LeftOf, InTool
  <2>4. \A g \in Files : tree'[g] # tree[g] => g = f /\ f \in job.left
    BY DEF Rebrand, Snapshot, DoneInv, StoreInv, TreeInv, TextsWhole
  <2>5. \A g \in Files : \A s : ChangersAt(job.branch, g, s, End(job.branch)) # {} => g \in Ours(Branches)
    BY <2>3, PatchNumbers DEF ChangersAt
  <2>6. DoneUpTo(job.branch, End(job.branch))
    BY <1>4 DEF DoneInv, Progress
  <2>7. \A g \in Files : \A s : ChangersAt(job.branch, g, s, End(job.branch)) # {} => tree'[g] = tree[g]
    BY <2>2, <2>3, <2>4, <2>5
  <2>8. DoneUpTo(job.branch, End(job.branch))'
    BY <2>1, <2>6, <2>7 DEF DoneUpTo, End
  <2> QED
    BY <1>1, <2>1, <2>8 DEF Progress, InTool, Succeeded
<1> QED
  BY <1>2, <1>3, <1>4 DEF Rebrand, Snapshot, InTool

LEMMA ProgressEnds ==
  ASSUME DoneInv, FailToApply \/ ApplyEnds \/ RestoreEnds \/ CleanEnds PROVE Progress'
<1>1. CASE FailToApply \/ RestoreEnds \/ CleanEnds
  <2>1. job'.at = "none" /\ (last'.tool # "apply" \/ ~last'.well)
    BY <1>1 DEF FailToApply, RestoreEnds, CleanEnds, Finishes, NoJob, InTool
  <2> QED
    BY <2>1, NothingDone
<1>2. CASE ApplyEnds
  <2>1. job'.at = "none" /\ job'.tool = "none" /\ last'.branch = job.branch /\ tree' = tree /\ job.at = "rebrand"
    BY <1>2 DEF ApplyEnds, Finishes, NoJob, InTool
  <2>2. DoneUpTo(job.branch, End(job.branch))
    BY <2>1 DEF DoneInv, Progress
  <2>3. \A b : b = job.branch => DoneUpTo(b, End(b))'
    BY <2>1, <2>2 DEF DoneUpTo
  <2> QED
    BY <2>1, <2>3 DEF Progress, InTool, Succeeded
<1> QED
  BY <1>1, <1>2

\* Every patch that was put on can be taken off, for those after it have been.
LEMMA ReversePatchReverses ==
  ASSUME DoneInv, ReversePatch, NEW b, b = job.branch, NEW n, n = End(b) + 1 - job.n
  PROVE  /\ b \in Branches /\ n \in 1..Len(Series[b]) /\ DoneUpTo(b, n)
         /\ tree' = Reverse(tree, Series[b][n], Touched(Series[b][n]))
<1>1. InTool("restore", "reverse") /\ job.n <= Len(Series[job.branch])
  BY DEF ReversePatch
<1>2. b \in Branches /\ job.n \in Nat /\ job.n # 0
  BY <1>1, WorksForBranch DEF DoneInv, StoreInv, TreeInv
<1>3. n \in 1..Len(Series[b])
  BY <1>1, <1>2, TreeAssumption DEF End
<1>4. DoneUpTo(b, n)
  BY <1>1 DEF DoneInv, Progress
<1>5. IsIn(tree, Series[b][n], Touched(Series[b][n]))
  BY <1>2, <1>3, <1>4, NewestIsIn
<1>6. NewestFirst = Series[b][n]
  BY DEF NewestFirst, End
<1> QED
  BY <1>2, <1>3, <1>4, <1>5, <1>6 DEF ReversePatch

LEMMA ProgressReverse == ASSUME DoneInv, ReversePatch \/ ReverseEnds PROVE Progress'
<1>1. InTool("restore", "reverse") /\ last' = last
  BY DEF ReversePatch, ReverseEnds, GoesOn
<1>2. job.branch \in Branches /\ job.n \in Nat /\ JobTyped
  BY <1>1, WorksForBranch DEF DoneInv, StoreInv, TreeInv
<1>3. last'.tool = "none"
  BY <1>1, AtWork, AtIsAtWork DEF InTool, DoneInv
<1>4. CASE ReverseEnds
  <2>1. job'.at = "copies"
    BY <1>2, <1>4 DEF ReverseEnds, MovesTo, JobTyped, JobType
  <2> QED
    BY <1>3, <2>1, NothingDone
<1>5. CASE ReversePatch
  <2> PICK b : b = job.branch
    OBVIOUS
  <2> PICK n : n = End(b) + 1 - job.n
    OBVIOUS
  <2>1. /\ b \in Branches /\ n \in 1..Len(Series[b]) /\ DoneUpTo(b, n)
        /\ tree' = Reverse(tree, Series[b][n], Touched(Series[b][n]))
    BY <1>5, ReversePatchReverses
  <2>2. DoneUpTo(b, n - 1)'
    BY <2>1, PatchTakenOff
  <2>3. job'.tool = "restore" /\ job'.at = "reverse" /\ job'.branch = b /\ job'.n = job.n + 1
    BY <1>1, <1>2, <1>5 DEF ReversePatch, NextPatch, InTool, JobTyped, JobType
  <2>4. End(b) + 1 - (job.n + 1) = n - 1
    BY <1>2, <2>1, TreeAssumption DEF End
  <2>5. DoneUpTo(job.branch, End(job.branch) + 1 - job.n)'
    <3>1. End(job'.branch) + 1 - job'.n = n - 1
      BY <2>3, <2>4
    <3> QED
      BY <2>2, <2>3, <3>1 DEF DoneUpTo
  <2> QED
    BY <1>3, <2>3, <2>5 DEF Progress, InTool, Succeeded
<1> QED
  BY <1>4, <1>5

LEMMA ProgressOthers ==
  ASSUME DoneInv,
         \/ CopiedBack \/ SeedsEnd \/ ForeignEnds \/ RemoveCreated
         \/ \E f \in Files : OverlayFile(f) \/ CopyBack(f) \/ Seed(f)
         \/ \E x \in job.untried : TryForeign(x[1], x[2], x[3])
  PROVE  Progress'
<1> DEFINE ats == {"overlay", "copies", "seeds", "foreign", "created"}
<1>1. last' = last /\ job.at \in ats /\ job'.at \in ats
  <2>1. TreeInv /\ job \in JobType
    BY DEF DoneInv, StoreInv, TreeInv, JobTyped
  <2>2. CASE CopiedBack \/ SeedsEnd \/ ForeignEnds
    BY <2>1, <2>2, CleanStages DEF CopiedBack, SeedsEnd, ForeignEnds, GoesOn, InTool
  <2>3. CASE RemoveCreated
    BY <2>1, <2>3 DEF RemoveCreated, GoesOn, InTool, NextPatch, JobType
  <2>4. ASSUME NEW f \in Files, OverlayFile(f) \/ CopyBack(f) PROVE last' = last /\ job.at \in ats /\ job'.at \in ats
    BY <2>1, <2>4 DEF OverlayFile, CopyBack, GoesOn, InTool, JobType
  <2>5. ASSUME NEW f \in Files, Seed(f) PROVE last' = last /\ job.at \in ats /\ job'.at \in ats
    BY <2>5, Seeding DEF DoneInv, StoreInv, TreeInv, GoesOn
  <2>6. ASSUME NEW x \in job.untried, TryForeign(x[1], x[2], x[3]) PROVE last' = last /\ job.at \in ats /\ job'.at \in ats
    BY <2>6, Tries DEF DoneInv, StoreInv, TreeInv, GoesOn
  <2> QED
    BY <2>2, <2>3, <2>4, <2>5, <2>6
<1>3. last'.tool = "none"
  BY <1>1, AtWork, AtIsAtWork DEF DoneInv
<1> QED
  BY <1>1, <1>3, NothingDone

LEMMA KillsAtWork ==
  ASSUME \/ KillBetween
         \/ \E f \in Files : KillInCopy(f) \/ KillInSave(f) \/ KillInSeed(f)
         \/ \E fs \in SUBSET Rewinding : KillInRewind(fs)
         \/ \E removed, written \in SUBSET Changing : KillInGit(removed, written)
  PROVE  job # NoJob /\ Killed
<1>1. Killed
  BY DEF KillBetween, KillInCopy, KillInSave, KillInSeed, KillInRewind, KillInGit
<1>2. NoJob.left = {} /\ NoJob.tool = "none"
  BY DEF NoJob
<1>3. job.left # {} \/ job.tool = "apply" \/ job # NoJob
  BY DEF KillBetween, KillInCopy, KillInSave, KillInSeed, KillInRewind, KillInGit, Rewinding,
         Changing, Stuck, Patching, InTool
<1> QED
  BY <1>1, <1>2, <1>3

LEMMA ProgressKills == ASSUME DoneInv, job # NoJob, Killed PROVE Progress'
<1>1. job'.at = "none" /\ last'.tool = "none"
  BY AtWork DEF Killed, NoJob, DoneInv
<1> QED
  BY <1>1, NothingDone

LEMMA DoneInvInit == TreeInit => DoneInv
BY StoreInvInit, ProgressInit DEF DoneInv

LEMMA DoneInvNext == ASSUME DoneInv, [TreeNext]_treeVars PROVE DoneInv'
<1>1. StoreInv'
  BY StoreInvNext DEF DoneInv
<1>2. Progress'
  <2>1. CASE UNCHANGED treeVars
    BY <2>1 DEF treeVars, DoneInv, Progress, DoneUpTo, Succeeded, InTool
  <2>2. CASE \E b \in Branches : StartApply(b) \/ StartRestore(b) \/ StartClean(b)
    BY <2>2, ProgressStarts
  <2>3. CASE Sync \/ OverlaidAll \/ AlreadyApplied \/ ApplyPatch \/ Rewind \/ PatchesEnd
    BY <2>3, ProgressSync, ProgressPatches, ProgressPass
  <2>4. CASE FailToApply \/ ApplyEnds \/ RestoreEnds \/ CleanEnds \/ ReversePatch \/ ReverseEnds
    BY <2>4, ProgressEnds, ProgressReverse
  <2>5. CASE CopiedBack \/ SeedsEnd \/ ForeignEnds \/ RemoveCreated
    BY <2>5, ProgressOthers
  <2>6. CASE \E f \in Files : Snapshot(f) \/ OverlayFile(f) \/ Rebrand(f) \/ CopyBack(f) \/ Seed(f)
    BY <2>6, ProgressRebrand, ProgressOthers
  <2>7. CASE \E x \in job.untried : TryForeign(x[1], x[2], x[3])
    BY <2>7, ProgressOthers
  <2>8. CASE \/ KillBetween
             \/ \E f \in Files : KillInCopy(f) \/ KillInSave(f) \/ KillInSeed(f)
             \/ \E fs \in SUBSET Rewinding : KillInRewind(fs)
             \/ \E removed, written \in SUBSET Changing : KillInGit(removed, written)
    BY <2>8, KillsAtWork, ProgressKills
  <2> QED
    BY <2>1, <2>2, <2>3, <2>4, <2>5, <2>6, <2>7, <2>8 DEF TreeNext
<1> QED
  BY <1>1, <1>2 DEF DoneInv

-----------------------------------------------------------------------------
(* What is there *)

\* As long as nothing is spoilt, no tool takes a file of Chromium's away.  One that
\* ungoogled-chromium changes, and that is not in the store, has one text of two, if
\* the branches agree on what to change in it.  And one that no branch but b patches, and
\* that is not in the store, is the base of b's patches, or those already in: where none
\* of them changes it, it is what Chromium has.
Present == \A f \in Native : tree[f] # Absent
OneText(f) ==
  \/ tree[f] = Original[f]
  \/ \E b \in Branches : \E i \in PatchesOf(b, f) : tree[f] = Edited(Original[f], Series[b][i][f].to)
Single == \A f \in Substituted \ Contested : Stored(f) \/ OneText(f)
Based(b, f) ==
  \A s \in Places : ChangersAt(b, f, s, End(b)) = {} => tree[f][s] = Original[f][s]
Alone == \A b \in Branches : \A f \in Native \ OfOthers(b) : Stored(f) \/ Based(b, f)

ThereInv == DoneInv /\ (~spoilt => Present /\ Single /\ Alone)

LEMMA ThereInvInit == TreeInit => ThereInv
<1>1. TreeInit => tree = Original
  BY DEF TreeInit
<1> QED
  BY <1>1, DoneInvInit DEF ThereInv, Present, Native, Single, OneText, Alone, Based

LEMMA BrandedNative ==
  /\ \A f \in Branded \cup Substituted : Original[f] # Absent
  /\ Branded \subseteq Native
BY TreeAssumption DEF Native

LEMMA StoreGrows ==
  ASSUME StoreInv, [TreeNext]_treeVars
  PROVE  /\ spoilt => spoilt'
         /\ \A f \in Files : Stored(f) => Stored(f)'
<1>1. CASE UNCHANGED store /\ UNCHANGED spoilt
  BY <1>1 DEF Stored
<1>2. CASE \E f \in Files : Snapshot(f)
  <2>1. PICK f \in Files : Snapshot(f)
    BY <1>2
  <2>2. /\ spoilt => spoilt'
        /\ tree[f] # Absent /\ store' = [store EXCEPT ![f] = tree[f]]
    BY <2>1 DEF Snapshot
  <2> QED
    BY <2>2 DEF Stored, StoreInv, TreeInv, TextsWhole
<1>3. CASE \E f \in Files : Seed(f) \/ KillInSeed(f)
  <2>1. PICK f \in Files : Seed(f) \/ KillInSeed(f)
    BY <1>3
  <2>2. spoilt' = spoilt /\ store' = [store EXCEPT ![f] = Original[f]] /\ f \in job.left
        /\ job.at = "seeds"
    BY <2>1 DEF Seed, KillInSeed, GoesOn, InTool
  <2>3. Original[f] # Absent
    BY <2>2 DEF StoreInv, LeftOf, Seedable
  <2> QED
    BY <2>2, <2>3 DEF Stored, StoreInv, TreeInv, TextsWhole
<1>4. CASE \E f \in Files : KillInSave(f)
  <2>1. PICK f \in Files : KillInSave(f)
    BY <1>4
  <2>2. Unreadable # Absent
    BY AbsentHasNothing DEF Unreadable
  <2> QED
    BY <2>1, <2>2 DEF KillInSave, Stored, StoreInv, TreeInv, TextsWhole
<1>5. CASE \E removed, written \in SUBSET Changing : KillInGit(removed, written)
  BY <1>5 DEF KillInGit, Stored
<1>6. UNCHANGED <<store, spoilt>> \/ ~UNCHANGED treeVars
  BY DEF treeVars
<1>7. CASE TreeNext
  <2>1. ASSUME NEW b \in Branches, StartApply(b) \/ StartRestore(b) \/ StartClean(b)
        PROVE  UNCHANGED store /\ UNCHANGED spoilt
    BY <2>1 DEF StartApply, StartRestore, StartClean, Begins
  <2>2. CASE \/ Sync \/ OverlaidAll \/ AlreadyApplied \/ ApplyPatch \/ Rewind
             \/ FailToApply \/ PatchesEnd \/ ApplyEnds
    BY <1>1, <2>2 DEF Sync, OverlaidAll, AlreadyApplied, ApplyPatch, Rewind, FailToApply,
         PatchesEnd,
                      ApplyEnds, GoesOn
  <2>3. CASE \/ ReversePatch \/ ReverseEnds \/ RestoreEnds
             \/ CopiedBack \/ SeedsEnd \/ ForeignEnds \/ RemoveCreated \/ CleanEnds \/ KillBetween
    BY <1>1, <2>3, CleanStages DEF StoreInv, ReversePatch, ReverseEnds, RestoreEnds,
                      RemoveCreated, CleanEnds, KillBetween, GoesOn
  <2>4. ASSUME NEW f \in Files, OverlayFile(f) \/ Rebrand(f) \/ CopyBack(f) \/ KillInCopy(f)
        PROVE  UNCHANGED store /\ UNCHANGED spoilt
    BY <2>4 DEF OverlayFile, Rebrand, CopyBack, KillInCopy, GoesOn
  <2>5. ASSUME NEW c, NEW i, NEW f, TryForeign(c, i, f)
        PROVE  UNCHANGED store /\ UNCHANGED spoilt
    BY <2>5 DEF TryForeign, GoesOn
  <2>6. ASSUME NEW fs, KillInRewind(fs) PROVE UNCHANGED store /\ UNCHANGED spoilt
    BY <2>6 DEF KillInRewind
  <2> QED
    BY <1>1, <1>2, <1>3, <1>4, <1>5, <1>7, <2>1, <2>2, <2>3, <2>4, <2>5, <2>6 DEF TreeNext
<1> QED
  BY <1>1, <1>6, <1>7

LEMMA EditedStays ==
  ASSUME NEW text, text # Absent, NEW part, part # Absent
  PROVE  Edited(text, part) # Absent
BY AbsentHasNothing DEF Edited

\* A step is fair to a file of Chromium's if it leaves it, if it changes it by a patch of
\* some branch, to or fro, or if it writes it as a whole and has its original.
Edits(f) ==
  \E b \in Branches : \E i \in PatchesOf(b, f) :
    \/ tree'[f] = Edited(tree[f], Series[b][i][f].to)
    \/ tree'[f] = Edited(tree[f], Series[b][i][f].from)
Writes(f) == tree'[f] # Absent /\ Stored(f)'
Fair(f) == tree'[f] = tree[f] \/ Writes(f) \/ Edits(f)

LEMMA FairToPresent ==
  ASSUME Present, \A f \in Native : Fair(f) PROVE Present'
<1> SUFFICES ASSUME NEW f \in Native PROVE tree'[f] # Absent
  BY DEF Present, Native
<1>1. tree[f] # Absent /\ Original[f] # Absent
  BY DEF Present, Native
<1>2. CASE Edits(f)
  <2> PICK b \in Branches :
        \E i \in PatchesOf(b, f) : \/ tree'[f] = Edited(tree[f], Series[b][i][f].to)
                                 \/ tree'[f] = Edited(tree[f], Series[b][i][f].from)
    BY <1>2 DEF Edits
  <2>1. PICK i \in PatchesOf(b, f) : \/ tree'[f] = Edited(tree[f], Series[b][i][f].to)
                                   \/ tree'[f] = Edited(tree[f], Series[b][i][f].from)
    OBVIOUS
  <2>2. Series[b][i][f].to # Absent /\ Series[b][i][f].from # Absent
    BY <1>1, PatchParts, MadeByPatch
  <2> QED
    BY <1>1, <2>1, <2>2, EditedStays
<1> QED
  BY <1>1, <1>2 DEF Fair, Writes

LEMMA FairToSingle ==
  ASSUME Single, \A f \in Native : Fair(f), \A f \in Files : Stored(f) => Stored(f)'
  PROVE  Single'
<1> SUFFICES ASSUME NEW f \in Substituted \ Contested, ~Stored(f)' PROVE OneText(f)'
  BY DEF Single, Contested
<1>1. f \in Files /\ f \in Native
  BY BrandedNative, TreeAssumption, AbsentHasNothing DEF Native
<1>2. OneText(f)
  BY <1>1 DEF Single
<1>3. CASE tree'[f] = tree[f]
  BY <1>2, <1>3 DEF OneText
<1>4. CASE Edits(f)
  <2> PICK b \in Branches :
        \E i \in PatchesOf(b, f) : \/ tree'[f] = Edited(tree[f], Series[b][i][f].to)
                                 \/ tree'[f] = Edited(tree[f], Series[b][i][f].from)
    BY <1>4 DEF Edits
  <2>1. PICK i \in PatchesOf(b, f) : \/ tree'[f] = Edited(tree[f], Series[b][i][f].to)
                                   \/ tree'[f] = Edited(tree[f], Series[b][i][f].from)
    OBVIOUS
  <2>2. tree[f] = Original[f] \/ tree[f] = Edited(Original[f], Series[b][i][f].to)
    <3>1. \A c \in Branches : \A j \in PatchesOf(c, f) : Series[c][j][f] = Series[b][i][f]
      BY OneChange
    <3> QED
      BY <1>2, <3>1 DEF OneText
  <2>3. /\ Edited(tree[f], Series[b][i][f].to) = Edited(Original[f], Series[b][i][f].to)
        /\ Edited(tree[f], Series[b][i][f].from) = Original[f]
    BY <2>2, ChangeAndBack
  <2> QED
    BY <2>1, <2>3 DEF OneText
<1> QED
  BY <1>1, <1>3, <1>4 DEF Fair, Writes

LEMMA FairToAlone ==
  ASSUME Present, Alone, \A f \in Native : Fair(f), \A f \in Files : Stored(f) => Stored(f)'
  PROVE  Alone'
<1> SUFFICES ASSUME NEW b \in Branches, NEW f \in Native \ OfOthers(b), ~Stored(f)'
             PROVE  Based(b, f)'
  BY DEF Alone, Native, OfOthers, Ours, ByFile
<1>1. f \in Files /\ tree[f] # Absent /\ Original[f] # Absent
  BY DEF Native, Present
<1>2. Based(b, f)
  BY <1>1 DEF Alone
<1>3. CASE tree'[f] = tree[f]
  BY <1>2, <1>3 DEF Based
<1>4. CASE Edits(f)
  <2> PICK c \in Branches :
        \E i \in PatchesOf(c, f) : \/ tree'[f] = Edited(tree[f], Series[c][i][f].to)
                                 \/ tree'[f] = Edited(tree[f], Series[c][i][f].from)
    BY <1>4 DEF Edits
  <2>1. PICK i \in PatchesOf(c, f) : \/ tree'[f] = Edited(tree[f], Series[c][i][f].to)
                                   \/ tree'[f] = Edited(tree[f], Series[c][i][f].from)
    OBVIOUS
  <2>2. c = b
    BY <1>1 DEF OfOthers, Ours, ByFile
  <2> PICK to : to = Series[b][i][f].to
    OBVIOUS
  <2> PICK from : from = Series[b][i][f].from
    OBVIOUS
  <2>3. to # Absent /\ from # Absent /\ i <= End(b) /\ DOMAIN from = DOMAIN to
    BY <1>1, <2>2, PatchParts, MadeByPatch, PatchNumbers DEF End
  <2>4. \A s \in Places : ChangersAt(b, f, s, End(b)) = {} => s \notin DOMAIN to
    BY <2>2, <2>3 DEF ChangersAt
  <2>5. \/ tree'[f] = [s \in Places |-> IF s \in DOMAIN to THEN to[s] ELSE tree[f][s]]
        \/ tree'[f] = [s \in Places |-> IF s \in DOMAIN from THEN from[s] ELSE tree[f][s]]
    BY <1>1, <2>1, <2>2, <2>3 DEF Edited
  <2> QED
    BY <1>2, <2>3, <2>4, <2>5 DEF Based
<1> QED
  BY <1>1, <1>3, <1>4 DEF Fair, Writes

\* Every step that leaves nothing spoilt is fair to Chromium's files.
LEMMA FairApply ==
  ASSUME ThereInv, AlreadyApplied \/ ApplyPatch \/ Rewind, NEW f \in Native, \A g \in Files : Stored(g) => Stored(g)'
  PROVE  Fair(f)
<1>1. f \in Files /\ JobTyped /\ Patching
  BY DEF Native, ThereInv, DoneInv, StoreInv, TreeInv, AlreadyApplied, ApplyPatch, Rewind, Stuck
<1> PICK b : b = job.branch
  OBVIOUS
<1> PICK n : n = job.n
  OBVIOUS
<1>2. b \in Branches /\ n \in 1..Len(Series[b]) /\ Patch = Series[b][n]
  <2>1. b \in Branches /\ n \in Nat /\ n # 0 /\ n <= Len(Series[b])
    BY <1>1, WorksForBranch DEF Patching
  <2> QED
    BY <2>1, TreeAssumption DEF Patch
<1>3. CASE ApplyPatch /\ f \in Touched(Patch)
  <2>1. tree'[f] = Edited(tree[f], Series[b][n][f].to)
    BY <1>1, <1>2, <1>3 DEF ApplyPatch, Apply
  <2>2. n \in PatchesOf(b, f)
    BY <1>2, <1>3 DEF PatchesOf
  <2>3. Edits(f)
    BY <1>2, <2>1, <2>2 DEF Edits
  <2> QED
    BY <2>3 DEF Fair
<1>4. CASE Rewind /\ f \in Rewound
  <2>1. tree'[f] = store[f] /\ Stored(f)
    BY <1>1, <1>4 DEF Rewind, PutBack, Rewound
  <2> QED
    BY <1>1, <2>1 DEF Fair, Writes, Stored
<1>5. tree'[f] = tree[f] \/ (ApplyPatch /\ f \in Touched(Patch)) \/ (Rewind /\ f \in Rewound)
  BY <1>1 DEF AlreadyApplied, ApplyPatch, Apply, Rewind, PutBack
<1> QED
  BY <1>3, <1>4, <1>5 DEF Fair

LEMMA FairReverse == ASSUME ThereInv, ReversePatch, NEW f \in Native PROVE Fair(f)
<1> PICK b : b = job.branch
  OBVIOUS
<1> PICK n : n = End(b) + 1 - job.n
  OBVIOUS
<1>1. /\ b \in Branches /\ n \in 1..Len(Series[b]) /\ DoneUpTo(b, n)
      /\ tree' = Reverse(tree, Series[b][n], Touched(Series[b][n]))
  BY ReversePatchReverses DEF ThereInv
<1>2. f \in Files
  BY DEF Native
<1>3. CASE f \in Touched(Series[b][n])
  <2>1. n \in PatchesOf(b, f)
    BY <1>1, <1>3 DEF PatchesOf
  <2>2. tree'[f] = Edited(tree[f], Series[b][n][f].from)
    BY <1>1, <1>2, <1>3 DEF Reverse
  <2>3. Edits(f)
    BY <1>1, <2>1, <2>2 DEF Edits
  <2> QED
    BY <2>3 DEF Fair
<1>4. CASE f \notin Touched(Series[b][n])
  BY <1>1, <1>2, <1>4 DEF Reverse, Fair
<1> QED
  BY <1>3, <1>4

LEMMA FairForeign ==
  ASSUME JobTyped, NEW x \in job.untried, TryForeign(x[1], x[2], x[3]), NEW f \in Native
  PROVE  Fair(f)
<1> PICK c : c = x[1]
  OBVIOUS
<1> PICK i : i = x[2]
  OBVIOUS
<1>1. c \in Branches /\ i \in PatchesOf(c, x[3]) /\ f \in Files
      /\ tree' \in {tree, Reverse(tree, Series[c][i], {x[3]})}
  BY Tries DEF Native
<1>2. CASE f = x[3] /\ tree' # tree
  <2>1. tree'[f] = Edited(tree[f], Series[c][i][f].from)
    BY <1>1, <1>2 DEF Reverse
  <2>2. Edits(f)
    BY <1>1, <1>2, <2>1 DEF Edits
  <2> QED
    BY <2>2 DEF Fair
<1>3. CASE f # x[3] \/ tree' = tree
  BY <1>1, <1>3 DEF Reverse, Fair
<1> QED
  BY <1>2, <1>3

\* New files of the branch's patches are no files of Chromium's.
LEMMA CreatedIsNew ==
  ASSUME JobTyped, job.at # "none", job.tool # "none", job.n <= Len(Series[job.branch]),
         NEW f \in Created(Patch)
  PROVE  Original[f] = Absent
<1>1. job.branch \in Branches /\ job.n \in Nat /\ job.n # 0
  BY DEF JobTyped, JobType
<1>2. job.n \in PatchesOf(job.branch, f) /\ Series[job.branch][job.n][f].from = Absent
  BY <1>1, TreeAssumption DEF PatchesOf, Patch, Created
<1> QED
  BY <1>1, <1>2, MadeByPatch

LEMMA FairCreated == ASSUME ThereInv, RemoveCreated, NEW f \in Native PROVE Fair(f)
<1>1. f \in Files /\ Original[f] # Absent /\ JobTyped
  BY DEF Native, ThereInv, DoneInv, StoreInv, TreeInv
<1>2. \A g \in Created(Patch) : Original[g] = Absent
  BY <1>1, CreatedIsNew DEF RemoveCreated, InTool
<1>3. Stale(Patch) \subseteq Created(Patch)
  BY DEF Stale
<1> QED
  BY <1>1, <1>2, <1>3 DEF RemoveCreated, Fair

LEMMA Whole == Unreadable # Absent /\ Rebranded # Absent
BY AbsentHasNothing DEF Unreadable, Rebranded

LEMMA OverlayIsThere ==
  ASSUME NEW b \in Branches, NEW f \in OverlayFiles(b)
  PROVE  Overlay[b][f] # Absent /\ f \notin Substituted /\ f \notin ByFile(b) /\ f \notin Branded
         /\ f \in Files
BY TreeAssumption

LEMMA FairFiles ==
  ASSUME ThereInv, Present, NEW f \in Files, NEW g \in Native,
         \A h \in Files : Stored(h) => Stored(h)',
         Snapshot(f) \/ OverlayFile(f) \/ Rebrand(f) \/ CopyBack(f) \/ Seed(f)
           \/ KillInCopy(f) \/ KillInSave(f) \/ KillInSeed(f)
  PROVE  Fair(g)
<1>1. g \in Files /\ Original[g] # Absent /\ JobTyped /\ LeftOf /\ DOMAIN tree = Files /\ DOMAIN store = Files
  BY DEF Native, ThereInv, DoneInv, StoreInv, TreeInv, TextsWhole
<1>2. CASE Snapshot(f) \/ KillInSave(f)
  BY <1>2 DEF Snapshot, KillInSave, Fair
<1>3. CASE OverlayFile(f) \/ (KillInCopy(f) /\ job.at = "overlay")
  <2>1. job.tool = "apply" /\ job.at = "overlay" /\ f \in job.left
    BY <1>1, <1>3 DEF OverlayFile, KillInCopy, InTool, LeftOf
  <2>2. job.branch \in Branches /\ f \in OverlayFiles(job.branch)
    BY <1>1, <2>1 DEF JobTyped
  <2>3. Overlay[job.branch][f] # Absent
    BY <2>2, OverlayIsThere
  <2>5. f = g => Stored(f)'
    BY <1>1, <1>3 DEF OverlayFile, KillInCopy, Present
  <2>4. tree'[g] = tree[g] \/ (g = f /\ tree'[g] \in {Overlay[job.branch][f], Unreadable})
    BY <1>1, <1>3 DEF OverlayFile, KillInCopy
  <2> QED
    BY <2>3, <2>4, <2>5, Whole DEF Fair, Writes
<1>4. CASE Rebrand(f) \/ CopyBack(f) \/ (KillInCopy(f) /\ job.at # "overlay")
  <2>1. Stored(f)
    BY <1>1, <1>4 DEF Rebrand, CopyBack, KillInCopy, LeftOf
  <2>2. tree'[g] = tree[g] \/ (g = f /\ tree'[g] \in {Rebranded, store[f], Unreadable})
    BY <1>1, <1>4 DEF Rebrand, CopyBack, KillInCopy, PutBack
  <2>3. tree'[g] = tree[g] \/ (g = f /\ tree'[g] # Absent)
    BY <2>1, <2>2, Whole DEF Stored
  <2> QED
    BY <2>1, <2>3 DEF Fair, Writes
<1>5. CASE Seed(f) \/ KillInSeed(f)
  <2>1. f \in job.left /\ job.at = "seeds" /\ store' = [store EXCEPT ![f] = Original[f]]
    BY <1>5 DEF Seed, KillInSeed, InTool
  <2>2. Original[f] # Absent
    BY <1>1, <2>1 DEF LeftOf, Seedable
  <2>3. Stored(f)'
    BY <1>1, <2>1, <2>2 DEF Stored
  <2>4. tree'[g] = tree[g] \/ (g = f /\ tree'[g] \in {Original[f], Unreadable})
    BY <1>1, <1>5 DEF Seed, KillInSeed
  <2>5. tree'[g] = tree[g] \/ (g = f /\ tree'[g] # Absent)
    BY <2>2, <2>4, Whole
  <2> QED
    BY <2>3, <2>5 DEF Fair, Writes
<1> QED
  BY <1>2, <1>3, <1>4, <1>5

LEMMA FairKills ==
  ASSUME ThereInv, Present, ~spoilt', NEW f \in Native, \A h \in Files : Stored(h) => Stored(h)',
         \/ \E fs \in SUBSET Rewinding : KillInRewind(fs)
         \/ \E removed, written \in SUBSET Changing : KillInGit(removed, written)
  PROVE  Fair(f)
<1>1. f \in Files /\ JobTyped /\ tree[f] # Absent
  BY DEF Native, Present, ThereInv, DoneInv, StoreInv, TreeInv
<1>2. CASE \E fs \in SUBSET Rewinding : KillInRewind(fs)
  <2>1. PICK fs \in SUBSET Rewinding : KillInRewind(fs)
    BY <1>2
  <2>2. tree'[f] = tree[f] \/ (f \in fs /\ tree'[f] = store[f])
    BY <1>1, <2>1 DEF KillInRewind, PutBack
  <2>3. f \in fs => Stored(f)
    BY <2>1 DEF Rewinding, Rewound
  <2> QED
    BY <1>1, <2>2, <2>3 DEF Fair, Writes, Stored
<1>3. CASE \E removed, written \in SUBSET Changing : KillInGit(removed, written)
  <2> PICK removed \in SUBSET Changing : \E written \in SUBSET Changing : KillInGit(removed, written)
    BY <1>3
  <2>1. PICK written \in SUBSET Changing : KillInGit(removed, written)
    OBVIOUS
  <2>2. tree'[f] # Absent
    BY <1>1, <2>1 DEF KillInGit
  <2>3. tree'[f] = tree[f] \/ (f \in written /\ tree'[f] = Edited(tree[f], Patch[f].to))
    BY <1>1, <2>1, <2>2 DEF KillInGit
  <2>4. CASE f \in written
    <3>1. Patching /\ f \in Touched(Patch)
      BY <2>4 DEF Changing
    <3>2. job.branch \in Branches /\ job.n \in PatchesOf(job.branch, f)
      <4>1. job.branch \in Branches /\ job.n \in Nat /\ job.n # 0 /\ job.n <= Len(Series[job.branch])
        BY <1>1, <3>1, WorksForBranch DEF Patching
      <4> QED
        BY <3>1, <4>1, TreeAssumption DEF PatchesOf, Patch
    <3>3. tree'[f] = tree[f] \/ Edits(f)
      BY <2>3, <3>2 DEF Edits, Patch
    <3> QED
      BY <3>3 DEF Fair
  <2> QED
    BY <2>3, <2>4 DEF Fair
<1> QED
  BY <1>2, <1>3

LEMMA FairSteps ==
  ASSUME ThereInv, [TreeNext]_treeVars, ~spoilt', Present, NEW f \in Native
  PROVE  Fair(f)
<1>1. \A g \in Files : Stored(g) => Stored(g)'
  BY StoreGrows DEF ThereInv, DoneInv
<1>2. CASE UNCHANGED tree
  BY <1>2 DEF Fair
<1>3. CASE TreeNext
  <2>1. ASSUME NEW b \in Branches, StartApply(b) \/ StartRestore(b) \/ StartClean(b)
        PROVE  UNCHANGED tree
    BY <2>1 DEF StartApply, StartRestore, StartClean, Begins
  <2>2. CASE \/ Sync \/ OverlaidAll \/ FailToApply \/ PatchesEnd \/ ApplyEnds \/ ReverseEnds \/ RestoreEnds
             \/ CopiedBack \/ SeedsEnd \/ ForeignEnds \/ CleanEnds \/ KillBetween
    BY <1>2, <2>2, CleanStages
       DEF ThereInv, DoneInv, StoreInv, Sync, OverlaidAll, FailToApply, PatchesEnd, ApplyEnds,
           ReverseEnds, RestoreEnds, CleanEnds, KillBetween
  <2>3. CASE AlreadyApplied \/ ApplyPatch \/ Rewind
    BY <1>1, <2>3, FairApply
  <2>4. CASE ReversePatch
    BY <2>4, FairReverse
  <2>5. CASE RemoveCreated
    BY <2>5, FairCreated
  <2>6. CASE \E g \in Files : \/ Snapshot(g) \/ OverlayFile(g) \/ Rebrand(g) \/ CopyBack(g) \/ Seed(g)
                              \/ KillInCopy(g) \/ KillInSave(g) \/ KillInSeed(g)
    BY <1>1, <2>6, FairFiles
  <2>7. CASE \E x \in job.untried : TryForeign(x[1], x[2], x[3])
    BY <2>7, FairForeign DEF ThereInv, DoneInv, StoreInv, TreeInv
  <2>8. CASE \/ \E fs \in SUBSET Rewinding : KillInRewind(fs)
             \/ \E removed, written \in SUBSET Changing : KillInGit(removed, written)
    BY <1>1, <2>8, FairKills
  <2> QED
    BY <1>2, <1>3, <2>1, <2>2, <2>3, <2>4, <2>5, <2>6, <2>7, <2>8 DEF TreeNext
<1> QED
  BY <1>2, <1>3 DEF treeVars

LEMMA ThereInvNext == ASSUME ThereInv, [TreeNext]_treeVars PROVE ThereInv'
<1>1. DoneInv'
  BY DoneInvNext DEF ThereInv
<1>2. (spoilt => spoilt') /\ \A f \in Files : Stored(f) => Stored(f)'
  BY StoreGrows DEF ThereInv, DoneInv
<1>3. ASSUME ~spoilt' PROVE Present' /\ Single' /\ Alone'
  <2>1. Present /\ Single /\ Alone
    BY <1>2, <1>3 DEF ThereInv
  <2>2. \A f \in Native : Fair(f)
    BY <1>3, <2>1, FairSteps
  <2> QED
    BY <1>2, <2>1, <2>2, FairToPresent, FairToSingle, FairToAlone
<1> QED
  BY <1>1, <1>3 DEF ThereInv
-----------------------------------------------------------------------------
(* What was saved, and what was laid over it *)

\* What clean_tree.py has left as it found it has its original in the store.
Unsure == \A f \in job.unsure \cup last.unsure : Stored(f)

\* What apply.py has laid over the tree so far, and what rebrand.py has written.  It
\* stays there, and what Chromium has of it was saved before.
LaidSoFar ==
  IF job.at = "overlay" THEN OverlayFiles(job.branch) \ job.left
  ELSE IF job.at \in {"patches", "rebrand"} THEN OverlayFiles(job.branch) ELSE {}
BrandedSoFar == IF job.at = "rebrand" THEN Branded \ job.left ELSE {}
Laid ==
  /\ \A f \in LaidSoFar : tree[f] = Overlay[job.branch][f]
  /\ \A f \in BrandedSoFar : tree[f] = Rebranded
  /\ job.at \in {"overlay", "patches", "rebrand"} => boring = job.branch

Saved ==
  /\ \A f \in Native : f \in LaidSoFar \cup BrandedSoFar => Stored(f)
  /\ \A b \in Branches : Succeeded("apply", b) =>
       \A f \in Native : f \in OverlayFiles(b) \cup Branded => Stored(f)

KeptInv == ThereInv /\ Unsure /\ Laid /\ (~spoilt => Saved)

LEMMA KeptInvInit == TreeInit => KeptInv
<1> SUFFICES ASSUME TreeInit PROVE KeptInv
  OBVIOUS
<1>1. job = NoJob /\ last = Ended
  BY DEF TreeInit
<1>2. NoJob.at = "none" /\ NoJob.unsure = {} /\ Ended.tool = "none" /\ Ended.unsure = {}
  BY DEF NoJob, Ended
<1>3. Unsure /\ Laid /\ Saved
  BY <1>1, <1>2 DEF Unsure, Laid, Saved, LaidSoFar, BrandedSoFar, Succeeded
<1> QED
  BY <1>3, ThereInvInit DEF KeptInv

LEMMA UnsureSteps ==
  ASSUME StoreInv, [TreeNext]_treeVars
  PROVE  \A f \in job'.unsure \cup last'.unsure : f \in job.unsure \cup last.unsure \/ Stored(f)'
<1> DEFINE Less == job'.unsure \cup last'.unsure \subseteq job.unsure \cup last.unsure
<1>1. JobTyped /\ LeftOf /\ DOMAIN store = Files /\ NoJob.unsure = {} /\ Ended.unsure = {}
  BY DEF StoreInv, TreeInv, TextsWhole, NoJob, Ended
<1>2. CASE UNCHANGED <<job, last>>
  BY <1>2
<1>3. ASSUME NEW b \in Branches, StartApply(b) \/ StartRestore(b) \/ StartClean(b) PROVE Less
  <2>1. job'.unsure \in {last.unsure, {}} /\ last' = Ended
    BY <1>3 DEF StartApply, StartRestore, StartClean, Begins, NoJob
  <2> QED
    BY <1>1, <2>1
<1>4. ASSUME NEW well, NEW b, Finishes(well, b) PROVE Less
  BY <1>1, <1>4 DEF Finishes
<1>5. ASSUME Killed PROVE Less
  BY <1>1, <1>5 DEF Killed
<1>6. CASE \/ OverlaidAll \/ AlreadyApplied \/ ApplyPatch \/ Rewind \/ PatchesEnd
           \/ ReversePatch \/ ReverseEnds \/ RemoveCreated
  <2>1. last' = last
    BY <1>6 DEF OverlaidAll, AlreadyApplied, ApplyPatch, Rewind, PatchesEnd, ReversePatch,
                ReverseEnds, RemoveCreated, GoesOn
  <2>2. job'.unsure = job.unsure
    BY <1>1, <1>6 DEF OverlaidAll, AlreadyApplied, ApplyPatch, Rewind, PatchesEnd, ReversePatch,
       ReverseEnds, RemoveCreated, MovesTo, NextPatch, JobTyped, JobType
  <2> QED
    BY <2>1, <2>2
<1>7. CASE Sync
  <2>1. MovesTo("overlay", OverlayFiles(job.branch)) => job'.unsure = job.unsure
    BY <1>1 DEF MovesTo, JobTyped, JobType
  <2> QED
    BY <1>4, <1>7, <2>1 DEF Sync
<1>8. ASSUME NEW f \in Files, Snapshot(f) \/ OverlayFile(f) \/ Rebrand(f) \/ CopyBack(f) PROVE Less
  <2>1. CASE job' = job \/ job' = [job EXCEPT !.left = @ \ {f}]
    <3>1. job'.unsure = job.unsure
      BY <1>1, <2>1 DEF JobTyped, JobType
    <3>2. last' = last \/ Finishes(FALSE, NoBranch)
      BY <1>8 DEF Snapshot, OverlayFile, Rebrand, CopyBack, GoesOn
    <3> QED
      BY <1>4, <3>1, <3>2
  <2> QED
    BY <1>4, <1>8, <2>1 DEF Snapshot, OverlayFile, Rebrand, CopyBack
<1>9. ASSUME NEW f \in Files, Seed(f)
      PROVE  \A g \in job'.unsure \cup last'.unsure : g \in job.unsure \cup last.unsure \/ Stored(g)'
  <2>1. last' = last /\ job'.unsure \subseteq job.unsure \cup {f}
    BY <1>1, <1>9, Seeding DEF GoesOn
  <2>2. store'[f] = Original[f] /\ Original[f] # Absent
    BY <1>1, <1>9 DEF Seed, InTool, LeftOf, Seedable
  <2> QED
    BY <2>1, <2>2 DEF Stored
<1>10. ASSUME NEW x \in job.untried, TryForeign(x[1], x[2], x[3]) PROVE Less
  BY <1>1, <1>10, Tries DEF GoesOn
<1>11. CASE FailToApply \/ ApplyEnds \/ RestoreEnds \/ CleanEnds
  BY <1>4, <1>11 DEF FailToApply, ApplyEnds, RestoreEnds, CleanEnds
<1>12. CASE \/ KillBetween
            \/ \E f \in Files : KillInCopy(f) \/ KillInSave(f) \/ KillInSeed(f)
            \/ \E fs \in SUBSET Rewinding : KillInRewind(fs)
            \/ \E removed, written \in SUBSET Changing : KillInGit(removed, written)
  BY <1>5, <1>12, KillsAtWork
<1>14. CASE CopiedBack \/ SeedsEnd \/ ForeignEnds
  BY <1>14, CleanStages DEF StoreInv, GoesOn
<1> HIDE DEF Less
<1>13. Less => \A f \in job'.unsure \cup last'.unsure : f \in job.unsure \cup last.unsure \/ Stored(f)'
  BY DEF Less
<1> QED
  BY <1>2, <1>3, <1>6, <1>7, <1>8, <1>9, <1>10, <1>11, <1>12, <1>13, <1>14
  DEF TreeNext, treeVars

\* While a tool runs there is no last one; and what is laid so far grows only where a
\* file is laid.
LEMMA SavedSteps ==
  ASSUME KeptInv, ~spoilt, \A f \in Files : Stored(f) => Stored(f)', last'.tool = "none",
         \A f \in Native : f \in LaidSoFar' \cup BrandedSoFar' =>
           f \in LaidSoFar \cup BrandedSoFar \/ Stored(f)'
  PROVE  Saved'
BY DEF KeptInv, Saved, Succeeded, Native

LEMMA NothingLaid ==
  ASSUME job'.at \notin {"overlay", "patches", "rebrand"}
  PROVE  Laid' /\ LaidSoFar' = {} /\ BrandedSoFar' = {}
BY DEF Laid, LaidSoFar, BrandedSoFar

\* Of what has been laid apply.py changes nothing.
LEMMA LaidStays ==
  ASSUME Laid, job.at \in {"overlay", "patches", "rebrand"},
         job'.branch = job.branch, boring' = boring,
         \A f \in LaidSoFar' : tree'[f] = Overlay[job.branch][f] \/ (f \in LaidSoFar /\ tree'[f] = tree[f]),
         \A f \in BrandedSoFar' : tree'[f] = Rebranded \/ (f \in BrandedSoFar /\ tree'[f] = tree[f])
  PROVE  Laid'
BY DEF Laid

LEMMA ElsewhereKept ==
  ASSUME job'.at \notin {"overlay", "patches", "rebrand"}, last'.tool # "apply" \/ ~last'.well
  PROVE  Laid' /\ Saved'
<1>1. Laid' /\ LaidSoFar' = {} /\ BrandedSoFar' = {}
  BY NothingLaid
<1> QED
  BY <1>1 DEF Saved, Succeeded

\* A tool that is at work has no last one; where apply.py is, it is apply.py that works.
LEMMA ApplyAtWork ==
  ASSUME KeptInv, job.at \in {"overlay", "patches", "rebrand"}
  PROVE  /\ job.tool = "apply" /\ job.branch \in Branches /\ job.n \in Nat /\ last.tool = "none"
         /\ job.at = "overlay" => job.left \subseteq OverlayFiles(job.branch)
         /\ job.at = "rebrand" => job.left \subseteq Branded
         /\ JobTyped /\ DOMAIN tree = Files
<1>1. StoreInv
  BY DEF KeptInv, ThereInv, DoneInv
<1>2. job.tool = "apply" /\ job # NoJob
  BY <1>1, AtIsAtWork DEF StoreInv, LeftOf
<1> QED
  BY <1>1, <1>2, AtWork DEF StoreInv, TreeInv, TextsWhole, JobTyped, JobType, LeftOf

LEMMA KeptStarts ==
  ASSUME KeptInv, NEW b \in Branches, StartApply(b) \/ StartRestore(b) \/ StartClean(b)
  PROVE  Laid' /\ Saved'
<1>1. last'.tool = "none"
  BY DEF StartApply, StartRestore, StartClean, Begins, Ended
<1>2. job'.at \in {"sync", "reverse", "copies"}
  BY DEF StartApply, StartRestore, StartClean, Begins, NoJob
<1> QED
  BY <1>1, <1>2, ElsewhereKept

LEMMA KeptEnds ==
  ASSUME NEW well, NEW b, Finishes(well, b), well => job.tool # "apply"
  PROVE  Laid' /\ Saved'
<1>1. job'.at = "none" /\ last'.tool = job.tool /\ last'.well = well
  BY DEF Finishes, NoJob
<1> QED
  BY <1>1, ElsewhereKept

LEMMA KeptSync ==
  ASSUME KeptInv, Sync, \A f \in Files : Stored(f) => Stored(f)' PROVE Laid' /\ (~spoilt => Saved')
<1>1. CASE Finishes(FALSE, NoBranch)
  BY <1>1, KeptEnds
<1>2. CASE boring' = job.branch /\ MovesTo("overlay", OverlayFiles(job.branch)) /\ last' = last
  <2>1. JobTyped /\ StoreInv /\ job # NoJob
    BY AtIsAtWork DEF KeptInv, ThereInv, DoneInv, StoreInv, TreeInv, Sync, InTool
  <2>2. job'.at = "overlay" /\ job'.branch = job.branch /\ job'.left = OverlayFiles(job.branch)
    BY <1>2, <2>1 DEF MovesTo, JobTyped, JobType
  <2>3. LaidSoFar' = {} /\ BrandedSoFar' = {}
    BY <2>2 DEF LaidSoFar, BrandedSoFar
  <2>4. Laid'
    BY <1>2, <2>2, <2>3 DEF Laid
  <2>5. last'.tool = "none"
    BY <1>2, <2>1, AtWork
  <2> QED
    BY <2>3, <2>4, <2>5, SavedSteps
<1> QED
  BY <1>1, <1>2 DEF Sync

LEMMA KeptSnapshot ==
  ASSUME KeptInv, NEW f \in Files, Snapshot(f), \A g \in Files : Stored(g) => Stored(g)'
  PROVE  Laid' /\ (~spoilt => Saved')
<1>1. UNCHANGED <<tree, job, last, boring>> /\ job.at \in {"overlay", "rebrand"}
  BY DEF Snapshot
<1>2. LaidSoFar' = LaidSoFar /\ BrandedSoFar' = BrandedSoFar
  BY <1>1 DEF LaidSoFar, BrandedSoFar
<1>3. Laid'
  BY <1>1, <1>2 DEF KeptInv, Laid
<1>4. last'.tool = "none"
  BY <1>1, ApplyAtWork
<1> QED
  BY <1>2, <1>3, <1>4, SavedSteps

LEMMA KeptOverlay ==
  ASSUME KeptInv, NEW f \in Files, OverlayFile(f), \A g \in Files : Stored(g) => Stored(g)'
  PROVE  Laid' /\ (~spoilt => Saved')
<1>1. UNCHANGED <<last, boring, store>> /\ job.at = "overlay" /\ f \in job.left
      /\ (Stored(f) \/ tree[f] = Absent)
  BY DEF OverlayFile, GoesOn, InTool
<1>2. JobTyped /\ DOMAIN tree = Files /\ last.tool = "none" /\ job.branch \in Branches
  BY <1>1, ApplyAtWork
<1>3. job'.at = "overlay" /\ job'.branch = job.branch /\ job'.left = job.left \ {f}
  BY <1>1, <1>2 DEF OverlayFile, JobTyped, JobType
<1>4. \A g : g \in LaidSoFar' => g = f \/ g \in LaidSoFar
  BY <1>1, <1>3 DEF LaidSoFar
<1>5. BrandedSoFar' = {} /\ BrandedSoFar = {}
  BY <1>1, <1>3 DEF BrandedSoFar
<1>6. tree'[f] = Overlay[job.branch][f] /\ \A g \in Files : g # f => tree'[g] = tree[g]
  BY <1>2 DEF OverlayFile
<1>7. LaidSoFar \subseteq Files
  BY <1>1, <1>2, OverlayIsThere DEF LaidSoFar
<1>8. Laid'
  BY <1>1, <1>3, <1>4, <1>5, <1>6, <1>7, LaidStays DEF KeptInv
<1>9. ~spoilt /\ f \in Native => Stored(f)'
  BY <1>1 DEF KeptInv, ThereInv, Present, Stored
<1> QED
  BY <1>1, <1>2, <1>4, <1>5, <1>8, <1>9, SavedSteps

LEMMA KeptPatches ==
  ASSUME KeptInv, OverlaidAll \/ AlreadyApplied \/ ApplyPatch \/ Rewind \/ PatchesEnd,
         \A f \in Files : Stored(f) => Stored(f)'
  PROVE  Laid' /\ (~spoilt => Saved')
<1>1. UNCHANGED <<last, boring, store>> /\ job.at \in {"overlay", "patches"}
  BY DEF OverlaidAll, AlreadyApplied, ApplyPatch, Rewind, PatchesEnd, Stuck, Patching,
       GoesOn, InTool
<1>2. JobTyped /\ DOMAIN tree = Files /\ last.tool = "none" /\ job.branch \in Branches /\ job.tool = "apply"
  BY <1>1, ApplyAtWork
<1>3. job'.branch = job.branch /\ job'.at \in {"patches", "rebrand"}
      /\ (job'.at = "rebrand" => job'.left = Branded) /\ (job.at = "overlay" => job.left = {})
  BY <1>2 DEF OverlaidAll, AlreadyApplied, ApplyPatch, Rewind, PatchesEnd, Stuck,
       Patching, InTool,
              MovesTo, NextPatch, JobTyped, JobType
<1>4. LaidSoFar' = OverlayFiles(job.branch) /\ LaidSoFar = OverlayFiles(job.branch)
  BY <1>1, <1>3 DEF LaidSoFar
<1>5. BrandedSoFar' = {}
  BY <1>3 DEF BrandedSoFar
<1>6. \A f \in Files : tree'[f] # tree[f] => f \in ByFile(job.branch)
  <2>1. CASE OverlaidAll \/ PatchesEnd \/ AlreadyApplied
    BY <2>1 DEF OverlaidAll, PatchesEnd, AlreadyApplied
  <2>2. CASE ApplyPatch \/ Rewind
    <3>1. Patching
      BY <2>2 DEF ApplyPatch, Rewind, Stuck
    <3>2. \A f \in Files : f \in Touched(Patch) => f \in ByFile(job.branch)
      BY <1>2, <3>1, PatchIsOurs DEF Patching
    <3> QED
      BY <2>2, <3>2 DEF ApplyPatch, Rewind, Apply, PutBack, Rewound
  <2> QED
    BY <2>1, <2>2
<1>7. \A f \in OverlayFiles(job.branch) : tree'[f] = tree[f]
  BY <1>2, <1>6, OverlayIsThere
<1>8. Laid'
  BY <1>1, <1>3, <1>4, <1>5, <1>7, LaidStays DEF KeptInv
<1> QED
  BY <1>1, <1>2, <1>4, <1>5, <1>8, SavedSteps

LEMMA KeptRebrand ==
  ASSUME KeptInv, NEW f \in Files, Rebrand(f), \A g \in Files : Stored(g) => Stored(g)'
  PROVE  Laid' /\ (~spoilt => Saved')
<1>1. boring' = boring /\ store' = store /\ job.at = "rebrand" /\ f \in job.left /\ Stored(f)
  BY DEF Rebrand, InTool
<1>2. JobTyped /\ DOMAIN tree = Files /\ last.tool = "none" /\ job.branch \in Branches
      /\ job.left \subseteq Branded
  BY <1>1, ApplyAtWork
<1>3. CASE Finishes(FALSE, NoBranch)
  BY <1>3, KeptEnds
<1>4. CASE tree' = [tree EXCEPT ![f] = Rebranded] /\ job' = [job EXCEPT !.left = @ \ {f}] /\ last' = last
  <2>1. job'.at = "rebrand" /\ job'.branch = job.branch /\ job'.left = job.left \ {f}
    BY <1>1, <1>2, <1>4 DEF JobTyped, JobType
  <2>2. LaidSoFar' = OverlayFiles(job.branch) /\ LaidSoFar = OverlayFiles(job.branch)
    BY <1>1, <2>1 DEF LaidSoFar
  <2>3. \A g : g \in BrandedSoFar' => g = f \/ g \in BrandedSoFar
    BY <1>1, <2>1 DEF BrandedSoFar
  <2>4. \A g \in OverlayFiles(job.branch) : g # f /\ g \in Files
    BY <1>1, <1>2, OverlayIsThere
  <2>5. \A g \in BrandedSoFar : g \in Files
    BY <1>1, TreeAssumption DEF BrandedSoFar
  <2>6. tree'[f] = Rebranded /\ \A g \in Files : g # f => tree'[g] = tree[g]
    BY <1>2, <1>4
  <2>7. Laid'
    BY <1>1, <2>1, <2>2, <2>3, <2>4, <2>5, <2>6, LaidStays DEF KeptInv
  <2> QED
    BY <1>1, <1>2, <1>4, <2>2, <2>3, <2>7, SavedSteps DEF Stored
<1> QED
  BY <1>3, <1>4 DEF Rebrand

LEMMA KeptApplyEnds ==
  ASSUME KeptInv, ApplyEnds PROVE Laid' /\ (~spoilt => Saved')
<1>1. UNCHANGED <<store, tree>> /\ job.at = "rebrand" /\ job.left = {} /\ Finishes(TRUE, NoBranch)
  BY DEF ApplyEnds, InTool
<1>2. job'.at = "none" /\ last'.branch = job.branch
  BY <1>1 DEF Finishes, NoJob
<1>3. Laid' /\ LaidSoFar' = {} /\ BrandedSoFar' = {}
  BY <1>2, NothingLaid
<1>4. LaidSoFar = OverlayFiles(job.branch) /\ BrandedSoFar = Branded
  BY <1>1 DEF LaidSoFar, BrandedSoFar
<1> QED
  BY <1>1, <1>2, <1>3, <1>4 DEF KeptInv, Saved, Succeeded, Stored

LEMMA KeptOthers ==
  ASSUME KeptInv,
         \/ ReversePatch \/ ReverseEnds \/ CopiedBack \/ SeedsEnd \/ ForeignEnds \/ RemoveCreated
         \/ \E f \in Files : CopyBack(f) \/ Seed(f)
         \/ \E x \in job.untried : TryForeign(x[1], x[2], x[3])
  PROVE  Laid' /\ Saved'
<1> DEFINE ats == {"reverse", "copies", "seeds", "foreign", "created"}
<1>1. StoreInv /\ TreeInv /\ JobTyped /\ job \in JobType
  BY DEF KeptInv, ThereInv, DoneInv, StoreInv, TreeInv, JobTyped
<1>2. job.at \in ats /\ job'.at \in ats /\ last' = last
  <2>1. CASE CopiedBack \/ SeedsEnd \/ ForeignEnds
    BY <1>1, <2>1, CleanStages DEF CopiedBack, SeedsEnd, ForeignEnds, GoesOn, InTool
  <2>2. CASE ReversePatch \/ RemoveCreated
    BY <1>1, <2>2, NextOne DEF ReversePatch, RemoveCreated, GoesOn, InTool
  <2>3. CASE ReverseEnds
    BY <1>1, <2>3 DEF ReverseEnds, GoesOn, InTool, MovesTo, JobType
  <2>4. ASSUME NEW f \in Files, CopyBack(f) PROVE last' = last /\ job.at \in ats /\ job'.at \in ats
    BY <1>1, <2>4 DEF CopyBack, GoesOn, JobType
  <2>5. ASSUME NEW f \in Files, Seed(f) PROVE last' = last /\ job.at \in ats /\ job'.at \in ats
    BY <1>1, <2>5, Seeding DEF GoesOn
  <2>6. ASSUME NEW x \in job.untried, TryForeign(x[1], x[2], x[3])
        PROVE  last' = last /\ job.at \in ats /\ job'.at \in ats
    BY <1>1, <2>6, Tries DEF GoesOn
  <2> QED
    BY <2>1, <2>2, <2>3, <2>4, <2>5, <2>6
<1>3. last'.tool = "none"
  BY <1>1, <1>2, AtWork, AtIsAtWork
<1> QED
  BY <1>2, <1>3, ElsewhereKept

LEMMA KeptKills == ASSUME KeptInv, job # NoJob, Killed PROVE Laid' /\ Saved'
<1>1. job'.at = "none" /\ last'.tool = "none"
  BY AtWork DEF Killed, NoJob, KeptInv, ThereInv, DoneInv
<1> QED
  BY <1>1, ElsewhereKept

LEMMA KeptInvNext == ASSUME KeptInv, [TreeNext]_treeVars PROVE KeptInv'
<1>1. ThereInv' /\ StoreInv /\ ThereInv
  BY ThereInvNext DEF KeptInv, ThereInv, DoneInv
<1>2. (spoilt => spoilt') /\ \A f \in Files : Stored(f) => Stored(f)'
  BY <1>1, StoreGrows
<1>3. Unsure'
  <2>1. \A f \in job'.unsure \cup last'.unsure : f \in job.unsure \cup last.unsure \/ Stored(f)'
    BY <1>1, UnsureSteps
  <2>2. job.unsure \subseteq Files /\ last.unsure \subseteq Files
    BY <1>1 DEF StoreInv, TreeInv, JobTyped, JobType, NotesTyped, LastType
  <2> QED
    BY <1>2, <2>1, <2>2 DEF KeptInv, Unsure
<1>4. Laid' /\ (~spoilt => Saved')
  <2>1. CASE UNCHANGED treeVars
    BY <2>1 DEF treeVars, KeptInv, Laid, Saved, LaidSoFar, BrandedSoFar, Succeeded, Stored
  <2>2. CASE \E b \in Branches : StartApply(b) \/ StartRestore(b) \/ StartClean(b)
    BY <2>2, KeptStarts
  <2>3. CASE Sync
    BY <1>2, <2>3, KeptSync
  <2>4. CASE OverlaidAll \/ AlreadyApplied \/ ApplyPatch \/ Rewind \/ PatchesEnd
    BY <1>2, <2>4, KeptPatches
  <2>5. CASE FailToApply \/ RestoreEnds \/ CleanEnds
    BY <2>5, KeptEnds DEF FailToApply, RestoreEnds, CleanEnds, InTool
  <2>6. CASE ApplyEnds
    BY <2>6, KeptApplyEnds
  <2>7. CASE \/ ReversePatch \/ ReverseEnds \/ CopiedBack \/ SeedsEnd \/ ForeignEnds \/ RemoveCreated
             \/ \E f \in Files : CopyBack(f) \/ Seed(f)
             \/ \E x \in job.untried : TryForeign(x[1], x[2], x[3])
    BY <2>7, KeptOthers
  <2>8. CASE \E f \in Files : Snapshot(f) \/ OverlayFile(f) \/ Rebrand(f)
    BY <1>2, <2>8, KeptSnapshot, KeptOverlay, KeptRebrand
  <2>9. CASE \/ KillBetween
             \/ \E f \in Files : KillInCopy(f) \/ KillInSave(f) \/ KillInSeed(f)
             \/ \E fs \in SUBSET Rewinding : KillInRewind(fs)
             \/ \E removed, written \in SUBSET Changing : KillInGit(removed, written)
    BY <2>9, KillsAtWork, KeptKills
  <2> QED
    BY <2>1, <2>2, <2>3, <2>4, <2>5, <2>6, <2>7, <2>8, <2>9 DEF TreeNext
<1> QED
  BY <1>1, <1>2, <1>3, <1>4 DEF KeptInv
-----------------------------------------------------------------------------
(* What a branch finds in the tree *)

Base(b) == Native \ (OverlayFiles(b) \cup Branded \cup Contested)

\* Files that clean_tree.py has no original of: of the first ones it gets it from git, and
\* from the others it takes off the other branches' patches.
Unseeded(f) == ~Stored(f) /\ f \in Seedable \cup Substituted
Bare(f) == ~Stored(f) /\ f \in Substituted
TakenOff ==
  \A x \in Foreign(job.branch, job.trees) \ job.untried :
    x[3] \in Contested \/ Stored(x[3]) \/ tree[x[3]] = Original[x[3]]

\* What is left as it was found, and what was not known to be patched.
LeftOut(j) == j.unsure \cup j.hidden

\* clean_tree.py comes to it step by step; and then apply.py keeps to its branch's patches.
Cleaned ==
  /\ job.at = "none" /\ ready # NoBranch => \A f \in Base(ready) \ LeftOut(last) : Based(ready, f)
  /\ job.tool = "apply" => \A f \in Base(job.branch) \ LeftOut(job) : Based(job.branch, f)
  /\ InTool("clean", "copies") =>
       \A f \in Base(job.branch) \ job.left : Based(job.branch, f) \/ Unseeded(f)
  /\ job.at = "seeds" =>
       \A f \in Base(job.branch) \ (job.left \cup LeftOut(job)) : Based(job.branch, f) \/ Bare(f)
  /\ job.at = "foreign" =>
       /\ \A f \in Base(job.branch) \ LeftOut(job) : Based(job.branch, f) \/ Bare(f)
       /\ TakenOff
       /\ job.untried \subseteq Foreign(job.branch, job.trees)
       /\ Beyond(job.branch, job.trees) \subseteq job.hidden
  /\ job.at = "created" => \A f \in Base(job.branch) \ LeftOut(job) : Based(job.branch, f)

CleanInv == KeptInv /\ (~spoilt => Cleaned)

LEMMA CleanInvInit == TreeInit => CleanInv
<1> SUFFICES ASSUME TreeInit PROVE CleanInv
  OBVIOUS
<1>1. NoJob.at = "none" /\ NoJob.tool = "none"
  BY DEF NoJob
<1>2. tree = Original /\ job = NoJob
  BY DEF TreeInit
<1>3. Cleaned
  BY <1>1, <1>2 DEF Cleaned, Based, InTool
<1> QED
  BY <1>3, KeptInvInit DEF CleanInv

LEMMA BasedStays ==
  ASSUME NEW b \in Branches, NEW f, tree[f] # Absent, Based(b, f),
         \/ tree'[f] \in {tree[f], Original[f]}
         \/ \E i \in PatchesOf(b, f) : tree'[f] = Edited(tree[f], Series[b][i][f].to)
  PROVE  Based(b, f)'
<1>1. CASE tree'[f] \in {tree[f], Original[f]}
  BY <1>1 DEF Based
<1>2. CASE \E i \in PatchesOf(b, f) : tree'[f] = Edited(tree[f], Series[b][i][f].to)
  <2>1. PICK i \in PatchesOf(b, f) : tree'[f] = Edited(tree[f], Series[b][i][f].to)
    BY <1>2
  <2> DEFINE to == Series[b][i][f].to
  <2>2. to # Absent /\ i <= End(b)
    BY PatchParts, PatchNumbers DEF End
  <2>3. \A s \in Places : ChangersAt(b, f, s, End(b)) = {} => s \notin DOMAIN to
    BY <2>2 DEF ChangersAt
  <2>4. tree'[f] = Edited(tree[f], to)
    BY <2>1
  <2> HIDE DEF to
  <2>5. tree'[f] = [s \in Places |-> IF s \in DOMAIN to THEN to[s] ELSE tree[f][s]]
    BY <2>2, <2>4 DEF Edited
  <2> QED
    BY <2>3, <2>5 DEF Based
<1> QED
  BY <1>1, <1>2

LEMMA BaseFiles ==
  ASSUME NEW b, NEW f \in Base(b)
  PROVE  f \in Files /\ f \in Native /\ Original[f] # Absent /\ f \notin OverlayFiles(b) \cup Branded
         /\ f \notin Contested /\ f \notin StringFiles
BY TreeAssumption DEF Base, Native

\* What the tools do of their own.
JobSame ==
  /\ job'.tool = job.tool /\ job'.branch = job.branch /\ LeftOut(job') = LeftOut(job)
  /\ job'.hidden = job.hidden

LEMMA MovesToSame == ASSUME JobTyped, NEW at, NEW fs, MovesTo(at, fs) PROVE JobSame
BY DEF MovesTo, JobTyped, JobType, JobSame, LeftOut

LEMMA NextPatchSame == ASSUME JobTyped, NextPatch PROVE JobSame
BY DEF NextPatch, JobTyped, JobType, JobSame, LeftOut

LEMMA FileDoneSame == ASSUME JobTyped, NEW f, job' = [job EXCEPT !.left = @ \ {f}] PROVE JobSame
BY DEF JobTyped, JobType, JobSame, LeftOut

LEMMA TakenBackSame ==
  ASSUME JobTyped, job' = [job EXCEPT !.n = @ + 1, !.again = TRUE] PROVE JobSame
BY DEF JobTyped, JobType, JobSame, LeftOut

LEMMA PassSame ==
  ASSUME JobTyped, job' = [job EXCEPT !.pass = 1, !.n = 1, !.again = FALSE] PROVE JobSame
BY DEF JobTyped, JobType, JobSame, LeftOut

LEMMA JobStays ==
  ASSUME JobTyped,
         \/ \E at, fs : MovesTo(at, fs)
         \/ NextPatch
         \/ \E f : job' = [job EXCEPT !.left = @ \ {f}]
         \/ job' = [job EXCEPT !.n = @ + 1, !.again = TRUE]
         \/ job' = [job EXCEPT !.pass = 1, !.n = 1, !.again = FALSE]
         \/ job' = job
  PROVE  /\ job'.tool = job.tool /\ job'.branch = job.branch /\ LeftOut(job') = LeftOut(job)
         /\ job'.hidden = job.hidden
<1>1. ASSUME job' = job PROVE JobSame
  BY <1>1 DEF JobSame, LeftOut
<1>2. JobSame
  BY <1>1, MovesToSame, NextPatchSame, FileDoneSame, TakenBackSame, PassSame, Zenon
<1> QED
  BY <1>2 DEF JobSame

LEMMA JobAt ==
  ASSUME JobTyped, NEW at, NEW fs, MovesTo(at, fs)
  PROVE  job'.at = at /\ job'.left = fs
BY DEF MovesTo, JobTyped, JobType

LEMMA CleanedNot == ASSUME job' = NoJob, ready' = NoBranch PROVE Cleaned'
<1>1. NoJob.at = "none" /\ NoJob.tool = "none"
  BY DEF NoJob
<1> QED
  BY <1>1 DEF Cleaned, InTool

\* apply.py changes a base by the branch's patches, or puts the original there.
LEMMA CleanedApply ==
  ASSUME CleanInv, ~spoilt, job.tool = "apply", job.at \notin {"foreign", "created"},
         job'.tool = job.tool, job'.branch = job.branch, LeftOut(job') = LeftOut(job),
         job'.at \in {"overlay", "patches", "rebrand"},
         \A f \in Base(job.branch) :
           \/ tree'[f] \in {tree[f], Original[f]}
           \/ \E i \in PatchesOf(job.branch, f) : tree'[f] = Edited(tree[f], Series[job.branch][i][f].to)
  PROVE  Cleaned'
<1> PICK b : b = job.branch
  OBVIOUS
<1>1. b \in Branches
  BY DEF CleanInv, KeptInv, ThereInv, DoneInv, StoreInv, TreeInv, JobTyped
<1>2. \A f \in Base(b) \ LeftOut(job) : Based(b, f) /\ tree[f] # Absent
  BY BaseFiles DEF CleanInv, Cleaned, KeptInv, ThereInv, Present
<1>3. \A f \in Base(b) \ LeftOut(job) : Based(b, f)'
  BY <1>1, <1>2, BasedStays
<1> QED
  BY <1>3 DEF Cleaned, InTool, Based

LEMMA StartApplyCleaned ==
  ASSUME CleanInv, ~spoilt, NEW b \in Branches, StartApply(b) PROVE Cleaned'
<1>1. job = NoJob /\ NoJob.at = "none" /\ ready = b /\ tree' = tree /\ b # NoBranch
  BY TreeAssumption DEF StartApply, Begins, NoJob
<1>2. job'.tool = "apply" /\ job'.at = "sync" /\ job'.branch = b /\ LeftOut(job') = LeftOut(last)
  BY DEF StartApply, Begins, NoJob, LeftOut
<1>3. \A f \in Base(b) \ LeftOut(last) : Based(b, f)
  BY <1>1 DEF CleanInv, Cleaned
<1> QED
  BY <1>1, <1>2, <1>3 DEF Cleaned, InTool, Based

LEMMA StartRestoreCleaned == ASSUME NEW b, StartRestore(b) PROVE Cleaned'
<1>1. job'.tool = "restore" /\ job'.at = "reverse"
  BY DEF StartRestore, Begins, NoJob
<1> QED
  BY <1>1 DEF Cleaned, InTool

\* Of the files that are not in its todo list clean_tree.py wants what there is.
LEMMA WantedIsBased ==
  ASSUME NEW b \in Branches, NEW f \in Base(b), tree[f] = Want(b, f), store[f] = Original[f],
         tree[f] # Absent
  PROVE  Based(b, f)
<1>1. f \in Files /\ f \notin OverlayFiles(b)
  BY BaseFiles
<1>2. CASE f \in ByFile(b)
  <2>1. tree[f] = Patched(b, f, Original[f], End(b))
    <3>1. GoOn(b, f, Original[f])
      BY <1>2, TreeAssumption
    <3>2. tree[f] = Expected(b, f, Original[f])
      BY <1>1, <1>2 DEF Want, ByFile
    <3> QED
      BY <3>1, <3>2 DEF Expected, End
  <2> QED
    BY <2>1 DEF Based, Patched
<1>3. CASE f \notin ByFile(b)
  BY <1>1, <1>3 DEF Want, ByFile, Based
<1> QED
  BY <1>2, <1>3

LEMMA StartCleanCleaned ==
  ASSUME CleanInv, ~spoilt, NEW b \in Branches, StartClean(b) PROVE Cleaned'
<1>1. tree' = tree /\ store' = store
  BY DEF StartClean, Begins
<1>2. job'.tool = "clean" /\ job'.at = "copies" /\ job'.branch = b /\ job'.left = Todo(b)
  BY DEF StartClean, Begins, NoJob
<1>3. ASSUME NEW f \in Base(b) \ Todo(b) PROVE Based(b, f) \/ Unseeded(f)
  <2>1. f \in Files /\ f \in Native /\ Original[f] # Absent /\ f \notin StringFiles
    BY BaseFiles
  <2>2. tree[f] # Absent /\ CopiesRight /\ Untouched
    BY <2>1 DEF CleanInv, KeptInv, ThereInv, Present, DoneInv, StoreInv
  <2>3. CASE Stored(f)
    <3>1. f \notin Unexpected(b)
      BY <2>1 DEF Todo
    <3>2. tree[f] = Want(b, f)
      BY <2>1, <2>2, <2>3, <3>1 DEF Unexpected
    <3> QED
      BY <2>1, <2>2, <2>3, <3>2, WantedIsBased DEF CopiesRight
  <2>4. CASE ~Stored(f) /\ f \in Ours(Branches)
    BY <2>1, <2>4 DEF Unseeded, Seedable
  <2>5. CASE ~Stored(f) /\ f \notin Ours(Branches)
    BY <2>1, <2>2, <2>5 DEF Untouched, Based
  <2> QED
    BY <2>3, <2>4, <2>5
<1> QED
  BY <1>1, <1>2, <1>3 DEF Cleaned, InTool, Based, Unseeded, Stored

LEMMA CleanHas ==
  ASSUME CleanInv, ~spoilt
  PROVE  /\ KeptInv /\ ThereInv /\ DoneInv /\ StoreInv /\ JobTyped /\ LeftOf
         /\ DOMAIN tree = Files /\ DOMAIN store = Files
         /\ Cleaned /\ Present /\ Single /\ Alone /\ CopiesRight
BY DEF CleanInv, KeptInv, ThereInv, DoneInv, StoreInv, TreeInv, TextsWhole

LEMMA ApplyCleaned ==
  ASSUME CleanInv, ~spoilt, OverlaidAll \/ AlreadyApplied \/ ApplyPatch \/ Rewind \/ PatchesEnd
  PROVE  Cleaned'
<1>1. JobTyped /\ LeftOf /\ CopiesRight
  BY CleanHas
<1>2. job.tool = "apply" /\ job.at \in {"overlay", "patches"}
  BY DEF OverlaidAll, AlreadyApplied, ApplyPatch, Rewind, PatchesEnd, Stuck, Patching, InTool
<1>3. job'.tool = job.tool /\ job'.branch = job.branch /\ LeftOut(job') = LeftOut(job)
  BY <1>1, JobStays DEF OverlaidAll, AlreadyApplied, ApplyPatch, Rewind, PatchesEnd
<1>4. job'.at \in {"patches", "rebrand"}
  BY <1>1, <1>2 DEF OverlaidAll, AlreadyApplied, ApplyPatch, Rewind, PatchesEnd, Stuck,
       Patching, InTool,
     MovesTo, NextPatch, JobTyped, JobType
<1> PICK b : b = job.branch
  OBVIOUS
<1>5. ASSUME NEW f \in Base(b)
      PROVE  \/ tree'[f] \in {tree[f], Original[f]}
             \/ \E i \in PatchesOf(b, f) : tree'[f] = Edited(tree[f], Series[b][i][f].to)
  <2>1. f \in Files /\ f \in Native
    BY BaseFiles
  <2>2. CASE ApplyPatch /\ f \in Touched(Patch)
    <3>1. Patching /\ tree'[f] = Edited(tree[f], Patch[f].to)
      BY <2>1, <2>2 DEF ApplyPatch, Apply
    <3>2. job.n \in PatchesOf(b, f)
      <4>1. b \in Branches /\ job.n \in Nat /\ job.n # 0 /\ job.n <= Len(Series[b])
        BY <1>1, <3>1, WorksForBranch DEF Patching
      <4> QED
        BY <2>2, <4>1, TreeAssumption DEF PatchesOf, Patch
    <3> QED
      BY <3>1, <3>2 DEF Patch
  <2>3. CASE Rewind /\ f \in Rewound
    BY <1>1, <2>1, <2>3 DEF Rewind, PutBack, Rewound, CopiesRight
  <2>4. \/ ApplyPatch /\ f \in Touched(Patch)
        \/ Rewind /\ f \in Rewound
        \/ tree'[f] = tree[f]
    BY <2>1 DEF OverlaidAll, AlreadyApplied, ApplyPatch, Apply, Rewind, PutBack, PatchesEnd
  <2> QED
    BY <2>2, <2>3, <2>4
<1> QED
  BY <1>2, <1>3, <1>4, <1>5, CleanedApply

LEMMA ApplyFilesCleaned ==
  ASSUME CleanInv, ~spoilt, NEW f \in Files, Snapshot(f) \/ OverlayFile(f) \/ Rebrand(f)
  PROVE  Cleaned'
<1>1. JobTyped /\ LeftOf /\ DOMAIN tree = Files
  BY CleanHas
<1>2. job.tool = "apply" /\ job.at \in {"overlay", "rebrand"} /\ f \in job.left
  BY <1>1 DEF Snapshot, OverlayFile, Rebrand, InTool, LeftOf
<1>3. CASE Finishes(FALSE, NoBranch)
  BY <1>3, CleanedNot DEF Finishes
<1>4. CASE job' = job \/ job' = [job EXCEPT !.left = @ \ {f}]
  <2>1. job'.tool = job.tool /\ job'.branch = job.branch /\ LeftOut(job') = LeftOut(job)
    BY <1>1, <1>4, JobStays
  <2>2. job'.at = job.at
    BY <1>1, <1>4 DEF JobTyped, JobType
  <2>3. f \in OverlayFiles(job.branch) \cup Branded
    BY <1>1, <1>2 DEF JobTyped, LeftOf
  <2>4. \A g \in Files : g # f => tree'[g] = tree[g]
    BY <1>1 DEF Snapshot, OverlayFile, Rebrand
  <2>5. \A g \in Base(job.branch) : tree'[g] \in {tree[g], Original[g]}
    BY <2>3, <2>4, BaseFiles
  <2> QED
    BY <1>2, <2>1, <2>2, <2>5, CleanedApply
<1> QED
  BY <1>3, <1>4 DEF Snapshot, OverlayFile, Rebrand

LEMMA SyncCleaned == ASSUME CleanInv, ~spoilt, Sync PROVE Cleaned'
<1>1. JobTyped /\ job.tool = "apply" /\ job.at = "sync" /\ tree' = tree
  BY CleanHas DEF Sync, InTool
<1>2. CASE MovesTo("overlay", OverlayFiles(job.branch))
  <2>1. job'.tool = job.tool /\ job'.branch = job.branch /\ LeftOut(job') = LeftOut(job)
        /\ job'.at = "overlay"
    BY <1>1, <1>2, JobStays, JobAt
  <2> QED
    BY <1>1, <2>1, CleanedApply
<1>3. CASE Finishes(FALSE, NoBranch)
  BY <1>3, CleanedNot DEF Finishes
<1> QED
  BY <1>2, <1>3 DEF Sync

LEMMA RestoreCleaned ==
  ASSUME CleanInv, ~spoilt, ReversePatch \/ ReverseEnds PROVE Cleaned'
<1>1. JobTyped /\ job.tool = "restore" /\ job.at = "reverse" /\ Cleaned
  BY CleanHas DEF ReversePatch, ReverseEnds, InTool
<1>2. job'.tool = job.tool
  BY <1>1, JobStays DEF ReversePatch, ReverseEnds
<1>3. job'.at \in {"reverse", "copies"}
  BY <1>1 DEF ReversePatch, ReverseEnds, MovesTo, NextPatch, JobTyped, JobType
<1> QED
  BY <1>1, <1>2, <1>3 DEF Cleaned, InTool

LEMMA CopyBackCleaned ==
  ASSUME CleanInv, ~spoilt, NEW f \in Files, CopyBack(f) PROVE Cleaned'
<1>1. JobTyped /\ LeftOf /\ Cleaned /\ Present /\ CopiesRight /\ job.at = "copies" /\ f \in job.left
  BY CleanHas DEF CopyBack
<1>2. job'.at = "copies" /\ job'.left = job.left \ {f} /\ store' = store
  BY <1>1 DEF CopyBack, JobTyped, JobType
<1>3. job'.tool = job.tool /\ job'.branch = job.branch /\ LeftOut(job') = LeftOut(job)
  BY <1>1, JobStays DEF CopyBack
<1>4. \A g \in Files : tree'[g] = IF g = f THEN store[g] ELSE tree[g]
  BY DEF CopyBack, PutBack
<1>5. \A g \in Native : tree'[g] \in {tree[g], Original[g]}
  BY <1>1, <1>4 DEF LeftOf, CopiesRight, Native
<1>6. \A b \in Branches : \A g \in Native : Based(b, g) => Based(b, g)'
  BY <1>1, <1>5, BasedStays DEF Present
<1>7. f \in Native => tree'[f] = Original[f]
  BY <1>1, <1>4 DEF LeftOf, CopiesRight
<1>8. \A b \in Branches : f \in Native => Based(b, f)'
  BY <1>7 DEF Based
<1> PICK b : b = job.branch
  OBVIOUS
<1>9. CASE job.tool = "apply"
  <2>1. b \in Branches
    BY <1>1, <1>9 DEF JobTyped
  <2>2. \A g \in Base(b) \ LeftOut(job) : Based(b, g)'
    BY <1>1, <1>6, <1>9, <2>1, BaseFiles DEF Cleaned
  <2> QED
    BY <1>2, <1>3, <1>9, <2>2 DEF Cleaned, InTool, Based
<1>10. CASE job.tool = "clean"
  <2>1. b \in Branches
    BY <1>1, <1>10 DEF JobTyped
  <2>2. \A g \in Base(b) \ (job.left \ {f}) : Based(b, g)' \/ Unseeded(g)
    BY <1>1, <1>6, <1>8, <1>10, <2>1, BaseFiles DEF Cleaned, InTool
  <2> QED
    BY <1>2, <1>3, <1>10, <2>2 DEF Cleaned, InTool, Based, Unseeded, Stored
<1>11. CASE job.tool \notin {"apply", "clean"}
  BY <1>1, <1>2, <1>3, <1>11 DEF Cleaned, InTool
<1> QED
  BY <1>9, <1>10, <1>11

\* What has no copy after the copies is to be seeded, or is bare, or is not known to be
\* patched by another branch.
LEMMA CopiedBackCleaned == ASSUME CleanInv, ~spoilt, CopiedBack PROVE Cleaned'
<1>1. /\ JobTyped /\ Cleaned /\ Present /\ Alone /\ StoreInv /\ TreeInv
      /\ InTool("clean", "copies") /\ job.left = {}
  BY CleanHas DEF CopiedBack, StoreInv
<1>2. UNCHANGED <<tree, store>> /\ job'.tool = "clean" /\ job'.branch = job.branch
  BY <1>1, CleanStages
<1>3. PICK seen \in Sights :
        job'.at = "seeds" /\ job'.left = Seeds(seen) /\ job'.hidden = Unfound(job.branch, seen)
  BY <1>1, CleanStages
<1> PICK b : b = job.branch
  OBVIOUS
<1>4. b \in Branches /\ \A f \in Base(b) : Based(b, f) \/ Unseeded(f)
  BY <1>1 DEF Cleaned, JobTyped, InTool
<1>5. ASSUME NEW f \in Base(b), f \notin Seeds(seen) \cup Unfound(b, seen) PROVE Based(b, f) \/ Bare(f)
  <2>1. tree[f] # Absent /\ f \in Native /\ Original[f] # Absent /\ f \notin StringFiles
    BY <1>1, BaseFiles DEF Present
  <2>2. CASE Based(b, f) \/ f \in Substituted
    BY <1>4, <2>2 DEF Unseeded, Bare
  <2>3. CASE ~Stored(f) /\ f \notin Substituted
    <3>1. f \notin OfOthers(b)
      BY <1>5, <2>1, <2>3 DEF Seeds, Unfound
    <3> QED
      BY <1>1, <1>4, <2>1, <2>3, <3>1 DEF Alone
  <2> QED
    BY <1>4, <2>2, <2>3 DEF Unseeded
<1> QED
  BY <1>2, <1>3, <1>5 DEF Cleaned, InTool, Based, Bare, Stored, LeftOut

LEMMA SeedCleaned == ASSUME CleanInv, ~spoilt, NEW f \in Files, Seed(f) PROVE Cleaned'
<1>1. JobTyped /\ Cleaned /\ job.tool = "clean" /\ job.at = "seeds" /\ DOMAIN tree = Files /\ DOMAIN store = Files
  BY CleanHas, Seeding
<1>2. job'.tool = "clean" /\ job'.at = "seeds" /\ job'.branch = job.branch /\ job'.left = job.left \ {f}
  BY <1>1, Seeding
<1>3. LeftOut(job') = LeftOut(job) \cup ({f} \cap ByFile(job.branch))
  BY <1>1, Seeding DEF LeftOut
<1>4. \A g \in Files : g # f => tree'[g] = tree[g] /\ store'[g] = store[g]
  BY <1>1 DEF Seed
<1> PICK b : b = job.branch
  OBVIOUS
<1>5. f \notin ByFile(b) \cup OverlayFiles(b) => tree'[f] = Original[f]
  BY <1>1 DEF Seed
<1>6. ASSUME NEW g \in Base(b) \ (job'.left \cup LeftOut(job')) PROVE Based(b, g)' \/ Bare(g)'
  <2>1. g \in Files /\ g \notin OverlayFiles(b)
    BY BaseFiles
  <2>2. CASE g = f
    BY <1>3, <1>5, <1>6, <2>1, <2>2 DEF Based
  <2>3. CASE g # f
    <3>1. Based(b, g) \/ Bare(g)
      BY <1>1, <1>2, <1>3, <1>6, <2>3 DEF Cleaned
    <3> QED
      BY <1>4, <2>1, <2>3, <3>1 DEF Based, Bare, Stored
  <2> QED
    BY <2>2, <2>3
<1> QED
  BY <1>2, <1>6 DEF Cleaned, InTool, Based

LEMMA SeedsEndCleaned == ASSUME CleanInv, ~spoilt, SeedsEnd PROVE Cleaned'
<1>1. /\ JobTyped /\ Cleaned /\ StoreInv /\ TreeInv /\ job.at = "seeds" /\ job.left = {}
  BY CleanHas DEF SeedsEnd, InTool, StoreInv
<1>2. UNCHANGED <<tree, store>> /\ job'.tool = "clean" /\ job'.branch = job.branch
      /\ job'.unsure = job.unsure
  BY <1>1, CleanStages
<1>3. PICK trees \in Sights :
        /\ job'.at = "foreign" /\ job'.trees = trees
        /\ job'.untried = Foreign(job.branch, trees)
        /\ job'.hidden = job.hidden \cup Beyond(job.branch, trees)
  BY <1>1, CleanStages
<1>4. \A f \in Base(job.branch) \ LeftOut(job) : Based(job.branch, f) \/ Bare(f)
  BY <1>1 DEF Cleaned
<1>5. LeftOut(job) \subseteq LeftOut(job')
  BY <1>2, <1>3 DEF LeftOut
<1>6. TakenOff' /\ (Beyond(job.branch, job.trees) \subseteq job.hidden)'
  BY <1>2, <1>3 DEF TakenOff, Beyond, Stored
<1> QED
  BY <1>2, <1>3, <1>4, <1>5, <1>6 DEF Cleaned, InTool, Based, Bare, Stored

\* What one of the branches' patches is taken off is Chromium's, where the branches agree
\* on what to change.
LEMMA TakenOffOne ==
  ASSUME NEW c \in Branches, NEW f \in Substituted \ Contested, NEW i \in PatchesOf(c, f),
         tree[f] = Original[f] \/ OneText(f)
  PROVE  Edited(tree[f], Series[c][i][f].from) = Original[f]
<1>1. \A b \in Branches : \A j \in PatchesOf(b, f) : Series[b][j][f] = Series[c][i][f]
  BY OneChange
<1>2. tree[f] = Original[f] \/ tree[f] = Edited(Original[f], Series[c][i][f].to)
  BY <1>1 DEF OneText
<1> QED
  BY <1>2, ChangeAndBack

LEMMA NotPatchedBase ==
  ASSUME CleanInv, ~spoilt, NEW b \in Branches, NEW f \in Base(b), f \notin ByFile(b), Based(b, f)
  PROVE  tree[f] = Original[f]
<1>1. f \in Files /\ f \in Native /\ Original[f] # Absent
  BY BaseFiles
<1>2. PatchesOf(b, f) = {}
  BY <1>1 DEF ByFile
<1>3. \A s \in Places : tree[f][s] = Original[f][s]
  BY <1>2 DEF Based, ChangersAt
<1>4. IsText(tree[f]) /\ IsText(Original[f]) /\ tree[f] # Absent
  BY <1>1, CleanHas, TreeAssumption DEF Present, StoreInv, TreeInv, TextsWhole
<1>5. tree[f] = [s \in Places |-> tree[f][s]] /\ Original[f] = [s \in Places |-> Original[f][s]]
  BY <1>1, <1>4, AbsentHasNothing
<1> QED
  BY <1>3, <1>5

\* The one text that it may have else is what the patch makes, and git finds that.
LEMMA NotInIsOriginal ==
  ASSUME NEW c \in Branches, NEW f \in Substituted \ Contested, NEW i \in PatchesOf(c, f),
         tree[f] = Original[f] \/ OneText(f), ~IsIn(tree, Series[c][i], {f})
  PROVE  tree[f] = Original[f]
<1> SUFFICES ASSUME tree[f] # Original[f] PROVE FALSE
  OBVIOUS
<1> PICK to : to = Series[c][i][f].to
  OBVIOUS
<1>1. \A b \in Branches : \A j \in PatchesOf(b, f) : Series[b][j][f] = Series[c][i][f]
  BY OneChange
<1>2. tree[f] = Edited(Original[f], to)
  BY <1>1 DEF OneText
<1>3. to # Absent /\ DOMAIN to \subseteq Places /\ Original[f] # Absent
  BY PatchParts, BrandedNative
<1>4. tree[f] = [s \in Places |-> IF s \in DOMAIN to THEN to[s] ELSE Original[f][s]]
  BY <1>2, <1>3 DEF Edited
<1>5. tree[f] # Absent
  BY <1>4, AbsentHasNothing
<1>6. \A s \in DOMAIN to : tree[f][s] = to[s]
  BY <1>3, <1>4
<1>7. Holds(tree[f], to)
  BY <1>3, <1>5, <1>6 DEF Holds
<1> QED
  BY <1>7 DEF IsIn

LEMMA ForeignCleaned ==
  ASSUME CleanInv, ~spoilt, NEW x \in job.untried, TryForeign(x[1], x[2], x[3])
  PROVE  Cleaned'
<1> PICK c : c = x[1]
  OBVIOUS
<1> PICK i : i = x[2]
  OBVIOUS
<1> PICK f : f = x[3]
  OBVIOUS
<1> PICK b : b = job.branch
  OBVIOUS
<1>1. JobTyped /\ Cleaned /\ Single
  BY CleanHas
<1>2. /\ job'.tool = "clean" /\ job.at = "foreign" /\ job'.at = "foreign" /\ job'.branch = job.branch
      /\ LeftOut(job') = LeftOut(job) /\ job'.hidden = job.hidden
      /\ job'.trees = job.trees /\ job'.untried = job.untried \ {x} /\ UNCHANGED store
  BY <1>1, Tries DEF LeftOut
<1>3. c \in Branches /\ f \in Substituted /\ f \in Files /\ i \in PatchesOf(c, f)
      /\ tree' = IF IsIn(tree, Series[c][i], {f}) THEN Reverse(tree, Series[c][i], {f}) ELSE tree
  BY <1>1, Tries
<1>4. b \in Branches /\ f \notin ByFile(b)
  <2>1. x \in Foreign(b, job.trees)
    BY <1>1, <1>2 DEF Cleaned
  <2> QED
    BY <1>1, <2>1, Tries DEF Foreign, JobTyped
<1>5. \A g \in Files : g # f => tree'[g] = tree[g]
  BY <1>3 DEF Reverse
<1>6. f \notin Contested /\ (tree[f] = Original[f] \/ OneText(f)) => tree'[f] = Original[f]
  BY <1>3, TakenOffOne, NotInIsOriginal DEF Reverse
<1>7. ASSUME NEW g \in Base(b) \ LeftOut(job) PROVE Based(b, g)' \/ Bare(g)'
  <2>1. g \in Files /\ g \notin Contested
    BY BaseFiles
  <2>2. Based(b, g) \/ Bare(g)
    BY <1>1, <1>2 DEF Cleaned
  <2>3. CASE g = f /\ Based(b, g)
    <3>1. tree[f] = Original[f]
      BY <1>4, <2>3, NotPatchedBase
    <3> QED
      BY <1>6, <2>1, <2>3, <3>1 DEF Based
  <2>4. CASE g # f /\ Based(b, g)
    BY <1>5, <2>1, <2>4 DEF Based
  <2>5. CASE Bare(g)
    BY <1>2, <2>5 DEF Bare, Stored
  <2> QED
    BY <2>2, <2>3, <2>4, <2>5
<1>8. ASSUME NEW y \in Foreign(b, job.trees) \ (job.untried \ {x})
      PROVE  y[3] \in Contested \/ Stored(y[3]) \/ tree'[y[3]] = Original[y[3]]
  <2>1. CASE y[3] = f
    BY <1>1, <1>3, <1>6, <2>1 DEF Single
  <2>2. CASE y[3] # f
    <3>1. y \notin job.untried /\ y[3] \in Files
      BY <1>8, <2>2, TreeAssumption DEF Foreign
    <3>2. y[3] \in Contested \/ Stored(y[3]) \/ tree[y[3]] = Original[y[3]]
      BY <1>1, <1>2, <3>1 DEF Cleaned, TakenOff
    <3> QED
      BY <1>5, <2>2, <3>1, <3>2
  <2> QED
    BY <2>1, <2>2
<1>9. TakenOff'
  BY <1>2, <1>8 DEF TakenOff, Stored
<1>10. job'.untried \subseteq Foreign(b, job.trees) /\ Beyond(b, job.trees)' \subseteq job.hidden
  BY <1>1, <1>2 DEF Cleaned, Beyond, Stored
<1> QED
  BY <1>2, <1>7, <1>9, <1>10 DEF Cleaned, InTool, Based, Bare, Stored

\* When the patches of all other branches that it has found are tried, what has no original
\* is Chromium's, or has what this branch's own patch made of it, or is hidden.
LEMMA ForeignEndsCleaned == ASSUME CleanInv, ~spoilt, ForeignEnds PROVE Cleaned'
<1>1. JobTyped /\ Cleaned /\ Single /\ StoreInv /\ TreeInv /\ job.at = "foreign"
  BY CleanHas DEF ForeignEnds, InTool, StoreInv
<1>2. /\ UNCHANGED <<tree, store>> /\ job'.tool = "clean" /\ job'.branch = job.branch
      /\ LeftOut(job') = LeftOut(job) /\ job'.hidden = job.hidden /\ job.untried = {}
      /\ \/ job'.at = "created"
         \/ /\ job'.at = "foreign" /\ job'.trees = job.trees
            /\ job'.untried = Foreign(job.branch, job.trees) \ job.undone
  BY <1>1, CleanStages DEF LeftOut
<1> PICK b : b = job.branch
  OBVIOUS
<1>3. b \in Branches
  BY <1>1 DEF JobTyped, ForeignEnds, InTool
<1>4. ASSUME NEW f \in Base(b) \ LeftOut(job) PROVE Based(b, f)
  <2>1. f \in Files /\ f \notin Contested /\ Original[f] # Absent
    BY BaseFiles
  <2>2. Based(b, f) \/ Bare(f)
    BY <1>1 DEF Cleaned
  <2>3. CASE Bare(f) /\ tree[f] = Original[f]
    BY <2>3 DEF Based
  <2>4. CASE Bare(f) /\ tree[f] # Original[f]
    <3>1. f \in Substituted /\ ~Stored(f) /\ OneText(f)
      BY <1>1, <2>1, <2>4 DEF Bare, Single
    <3> PICK c \in Branches : \E i \in PatchesOf(c, f) : tree[f] = Edited(Original[f], Series[c][i][f].to)
      BY <2>4, <3>1 DEF OneText
    <3>2. PICK i \in PatchesOf(c, f) : tree[f] = Edited(Original[f], Series[c][i][f].to)
      OBVIOUS
    <3>3. CASE PatchesOf(b, f) # {}
      <4> DEFINE to == Series[c][i][f].to
      <4>1. to # Absent
        BY PatchParts
      <4>2. tree[f] = Edited(Original[f], to)
        BY <3>2
      <4> HIDE DEF to
      <4>3. tree[f] = [s \in Places |-> IF s \in DOMAIN to THEN to[s] ELSE Original[f][s]]
        BY <2>1, <4>1, <4>2 DEF Edited
      <4>4. PICK j \in PatchesOf(b, f) : TRUE
        BY <3>3
      <4>5. Series[b][j][f] = Series[c][i][f] /\ j <= End(b)
        BY <1>3, <2>1, <3>1, OneChange, PatchNumbers DEF End
      <4>6. \A s \in Places : ChangersAt(b, f, s, End(b)) = {} => s \notin DOMAIN to
        BY <4>4, <4>5 DEF ChangersAt, to
      <4> QED
        BY <4>3, <4>6 DEF Based
    <3>4. CASE PatchesOf(b, f) = {}
      <4>1. f \notin ByFile(b) /\ f \in OfOthers(b)
        BY <2>1, <3>4 DEF ByFile, OfOthers, Ours
      <4>2. f \in Ours(job.trees \ {b})
        <5>1. f \notin job.hidden /\ Beyond(b, job.trees) \subseteq job.hidden
          BY <1>1 DEF LeftOut, Cleaned
        <5> QED
          BY <3>1, <4>1, <5>1 DEF Beyond
      <4>3. PICK d \in job.trees \ {b} : f \in ByFile(d)
        BY <4>2 DEF Ours
      <4>4. PICK j \in PatchesOf(d, f) : TRUE
        BY <4>3 DEF ByFile
      <4>5. d \in Branches
        BY <1>1 DEF JobTyped, JobType
      <4>6. j \in 1..MaxSeries /\ j <= Len(Series[d]) /\ f \in Touched(Series[d][j])
        <5>1. j \in 1..Len(Series[d]) /\ f \in Touched(Series[d][j])
          BY DEF PatchesOf
        <5>2. Len(Series[d]) \in 0..MaxSeries /\ MaxSeries \in Nat
          BY <4>5, TreeAssumption
        <5> QED
          BY <5>1, <5>2
      <4>7. f \in Listed
        BY <2>1, <3>1, <4>4, <4>5 DEF Contested
      <4> PICK y : y = <<d, j, f>>
        OBVIOUS
      <4>8. y \in Foreign(b, job.trees) /\ y[3] = f
        BY <4>1, <4>6, <4>7 DEF Foreign
      <4>9. f \in Contested \/ Stored(f) \/ tree[f] = Original[f]
        BY <1>1, <1>2, <4>8 DEF Cleaned, TakenOff
      <4> QED
        BY <2>1, <2>4, <3>1, <4>9
    <3> QED
      BY <3>3, <3>4
  <2> QED
    BY <2>2, <2>3, <2>4
<1>5. CASE job'.at = "created"
  BY <1>2, <1>4, <1>5 DEF Cleaned, InTool, Based
<1>6. CASE job'.at = "foreign"
  <2>1. TakenOff'
    BY <1>1, <1>2, <1>6 DEF Cleaned, TakenOff, Stored
  <2>2. job'.untried \subseteq Foreign(b, job.trees) /\ Beyond(b, job.trees)' \subseteq job.hidden
        /\ job'.trees = job.trees
    BY <1>1, <1>2, <1>6 DEF Cleaned, Beyond, Stored
  <2> QED
    BY <1>2, <1>4, <1>6, <2>1, <2>2 DEF Cleaned, InTool, Based
<1> QED
  BY <1>2, <1>5, <1>6

LEMMA CreatedCleaned == ASSUME CleanInv, ~spoilt, RemoveCreated PROVE Cleaned'
<1>1. JobTyped /\ Cleaned /\ job.tool = "clean" /\ job.at = "created"
  BY CleanHas DEF RemoveCreated, InTool
<1>2. job'.tool = job.tool /\ job'.branch = job.branch /\ LeftOut(job') = LeftOut(job)
  BY <1>1, JobStays DEF RemoveCreated
<1>3. job'.at = "created"
  BY <1>1 DEF RemoveCreated, NextPatch, JobTyped, JobType
<1>4. \A f \in Created(Patch) : Original[f] = Absent
  BY <1>1, CreatedIsNew DEF RemoveCreated
<1>5. \A f \in Native : tree'[f] = tree[f]
  BY <1>4 DEF RemoveCreated, Stale, Native
<1> PICK b : b = job.branch
  OBVIOUS
<1>6. \A f \in Base(b) \ LeftOut(job) : Based(b, f)'
  BY <1>1, <1>5, BaseFiles DEF Cleaned, Based
<1> QED
  BY <1>1, <1>2, <1>3, <1>6 DEF Cleaned, InTool, Based

LEMMA CleanEndsCleaned == ASSUME CleanInv, ~spoilt, CleanEnds PROVE Cleaned'
<1>1. Cleaned /\ job.at = "created" /\ UNCHANGED tree /\ Finishes(TRUE, job.branch)
  BY CleanHas DEF CleanEnds, InTool
<1>2. job' = NoJob /\ NoJob.at = "none" /\ NoJob.tool = "none"
      /\ ready' = job.branch /\ LeftOut(last') = LeftOut(job)
  BY <1>1 DEF Finishes, NoJob, LeftOut
<1> PICK b : b = job.branch
  OBVIOUS
<1>3. \A f \in Base(b) \ LeftOut(job) : Based(b, f)
  BY <1>1 DEF Cleaned
<1> QED
  BY <1>1, <1>2, <1>3 DEF Cleaned, InTool, Based

LEMMA CleanInvNext == ASSUME CleanInv, [TreeNext]_treeVars PROVE CleanInv'
<1>1. KeptInv'
  BY KeptInvNext DEF CleanInv
<1>2. spoilt => spoilt'
  BY StoreGrows DEF CleanInv, KeptInv, ThereInv, DoneInv
<1>3. ASSUME ~spoilt PROVE Cleaned'
  <2> USE <1>3
  <2>1. CASE UNCHANGED treeVars
    <3>1. job' = job /\ last' = last /\ ready' = ready /\ tree' = tree /\ store' = store
      BY <2>1 DEF treeVars
    <3>2. \A b, fs : Beyond(b, fs)' = Beyond(b, fs)
      BY <3>1 DEF Beyond, Stored
    <3>3. TakenOff <=> TakenOff'
      BY <3>1 DEF TakenOff, Stored
    <3>4. \A b, g : (Based(b, g) <=> Based(b, g)') /\ (Bare(g) <=> Bare(g)')
                   /\ (Unseeded(g) <=> Unseeded(g)')
      BY <3>1 DEF Based, Bare, Unseeded, Stored
    <3> QED
      BY <3>1, <3>2, <3>3, <3>4 DEF CleanInv, Cleaned, InTool
  <2>2. CASE \E b \in Branches : StartApply(b) \/ StartRestore(b) \/ StartClean(b)
    BY <2>2, StartApplyCleaned, StartRestoreCleaned, StartCleanCleaned
  <2>3. CASE Sync \/ OverlaidAll \/ AlreadyApplied \/ ApplyPatch \/ Rewind \/ PatchesEnd
    BY <2>3, SyncCleaned, ApplyCleaned
  <2>4. CASE FailToApply \/ ApplyEnds \/ RestoreEnds
    BY <2>4, CleanedNot DEF FailToApply, ApplyEnds, RestoreEnds, Finishes
  <2>5. CASE ReversePatch \/ ReverseEnds
    BY <2>5, RestoreCleaned
  <2>6. CASE CopiedBack \/ SeedsEnd \/ ForeignEnds \/ RemoveCreated \/ CleanEnds
    BY <2>6, CopiedBackCleaned, SeedsEndCleaned, ForeignEndsCleaned, CreatedCleaned,
         CleanEndsCleaned
  <2>7. CASE \E f \in Files : Snapshot(f) \/ OverlayFile(f) \/ Rebrand(f) \/ CopyBack(f) \/ Seed(f)
    BY <2>7, ApplyFilesCleaned, CopyBackCleaned, SeedCleaned
  <2>8. CASE \E x \in job.untried : TryForeign(x[1], x[2], x[3])
    BY <2>8, ForeignCleaned
  <2>9. CASE \/ KillBetween
             \/ \E f \in Files : KillInCopy(f) \/ KillInSave(f) \/ KillInSeed(f)
             \/ \E fs \in SUBSET Rewinding : KillInRewind(fs)
             \/ \E removed, written \in SUBSET Changing : KillInGit(removed, written)
    BY <2>9, KillsAtWork, CleanedNot DEF Killed
  <2> QED
    BY <2>1, <2>2, <2>3, <2>4, <2>5, <2>6, <2>7, <2>8, <2>9 DEF TreeNext
<1> QED
  BY <1>1, <1>2, <1>3 DEF CleanInv
-----------------------------------------------------------------------------
(* What a branch leaves in the tree *)

\* The patches of a branch are all in, over a base, or over nothing.
LEMMA DoneIsPatched ==
  ASSUME NEW b \in Branches, NEW f \in Files, DoneUpTo(b, End(b)), IsText(tree[f]), IsText(Original[f]),
         \/ Based(b, f) /\ tree[f] # Absent /\ Original[f] # Absent
         \/ Original[f] = Absent
  PROVE  \/ tree[f] = Patched(b, f, Original[f], End(b))
         \/ Patched(b, f, Original[f], End(b)) = Absent
<1>1. \A i \in PatchesOf(b, f) : i \in Nat /\ ~(i > End(b)) /\ End(b) \in Nat
  <2>1. \A i \in PatchesOf(b, f) : i \in 1..Len(Series[b]) /\ Len(Series[b]) \in Nat
    BY PatchNumbers
  <2> QED
    BY <2>1 DEF End
<1>2. CASE PatchesOf(b, f) = {}
  <2>1. Patched(b, f, Original[f], End(b)) = Original[f]
    BY <1>2 DEF Patched
  <2>2. ASSUME Original[f] # Absent PROVE tree[f] = Original[f]
    <3>1. \A s \in Places : tree[f][s] = Original[f][s]
      BY <1>2, <2>2 DEF Based, ChangersAt
    <3>2. tree[f] = [s \in Places |-> tree[f][s]] /\ Original[f] = [s \in Places |-> Original[f][s]]
      BY <2>2, AbsentHasNothing
    <3> QED
      BY <3>1, <3>2
  <2> QED
    BY <2>1, <2>2
<1>3. CASE PatchesOf(b, f) # {}
  <2>1. PICK i \in PatchesOf(b, f) : TRUE
    BY <1>3
  <2>2. Patched(b, f, Original[f], End(b)) =
          [s \in Places |-> IF ChangersAt(b, f, s, End(b)) = {} THEN Original[f][s]
                            ELSE Series[b][Max(ChangersAt(b, f, s, End(b)))][f].to[s]]
    BY <1>1, <2>1 DEF Patched
  <2>3. tree[f] # Absent /\ \A s \in Places : tree[f][s] = Patched(b, f, Original[f], End(b))[s]
    <3>1. CASE Original[f] # Absent
      <4>1. \A s \in Places : ChangersAt(b, f, s, End(b)) = {} => tree[f][s] = Original[f][s]
        BY <3>1 DEF Based
      <4>2. \A s \in Places : ChangersAt(b, f, s, End(b)) # {} =>
               tree[f][s] = Patched(b, f, Original[f], End(b))[s]
        BY DEF DoneUpTo
      <4> QED
        BY <2>2, <3>1, <4>1, <4>2
    <3>2. CASE Original[f] = Absent
      <4>1. \A s \in Places : ChangersAt(b, f, s, End(b)) # {}
        BY <1>3, <3>2, AllOfOurs DEF End
      <4> QED
        BY <4>1, TreeAssumption DEF DoneUpTo
    <3> QED
      BY <3>1, <3>2
  <2>4. tree[f] = [s \in Places |-> tree[f][s]]
    BY <2>3, AbsentHasNothing
  <2> QED
    BY <2>2, <2>3, <2>4
<1> QED
  BY <1>2, <1>3

\* A file that no patch of the branch touches is wanted as the patches find it.
LEMMA WantedUnpatched ==
  ASSUME NEW b \in Branches, NEW f \in Files
  PROVE  /\ Wanted(b)[f] = Patched(b, f, Unpatched(b)[f], End(b))
         /\ f \notin ByFile(b) => Wanted(b)[f] = Unpatched(b)[f]
         /\ f \in OverlayFiles(b) => Unpatched(b)[f] = Overlay[b][f] /\ f \notin ByFile(b)
         /\ f \in Branded => Unpatched(b)[f] = Rebranded /\ f \notin ByFile(b)
         /\ f \notin OverlayFiles(b) \cup Branded => Unpatched(b)[f] = Original[f]
<1>1. f \notin ByFile(b) => PatchesOf(b, f) = {}
  BY DEF ByFile
<1>2. /\ f \in OverlayFiles(b) => f \notin ByFile(b) /\ f \notin Branded
      /\ f \in Branded => f \notin ByFile(b)
  BY TreeAssumption
<1> QED
  BY <1>1, <1>2 DEF Wanted, Unpatched, Patched, End

LEMMA BuiltAsWanted ==
  ASSUME CleanInv, ~spoilt, InTool("apply", "rebrand"), job.left = {}, NEW b, b = job.branch,
         NEW f \in Files \ (Contested \cup LeftOut(job))
  PROVE  tree[f] = Wanted(b)[f] \/ Wanted(b)[f] = Absent
<1>1. Cleaned /\ Present /\ Laid /\ Progress /\ TextsWhole /\ b \in Branches /\ JobTyped
  BY CleanHas DEF KeptInv, DoneInv, StoreInv, TreeInv, JobTyped, InTool
<1>2. CASE f \in OverlayFiles(b)
  <2>1. tree[f] = Overlay[b][f]
    BY <1>1, <1>2 DEF Laid, LaidSoFar, InTool
  <2> QED
    BY <1>1, <1>2, <2>1, WantedUnpatched
<1>3. CASE f \in Branded
  <2>1. tree[f] = Rebranded
    BY <1>1, <1>3 DEF Laid, BrandedSoFar, InTool
  <2> QED
    BY <1>1, <1>3, <2>1, WantedUnpatched
<1>4. CASE f \notin OverlayFiles(b) \cup Branded
  <2>1. Wanted(b)[f] = Patched(b, f, Original[f], End(b))
    BY <1>1, <1>4, WantedUnpatched
  <2>2. DoneUpTo(b, End(b))
    BY <1>1 DEF Progress, InTool
  <2>3. Original[f] # Absent => Based(b, f) /\ tree[f] # Absent
    BY <1>1, <1>4 DEF Cleaned, Base, Native, Present, InTool
  <2>4. IsText(tree[f]) /\ IsText(Original[f])
    BY <1>1, TreeAssumption DEF TextsWhole
  <2> QED
    BY <1>1, <2>1, <2>2, <2>3, <2>4, DoneIsPatched
<1> QED
  BY <1>2, <1>3, <1>4

\* Only apply.py's last step says that it has succeeded.
LEMMA BuiltBy ==
  ASSUME StoreInv, TreeNext, NEW b \in Branches, Succeeded("apply", b)' PROVE ApplyEnds
<1>1. last'.tool = "apply" /\ last'.well
  BY DEF Succeeded
<1>2. ASSUME NEW c \in Branches, StartApply(c) \/ StartRestore(c) \/ StartClean(c) PROVE FALSE
  <2>1. last'.tool = "none"
    BY <1>2 DEF StartApply, StartRestore, StartClean, Begins, Ended
  <2> QED
    BY <1>1, <2>1
<1>3. ASSUME last' = last, job.at # "none" \/ job # NoJob PROVE FALSE
  <2>1. job # NoJob
    BY <1>3 DEF NoJob
  <2> QED
    BY <1>1, <1>3, <2>1, AtWork
<1>4. ASSUME NEW well, NEW c, Finishes(well, c), well => job.tool # "apply" PROVE FALSE
  BY <1>1, <1>4 DEF Finishes
<1>5. CASE \/ OverlaidAll \/ AlreadyApplied \/ ApplyPatch \/ Rewind \/ PatchesEnd
           \/ ReversePatch \/ ReverseEnds \/ RemoveCreated
           \/ \E f \in Files : Snapshot(f) \/ OverlayFile(f) \/ CopyBack(f)
  <2>1. last' = last
    BY <1>5 DEF OverlaidAll, AlreadyApplied, ApplyPatch, Rewind, PatchesEnd, ReversePatch,
                ReverseEnds, RemoveCreated, Snapshot, OverlayFile, CopyBack, GoesOn
  <2>2. job.at # "none"
    BY <1>5 DEF OverlaidAll, AlreadyApplied, ApplyPatch, Rewind, PatchesEnd, ReversePatch,
                ReverseEnds, RemoveCreated, Snapshot, OverlayFile, CopyBack, Stuck, Patching, InTool
  <2> QED
    BY <1>3, <2>1, <2>2
<1>9. CASE CopiedBack \/ SeedsEnd \/ ForeignEnds
  <2>1. last' = last /\ job.at # "none"
    BY <1>9, CleanStages DEF StoreInv, CopiedBack, SeedsEnd, ForeignEnds, GoesOn, InTool
  <2> QED
    BY <1>3, <2>1
<1>10. ASSUME NEW f \in Files, Seed(f) PROVE FALSE
  BY <1>3, <1>10, Seeding DEF StoreInv, TreeInv, GoesOn
<1>11. ASSUME NEW x \in job.untried, TryForeign(x[1], x[2], x[3]) PROVE FALSE
  BY <1>3, <1>11, Tries DEF StoreInv, TreeInv, GoesOn
<1>6. CASE Sync \/ \E f \in Files : Rebrand(f)
  <2>1. job.at # "none" /\ (last' = last \/ Finishes(FALSE, NoBranch))
    BY <1>6 DEF Sync, Rebrand, InTool
  <2> QED
    BY <1>3, <1>4, <2>1
<1>7. CASE FailToApply \/ RestoreEnds \/ CleanEnds
  BY <1>4, <1>7 DEF FailToApply, RestoreEnds, CleanEnds, InTool
<1>8. CASE \/ KillBetween
           \/ \E f \in Files : KillInCopy(f) \/ KillInSave(f) \/ KillInSeed(f)
           \/ \E fs \in SUBSET Rewinding : KillInRewind(fs)
           \/ \E removed, written \in SUBSET Changing : KillInGit(removed, written)
  <2>1. job # NoJob /\ last' = last
    BY <1>8, KillsAtWork DEF Killed
  <2> QED
    BY <1>3, <2>1
<1> QED
  BY <1>2, <1>5, <1>6, <1>7, <1>8, <1>9, <1>10, <1>11 DEF TreeNext

OneInv == CleanInv /\ BuildsOneBranch

LEMMA OneInvInit == TreeInit => OneInv
<1>1. TreeInit => BuildsOneBranch
  BY DEF TreeInit, Ended, BuildsOneBranch, Succeeded
<1> QED
  BY <1>1, CleanInvInit DEF OneInv

LEMMA OneInvNext == ASSUME OneInv, [TreeNext]_treeVars PROVE OneInv'
<1>1. CleanInv' /\ StoreInv
  BY CleanInvNext DEF OneInv, CleanInv, KeptInv, ThereInv, DoneInv
<1>2. CASE UNCHANGED treeVars
  BY <1>1, <1>2 DEF treeVars, OneInv, BuildsOneBranch, Succeeded
<1>3. CASE TreeNext
  <2> SUFFICES ASSUME NEW b \in Branches, Succeeded("apply", b)', ~spoilt'
               PROVE  /\ boring' = b
                      /\ \A f \in Files \ (Contested \cup LeftOut(last')) :
                           tree'[f] = Wanted(b)[f] \/ Wanted(b)[f] = Absent
    BY <1>1 DEF OneInv, BuildsOneBranch, LeftOut
  <2>1. ApplyEnds
    BY <1>1, <1>3, BuiltBy
  <2>2. InTool("apply", "rebrand") /\ job.left = {} /\ UNCHANGED <<tree, boring, spoilt>>
        /\ last'.branch = job.branch /\ LeftOut(last') = LeftOut(job)
    BY <2>1 DEF ApplyEnds, Finishes, LeftOut
  <2>3. b = job.branch
    BY <2>2 DEF Succeeded
  <2>4. boring = b
    BY <2>2, <2>3 DEF OneInv, CleanInv, KeptInv, Laid, InTool
  <2>5. \A f \in Files \ (Contested \cup LeftOut(job)) : tree[f] = Wanted(b)[f] \/ Wanted(b)[f] = Absent
    BY <2>2, <2>3, BuiltAsWanted DEF OneInv
  <2> QED
    BY <2>2, <2>4, <2>5
<1> QED
  BY <1>2, <1>3

\* However many branches have built in the tree before, and whatever was killed, but for
\* the saving of an original and git at work: when clean_tree.py and apply.py have gone
\* through for a branch, every file is as that branch wants it, but for contested files,
\* those left as they were found, and those of branches whose patches were not found.
THEOREM TreeIsOfOneBranch == TreeSpec => []BuildsOneBranch
<1>1. OneInv => BuildsOneBranch
  BY DEF OneInv
<1> QED
  BY <1>1, OneInvInit, OneInvNext, PTL DEF TreeSpec
-----------------------------------------------------------------------------
(* What a restore leaves in the tree *)

\* Of a file without a copy a restore takes off one patch after another, until nothing
\* but Chromium's is left.
Undoing ==
  /\ InTool("restore", "reverse") =>
       \A f \in Native \ (Contested \cup job.hidden) :
         Stored(f) \/ tree[f] = Patched(job.branch, f, Original[f], End(job.branch) + 1 - job.n)
  /\ InTool("restore", "copies") =>
       \A f \in Native \ (Contested \cup job.hidden) : Stored(f) \/ tree[f] = Original[f]
  /\ last.tool = "restore" =>
       \A f \in Native \ (Contested \cup last.hidden) : Stored(f) \/ tree[f] = Original[f]

UndoneInv == OneInv /\ (~spoilt => Undoing)

LEMMA UndoneInvInit == TreeInit => UndoneInv
<1>1. TreeInit => Undoing
  BY DEF TreeInit, NoJob, Ended, Undoing, InTool
<1> QED
  BY <1>1, OneInvInit DEF UndoneInv

LEMMA UndoneHas ==
  ASSUME UndoneInv
  PROVE  /\ OneInv /\ CleanInv /\ KeptInv /\ ThereInv /\ DoneInv /\ StoreInv /\ JobTyped /\ LeftOf
         /\ Unsure /\ (~spoilt => Saved /\ Undoing)
BY DEF UndoneInv, OneInv, CleanInv, KeptInv, ThereInv, DoneInv, StoreInv, TreeInv

\* A restore starts from what apply.py has built: what has no copy has the branch's
\* patches, and no more.
LEMMA StartsUndoing == ASSUME UndoneInv, ~spoilt, NEW b \in Branches, StartRestore(b) PROVE Undoing'
<1>1. Succeeded("apply", b) /\ last' = Ended /\ UNCHANGED <<tree, store>>
  BY DEF StartRestore, Begins
<1>2. /\ job'.tool = "restore" /\ job'.at = "reverse" /\ job'.branch = b /\ job'.n = 1
      /\ job'.hidden = last.hidden
  BY DEF StartRestore, Begins, NoJob
<1>3. Ended.tool = "none"
  BY DEF Ended
<1>4. ASSUME NEW f \in Native \ (Contested \cup last.hidden), ~Stored(f)
      PROVE  tree[f] = Patched(b, f, Original[f], End(b))
  <2>1. f \in Files /\ Original[f] # Absent
    BY DEF Native
  <2>2. f \notin last.unsure
    BY <1>4, UndoneHas DEF Unsure
  <2>3. f \notin OverlayFiles(b) \cup Branded
    BY <1>1, <1>4, UndoneHas DEF Saved
  <2>4. tree[f] = Wanted(b)[f] \/ Wanted(b)[f] = Absent
    BY <1>1, <2>1, <2>2, UndoneHas DEF OneInv, BuildsOneBranch
  <2>5. Wanted(b)[f] = Patched(b, f, Original[f], End(b))
    BY <2>1, <2>3, WantedUnpatched
  <2>6. Patched(b, f, Original[f], End(b)) # Absent
    BY <2>1, PatchedText
  <2> QED
    BY <2>4, <2>5, <2>6
<1>5. End(b) + 1 - job'.n = End(b)
  BY <1>2, TreeAssumption DEF End
<1> QED
  BY <1>1, <1>2, <1>3, <1>4, <1>5 DEF Undoing, InTool, Stored

LEMMA PatchUndone ==
  ASSUME NEW b \in Branches, NEW f \in Native, NEW n \in PatchesOf(b, f)
  PROVE  Edited(Patched(b, f, Original[f], n), Series[b][n][f].from) = Patched(b, f, Original[f], n - 1)
<1> DEFINE from == Series[b][n][f].from
           to == Series[b][n][f].to
           before == Patched(b, f, Original[f], n - 1)
           after == Patched(b, f, Original[f], n)
<1>1. from # Absent /\ DOMAIN from = DOMAIN to
  BY MadeByPatch, PatchParts DEF Native
<1>2. Holds(before, from)
  <2>1. GoOn(b, f, Original[f])
    BY PatchNumbers, TreeAssumption
  <2> QED
    BY <2>1 DEF GoOn
<1>3. after = [s \in Places |-> IF s \in DOMAIN to THEN to[s] ELSE before[s]]
  BY PatchedByOne
<1>4. before = [s \in Places |-> before[s]] /\ before # Absent
  <2>1. f \in Files /\ Original[f] # Absent /\ IsText(Original[f])
    BY TreeAssumption DEF Native
  <2>2. Original[f] = [s \in Places |-> Original[f][s]]
    BY <2>1, AbsentHasNothing
  <2>3. before = Original[f] \/ before = [s \in Places |->
          IF ChangersAt(b, f, s, n - 1) = {} THEN Original[f][s]
          ELSE Series[b][Max(ChangersAt(b, f, s, n - 1))][f].to[s]]
    BY DEF Patched
  <2>4. DOMAIN before = Places /\ before = [s \in Places |-> before[s]]
    <3> HIDE DEF before
    <3> QED
      BY <2>2, <2>3
  <2>5. before # Absent
    <3> HIDE DEF before
    <3> QED
      BY <2>4, AbsentHasNothing
  <2> QED
    BY <2>4, <2>5
<1> HIDE DEF from, to, before, after
<1>5. \A s \in DOMAIN from : before[s] = from[s]
  BY <1>1, <1>2, <1>4 DEF Holds
<1>6. after # Absent
  BY <1>3, AbsentHasNothing
<1>7. Edited(after, from) = [s \in Places |-> IF s \in DOMAIN from THEN from[s] ELSE after[s]]
  BY <1>1, <1>6 DEF Edited
<1>8. Edited(after, from) = [s \in Places |-> before[s]]
  BY <1>1, <1>3, <1>5, <1>7
<1>9. Edited(after, from) = before
  BY <1>4, <1>8
<1> QED
  BY <1>9 DEF from, before, after

LEMMA ReverseUndoes == ASSUME UndoneInv, ~spoilt, ReversePatch PROVE Undoing'
<1> PICK b : b = job.branch
  OBVIOUS
<1> PICK n : n = End(b) + 1 - job.n
  OBVIOUS
<1>1. /\ b \in Branches /\ n \in 1..Len(Series[b])
      /\ tree' = Reverse(tree, Series[b][n], Touched(Series[b][n]))
  BY UndoneHas, ReversePatchReverses
<1>2. InTool("restore", "reverse") /\ UNCHANGED <<store, last>> /\ JobTyped
  BY UndoneHas DEF ReversePatch, GoesOn
<1>3. last.tool = "none"
  BY <1>2, UndoneHas, AtWork, AtIsAtWork DEF InTool
<1>4. /\ job'.tool = "restore" /\ job'.at = "reverse" /\ job'.branch = b
      /\ job'.hidden = job.hidden /\ job'.n = job.n + 1 /\ job.n \in Nat
  BY <1>2 DEF ReversePatch, NextPatch, InTool, JobTyped, JobType
<1>5. End(b) + 1 - job'.n = n - 1 /\ n \in Int
  <2>1. End(b) \in Nat
    BY <1>1, TreeAssumption DEF End
  <2>2. End(b) + 1 - (job.n + 1) = n - 1 /\ n \in Int
    BY <1>4, <2>1
  <2> QED
    BY <1>4, <2>2
<1>6. ASSUME NEW f \in Native \ (Contested \cup job.hidden), ~Stored(f)
      PROVE  tree'[f] = Patched(b, f, Original[f], n - 1)
  <2>1. f \in Files
    BY DEF Native
  <2>2. tree[f] = Patched(b, f, Original[f], n)
    BY <1>2, <1>6, UndoneHas DEF Undoing
  <2>3. CASE n \in PatchesOf(b, f)
    <3>1. tree'[f] = Edited(tree[f], Series[b][n][f].from)
      BY <1>1, <2>1, <2>3, PatchNumbers DEF Reverse
    <3> QED
      BY <1>1, <2>2, <2>3, <3>1, PatchUndone
  <2>4. CASE n \notin PatchesOf(b, f)
    <3>1. f \notin Touched(Series[b][n])
      BY <1>1, <2>4 DEF PatchesOf
    <3>2. tree'[f] = tree[f]
      BY <1>1, <2>1, <3>1 DEF Reverse
    <3> QED
      BY <1>1, <1>5, <2>2, <2>4, <3>2, PatchedPassesBy
  <2> QED
    BY <2>3, <2>4
<1> QED
  BY <1>2, <1>3, <1>4, <1>5, <1>6 DEF Undoing, InTool, Stored

LEMMA ReverseEndsUndoes == ASSUME UndoneInv, ~spoilt, ReverseEnds PROVE Undoing'
<1>1. InTool("restore", "reverse") /\ UNCHANGED <<tree, store, last>> /\ JobTyped
      /\ job.n > Len(Series[job.branch])
  BY UndoneHas DEF ReverseEnds, GoesOn
<1>2. last.tool = "none"
  BY <1>1, UndoneHas, AtWork, AtIsAtWork DEF InTool
<1>3. job'.at = "copies" /\ job'.hidden = job.hidden
  BY <1>1, JobAt, JobStays DEF ReverseEnds
<1> PICK b : b = job.branch
  OBVIOUS
<1> PICK n : n = End(b) + 1 - job.n
  OBVIOUS
<1>4. b \in Branches /\ job.n \in Nat
  BY <1>1, WorksForBranch
<1>5. n \in Int /\ n <= 0
  BY <1>1, <1>4, TreeAssumption DEF End
<1>6. ASSUME NEW f \in Native \ (Contested \cup job.hidden), ~Stored(f) PROVE tree[f] = Original[f]
  <2>1. tree[f] = Patched(b, f, Original[f], n)
    BY <1>1, <1>6, UndoneHas DEF Undoing
  <2>2. \A i \in PatchesOf(b, f) : i \in 1..Len(Series[b]) /\ Len(Series[b]) \in Nat
    BY <1>4, PatchNumbers
  <2>3. \A i \in PatchesOf(b, f) : i > n
    BY <1>5, <2>2
  <2> QED
    BY <2>1, <2>3 DEF Patched
<1> QED
  BY <1>1, <1>2, <1>3, <1>6 DEF Undoing, InTool, Stored

LEMMA CopyBackUndoes == ASSUME UndoneInv, ~spoilt, NEW f \in Files, CopyBack(f) PROVE Undoing'
<1>1. UNCHANGED <<store, last>> /\ JobTyped /\ job.at = "copies" /\ f \in job.left /\ LeftOf
  BY UndoneHas DEF CopyBack, GoesOn
<1>2. last.tool = "none"
  BY <1>1, UndoneHas, AtWork, AtIsAtWork
<1>3. job'.at = "copies" /\ job'.tool = job.tool /\ job'.hidden = job.hidden
  BY <1>1 DEF CopyBack, JobTyped, JobType
<1>4. Stored(f) /\ \A g \in Files : tree'[g] # tree[g] => g = f
  BY <1>1 DEF CopyBack, PutBack, LeftOf
<1>5. job.tool = "restore" =>
        \A g \in Native \ (Contested \cup job.hidden) : Stored(g) \/ tree[g] = Original[g]
  BY <1>1, UndoneHas DEF Undoing, InTool
<1>6. job.tool = "restore" =>
        \A g \in Native \ (Contested \cup job.hidden) : Stored(g) \/ tree'[g] = Original[g]
  BY <1>4, <1>5 DEF Native
<1> QED
  BY <1>1, <1>2, <1>3, <1>6 DEF Undoing, InTool, Stored

LEMMA RestoreEndsUndoes == ASSUME UndoneInv, ~spoilt, RestoreEnds PROVE Undoing'
<1>1. InTool("restore", "copies") /\ UNCHANGED <<tree, store>> /\ Finishes(TRUE, NoBranch)
  BY DEF RestoreEnds
<1>2. job'.tool = "none" /\ last'.hidden = job.hidden
  BY <1>1 DEF Finishes, NoJob
<1>3. \A g \in Native \ (Contested \cup job.hidden) : Stored(g) \/ tree[g] = Original[g]
  BY <1>1, UndoneHas DEF Undoing
<1> QED
  BY <1>1, <1>2, <1>3 DEF Undoing, InTool, Stored

\* Only a restore that runs is to undo anything.
LEMMA OthersUndoing == ASSUME job'.tool # "restore", last'.tool # "restore" PROVE Undoing'
BY DEF Undoing, InTool

LEMMA OtherTools ==
  ASSUME StoreInv, TreeNext,
         ~\E b \in Branches : StartRestore(b),
         ~(ReversePatch \/ ReverseEnds \/ RestoreEnds), ~\E f \in Files : CopyBack(f)
  PROVE  job'.tool # "restore" /\ last'.tool # "restore"
<1>1. JobTyped /\ LeftOf /\ NoJob.tool = "none"
  BY DEF StoreInv, TreeInv, NoJob
<1>2. ASSUME NEW b \in Branches, StartApply(b) \/ StartClean(b)
      PROVE  job'.tool # "restore" /\ last'.tool # "restore"
  <2>1. last'.tool = "none"
    BY <1>2 DEF StartApply, StartClean, Begins, Ended
  <2>2. job'.tool \in {"apply", "clean"}
    BY <1>2 DEF StartApply, StartClean, Begins, NoJob
  <2> QED
    BY <2>1, <2>2
<1>3. ASSUME job.tool \in {"apply", "clean"}, last' = last, job'.tool = job.tool
      PROVE  job'.tool # "restore" /\ last'.tool # "restore"
  BY <1>1, <1>3, AtWork
<1>4. ASSUME NEW well, NEW b, Finishes(well, b), job.tool \in {"apply", "clean"}
      PROVE  job'.tool # "restore" /\ last'.tool # "restore"
  BY <1>1, <1>4 DEF Finishes
<1>5. CASE OverlaidAll \/ AlreadyApplied \/ ApplyPatch \/ Rewind \/ PatchesEnd \/ RemoveCreated
  <2>1. job.tool \in {"apply", "clean"} /\ last' = last
    BY <1>5 DEF OverlaidAll, AlreadyApplied, ApplyPatch, Rewind, PatchesEnd, RemoveCreated,
                Stuck, Patching, InTool, GoesOn
  <2>2. job'.tool = job.tool
    BY <1>1, <1>5, JobStays
    DEF OverlaidAll, AlreadyApplied, ApplyPatch, Rewind, PatchesEnd, RemoveCreated
  <2> QED
    BY <1>3, <2>1, <2>2
<1>6. ASSUME NEW f \in Files, Snapshot(f) \/ OverlayFile(f) \/ Rebrand(f)
      PROVE  job'.tool # "restore" /\ last'.tool # "restore"
  <2>1. job.tool \in {"apply", "clean"}
    BY <1>1, <1>6 DEF Snapshot, OverlayFile, Rebrand, InTool, LeftOf
  <2>2. (last' = last /\ job'.tool = job.tool) \/ Finishes(FALSE, NoBranch)
    BY <1>1, <1>6 DEF Snapshot, OverlayFile, Rebrand, GoesOn, JobTyped, JobType
  <2> QED
    BY <1>3, <1>4, <2>1, <2>2
<1>11. ASSUME CopiedBack \/ SeedsEnd \/ ForeignEnds
       PROVE  job'.tool # "restore" /\ last'.tool # "restore"
  <2>1. job.tool = "clean" /\ job'.tool = job.tool /\ last' = last
    BY <1>11, CleanStages DEF StoreInv, GoesOn
  <2> QED
    BY <1>3, <2>1
<1>12. ASSUME NEW f \in Files, Seed(f) PROVE job'.tool # "restore" /\ last'.tool # "restore"
  BY <1>1, <1>3, <1>12, Seeding DEF GoesOn
<1>7. CASE Sync
  <2>1. job.tool = "apply"
    BY <1>7 DEF Sync, InTool
  <2>2. (last' = last /\ job'.tool = job.tool) \/ Finishes(FALSE, NoBranch)
    BY <1>1, <1>7, JobStays DEF Sync
  <2> QED
    BY <1>3, <1>4, <2>1, <2>2
<1>8. ASSUME NEW x \in job.untried, TryForeign(x[1], x[2], x[3])
      PROVE  job'.tool # "restore" /\ last'.tool # "restore"
  BY <1>1, <1>3, <1>8, Tries DEF GoesOn
<1>9. CASE FailToApply \/ ApplyEnds \/ CleanEnds
  BY <1>4, <1>9 DEF FailToApply, ApplyEnds, CleanEnds, Stuck, Patching, InTool
<1>10. CASE \/ KillBetween
            \/ \E f \in Files : KillInCopy(f) \/ KillInSave(f) \/ KillInSeed(f)
            \/ \E fs \in SUBSET Rewinding : KillInRewind(fs)
            \/ \E removed, written \in SUBSET Changing : KillInGit(removed, written)
  <2>1. job # NoJob /\ job' = NoJob /\ last' = last
    BY <1>10, KillsAtWork DEF Killed
  <2> QED
    BY <1>1, <2>1, AtWork
<1> QED
  BY <1>2, <1>5, <1>6, <1>7, <1>8, <1>9, <1>10, <1>11, <1>12 DEF TreeNext

LEMMA UndoneInvNext == ASSUME UndoneInv, [TreeNext]_treeVars PROVE UndoneInv'
<1>1. OneInv' /\ StoreInv
  BY OneInvNext, UndoneHas
<1>2. spoilt => spoilt'
  BY <1>1, StoreGrows
<1>3. ASSUME ~spoilt PROVE Undoing'
  <2> USE <1>3
  <2>1. CASE UNCHANGED treeVars
    BY <2>1 DEF treeVars, UndoneInv, Undoing, InTool, Stored
  <2>2. CASE TreeNext /\ \E b \in Branches : StartRestore(b)
    BY <2>2, StartsUndoing
  <2>3. CASE TreeNext /\ (ReversePatch \/ ReverseEnds \/ RestoreEnds \/ \E f \in Files : CopyBack(f))
    BY <2>3, ReverseUndoes, ReverseEndsUndoes, RestoreEndsUndoes, CopyBackUndoes
  <2>4. CASE TreeNext /\ ~(\E b \in Branches : StartRestore(b))
             /\ ~(ReversePatch \/ ReverseEnds \/ RestoreEnds) /\ ~\E f \in Files : CopyBack(f)
    BY <1>1, <2>4, OtherTools, OthersUndoing
  <2> QED
    BY <2>1, <2>2, <2>3, <2>4
<1> QED
  BY <1>1, <1>2, <1>3 DEF UndoneInv

\* apply.py --restore undoes every change to a file of Chromium's, its own and what other
\* branches left, wherever a tool was killed before, but for the saving of an original and
\* git at work, and but for files without a copy that were changed by a branch whose
\* patches clean_tree.py did not find.
THEOREM RestorePutsOriginalsBack == TreeSpec => []RestoreUndoes
<1>1. UndoneInv => RestoreUndoes
  <2> SUFFICES ASSUME UndoneInv PROVE RestoreUndoes
    OBVIOUS
  <2>1. StoreInv /\ (~spoilt => Undoing)
    BY UndoneHas
  <2>2. StoreIsOriginal
    BY <2>1 DEF StoreInv, CopiesRight, StoreIsOriginal, Native
  <2>3. ASSUME NEW b \in Branches, Succeeded("restore", b), ~spoilt,
               NEW f \in Files \ (Contested \cup last.hidden)
        PROVE  tree[f] = Original[f] \/ Original[f] = Absent
    <3>1. last.tool = "restore"
      BY <2>3 DEF Succeeded
    <3>2. f \in Native => Stored(f) \/ tree[f] = Original[f]
      BY <2>1, <2>3, <3>1 DEF Undoing
    <3>3. f \in Native /\ Stored(f) => tree[f] = Original[f]
      BY <2>1, <2>3, <3>1 DEF StoreInv, Restored, CopiesRight
    <3> QED
      BY <3>2, <3>3 DEF Native
  <2> QED
    BY <2>2, <2>3 DEF RestoreUndoes
<1> QED
  BY <1>1, UndoneInvInit, UndoneInvNext, PTL DEF TreeSpec
-----------------------------------------------------------------------------
(* The lock on the foreground: focus_lock.py *)

\* The threads that hold the foreground.
Inside == {t \in Tests : test[t] = "in"}

FocusInv ==
  /\ test \in [Tests -> {"out", "in", "joining"}]
  /\ guard \in Tests \cup {NoTest}
  /\ keeper \in Seq({"waiting", "asking", "done"})
  /\ IsFiniteSet(Inside) /\ holders = Cardinality(Inside)
  /\ \A t \in Tests : test[t] = "joining" <=> guard = t
  /\ guard # NoTest => holders = 0
  /\ ~stalled => \A k \in 1..Current : k < Current => keeper[k] = "done"
  /\ ForegroundComesFree

LEMMA FocusInvInit == FocusInit => FocusInv
<1> SUFFICES ASSUME FocusInit PROVE FocusInv
  OBVIOUS
<1>1. Inside = {}
  BY DEF FocusInit, Inside
<1> QED
  BY <1>1, FS_EmptySet, FocusAssumption DEF FocusInit, FocusInv, ForegroundComesFree, Current

\* Two or more threads inside, or one, or none, is what the count says.
LEMMA InsideCount ==
  ASSUME IsFiniteSet(Inside), holders = Cardinality(Inside)
  PROVE  holders \in Nat /\ \A t \in Inside : holders > 0
  BY FS_CardinalityType, FS_EmptySet

LEMMA AcquireInv ==
  ASSUME FocusInv, NEW t \in Tests, Acquire(t)
  PROVE  FocusInv'
<1> USE DEF FocusInv, Acquire
<1>1. Inside' = Inside \cup {t} /\ t \notin Inside
  BY DEF Inside
<1>2. IsFiniteSet(Inside') /\ holders' = Cardinality(Inside') /\ holders \in Nat
  BY <1>1, FS_AddElement, InsideCount DEF Entered
<1>3. CASE holders' > 1
  BY <1>2, <1>3, FocusAssumption DEF ForegroundComesFree, Current
<1>4. CASE ~(holders' > 1)
  <2>1. holders = 0 /\ holders' = 1
    BY <1>2, <1>4 DEF Entered
  <2>2. /\ keeper' \in Seq({"waiting", "asking", "done"}) /\ Len(keeper') = Len(keeper) + 1
        /\ \A k \in 1..Len(keeper) : keeper'[k] = keeper[k]
    BY <1>4
  <2>3. ~stalled => \A k \in 1..Current : keeper[k] = "done"
    BY <2>1 DEF ForegroundComesFree
  <2>4. ~stalled' => \A k \in (1..Current)' : k < Current' => keeper'[k] = "done"
    BY <2>2, <2>3 DEF Current
  <2> QED
    BY <1>2, <2>1, <2>2, <2>4, FocusAssumption DEF ForegroundComesFree
<1> QED
  BY <1>3, <1>4

LEMMA ReleaseHoldInv ==
  ASSUME FocusInv, NEW t \in Tests, ReleaseHold(t)
  PROVE  FocusInv'
<1> USE DEF FocusInv, ReleaseHold
<1>1. Inside' = Inside \ {t} /\ t \in Inside
  BY DEF Inside
<1>2. /\ IsFiniteSet(Inside') /\ holders' = Cardinality(Inside')
      /\ holders' \in Nat /\ holders \in Nat
  BY <1>1, FS_RemoveElement, FS_CardinalityType, InsideCount
<1>3. test' \in [Tests -> {"out", "in", "joining"}]
  OBVIOUS
<1>4. \A u \in Tests : test'[u] = "joining" <=> guard' = u
  BY FocusAssumption
<1> QED
  BY <1>2, <1>3, <1>4, FocusAssumption DEF ForegroundComesFree, Current

LEMMA UnlockInv ==
  ASSUME FocusInv, NEW t \in Tests, Unlock(t)
  PROVE  FocusInv'
<1> USE DEF FocusInv, Unlock
<1>1. Inside' = Inside
  BY DEF Inside
<1>2. guard = t /\ guard' = NoTest /\ holders = 0
  BY FocusAssumption
<1>3. \A u \in Tests : test'[u] = "joining" <=> guard' = u
  BY <1>2, FocusAssumption
<1>4. Current' = Current /\ Current \in Nat
  BY DEF Current
<1>5. ~stalled' => ~shut' /\ \A k \in 1..Current : keeper'[k] = "done"
  <2>1. ~stalled' <=> ~stalled /\ Joined
    OBVIOUS
  <2>2. shut' = FALSE /\ keeper' = keeper
    OBVIOUS
  <2> QED
    BY <1>4, <2>1, <2>2 DEF Joined
<1> QED
  BY <1>1, <1>2, <1>3, <1>4, <1>5 DEF ForegroundComesFree

LEMMA KeeperInv ==
  ASSUME FocusInv, NEW k \in 1..Current, KeeperWakes(k) \/ KeeperAsks(k)
  PROVE  FocusInv'
<1> USE DEF FocusInv, KeeperWakes, KeeperAsks
<1>1. Inside' = Inside
  BY DEF Inside
<1>2. /\ keeper' \in Seq({"waiting", "asking", "done"}) /\ Len(keeper') = Len(keeper)
      /\ \A i \in 1..Current : i # k => keeper'[i] = keeper[i]
  BY DEF Current
<1>3. keeper[k] # "done"
  OBVIOUS
<1>4. ~stalled => k = Current
  BY <1>3 DEF Current
<1>5. ~(holders' = 0 /\ guard' = NoTest /\ ~stalled')
  BY <1>3 DEF ForegroundComesFree
<1> QED
  BY <1>1, <1>2, <1>4, <1>5 DEF ForegroundComesFree, Current

LEMMA FocusInvNext == FocusInv /\ [FocusNext]_focusVars => FocusInv'
<1> SUFFICES ASSUME FocusInv, [FocusNext]_focusVars PROVE FocusInv'
  OBVIOUS
<1>1. CASE PersonClicks
  BY <1>1 DEF PersonClicks, FocusInv, Inside, ForegroundComesFree, Current
<1>2. CASE UNCHANGED focusVars
  BY <1>2 DEF focusVars, FocusInv, Inside, ForegroundComesFree, Current
<1> QED
  BY <1>1, <1>2, AcquireInv, ReleaseHoldInv, UnlockInv, KeeperInv DEF FocusNext

\* When the last test has let go, whatever the threads do and the person clicks, the
\* foreground is free and no keeper is left to shut it.
THEOREM ForegroundIsFree == FocusSpec => []ForegroundComesFree
<1>1. FocusInv => ForegroundComesFree
  BY DEF FocusInv
<1> QED
  BY <1>1, FocusInvInit, FocusInvNext, PTL DEF FocusSpec

\* A keeper is there for whoever is inside, and a stopped keeper is one of them.
FocusTyped ==
  /\ Len(keeper) <= MaxKeepers
  /\ (\E t \in Tests : test[t] # "out") => keeper # <<>>
  /\ stopped \subseteq 1..Current
  /\ shut \in BOOLEAN /\ stalled \in BOOLEAN

LEMMA FocusTypedInit == FocusInit => FocusTyped
<1> SUFFICES ASSUME FocusInit PROVE FocusTyped
  OBVIOUS
<1>1. Len(keeper) = 0 /\ \A t \in Tests : test[t] = "out"
  BY DEF FocusInit
<1>2. shut \in BOOLEAN /\ stalled \in BOOLEAN /\ stopped = {}
  BY DEF FocusInit
<1>3. 0 <= MaxKeepers
  BY FocusAssumption
<1> QED
  BY <1>1, <1>2, <1>3 DEF FocusTyped

LEMMA FocusTypedNext == FocusInv /\ FocusTyped /\ [FocusNext]_focusVars => FocusTyped'
<1> SUFFICES ASSUME FocusInv, FocusTyped, [FocusNext]_focusVars PROVE FocusTyped'
  OBVIOUS
<1> USE DEF FocusTyped, Current
<1>0. keeper \in Seq({"waiting", "asking", "done"}) /\ Len(keeper) \in Nat
  BY DEF FocusInv
<1>1. ASSUME NEW t \in Tests, Acquire(t) PROVE FocusTyped'
  <2>1. CASE holders' > 1
    <3>1. holders # 0
      BY <1>1, <2>1 DEF Acquire, Entered
    <3>2. Inside # {}
      BY <3>1, FS_EmptySet DEF FocusInv
    <3> QED
      BY <1>1, <2>1, <3>2 DEF Acquire, Inside
  <2>2. CASE ~(holders' > 1)
    <3>1. keeper' = Append(keeper, "waiting") /\ Len(keeper) < MaxKeepers
      BY <1>1, <2>2 DEF Acquire
    <3>2. Len(keeper') = Len(keeper) + 1 /\ keeper' # <<>>
      BY <1>0, <3>1
    <3> QED
      BY <1>0, <1>1, <2>2, <3>1, <3>2, FocusAssumption DEF Acquire
  <2> QED
    BY <2>1, <2>2
<1>2. ASSUME NEW t \in Tests, ReleaseHold(t) PROVE FocusTyped'
  <2>1. keeper # <<>> /\ UNCHANGED <<keeper, shut, stalled>>
    BY <1>2 DEF ReleaseHold
  <2>2. Len(keeper) \in 1..Len(keeper)
    BY <1>0, <2>1
  <2>3. stopped' \subseteq 1..Len(keeper)
    BY <1>2, <2>2 DEF ReleaseHold
  <2> QED
    BY <2>1, <2>3
<1>3. ASSUME NEW t \in Tests, Unlock(t) PROVE FocusTyped'
  <2>1. keeper # <<>> /\ UNCHANGED <<keeper, stopped>>
    BY <1>3 DEF Unlock
  <2>2. stalled' \in BOOLEAN /\ shut' \in BOOLEAN
    BY <1>3 DEF Unlock
  <2> QED
    BY <2>1, <2>2
<1>4. ASSUME NEW k \in 1..Current, KeeperWakes(k) \/ KeeperAsks(k) PROVE FocusTyped'
  <2>1. Len(keeper') = Len(keeper) /\ keeper' # <<>>
    BY <1>0, <1>4 DEF KeeperWakes, KeeperAsks
  <2> QED
    BY <1>4, <2>1 DEF KeeperWakes, KeeperAsks
<1>5. CASE PersonClicks \/ UNCHANGED focusVars
  BY <1>5 DEF PersonClicks, focusVars
<1> QED
  BY <1>1, <1>2, <1>3, <1>4, <1>5 DEF FocusNext

LEMMA FocusTypes == FocusInv /\ FocusTyped => FocusTypeOK
<1> SUFFICES ASSUME FocusInv, FocusTyped PROVE FocusTypeOK
  OBVIOUS
<1>1. Cardinality(Inside) <= Cardinality(Tests) /\ Cardinality(Tests) \in Nat
  BY FocusAssumption, FS_Subset, FS_CardinalityType DEF Inside
<1>2. Cardinality(Inside) \in Nat
  BY FS_CardinalityType DEF FocusInv
<1> QED
  BY <1>1, <1>2 DEF FocusInv, FocusTyped, FocusTypeOK

\* Type correctness of focus_lock.py: no more holders are counted than there are test
\* threads, and only a keeper that was started is told to stop.
THEOREM FocusTypeCorrect == FocusSpec => []FocusTypeOK
  BY FocusInvInit, FocusInvNext, FocusTypedInit, FocusTypedNext, FocusTypes, PTL DEF FocusSpec

-----------------------------------------------------------------------------
(* The three together *)

\* Type correctness of the run that composes them: whoever moves leaves the state of
\* the other two alone, the processes of joblock.py, the tools and the test threads.
THEOREM BuildTreeTypeCorrect == MCSpec => []TypeOK
<1>1. MCInit => LockTyped /\ TreeInv /\ FocusInv /\ FocusTyped
  BY LockAssumption, TypedInit, TreeInvInit, FocusInvInit, FocusTypedInit DEF MCInit
<1>2. ASSUME [LockMoves \/ TreeMoves \/ FocusMoves]_vars
      PROVE  [LockNext]_lockVars /\ [TreeNext]_treeVars /\ [FocusNext]_focusVars
  BY <1>2 DEF LockMoves, TreeMoves, FocusMoves, vars
<1>3. ASSUME LockTyped, TreeInv, FocusInv, FocusTyped, [LockMoves \/ TreeMoves \/ FocusMoves]_vars
      PROVE  LockTyped' /\ TreeInv' /\ FocusInv' /\ FocusTyped'
  BY <1>2, <1>3, LockAssumption, TypedNext, TreeInvNext, FocusInvNext, FocusTypedNext
<1>4. LockTyped /\ TreeInv /\ FocusInv /\ FocusTyped => TypeOK
  BY FocusTypes
  DEF LockTyped, TreeInv, TextsWhole, JobTyped, JobType, NotesTyped, TreeTypeOK, TypeOK
<1> QED
  BY <1>1, <1>3, <1>4, PTL DEF MCSpec
=============================================================================
