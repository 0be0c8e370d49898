------------------------------ MODULE JobLock ------------------------------
(***************************************************************************)
(* The lock on the shared build tree: tools/joblock.py, as the workflows   *)
(* build.yml and release.yml and a person at a prompt use it.              *)
(*                                                                         *)
(* Two things guard the tree.  The operating system's lock on a file is    *)
(* held while a command runs and is gone with the process.  The holder     *)
(* file beside it notes who that is; a note with an expiry is a lease: it  *)
(* keeps the tree for the steps of one job, between which no process       *)
(* holds the lock.  The holder file is replaced by truncating it and       *)
(* writing it, under the lock; --release reads and removes it without the  *)
(* lock.  A holder file that cannot be read is one that is not there.      *)
(***************************************************************************)
EXTENDS Naturals

CONSTANTS
  Procs,      \* processes of joblock.py
  Owners,     \* the tokens they are given
  Leases,     \* --lease; 0 is none
  Waits,      \* --wait
  MaxTime,    \* bound on the clock
  MaxStarts,  \* bound on the commands given
  NoOwner, NoProc

ASSUME LockAssumption ==
  /\ Leases \subseteq Nat
  /\ Waits \subseteq Nat
  /\ MaxTime \in Nat
  /\ MaxStarts \in Nat
  /\ NoOwner \notin Owners
  /\ NoProc \notin Procs

VARIABLES
  now,
  lock,    \* the process that has the operating system's lock
  holder,  \* the holder file
  proc,    \* the processes
  starts,  \* commands given so far
  \* History, for the properties only.
  granted, \* until when each owner was told that the tree is its own
  torn,    \* a process was killed while the holder file was empty
  late     \* a --release removed a claim made after it had read

lockVars == <<now, lock, holder, proc, starts, granted, torn, late>>

-----------------------------------------------------------------------------
NoHolder == [owner |-> NoOwner, expires |-> 0]
HolderType == [owner : Owners, expires : Nat] \cup {NoHolder}

\* `was' is what the process has read in, or replaced in, the holder file.
Gone == [at |-> "gone", owner |-> NoOwner, lease |-> 0, until |-> 0,
         note |-> NoHolder, was |-> NoHolder]

\* Past the check of the holder file, with the lock.
Using == {"deciding", "opening", "opened", "unlinked", "running", "ending"}

ProcType ==
  [at : Using \cup {"gone", "waiting", "checking", "status", "removing"},
   owner : Owners \cup {NoOwner}, lease : Nat, until : Nat,
   note : HolderType, was : HolderType]

LockTypeOK ==
  /\ now \in Nat
  /\ lock \in Procs \cup {NoProc}
  /\ holder \in HolderType
  /\ proc \in [Procs -> ProcType]
  /\ starts \in Nat
  /\ granted \in [Owners -> Nat]
  /\ torn \in BOOLEAN
  /\ late \in BOOLEAN

LockInit ==
  /\ now = 1
  /\ lock = NoProc
  /\ holder = NoHolder
  /\ proc = [p \in Procs |-> Gone]
  /\ starts = 0
  /\ granted = [o \in Owners |-> 0]
  /\ torn = FALSE
  /\ late = FALSE

At(p, where) == proc[p].at = where
Goes(p, where) == proc' = [proc EXCEPT ![p].at = where]
Ends(p) == proc' = [proc EXCEPT ![p] = Gone]
Drops(p) == lock' = IF lock = p THEN NoProc ELSE lock
NoFault == UNCHANGED <<torn, late>>

\* A bug for the checks: a note without an expiry holds for ever.
IsLiveForEver(h) == h.owner # NoOwner /\ (h.expires = 0 \/ now < h.expires)
\* lease_is_live()
IsLive(h) == now < h.expires

-----------------------------------------------------------------------------
(* A command under the lock, or a claim: JobLock.acquire() and release(). *)

Start(p, o, lease, wait) ==
  /\ At(p, "gone")
  /\ starts < MaxStarts
  /\ proc' = [proc EXCEPT ![p] = [Gone EXCEPT !.at = "waiting", !.owner = o,
                                              !.lease = lease,
                                              !.until = now + wait]]
  /\ starts' = starts + 1
  /\ UNCHANGED <<now, lock, holder, granted>> /\ NoFault

Take(p) ==
  /\ At(p, "waiting")
  /\ lock = NoProc
  /\ lock' = p
  /\ Goes(p, "checking")
  /\ UNCHANGED <<now, holder, starts, granted>> /\ NoFault

\* TreeBusy, with the lock in other hands.
WaitIsOver(p) == now >= proc[p].until
GiveUp(p) ==
  /\ At(p, "waiting")
  /\ lock # NoProc
  /\ WaitIsOver(p)
  /\ Ends(p)
  /\ UNCHANGED <<now, lock, holder, starts, granted>> /\ NoFault

Barred(p) == IsLive(holder) /\ holder.owner # proc[p].owner

\* TreeBusy, with a lease in force.  --wait does not wait for that.
Refuse(p) ==
  /\ At(p, "checking")
  /\ Barred(p)
  /\ Drops(p)
  /\ Ends(p)
  /\ UNCHANGED <<now, holder, starts, granted>> /\ NoFault

Enter(p) ==
  /\ At(p, "checking")
  /\ ~Barred(p)
  /\ Goes(p, "deciding")
  /\ UNCHANGED <<now, lock, holder, starts, granted>> /\ NoFault

\* A bug for the checks: a plain step of a job overwrites the claim of the job.
ExpiryForThisStep(p) == IF proc[p].lease # 0 THEN now + proc[p].lease ELSE 0
\* A plain step of a job keeps the claim of the job.
ExpiryFor(p) ==
  IF proc[p].lease # 0 THEN now + proc[p].lease
  ELSE IF IsLive(holder) /\ holder.owner = proc[p].owner THEN holder.expires
  ELSE 0

Decide(p) ==
  /\ At(p, "deciding")
  /\ proc' = [proc EXCEPT ![p].at = "opening",
                          ![p].note = [owner |-> proc[p].owner,
                                       expires |-> ExpiryFor(p)]]
  /\ UNCHANGED <<now, lock, holder, starts, granted>> /\ NoFault

\* _write_holder(): write_text() opens the file, which empties it, and then writes.
OpenHolder(p) ==
  /\ At(p, "opening")
  /\ holder' = NoHolder
  /\ proc' = [proc EXCEPT ![p].at = "opened", ![p].was = holder]
  /\ UNCHANGED <<now, lock, starts, granted>> /\ NoFault

\* With a lease, the process may have been started for the claim alone.
WriteHolder(p) ==
  /\ proc[p].at \in {"opened", "unlinked"}
  /\ holder' = IF At(p, "opened") THEN proc[p].note ELSE holder
  /\ granted' = IF proc[p].lease # 0
                THEN [granted EXCEPT ![proc[p].owner] = proc[p].note.expires]
                ELSE granted
  /\ \/ Goes(p, "running")
     \/ proc[p].lease # 0 /\ Goes(p, "ending")
  /\ UNCHANGED <<now, lock, starts>> /\ NoFault

CommandEnds(p) ==
  /\ At(p, "running")
  /\ Goes(p, "ending")
  /\ UNCHANGED <<now, lock, holder, starts, granted>> /\ NoFault

\* A bug for the checks: the note of our own lease goes too.
IsOurs(p) == holder.owner = proc[p].owner
\* Our own note goes, but never a live lease.
IsDone(p) == holder.owner = proc[p].owner /\ ~IsLive(holder)

Release(p) ==
  /\ At(p, "ending")
  /\ holder' = IF IsDone(p) THEN NoHolder ELSE holder
  /\ Drops(p)
  /\ Ends(p)
  /\ UNCHANGED <<now, starts, granted>> /\ NoFault

-----------------------------------------------------------------------------
(* --release and --status. *)

\* `o' is NoOwner when no --owner is given: then any claim is released.  A
\* claim of another owner is not, and without a claim there is nothing to do.
ReleaseClaim(p, o) ==
  /\ At(p, "gone")
  /\ starts < MaxStarts
  /\ starts' = starts + 1
  /\ holder # NoHolder
  /\ o \in {NoOwner, holder.owner}
  /\ proc' = [proc EXCEPT ![p] = [Gone EXCEPT !.at = "removing",
                                              !.was = holder]]
  /\ granted' = [granted EXCEPT ![holder.owner] = 0]
  /\ UNCHANGED <<now, lock, holder>> /\ NoFault

Opened(q) == lock = q /\ At(q, "opened")

\* Whatever holder file there is now is removed, perhaps one with a claim that
\* was made since.
Regrets(p) ==
  IsLive(holder) /\ (holder # proc[p].was \/ granted[holder.owner] > now)

RemoveHolder(p) ==
  /\ At(p, "removing")
  /\ \A q \in Procs : ~Opened(q)
  /\ holder' = NoHolder
  /\ late' = (late \/ Regrets(p))
  /\ Ends(p)
  /\ UNCHANGED <<now, lock, starts, granted, torn>>

\* While somebody has it open, Windows does not remove it, and elsewhere
\* what is being written is lost with it.
RemoveOpenHolder(p, q) ==
  /\ At(p, "removing")
  /\ Opened(q)
  /\ \/ Ends(p) /\ UNCHANGED late
     \/ /\ proc' = [proc EXCEPT ![p] = Gone, ![q].at = "unlinked"]
        /\ late' = TRUE
  /\ UNCHANGED <<now, lock, holder, starts, granted, torn>>

\* --status takes the lock to see whether it is free, and drops it.
Status(p) ==
  /\ At(p, "gone")
  /\ starts < MaxStarts
  /\ starts' = starts + 1
  /\ lock = NoProc
  /\ lock' = p
  /\ Goes(p, "status")
  /\ UNCHANGED <<now, holder, granted>> /\ NoFault

StatusEnds(p) ==
  /\ At(p, "status")
  /\ Drops(p)
  /\ Ends(p)
  /\ UNCHANGED <<now, holder, starts, granted>> /\ NoFault

-----------------------------------------------------------------------------
(* A cancelled run: the lock is gone with the process, its note stays. *)
Kill(p) ==
  /\ ~At(p, "gone")
  /\ Drops(p)
  /\ torn' = (torn \/ At(p, "opened"))
  /\ Ends(p)
  /\ UNCHANGED <<now, holder, starts, granted, late>>

\* Past MaxTime the clock runs on as long as somebody waits for it.
LockTick ==
  /\ \/ now < MaxTime
     \/ now < holder.expires
     \/ \E p \in Procs : At(p, "waiting") /\ ~WaitIsOver(p)
  /\ now' = now + 1
  /\ UNCHANGED <<lock, holder, proc, starts, granted>> /\ NoFault

Proceed(p) ==
  \/ Take(p) \/ GiveUp(p) \/ Refuse(p) \/ Enter(p) \/ Decide(p)
  \/ OpenHolder(p) \/ WriteHolder(p) \/ CommandEnds(p) \/ Release(p)
  \/ RemoveHolder(p) \/ StatusEnds(p)
  \/ \E q \in Procs : RemoveOpenHolder(p, q)

LockNext ==
  \/ \E p \in Procs :
       \/ \E o \in Owners, lease \in Leases, wait \in Waits : Start(p, o, lease, wait)
       \/ \E o \in Owners \cup {NoOwner} : ReleaseClaim(p, o)
       \/ Status(p)
       \/ Proceed(p)
       \/ Kill(p)
  \/ LockTick

\* Commands end, and so does every step of joblock.py.  Nobody has to start
\* anything, and nobody is killed for sure.
LockFairness == WF_lockVars(LockTick) /\ \A p \in Procs : WF_lockVars(Proceed(p))

LockSpec == LockInit /\ [][LockNext]_lockVars

-----------------------------------------------------------------------------
(* Properties *)

\* The tree is one owner's at a time: while an owner that was told "claimed
\* until t" has not given the claim back, no command of another owner gets
\* past the holder file before t.  (A claim can be lost in two ways: its own
\* job is killed while it rewrites the note, or a --release that had read an
\* older note removes it.)
ClaimHolds ==
  ~torn /\ ~late =>
    \A p \in Procs, o \in Owners :
      proc[p].at \in Using /\ o # proc[p].owner => granted[o] <= now

\* "An expiry always runs out, so a job killed part way through cannot block
\* the tree for ever": when the last command has been given, everybody who
\* waited has been let in or turned away, and the tree comes free.
TreeComesFree ==
  <>[](lock = NoProc /\ ~IsLive(holder) /\ \A p \in Procs : At(p, "gone"))

\* The files of joblock.py, as what they say of the tree.
User == IF lock # NoProc /\ proc[lock].at \in Using THEN proc[lock].owner
        ELSE NoOwner
Claim == IF lock # NoProc /\ At(lock, "opened") THEN proc[lock].was ELSE holder
Releasing == {proc[p].was : p \in {q \in Procs : At(q, "removing")}}

Claimed == INSTANCE TreeClaim
  WITH clock <- now, user <- User, claim <- Claim, releasing <- Releasing,
       faulty <- torn \/ late

\* joblock.py keeps what TreeClaim promises: one user at a time, nobody over a
\* claim, and no claim cut short except by the faults above.
ImplementsClaim == Claimed!ClaimSpec
=============================================================================
