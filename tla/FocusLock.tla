------------------------------ MODULE FocusLock ------------------------------
(***************************************************************************)
(* tools/focus_lock.py: while a test holds it, no window takes the         *)
(* foreground off the person at the computer.  Several test threads of one *)
(* process share one keeper thread, which asks Windows for the lock again  *)
(* and again, because Windows drops it when the person clicks.             *)
(***************************************************************************)
EXTENDS Naturals, Sequences, FiniteSets

CONSTANTS
  Tests,      \* threads that use hold()
  MaxKeepers, \* bound on the keeper threads started
  NoTest

ASSUME FocusAssumption ==
  MaxKeepers \in Nat /\ IsFiniteSet(Tests) /\ NoTest \notin Tests

VARIABLES
  test,     \* what each thread does
  guard,    \* who has _guard
  holders,  \* _holders
  keeper,   \* the keeper threads so far
  stopped,  \* those whose _stop event is set
  shut,     \* Windows lets nobody take the foreground
  stalled   \* History: a join was given up on a keeper still in its call

focusVars == <<test, guard, holders, keeper, stopped, shut, stalled>>

Current == Len(keeper)

FocusTypeOK ==
  /\ test \in [Tests -> {"out", "in", "joining"}]
  /\ guard \in Tests \cup {NoTest}
  /\ holders \in 0..Cardinality(Tests)
  /\ keeper \in Seq({"waiting", "asking", "done"}) /\ Len(keeper) <= MaxKeepers
  /\ stopped \subseteq 1..Current
  /\ shut \in BOOLEAN
  /\ stalled \in BOOLEAN

FocusInit ==
  /\ test = [t \in Tests |-> "out"]
  /\ guard = NoTest
  /\ holders = 0
  /\ keeper = <<>>
  /\ stopped = {}
  /\ shut = FALSE
  /\ stalled = FALSE

\* A bug for the checks: a test inside another is not counted.
EnteredOnce == IF holders = 0 THEN 1 ELSE holders
Entered == holders + 1

\* _acquire(): the first one shuts the foreground and starts the keeper.
Acquire(t) ==
  /\ test[t] = "out"
  /\ guard = NoTest
  /\ test' = [test EXCEPT ![t] = "in"]
  /\ holders' = Entered
  /\ IF holders' > 1 THEN UNCHANGED <<shut, keeper>>
     ELSE /\ Current < MaxKeepers
          /\ shut' = TRUE
          /\ keeper' = Append(keeper, "waiting")
  /\ UNCHANGED <<guard, stopped, stalled>>

\* _release(): the last one stops the keeper, and waits for it under _guard.
ReleaseHold(t) ==
  /\ test[t] = "in"
  /\ guard = NoTest
  /\ holders' = holders - 1
  /\ IF holders' > 0
     THEN /\ test' = [test EXCEPT ![t] = "out"]
          /\ UNCHANGED <<guard, stopped>>
     ELSE /\ test' = [test EXCEPT ![t] = "joining"]
          /\ guard' = t
          /\ stopped' = stopped \cup {Current}
  /\ UNCHANGED <<keeper, shut, stalled>>

\* A bug for the checks: the keeper is not waited for.
NotJoined == TRUE
Joined == keeper[Current] = "done"

\* join() returns when the keeper has ended, or after two seconds all the same.
Unlock(t) ==
  /\ test[t] = "joining"
  /\ Joined \/ keeper[Current] = "asking"
  /\ stalled' = (stalled \/ ~Joined)
  /\ shut' = FALSE
  /\ guard' = NoTest
  /\ test' = [test EXCEPT ![t] = "out"]
  /\ UNCHANGED <<holders, keeper, stopped>>

\* _keep()
KeeperWakes(k) ==
  /\ keeper[k] = "waiting"
  /\ keeper' = [keeper EXCEPT ![k] = IF k \in stopped THEN "done" ELSE "asking"]
  /\ UNCHANGED <<test, guard, holders, stopped, shut, stalled>>

KeeperAsks(k) ==
  /\ keeper[k] = "asking"
  /\ keeper' = [keeper EXCEPT ![k] = "waiting"]
  /\ shut' = TRUE
  /\ UNCHANGED <<test, guard, holders, stopped, stalled>>

\* The person presses Alt or clicks another window.
PersonClicks ==
  /\ shut
  /\ shut' = FALSE
  /\ UNCHANGED <<test, guard, holders, keeper, stopped, stalled>>

FocusNext ==
  \/ \E t \in Tests : Acquire(t) \/ ReleaseHold(t) \/ Unlock(t)
  \/ \E k \in 1..Current : KeeperWakes(k) \/ KeeperAsks(k)
  \/ PersonClicks

FocusSpec == FocusInit /\ [][FocusNext]_focusVars

\* When the last test has let go, the foreground is free, and no keeper of an
\* earlier test shuts it again.
ForegroundComesFree ==
  holders = 0 /\ guard = NoTest /\ ~stalled =>
    ~shut /\ \A k \in 1..Current : keeper[k] = "done"
=============================================================================
