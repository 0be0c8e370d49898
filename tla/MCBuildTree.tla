---------------------------- MODULE MCBuildTree ----------------------------
(***************************************************************************)
(* The tools around the build tree in one run: joblock.py, clean_tree.py   *)
(* with apply.py, and focus_lock.py.  They share no state, so one of them, *)
(* the subject, moves in a behaviour and the others rest.                  *)
(***************************************************************************)
EXTENDS JobLock, SourceTree, FocusLock, TLC

CONSTANTS b1, b2,                                 \* branches
          stack, side, plain, sub, added, icon, brand  \* files

VARIABLE subject

vars == <<lockVars, treeVars, focusVars, subject>>

\* A text has two places.  b1 lays two patches on the same lines of one file, the
\* second of which it needs elsewhere too, patches `side' again with another file,
\* makes a new file and overlays an icon.  b2 changes some of the same lines, and
\* a file that ungoogled-chromium has changed before.
MCPlaces == {1, 2}
All(v) == [s \in MCPlaces |-> v]
MCOriginal == [f \in Files |-> IF f = added THEN Absent ELSE All("o")]

Hunk(f, s, old, new) == f :> [from |-> s :> old, to |-> s :> new]
MCSeries ==
  b1 :> << Hunk(stack, 1, "o", "p"),
           Hunk(stack, 1, "p", "q") @@ Hunk(side, 1, "o", "q"),
           Hunk(plain, 1, "o", "r") @@ Hunk(side, 2, "o", "r"),
           added :> [from |-> Absent, to |-> All("n")] >> @@
  b2 :> << Hunk(stack, 1, "o", "x") @@ Hunk(plain, 2, "o", "x"),
           Hunk(sub, 1, "o", "x") >>

\* Two branches with the same patches, but for the text of the file that one makes.
Remade(v) ==
  << Hunk(stack, 1, "o", "p"),
     Hunk(stack, 1, "p", "q"),
     Hunk(plain, 1, "o", "r") @@ (added :> [from |-> Absent, to |-> All(v)]) >>
MCRemade == b1 :> Remade("n") @@ b2 :> Remade("m")

MCOverlay == b1 :> (icon :> All("i")) @@ b2 :> <<>>

MCInit ==
  /\ LockInit /\ TreeInit /\ FocusInit
  /\ subject \in {"lock", "tree", "focus"}
  /\ subject # "tree" => ready = b1 /\ \A f \in Files : ~Stored(f)

LockMoves == subject = "lock" /\ LockNext /\ UNCHANGED <<treeVars, focusVars, subject>>
TreeMoves == subject = "tree" /\ TreeNext /\ UNCHANGED <<lockVars, focusVars, subject>>
FocusMoves == subject = "focus" /\ FocusNext /\ UNCHANGED <<lockVars, treeVars, subject>>

MCSpec ==
  /\ MCInit /\ [][LockMoves \/ TreeMoves \/ FocusMoves]_vars
  /\ WF_lockVars(LockTick /\ LockMoves)
  /\ \A p \in Procs : WF_lockVars(Proceed(p) /\ LockMoves)

TypeOK == LockTypeOK /\ TreeTypeOK /\ FocusTypeOK
=============================================================================
