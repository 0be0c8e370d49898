------------------------------ MODULE TreeClaim ------------------------------
(***************************************************************************)
(* What joblock.py promises of the shared build tree, without its files:   *)
(* one user at a time, and a tree that is claimed is used by nobody but    *)
(* the owner of the claim until the claim runs out or is given back.  A    *)
(* claim may be lost before that, but only by a fault, and a fault is      *)
(* remembered.  JobLock implements this (Claimed!ClaimSpec there).         *)
(***************************************************************************)
EXTENDS Naturals

CONSTANTS Owners, NoOwner

VARIABLES
  clock,
  user,      \* the owner whose command may write into the tree, or NoOwner
  claim,     \* the last note: its owner, and until when it claims the tree
  releasing, \* claims that somebody has asked to give back
  faulty     \* something happened that may cost a claim

cvars == <<clock, user, claim, releasing, faulty>>

NoClaim == [owner |-> NoOwner, expires |-> 0]
Stands(c) == clock < c.expires

ClaimInit ==
  /\ clock \in Nat
  /\ user = NoOwner
  /\ claim = NoClaim
  /\ releasing = {}
  /\ faulty = FALSE

\* Nobody begins over a claim of another owner that still stands.
Begin(o) ==
  /\ user = NoOwner
  /\ Stands(claim) => claim.owner = o
  /\ user' = o
  /\ UNCHANGED <<clock, claim, releasing, faulty>>

\* The user leaves a note of its own, with or without a claim.
Note(o) ==
  /\ user = o
  /\ claim' \in [owner : {o}, expires : Nat]
  /\ UNCHANGED <<clock, user, releasing, faulty>>

\* A claim that stands outlives its user.
End ==
  /\ user # NoOwner
  /\ user' = NoOwner
  /\ claim' = claim \/ (~Stands(claim) /\ claim' = NoClaim)
  /\ UNCHANGED <<clock, releasing, faulty>>

\* To give back is two steps: what is given back is the claim there was at
\* the first.
AskBack ==
  /\ releasing' = releasing \cup {claim}
  /\ UNCHANGED <<clock, user, claim, faulty>>

GiveBack ==
  /\ claim \in releasing \/ ~Stands(claim)
  /\ claim' = NoClaim
  /\ releasing' \subseteq releasing
  /\ UNCHANGED <<clock, user, faulty>>

\* Who asked thinks better of it, finds nothing, or is gone.
LeaveIt ==
  /\ releasing' \subseteq releasing
  /\ UNCHANGED <<clock, user, claim, faulty>>

Lose ==
  /\ faulty' = TRUE
  /\ claim' = NoClaim
  /\ user' \in {user, NoOwner}
  /\ releasing' \subseteq releasing
  /\ UNCHANGED clock

ClockRuns ==
  /\ clock' = clock + 1
  /\ UNCHANGED <<user, claim, releasing, faulty>>

ClaimNext ==
  \/ \E o \in Owners : Begin(o) \/ Note(o)
  \/ End \/ AskBack \/ GiveBack \/ LeaveIt \/ Lose \/ ClockRuns

ClaimSpec == ClaimInit /\ [][ClaimNext]_cvars
=============================================================================
