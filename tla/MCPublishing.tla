---------------------------- MODULE MCPublishing ----------------------------
(***************************************************************************)
(* What is shipped, in one run: how a list is read, how the lists of a     *)
(* build are written, how the bundle of lists is published and how a       *)
(* release is made.  They share no state in these models, so one of them,  *)
(* the subject, moves in a behaviour and the others rest.                  *)
(***************************************************************************)
EXTENDS Directives, ListFeeds, Publisher, ReleaseJob, TLC

CONSTANT Subjects

VARIABLE subject

vars == <<directiveVars, feedVars, pubVars, releaseVars, subject>>

\* The two sources of the tree are of one version and differ in the update key.
MCVersion == [s \in Sources |-> 1]
MCUpdateKey == [s \in Sources |-> IF s = JobSource THEN "k1" ELSE "k2"]

MCInit ==
  /\ subject \in Subjects
  /\ DirectivesInit /\ FeedsInit /\ PublisherInit /\ ReleaseInit
  /\ subject # "release" => source = JobSource /\ bin = mini /\ bin = Relinked(Parts)

DirectivesMove ==
  subject = "directives" /\ DirectivesNext
    /\ UNCHANGED <<feedVars, pubVars, releaseVars, subject>>
FeedsMove ==
  subject = "feeds" /\ FeedsNext
    /\ UNCHANGED <<directiveVars, pubVars, releaseVars, subject>>
PublisherMoves ==
  subject = "publisher" /\ PublisherNext
    /\ UNCHANGED <<directiveVars, feedVars, releaseVars, subject>>
ReleaseMoves ==
  subject = "release" /\ ReleaseNext
    /\ UNCHANGED <<directiveVars, feedVars, pubVars, subject>>

MCSpec ==
  MCInit /\ [][DirectivesMove \/ FeedsMove \/ PublisherMoves \/ ReleaseMoves]_vars

TypeOK == DirectivesTypeOK /\ FeedsTypeOK /\ PublisherTypeOK /\ ReleaseTypeOK
=============================================================================
