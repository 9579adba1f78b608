------------------------------ MODULE TreeWalk ------------------------------
(***************************************************************************)
(* What a walk through a file tree promises: it lists an entry after its   *)
(* directory, once and at its depth; it says "Ok" only after it has listed *)
(* all there is, unless the system had errors it cannot see; it complains  *)
(* only with a reason, and comes to an end.                                *)
(***************************************************************************)
EXTENDS Naturals, Sequences, SequencesExt

CONSTANTS Paths,   \* the paths there may be
          PathMax, \* longest path the system takes
          Trees    \* the file trees: functions from paths to kinds of file

VARIABLES
  phase,    \* idle, walking, done or failed
  files,    \* the tree, as it is now
  changed,  \* has it been changed during the walk?
  trouble,  \* did the system have errors during the walk?
  listed    \* the entries in the order they were listed

walk == <<phase, files, changed, trouble, listed>>

BeginsAtDirectory ==
  <<>> \in DOMAIN files /\ files[<<>>] \in {"dir", "locked", "unsearchable"}

\* Every directory can be opened and every file's kind be found out.
Readable ==
  \A p \in DOMAIN files :
    /\ files[p] # "locked" /\ Len(p) <= PathMax
    /\ p = <<>> \/ files[Front(p)] # "unsearchable"

AllListed == \A p \in DOMAIN files \ {<<>>} : [path |-> p, depth |-> Len(p)] \in ToSet(listed)

WalkInit ==
  /\ phase = "idle" /\ changed = FALSE /\ trouble = FALSE
  /\ files = <<>> /\ listed = <<>>

Begin ==
  /\ phase = "idle"
  /\ phase' = "walking"
  /\ files' \in Trees
  /\ UNCHANGED <<changed, trouble, listed>>

\* An entry that was there when its directory was opened is listed even if it
\* is gone by now.
List(p) ==
  LET e == [path |-> p, depth |-> Len(p)]
      parent == Front(p) IN
  /\ phase = "walking"
  /\ e \notin ToSet(listed)
  /\ parent = <<>> \/ [path |-> parent, depth |-> Len(parent)] \in ToSet(listed)
  /\ p \in DOMAIN files \/ changed
  /\ listed' = Append(listed, e)
  /\ UNCHANGED <<phase, files, changed, trouble>>

Finish ==
  /\ phase = "walking" /\ (trouble \/ (AllListed /\ Readable))
  /\ changed \/ BeginsAtDirectory
  /\ phase' = "done"
  /\ UNCHANGED <<files, changed, trouble, listed>>

Complain ==
  /\ phase = "walking" /\ (changed \/ trouble \/ ~BeginsAtDirectory \/ ~Readable)
  /\ phase' = "failed"
  /\ UNCHANGED <<files, changed, trouble, listed>>

Leave ==
  /\ phase \in {"done", "failed"}
  /\ phase' = "idle" /\ changed' = FALSE /\ trouble' = FALSE
  /\ files' = <<>> /\ listed' = <<>>

Change ==
  /\ phase = "walking"
  /\ \E p \in DOMAIN files : files' = [q \in DOMAIN files \ {p} |-> files[q]]
  /\ changed' = TRUE
  /\ UNCHANGED <<phase, trouble, listed>>

\* The system has errors.
RunIntoTrouble ==
  /\ phase = "walking"
  /\ trouble' = TRUE
  /\ UNCHANGED <<phase, files, changed, listed>>

WalkStep == (\E p \in Paths \ {<<>>} : List(p)) \/ Finish \/ Complain

WalkNext == Begin \/ WalkStep \/ Leave \/ Change \/ RunIntoTrouble

WalkSafe == WalkInit /\ [][WalkNext]_walk
WalkSpec == WalkSafe /\ WF_walk(WalkStep)
=============================================================================
