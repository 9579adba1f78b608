------------------------------ MODULE Catalog ------------------------------
(***************************************************************************)
(* The walk through a file tree of lab 2 (catalog/): directories wait on a *)
(* stack, the path of the one that is read is extended in place by the     *)
(* name of each entry, and others may remove files meanwhile.  A path is   *)
(* the sequence of names below the directory the walk begins at.           *)
(***************************************************************************)
EXTENDS Naturals, Sequences, SequencesExt

CONSTANTS Names,      \* names of files, other than "." and ".."
          MaxDepth,   \* longest path
          PathMax,    \* longest path that lstat() takes
          Trees,      \* the file trees: functions from paths to kinds
          MaxRemoved  \* files removed during a walk

Paths == UNION {[1 .. d -> Names] : d \in 0 .. MaxDepth}

\* A "locked" directory cannot be opened; the names in an "unsearchable" one
\* can be read, but nothing can be said of what they name.  A "link" may point
\* at a directory.
Directories == {"dir", "locked", "unsearchable"}
Kinds == {"file", "link"} \cup Directories

\* What a file system keeps: whatever there is, is in a directory.
ASSUME TreesAssumption ==
  /\ MaxDepth \in Nat /\ PathMax \in Nat /\ "." \notin Names /\ ".." \notin Names
  /\ \A t \in Trees :
       /\ DOMAIN t \subseteq Paths /\ t \in [DOMAIN t -> Kinds]
       /\ \A p \in DOMAIN t \ {<<>>} : Front(p) \in DOMAIN t /\ t[Front(p)] \in Directories

VARIABLES
  at,        \* the call the walk is about to make, or how it ended
  tree,      \* the file tree
  removed,   \* files removed since the walk began
  troubled,  \* the system is short of memory or has errors in its files
  stack,     \* directories to read: the path and the depth of each
  currPath,  \* the path that is read, with its depth; extended in place
  currLen,   \* length of the path of the directory itself
  entries,   \* names the open directory stream has still to give
  printed    \* what was printed, with the path of each name

catalogVars == <<at, tree, removed, troubled, stack, currPath, currLen, entries, printed>>

Elem(path, depth) == [path |-> path, depth |-> depth]

Finished == {"idle", "done", "failed"}

CatalogInit ==
  /\ at = "idle" /\ tree = <<>> /\ removed = 0 /\ troubled = FALSE
  /\ stack = <<>> /\ currPath = Elem(<<>>, 0) /\ currLen = 0
  /\ entries = {} /\ printed = <<>>

\* main() is called with the name of what tree has at <<>>, if anything.
Start ==
  /\ at = "idle"
  /\ at' = "lstat root"
  /\ tree' \in Trees
  /\ UNCHANGED <<removed, troubled, stack, currPath, currLen, entries, printed>>

Exists(path) == path \in DOMAIN tree

\* S_ISDIR() of what lstat() says: a link is not what it points at.
IsDir(path) == tree[path] \in Directories

\* lstat() needs a path that is not too long and to search all directories in
\* it: the walk has searched all of them but the last on its way.
Attainable(path) ==
  /\ Exists(path) /\ Len(path) <= PathMax
  /\ path # <<>> => tree[Front(path)] # "unsearchable"

Openable(path) == Exists(path) /\ IsDir(path) /\ tree[path] # "locked"

Push(path, depth) == stack' = Append(stack, Elem(path, depth))
Pop == stack' = Front(stack)

\* err_sys(): exit(1)
ErrSys ==
  /\ at' = "failed"
  /\ UNCHANGED <<tree, removed, troubled, stack, currPath, currLen, entries, printed>>

LstatRoot ==
  /\ at = "lstat root"
  /\ Attainable(<<>>) /\ IsDir(<<>>)
  /\ Push(<<>>, 1)
  /\ at' = "pop"
  /\ UNCHANGED <<tree, removed, troubled, currPath, currLen, entries, printed>>

LstatRootFails ==
  /\ at = "lstat root"
  /\ ~(Attainable(<<>>) /\ IsDir(<<>>)) \/ troubled
  /\ ErrSys

\* Names in the directory: all that is in it now, and the two every one has.
\* One that is removed from now on may be given or not.
InDirectory(path) ==
  {".", ".."} \cup {n \in Names : Exists(Append(path, n))}

\* The newest directory on the stack is read next.
Opendir ==
  /\ at = "pop" /\ stack # <<>>
  /\ LET top == Last(stack) IN
       /\ Openable(top.path)
       /\ currPath' = top
       /\ currLen' = Len(top.path)
       /\ entries' = InDirectory(top.path)
  /\ Pop
  /\ at' = "readdir"
  /\ UNCHANGED <<tree, removed, troubled, printed>>

OpendirFails ==
  /\ at = "pop" /\ stack # <<>>
  /\ ~Openable(Last(stack).path) \/ troubled
  /\ ErrSys

SkipDot(n) ==
  /\ at = "readdir" /\ n \in entries /\ n \in {".", ".."}
  /\ entries' = entries \ {n}
  /\ UNCHANGED <<at, tree, removed, troubled, stack, currPath, currLen, printed>>

\* What stood behind the directory's own path is replaced by the new name.
ExpandPath_append(name) == Append(currPath.path, name)
ExpandPath(name) == Append(SubSeq(currPath.path, 1, currLen), name)

OutputPath == printed' = Append(printed, currPath')

SkipRemoved(n) ==
  /\ at = "readdir" /\ n \in entries /\ n \in Names
  /\ ~Exists(ExpandPath(n))
  /\ entries' = entries \ {n}
  /\ UNCHANGED <<at, tree, removed, troubled, stack, currPath, currLen, printed>>

\* NULL for an error is taken for NULL at the end of the directory.
ReaddirFails ==
  /\ at = "readdir" /\ troubled
  /\ entries' = {}
  /\ UNCHANGED <<at, tree, removed, troubled, stack, currPath, currLen, printed>>

Readdir(n) ==
  /\ at = "readdir" /\ n \in entries /\ n \in Names
  /\ entries' = entries \ {n}
  /\ currPath' = [currPath EXCEPT !.path = ExpandPath(n)]
  /\ OutputPath
  /\ at' = "lstat"
  /\ UNCHANGED <<tree, removed, troubled, stack, currLen>>

Lstat ==
  /\ at = "lstat" /\ Attainable(currPath.path)
  /\ IF IsDir(currPath.path) THEN Push(currPath.path, currPath.depth + 1)
                             ELSE UNCHANGED stack
  /\ at' = "readdir"
  /\ UNCHANGED <<tree, removed, troubled, currPath, currLen, entries, printed>>

\* error_lstat() ends the program whatever errno says.
LstatFails ==
  /\ at = "lstat" /\ (~Attainable(currPath.path) \/ troubled)
  /\ ErrSys

Closedir ==
  /\ at = "readdir" /\ entries = {}
  /\ at' = "pop"
  /\ UNCHANGED <<tree, removed, troubled, stack, currPath, currLen, entries, printed>>

ClosedirFails ==
  /\ at = "readdir" /\ entries = {} /\ troubled
  /\ ErrSys

\* The stack is empty: DestroyStack() and "Ok!"
Done ==
  /\ at = "pop" /\ stack = <<>>
  /\ at' = "done"
  /\ UNCHANGED <<tree, removed, troubled, stack, currPath, currLen, entries, printed>>

\* The process is gone, and with it all it knew.
Exit ==
  /\ at \in {"done", "failed"}
  /\ at' = "idle" /\ tree' = <<>> /\ removed' = 0 /\ troubled' = FALSE
  /\ stack' = <<>> /\ currPath' = Elem(<<>>, 0) /\ currLen' = 0
  /\ entries' = {} /\ printed' = <<>>

\* Somebody removes a file or an empty directory.
RemoveEntry(path) ==
  /\ at \notin Finished /\ removed < MaxRemoved
  /\ Exists(path) /\ \A n \in Names : ~Exists(Append(path, n))
  /\ tree' = [q \in DOMAIN tree \ {path} |-> tree[q]]
  /\ removed' = removed + 1
  /\ UNCHANGED <<at, troubled, stack, currPath, currLen, entries, printed>>

\* Memory runs out, or a disk has errors: from now on any call may fail.
Trouble ==
  /\ at \notin Finished /\ ~troubled
  /\ troubled' = TRUE
  /\ UNCHANGED <<at, tree, removed, stack, currPath, currLen, entries, printed>>

CatalogStep ==
  \/ LstatRoot \/ LstatRootFails \/ Opendir \/ OpendirFails
  \/ \E n \in {".", ".."} : SkipDot(n)
  \/ \E n \in Names : Readdir(n) \/ SkipRemoved(n)
  \/ Lstat \/ LstatFails \/ ReaddirFails \/ Closedir \/ ClosedirFails \/ Done

CatalogNext ==
  \/ Start
  \/ CatalogStep
  \/ Exit
  \/ \E path \in Paths : RemoveEntry(path)
  \/ Trouble

\* A walk that has begun goes on by itself.
CatalogFairness == WF_catalogVars(CatalogStep)
CatalogSpec == CatalogInit /\ [][CatalogNext]_catalogVars /\ CatalogFairness
-----------------------------------------------------------------------------
(***************************************************************************)
(* Properties.                                                             *)
(***************************************************************************)
Walk == INSTANCE TreeWalk
          WITH phase <- IF at \in Finished THEN at ELSE "walking",
               files <- tree, changed <- removed > 0, trouble <- troubled, listed <- printed
\* The loop over the stack (catalog.c:33-70) is a walk through the tree: with
\* one path that is extended in place and truncated again, depths kept apart
\* from the paths and files that vanish, every entry is printed once, behind
\* its directory and at its depth; "Ok!" means that nothing was left out, but
\* for what an error of readdir() hides; a complaint means that files were
\* removed, the system was in trouble, or something in the tree is closed to the
\* walk; and no tree keeps the walk busy for ever.
ImplementsTreeWalk == Walk!WalkSpec
=============================================================================
