----------------------------- MODULE MCPrograms -----------------------------
(***************************************************************************)
(* Finite instances of FileIO, Catalog and UnixDgram for TLC.  The         *)
(* programs share nothing, so a behaviour runs one of them at a time while *)
(* the others are as before their start.                                   *)
(***************************************************************************)
EXTENDS FileIO, Catalog, UnixDgram, FiniteSets

CONSTANT MaxFiles  \* most files, the first directory included

\* Trees of at most MaxFiles files in which directories hold the others.
MCTrees ==
  LET Shapes == {S \in SUBSET Paths :
                   /\ Cardinality(S) <= MaxFiles
                   /\ \A p \in S : p = <<>> \/ Front(p) \in S}
  IN  UNION {{t \in [S -> Kinds] :
                 \A p \in S \ {<<>>} : t[Front(p)] \in {"dir", "unsearchable"}} :
               S \in Shapes}

vars == <<fileVars, catalogVars, dgramVars>>

Init == FilesInit /\ CatalogInit /\ DgramInit

Next ==
  \/ CatalogInit /\ DgramInit /\ FilesNext /\ UNCHANGED <<catalogVars, dgramVars>>
  \/ FilesInit /\ DgramInit /\ CatalogNext /\ UNCHANGED <<fileVars, dgramVars>>
  \/ FilesInit /\ CatalogInit /\ DgramNext /\ UNCHANGED <<fileVars, catalogVars>>

Spec == Init /\ [][Next]_vars /\ FilesFairness /\ CatalogFairness
=============================================================================
