------------------------- MODULE TransferRefinement -------------------------
(***************************************************************************)
(* TransferService implements UserFiles: for every user there are a map    *)
(* from paths to contents and a tree of directories of his own, although   *)
(* the contents are shared, counted and garbage-collected underneath.      *)
(***************************************************************************)
EXTENDS TransferService

\* The refinement mapping: the contents beginDownload finds.  What a download
\* delivers depends on the directories as well: see Download.
Contents == [u \in Users |-> [p \in Paths |-> Content(store, u, p)]]

Abstract == INSTANCE UserFiles WITH None <- NoMd5, files <- Contents

\* Every request maps to one operation of its own user on his files and
\* directories, or to no change at all, so that reference counting, the path
\* cache and garbage collection are invisible to the users; and what a download
\* delivers is what the abstract map and directories say.  Holds under
\* PathSorts, NoOverwrite, PlainNames and ProperRenames.
RefinesUserFiles ==
    /\ Abstract!Spec
    /\ [](\A u \in Users, p \in Paths : Download(u, p) = Abstract!Get(u, p))
=============================================================================
