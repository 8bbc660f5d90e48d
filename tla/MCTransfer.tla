----------------------------- MODULE MCTransfer -----------------------------
(***************************************************************************)
(* Small instances of TransferService: the paths, rename pairs and LIKE    *)
(* relations the configurations choose from.                               *)
(***************************************************************************)
EXTENDS TransferRefinement, TLC

CONSTANTS u1, u2, s1, s2

\* Contents are interchangeable: no operation compares two md5s for order.
Symmetry == Permutations(Md5)

\* So are the sessions of one account.
SharedSymmetry == Permutations(Md5) \cup Permutations(Sessions)

\* Two users with one connection each, or one user with one or two.
OneSessionEach == s1 :> u1 @@ s2 :> u2
SharedAccount == s1 :> u1 @@ s2 :> u1
OneSession == s1 :> u1

A == <<"a">>
B == <<"b">>
D == <<"d">>
E == <<"e">>
DA == <<"d", "a">>
EA == <<"e", "a">>

RootOnly == {Root}
BothFlags == {TRUE, FALSE}
OnlyFALSE == {FALSE}
OnlyTRUE == {TRUE}
NoRenames == {}

PlainLike(paths) == {dp \in paths \X paths : IsUnder(dp[2], dp[1])}

\* Flat: two files at the root.
FlatPaths == {Root, A, B}
FlatFiles == {A, B}
FlatRenames == {<<A, B>>}
FlatLike == PlainLike(FlatPaths)

\* Tree: a file that can be at the root or in the directory e, e which can be
\* moved to d, and a directory in d that has the file's name.
TreePaths == {Root, A, D, E, DA, EA}
TreeFiles == {A, EA}
TreeDirs == {Root, D, E, DA}
TreeRenames == {<<A, EA>>, <<E, D>>}
TreeLike == PlainLike(TreePaths)
=============================================================================
