------------------------------ MODULE MCSteps ------------------------------
(***************************************************************************)
(* A small instance of TransferSteps: one directory with two files.        *)
(***************************************************************************)
EXTENDS TransferSteps, TLC

D == <<"d">>
DA == <<"d", "a">>
DB == <<"d", "b">>

StepPaths == {D, DA, DB}
StepFiles == {DA, DB}
StepDirs == {D}
StepLike == {<<D, DA>>, <<D, DB>>}

\* A rename to another name, and one to the same.
StepRenames == {<<DA, DB>>, <<DA, DA>>}

\* Everything that redis_store.cpp, lookupFile and releaseContentRef ignore.
Ignored == {"GETPATH", "SETPATH", "DELPATH", "SADD", "SREM", "SCARD", "SETOBJ",
            "DELOBJ", "DELREFS", "LOOKUP", "PREVIOUS", "CONFLICT", "UNLINK"}

\* Contents are interchangeable.
Symmetry == Permutations(Md5)
=============================================================================
