------------------------------ MODULE MCServer ------------------------------
(***************************************************************************)
(* A small instance of ServerLife: one login of each of two users.         *)
(***************************************************************************)
EXTENDS ServerLife, TLC

CONSTANTS t1, t2

OneLoginEach == t1 :> "alice" @@ t2 :> "bob"
=============================================================================
