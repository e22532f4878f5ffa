------------------------------ MODULE MCEcBlob ------------------------------
(* A blob of three words, two of them relocated; one wraps when relocated. *)
EXTENDS EcBlob, TLC
MCOriginal == (1 :> 3) @@ (2 :> 14) @@ (3 :> 5)
=============================================================================
