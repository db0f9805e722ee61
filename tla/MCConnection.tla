---------------------------- MODULE MCConnection ----------------------------
(***************************************************************************)
(* An instance of Connection for TLC: the name server and a client, a file *)
(* of one block and one that the name server's buffer does not hold, a     *)
(* checkpoint of the first one only, and a third name that has no file.    *)
(***************************************************************************)
EXTENDS Connection

CONSTANTS f1, f2, f3

MCLength ==
    [m \in Commands |->
       IF m = "SS_READ" THEN [f \in Files |-> CASE f = f1 -> 2 [] f = f2 -> 4
                                                [] OTHER -> NULL]
       ELSE [f \in Files |-> IF f = f1 THEN 1 ELSE NULL]]

=============================================================================
