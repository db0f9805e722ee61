---------------------------- MODULE MCNameServer ----------------------------
(***************************************************************************)
(* Instances of NameServer for TLC.  The configurations choose the sets;   *)
(* the commands an instance's clients use are grouped here, so that each   *)
(* configuration can concentrate on handlers that disturb each other.      *)
(***************************************************************************)
EXTENDS NameServer, TLC

CONSTANTS f1, f2, bak1         \* the names an instance may use

\* bak1 is "<f1>.bak"; the other backup names lie outside the instance.
MCBakOf == [n \in Names |-> IF n = f1 /\ bak1 \in Names THEN bak1 ELSE NULL]

Symmetry ==
    Permutations(Blocks) \cup Permutations(Sessions) \cup Permutations(Users)

\* Two users' commands on the metadata, a document and its backup.
MetadataCommands == {"CREATE", "DELETE", "INFO", "ADDACCESS", "REMACCESS",
                     "APPROVE", "WRITE", "UNDO"}

\* Everything a storage server takes part in, and what one user can do besides.
LiveCommands == {"CREATE", "CREATEFOLDER", "DELETE", "UNDO", "CHECKPOINT",
                 "REVERT", "VIEWCHECKPOINT", "EXEC", "READ", "WRITE",
                 "ANNOTATE", "REQUESTACCESS", "REJECT"}

\* Files and folders coming and going.
LifecycleCommands == {"CREATE", "CREATEFOLDER", "DELETE", "INFO"}

=============================================================================
