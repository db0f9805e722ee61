----------------------------- MODULE AtomicFile -----------------------------
(***************************************************************************)
(* What write sessions on one document are promised: each commit replaces  *)
(* the document in one step by an edit of its latest version, keeps the    *)
(* version before it as the backup, and is acknowledged only afterwards.   *)
(*                                                                         *)
(* A version is the sequence of the commits that led to it.                *)
(***************************************************************************)
EXTENDS Naturals, Sequences

VARIABLES
    file,       \* the document's current version
    backup,     \* the version before the last commit, or <<0>> for none
    acked       \* the commits acknowledged so far

vars == <<file, backup, acked>>

NoBackup == <<0>>

Init == file = <<>> /\ backup = NoBackup /\ acked = {}

Commit ==
    /\ file' = Append(file, Len(file) + 1)
    /\ backup' = file
    /\ UNCHANGED acked

Acknowledge ==
    /\ acked' = acked \cup {Len(file)}
    /\ UNCHANGED <<file, backup>>

Next == Commit \/ Acknowledge

Spec == Init /\ [][Next]_vars

=============================================================================
