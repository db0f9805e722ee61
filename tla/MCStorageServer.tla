-------------------------- MODULE MCStorageServer --------------------------
(***************************************************************************)
(* Instances of StorageServer for TLC: a few connection threads working on *)
(* one document.  Inodes are numbers, so that the CHOOSE of Opened always  *)
(* takes the lowest free one; an instance has enough of them for every     *)
(* path and every open stream.                                             *)
(***************************************************************************)
EXTENDS StorageServer, TLC

Symmetry == Permutations(Threads)

\* The names of inodes, what is left in one that nothing refers to any more (it
\* is overwritten when the inode is used again) and the history variable acked
\* make no difference to what can happen next: an inode is seen as who refers
\* to it and what it holds.
Visible ==
    <<{<<{p \in Paths : dir[p] = i}, {t \in Threads : thr[t].src = i},
         {t \in Threads : thr[t].dst = i}, data[i]>> : i \in InUse \ {NULL}},
      [t \in Threads |-> [thr[t] EXCEPT !.src = NULL, !.dst = NULL]],
      mutex, commits>>

=============================================================================
