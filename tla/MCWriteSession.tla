--------------------------- MODULE MCWriteSession ---------------------------
(***************************************************************************)
(* Instances of WriteSession for TLC: short documents that have an empty,  *)
(* an unterminated, a terminated and a following sentence, and updates     *)
(* that replace, append, add or remove a terminator, or miss.              *)
(***************************************************************************)
EXTENDS WriteSession, TLC

CONSTANTS a, b

Op(i, w) == [word_index |-> i, content |-> w]

\* No file, a lone terminator, a terminated sentence with another after it.
MCDocuments ==
    {NULL, <<a, Space, Stop>>, <<a, Space, a, Stop, Space, a>>}

MCUpdates ==
    {Op(i, <<b>>) : i \in 0..2} \cup {Op(0, <<b, Stop>>), Op(1, <<a, Space, b>>)}

\* A negative number is sentence 0.
MCSentences == {-1, 1, 2}

\* For the order of updates: the words of a new document, one after the other.
PlainUpdates == {Op(0, <<a>>), Op(1, <<b>>)}

=============================================================================
