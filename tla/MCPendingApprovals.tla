------------------------ MODULE MCPendingApprovals ------------------------
(* Instances of PendingApprovals for TLC. *)
EXTENDS PendingApprovals, TLC

CONSTANTS r1, r2, w1, w2

Sym == Permutations(Calls) \cup Permutations(Ids)

\* Only a read offers "Always allow", and its rule covers every read.
CoversReads == [k \in Keys |-> IF k \in ReadKeys THEN ReadKeys ELSE {}]
\* Neither write is repeated on one file ...
NoFile == [k \in WriteKeys |-> {}]
\* ... or every write is an edit of the same file.
OneFile == [k \in WriteKeys |-> WriteKeys]
=============================================================================
