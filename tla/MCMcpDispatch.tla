--------------------------- MODULE MCMcpDispatch ---------------------------
(* Small instances of McpDispatch.                                         *)
EXTENDS McpDispatch, TLC
CONSTANTS c1, c2, c3, c4, s1, s2, p1, read, write, label

\* one session, and two sessions of one person
OneSession == s1 :> p1
OnePerson == s1 :> p1 @@ s2 :> p1

\* calls are interchangeable, and so are the sessions of one person
Sym == Permutations(Calls) \union Permutations(Callers)
=============================================================================
