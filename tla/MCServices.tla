----------------------------- MODULE MCServices -----------------------------
(* Small instances of the daemon's smaller state machines, in one run: the  *)
(* authorization server, upload staging, one audit log and one person's     *)
(* scoped tokens. They share no state but the clock, so `part` says which   *)
(* of them a behaviour is of; the others stay as they started.              *)
EXTENDS OAuthTokens, UploadStaging, AuditChain, ScopedTokens, TLC

CONSTANTS Parts,
          LastUpload,   \* the uploads' part stops its clock here
          LastScoped,   \* and the scoped tokens' part here
          \* model values; the parts share them, so that one small symmetry group serves all
          x1, x2, x3, y1, y2, z1, z2, c1, c2, p1, p2, id1, path

VARIABLE part

\* one call over an upload, one over the same upload and a file on its caller's disk
SharedUpload == (c1 :> {id1}) @@ (c2 :> {id1, path})
SamePerson == [c \in Calls |-> p1]
OneOldLine == <<Plain>>

oauthStores == <<clients, flow, consents, tok, minting, held, stores>>
uploadStores == <<slot, files, put, call, approvals, backed, wasted, late>>
scopedStores == <<stored, memory, op, cli, people, revoked, crossed>>
vars == <<part, oauthVars, uploadVars, auditVars, scopedVars>>

Init == part \in Parts /\ OAuthInit /\ UploadInit /\ AuditInit /\ ScopedInit

OAuthStep == part = "oauth" /\ OAuthNext /\ UNCHANGED <<part, uploadStores, auditVars, scopedStores>>
UploadStep == part = "uploads" /\ UploadNext /\ now' <= LastUpload /\ UNCHANGED <<part, oauthStores, auditVars, scopedStores>>
AuditStep == part = "audit" /\ AuditNext /\ UNCHANGED <<part, oauthVars, uploadStores, scopedStores>>
ScopedStep == part = "tokens" /\ ScopedNext /\ now' <= LastScoped /\ UNCHANGED <<part, oauthStores, uploadStores, auditVars>>
Next == OAuthStep \/ UploadStep \/ AuditStep \/ ScopedStep

Spec == Init /\ [][Next]_vars

\* tokens and slots; sign-ins, PUT requests, recorders and scoped tokens; clients, contents and proposals
Sym == Permutations({x1, x2, x3}) \union Permutations({y1, y2}) \union Permutations({z1, z2})
=============================================================================
