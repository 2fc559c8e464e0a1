----------------------------- MODULE MCAuditChain -----------------------------
(***************************************************************************)
(* An instance of the audit chain for TLC: the digest of a document is an  *)
(* injective function of the document.                                     *)
(***************************************************************************)
EXTENDS AuditChain

MCSha256(document) == <<"sha256", document>>

=============================================================================
