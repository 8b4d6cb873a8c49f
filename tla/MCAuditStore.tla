----------------------------- MODULE MCAuditStore -----------------------------
(* A small audit store.  A hash is the sequence of all it digests, so that     *)
(* different chains have different hashes.                                     *)
EXTENDS AuditStore, Sequences

Genesis == <<>>
Digest(previous, content) == Append(previous, content)
===============================================================================
