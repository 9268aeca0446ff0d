------------------------ MODULE MCResourceRegister ------------------------
(* ResourceRegister on small instances.                                     *)
EXTENDS ResourceRegister

\* An old removal and a newer live record of another writer.
Foreign == {r \in Records : r.writer # Self /\ r.ts + r.rank = 1}
=============================================================================
