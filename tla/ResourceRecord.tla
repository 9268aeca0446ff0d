-------------------------- MODULE ResourceRecord --------------------------
(***************************************************************************)
(* Signed resource records and their order (resource/mod.rs).  A resource   *)
(* name is a register that holds its greatest record; a record is greater   *)
(* when its tuple (timestamp, writer, removal rank, digest) is.             *)
(*                                                                          *)
(* Abstractions: names, writers and digests are numbers, which keeps their  *)
(* byte order; labels are their digest.  A writer stamps rank 0 on a put    *)
(* and the rank after the stored one, 1, on a removal, so a record is a     *)
(* removal exactly when its rank is not 0.                                  *)
(***************************************************************************)
EXTENDS Naturals

CONSTANTS
  NumNames,   \* resource names 1 .. NumNames
  Writers,    \* writing nodes, numbered in the order of their identifiers
  Digests,    \* record digests, numbered in their order
  MaxTime,    \* bound on wall-clock timestamps
  None        \* an empty register

Names == 1 .. NumNames
Times == 0 .. MaxTime
Records == [ts : Times, writer : Writers, rank : {0, 1}, digest : Digests]

ASSUME RecordAssumption ==
  /\ NumNames \in Nat /\ MaxTime \in Nat
  /\ Writers \subseteq Nat /\ Digests \subseteq Nat
  /\ None \notin Records

Removed(r) == r.rank > 0

\* wins_over: the lexicographic order of tuple_order.
Wins(r, s) ==
  \/ r.ts > s.ts
  \/ /\ r.ts = s.ts
     /\ \/ r.writer > s.writer
        \/ /\ r.writer = s.writer
           /\ \/ r.rank > s.rank
              \/ r.rank = s.rank /\ r.digest > s.digest

\* A record may enter a register that is empty or holds a smaller one.
Enters(r, stored) == IF stored = None THEN TRUE ELSE Wins(r, stored)
=============================================================================
