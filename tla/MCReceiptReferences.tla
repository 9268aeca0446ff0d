------------------------ MODULE MCReceiptReferences ------------------------
(***************************************************************************)
(* The receipt index for TLC: ReceiptReferences on a small instance, with  *)
(* its callers interleaved, and the repository's storage contract suite    *)
(* run against the exact plans of the same code (StoreContract).  They     *)
(* share no state; a behaviour is one of one of them, and the other stays  *)
(* as it was initially.                                                    *)
(***************************************************************************)
EXTENDS ReceiptReferences, TLC

CONSTANTS
  Scripts,   \* the contract suite
  MaxGeneration, MaxCount, MaxWallTime

VARIABLES
  part,
  script, pc, engine, opened, fault, adapter, frozen, clock, kept, answer

contractVars == <<script, pc, engine, opened, fault, adapter, frozen, clock, kept, answer>>

S == INSTANCE ContractSuite WITH Retention <- 10
C == INSTANCE StoreContract WITH Retention <- 10

Suite == S!Suite

MCInit ==
  /\ part \in {"index", "contract"}
  /\ Init /\ C!Init
  /\ part # "index" => now = 1
  /\ part # "contract" => script = 1

MCNext ==
  \/ part = "index" /\ Next /\ UNCHANGED <<part, contractVars>>
  \/ part = "contract" /\ C!Next /\ UNCHANGED <<part, vars>>

MCSpec == MCInit /\ [][MCNext]_<<part, vars, contractVars>>

Symmetry == Permutations(Tokens) \cup Permutations(Callers)

\* Every call of the contract suite is answered as the suite asserts
\* (StoreContract).
ContractHolds == C!ContractHolds
=============================================================================
