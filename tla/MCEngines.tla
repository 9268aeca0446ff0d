------------------------------ MODULE MCEngines ------------------------------
(***************************************************************************)
(* The durable storage engines for TLC, and the migrations that run over   *)
(* them.  They share no state; a behaviour is one of one of them, and the  *)
(* others stay as they were initially.                                     *)
(*                                                                         *)
(* JsonStore: two handles, two transaction ids and one key are enough for  *)
(* a receipt to be forgotten and its id used again, and for a key to be    *)
(* put, deleted and put once more across crashes.                          *)
(***************************************************************************)
EXTENDS JsonStore, TLC

CONSTANTS h1, h2, t1, t2, k, c1, c2

VARIABLES
  part,
  open, tables, writer, waiting, answer, reader, log, deaths,
  chain, schema, transformed, receipts, task, generation, restarts, writes

redbVars == <<open, tables, writer, waiting, answer, reader, log, deaths>>
migrationVars == <<chain, schema, transformed, receipts, task, generation, restarts, writes>>

MCHandles == {h1, h2}
MCIds == {t1, t2}
MCKeys == {k}

-----------------------------------------------------------------------------
\* Two namespaces of which one is a prefix of the other, with keys that make
\* the joined bytes collide; a receipt is forgotten and its id used again.
Shorter == <<1>>
Longer == <<1, 2>>
PutOf(n, key, x, v) == [kind |-> "put", namespace |-> n, key |-> key, expected |-> x, value |-> v]
Both == <<PutOf(Shorter, <<2, 1>>, {}, 1), PutOf(Longer, <<1>>, {}, 2)>>
MCTransactions ==
  {[id |-> 1, valid |-> TRUE, ops |-> Both],
   [id |-> 2, valid |-> TRUE,
    ops |-> <<[kind |-> "forget", id |-> 1, expected |-> <<0, Both>>],
              [kind |-> "delete", namespace |-> Shorter, key |-> <<2, 1>>, expected |-> {1}]>>],
   [id |-> 2, valid |-> FALSE, ops |-> <<>>],
   [id |-> 1, valid |-> TRUE,
    ops |-> <<[kind |-> "check", namespace |-> Longer, key |-> <<1>>, expected |-> {2}],
              PutOf(Shorter, <<>>, {}, 2)>>]}
MCScans == {<<Shorter, <<>>>>, <<Longer, <<>>>>}

R == INSTANCE RedbStore WITH
       Clients <- {c1, c2}, Transactions <- MCTransactions, Scans <- MCScans,
       MaxGeneration <- 2, MaxCrashes <- 1, crashes <- deaths

\* A chain of two edges, its first half, the same edges from another tree,
\* and one chain for every way registration is refused.
Edge(from, to, tag, digest) ==
  [from |-> from, to |-> to, tag |-> tag, digest |-> digest, transform |-> TRUE]
First == Edge("v1", "v2", "one", "d1")
MCChains ==
  {<<>>, <<First>>, <<First, Edge("v2", "v3", "two", "d2")>>,
   <<Edge("v1", "v2", "one", "dx"), Edge("v2", "v3", "two", "dy")>>,
   <<Edge("v2", "v3", "two", "d2")>>, <<First, Edge("v2", "v1", "down", "d3")>>,
   <<[First EXCEPT !.transform = FALSE]>>, <<First, Edge("v2", "v3", "one", "d2")>>}

M == INSTANCE Migration WITH
       BaseVersion <- "v1", Chains <- MCChains, Tasks <- {c1, c2}, MaxCrashes <- 2, MaxWrites <- 1,
       MayAbort <- FALSE, registry <- chain, history <- transformed, crashes <- restarts

-----------------------------------------------------------------------------
MCInit ==
  /\ part \in {"json", "redb", "migration"}
  /\ Init /\ R!Init /\ M!Init
  /\ part # "migration" => chain = <<>>

MCNext ==
  \/ part = "json" /\ Next /\ UNCHANGED <<part, redbVars, migrationVars>>
  \/ part = "redb" /\ R!Next /\ UNCHANGED <<part, vars, migrationVars>>
  \/ part = "migration" /\ M!Next /\ UNCHANGED <<part, vars, redbVars>>

MCSpec == MCInit /\ [][MCNext]_<<part, vars, redbVars, migrationVars>>

Symmetric == Permutations(MCHandles) \cup Permutations(MCIds) \cup Permutations({c1, c2})

\* The JSON store implements the storage contract, as ImplementsContract of
\* JsonStore says: DurableLog's initial state and, while it is the one that
\* runs, DurableLog's steps.
JsonImplementsContract ==
  Contract!Init /\ [][part = "json" => Contract!Next]_<<Log, Cardinality(synced), reported>>

\* The published tables are what the published transactions make, in order, and
\* a scan yields the entries its snapshot holds under its namespace and prefix,
\* each once and in order, whatever commits meanwhile (RedbStore).
TablesAreTheLog == R!TablesAreTheLog /\ R!ScanIsExact

\* The records went through exactly the transforms the schema record stands
\* for, and a call that reported its registry's target left the store there
\* (Migration).
SchemaIsWhole == M!SchemaIsWhole /\ M!ReportedIsReached
=============================================================================
