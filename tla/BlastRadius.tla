----------------------------- MODULE BlastRadius -----------------------------
(***************************************************************************)
(* "If this service goes down, what else is affected": the recursive query *)
(* that walks a dependency graph backwards, one level of dependents after  *)
(* another.  A dependency is an edge <<service, dependsOnService>>; loops  *)
(* of several services are legal data, and the depth limit is there so     *)
(* that the query ends on them.                                            *)
(***************************************************************************)
EXTENDS Naturals, FiniteSets

CONSTANTS
    MaxDepth,  \* 10 in the code
    NoQuery

ASSUME BlastRadiusAssumption == MaxDepth \in Nat \ {0}

VARIABLE query  \* the graph the query runs on, and the service it starts at

-----------------------------------------------------------------------------

\* The dependents of a set of services: the join of the query.
DependentsOf(edges, ss) == {e[1] : e \in {f \in edges : f[2] \in ss}}

\* The mutated form: the limit is one level short.
LevelsShort(edges, s) ==
    LET level[k \in 0 .. MaxDepth] ==
          IF k = 0 THEN {s} ELSE IF k = MaxDepth THEN {} ELSE DependentsOf(edges, level[k - 1])
    IN level

\* The services the query finds at each depth; UNION ALL drops none of them.
Levels(edges, s) ==
    LET level[k \in 0 .. MaxDepth] ==
          IF k = 0 THEN {s} ELSE DependentsOf(edges, level[k - 1])
    IN level

\* DISTINCT ON: each service once, with the smallest depth above 0 it has.
Affected(edges, s) ==
    LET level == Levels(edges, s)
    IN {p \in (UNION {level[k] : k \in 1 .. MaxDepth}) \X (1 .. MaxDepth) :
          p[1] \in level[p[2]] /\ \A j \in 1 .. p[2] - 1 : p[1] \notin level[j]}

-----------------------------------------------------------------------------
(* The dependencies of the seeded services.                                *)

DependsOn(service) ==
    CASE service \in {"auth-service", "core-banking-api", "fraud-detection", "notification-service"} ->
           {"api-gateway"}
      [] service = "payments-gateway" ->
           {"api-gateway", "auth-service", "core-banking-api", "fraud-detection"}
      [] service = "card-processing" -> {"api-gateway", "auth-service", "fraud-detection"}
      [] service \in {"ledger-sync", "audit-ledger-archive"} -> {"core-banking-api"}
      [] service = "kyc-service" -> {"api-gateway", "auth-service", "notification-service"}
      [] service = "mobile-bff" -> {"api-gateway", "auth-service", "core-banking-api"}
      [] service = "reporting-batch" -> {"core-banking-api", "ledger-sync"}
      [] OTHER -> {}

SeededServices ==
    { "api-gateway", "auth-service", "core-banking-api", "payments-gateway", "card-processing",
      "fraud-detection", "ledger-sync", "kyc-service", "mobile-bff", "notification-service",
      "reporting-batch", "audit-ledger-archive" }

SeededGraph == UNION {{s} \X DependsOn(s) : s \in SeededServices}

-----------------------------------------------------------------------------
(* The reference: chains of dependencies.                                  *)

\* A chain of n dependencies leads from t down to s, through nodes.
Chain(nodes, edges, t, s, n) ==
    \E w \in [0 .. n -> nodes] :
      /\ w[0] = t /\ w[n] = s
      /\ \A k \in 1 .. n : <<w[k - 1], w[k]>> \in edges

\* Every graph of a few nodes (no service depends on itself), and the seed's.
BlastInit(nodes) ==
    \/ \E edges \in SUBSET {e \in nodes \X nodes : e[1] # e[2]}, s \in nodes :
         query = [nodes |-> nodes, edges |-> edges, service |-> s]
    \/ \E s \in SeededServices :
         query = [nodes |-> SeededServices, edges |-> SeededGraph, service |-> s]

\* The services that depend on s over at most MaxDepth hops, each with the
\* length of its shortest chain.
ShortestChains(nodes, edges, s) ==
    {p \in nodes \X (1 .. MaxDepth) :
       Chain(nodes, edges, p[1], s, p[2]) /\ \A j \in 1 .. p[2] - 1 : ~Chain(nodes, edges, p[1], s, j)}

\* The query finds exactly the services that depend on the one it is asked
\* about over MaxDepth hops at most, loops or not, each once and with the length
\* of its shortest chain of dependencies.
BlastIsShortestChains ==
    query # NoQuery =>
      Affected(query.edges, query.service) = ShortestChains(query.nodes, query.edges, query.service)

=============================================================================
