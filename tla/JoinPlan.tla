------------------------------ MODULE JoinPlan ------------------------------
(***************************************************************************)
(* JoinOptimizer::optimize: the tables of a query become the nodes of a    *)
(* complete graph (common/Graph.h) whose edges cost as much as the smaller *)
(* of two tables has rows, Kruskal's algorithm over UnionFind picks a      *)
(* spanning tree, and the order of the join is read off its edges.         *)
(*                                                                         *)
(* Names are opaque.  The row count of a table is an input (page count     *)
(* times records per page, 0 for a name the catalog does not know); costs  *)
(* are integers here and floats, exact for such counts, in the code.       *)
(***************************************************************************)
EXTENDS UnionFind, SequencesExt

CONSTANTS
  Names,       \* table names a query may mention
  Queries,     \* the table lists to plan, at most MaxNodes names each
  RowCounts    \* what the catalog and the files say of a table's size

ASSUME JoinPlanAssumption ==
  /\ Queries \subseteq {q \in Seq(Names) : Len(q) \in 1 .. MaxNodes}
  /\ RowCounts \subseteq Nat

VARIABLES
  phase,      \* "start", "edges", "uniting", "done"
  names,      \* nodeNames_: the table of node x is names[x + 1]
  rows,       \* the row count of each table
  edges,      \* edges_, sorted
  next,       \* the edge Kruskal's loop has reached
  mst,        \* mstEdges, in the order they were added
  plan        \* orderedTables

jvars == <<ufvars, phase, names, rows, edges, next, mst, plan>>

Init ==
  /\ UFInit
  /\ phase = "start" /\ names = << >> /\ rows \in [Names -> RowCounts]
  /\ edges = << >> /\ next = 1 /\ mst = << >> /\ plan = << >>

-----------------------------------------------------------------------------
(* The graph *)

\* A table that is mentioned twice has two nodes; the first one gets the edges.
tableIndex(q, name) == (CHOOSE k \in DOMAIN q : q[k] = name /\
                          \A l \in DOMAIN q : q[l] = name => k <= l) - 1

\* addJoin for every pair of tables, in the order of the query.
Joins(q) ==
  LET Edge(k, l) ==
        [u |-> tableIndex(q, q[k]), v |-> tableIndex(q, q[l]),
         weight |-> IF rows[q[k]] < rows[q[l]] THEN rows[q[k]] ELSE rows[q[l]]]
  IN  FlattenSeq([k \in 1 .. Len(q) |-> [d \in 1 .. Len(q) - k |-> Edge(k, k + d)]])

\* The array with its elements at positions k and l exchanged.
Swapped(es, k, l) == [es EXCEPT ![k] = es[l], ![l] = es[k]]

\* Mutant of sortEdges: the comparison is the wrong way round.
sortEdgesDescending(es) ==
  LET MaxIdx(a, k) == CHOOSE m \in k .. Len(a) :
                        \A l \in k .. Len(a) : a[l].weight <= a[m].weight
      s[k \in 0 .. Len(es)] == IF k = 0 THEN es ELSE Swapped(s[k - 1], k, MaxIdx(s[k - 1], k))
  IN  s[IF es = << >> THEN 0 ELSE Len(es) - 1]

\* Selection sort: position k gets the first of the lightest edges from k on.
sortEdges(es) ==
  LET MinIdx(a, k) == CHOOSE m \in k .. Len(a) :
                        /\ \A l \in k .. Len(a) : a[m].weight <= a[l].weight
                        /\ \A l \in k .. m - 1 : a[m].weight < a[l].weight
      s[k \in 0 .. Len(es)] == IF k = 0 THEN es ELSE Swapped(s[k - 1], k, MinIdx(s[k - 1], k))
  IN  s[IF es = << >> THEN 0 ELSE Len(es) - 1]

optimize(q) ==
  /\ phase = "start"
  /\ names' = q
  /\ edges' = sortEdges(Joins(q))
  /\ phase' = "edges"
  /\ UNCHANGED <<ufvars, rows, next, mst, plan>>

-----------------------------------------------------------------------------
(* computeMST *)

Wanted == next <= Len(edges) /\ Len(mst) < Len(names) - 1

TryEdge ==
  /\ phase = "edges" /\ Wanted
  /\ unite(edges[next].u, edges[next].v)
  /\ phase' = "uniting"
  /\ UNCHANGED <<names, rows, edges, next, mst, plan>>

Unite ==
  /\ phase = "uniting" /\ Find
  /\ UNCHANGED <<phase, names, rows, edges, next, mst, plan>>

\* Mutant of TakeEdge: an edge that closes a cycle is tried again.
TakeEdgeRetries ==
  /\ phase = "uniting" /\ request = NoRequest
  /\ IF answer THEN mst' = Append(mst, edges[next]) /\ next' = next + 1
               ELSE UNCHANGED <<mst, next>>
  /\ phase' = "edges"
  /\ UNCHANGED <<ufvars, names, rows, edges, plan>>

TakeEdge ==
  /\ phase = "uniting" /\ request = NoRequest
  /\ mst' = IF answer THEN Append(mst, edges[next]) ELSE mst
  /\ next' = next + 1
  /\ phase' = "edges"
  /\ UNCHANGED <<ufvars, names, rows, edges, plan>>

\* Mutant of Order: the first table of every edge instead of the second.
OrderFromFirst(es) ==
  <<names[es[1].u + 1]>> \o [k \in DOMAIN es |-> names[es[k].u + 1]]

\* The order of the join: both tables of the first edge, then the second
\* table of each further one.
Order(es) ==
  <<names[es[1].u + 1]>> \o [k \in DOMAIN es |-> names[es[k].v + 1]]

\* Without any edge the plan keeps the order of the query.
Rebuild ==
  /\ phase = "edges" /\ ~Wanted
  /\ plan' = IF mst = << >> THEN names ELSE Order(mst)
  /\ phase' = "done"
  /\ UNCHANGED <<ufvars, names, rows, edges, next, mst>>

Step == TryEdge \/ Unite \/ TakeEdge \/ Rebuild

\* The plan is made and handed over.
Done == phase = "done" /\ UNCHANGED jvars

Next == (\E q \in Queries : optimize(q)) \/ Step \/ Done

\* optimize is straight-line code and loops in one thread.
Spec == Init /\ [][Next]_jvars /\ WF_jvars(Step)

-----------------------------------------------------------------------------
(* Properties *)

Tables == 0 .. Len(names) - 1

\* The nodes that the edges es connect with x.
Reached(es, x) ==
  LET Wider(set) == set \union {e.u : e \in {f \in es : f.v \in set}}
                        \union {e.v : e \in {f \in es : f.u \in set}}
      r[k \in 0 .. Len(names)] == IF k = 0 THEN {x} ELSE Wider(r[k - 1])
  IN  r[Len(names)]

Weight(es) == FoldSet(LAMBDA k, sum : sum + edges[k].weight, 0, es)

(***************************************************************************)
(* The result is a spanning forest of least weight: it connects what the   *)
(* graph connects, no set of edges as large or smaller that does so weighs *)
(* less, and stopping after n - 1 edges misses nothing.                    *)
(***************************************************************************)
SpanningTreeIsMinimal ==
  phase = "done" =>
    LET joined == [x \in Tables |-> Reached(Range(edges), x)]
        Spans(es) == \A x \in Tables : Reached(es, x) = joined[x]
        taken == FoldSeq(LAMBDA e, sum : sum + e.weight, 0, mst)
    IN  /\ Spans(Range(mst))
        /\ \A ks \in SUBSET DOMAIN edges :
             Spans({edges[k] : k \in ks}) => Len(mst) <= Cardinality(ks) /\ taken <= Weight(ks)

Distinct == IsInjective(names)

(***************************************************************************)
(* If the query begins with a table that no other one is smaller than, the *)
(* plan begins with it too and lists every table once, in the order of the *)
(* query: the demonstration's customer JOIN orders JOIN lineitem.          *)
(***************************************************************************)
PlanKeepsOrderIfFirstIsSmallest ==
  phase = "done" /\ Distinct /\ (\A k \in DOMAIN names : rows[names[1]] <= rows[names[k]])
    => plan = names

(***************************************************************************)
(* A plan is made for every query.                                         *)
(***************************************************************************)
PlanIsMade == phase = "edges" ~> phase = "done"

(***************************************************************************)
(* JoinOptimizer.h:9 "Computes the optimal join order for multi-table      *)
(* queries using MST": an order of the tables of the query.  The code does *)
(* not keep this: a tree whose edges do not all lead away from the first   *)
(* table gives a plan that repeats one table and leaves another out.       *)
(***************************************************************************)
PlanHasAllTables == phase = "done" => Range(plan) = Range(names)
=============================================================================
