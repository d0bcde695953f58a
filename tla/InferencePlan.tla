--------------------------- MODULE InferencePlan ---------------------------
(***************************************************************************)
(* The plan of one inference (build_inference_plan, torch_planner.py): the *)
(* values of an exported graph, which of them are aliases of which, when   *)
(* each is used for the last time, the activation slots their lifetimes    *)
(* are coloured into, and what every node releases and may prefetch.       *)
(*                                                                         *)
(* A graph is a topologically ordered sequence of nodes, each naming the   *)
(* value it produces by its index, and the set of values its output node   *)
(* returns.  An operation is "input", "state" (a placeholder whose storage *)
(* is named by key, so that tied state shares it), "alias", "compute" or   *)
(* "matmul" (the operators with a tiled form).  Sizes are spans in units   *)
(* of a chunk; the shapes, strides and offsets behind them are left out,   *)
(* as are the refusals of graphs the allowlist does not admit.             *)
(***************************************************************************)
EXTENDS Integers, Sequences, FiniteSets, SequencesExt

Values(g) == 1 .. Len(g.nodes)
OutputIndex(g) == Len(g.nodes) + 1
Launches(g) == {i \in Values(g) : g.nodes[i].op \in {"compute", "matmul"}}
Calls(g) == Launches(g) \union {i \in Values(g) : g.nodes[i].op = "alias"}

(* The value whose storage an alias shows: that of an alias of an alias is *)
(* the one at the bottom.                                                  *)
Roots(g) ==
  LET root[v \in Values(g)] == IF g.nodes[v].op = "alias" THEN root[Max(g.nodes[v].args)] ELSE v
  IN root

Uses(g, v) ==
  {i \in Calls(g) : v \in g.nodes[i].args} \union (IF v \in g.outputs THEN {OutputIndex(g)} ELSE {})
LastUse(g, v) == Max(Uses(g, v) \union {v})

Aliases(root, v) == {w \in DOMAIN root : root[w] = v}

(* A base stays live, and escapes, as long as an alias of it does.         *)
\* mutant: an alias does not keep its base
LastUseAlone(g, root) == [v \in Values(g) |-> LastUse(g, v)]
LastUses(g, root) ==
  [v \in Values(g) |-> Max({LastUse(g, w) : w \in Aliases(root, v) \union {v}})]
Escapes(g, root) ==
  [v \in Values(g) |-> \E w \in Aliases(root, v) \union {v} : w \in g.outputs]

Activations(g, root) == {v \in Values(g) : root[v] \in Launches(g)}

-----------------------------------------------------------------------------
(* _color_activation_slots: in the order of their producers, each value    *)
(* takes the smallest slot that is free and large enough, else grows the   *)
(* smallest that is free, else opens one.                                  *)

Free(slots, v) == {k \in DOMAIN slots : slots[k].end < v}

Candidates(slots, v, size) ==
  LET fitting == {k \in Free(slots, v) : slots[k].capacity >= size}
  IN IF fitting # {} THEN fitting ELSE Free(slots, v)

Smallest(slots, ks) ==
  CHOOSE k \in ks : \A j \in ks : \/ slots[k].capacity < slots[j].capacity
                                  \/ slots[k].capacity = slots[j].capacity /\ k <= j

Grown(capacity, size) == IF capacity < size THEN size ELSE capacity

Colour(g, last) ==
  LET place(acc, v) ==
        LET size == g.nodes[v].size
            ks == Candidates(acc.slots, v, size)
            k == IF ks = {} THEN Len(acc.slots) + 1 ELSE Smallest(acc.slots, ks)
            slots == IF ks = {} THEN Append(acc.slots, [capacity |-> 0, end |-> 0]) ELSE acc.slots
        IN [slots |-> [slots EXCEPT ![k] = [capacity |-> Grown(@.capacity, size), end |-> last[v]]],
            of |-> [acc.of EXCEPT ![v] = k]]
  IN FoldLeft(place, [slots |-> <<>>, of |-> [v \in Values(g) |-> 0]],
              SetToSortSeq(Launches(g), <))

-----------------------------------------------------------------------------
(* The plan: of every value its root, its last use, whether it escapes and *)
(* the storage it lives in; of every slot its capacity.                    *)
Plan(g) ==
  LET root == Roots(g)
      last == LastUses(g, root)
      colour == Colour(g, last)
      home(r) == CASE g.nodes[r].op = "input" -> <<"input", r>>
                   [] g.nodes[r].op = "state" -> <<"state", g.nodes[r].key>>
                   [] OTHER -> <<"activation", colour.of[r]>>
  IN [root |-> root, last |-> last, escapes |-> Escapes(g, root),
      storage |-> [v \in Values(g) |-> home(root[v])],
      capacity |-> [k \in DOMAIN colour.slots |-> colour.slots[k].capacity]]

Storages(p) == ToSet(p.storage)
Slots(p) == {s \in Storages(p) : s[1] = "activation"}

(* release_values of a node: activations, aliases of them included, whose  *)
(* last use it is.                                                         *)
Releases(g, p, i) ==
  {v \in Activations(g, p.root) : ~p.escapes[v] /\ p.last[v] = i}

LiveAt(g, p, i) == {v \in Launches(g) : v <= i /\ i <= p.last[v]}
PeakLive(g, p) ==
  Max({MapThenSumSet(LAMBDA v : g.nodes[v].size, LiveAt(g, p, i)) : i \in 1 .. OutputIndex(g)})

ReadAt(g, i) == IF i = OutputIndex(g) THEN g.outputs ELSE g.nodes[i].args
=============================================================================
