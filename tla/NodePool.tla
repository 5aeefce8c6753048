------------------------------ MODULE NodePool ------------------------------
(***************************************************************************)
(* The pool that all compiled graphs share (signal_engine/node_pool.cpp)   *)
(* and the ways the evaluator changes it (cold_eval.cpp): hash-consed      *)
(* nodes, the roots that outputs and state slots hold into it, the         *)
(* collector that compacts it, and the order in which a tick executes it.  *)
(*                                                                         *)
(* A form runs to completion between two ticks, and is split here at each  *)
(* node it interns, each root it installs and each node it puts back in    *)
(* the table.  A tick sees the pool only when doing = "nothing".           *)
(*                                                                         *)
(* Nodes are numbered from 1, and 0 is NODE_NONE.  A compilation may hold  *)
(* any node of the pool, because a text that spells the node out again     *)
(* gets the same one.  A third input behaves as the second.                *)
(***************************************************************************)
EXTENDS Naturals, Sequences, FiniteSets

CONSTANTS
  Source,      \* operations without inputs: constants, time, loads
  Operation,   \* operations on one or two nodes
  Home(_),     \* Home(n): hash_node(n) % CSE_TABLE_SIZE
  NumOutputs,  \* MAX_OUTPUTS
  MaxSlots,    \* MAX_STATE_SLOTS
  MaxNodes,    \* MAX_TOTAL_NODES
  TableSize    \* CSE_TABLE_SIZE

(* An operation (and its immediate value), and its inputs.                 *)
Node == [op : Source, a : {0}, b : {0}]
          \cup [op : Operation, a : 1 .. MaxNodes, b : 0 .. MaxNodes]

ASSUME SizeAssumption == /\ NumOutputs \in Nat
                         /\ MaxSlots \in Nat
                         /\ MaxNodes \in Nat
                         /\ TableSize \in Nat
                         /\ MaxNodes =< TableSize

Output == 1 .. NumOutputs
Slot == 1 .. MaxSlots
Place == 0 .. TableSize - 1

ASSUME HomeAssumption == \A n \in Node : Home(n) \in Place

VARIABLES
  nodes,  \* the nodes in use
  table,  \* table[p]: cse_indices, 0 for an empty place
  root,   \* root[o]: outputs[o].root_node
  law,    \* law[s]: state_update_roots[s]
  slots,  \* state_slot_count
  exec,   \* the nodes in exec_order, which is increasing
  doing,  \* the form or the loop under way
  at,     \* the output, slot or node it is at
  full,   \* the compilation under way found no room
  torn    \* history: a text failed since exec was last computed

vars == <<nodes, table, root, law, slots, exec, doing, at, full, torn>>

Used == 1 .. Len(nodes)
Inputs(n) == {n.a, n.b} \ {0}

-----------------------------------------------------------------------------
(* The nodes that output roots and the laws of the slots in use reach: the *)
(* least set that holds them and the inputs of its members.                *)
ClosedUnderInputs(S) == \A i \in S : Inputs(nodes[i]) \cap Used \subseteq S

RootsOfOutputs(rt, lw, k) == {rt[o] : o \in Output}  \* mutant: the laws are left out

Roots(rt, lw, k) == {rt[o] : o \in Output} \cup {lw[s] : s \in 1 .. k}

Live(rt, lw, k) ==
  {i \in Used : \A S \in SUBSET Used :
                  Roots(rt, lw, k) \cap Used \subseteq S /\ ClosedUnderInputs(S) => i \in S}

(* rebuild_execution_order: a forward scan over the reachable nodes.       *)
RebuildOrder(rt, lw, k) ==
  /\ exec' = Live(rt, lw, k)
  /\ torn' = FALSE

Idle == doing' = "nothing" /\ at' = 0 /\ full' = FALSE

-----------------------------------------------------------------------------
(* Probing the table from the place of a node, around its end.             *)
Probe(n, q) == LET p == Home(n) + q IN IF p < TableSize THEN p ELSE p - TableSize

FirstOf(Q) == {q \in Q : \A r \in Q : q =< r}

EmptyProbes(n) == {q \in Place : table[Probe(n, q)] = 0}

(* The probes at which the search for n stops: an empty place, or n.       *)
Stops(n) == {q \in Place : LET i == table[Probe(n, q)] IN i = 0 \/ nodes[i] = n}

Compiling == doing \in {"assign", "defstate", "outputs", "laws", "restore"}

Room == Len(nodes) < MaxNodes

(* intern_node: the node that is found, or a new one.                      *)
Intern(n) ==
  /\ Compiling
  /\ Inputs(n) \subseteq Used
  /\ \A q \in FirstOf(Stops(n)) : table[Probe(n, q)] = 0
  /\ IF Room
     THEN /\ nodes' = Append(nodes, n)
          /\ table' = [p \in Place |-> IF \E q \in FirstOf(Stops(n)) : p = Probe(n, q)
                                       THEN Len(nodes) + 1 ELSE table[p]]
          /\ UNCHANGED full
     ELSE /\ full' = TRUE
          /\ UNCHANGED <<nodes, table>>
  /\ UNCHANGED <<root, law, slots, exec, doing, at, torn>>

Make == \E n \in Node : Intern(n)

(* What a compilation may return, or a stateful operator have for a law.   *)
Result == Used \cup (IF full THEN {0} ELSE {})

(* A stateful operator takes a slot, or finds the one that its :id has,    *)
(* and installs its law; the text around it may still fail.                *)
InstallLaw ==
  /\ Compiling
  /\ \E s \in Slot, r \in Result :
       /\ s =< slots + 1
       /\ law' = [law EXCEPT ![s] = r]
       /\ slots' = IF s > slots THEN s ELSE slots
  /\ UNCHANGED <<nodes, table, root, exec, doing, at, full, torn>>

-----------------------------------------------------------------------------
(* gc_unreachable_nodes: the live nodes move to the front in their order.  *)
AnyOrder(live, m) ==  \* mutant: the order is lost
  {f \in [live -> 1 .. m] : \A k \in 1 .. m : \E i \in live : f[i] = k}

Moves(live, m) ==
  {f \in [live -> 1 .. m] : /\ \A k \in 1 .. m : \E i \in live : f[i] = k
                            /\ \A i, j \in live : i < j => f[i] < f[j]}

Moved(f, i) == IF i \in DOMAIN f THEN f[i] ELSE 0

MovedNode(f, n) == [n EXCEPT !.a = Moved(f, n.a), !.b = Moved(f, n.b)]

Collect(rt) ==
  /\ \E m \in 0 .. Len(nodes) : \E f \in Moves(Live(rt, law, slots), m) :
       /\ nodes' = [k \in 1 .. m |-> MovedNode(f, nodes[CHOOSE i \in DOMAIN f : f[i] = k])]
       /\ root' = [o \in Output |-> Moved(f, rt[o])]
       /\ law' = [s \in Slot |-> IF s =< slots THEN Moved(f, law[s]) ELSE law[s]]
  /\ table' = [p \in Place |-> 0]
  /\ doing' = "rehash" /\ at' = 1 /\ full' = FALSE
  /\ UNCHANGED <<slots, exec, torn>>

(* The collector puts the nodes back in the table one after the other.     *)
RehashNoProbe ==  \* mutant: a collision overwrites
  /\ doing = "rehash" /\ at =< Len(nodes)
  /\ table' = [table EXCEPT ![Probe(nodes[at], 0)] = at]
  /\ at' = at + 1
  /\ UNCHANGED <<nodes, root, law, slots, exec, doing, full, torn>>

Rehash ==
  /\ doing = "rehash" /\ at =< Len(nodes)
  /\ table' = [p \in Place |-> IF \E q \in FirstOf(EmptyProbes(nodes[at])) :
                                    p = Probe(nodes[at], q)
                               THEN at ELSE table[p]]
  /\ at' = at + 1
  /\ UNCHANGED <<nodes, root, law, slots, exec, doing, full, torn>>

Rehashed ==
  /\ doing = "rehash" /\ at > Len(nodes)
  /\ RebuildOrder(root, law, slots)
  /\ Idle
  /\ UNCHANGED <<nodes, table, root, law, slots>>

-----------------------------------------------------------------------------
(* do_output_assign.                                                       *)
BeginAssign(o) ==
  /\ doing = "nothing"
  /\ doing' = "assign" /\ at' = o
  /\ UNCHANGED <<nodes, table, root, law, slots, exec, full, torn>>

AssignFails ==
  /\ doing = "assign"
  /\ torn' = TRUE
  /\ Idle
  /\ UNCHANGED <<nodes, table, root, law, slots, exec>>

Assign ==
  /\ doing = "assign"
  /\ \E r \in Result : Collect([root EXCEPT ![at] = r])

(* do_defstate, in a new slot or in the one that its cell has.             *)
BeginDefState(s) ==
  /\ doing = "nothing"
  /\ s =< slots + 1
  /\ doing' = "defstate" /\ at' = s
  /\ slots' = IF s > slots THEN s ELSE slots
  /\ UNCHANGED <<nodes, table, root, law, exec, full, torn>>

DefStateFails ==
  /\ doing = "defstate"
  /\ law' = [law EXCEPT ![at] = 0]
  /\ torn' = TRUE
  /\ Idle
  /\ UNCHANGED <<nodes, table, root, slots, exec>>

DefStateKeepsOrder ==  \* mutant: the order is not computed again
  /\ doing = "defstate"
  /\ \E r \in Result : law' = [law EXCEPT ![at] = r]
  /\ Idle
  /\ UNCHANGED <<nodes, table, root, slots, exec, torn>>

DefState ==
  /\ doing = "defstate"
  /\ \E r \in Result : law' = [law EXCEPT ![at] = r]
  /\ RebuildOrder(root, law', slots)
  /\ doing' = "outputs" /\ at' = 1 /\ full' = FALSE
  /\ UNCHANGED <<nodes, table, root, slots>>

(* define, defn, set, bpm...: the cell is bound, and on_cell_changed goes  *)
(* over the outputs and then over the slots that depend on it.             *)
BeginChange ==
  /\ doing = "nothing"
  /\ doing' = "outputs" /\ at' = 1
  /\ UNCHANGED <<nodes, table, root, law, slots, exec, full, torn>>

(* The next output, compiled again or not.                                 *)
NextOutput ==
  /\ doing \in {"outputs", "restore"} /\ at =< NumOutputs
  /\ \/ UNCHANGED root
     \/ /\ root[at] # 0 \/ doing = "restore"
        /\ \E r \in Result : root' = [root EXCEPT ![at] = r]
  /\ at' = at + 1 /\ full' = FALSE
  /\ UNCHANGED <<nodes, table, law, slots, exec, doing, torn>>

OutputsDone ==
  /\ doing = "outputs" /\ at > NumOutputs
  /\ doing' = "laws" /\ at' = 1
  /\ UNCHANGED <<nodes, table, root, law, slots, exec, full, torn>>

NextLaw ==
  /\ doing = "laws" /\ at =< slots
  /\ \/ UNCHANGED law
     \/ \E r \in Result : law' = [law EXCEPT ![at] = r]
  /\ at' = at + 1 /\ full' = FALSE
  /\ UNCHANGED <<nodes, table, root, slots, exec, doing, torn>>

LawsDone ==
  /\ doing = "laws" /\ at > slots
  /\ RebuildOrder(root, law, slots)
  /\ Idle
  /\ UNCHANGED <<nodes, table, root, law, slots>>

(* recompile_all_outputs, after a boot.                                    *)
Restored ==
  /\ doing = "restore" /\ at > NumOutputs
  /\ Collect(root)

(* useq-clear: the nodes stay.                                             *)
UseqClear ==
  /\ doing = "nothing"
  /\ root' = [o \in Output |-> 0]
  /\ slots' = 0
  /\ exec' = {}
  /\ torn' = FALSE
  /\ UNCHANGED <<nodes, table, law, doing, at, full>>

-----------------------------------------------------------------------------
Init ==
  /\ nodes = <<>>
  /\ table = [p \in Place |-> 0]
  /\ root = [o \in Output |-> 0]
  /\ law = [s \in Slot |-> 0]
  /\ slots = 0
  /\ exec = {}
  /\ doing \in {"nothing", "restore"}
  /\ at = IF doing = "nothing" THEN 0 ELSE 1
  /\ full = FALSE
  /\ torn = FALSE

Next ==
  \/ Make \/ InstallLaw
  \/ \E o \in Output : BeginAssign(o)
  \/ Assign \/ AssignFails
  \/ \E s \in Slot : BeginDefState(s)
  \/ DefState \/ DefStateFails
  \/ BeginChange \/ NextOutput \/ OutputsDone \/ NextLaw \/ LawsDone
  \/ Restored \/ Rehash \/ Rehashed
  \/ UseqClear

Spec == Init /\ [][Next]_vars

-----------------------------------------------------------------------------
Shape ==
  /\ nodes \in Seq(Node) /\ Len(nodes) =< MaxNodes
  /\ table \in [Place -> 0 .. MaxNodes]
  /\ root \in [Output -> 0 .. MaxNodes]
  /\ law \in [Slot -> 0 .. MaxNodes]
  /\ slots \in 0 .. MaxSlots
  /\ exec \subseteq 1 .. MaxNodes
  /\ doing \in {"nothing", "assign", "defstate", "outputs", "laws", "restore", "rehash"}
  /\ at \in Nat

TypeOK == Shape /\ {full, torn} \subseteq BOOLEAN

(* Inputs come before the nodes that use them, so that a forward scan is a *)
(* topological order (the comment in rebuild_execution_order), through     *)
(* every interning and every compaction.                                   *)
InputsFirst == \A i \in Used : \A j \in Inputs(nodes[i]) : j < i

(* No two nodes are alike: whatever the hashes are and however the table   *)
(* fills and is rebuilt, intern_node finds the node it is asked for.       *)
NothingTwice == \A i, j \in Used : nodes[i] = nodes[j] => i = j

(* A tick drives outputs and states with what it has just computed: every  *)
(* root it reads is in the order, and so are the inputs of all that is.    *)
(* A failing text may leave its laws out of the order, until it is         *)
(* computed again.                                                         *)
TickIsFresh ==
  doing = "nothing" =>
    /\ exec \subseteq Used
    /\ \A i \in exec : Inputs(nodes[i]) \subseteq exec
    /\ \A o \in Output : root[o] # 0 => root[o] \in exec
    /\ ~torn => \A s \in 1 .. slots : law[s] # 0 => law[s] \in exec

(* What a node computes.                                                   *)
Meaning(i) ==
  LET meaning[j \in 0 .. MaxNodes] ==
        IF j \in Used THEN <<nodes[j].op, meaning[nodes[j].a], meaning[nodes[j].b]>>
                      ELSE <<>>
  IN meaning[i]

(* Only the form that is about an output or a slot changes what it         *)
(* computes: interning, collecting and rehashing change what none of them  *)
(* computes.  A slot that defstate has just taken has an old law until the *)
(* end of the form.                                                        *)
KeepsMeanings ==
  [][/\ \A o \in Output : Meaning(root[o])' # Meaning(root[o])
          => UseqClear \/ (at = o /\ (NextOutput \/ Assign))
     /\ \A s \in 1 .. slots : Meaning(law[s])' # Meaning(law[s])
          => UseqClear \/ InstallLaw \/ (NextLaw /\ at = s) \/ (doing = "defstate" /\ at = s)]_vars

=============================================================================
