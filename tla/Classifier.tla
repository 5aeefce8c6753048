----------------------------- MODULE Classifier -----------------------------
(***************************************************************************)
(* What an output's value depends on besides time and cells                *)
(* (classify_outputs in signal_engine/executor.cpp), which the browser     *)
(* asks for to know what it may show ahead of time.                        *)
(*                                                                         *)
(* A graph is made first: nodes whose inputs have lower numbers.  The walk *)
(* then goes over the nodes under a root with a stack that holds no more   *)
(* numbers than the pool has nodes.                                        *)
(***************************************************************************)
EXTENDS Naturals, Sequences, FiniteSets

CONSTANTS
  PoolSize,    \* MAX_TOTAL_NODES
  MostBuilt,   \* bound: the nodes of the graph
  HwInput,     \* hardware inputs
  LeafOp       \* the operators without inputs that occur

VARIABLES
  pool,     \* pool.nodes
  active,   \* outputs[i].valid
  pending,  \* the stack
  visited,
  noted,    \* ClassifyResult: state, and input_mask
  class     \* output_class, "building" or "walking"

classifier == <<pool, active, pending, visited, noted, class>>

-----------------------------------------------------------------------------
ReadsThePast == {"LoadState", "LoadDt", "PrevOutputLoad"}

(* "Const" is any operator that reads neither.                             *)
ASSUME LeafAssumption ==
  /\ LeafOp \subseteq ReadsThePast \cup {"InputLoad", "Const"}
  /\ "state" \notin HwInput
  /\ PoolSize \in Nat

NoChild == 0

Leaf == [op : LeafOp \ {"InputLoad"}, input : {"none"}, args : {<<NoChild, NoChild, NoChild>>}]
          \cup [op : LeafOp \cap {"InputLoad"}, input : HwInput,
                 args : {<<NoChild, NoChild, NoChild>>}]

(* Any operator of up to three inputs.                                     *)
Inner(k) ==
  LET arg == {NoChild} \cup 1..(k - 1)
  IN [op : {"Operator"}, input : {"none"},
      args : {<<a, b, c>> : a \in arg, b \in arg, c \in arg}]

-----------------------------------------------------------------------------
Root == Len(pool)

(* A number that is there and has not been visited goes on the stack,      *)
(* while there is room.                                                    *)
PushOne(s, a, seen) ==
  IF a # NoChild /\ a \notin seen /\ Len(s) < PoolSize THEN Append(s, a) ELSE s

PushedFirst(s, i, seen) ==   \* mutant: only the first input of a node
  PushOne(s, pool[i].args[1], seen)

Pushed(s, i, seen) ==
  LET one == PushOne(s, pool[i].args[1], seen)
      two == PushOne(one, pool[i].args[2], seen)
  IN PushOne(two, pool[i].args[3], seen)

Noted(i) ==
  IF pool[i].op \in ReadsThePast THEN [noted EXCEPT !.state = TRUE]
  ELSE IF pool[i].op = "InputLoad" THEN [noted EXCEPT !.inputs = @ \cup {pool[i].input}]
  ELSE noted

(* classify_node_tree, one node at a time.                                 *)
Visit ==
  /\ class = "walking" /\ pending # <<>>
  /\ LET i == pending[Len(pending)]
         rest == SubSeq(pending, 1, Len(pending) - 1)
     IN IF i \in visited
        THEN pending' = rest /\ UNCHANGED <<visited, noted>>
        ELSE /\ visited' = visited \cup {i}
             /\ noted' = Noted(i)
             /\ pending' = Pushed(rest, i, visited \cup {i})
  /\ UNCHANGED <<pool, active, class>>

ClassOf ==
  IF ~active THEN "Inactive"
  ELSE IF noted.state THEN "Stateful"
  ELSE IF noted.inputs # {} THEN "InputDep" ELSE "Pure"

(* classify_outputs, for one output.                                       *)
Classify ==
  /\ class = "walking" /\ pending = <<>>
  /\ class' = ClassOf
  /\ UNCHANGED <<pool, active, pending, visited, noted>>

ClassifierInit ==
  /\ pool = <<>> /\ active = FALSE /\ pending = <<>>
  /\ visited = {} /\ noted = [state |-> FALSE, inputs |-> {}] /\ class = "building"

Build ==
  /\ class = "building" /\ Len(pool) < MostBuilt
  /\ \E n \in Leaf \cup Inner(Len(pool) + 1) : pool' = Append(pool, n)
  /\ UNCHANGED <<active, pending, visited, noted, class>>

(* The output gets the last node for its root, or it has none or is not    *)
(* valid.                                                                  *)
SetRoot ==
  /\ class = "building" /\ pool # <<>>
  /\ active' \in BOOLEAN
  /\ pending' = (IF active' THEN <<Root>> ELSE <<>>)
  /\ class' = "walking"
  /\ UNCHANGED <<pool, visited, noted>>

ClassifierNext == Build \/ SetRoot \/ Visit \/ Classify

ClassifierSpec == ClassifierInit /\ [][ClassifierNext]_classifier

-----------------------------------------------------------------------------
(* What the nodes come to in a world, in the order of their numbers, where *)
(* every operator adds and an input that is not there adds nothing.        *)
World == [HwInput \cup {"state"} -> 0..1]

NodeValue(i, values, w) ==
  IF pool[i].op \in ReadsThePast THEN w["state"]
  ELSE IF pool[i].op = "InputLoad" THEN w[pool[i].input]
  ELSE IF pool[i].op = "Const" THEN 1
  ELSE values[pool[i].args[1]] + values[pool[i].args[2]] + values[pool[i].args[3]]

Workspace(w) ==
  LET upTo[n \in 0..Len(pool)] ==
        IF n = 0 THEN [i \in 0..Len(pool) |-> 0]
        ELSE [upTo[n - 1] EXCEPT ![n] = NodeValue(n, upTo[n - 1], w)]
  IN upTo[Len(pool)]

DependsOn(x) ==
  \E w \in World : Workspace(w)[Root] # Workspace([w EXCEPT ![x] = 1 - w[x]])[Root]

(* An output that counts as pure has the same value whatever the hardware  *)
(* inputs, the states and the tick before were, and one that counts as an  *)
(* input's changes with the inputs of its mask and no others, also when    *)
(* nodes are shared.  That is so while the graph takes less than half of   *)
(* the pool: the stack of a larger one may overflow, and then the inputs   *)
(* of a node are left out.                                                 *)
(* [signal_engine/executor.cpp:262-324, signal_engine/types.h:59:          *)
(* "closed-form function of t only (+ cells, data)"]                       *)
ClassIsSound ==
  class \notin {"building", "walking", "Inactive"} /\ 2 * Len(pool) < PoolSize =>
    /\ noted.inputs = {i \in HwInput : DependsOn(i)}
    /\ class = IF DependsOn("state") THEN "Stateful"
               ELSE IF noted.inputs # {} THEN "InputDep" ELSE "Pure"

=============================================================================
