--------------------------- MODULE NodePoolProofs ---------------------------
(* Theorems about NodePool, for every value of its constants.              *)
EXTENDS NodePool, FiniteSetTheorems, BoundedRecursion

(* What a search of the table tab needs: node i is met on the probes for   *)
(* n, and no place before it is empty.                                     *)
Findable(tab, n, i) ==
  \E q \in Place : /\ tab[Probe(n, q)] = i
                   /\ \A r \in Place : r < q => tab[Probe(n, r)] # 0

(* The nodes that are in the table: all of them, or those the collector    *)
(* has put back so far.                                                    *)
Tabled == IF doing = "rehash" THEN {i \in Used : i < at} ELSE Used

TableOK ==
  /\ \A i \in Tabled : Findable(table, nodes[i], i)
  /\ \A p \in Place : table[p] # 0 => table[p] \in Tabled
  /\ \A p, r \in Place : table[p] = table[r] /\ table[p] # 0 => p = r

(* Inside: roots and laws are nodes, but for the law that a defstate has   *)
(* not given yet.                                                          *)
RootsInside ==
  /\ \A o \in Output : root[o] =< Len(nodes)
  /\ \A s \in 1 .. slots : law[s] =< Len(nodes) \/ (doing = "defstate" /\ at = s)

(* The order is computed before a tick wherever a form made it stale.      *)
OrderClosed ==
  doing \in {"nothing", "assign", "defstate"} =>
    /\ exec \subseteq Used
    /\ \A i \in exec : Inputs(nodes[i]) \subseteq exec
    /\ \A o \in Output : root[o] # 0 => root[o] \in exec

LawsFresh ==
  doing = "nothing" /\ ~torn => \A s \in 1 .. slots : law[s] # 0 => law[s] \in exec

Positions ==
  /\ doing \in {"assign", "restore", "outputs"} => at >= 1
  /\ doing = "assign" => at \in Output
  /\ doing = "defstate" => at \in 1 .. slots
  /\ doing = "laws" => at >= 1
  /\ doing = "rehash" => at >= 1 /\ at =< Len(nodes) + 1

PoolInv == Shape /\ InputsFirst /\ RootsInside /\ Positions

-----------------------------------------------------------------------------
(* The live nodes hold the roots that are nodes, and their own inputs.     *)
LEMMA LiveHoldsRoots ==
  ASSUME NEW rt, NEW lw, NEW k, NEW i \in Roots(rt, lw, k), i \in Used
  PROVE  i \in Live(rt, lw, k)
  BY DEF Live

LEMMA LiveIsClosed ==
  ASSUME NEW rt, NEW lw, NEW k, NEW i \in Live(rt, lw, k), NEW j \in Inputs(nodes[i]), j \in Used
  PROVE  j \in Live(rt, lw, k)
<1> SUFFICES ASSUME NEW S \in SUBSET Used, Roots(rt, lw, k) \cap Used \subseteq S,
                    ClosedUnderInputs(S)
             PROVE  j \in S
  BY DEF Live
<1>1. i \in S
  BY DEF Live
<1> QED
  BY <1>1 DEF ClosedUnderInputs

LEMMA InputsUsed ==
  ASSUME Shape, InputsFirst, NEW i \in Used
  PROVE  /\ nodes[i] \in Node
         /\ \A j \in Inputs(nodes[i]) : j \in Used /\ j < i
<1>1. nodes[i] \in Node
  BY DEF Shape, Used
<1>2. \A j \in Inputs(nodes[i]) : j \in Nat /\ j # 0
  BY <1>1, SizeAssumption DEF Inputs, Node
<1>3. Len(nodes) \in Nat
  BY DEF Shape
<1> QED
  BY <1>1, <1>2, <1>3 DEF InputsFirst, Used

(* The order that RebuildOrder computes is good for a tick.                *)
LEMMA RebuiltOrder ==
  ASSUME Shape, InputsFirst, NEW lw, RebuildOrder(root, lw, slots), UNCHANGED nodes
  PROVE  /\ exec' \subseteq Used'
         /\ \A i \in exec' : Inputs(nodes'[i]) \subseteq exec'
         /\ \A i \in Roots(root, lw, slots) : i \in Used => i \in exec'
<1>1. exec' = Live(root, lw, slots) /\ nodes' = nodes /\ Used' = Used
  BY DEF RebuildOrder, Used
<1>2. exec' \subseteq Used'
  BY <1>1 DEF Live
<1>3. ASSUME NEW i \in exec'
      PROVE  Inputs(nodes'[i]) \subseteq exec'
  <2>1. i \in Live(root, lw, slots) /\ i \in Used
    BY <1>1 DEF Live
  <2>2. \A j \in Inputs(nodes[i]) : j \in Used
    BY <2>1, InputsUsed
  <2>3. \A j \in Inputs(nodes[i]) : j \in Live(root, lw, slots)
    BY <2>1, <2>2, LiveIsClosed
  <2> QED
    BY <1>1, <2>3
<1> QED
  BY <1>1, <1>2, <1>3, LiveHoldsRoots

-----------------------------------------------------------------------------
(* Every form but a collection leaves the nodes alone or adds one.         *)
LEMMA InternGrows ==
  ASSUME Shape, InputsFirst, NEW n \in Node, Intern(n)
  PROVE  /\ nodes' \in Seq(Node) /\ Len(nodes') =< MaxNodes /\ Len(nodes) =< Len(nodes')
         /\ \A i \in Used : i \in Used' /\ nodes'[i] = nodes[i]
         /\ InputsFirst'
<1>1. CASE nodes' = nodes
  BY <1>1 DEF Shape, InputsFirst, Used
<1>2. CASE nodes' = Append(nodes, n) /\ Len(nodes) < MaxNodes
  <2>1. /\ nodes' \in Seq(Node) /\ Len(nodes') = Len(nodes) + 1
        /\ \A i \in Used : nodes'[i] = nodes[i]
        /\ nodes'[Len(nodes) + 1] = n
        /\ Len(nodes) \in Nat
    BY <1>2 DEF Shape, Used
  <2>2. \A j \in Inputs(n) : j < Len(nodes) + 1
    BY <2>1 DEF Intern, Used
  <2>3. InputsFirst'
    BY <2>1, <2>2 DEF InputsFirst, Used
  <2> QED
    BY <1>2, <2>1, <2>3, SizeAssumption DEF Used
<1> QED
  BY <1>1, <1>2 DEF Intern, Room

LEMMA MovesKeepOrder ==
  ASSUME NEW live, NEW m, NEW f \in Moves(live, m), NEW i \in live, NEW j \in live, i < j
  PROVE  f[i] < f[j]
  BY DEF Moves

(* What a collection that moves the live nodes by f makes of the pool.      *)
CollectedBy(rt, m, f) ==
  /\ Len(nodes') = m /\ m =< MaxNodes
  /\ nodes' \in Seq(Node)
  /\ \A k \in 1 .. m : \E i \in Live(rt, law, slots) :
       /\ f[i] = k
       /\ nodes'[k] = MovedNode(f, nodes[i])
       /\ \A j \in Inputs(nodes[i]) : j \in Live(rt, law, slots) /\ j < i
  /\ root' = [o \in Output |-> Moved(f, rt[o])]
  /\ law' = [s \in Slot |-> IF s =< slots THEN Moved(f, law[s]) ELSE law[s]]

LEMMA Collected ==
  ASSUME Shape, InputsFirst, NEW rt, Collect(rt)
  PROVE  \E m \in 0 .. Len(nodes) : \E f \in Moves(Live(rt, law, slots), m) :
           CollectedBy(rt, m, f)
<1> DEFINE live == Live(rt, law, slots)
<1>1. PICK m \in 0 .. Len(nodes) : \E f \in Moves(live, m) :
        /\ nodes' = [k \in 1 .. m |-> MovedNode(f, nodes[CHOOSE i \in DOMAIN f : f[i] = k])]
        /\ root' = [o \in Output |-> Moved(f, rt[o])]
        /\ law' = [s \in Slot |-> IF s =< slots THEN Moved(f, law[s]) ELSE law[s]]
  BY DEF Collect
<1>2. PICK f \in Moves(live, m) :
        /\ nodes' = [k \in 1 .. m |-> MovedNode(f, nodes[CHOOSE i \in DOMAIN f : f[i] = k])]
        /\ root' = [o \in Output |-> Moved(f, rt[o])]
        /\ law' = [s \in Slot |-> IF s =< slots THEN Moved(f, law[s]) ELSE law[s]]
  BY <1>1
<1>3. m \in Nat /\ m =< MaxNodes /\ Len(nodes) \in Nat
  BY <1>1, SizeAssumption DEF Shape
<1>4. f \in [live -> 1 .. m] /\ \A k \in 1 .. m : \E i \in live : f[i] = k
  BY <1>2 DEF Moves
<1>5. live \subseteq Used
  BY DEF Live
<1>6. \A i \in live : \A j \in Inputs(nodes[i]) : j \in live /\ j < i
  BY <1>5, InputsUsed, LiveIsClosed
<1>7. ASSUME NEW i \in live
      PROVE  MovedNode(f, nodes[i]) \in Node
  <2>1. nodes[i] \in Node
    BY <1>5, InputsUsed
  <2>2. Moved(f, 0) = 0
    BY <1>4, <1>5 DEF Moved, Used
  <2>3. \A j \in live : Moved(f, j) \in 1 .. MaxNodes
    BY <1>3, <1>4, SizeAssumption DEF Moved
  <2>4. CASE nodes[i] \in [op : Source, a : {0}, b : {0}]
    BY <2>2, <2>4 DEF MovedNode, Node
  <2>5. CASE nodes[i] \in [op : Operation, a : 1 .. MaxNodes, b : 0 .. MaxNodes]
    <3>1. nodes[i].a \in live
      BY <1>6, <2>5, SizeAssumption DEF Inputs
    <3>2. nodes[i].b = 0 \/ nodes[i].b \in live
      BY <1>6, <2>5, SizeAssumption DEF Inputs
    <3>3. Moved(f, nodes[i].a) \in 1 .. MaxNodes /\ Moved(f, nodes[i].b) \in 0 .. MaxNodes
      BY <2>2, <2>3, <3>1, <3>2, SizeAssumption
    <3> QED
      BY <2>5, <3>3 DEF MovedNode, Node
  <2> QED
    BY <2>1, <2>4, <2>5 DEF Node
<1>8. ASSUME NEW k \in 1 .. m
      PROVE  \E i \in live : f[i] = k /\ nodes'[k] = MovedNode(f, nodes[i])
  <2> DEFINE i == CHOOSE i \in DOMAIN f : f[i] = k
  <2>1. i \in live /\ f[i] = k
    BY <1>4
  <2>2. nodes'[k] = MovedNode(f, nodes[i])
    BY <1>2
  <2> QED
    BY <2>1, <2>2
<1>9. nodes' \in Seq(Node) /\ Len(nodes') = m
  <2>1. \A k \in 1 .. m : nodes'[k] \in Node
    BY <1>7, <1>8
  <2>2. nodes' \in [1 .. m -> Node]
    BY <1>2, <2>1
  <2> QED
    BY <1>3, <2>2
<1>10. \A k \in 1 .. m : \E i \in live :
          /\ f[i] = k
          /\ nodes'[k] = MovedNode(f, nodes[i])
          /\ \A j \in Inputs(nodes[i]) : j \in live /\ j < i
  BY <1>6, <1>8
<1> HIDE DEF live
<1> QED
  BY <1>1, <1>2, <1>3, <1>9, <1>10 DEF live, CollectedBy

-----------------------------------------------------------------------------
(* Types, and what the roots and the loops point at.                       *)
LEMMA FlagsStep ==
  ASSUME {full, torn} \subseteq BOOLEAN, [Next]_vars
  PROVE  {full', torn'} \subseteq BOOLEAN
<1>1. full \in BOOLEAN /\ torn \in BOOLEAN
  OBVIOUS
<1>2. full' \in {full, TRUE, FALSE} /\ torn' \in {torn, TRUE, FALSE}
  BY Zenon
  DEF Next, vars, Make, Intern, InstallLaw, BeginAssign, Assign, AssignFails, BeginDefState, DefState,
      DefStateFails, BeginChange, NextOutput, OutputsDone, NextLaw, LawsDone, Restored, Rehash,
      Rehashed, UseqClear, Collect, Idle, RebuildOrder
<1> QED
  BY <1>1, <1>2

LEMMA CollectStep ==
  ASSUME PoolInv, NEW rt \in [Output -> 0 .. MaxNodes], Collect(rt)
  PROVE  PoolInv'
<1>1. PICK m \in 0 .. Len(nodes) : \E f \in Moves(Live(rt, law, slots), m) : CollectedBy(rt, m, f)
  BY Collected DEF PoolInv
<1>2. PICK f \in Moves(Live(rt, law, slots), m) : CollectedBy(rt, m, f)
  BY <1>1
<1> DEFINE live == Live(rt, law, slots)
<1>3. f \in [live -> 1 .. m] /\ m \in Nat
  BY <1>1, <1>2 DEF Moves, PoolInv, Shape
<1>4. \A i : Moved(f, i) \in 0 .. m
  BY <1>3 DEF Moved
<1>5. root' \in [Output -> 0 .. m]
  BY <1>2, <1>4 DEF CollectedBy
<1>6. law' \in [Slot -> 0 .. MaxNodes] /\ \A s \in 1 .. slots : law'[s] =< m
  BY <1>2, <1>3, <1>4, SizeAssumption DEF CollectedBy, PoolInv, Shape, Slot
<1>7. Shape'
  <2>1. table' \in [Place -> 0 .. MaxNodes] /\ doing' = "rehash" /\ at' = 1
    BY SizeAssumption DEF Collect
  <2>2. slots' = slots /\ exec' = exec
    BY DEF Collect
  <2>3. Len(nodes') = m /\ m =< MaxNodes /\ nodes' \in Seq(Node)
    BY <1>2 DEF CollectedBy
  <2>4. root' \in [Output -> 0 .. MaxNodes]
    BY <1>3, <1>5, <2>3, SizeAssumption
  <2> QED
    BY <1>6, <2>1, <2>2, <2>3, <2>4 DEF PoolInv, Shape
<1>8. InputsFirst'
  <2> SUFFICES ASSUME NEW k \in 1 .. m, NEW j \in Inputs(nodes'[k])
               PROVE  j < k
    BY <1>2 DEF CollectedBy, InputsFirst, Used
  <2>1. PICK i \in live : /\ f[i] = k
                          /\ nodes'[k] = MovedNode(f, nodes[i])
                          /\ \A h \in Inputs(nodes[i]) : h \in live /\ h < i
    BY <1>2 DEF CollectedBy
  <2>2. nodes[i] \in Node
    BY <2>1, InputsUsed DEF Live, PoolInv
  <2>3. Moved(f, 0) = 0
    BY <1>3 DEF Moved, Live, Used
  <2>4. \E h \in Inputs(nodes[i]) : j = f[h]
    <3>1. j # 0 /\ (j = Moved(f, nodes[i].a) \/ j = Moved(f, nodes[i].b))
      BY <2>1, <2>2 DEF MovedNode, Node, Inputs
    <3> QED
      BY <2>1, <2>3, <3>1 DEF Moved, Inputs
  <2> QED
    BY <1>3, <2>1, <2>4, MovesKeepOrder
<1>9. RootsInside' /\ Positions'
  BY <1>2, <1>3, <1>5, <1>6 DEF CollectedBy, Collect, RootsInside, Positions
<1> QED
  BY <1>7, <1>8, <1>9 DEF PoolInv

LEMMA InternStep ==
  ASSUME PoolInv, NEW n \in Node, Intern(n)
  PROVE  PoolInv'
<1>1. /\ nodes' \in Seq(Node) /\ Len(nodes') =< MaxNodes /\ Len(nodes) =< Len(nodes')
      /\ InputsFirst'
      /\ Len(nodes) \in Nat /\ Len(nodes') \in Nat
  BY InternGrows DEF PoolInv, Shape
<1>2. table' \in [Place -> 0 .. MaxNodes]
  <2>1. CASE Room
    <3>1. Len(nodes) + 1 \in 0 .. MaxNodes
      BY <1>1, <2>1, SizeAssumption DEF Room
    <3> QED
      BY <2>1, <3>1 DEF Intern, PoolInv, Shape
  <2>2. CASE ~Room
    BY <2>2 DEF Intern, PoolInv, Shape
  <2> QED
    BY <2>1, <2>2
<1>3. Shape'
  BY <1>1, <1>2 DEF Intern, PoolInv, Shape
<1>4. RootsInside' /\ Positions'
  BY <1>1, SizeAssumption DEF Intern, Compiling, PoolInv, Shape, RootsInside, Positions, Slot
<1> QED
  BY <1>1, <1>3, <1>4 DEF PoolInv

LEMMA ResultType ==
  ASSUME Shape, NEW r \in Result
  PROVE  r \in 0 .. MaxNodes /\ r =< Len(nodes)
  BY SizeAssumption DEF Shape, Result, Used

(* The steps that leave the nodes where they are.                          *)
StillNodes ==
  \/ InstallLaw \/ (\E o \in Output : BeginAssign(o)) \/ AssignFails
  \/ (\E s \in Slot : BeginDefState(s)) \/ DefState \/ DefStateFails
  \/ BeginChange \/ NextOutput \/ OutputsDone \/ NextLaw \/ LawsDone
  \/ Rehash \/ Rehashed \/ UseqClear

LEMMA NextSplits ==
  ASSUME Shape, Next
  PROVE  \/ \E n \in Node : Intern(n)
         \/ \E rt \in [Output -> 0 .. MaxNodes] : Collect(rt)
         \/ StillNodes
<1>1. CASE Make
  BY <1>1 DEF Make
<1>2. CASE Assign
  <2>1. PICK r \in Result : Collect([root EXCEPT ![at] = r])
    BY <1>2 DEF Assign
  <2>2. [root EXCEPT ![at] = r] \in [Output -> 0 .. MaxNodes]
    BY <2>1, ResultType DEF Shape
  <2> QED
    BY <2>1, <2>2
<1>3. CASE Restored
  BY <1>3 DEF Restored, Shape
<1> QED
  BY <1>1, <1>2, <1>3 DEF Next, StillNodes

LEMMA StillStep ==
  ASSUME PoolInv, StillNodes
  PROVE  PoolInv'
<1> USE SizeAssumption DEF PoolInv, Shape, RootsInside, Positions
<1>1. nodes' = nodes /\ InputsFirst' /\ Len(nodes) \in Nat
  BY DEF StillNodes, InstallLaw, BeginAssign, AssignFails, BeginDefState, DefState,
         DefStateFails, BeginChange, NextOutput, OutputsDone, NextLaw, LawsDone, Rehash,
         Rehashed, UseqClear, InputsFirst, Used
<1>2. CASE InstallLaw
  <2>1. PICK s \in Slot, r \in Result :
          /\ s =< slots + 1
          /\ law' = [law EXCEPT ![s] = r]
          /\ slots' = IF s > slots THEN s ELSE slots
    BY <1>2 DEF InstallLaw
  <2>2. r \in 0 .. MaxNodes /\ r =< Len(nodes)
    BY <2>1, ResultType
  <2> QED
    BY <1>1, <1>2, <2>1, <2>2 DEF InstallLaw, Slot
<1>3. CASE (\E o \in Output : BeginAssign(o)) \/ AssignFails
  <2>1. ASSUME NEW o \in Output, BeginAssign(o)
        PROVE  PoolInv'
    <3>1. o \in Nat /\ o >= 1
      BY DEF Output
    <3> QED
      BY <1>1, <2>1, <3>1 DEF BeginAssign
  <2>2. CASE AssignFails
    BY <1>1, <2>2 DEF AssignFails, Idle
  <2> QED
    BY <1>3, <2>1, <2>2
<1>4. CASE \E s \in Slot : BeginDefState(s)
  BY <1>1, <1>4 DEF BeginDefState, Slot
<1>5. CASE DefState
  <2>1. PICK r \in Result : law' = [law EXCEPT ![at] = r]
    BY <1>5 DEF DefState
  <2>2. r \in 0 .. MaxNodes /\ r =< Len(nodes)
    BY <2>1, ResultType
  <2>3. exec' \subseteq 1 .. MaxNodes
    BY <1>1, <1>5 DEF DefState, RebuildOrder, Live, Used
  <2>4. law' \in [Slot -> 0 .. MaxNodes]
    BY <2>1, <2>2
  <2>5. \A s \in 1 .. slots : law'[s] =< Len(nodes)
    BY <1>5, <2>1, <2>2 DEF DefState, Slot
  <2> QED
    BY <1>1, <1>5, <2>1, <2>2, <2>3, <2>4, <2>5 DEF DefState
<1>6. CASE DefStateFails
  BY <1>1, <1>6 DEF DefStateFails, Idle, Slot
<1>7. CASE BeginChange \/ OutputsDone
  <2>1. doing # "defstate" /\ doing' \in {"outputs", "laws"} /\ at' = 1
    BY <1>7 DEF BeginChange, OutputsDone
  <2>2. UNCHANGED <<table, root, law, slots, exec>>
    BY <1>7 DEF BeginChange, OutputsDone
  <2> QED
    BY <1>1, <2>1, <2>2
<1>8. CASE NextOutput
  <2>1. root' \in [Output -> 0 .. MaxNodes] /\ \A o \in Output : root'[o] =< Len(nodes)
    BY <1>8, ResultType DEF NextOutput
  <2> QED
    BY <1>1, <1>8, <2>1 DEF NextOutput
<1>9. CASE NextLaw
  <2>1. law' = law \/ \E r \in Result : law' = [law EXCEPT ![at] = r]
    BY <1>9 DEF NextLaw
  <2>2. law' \in [Slot -> 0 .. MaxNodes]
    BY <2>1, ResultType
  <2>3. ASSUME NEW s \in 1 .. slots
        PROVE  law'[s] =< Len(nodes)
    <3>1. s \in Slot
      BY DEF Slot
    <3>2. law[s] =< Len(nodes)
      BY <1>9 DEF NextLaw
    <3>3. law'[s] = law[s] \/ law'[s] \in Result
      BY <2>1, <3>1
    <3> QED
      BY <3>2, <3>3, ResultType
  <2> QED
    BY <1>1, <1>9, <2>2, <2>3 DEF NextLaw
<1>10. CASE LawsDone \/ Rehashed
  <2>1. exec' \subseteq 1 .. MaxNodes
    BY <1>1, <1>10 DEF LawsDone, Rehashed, RebuildOrder, Live, Used
  <2> QED
    BY <1>1, <1>10, <2>1 DEF LawsDone, Rehashed, RebuildOrder, Idle
<1>11. CASE Rehash
  <2>1. table' \in [Place -> 0 .. MaxNodes]
    BY <1>1, <1>11 DEF Rehash
  <2> QED
    BY <1>1, <1>11, <2>1 DEF Rehash
<1>12. CASE UseqClear
  BY <1>1, <1>12 DEF UseqClear
<1> QED
  BY <1>2, <1>3, <1>4, <1>5, <1>6, <1>7, <1>8, <1>9, <1>10, <1>11, <1>12 DEF StillNodes

LEMMA PoolStep == PoolInv /\ [Next]_vars => PoolInv'
<1> SUFFICES ASSUME PoolInv, [Next]_vars
             PROVE  PoolInv'
  OBVIOUS
<1>1. CASE Next
  BY <1>1, NextSplits, InternStep, CollectStep, StillStep DEF PoolInv
<1>2. CASE UNCHANGED vars
  BY <1>2 DEF vars, PoolInv, Shape, InputsFirst, RootsInside, Positions, Used
<1> QED
  BY <1>1, <1>2

LEMMA PoolInit == Init => PoolInv
<1> SUFFICES ASSUME Init
             PROVE  PoolInv
  OBVIOUS
<1>1. nodes \in Seq(Node) /\ Len(nodes) = 0
  BY DEF Init
<1> QED
  BY <1>1, SizeAssumption
  DEF Init, PoolInv, Shape, InputsFirst, RootsInside, Positions, Used

(* Every variable keeps its type, and the node array never overflows.      *)
THEOREM PoolTypeCorrect == Spec => []TypeOK
<1>1. Init => PoolInv /\ {full, torn} \subseteq BOOLEAN
  BY PoolInit DEF Init
<1>2. (PoolInv /\ {full, torn} \subseteq BOOLEAN) /\ [Next]_vars
        => (PoolInv /\ {full, torn} \subseteq BOOLEAN)'
  BY PoolStep, FlagsStep
<1>3. PoolInv /\ {full, torn} \subseteq BOOLEAN => TypeOK
  BY DEF PoolInv, TypeOK
<1> QED
  BY <1>1, <1>2, <1>3, PTL DEF Spec

(* A forward scan of the nodes is always a topological order.              *)
THEOREM ScanIsTopological == Spec => []InputsFirst
  BY PoolInit, PoolStep, PTL DEF Spec, PoolInv

-----------------------------------------------------------------------------
(* The order.  A form that makes it stale computes it again before a tick. *)
OrderInv == PoolInv /\ OrderClosed /\ LawsFresh

LEMMA NewOrder ==
  ASSUME PoolInv, doing # "defstate", RebuildOrder(root, law, slots),
         UNCHANGED <<nodes, root, law, slots>>
  PROVE  OrderClosed' /\ LawsFresh'
<1>1. /\ exec' \subseteq Used'
      /\ \A i \in exec' : Inputs(nodes'[i]) \subseteq exec'
      /\ \A i \in Roots(root, law, slots) : i \in Used => i \in exec'
  BY RebuiltOrder DEF PoolInv
<1>2. \A o \in Output : root'[o] # 0 => root'[o] \in exec'
  BY <1>1 DEF PoolInv, RootsInside, Shape, Roots, Used
<1>3. ASSUME NEW s \in 1 .. slots, law[s] # 0
      PROVE  law[s] \in exec'
  <2>1. s \in Slot
    BY SizeAssumption DEF PoolInv, Shape, Slot
  <2>2. law[s] \in Used /\ law[s] \in Roots(root, law, slots)
    BY <1>3, <2>1, SizeAssumption DEF PoolInv, RootsInside, Shape, Roots, Used
  <2> QED
    BY <1>1, <2>2
<1> QED
  BY <1>1, <1>2, <1>3 DEF OrderClosed, LawsFresh

LEMMA OrderStep == OrderInv /\ [Next]_vars => OrderInv'
<1> SUFFICES ASSUME OrderInv, [Next]_vars
             PROVE  OrderInv'
  OBVIOUS
<1> USE DEF OrderInv
<1>1. PoolInv'
  BY PoolStep
<1>2. ASSUME NEW n \in Node, Intern(n)
      PROVE  OrderClosed' /\ LawsFresh'
  <2>1. \A i \in Used : i \in Used' /\ nodes'[i] = nodes[i]
    BY <1>2, InternGrows DEF PoolInv
  <2>2. UNCHANGED <<root, exec, doing>> /\ doing # "nothing"
    BY <1>2 DEF Intern, Compiling
  <2> QED
    BY <2>1, <2>2 DEF OrderClosed, LawsFresh
<1>3. ASSUME NEW rt, Collect(rt)
      PROVE  OrderClosed' /\ LawsFresh'
  BY <1>3 DEF Collect, OrderClosed, LawsFresh
<1>4. ASSUME StillNodes
      PROVE  OrderClosed' /\ LawsFresh'
  <2>1. CASE InstallLaw \/ (\E o \in Output : BeginAssign(o)) \/ (\E s \in Slot : BeginDefState(s))
    <3>1. /\ UNCHANGED <<nodes, root, exec>> /\ doing' # "nothing"
          /\ doing' \in {"assign", "defstate"} => doing \in {"nothing", "assign", "defstate"}
      BY <2>1 DEF InstallLaw, Compiling, BeginAssign, BeginDefState
    <3> QED
      BY <3>1 DEF OrderClosed, LawsFresh, Used
  <2>2. CASE AssignFails \/ DefStateFails
    <3>1. UNCHANGED <<nodes, root, exec>> /\ torn' /\ doing \in {"assign", "defstate"}
      BY <2>2 DEF AssignFails, DefStateFails
    <3> QED
      BY <3>1 DEF OrderClosed, LawsFresh, Used
  <2>3. CASE DefState \/ BeginChange \/ NextOutput \/ OutputsDone \/ NextLaw \/ Rehash
    <3>1. doing' \in {"outputs", "restore", "laws", "rehash"}
      BY <2>3 DEF DefState, BeginChange, NextOutput, OutputsDone, NextLaw, Rehash
    <3> QED
      BY <3>1 DEF OrderClosed, LawsFresh
  <2>4. CASE LawsDone \/ Rehashed
    BY <2>4, NewOrder DEF LawsDone, Rehashed
  <2>5. CASE UseqClear
    BY <2>5 DEF UseqClear, OrderClosed, LawsFresh, Used
  <2> QED
    BY <1>4, <2>1, <2>2, <2>3, <2>4, <2>5 DEF StillNodes
<1>5. CASE UNCHANGED vars
  <2>1. OrderClosed'
    BY <1>5 DEF vars, OrderClosed, Used
  <2>2. LawsFresh'
    BY <1>5, Zenon DEF vars, LawsFresh
  <2> QED
    BY <1>1, <2>1, <2>2
<1> QED
  BY <1>1, <1>2, <1>3, <1>4, <1>5, NextSplits DEF PoolInv

(* Every tick drives outputs and states with values it has just computed,  *)
(* from inputs it has computed before, whatever was evaluated since the    *)
(* last one; only a text that failed can leave a law out.                  *)
THEOREM TicksAreFresh == Spec => []TickIsFresh
<1>1. Init => OrderInv
  BY PoolInit DEF Init, OrderInv, OrderClosed, LawsFresh
<1>2. OrderInv => TickIsFresh
  BY DEF OrderInv, OrderClosed, LawsFresh, TickIsFresh
<1> QED
  BY <1>1, <1>2, OrderStep, PTL DEF Spec

-----------------------------------------------------------------------------
(* The table.  The probes for a node visit every place, so that a node     *)
(* always has one while the table has an empty place.                      *)
LEMMA ProbesVisitAll ==
  ASSUME NEW n \in Node
  PROVE  /\ \A q \in Place : Probe(n, q) \in Place
         /\ \A p \in Place : \E q \in Place : Probe(n, q) = p
<1> DEFINE h == Home(n)
<1>1. h \in Nat /\ h < TableSize
  BY HomeAssumption, SizeAssumption DEF Place
<1>2. \A q \in Place : /\ h + q < TableSize => Probe(n, q) = h + q
                       /\ h + q >= TableSize => Probe(n, q) = h + q - TableSize
  BY <1>1, SizeAssumption DEF Probe, Place
<1> HIDE DEF h
<1>3. \A q \in Place : Probe(n, q) \in Place
  BY <1>1, <1>2, SizeAssumption DEF Place
<1>4. ASSUME NEW p \in Place
      PROVE  \E q \in Place : Probe(n, q) = p
  <2>1. CASE p >= h
    <3>1. p - h \in Place /\ h + (p - h) = p /\ p < TableSize
      BY <1>1, <2>1, SizeAssumption DEF Place
    <3> QED
      BY <1>2, <3>1
  <2>2. CASE p < h
    <3>1. PICK q \in Place : q = p - h + TableSize
      BY <1>1, <2>2, SizeAssumption DEF Place
    <3>2. h + q >= TableSize /\ h + q - TableSize = p
      BY <1>1, <3>1, SizeAssumption DEF Place
    <3> QED
      BY <1>2, <3>2
  <2> QED
    BY <1>1, <2>1, <2>2, SizeAssumption DEF Place
<1> QED
  BY <1>3, <1>4

LEMMA FreePlace ==
  ASSUME Shape, NEW k \in Nat, k < TableSize,
         \A p \in Place : table[p] # 0 => table[p] \in 1 .. k,
         \A p, r \in Place : table[p] = table[r] /\ table[p] # 0 => p = r
  PROVE  \E p \in Place : table[p] = 0
<1> SUFFICES ASSUME \A p \in Place : table[p] # 0
             PROVE  FALSE
  OBVIOUS
<1>1. table \in [Place -> 1 .. k]
  BY DEF Shape
<1>2. IsFiniteSet(Place) /\ Cardinality(Place) = TableSize
  <2>1. 0 \in Int /\ TableSize - 1 \in Int /\ ~(0 > TableSize - 1)
    BY SizeAssumption
  <2> QED
    BY <2>1, FS_Interval, SizeAssumption DEF Place
<1>3. IsFiniteSet(1 .. k) /\ Cardinality(1 .. k) = k
  <2>1. 1 \in Int /\ k \in Int
    OBVIOUS
  <2> QED
    BY <2>1, FS_Interval
<1>4. \E p, r \in Place : p # r /\ table[p] = table[r]
  BY <1>1, <1>2, <1>3, FS_PigeonHole
<1> QED
  BY <1>4

LEMMA HasFirst ==
  ASSUME NEW Q \in SUBSET Place, Q # {}
  PROVE  \E q \in Q : FirstOf(Q) = {q} /\ \A r \in Q : q =< r
<1>1. Q \in SUBSET Nat
  BY DEF Place
<1>2. PICK q \in Q : \A r \in Q : <<r, q>> \notin OpToRel(<, Nat)
  BY <1>1, WFMin, NatLessThanWellFounded, Zenon
<1>3. \A r \in Q : ~(r < q)
  BY <1>1, <1>2, Zenon DEF OpToRel
<1>4. \A r \in Q : q =< r
  BY <1>1, <1>3
<1>5. \A r \in FirstOf(Q) : r = q
  BY <1>1, <1>4 DEF FirstOf
<1>6. q \in FirstOf(Q)
  BY <1>4 DEF FirstOf
<1>7. FirstOf(Q) = {q}
  BY <1>5, <1>6
<1> QED
  BY <1>4, <1>7

(* A node that is put where its search stops is found there.               *)
LEMMA Inserted ==
  ASSUME Shape, NEW n \in Node, NEW v \in Nat, v # 0, NEW Q \in SUBSET Place, Q # {},
         \A q \in FirstOf(Q) : table[Probe(n, q)] = 0,
         \A q \in Place : table[Probe(n, q)] = 0 => q \in Q,
         table' = [p \in Place |-> IF \E q \in FirstOf(Q) : p = Probe(n, q) THEN v ELSE table[p]]
  PROVE  \E e \in Place : /\ table[e] = 0
                          /\ table' = [table EXCEPT ![e] = v]
                          /\ Findable(table', n, v)
<1>1. PICK q \in Q : FirstOf(Q) = {q} /\ \A r \in Q : q =< r
  BY HasFirst
<1> DEFINE e == Probe(n, q)
<1>2. e \in Place /\ \A r \in Place : Probe(n, r) \in Place
  BY <1>1, ProbesVisitAll
<1>3. table[e] = 0 /\ table' = [table EXCEPT ![e] = v]
  BY <1>1, <1>2 DEF Shape
<1>4. \A r \in Place : r < q => table[Probe(n, r)] # 0
  BY <1>1 DEF Place
<1>5. \A r \in Place : r < q => table'[Probe(n, r)] # 0
  BY <1>2, <1>3, <1>4 DEF Shape
<1>6. table'[e] = v
  BY <1>2, <1>3 DEF Shape
<1>7. Findable(table', n, v)
  BY <1>1, <1>5, <1>6 DEF Findable
<1> QED
  BY <1>2, <1>3, <1>7

(* And the nodes that were found before are still found.                   *)
LEMMA StillFound ==
  ASSUME Shape, NEW e \in Place, table[e] = 0, NEW v, v # 0, table' = [table EXCEPT ![e] = v],
         NEW n \in Node, NEW i, i # 0, Findable(table, n, i)
  PROVE  Findable(table', n, i)
<1>1. PICK q \in Place : /\ table[Probe(n, q)] = i
                         /\ \A r \in Place : r < q => table[Probe(n, r)] # 0
  BY DEF Findable
<1>2. \A r \in Place : Probe(n, r) \in Place
  BY ProbesVisitAll
<1>3. \A p \in Place : table[p] # 0 => table'[p] = table[p]
  BY DEF Shape
<1> QED
  BY <1>1, <1>2, <1>3 DEF Findable

(* So a table that holds the nodes of T, each once and each where it is    *)
(* found, holds one more after a search and an insertion.                  *)
LEMMA OneMore ==
  ASSUME Shape, NEW T \in SUBSET Used,
         \A i \in T : Findable(table, nodes[i], i),
         \A p \in Place : table[p] # 0 => table[p] \in T,
         \A p, r \in Place : table[p] = table[r] /\ table[p] # 0 => p = r,
         NEW n \in Node, NEW v \in Nat, v # 0, v \notin T, NEW Q \in SUBSET Place, Q # {},
         \A q \in FirstOf(Q) : table[Probe(n, q)] = 0,
         \A q \in Place : table[Probe(n, q)] = 0 => q \in Q,
         table' = [p \in Place |-> IF \E q \in FirstOf(Q) : p = Probe(n, q) THEN v ELSE table[p]]
  PROVE  /\ \A i \in T : Findable(table', nodes[i], i)
         /\ Findable(table', n, v)
         /\ \A p \in Place : table'[p] # 0 => table'[p] \in T \cup {v}
         /\ \A p, r \in Place : table'[p] = table'[r] /\ table'[p] # 0 => p = r
<1>1. PICK e \in Place : /\ table[e] = 0
                         /\ table' = [table EXCEPT ![e] = v]
                         /\ Findable(table', n, v)
  BY Inserted
<1>2. \A i \in T : i # 0 /\ nodes[i] \in Node
  BY DEF Shape, Used
<1>3. \A i \in T : Findable(table', nodes[i], i)
  BY <1>1, <1>2, StillFound
<1>4. \A p \in Place : table'[p] = IF p = e THEN v ELSE table[p]
  BY <1>1 DEF Shape
<1> QED
  BY <1>1, <1>3, <1>4

LEMMA RoomToProbe ==
  ASSUME Shape, NEW k \in Nat, k < TableSize, NEW n \in Node,
         \A p \in Place : table[p] # 0 => table[p] \in 1 .. k,
         \A p, r \in Place : table[p] = table[r] /\ table[p] # 0 => p = r
  PROVE  \E q \in Place : table[Probe(n, q)] = 0
<1>1. PICK p \in Place : table[p] = 0
  BY FreePlace
<1> QED
  BY <1>1, ProbesVisitAll

-----------------------------------------------------------------------------
(* The nodes are all different, because the search finds those there are.  *)
HashInv == PoolInv /\ TableOK /\ NothingTwice

LEMMA NoTwin ==
  ASSUME HashInv, NEW n \in Node, Intern(n), NEW i \in Used, nodes[i] = n
  PROVE  FALSE
<1>1. Tabled = Used /\ i # 0
  BY DEF Tabled, Intern, Compiling, Used
<1>2. PICK q \in Place : /\ table[Probe(n, q)] = i
                         /\ \A r \in Place : r < q => table[Probe(n, r)] # 0
  BY <1>1 DEF HashInv, TableOK, Findable
<1>3. q \in Stops(n) /\ Stops(n) \in SUBSET Place
  BY <1>2 DEF Stops
<1>4. PICK r \in Stops(n) : FirstOf(Stops(n)) = {r} /\ r =< q
  BY <1>3, HasFirst
<1>5. table[Probe(n, r)] = 0
  BY <1>4 DEF Intern
<1>6. r \in Place /\ r # q
  BY <1>1, <1>2, <1>3, <1>5
<1>7. r < q
  BY <1>4, <1>6 DEF Place
<1> QED
  BY <1>2, <1>5, <1>6, <1>7

LEMMA InternKeepsTable ==
  ASSUME HashInv, NEW n \in Node, Intern(n)
  PROVE  TableOK' /\ NothingTwice'
<1>1. Shape /\ Len(nodes) \in Nat /\ Tabled = Used /\ Tabled' = Used'
  BY DEF HashInv, PoolInv, Shape, Tabled, Intern, Compiling
<1>2. CASE Room
  <2> DEFINE v == Len(nodes) + 1
             Q == Stops(n)
  <2>1. /\ Used' = Used \cup {v} /\ v \notin Used /\ v \in Nat /\ v # 0
        /\ \A i \in Used : nodes'[i] = nodes[i]
        /\ nodes'[v] = n
    <3>1. nodes' = Append(nodes, n) /\ nodes \in Seq(Node) /\ Len(nodes) \in Nat
      BY <1>1, <1>2 DEF Intern, Shape
    <3>2. Len(nodes') = v /\ nodes'[v] = n /\ \A i \in 1 .. Len(nodes) : nodes'[i] = nodes[i]
      BY <3>1
    <3>3. 1 .. v = (1 .. Len(nodes)) \cup {v} /\ v \notin 1 .. Len(nodes) /\ v \in Nat /\ v # 0
      BY <3>1
    <3> QED
      BY <3>1, <3>2, <3>3 DEF Used
  <2>2. \A p \in Place : table[p] # 0 => table[p] \in Used
    BY <1>1 DEF HashInv, TableOK
  <2>3. \A p, r \in Place : table[p] = table[r] /\ table[p] # 0 => p = r
    BY DEF HashInv, TableOK
  <2>4. Q \in SUBSET Place /\ \A q \in Place : table[Probe(n, q)] = 0 => q \in Q
    BY DEF Stops
  <2>5. Q # {}
    <3>1. Len(nodes) < TableSize
      BY <1>1, <1>2, SizeAssumption DEF Room
    <3>2. \E q \in Place : table[Probe(n, q)] = 0
      BY <1>1, <2>2, <2>3, <3>1, RoomToProbe DEF Used
    <3> QED
      BY <2>4, <3>2
  <2>6. \A q \in FirstOf(Q) : table[Probe(n, q)] = 0
    BY DEF Intern
  <2>7. table' = [p \in Place |-> IF \E q \in FirstOf(Q) : p = Probe(n, q)
                                  THEN v ELSE table[p]]
    BY <1>2 DEF Intern
  <2>8. \A i \in Used : Findable(table, nodes[i], i)
    BY <1>1 DEF HashInv, TableOK
  <2> HIDE DEF v, Q
  <2>9. /\ \A i \in Used : Findable(table', nodes[i], i)
        /\ Findable(table', n, v)
        /\ \A p \in Place : table'[p] # 0 => table'[p] \in Used \cup {v}
        /\ \A p, r \in Place : table'[p] = table'[r] /\ table'[p] # 0 => p = r
    <3>1. PICK T \in SUBSET Used : T = Used
      OBVIOUS
    <3>2. v \in Nat /\ v # 0 /\ v \notin T /\ Shape
      BY <1>1, <2>1, <3>1
    <3>3. /\ \A p \in Place : table[p] # 0 => table[p] \in T
          /\ \A i \in T : Findable(table, nodes[i], i)
      BY <2>2, <2>8, <3>1
    <3>4. /\ \A i \in T : Findable(table', nodes[i], i)
          /\ Findable(table', n, v)
          /\ \A p \in Place : table'[p] # 0 => table'[p] \in T \cup {v}
          /\ \A p, r \in Place : table'[p] = table'[r] /\ table'[p] # 0 => p = r
      BY <2>3, <2>4, <2>5, <2>6, <2>7, <3>2, <3>3, OneMore
    <3> QED
      BY <3>1, <3>4
  <2>10. TableOK'
    BY <1>1, <2>1, <2>9 DEF TableOK
  <2>11. NothingTwice'
    <3>1. \A i \in Used : nodes[i] # n
      BY NoTwin
    <3>2. \A i, j \in Used : nodes[i] = nodes[j] => i = j
      BY DEF HashInv, NothingTwice
    <3>3. ASSUME NEW i \in Used', NEW j \in Used', nodes'[i] = nodes'[j]
          PROVE  i = j
      <4>1. /\ i \in Used \/ i = v
            /\ j \in Used \/ j = v
        BY <2>1
      <4> QED
        BY <2>1, <3>1, <3>2, <3>3, <4>1
    <3> QED
      BY <3>3 DEF NothingTwice
  <2> QED
    BY <2>10, <2>11
<1>3. CASE ~Room
  <2>1. nodes' = nodes /\ table' = table /\ Used' = Used
    BY <1>3 DEF Intern, Used
  <2> QED
    BY <1>1, <2>1 DEF HashInv, TableOK, NothingTwice
<1> QED
  BY <1>2, <1>3

LEMMA NodeParts ==
  ASSUME NEW n \in Node, NEW o \in Node, n.op = o.op, n.a = o.a, n.b = o.b
  PROVE  n = o
<1>1. n = [op |-> n.op, a |-> n.a, b |-> n.b] /\ o = [op |-> o.op, a |-> o.a, b |-> o.b]
  BY DEF Node
<1> QED
  BY <1>1

LEMMA CollectKeepsTable ==
  ASSUME HashInv, NEW rt, Collect(rt)
  PROVE  TableOK' /\ NothingTwice'
<1>1. TableOK'
  <2>1. Tabled' = {}
    <3>1. doing' = "rehash" /\ at' = 1
      BY DEF Collect
    <3> QED
      BY <3>1 DEF Tabled, Used
  <2>2. table' = [p \in Place |-> 0]
    BY DEF Collect
  <2> QED
    BY <2>1, <2>2 DEF TableOK
<1>2. PICK m \in 0 .. Len(nodes) : \E f \in Moves(Live(rt, law, slots), m) : CollectedBy(rt, m, f)
  BY Collected DEF HashInv, PoolInv
<1>3. PICK f \in Moves(Live(rt, law, slots), m) : CollectedBy(rt, m, f)
  BY <1>2
<1> DEFINE live == Live(rt, law, slots)
<1>4. f \in [live -> 1 .. m] /\ live \subseteq Used
  BY <1>3 DEF Moves, Live
<1>5. \A i, j \in live : f[i] = f[j] => i = j
  <2>1. \A i, j \in live : i \in Nat /\ j \in Nat /\ f[i] \in Nat /\ f[j] \in Nat
    BY <1>4 DEF Used
  <2>2. \A i, j \in live : i < j => f[i] < f[j]
    BY <1>3 DEF Moves
  <2> QED
    BY <2>1, <2>2
<1>6. \A i, j \in live \cup {0} : Moved(f, i) = Moved(f, j) => i = j
  BY <1>4, <1>5 DEF Moved, Used
<1>7. NothingTwice'
  <2> SUFFICES ASSUME NEW k \in 1 .. m, NEW h \in 1 .. m, nodes'[k] = nodes'[h]
               PROVE  k = h
    BY <1>3 DEF CollectedBy, NothingTwice, Used
  <2>1. PICK i \in live : /\ f[i] = k
                          /\ nodes'[k] = MovedNode(f, nodes[i])
                          /\ \A j \in Inputs(nodes[i]) : j \in live
    BY <1>3 DEF CollectedBy
  <2>2. PICK j \in live : /\ f[j] = h
                          /\ nodes'[h] = MovedNode(f, nodes[j])
                          /\ \A g \in Inputs(nodes[j]) : g \in live
    BY <1>3 DEF CollectedBy
  <2>3. nodes[i] \in Node /\ nodes[j] \in Node
    BY <1>4, InputsUsed DEF HashInv, PoolInv
  <2>4. /\ nodes[i].a \in live \cup {0} /\ nodes[i].b \in live \cup {0}
        /\ nodes[j].a \in live \cup {0} /\ nodes[j].b \in live \cup {0}
    BY <2>1, <2>2 DEF Inputs
  <2>5. \A n \in Node : /\ MovedNode(f, n).op = n.op
                        /\ MovedNode(f, n).a = Moved(f, n.a)
                        /\ MovedNode(f, n).b = Moved(f, n.b)
    BY DEF MovedNode, Node
  <2>6. /\ nodes[i].op = nodes[j].op
        /\ Moved(f, nodes[i].a) = Moved(f, nodes[j].a)
        /\ Moved(f, nodes[i].b) = Moved(f, nodes[j].b)
    <3>1. MovedNode(f, nodes[i]) = MovedNode(f, nodes[j])
      BY <2>1, <2>2
    <3> QED
      BY <2>3, <2>5, <3>1
  <2>7. nodes[i] = nodes[j]
    BY <1>6, <2>3, <2>4, <2>6, NodeParts
  <2> QED
    BY <1>4, <2>1, <2>2, <2>7 DEF HashInv, NothingTwice
<1> QED
  BY <1>1, <1>7

LEMMA RehashKeepsTable ==
  ASSUME HashInv, Rehash
  PROVE  TableOK' /\ NothingTwice'
<1>1. /\ Shape /\ Len(nodes) \in Nat /\ at \in Used /\ at \in Nat /\ at # 0
      /\ nodes' = nodes /\ Used' = Used /\ nodes[at] \in Node
  BY DEF HashInv, PoolInv, Positions, Shape, Rehash, Used
<1>2. Tabled = {i \in Used : i < at} /\ Tabled' = Tabled \cup {at} /\ at \notin Tabled
  <2>1. doing = "rehash" /\ doing' = "rehash" /\ at' = at + 1
    BY DEF Rehash
  <2> QED
    BY <1>1, <2>1 DEF Tabled, Used
<1> DEFINE n == nodes[at]
           Q == EmptyProbes(n)
<1>3. Q \in SUBSET Place /\ \A q \in Place : table[Probe(n, q)] = 0 <=> q \in Q
  BY DEF EmptyProbes
<1>4. /\ \A p \in Place : table[p] # 0 => table[p] \in Tabled
      /\ \A p, r \in Place : table[p] = table[r] /\ table[p] # 0 => p = r
      /\ \A i \in Tabled : Findable(table, nodes[i], i)
  BY DEF HashInv, TableOK
<1>5. Q # {}
  <2>1. at - 1 \in Nat /\ at - 1 < TableSize /\ Tabled \subseteq 1 .. at - 1
    BY <1>1, <1>2, SizeAssumption DEF Shape, Used
  <2>2. \E q \in Place : table[Probe(n, q)] = 0
    BY <1>1, <1>4, <2>1, RoomToProbe
  <2> QED
    BY <1>3, <2>2
<1>6. \A q \in FirstOf(Q) : table[Probe(n, q)] = 0
  BY <1>3 DEF FirstOf
<1>7. table' = [p \in Place |-> IF \E q \in FirstOf(Q) : p = Probe(n, q) THEN at ELSE table[p]]
  BY DEF Rehash
<1>8. Tabled \in SUBSET Used
  BY <1>2
<1> HIDE DEF Q
<1>9. /\ \A i \in Tabled : Findable(table', nodes[i], i)
      /\ Findable(table', n, at)
      /\ \A p \in Place : table'[p] # 0 => table'[p] \in Tabled \cup {at}
      /\ \A p, r \in Place : table'[p] = table'[r] /\ table'[p] # 0 => p = r
  BY <1>1, <1>2, <1>3, <1>4, <1>5, <1>6, <1>7, <1>8, OneMore
<1>10. TableOK'
  BY <1>1, <1>2, <1>9 DEF TableOK
<1>11. NothingTwice'
  BY <1>1 DEF HashInv, NothingTwice
<1> QED
  BY <1>10, <1>11

LEMMA StillKeepsTable ==
  ASSUME HashInv, StillNodes \/ UNCHANGED vars
  PROVE  TableOK' /\ NothingTwice'
<1>1. CASE Rehash
  BY <1>1, RehashKeepsTable
<1>2. CASE Rehashed
  <2>1. Len(nodes) \in Nat /\ at \in Nat
    BY DEF HashInv, PoolInv, Shape
  <2>2. nodes' = nodes /\ table' = table /\ Tabled = Used /\ Tabled' = Used
    BY <1>2, <2>1 DEF Rehashed, Idle, Tabled, Used
  <2> QED
    BY <2>2 DEF HashInv, TableOK, NothingTwice, Used
<1>3. CASE ~Rehash /\ ~Rehashed
  <2>1. nodes' = nodes /\ table' = table
    BY <1>3
    DEF StillNodes, vars, InstallLaw, BeginAssign, AssignFails, BeginDefState, DefState,
        DefStateFails, BeginChange, NextOutput, OutputsDone, NextLaw, LawsDone, UseqClear
  <2>2. (doing' = doing /\ at' = at) \/ (doing # "rehash" /\ doing' # "rehash")
    BY <1>3
    DEF StillNodes, vars, InstallLaw, BeginAssign, AssignFails, BeginDefState, DefState,
        DefStateFails, BeginChange, NextOutput, OutputsDone, NextLaw, LawsDone, UseqClear, Idle
  <2>3. Tabled' = Tabled
    BY <2>1, <2>2 DEF Tabled, Used
  <2> QED
    BY <2>1, <2>3 DEF HashInv, TableOK, NothingTwice, Used
<1> QED
  BY <1>1, <1>2, <1>3

(* Whatever the hashes are, and even with as many nodes as places, a text  *)
(* that is spelled out again gets the nodes it had.                        *)
THEOREM SharesEverything == Spec => []NothingTwice
<1>1. Init => HashInv
  <2> SUFFICES ASSUME Init
               PROVE  HashInv
    OBVIOUS
  <2>1. Used = {} /\ Tabled = {} /\ table = [p \in Place |-> 0]
    BY DEF Init, Used, Tabled
  <2> QED
    BY <2>1, PoolInit DEF HashInv, TableOK, NothingTwice
<1>2. HashInv /\ [Next]_vars => HashInv'
  <2> SUFFICES ASSUME HashInv, [Next]_vars
               PROVE  HashInv'
    OBVIOUS
  <2>1. PoolInv'
    BY PoolStep DEF HashInv
  <2>2. Shape
    BY DEF HashInv, PoolInv
  <2>3. TableOK' /\ NothingTwice'
    BY <2>2, NextSplits, InternKeepsTable, CollectKeepsTable, StillKeepsTable
  <2> QED
    BY <2>1, <2>3 DEF HashInv
<1>3. HashInv => NothingTwice
  BY DEF HashInv
<1> QED
  BY <1>1, <1>2, <1>3, PTL DEF Spec

-----------------------------------------------------------------------------
(* What the nodes of nd mean, as one function: the one that Meaning takes. *)
MeansBy(m, nd, j) ==
  IF j \in 1 .. Len(nd) THEN <<nd[j].op, m[nd[j].a], m[nd[j].b]>> ELSE <<>>

MeaningsOf(nd) == CHOOSE m : m = [j \in 0 .. MaxNodes |-> MeansBy(m, nd, j)]

(* A sequence of nodes in which inputs come first.                         *)
Sorted(nd) ==
  /\ nd \in Seq(Node) /\ Len(nd) =< MaxNodes
  /\ \A i \in 1 .. Len(nd) : \A j \in Inputs(nd[i]) : j < i

LEMMA NodesAreSorted == Shape /\ InputsFirst => Sorted(nodes)
  BY DEF Shape, InputsFirst, Used, Sorted

LEMMA PoolIsSorted == PoolInv => Sorted(nodes)
  BY NodesAreSorted DEF PoolInv

LEMMA InputsBelow ==
  ASSUME NEW nd, Sorted(nd), NEW i \in 1 .. Len(nd)
  PROVE  nd[i].a \in 0 .. i - 1 /\ nd[i].b \in 0 .. i - 1
<1>1. nd[i] \in Node /\ i \in Nat /\ i >= 1
  BY DEF Sorted
<1>2. nd[i].a \in Nat /\ nd[i].b \in Nat
  BY <1>1, SizeAssumption DEF Node
<1>3. \A j \in {nd[i].a, nd[i].b} : j = 0 \/ j < i
  BY DEF Sorted, Inputs
<1> QED
  BY <1>1, <1>2, <1>3

(* The recursion of Meaning is over nodes that come before, so that there  *)
(* is a function that follows it.                                          *)
LEMMA MeaningsFollow ==
  ASSUME NEW nd, Sorted(nd)
  PROVE  MeaningsOf(nd) = [j \in 0 .. MaxNodes |-> MeansBy(MeaningsOf(nd), nd, j)]
<1> DEFINE Up(k, m) == m = [j \in 0 .. k |-> MeansBy(m, nd, j)]
           S == {k \in Nat : \E m : Up(k, m)}
<1>1. 0 \in S
  <2> DEFINE m == [j \in 0 .. 0 |-> <<>>]
  <2>1. \A j \in 0 .. 0 : MeansBy(m, nd, j) = <<>>
    BY DEF MeansBy
  <2>2. Up(0, m)
    BY <2>1
  <2> QED
    BY <2>2
<1>2. ASSUME NEW k \in 0 .. MaxNodes - 1, k \in S
      PROVE  k + 1 \in S
  <2>1. PICK m : Up(k, m)
    BY <1>2
  <2> DEFINE h == [j \in 0 .. k + 1 |-> IF j = k + 1 THEN MeansBy(m, nd, j) ELSE m[j]]
  <2>2. \A j \in 0 .. k : h[j] = m[j]
    BY SizeAssumption
  <2>3. \A j \in 0 .. k + 1 : h[j] = MeansBy(m, nd, j)
    <3>1. \A j \in 0 .. k : m[j] = MeansBy(m, nd, j)
      BY <2>1
    <3>2. \A j \in 0 .. k + 1 : j = k + 1 \/ j \in 0 .. k
      BY SizeAssumption
    <3> HIDE DEF Up
    <3> QED
      BY <3>1, <3>2
  <2>4. h = [j \in 0 .. k + 1 |-> h[j]]
    OBVIOUS
  <2> HIDE DEF h
  <2>5. \A j \in 0 .. k + 1 : MeansBy(m, nd, j) = MeansBy(h, nd, j)
    <3> SUFFICES ASSUME NEW j \in 0 .. k + 1, j \in 1 .. Len(nd)
                 PROVE  h[nd[j].a] = m[nd[j].a] /\ h[nd[j].b] = m[nd[j].b]
      BY DEF MeansBy
    <3>1. nd[j].a \in 0 .. j - 1 /\ nd[j].b \in 0 .. j - 1
      BY InputsBelow
    <3>2. \A x \in 0 .. j - 1 : x \in 0 .. k
      BY SizeAssumption
    <3> QED
      BY <2>2, <3>1, <3>2
  <2>6. Up(k + 1, h)
    BY <2>3, <2>4, <2>5
  <2>7. k + 1 \in Nat
    BY SizeAssumption
  <2> HIDE DEF Up
  <2> QED
    BY <2>6, <2>7
<1>3. MaxNodes \in S
  <2>1. MaxNodes \in 0 .. MaxNodes /\ MaxNodes \in Nat
    BY SizeAssumption
  <2> HIDE DEF S
  <2>2. 0 .. MaxNodes \subseteq S
    BY <1>1, <1>2, <2>1, Reached
  <2> QED
    BY <2>1, <2>2
<1>4. \E m : m = [j \in 0 .. MaxNodes |-> MeansBy(m, nd, j)]
  BY <1>3
<1> QED
  BY <1>4, Zenon DEF MeaningsOf

LEMMA MeaningOfNode ==
  ASSUME NEW nd, Sorted(nd)
  PROVE  /\ \A i \in 1 .. Len(nd) :
              MeaningsOf(nd)[i] = <<nd[i].op, MeaningsOf(nd)[nd[i].a], MeaningsOf(nd)[nd[i].b]>>
         /\ MeaningsOf(nd)[0] = <<>>
<1> DEFINE m == MeaningsOf(nd)
<1>1. m = [j \in 0 .. MaxNodes |-> MeansBy(m, nd, j)]
  BY MeaningsFollow
<1> HIDE DEF m
<1>2. \A j \in 0 .. MaxNodes : m[j] = MeansBy(m, nd, j)
  BY <1>1
<1>3. Len(nd) \in Nat /\ \A i \in 1 .. Len(nd) : i \in 0 .. MaxNodes
  BY SizeAssumption DEF Sorted
<1>4. \A i \in 1 .. Len(nd) : m[i] = <<nd[i].op, m[nd[i].a], m[nd[i].b]>>
  BY <1>2, <1>3 DEF MeansBy
<1>5. m[0] = <<>>
  <2>1. 0 \in 0 .. MaxNodes /\ 0 \notin 1 .. Len(nd)
    BY SizeAssumption
  <2> QED
    BY <1>2, <2>1 DEF MeansBy
<1> QED
  BY <1>4, <1>5 DEF m

(* Nodes of D in nd that f takes to nodes of ne with the same operation    *)
(* and the inputs moved alike mean what they meant.                        *)
Follower(f, D, nd, ne, i) ==
  /\ f[i] \in 1 .. Len(ne)
  /\ ne[f[i]].op = nd[i].op
  /\ \/ nd[i].a = 0 /\ ne[f[i]].a = 0
     \/ nd[i].a \in D /\ ne[f[i]].a = f[nd[i].a]
  /\ \/ nd[i].b = 0 /\ ne[f[i]].b = 0
     \/ nd[i].b \in D /\ ne[f[i]].b = f[nd[i].b]

LEMMA SameMeaning ==
  ASSUME NEW nd, Sorted(nd), NEW ne, Sorted(ne), NEW D \in SUBSET (1 .. Len(nd)), NEW f,
         \A i \in D : Follower(f, D, nd, ne, i)
  PROVE  \A i \in D : MeaningsOf(ne)[f[i]] = MeaningsOf(nd)[i]
<1> DEFINE T == {i \in D : MeaningsOf(ne)[f[i]] # MeaningsOf(nd)[i]}
<1> SUFFICES ASSUME T # {} PROVE FALSE
  OBVIOUS
<1>1. PICK i \in T : \A j \in T : ~(j < i)
  <2>1. T \in SUBSET Nat
    <3>1. 1 .. Len(nd) \subseteq Nat
      BY DEF Sorted
    <3>2. T \subseteq D
      OBVIOUS
    <3> HIDE DEF T
    <3> QED
      BY <3>1, <3>2
  <2> HIDE DEF T
  <2> QED
    BY <2>1, LeastOf
<1>2. i \in D /\ i \in 1 .. Len(nd) /\ MeaningsOf(ne)[f[i]] # MeaningsOf(nd)[i]
  BY <1>1
<1>3. Follower(f, D, nd, ne, i)
  BY <1>2
<1>4. MeaningsOf(nd)[0] = <<>> /\ MeaningsOf(ne)[0] = <<>>
  BY MeaningOfNode
<1>5. \A x \in D : x < i => MeaningsOf(ne)[f[x]] = MeaningsOf(nd)[x]
  BY <1>1
<1>6. \A x \in {nd[i].a, nd[i].b} : x < i
  BY <1>2, InputsBelow
<1> HIDE DEF T
<1>7. MeaningsOf(ne)[ne[f[i]].a] = MeaningsOf(nd)[nd[i].a]
  BY <1>3, <1>4, <1>5, <1>6 DEF Follower
<1>8. MeaningsOf(ne)[ne[f[i]].b] = MeaningsOf(nd)[nd[i].b]
  BY <1>3, <1>4, <1>5, <1>6 DEF Follower
<1>9. MeaningsOf(nd)[i] = <<nd[i].op, MeaningsOf(nd)[nd[i].a], MeaningsOf(nd)[nd[i].b]>>
  BY <1>2, MeaningOfNode
<1>10. MeaningsOf(ne)[f[i]]
         = <<ne[f[i]].op, MeaningsOf(ne)[ne[f[i]].a], MeaningsOf(ne)[ne[f[i]].b]>>
  BY <1>3, MeaningOfNode DEF Follower
<1> QED
  BY <1>2, <1>3, <1>7, <1>8, <1>9, <1>10 DEF Follower

-----------------------------------------------------------------------------
LEMMA StillMeans ==
  ASSUME nodes' = nodes
  PROVE  \A i : Meaning(i)' = Meaning(i)
  BY DEF Meaning, Used

(* Interning adds a node, and the others mean what they meant.             *)
LEMMA InternMeans ==
  ASSUME PoolInv, NEW n \in Node, Intern(n), NEW i \in 0 .. Len(nodes)
  PROVE  MeaningsOf(nodes')[i] = MeaningsOf(nodes)[i]
<1>1. Sorted(nodes)
  BY NodesAreSorted DEF PoolInv
<1>2. /\ Sorted(nodes') /\ Len(nodes) \in Nat /\ Len(nodes') \in Nat
      /\ \A j \in Used : j \in Used' /\ nodes'[j] = nodes[j]
  BY InternGrows DEF PoolInv, Shape, Sorted, InputsFirst, Used
<1> DEFINE f == [j \in Used |-> j]
<1>3. \A j \in Used : Follower(f, Used, nodes, nodes', j)
  <2> SUFFICES ASSUME NEW j \in Used
               PROVE  Follower(f, Used, nodes, nodes', j)
    OBVIOUS
  <2>1. nodes[j].a \in 0 .. j - 1 /\ nodes[j].b \in 0 .. j - 1
    BY <1>1, InputsBelow DEF Used
  <2>2. \A x \in 0 .. j - 1 : x = 0 \/ (x \in Used /\ f[x] = x)
    BY <1>2 DEF Used
  <2>3. f[j] = j /\ j \in 1 .. Len(nodes') /\ nodes'[j] = nodes[j]
    BY <1>2 DEF Used
  <2> HIDE DEF f
  <2> QED
    BY <2>1, <2>2, <2>3 DEF Follower
<1> HIDE DEF f
<1>4. \A j \in Used : MeaningsOf(nodes')[f[j]] = MeaningsOf(nodes)[j]
  <2>1. Used \in SUBSET (1 .. Len(nodes))
    BY DEF Used
  <2> QED
    BY <1>1, <1>2, <1>3, <2>1, SameMeaning
<1>5. CASE i = 0
  BY <1>1, <1>2, <1>5, MeaningOfNode
<1>6. CASE i # 0
  BY <1>2, <1>4, <1>6 DEF f, Used
<1> QED
  BY <1>5, <1>6

(* Collecting moves a live node, and takes its meaning along.              *)
LEMMA CollectMeans ==
  ASSUME PoolInv, NEW rt \in [Output -> 0 .. MaxNodes], Collect(rt)
  PROVE  \E f : /\ root' = [o \in Output |-> Moved(f, rt[o])]
                /\ law' = [s \in Slot |-> IF s =< slots THEN Moved(f, law[s]) ELSE law[s]]
                /\ \A i \in Live(rt, law, slots) \cup {0} :
                     MeaningsOf(nodes')[Moved(f, i)] = MeaningsOf(nodes)[i]
<1>1. PICK m \in 0 .. Len(nodes) : \E f \in Moves(Live(rt, law, slots), m) : CollectedBy(rt, m, f)
  BY Collected DEF PoolInv
<1>2. PICK f \in Moves(Live(rt, law, slots), m) : CollectedBy(rt, m, f)
  BY <1>1
<1> DEFINE live == Live(rt, law, slots)
<1>3. f \in [live -> 1 .. m] /\ live \in SUBSET (1 .. Len(nodes)) /\ m \in Nat
  <2>1. Len(nodes) \in Nat /\ m \in Nat
    BY <1>1 DEF PoolInv, Shape
  <2>2. f \in [live -> 1 .. m]
    BY <1>2 DEF Moves
  <2>3. live \in SUBSET (1 .. Len(nodes))
    BY DEF Live, Used
  <2> QED
    BY <2>1, <2>2, <2>3
<1>4. \A i, j \in live : f[i] = f[j] => i = j
  <2>1. \A i, j \in live : i \in Nat /\ j \in Nat /\ f[i] \in Nat /\ f[j] \in Nat
    BY <1>3 DEF PoolInv, Shape
  <2>2. \A i, j \in live : i < j => f[i] < f[j]
    BY <1>2 DEF Moves
  <2> QED
    BY <2>1, <2>2
<1>5. Sorted(nodes) /\ Sorted(nodes')
  <2>1. Sorted(nodes)
    BY PoolIsSorted
  <2>2. PoolInv' => Sorted(nodes)'
    BY PoolIsSorted, PTL
  <2>3. PoolInv'
    BY <1>2, CollectStep
  <2> QED
    BY <2>1, <2>2, <2>3 DEF Sorted
<1>6. ASSUME NEW i \in live
      PROVE  Follower(f, live, nodes, nodes', i)
  <2>1. f[i] \in 1 .. m /\ Len(nodes') = m
    BY <1>2, <1>3 DEF CollectedBy
  <2>2. /\ nodes'[f[i]] = MovedNode(f, nodes[i])
        /\ \A j \in Inputs(nodes[i]) : j \in live
    <3>1. PICK j \in live : /\ f[j] = f[i]
                            /\ nodes'[f[i]] = MovedNode(f, nodes[j])
                            /\ \A h \in Inputs(nodes[j]) : h \in live
      BY <1>2, <2>1 DEF CollectedBy
    <3> QED
      BY <1>4, <3>1
  <2>3. nodes[i] \in Node
    BY <1>3, <1>5 DEF Sorted
  <2>4. /\ nodes'[f[i]].op = nodes[i].op
        /\ nodes'[f[i]].a = Moved(f, nodes[i].a)
        /\ nodes'[f[i]].b = Moved(f, nodes[i].b)
    BY <2>2, <2>3 DEF MovedNode, Node
  <2>5. Moved(f, 0) = 0 /\ \A j \in live : Moved(f, j) = f[j]
    BY <1>3 DEF Moved
  <2>6. nodes[i].a \in live \cup {0} /\ nodes[i].b \in live \cup {0}
    BY <2>2 DEF Inputs
  <2> HIDE DEF live
  <2> QED
    BY <2>1, <2>4, <2>5, <2>6 DEF Follower
<1>7. \A i \in live : MeaningsOf(nodes')[f[i]] = MeaningsOf(nodes)[i]
  <2> HIDE DEF live
  <2> QED
    BY <1>3, <1>5, <1>6, SameMeaning
<1>8. Moved(f, 0) = 0 /\ \A j \in live : Moved(f, j) = f[j]
  BY <1>3 DEF Moved
<1>9. \A i \in live \cup {0} : MeaningsOf(nodes')[Moved(f, i)] = MeaningsOf(nodes)[i]
  BY <1>5, <1>7, <1>8, MeaningOfNode
<1> QED
  BY <1>2, <1>9 DEF CollectedBy

-----------------------------------------------------------------------------
(* KeepsMeanings, of a step.                                               *)
KeptByStep ==
  /\ \A o \in Output : Meaning(root[o])' # Meaning(root[o])
       => UseqClear \/ (at = o /\ (NextOutput \/ Assign))
  /\ \A s \in 1 .. slots : Meaning(law[s])' # Meaning(law[s])
       => UseqClear \/ InstallLaw \/ (NextLaw /\ at = s) \/ (doing = "defstate" /\ at = s)

LEMMA RootMeans ==
  \A o : /\ Meaning(root[o]) = MeaningsOf(nodes)[root[o]]
         /\ Meaning(root[o])' = MeaningsOf(nodes')[root'[o]]
  BY DEF Meaning, MeaningsOf, MeansBy, Used

LEMMA LawMeans ==
  \A s : /\ Meaning(law[s]) = MeaningsOf(nodes)[law[s]]
         /\ Meaning(law[s])' = MeaningsOf(nodes')[law'[s]]
  BY DEF Meaning, MeaningsOf, MeansBy, Used

LEMMA InternKeepsMeanings ==
  ASSUME PoolInv, NEW n \in Node, Intern(n)
  PROVE  KeptByStep
<1>1. root' = root /\ law' = law
  BY DEF Intern
<1>2. \A i \in 0 .. Len(nodes) : MeaningsOf(nodes')[i] = MeaningsOf(nodes)[i]
  BY InternMeans
<1>3. Len(nodes) \in Nat
  BY DEF PoolInv, Shape
<1>4. \A o \in Output : MeaningsOf(nodes')[root'[o]] = MeaningsOf(nodes)[root[o]]
  <2>1. \A o \in Output : root[o] \in 0 .. Len(nodes)
    BY <1>3, SizeAssumption DEF PoolInv, RootsInside, Shape
  <2> QED
    BY <1>1, <1>2, <2>1
<1>5. \A s \in 1 .. slots : (doing = "defstate" /\ at = s)
         \/ MeaningsOf(nodes')[law'[s]] = MeaningsOf(nodes)[law[s]]
  <2>1. \A s \in 1 .. slots : (doing = "defstate" /\ at = s) \/ law[s] \in 0 .. Len(nodes)
    BY <1>3, SizeAssumption DEF PoolInv, RootsInside, Shape, Slot
  <2> QED
    BY <1>1, <1>2, <2>1
<1> QED
  BY <1>4, <1>5, RootMeans, LawMeans DEF KeptByStep

LEMMA CollectKeepsMeanings ==
  ASSUME PoolInv, NEW rt \in [Output -> 0 .. MaxNodes], Collect(rt),
         doing # "defstate", \A o \in Output : rt[o] =< Len(nodes)
  PROVE  /\ \A o \in Output : rt[o] = root[o] => Meaning(root[o])' = Meaning(root[o])
         /\ \A s \in 1 .. slots : Meaning(law[s])' = Meaning(law[s])
<1>1. PICK f : /\ root' = [o \in Output |-> Moved(f, rt[o])]
               /\ law' = [s \in Slot |-> IF s =< slots THEN Moved(f, law[s]) ELSE law[s]]
               /\ \A i \in Live(rt, law, slots) \cup {0} :
                    MeaningsOf(nodes')[Moved(f, i)] = MeaningsOf(nodes)[i]
  BY CollectMeans
<1>2. Len(nodes) \in Nat /\ slots \in Nat /\ \A s \in 1 .. slots : s \in Slot /\ s =< slots
  BY SizeAssumption DEF PoolInv, Shape, Slot
<1>3. \A o \in Output : rt[o] \in Live(rt, law, slots) \cup {0}
  <2>1. \A o \in Output : rt[o] = 0 \/ rt[o] \in Used
    BY <1>2, SizeAssumption DEF Used
  <2> QED
    BY <2>1, LiveHoldsRoots DEF Roots
<1>4. \A s \in 1 .. slots : law[s] \in Live(rt, law, slots) \cup {0}
  <2>1. \A s \in 1 .. slots : law[s] = 0 \/ law[s] \in Used
    BY <1>2, SizeAssumption DEF Used, PoolInv, RootsInside, Shape
  <2> QED
    BY <2>1, LiveHoldsRoots DEF Roots
<1>5. \A o \in Output : MeaningsOf(nodes')[root'[o]] = MeaningsOf(nodes)[rt[o]]
  BY <1>1, <1>3
<1>6. \A s \in 1 .. slots : MeaningsOf(nodes')[law'[s]] = MeaningsOf(nodes)[law[s]]
  BY <1>1, <1>2, <1>4
<1> QED
  BY <1>5, <1>6, RootMeans, LawMeans

LEMMA StillKeepsMeanings ==
  ASSUME PoolInv, StillNodes
  PROVE  KeptByStep
<1>1. nodes' = nodes /\ \A i : Meaning(i)' = Meaning(i)
  <2>1. nodes' = nodes
    BY DEF StillNodes, InstallLaw, BeginAssign, AssignFails, BeginDefState, DefState, DefStateFails,
           BeginChange, NextOutput, OutputsDone, NextLaw, LawsDone, Rehash, Rehashed, UseqClear
  <2> QED
    BY <2>1, StillMeans
<1>2. \A o \in Output : root'[o] # root[o] => UseqClear \/ (at = o /\ NextOutput)
  <2>1. CASE NextOutput
    BY <2>1 DEF NextOutput, PoolInv, Shape
  <2>2. CASE UseqClear
    BY <2>2
  <2>3. CASE ~NextOutput /\ ~UseqClear
    BY <2>3 DEF StillNodes, InstallLaw, BeginAssign, AssignFails, BeginDefState, DefState,
           DefStateFails, BeginChange, OutputsDone, NextLaw, LawsDone, Rehash, Rehashed
  <2> QED
    BY <2>1, <2>2, <2>3
<1>3. \A s \in 1 .. slots : law'[s] # law[s]
         => UseqClear \/ InstallLaw \/ (NextLaw /\ at = s) \/ (doing = "defstate" /\ at = s)
  <2>1. \A s \in 1 .. slots : s \in Slot
    BY SizeAssumption DEF PoolInv, Shape, Slot
  <2>2. CASE NextLaw
    BY <2>1, <2>2 DEF NextLaw, PoolInv, Shape
  <2>3. CASE DefState \/ DefStateFails
    BY <2>1, <2>3 DEF DefState, DefStateFails, PoolInv, Shape
  <2>4. CASE UseqClear \/ InstallLaw
    BY <2>4
  <2>5. CASE ~NextLaw /\ ~(DefState \/ DefStateFails) /\ ~(UseqClear \/ InstallLaw)
    BY <2>5 DEF StillNodes, BeginAssign, AssignFails, BeginDefState,
           BeginChange, NextOutput, OutputsDone, LawsDone, Rehash, Rehashed
  <2> QED
    BY <2>2, <2>3, <2>4, <2>5
<1>4. \A o \in Output : Meaning(root[o])' # Meaning(root[o]) => root'[o] # root[o]
  BY <1>1, RootMeans
<1>5. \A s : Meaning(law[s])' # Meaning(law[s]) => law'[s] # law[s]
  BY <1>1, LawMeans
<1> QED
  BY <1>2, <1>3, <1>4, <1>5 DEF KeptByStep

LEMMA MeaningsStep ==
  ASSUME PoolInv, [Next]_vars
  PROVE  [KeptByStep]_vars
<1>1. CASE Make
  BY <1>1, InternKeepsMeanings DEF Make
<1>2. CASE Assign
  <2>1. PICK r \in Result : Collect([root EXCEPT ![at] = r])
    BY <1>2 DEF Assign
  <2>2. [root EXCEPT ![at] = r] \in [Output -> 0 .. MaxNodes]
    BY <2>1, ResultType DEF PoolInv, Shape
  <2>3. /\ \A o \in Output : [root EXCEPT ![at] = r][o] =< Len(nodes)
        /\ \A o \in Output : o # at => [root EXCEPT ![at] = r][o] = root[o]
    BY <2>1, ResultType DEF PoolInv, RootsInside, Shape
  <2>4. doing # "defstate"
    BY <1>2 DEF Assign
  <2>5. PICK rt \in [Output -> 0 .. MaxNodes] : rt = [root EXCEPT ![at] = r]
    BY <2>2
  <2>6. /\ \A o \in Output : rt[o] = root[o] => Meaning(root[o])' = Meaning(root[o])
        /\ \A s \in 1 .. slots : Meaning(law[s])' = Meaning(law[s])
    BY <2>1, <2>3, <2>4, <2>5, CollectKeepsMeanings
  <2> QED
    BY <1>2, <2>3, <2>5, <2>6 DEF KeptByStep
<1>3. CASE Restored
  <2>1. /\ Collect(root) /\ root \in [Output -> 0 .. MaxNodes] /\ doing # "defstate"
        /\ \A o \in Output : root[o] =< Len(nodes)
    BY <1>3 DEF Restored, PoolInv, RootsInside, Shape
  <2>2. /\ \A o \in Output : root[o] = root[o] => Meaning(root[o])' = Meaning(root[o])
        /\ \A s \in 1 .. slots : Meaning(law[s])' = Meaning(law[s])
    BY <2>1, CollectKeepsMeanings
  <2> QED
    BY <2>2 DEF KeptByStep
<1>4. CASE StillNodes
  BY <1>4, StillKeepsMeanings
<1> QED
  BY <1>1, <1>2, <1>3, <1>4 DEF Next, StillNodes

(* Nothing that happens to the pool on behalf of one output or state       *)
(* changes what another computes, for any size of the pool and of its      *)
(* table, whatever the hashes are.                                         *)
THEOREM MeaningsAreKept == Spec => KeepsMeanings
<1>1. Init => PoolInv
  BY PoolInit
<1>2. PoolInv /\ [Next]_vars => PoolInv'
  BY PoolStep
<1>3. PoolInv /\ [Next]_vars => [KeptByStep]_vars
  BY MeaningsStep
<1>4. [][KeptByStep]_vars => KeepsMeanings
  BY DEF KeepsMeanings, KeptByStep
<1> QED
  BY <1>1, <1>2, <1>3, <1>4, PTL DEF Spec

=============================================================================
