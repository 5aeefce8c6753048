---------------------------- MODULE SignalValues ----------------------------
(***************************************************************************)
(* Nodes of a signal graph as terms, the constructors of the node pool     *)
(* with their constant folding (node_pool.cpp), and what the executor      *)
(* computes for a node (executor.cpp, eval_ops.h).                         *)
(*                                                                         *)
(* A node is <<operation, immediate, inputs>>.  Two nodes of the pool are  *)
(* one when they are equal terms: that is what hash-consing gives, and     *)
(* module NodePool is about how.  Numbers are whole quarters: Unit is 1.0, *)
(* products and quotients are rounded down.  The functions of the C        *)
(* library are the constant operator Math.                                 *)
(***************************************************************************)
EXTENDS Integers, Sequences

CONSTANTS
  Math(_, _),     \* a function of libm on a sequence of numbers
  None            \* NODE_NONE

Unit == 4
Floored(a) == (a \div Unit) * Unit
Times(a, b) == (a * b) \div Unit
Quotient(a, b) == IF b = 0 THEN 0
                  ELSE IF b > 0 THEN (a * Unit) \div b
                  ELSE (-(a * Unit)) \div (-b)
Abs(a) == IF a < 0 THEN -a ELSE a
Bit(p) == IF p THEN Unit ELSE 0

\* fmod: the remainder has the sign of the dividend.
Remainder(a, b) == IF b = 0 THEN 0
                   ELSE IF a >= 0 THEN a % Abs(b)
                   ELSE -((-a) % Abs(b))

EvalUnary(op, a) ==
    CASE op = "Neg"     -> -a
      [] op = "Abs"     -> Abs(a)
      [] op = "Floor"   -> Floored(a)
      [] op = "Ceil"    -> -Floored(-a)
      [] op = "Frac"    -> a - Floored(a)
      [] op = "Tri"     -> Unit - Abs(2 * (a - Floored(a)) - Unit)
      [] op = "Sqr"     -> Bit(2 * (a - Floored(a)) < Unit)
      [] op = "Not"     -> Bit(a = 0)
      [] op = "BiToUni" -> (a + Unit) \div 2
      [] op = "UniToBi" -> 2 * a - Unit
      [] OTHER          -> Math(op, <<a>>)

EvalBinary(op, a, b) ==
    CASE op = "Add"   -> a + b
      [] op = "Sub"   -> a - b
      [] op = "Mul"   -> Times(a, b)
      [] op = "Div"   -> Quotient(a, b)
      [] op = "Mod"   -> Remainder(a, b)
      [] op = "Min"   -> IF a < b THEN a ELSE b
      [] op = "Max"   -> IF a > b THEN a ELSE b
      [] op = "Pulse" -> Bit(a - Floored(a) < b)
      [] op = "CmpGt" -> Bit(a > b)
      [] op = "CmpLt" -> Bit(a < b)
      [] op = "CmpGe" -> Bit(a >= b)
      [] op = "CmpLe" -> Bit(a <= b)
      [] op = "CmpEq" -> Bit(a = b)
      [] op = "And"   -> Bit(a # 0 /\ b # 0)
      [] op = "Or"    -> Bit(a # 0 \/ b # 0)
      [] OTHER        -> Math(op, <<a, b>>)

\* The argument that is acted on comes last, the condition of Select first.
EvalTernary(op, a, b, c) ==
    CASE op = "Clamp"  -> IF c < a THEN a ELSE IF c > b THEN b ELSE c
      [] op = "Lerp"   -> a + Times(b - a, c)
      [] op = "Scale"  -> Times(c, b - a) + a
      [] op = "Select" -> IF a # 0 THEN b ELSE c

-----------------------------------------------------------------------------
(* The constructors of the pool.                                           *)

Const(v) == <<"Const", v, <<>>>>
IsConst(n) == n # None /\ n[1] = "Const"
ConstValue(n) == n[2]
Is(n, v) == n = Const(v)
Load(op, i) == <<op, i, <<>>>>
RawTime == Load("RawTimeLoad", 0)
Dt == Load("LoadDt", 0)

Unary(op, a) ==
    IF a = None THEN None
    ELSE IF IsConst(a) THEN Const(EvalUnary(op, ConstValue(a)))
    ELSE <<op, 0, <<a>>>>

Binop(op, a, b) ==
    IF a = None \/ b = None THEN None
    ELSE IF IsConst(a) /\ IsConst(b)
         THEN Const(EvalBinary(op, ConstValue(a), ConstValue(b)))
    ELSE CASE op = "Add" /\ Is(b, 0)                    -> a
           [] op = "Add" /\ Is(a, 0)                    -> b
           [] op = "Mul" /\ Is(b, Unit)                 -> a
           [] op = "Mul" /\ Is(a, Unit)                 -> b
           [] op = "Mul" /\ (Is(a, 0) \/ Is(b, 0))      -> Const(0)
           [] op = "Sub" /\ a = b                       -> Const(0)
           [] op = "Div" /\ a = b                       -> Const(Unit)
           [] op = "Div" /\ a # b /\ Is(b, Unit)        -> a
           [] OTHER                                     -> <<op, 0, <<a, b>>>>

Ternary(op, a, b, c) ==
    IF a = None \/ b = None \/ c = None THEN None
    ELSE IF IsConst(a) /\ IsConst(b) /\ IsConst(c)
         THEN Const(EvalTernary(op, ConstValue(a), ConstValue(b), ConstValue(c)))
    ELSE IF op = "Select" /\ IsConst(a) THEN IF ConstValue(a) # 0 THEN b ELSE c
    ELSE <<op, 0, <<a, b, c>>>>

Select(c, a, b) == Ternary("Select", c, a, b)
VecIndex(a, id) == <<"VecIndex", id, <<a>>>>
VecLerp(a, id) == <<"VecLerp", id, <<a>>>>

-----------------------------------------------------------------------------
(* The executor.  An environment holds what a tick reads: t, dt, the cells *)
(* that keep time, the inputs, the outputs of the last tick, the state and *)
(* the live slots, and the data tables.                                    *)

Indexed(table, a) ==
    IF table = <<>> THEN 0 ELSE table[((a \div Unit) % Len(table)) + 1]

Interpolated(table, a) ==
    IF Len(table) <= 1 THEN IF table = <<>> THEN 0 ELSE table[1]
    ELSE LET scaled == a * (Len(table) - 1)
             whole == scaled \div Unit
             i == IF whole < 0 THEN 0
                  ELSE IF whole >= Len(table) - 1 THEN Len(table) - 2 ELSE whole
         IN table[i + 1] + Times(table[i + 2] - table[i + 1], scaled - Floored(scaled))

RECURSIVE EvalNode(_, _)
EvalNode(n, env) ==
    LET in(i) == EvalNode(n[3][i], env)
    IN CASE n = None                -> 0    \* an input that is not there
         [] n[1] = "Const"          -> n[2]
         [] n[1] = "RawTimeLoad"    -> env.t
         [] n[1] = "LoadDt"         -> env.dt
         [] n[1] = "CellLoad"       -> env.cell[n[2]]
         [] n[1] = "InputLoad"      -> env.input[n[2]]
         [] n[1] = "PrevOutputLoad" -> env.prev[n[2]]
         [] n[1] = "LoadState"      -> env.state[n[2]]
         [] n[1] = "SlotLoad"       -> env.live[n[2]]
         [] n[1] = "VecIndex"       -> Indexed(env.tables[n[2]], in(1))
         [] n[1] = "VecLerp"        -> Interpolated(env.tables[n[2]], in(1))
         [] Len(n[3]) = 1           -> EvalUnary(n[1], in(1))
         [] Len(n[3]) = 2           -> EvalBinary(n[1], in(1), in(2))
         [] Len(n[3]) = 3           -> EvalTernary(n[1], in(1), in(2), in(3))
=============================================================================
