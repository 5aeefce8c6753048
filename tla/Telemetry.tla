----------------------------- MODULE Telemetry -----------------------------
(***************************************************************************)
(* DevTools (devtools/devtools.cpp), what a development build collects     *)
(* about itself: the phases of a tick, statistics over a window of ticks,  *)
(* the latest events, counters and gauges under names, and what it tells   *)
(* of that and of the engine, when it is asked and in streams.             *)
(*                                                                         *)
(* One behaviour is Firmware::tick again and again, with the editor's      *)
(* debug messages and calls of event, count and gauge in its serial phase; *)
(* docs/specs/devtools.md 3.2 to 3.4 lists those calls, the firmware does  *)
(* not make them yet.  The engine is only looked at and stays as it is.    *)
(***************************************************************************)
EXTENDS Naturals, Sequences, SequencesExt, FiniteSetsExt

CONSTANTS
  Marks,       \* the names of the phases, in the order of Firmware::tick
  MaxPhases,   \* the length of phase_names
  Window,      \* TICK_WINDOW_SIZE
  EventSlots,  \* the length of events
  NameSlots,   \* the length of counters, and of gauges
  Wrap,        \* the modulus of micros()
  Report,      \* what is reported as an event
  Metric,      \* the names of counters and gauges
  Amount,      \* values of gauges
  Engine,      \* what the engine may be
  Request,     \* the debug messages an editor may send
  NoNode,      \* NODE_NONE
  NoAnswer,
  MaxStep,     \* bound: the longest phase
  MaxWork      \* bound: ticks and calls

ASSUME SizesAssumption ==
  /\ Window \in Nat \ {0} /\ EventSlots \in Nat \ {0} /\ NameSlots \in Nat
  /\ Wrap \in Nat \ {0} /\ MaxStep \in Nat

VARIABLES
  shown, modes, interval, lastStream,
  clock,                                        \* micros()
  step,                                         \* how far the tick has come
  tickStart, phaseStart, phases,                \* of the tick
  total, count, winMin, winMax, winSum, winCount,
  ring, head, filled,                           \* events, ev_head, ev_count
  counters, gauges,
  answer,     \* the last answer or the frames of the last burst
  calls,
  lengths,    \* history: how long each tick took
  reported,   \* history: all events
  counted,    \* history: the names that were counted, one for each call
  measured    \* history: the calls of gauge

tickVars == <<tickStart, phaseStart, phases, total, count, winMin, winMax, winSum, winCount,
              lengths>>
callVars == <<ring, head, filled, counters, gauges, reported, counted, measured>>
askVars == <<modes, interval>>

telemetry == <<shown, clock, step, answer, calls, tickVars, callVars, askVars, lastStream>>

Channel == {"tick", "graph", "state", "eval", "resources", "io", "protocol"}
Mode == {"off", "poll", "stream", "events"}

Elapsed(from, to) == (to - from + Wrap) % Wrap

-----------------------------------------------------------------------------
Passes(d) == clock' = (clock + d) % Wrap

TickBegin ==
  /\ step = 0 /\ Len(lengths) + calls < MaxWork
  /\ tickStart' = clock /\ phaseStart' = clock
  /\ phases' = <<>>
  /\ step' = 1 /\ answer' = NoAnswer
  /\ UNCHANGED <<clock, total, count, winMin, winMax, winSum, winCount, lengths>>

Mark(d) ==
  /\ step \in DOMAIN Marks
  /\ Passes(d)
  /\ phases' = IF Len(phases) < MaxPhases
               THEN Append(phases, [name |-> Marks[step], time |-> Elapsed(phaseStart, clock')])
               ELSE phases
  /\ phaseStart' = clock'
  /\ step' = step + 1
  /\ UNCHANGED <<tickStart, total, count, winMin, winMax, winSum, winCount, lengths, answer>>

TickEnd(d) ==
  /\ step = Len(Marks) + 1
  /\ Passes(d)
  /\ LET t == Elapsed(tickStart, clock')
         full == winCount + 1 >= Window
     IN /\ total' = t
        /\ winMin' = IF full THEN Wrap - 1 ELSE Min({winMin, t})
        /\ winMax' = IF full THEN 0 ELSE Max({winMax, t})
        /\ winSum' = IF full THEN 0 ELSE winSum + t
        /\ winCount' = IF full THEN 0 ELSE winCount + 1
        /\ lengths' = Append(lengths, t)
  /\ count' = count + 1
  /\ step' = step + 1
  /\ UNCHANGED <<tickStart, phaseStart, phases, answer>>

-----------------------------------------------------------------------------
(* Calls of event, count and gauge.                                        *)
EventCall(what) ==
  LET e == [what |-> what, at |-> clock]
  IN /\ ring' = [ring EXCEPT ![head] = e]
     /\ head' = (head + 1) % EventSlots
     /\ filled' = Min({filled + 1, EventSlots})
     /\ reported' = Append(reported, e)
     /\ UNCHANGED <<counters, gauges, counted, measured>>

(* The table t with a new entry, and with f of the entry that has its name *)
(* already; a full table takes no more names.  A name is the address of    *)
(* its text: equal texts at two addresses are two names.                   *)
Entered(t, entry, f(_)) ==
  IF \E i \in DOMAIN t : t[i].name = entry.name
  THEN [i \in DOMAIN t |-> IF t[i].name = entry.name THEN f(t[i]) ELSE t[i]]
  ELSE IF Len(t) < NameSlots THEN Append(t, entry) ELSE t

Count(name) ==
  /\ counters' = Entered(counters, [name |-> name, value |-> 1],
                         LAMBDA c : [c EXCEPT !.value = @ + 1])
  /\ counted' = Append(counted, name)
  /\ UNCHANGED <<ring, head, filled, gauges, reported, measured>>

(* A capacity of 0 stands for none; the call without one leaves it as it   *)
(* is.                                                                     *)
Gauge(name, value, capacity) ==
  /\ gauges' = Entered(gauges, [name |-> name, value |-> value, capacity |-> capacity],
                       LAMBDA g : [g EXCEPT !.value = value,
                                            !.capacity = IF capacity = 0 THEN @ ELSE capacity])
  /\ measured' = Append(measured, [name |-> name, value |-> value, capacity |-> capacity])
  /\ UNCHANGED <<ring, head, filled, counters, reported, counted>>

-----------------------------------------------------------------------------
(* What is told of every channel.                                          *)
Average == IF winCount > 0 THEN winSum \div winCount ELSE 0

SerializeTick ==
  [count |-> count, total |-> total, phases |-> phases, winCount |-> winCount,
   min |-> IF winMin = Wrap - 1 THEN 0 ELSE winMin, max |-> winMax, avg |-> Average]

Health(slot) ==
  CASE slot.root = NoNode -> "idle" [] slot.root # NoNode /\ slot.valid -> "running"
    [] OTHER -> "error"

(* op_has_imm, op_is_binary and op_is_ternary.                             *)
HasImm ==
  {"Const", "CellLoad", "InputLoad", "PrevOutputLoad", "VecIndex", "VecLerp", "LoadState",
   "SlotLoad"}

Ternary == {"Select", "Scale", "Lerp", "Clamp"}

Binary ==
  {"Add", "Sub", "Mul", "Div", "Mod", "Expt", "Min", "Max", "Pulse", "And", "Or",
   "CmpGt", "CmpLt", "CmpGe", "CmpLe", "CmpEq"}

Inputs(op) == IF op \in Ternary THEN 3 ELSE IF op \in Binary THEN 2 ELSE 1

NodeShown(i) ==
  LET node == shown.nodes[i]
  IN [id |-> i, op |-> node.op, imm |-> IF node.op \in HasImm THEN node.imm ELSE NoNode,
      args |-> SelectSeq(SubSeq(node.args, 1, Inputs(node.op)), LAMBDA a : a # NoNode)]

(* The dependencies of an output are written only when there are any, each *)
(* as a field with an empty key in an array (Json!Dependencies): the       *)
(* answer that has them is not JSON.                                       *)
Keyed(names) == IF names = {} THEN "left out" ELSE {[key |-> "", value |-> n] : n \in names}

(* Every output has the whole order of execution as its nodes.             *)
SerializeGraph(filter) ==
  {[name |-> o, health |-> Health(shown.outputs[o]), root |-> shown.outputs[o].root,
    nodes |-> [k \in DOMAIN shown.order |-> NodeShown(shown.order[k])],
    source |-> shown.outputs[o].source, deps |-> Keyed(shown.outputs[o].deps)] :
     o \in {p \in DOMAIN shown.outputs :
              /\ shown.outputs[p].root # NoNode
              /\ filter \in {"", p}}}

SerializeState ==
  [playing |-> shown.playing,
   cells |-> {c \in DOMAIN shown.cells : shown.cells[c] # "empty"},
   outputs |-> [o \in DOMAIN shown.outputs |-> Health(shown.outputs[o])],
   slots |-> shown.slots]

AnyOrder ==   \* mutant: the oldest is not where the newest one was
  [i \in 1..filled |-> ring[i - 1]]

SerializeEval ==
  [i \in 1..filled |-> ring[(head + 2 * EventSlots - i) % EventSlots]]

SerializeResources == [g \in ToSet(gauges) |-> IF g.capacity > 0 THEN "of" ELSE "plain"]

SerializeIO == DOMAIN shown.outputs

SerializeProtocol ==
  [counters |-> counters,
   uptime |-> IF count > 0 /\ winCount > 0 THEN count * Average ELSE 0]

Told(channel, filter) ==
  CASE channel = "tick" -> SerializeTick
    [] channel = "graph" -> SerializeGraph(filter)
    [] channel = "state" -> SerializeState
    [] channel = "eval" -> SerializeEval
    [] channel = "resources" -> SerializeResources
    [] channel = "io" -> SerializeIO
    [] channel = "protocol" -> SerializeProtocol

-----------------------------------------------------------------------------
(* parse_mode: every other word is "off".                                  *)
ParseMode(word) == IF word \in Mode THEN word ELSE "off"

Capabilities(request) ==
  /\ answer' = [to |-> request, success |-> TRUE, data |-> modes]
  /\ UNCHANGED askVars

Configure(request) ==
  /\ modes' = [c \in Channel |->
                 IF c \in DOMAIN request.modes THEN ParseMode(request.modes[c]) ELSE modes[c]]
  /\ interval' = IF request.rate = 0 THEN interval ELSE request.rate
  /\ answer' = [to |-> request, success |-> TRUE, data |-> modes']

Query(request) ==
  /\ answer' = [to |-> request, success |-> request.channel \in Channel,
                data |-> IF request.channel \in Channel
                         THEN Told(request.channel, request.output) ELSE "unknown channel"]
  /\ UNCHANGED askVars

Status(request) ==
  /\ answer' = [to |-> request, success |-> TRUE, data |-> [modes |-> modes, rate |-> interval]]
  /\ UNCHANGED askVars

(* handle_debug_message; it leaves other actions alone.                    *)
HandleDebugMessage(request) ==
  \/ request.action = "capabilities" /\ Capabilities(request)
  \/ request.action = "configure" /\ Configure(request)
  \/ request.action = "query" /\ Query(request)
  \/ request.action = "status" /\ Status(request)

InSerial ==
  /\ step \in 2..Len(Marks) + 1 /\ Marks[step - 1] = "serial"
  /\ Len(lengths) + calls < MaxWork

(* emit_streaming right after the end of the tick, when something fits the *)
(* port.                                                                   *)
StreamChannels == {"tick", "resources", "io", "protocol"}

EmitStreaming(canWrite) ==
  /\ step = Len(Marks) + 2
  /\ IF canWrite /\ Elapsed(lastStream, clock) >= interval
     THEN /\ lastStream' = clock
          /\ answer' = [c \in {s \in StreamChannels : modes[s] = "stream"} |-> Told(c, "")]
     ELSE UNCHANGED <<lastStream, answer>>
  /\ step' = 0

-----------------------------------------------------------------------------
TelemetryInit ==
  /\ shown \in Engine
  /\ modes = [c \in Channel |-> "off"] /\ interval = 2
  /\ clock = 0 /\ step = 0 /\ lastStream = 0
  /\ tickStart = 0 /\ phaseStart = 0 /\ phases = <<>>
  /\ total = 0 /\ count = 0 /\ winMin = Wrap - 1 /\ winMax = 0 /\ winSum = 0 /\ winCount = 0
  /\ ring = [i \in 0..EventSlots - 1 |-> NoAnswer] /\ head = 0 /\ filled = 0
  /\ counters = <<>> /\ gauges = <<>>
  /\ answer = NoAnswer /\ calls = 0
  /\ lengths = <<>> /\ reported = <<>> /\ counted = <<>> /\ measured = <<>>

Ticking ==
  /\ TickBegin \/ \E d \in 0..MaxStep : Mark(d) \/ TickEnd(d)
  /\ UNCHANGED <<shown, calls, callVars, askVars, lastStream>>

Calling ==
  /\ InSerial
  /\ \/ \E r \in Report : EventCall(r)
     \/ \E n \in Metric : Count(n)
     \/ \E n \in Metric, v \in Amount, c \in {0, 3} : Gauge(n, v, c)
  /\ calls' = calls + 1
  /\ UNCHANGED <<shown, clock, step, tickVars, askVars, lastStream, answer>>

Asking ==
  /\ InSerial
  /\ \E r \in Request : HandleDebugMessage(r)
  /\ calls' = calls + 1
  /\ UNCHANGED <<shown, clock, step, tickVars, callVars, lastStream>>

Streaming ==
  /\ \E canWrite \in BOOLEAN : EmitStreaming(canWrite)
  /\ UNCHANGED <<shown, clock, calls, tickVars, callVars, askVars>>

TelemetryNext == Ticking \/ Calling \/ Asking \/ Streaming

TelemetrySpec == TelemetryInit /\ [][TelemetryNext]_telemetry

-----------------------------------------------------------------------------
(* The ticks the figures say they are of, and the names a table has room   *)
(* for.                                                                    *)
Latest == SubSeq(lengths, Len(lengths) - winCount + 1, Len(lengths))

Sum(seq) ==
  LET upTo[i \in 0..Len(seq)] == IF i = 0 THEN 0 ELSE upTo[i - 1] + seq[i]
  IN upTo[Len(seq)]

FirstNames(seq) ==
  {seq[i] : i \in {j \in DOMAIN seq : Cardinality({seq[k] : k \in 1..j}) <= NameSlots}}

Times(n, seq) == Cardinality({i \in DOMAIN seq : seq[i] = n})

LastCall(n, seq) ==
  CHOOSE i \in DOMAIN seq : seq[i] = n /\ \A j \in i + 1..Len(seq) : seq[j] # n

EventsAreLatest ==
  SerializeEval = SubSeq(Reverse(reported), 1, Min({Len(reported), EventSlots}))

CountsAreRight ==
  {<<c.name, c.value>> : c \in ToSet(counters)}
    = {<<n, Times(n, counted)>> : n \in FirstNames(counted)}

GaugesAreLatest ==
  LET names == [i \in DOMAIN measured |-> measured[i].name]
  IN {<<g.name, g.value>> : g \in ToSet(gauges)}
       = {<<n, measured[LastCall(n, names)].value>> : n \in FirstNames(names)}

FiguresAreOfLatest ==
  /\ winCount =< Len(lengths) /\ winCount =< Window
  /\ winSum = Sum(Latest)
  /\ winCount > 0 => winMin = Min(ToSet(Latest)) /\ winMax = Max(ToSet(Latest))

(* What can be asked for is what has happened: the newest events first,    *)
(* all calls of every counter that got a place and the last value of every *)
(* gauge that did, and the shortest, longest and average of as many of the *)
(* latest ticks as the answer says, whatever the order of the calls and    *)
(* however often the ring, the tables and the window have filled up.       *)
(* Nothing is said of how many ticks those are: tick_end begins anew when  *)
(* the window is full (devtools/devtools.cpp:212), so that right after it  *)
(* there are none, where docs/specs/devtools.md:110 and :276 have rolling  *)
(* statistics of the last N ticks.                                         *)
(* [docs/specs/devtools.md:201, :224, :276]                                *)
TellsWhatHappened ==
  EventsAreLatest /\ CountsAreRight /\ GaugesAreLatest /\ FiguresAreOfLatest

=============================================================================
