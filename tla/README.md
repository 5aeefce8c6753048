# TLA+ models of uSEQ

uSEQ is a Eurorack module that is programmed live: an editor sends small Lisp
forms over a serial line, the firmware compiles them into signal graphs, and a
loop that never ends executes the graphs and drives the jacks.  This directory
models the live firmware: `uSEQ/src/signal_engine/`, `uSEQ/src/firmware/` and
`wasm/`.  Paths below are relative to `uSEQ/src/` unless they start elsewhere.

## 1. Inventory

| part | state | operations | who calls it |
|---|---|---|---|
| **Cold evaluator** `signal_engine/cold_eval.cpp` | `SignalEngine`: cells, pool, source arena, per-output source, state sources, registry | `define`, `defn`, `set`, `defstate`, `(a1 ...)`, `useq-clear`, play/pause/stop/rewind, bpm, time offset, bare expressions; `on_cell_changed`, `recompile_all_outputs` | `Firmware::tick` with one command per tick; the WASM wrapper |
| **Graph builder** `graph_builder.cpp` | inline stack, collected dependencies, diagnostics | compile a text to nodes; inline expression cells and functions; allocate state and live slots | cold evaluator |
| **Node pool** `node_pool.cpp` | nodes, hash-consing table, execution order, roots, dependency lists, state and live slots | intern, sort, collect, allocate slots | builder, evaluator, executor |
| **Executor** `executor.cpp` | none of its own | run the sorted nodes; commit outputs; commit state; classify outputs | tick, WASM wrapper |
| **Cell store** `cell_store.cpp` | cells, callables, data tables, append-only arena | bind, store, snapshot | evaluator, builder, executor |
| **State registry** `state_registry.cpp` | key to slot | resolve, clear | builder |
| **Firmware** `firmware/firmware.cpp` | output values, time of the last tick | `init`, `tick`, watchdog | `loop()` |
| **Serial protocol** `firmware/serial_protocol.cpp` | receive ring, message buffer, request id, stream channels | drain, extract, dispatch, answer, stream | tick; the editor sends |
| **Hardware I/O** `firmware/hardware_io.cpp` | gate state and latch (written by interrupts), filters, output levels | gate interrupts, `read_inputs`, `write_outputs` | tick, interrupts |
| **Tokenizer and arena** `signal_engine/token.cpp`, `cell_store.cpp` | texts, one after the other | read a text; store it | builder, evaluator |
| **I2C network** `firmware/i2c_network.cpp` | ring of 4 messages, expander addresses | push, pop, scan, send | tick, bus |
| **Flash storage** `firmware/flash_storage.cpp` | one file or flash page | save, load, erase, autoload | `Firmware::init` loads; the interface offers the rest, which nothing in the firmware calls yet |
| **WASM wrapper** `wasm/wasm_wrapper.cpp` | one engine, projection forks | eval, execute, project future values | the browser |
| **Developer tools** `devtools/devtools.cpp` | modes, phases, window, events, counters, gauges | mark, count, gauge, query, stream | tick, every part |
| **JSON writer** `utils/json_builder.h` | a buffer, a comma flag per depth | open, close, field | all that answers |
| **Legacy interpreter** `uSEQ.cpp`, `lisp/`, `uSEQ/` | - | - | not built into this firmware |

What is hard here: almost nothing runs concurrently (the tick is one thread;
only the gate interrupts and the PDM timer preempt it), so the trouble is in
*sequences* of legal commands, in *caches* of earlier compilations (graphs that
hold the cells' values, dependency lists, slot numbers kept in cells) that some
later command should refresh, in fixed-size *tables* that fill, and in *failing*
commands that have already changed something.  `PROJECT.json` lists the hazards
at their lines.

What makes each part correct: an output follows the cells its program names; a
rejected text changes nothing that is heard; an output without a program is
neutral; a slot belongs to one owner; a pulse on a gate is seen by a tick; a
message is answered under its own identifier; a ring behaves as a bounded queue;
a saved patch is loaded whole or not at all; a projection changes nothing that is
played.

## 2. The modules

| module | models | code |
|---|---|---|
| `SignalEngine` | cells, output programs, reactive recompilation, execute and commit | `cold_eval.cpp`, `graph_builder.cpp`, `executor.cpp` |
| `FlashStorage` | the engine with its patch in flash: saves, boots, and resets at any time | `flash_storage.cpp`, `firmware.cpp` (`init`), `cold_eval.cpp` (`recompile_all_outputs`) |
| `NodePool` | the pool of nodes all graphs share: hash-consing, the collector, the execution order, and every form that changes them | `node_pool.cpp`, `cold_eval.cpp`, `graph_builder.cpp` |
| `StateSlots` | who owns which state slot and which update law is committed into it | `cold_eval.cpp` (`do_defstate`, `on_cell_changed`, `useq_clear`), `graph_builder.cpp`, `state_registry.cpp`, `executor.cpp` (`commit_state`) |
| `SignalValues` | nodes as terms, their folding, and what a tick computes for one | `node_pool.cpp`, `executor.cpp`, `eval_ops.h` |
| `Language` | the abstract specification of the compiler: what an expression means | stated of the same code, checked against it |
| `GraphBuilder` | the compiler: every operator, inlining, scopes, slots and tables | `graph_builder.cpp` |
| `Compiler` | documents evaluated line by line, while knobs are turned | `cold_eval.cpp`, `graph_builder.cpp` (entry points) |
| `Reader` | the tokenizer over the arena of stored texts | `token.cpp`, `cell_store.cpp` |
| `Forms` | the forms of a text, read and executed | `cold_eval.cpp` (`eval_form`, `eval_cold`) |
| `Suggestions` | "did you mean" | `diagnostics.cpp`, `symbol_intern.h` |
| `Classifier` | what an output is said to depend on | `executor.cpp` (`classify_outputs`) |
| `GateInput` | a gate interrupt preempting `read_inputs` | `hardware_io.cpp` |
| `Encoder` | the rotary encoder, sampled once a tick | `hardware_io.cpp` (`read_rotary`) |
| `AnalogInput` | the median filter and the dithered light | `hardware_io.cpp` |
| `MusicThingInputs` | multiplexed controls behind their filters | `hardware_io.cpp`, `ResponsiveAnalogRead` |
| `Pins` | who drives which pin, on each variant | `hardware_io.cpp` |
| `SerialProtocol` | the receive ring, extraction of one line per tick, answers | `serial_protocol.cpp`, `firmware.cpp` |
| `Session` | greeting, stream-config, streaming, restarts and reconnections | `serial_protocol.cpp` |
| `LiveInputs` | the knobs of live edits on both transports | `serial_protocol.cpp`, `wasm_wrapper.cpp` |
| `Snapshot` | the browser takes over the device's state | `serial_protocol.cpp` (get-state), `wasm_wrapper.cpp` |
| `Json` | the writer of all answers | `json_builder.h` |
| `Telemetry` | the development build's measurements and what it tells of them | `devtools.cpp` |
| `I2CIncoming`, `Mailbox` | the ring of incoming messages, and the bounded queue it implements | `i2c_network.cpp` |
| `I2CNetwork` | the scan for expanders and the messages to them | `i2c_network.cpp` |
| `LiveEngine` | the abstract specification of the wrapper: an engine that only its host's evaluations, inputs and live ticks change | `wasm_wrapper.cpp`, `executor.cpp` |
| `Projection` | the wrapper: samples shown but not played | `wasm_wrapper.cpp`, `executor.cpp` (`execute_batch`) |
| `FlashStorageProofs`, `NodePoolProofs`, `StateSlotsProofs`, `EditorProofs`, `SurroundingsProofs`, `ProjectionProofs`, `ReportsProofs` | the theorems of section 5; `FlashStorageProofs` holds those about `SignalEngine`, `EditorProofs` those about `Reader` | |
| `BoundedRecursion` | facts about functions defined by recursion up to a bound, which those proofs use | |
| `MC...` | values for the constants; `MCEditor`, `MCSurroundings` and `MCEngine` put parts together for one run | |

How the parts depend on each other in the models: `FlashStorage` extends
`SignalEngine`, `Compiler` extends `GraphBuilder` and `Language`, which share
`SignalValues`, and `Projection` extends `LiveEngine`.  `PROJECT.json` maps every
definition to its lines.

### SignalEngine

A form that arrives over serial is evaluated to completion inside one tick, so a
form is one action (`DefineLiteral`, `SetCell`, `DefineExpression`,
`DefineFunction`, `AssignOutput`, `RejectOutput`, `UseqClear`, `SetPlaying`) and
the execution of a tick is another (`Tick`).  Every form that binds a cell ends in
`Rebind`, which is the binding followed by the whole of `on_cell_changed`.

A compiled graph is known by the text it came from and the bindings of all the
cells it was compiled from (`GraphOf`): the compiler turns a number into a
constant node and inlines a callable's body, so this is what a graph depends on.
`Reach` is the set of cells met in a compilation, defined as the least closed set
and not by recursion, so that it can be proved about.  `lkg` and `out` hold the
graph that computed a value rather than the value.

Limits are nondeterministic: a store in the source arena may fail
(`ArenaMayFill`), a build may return no node (`PoolMayFill`), and of more than
`MaxOutputDeps` dependencies any `MaxOutputDeps` may be recorded.  Cells that
carry state, live edits and the time settings are not in this module.

### FlashStorage

`FlashStorage` extends `SignalEngine` by the file and by four actions: `Save`,
`SaveFails`, `Erase` and `Boot`.  A boot is what follows any reset: the engine is
built again from the cells and the source texts of the file alone, or from nothing
when there is no file or it is damaged.  Graphs, dependency lists, fallbacks and
the validity of outputs are not in the file; the parameters of functions are not
either, and the elements of a vector are printed with six digits (`Rounded`).
`RecompileAll` compiles every source in the restored cells.

The file system is not in the repository and is modelled from its use: a file
changes as a whole when it is closed, and a save that is cut short leaves a file
that the header, the size or the checksum give away (`Damaged`).  The field
`running` of a patch is history and not in the file: the outputs that ran their
source in the present cells when it was saved.

### NodePool

`NodePool` goes below the granularity of the other modules.  A form is split at
each node it interns (`Make`), each law a stateful operator installs while the text
around it is still being compiled (`InstallLaw`), each output or slot its loops
pass (`NextOutput`, `NextLaw`) and each node the collector puts back in the hash
table (`Rehash`).  `doing` and `at` say where the form is; a tick can come only
when `doing` is "nothing".  A compilation makes any node it likes over nodes that
exist, and returns any: a text that spells a node out again is given the same one.

Which nodes are live is the least set that is closed under inputs, so that the
module can be proved about.  The collector's renumbering is any order-preserving
map of the live nodes onto the first numbers; there is exactly one.  What a node
means (`Meaning`) is a recursive function over the numbers of nodes.  `Home` is an
arbitrary hash function.  An interned node that finds no room yields NODE_NONE
without an error, as in the code: a compilation that met it (`full`) may return it
and the root is then empty.

`torn` is history: a text failed since the order was last computed.  A failing
assignment installs no root but may leave a law its operators installed, which
is not in the order; `TickIsFresh` says all it can about laws then.  The third input
of a node behaves as the second and is left out; so are operators that take two
slots (they are in `GraphBuilder`) and the batch workspace, which is memory only.

### StateSlots

Slots are numbers given out in order and given back all at once by `useq-clear`.
A slot's value is abstracted to whose state it is and whether a tick has moved
it.  Compilation is a function from one value of the slot tables to the next,
because an operator takes its slot and installs its law while the text around it
is still being compiled and may yet fail.  The loops that compile outputs and updates
again are recursive functions of how far they are (`OutputsChanged`,
`UpdatesChanged`).  The cell record has one index for a slot number and for a table
number, as in the code.

`sound` is a history variable: no state cell has met a `useq-clear` or become a
vector so far.  After either, cells keep slot numbers that are given to others, and
what docs/specs/state.md 4.2 says of separate state no longer holds; the
properties `EachHasItsOwn` and `LawIsLatest` are stated up to that point, and hold
only up to that point.  Operators that take two slots are in `GraphBuilder`.

### GateInput

The handler and `read_inputs` are split at every access to a variable they share;
the handler preempts the reader and not the other way round; the jack may change at
any moment.  An interrupt request is a flag and does not queue.  `captured` (the
handler has seen a high level that no tick was given) and `moved` (the jack has
changed since the handler was attached) are history variables.  The pin's level
before the first edge is not known to the code, hence `moved`.

### SignalValues, Language, GraphBuilder and Compiler

`GraphBuilder` is the compiler itself: one recursive descent over a text's tokens.
Everything it reads or leaves behind is in the record `B` (stream position, error,
dependencies, inline stack, cells, tables, laws, registry, live slots), so that an
operator is a function from one builder to the next and a node.  This keeps what
is hard about it: an operator reads its arguments from the stream all others read
from, names are looked up in the scopes of the text that is being compiled and not
of the one that was written, and slots, tables and laws that were taken stay taken
when the text fails later.

A node is a term.  `SignalValues` has the pool's constructors with the constant
folding they do and the value the executor computes for each operation.  Numbers
are whole quarters (`Unit` is 1.0), products and quotients are rounded down, and
the C library is the constant operator `Math`.  That two equal terms are one node is
what `NodePool` is about.

`Language` is the abstract specification: expressions are trees and an expression
means a number at a time or `Wrong`.  It knows of no tokens, slots, nodes or folding.
Names are bound dynamically, as docs/specs/functions.md has it.  `Compiler` relates
the two: `MeansTheText` says that, after any sequence of lines of a document, every
program in use computes in every tick what its text means with the knobs where they
are, and that a text is rejected exactly when it means nothing.

Operators with state have no place in a meaning at one time.
`RemembersItsHistory` states them by the history of their arguments: `count` gives
the rises since its last reset, `sah` the input at its trigger's last rise, `slew` the
input followed no faster than its rate.

`spoiled` is history: the states whose law a text that was then rejected has taken away,
because an option of one of its operators did not compile.  `StatesHaveLaws` says that
this is the only way to lose a law, and section 4 that it should not be one.

### Forms and Reader

`Reader` is below: characters to tokens, out of an arena in which sources lie one
after the other.  What is read at one place (`ReadHere`) sees the text up to its length,
and a number sees on into the memory behind it, as strtod does.  The loop (`Read`) is a
function of the place and not of the calls, so that it can be proved about: a place that
the token before has passed changes nothing.  `LinesAreReadAlone` says of whole texts that
they are read line by line, tokens and errors alike.  `Forms` is above: tokens to commands to changes of the engine.
A `do` may hold forms; one action evaluates one form.  `FormsRunInOrder` compares the
stream-driven evaluation with one over trees, in which a form is whole and known
beforehand.  The texts have two forms, with or without an error, or a `do` of two
and a form after it.  An operand that is wrong in the middle of `output`, `set`,
`defstate` or a vector inside a `do` leaves the reader inside that form; such texts
are left out of the run (section 4).

### Suggestions and Classifier

`Suggestions` interns names and searches for the nearest one with the code's row of
distances, which is filled in place.  It is compared with what an edit distance is
(`Edits`): the least number of letters that change or move when letters of the one name
stand for letters of the other in the same order (`Picks`).  Of a candidate only the first
`MostLetters` are compared, as in the code.

`Classifier` builds any graph of a few nodes and walks it with the code's stack, which
drops a push when it is full; `ClassIsSound` varies states and inputs and asks whether
the value can change.  It speaks of graphs of less than half the pool: the walk of a
larger one may overflow the stack (section 4).

### SerialProtocol, Session, LiveInputs, Snapshot and Json

A byte is the number of its message and its place in it; the opening brace is the
first byte of a message that is not junk and the newline is the last.  USB delivers
any part of what was sent, in order and once.  A message without the field leaves
`m_request_id` alone, as in the code; a live edit without one, which is owed no answer,
may therefore get one under an older identifier (section 4).

`Session` has whole messages: the greeting, stream-configs scanned object by object,
frames with channel numbers, a transmit buffer of bounded size, restarts of the
device and reconnections of the editor.  Time is counted in half periods of the
fastest stream and wraps around.  `mistaken` and `early` are history: a frame did not
carry the signal at its number's position among the channels the answered stream-config
enables; a burst of frames came before the period of its rate had passed.  Both are what
the code keeps, and less than the documents say of channel numbers and of the rate
(section 4).

`LiveInputs` has both transports beside each other: the browser is called at once,
the firmware is behind by what is on the wire.  A text gives a knob its bounds and its
seed, which may lie outside them, and a message is walked entry by entry with each
transport's own rules for what is no number (`Heard`, `Called`).  What the editor wishes
of a knob outlives the texts: a later text moves it only into its new bounds.  `Snapshot` has the two engines that
get-state and `useq_apply_state_snapshot` connect; its texts read no cells, because a
snapshot has none.  `Json` is the writer with its comma flags; `WellFormed` reads
what was written as JSON.  Callers may write a field with its key in an array, as one of
them does (`Dependencies`); `misplaced` remembers it, and the reader is lost from there on.

### Telemetry

One behaviour is a tick after the other with its marks, calls of counters, gauges
and events, and the debug messages of an editor.  The calls of counters, gauges and
events are those docs/specs/devtools.md 3.2 to 3.4 lists; the firmware makes none of them
yet.  History keeps all that was measured; `TellsWhatHappened` compares with it what the
ring, the tables and the statistics tell.  The statistics are of the latest ticks, as many
as came since they last began anew (`FiguresAreOfLatest`), and never of the last 100
whatever the tick (section 4).

### Encoder, AnalogInput, MusicThingInputs and Pins

`Encoder` moves the knob in quarter steps, so that bouncing contacts are a knob that
turns back and forth, and samples as rarely as it likes.  `AnalogInput` has the
median over a window and the dithering by a timer interrupt that comes between any
two samples.  `MusicThingInputs` has the multiplexer and the filters as static
objects with the zeroes they are born with.  `Pins` configures each variant
(`USEQHARDWARE_1_0`, `_0_2`, `MUSICTHING`, `EXPANDER_OUT`), flashes the lights of the
boot and writes outputs; a pin has one peripheral at a time.

### I2CIncoming, Mailbox and I2CNetwork

The ring's array, its two indices and its flags, with every answer `push`, `pop`
and `any` give.  The refinement mapping takes the slots from `tail` on, oldest
first, as the abstract queue.  Nothing in the firmware calls `push` yet; the ring is
modelled as its interface offers it.  `I2CNetwork` is the other direction: scanning,
addressing, and messages in packets, with modules plugged in and pulled out at any
moment, between two packets too.

### LiveEngine and Projection

`LiveEngine` says what the wrapper promises: only evaluations, inputs, knobs,
snapshots and live ticks change the engine (`LiveSpec`).  The code keeps a little less: an
output that runs, and was marked invalid because a later text for it was refused, is
marked valid again by whatever samples it, as the next live tick would do (`Mark`,
`TickAndMark`).  `LookedSpec` allows that and nothing else; section 4 has the difference.
`Projection` adds the rest of the
wrapper, each call being one action: single evaluations, windows (in one batch when
no state slot is in use, else sample by sample), and the combined tick and
projection with its fork.  Each saves the machine field by field, runs the engine on
something else and puts the fields back; the refinement is that nothing is missing.
`FutureIsReal` says the other half: a projected sample is the one the engine will
play if the inputs stay as they are.  While an output that runs is marked invalid, what
is played and what is shown may differ (section 4): `RunsMarked` says that none is.

### Several parts in one run

`MCEditor`, `MCSurroundings` and `MCEngine` put parts that share no variable beside
each other.  The variable `part` says which one moves in a behaviour; the rest stays
at one start.  The states of the parts add up and are not multiplied, every part is
checked exactly as it would be alone, and a liveness property is about the behaviours
of its part.

## 3. What is checked

| run | properties | what it shows |
|---|---|---|
| `chains` | `TrackedIsCurrent`, `RunningSurvives`, `ProgramIsHeard` | an output whose cells are all recorded follows them; nothing but `useq-clear`, or a pool without room, takes a running graph away; an installed graph is heard |
| `flash` | `FallbackIsLast`, `PatchComesBack` | fallbacks stay honest through resets; a boot brings back the programs that ran when the patch was saved |
| `node_pool` | `InputsFirst`, `NothingTwice`, `TickIsFresh`, `KeepsMeanings` | inputs come first; no node is there twice; a tick reads only what it has just computed; no form changes what a root it is not about computes |
| `editor` | `MeansTheText`, `UnlistedCellsDoNotMatter`, `RemembersItsHistory`, `StatesHaveLaws`, `KnobsSurviveEdits` | compiled programs mean their texts; a program depends on no cell it does not list; operators remember what they should; no running state loses its law but to a rejected text with the same identifier; an edit moves no knob |
| | `FramesFollowTheirConfig`, `BurstsKeepTheirDistance`, `ChangesAreShown` | a frame carries the signal at its position among the channels the stream-config enables; bursts keep their distance; a signal that rests is shown in the end |
| | `AnswersMatch`, `RequestsAreAnswered` | answers come in order, skip nothing that is owed one and carry the identifier asked under; every request is answered |
| `surroundings` | `LookedSpec`, `FutureIsReal`, `WindowIsSampled` | looking at samples leaves nothing behind but marks; projections and windows show what would be played |
| | `PulseIsKept`, `StateFollowsGate`, `BouncesAreNot`, `LightIsAsAsked`, `JacksShowTheOutputs` | gates, encoder, lights and jacks |
| | `IsMailbox`, `TheRestHears`, `KnobsAreAsSent` | the ring is a bounded queue; one module pulled out costs the others nothing; knobs arrive as they were sent and stay there through later texts |
| `engine` | `EachHasItsOwn`, `LawIsLatest`, `EditsKeepState` | state slots have one owner and the latest law, and edits keep their values |
| | `FormsRunInOrder`, `LinesAreReadAlone`, `SuggestionIsNearest`, `ClassIsSound` | texts, forms, suggestions and classes |
| | `TellsWhatHappened`, `WellFormed`, `MirrorAgrees` | telemetry, JSON, snapshots |

### Bounds

`chains`: two cells that may name each other and themselves, one output, one value.
Two cells are enough because every kind of reach appears with two: a direct one, one
through another cell, a cycle of one and a cycle of two; what `on_cell_changed` does to
an output does not look at other outputs.  The pool has room there: what a full one does
to running graphs is in `flash` and in the theorem `RunningOutputsSurvive`.  `flash`: one cell bound in turn to
numbers, vectors, expressions and functions; two texts that name it and one that does
not; the pool may be full at any form, a save, a failed save, an erasure or a reset at
any time.  The overflow of the dependency list, vectors that lose digits and stores of
several values are left to the theorems, which hold for every `MaxOutputDeps`,
`Rounded` and `Value`.  `node_pool`: one output, one slot, one source and one operation
on one or two nodes; four nodes and four places, so that the pool and the table fill
together; operations fall on the first place and the source on the last, so that
searches are long and wrap.

`editor` (342 000 states): documents of one to three lines, among them every operator
with arguments of each kind, nested calls, loops over functions, states shared by two
outputs and knobs moved between lines; 4 state slots, 3 live slots and 5 tables, so
that each fills; an inline stack of 3; histories of three ticks with two inputs that
take five pairs of values.  Streams: up to 3 channels, a transmit buffer of 4 frames,
4 requests, 1 restart or reconnection, a clock that wraps after 6.  Lines: three
messages of five kinds in any order, cut anywhere, in a ring of four bytes: one held in
the buffer, one in the ring and one on the wire.

`surroundings` (375 000 states): three outputs, the second reading the first, one of which
may also be given a text that is refused while it runs, times up to 2, projections of 2 samples; the ring's real
capacity of 4; a window of 3 samples instead of 51 (the median's bookkeeping does not
depend on the length); an encoder over more than one detent in each direction; all four
boards; three addresses on the bus with room for two expanders; three messages to the
knobs with up to two entries each, and a seed outside its bounds.

`engine` (1 290 000 states): two slots, two cells and one identifier; texts of four
characters over eleven kinds; two forms at the top or in a `do`; user's names of up to
three letters; graphs of three nodes; a window and a ring of two and tables of one;
JSON three scopes deep; two outputs and three programs for the mirror.

Graphs of three nodes are less than half of the pool of seven that `ClassIsSound` is
checked with; with as many nodes built as the stack has places it fails (section 4).  Of
a candidate three letters are compared and one of the built-in names has four, so that
names that go on differently are met.

### Fairness

- `WF_vars(Tick)` in `chains`: `loop()` calls `Firmware::tick` for ever and every tick
  executes while the engine plays.
- `Tick` and `TickTakes` of `Session`: the same loop streams what is due and reads the
  requests that have come.  `Receive`: the editor reads what the port has.
  `[]<>(tx = <<>>)`: the port is drained again and again; an editor that stops reading
  altogether is owed nothing.
- `HasIncoming` and `ReadCommand` of `SerialProtocol`: each tick calls `has_incoming`,
  and `read_command` when that returned true.  The editor is not fair.
- `Turn` of `Forms`: the loop over the children of a `do` is sequential code.

## 4. Where the code and its documents disagree

Each of these runs checks one statement of a document or a comment and finds a
behaviour of the code that violates it; `PROJECT.json` quotes the lines.

| run | behaviour |
|---|---|
| `rejected_never_runs` | a text that does not compile is stored as the output's source, and a later change of a cell installs it |
| `looking_changes_nothing` | a window or a projection marks valid an output that runs one text and was refused another, so that the next live tick commits what it would not have committed |
| `time_keeps_the_others` | an enabled `time` channel in a stream-config makes the scan lose the channels after it |
| `knobs_are_read` | the filters of the Music Thing inputs are never begun; every control reads 0 |
| `evaluation_ends` | a string among the forms of a `do` is refused without being read, and the evaluation never ends |
| `texts_are_kept` | a number that ends a stored text is read on into the text stored after it |

Met while reading and modelling, and not given a run:

*Compilation.*  `(define x ...)` makes `x` name `y`; an output that names `x` is
recompiled but does not record `y`, and a later change of `y` is not followed
(`cold_eval.cpp:1084`; docs/specs/cells.md 27); hence `TrackedIsCurrent` speaks of
outputs whose cells are all recorded.  An operator installs its law while the text
around it is compiled, so a text that is then rejected has changed the running operator
with the same `:id` (docs/specs/failure-model.md:51, 2.6), and likewise the bounds of a live
edit; when it is an option that fails, the law is taken away: after
`(count in2 :reset nobody :id "q")` is rejected, the running counter `q` stands still
(`graph_builder.cpp:2206`).  A cycle is recognised as far as the inline stack goes; one
that is entered behind a full stack, or after pops that no push preceded, is inlined
without end (`graph_builder.cpp:163`).  `(f (f x))` is rejected as a cycle.  `[1 t 3]` is 0 at its second
element (docs/specs/values-types.md 26), `(/ x x)` folds to 1, and tables and collections
are looked up without regard to local names.  Data tables are never given back; a
vector defined when all are taken has table 255.  String identifiers in a function's
body are read from its caller's text.  A live edit's first value is its seed, outside
the bounds too, where docs/specs/live-edit.md:141 and :167 (4.2.1, 5.7) have it clamped
(`node_pool.cpp:180`); only numeric live edits are made; their slots are never given back
and keep their values when no text names them any more (docs/specs/live-edit.md:165, 5.6),
and two with one identifier go unnoticed among a call's arguments.

*Evaluation.*  An output whose new text was rejected is marked invalid until the next
tick, although its old program goes on running (failure-model.md 76); one that ran
before a `useq-clear` keeps its last level instead of the neutral one (failure-model.md
67).  Errors of the children of a `do` are not reported, but for the last.  `(define x)`
stores ")" as a source.  Brackets left open are accepted, and so is the beginning of a
text of more than 256 tokens.  `(define x 3)` over a state cell leaves programs reading
the state (docs/specs/state.md 4.3).  When dead nodes fill the pool, a legal assignment
reports success and installs no graph, and `on_cell_changed` never collects.  The
firmware's `t` goes on while paused (docs/specs/time.md 23), and the first tick after a
pause has the whole pause as its `dt`.  The stack of the walk that classifies an output
has as many places as the pool and a node is pushed as often as it is an input, so with
graphs of more than half the pool (some 180 nested conditionals on the firmware, 512 in
the browser) pushes are dropped, the last inputs first, and a stateful output may be
classified as pure (`executor.cpp:291`).  A comment gives 63 as the most letters a name has
(`diagnostics.cpp:31`); the tokenizer keeps names of up to 255, of which suggestions
compare the first 63.

*Flash.*  A function that is saved comes back without its parameters, and no program that
calls it compiles after a boot (`flash_storage.cpp:391`: "will be set by recompile").  An
empty vector keeps table 0 on load, which is another's.

*Serial.*  A line of 2048 bytes, which docs/specs/wire-protocol.md 774 allows, does not
fit the receive ring with its newline, so it is never drained and nothing after it is
read.  A `set-live-inputs` without identifier after a request that had one is answered
under that one's (docs/specs/wire-protocol.md:440; `serial_protocol.cpp:844`).  A stream
frame is numbered by its channel's position among those that are enabled, whereas
wire-protocol.md:284, :716 and :722 have the index of `hello.config`: with some channels
left out, an editor that follows the document shows one signal as another.  The rate
limits bursts of one frame for every channel, whereas wire-protocol.md:282 sums it across
channels.  `hello` advertises more channels than can be enabled (wire-protocol.md:716).
get-state always tells time "0".

*Hardware.*  A pulse shorter than the handler's latency is not captured
(docs/specs/hardware-io.md 439).  On the 1.0 hardware LED_BUILTIN and the light of the
first analog input are one pin, 25; the expander's last light is on pin 0, which the bus
asks for too; an expander sets itself up as the host of its bus.

*Developer tools.*  Unknown modes become "off", the mode "events" never streams, every
channel may be streamed, and the dispatcher never calls `handle_debug_message`
(docs/specs/devtools.md 5.2); the graph channel lists the whole execution order under each
output; the names of the phases are off by one against docs/specs/devtools.md 3.1.
Statistics begin anew every 100 ticks (`devtools.cpp:212`), where docs/specs/devtools.md:110
and :276 have a rolling window and the example at :460 counts 100.  The names of a graph's
dependencies are written as `["":"freq"]` (`devtools.cpp:445`), which is not JSON and
breaks the whole answer; docs/specs/devtools.md:492 has `["freq"]`.  Counters and gauges
are told apart by the pointers to their names (`devtools.cpp:245`), and nothing in the
firmware counts, gauges or reports yet.

*Wrapper.*  While an output that runs is marked invalid, the rows of a projection, of a
batch window and of a window into a buffer are packed for the outputs that run and looked
up among those marked valid, so that the outputs after it are shown another's samples; a
live tick does not commit its samples and a fork does (docs/specs/visualisation-projection.md
2.5).  `WindowIsSampled` and `FutureIsReal` say where they claim nothing for it.  A fork
reads live edits as they are now and not as they were when it was
cloned.  After a `useq-clear` a live tick keeps an output's previous sample and a fork
does not.  Asking for an extension without a fork answers -1 after the live tick has been
taken.  Anonymous stateful operators take new slots each time a snapshot is applied.

## 5. What is proved

For every value of the constants that satisfies the modules' assumptions:

| theorem | property | argument |
|---|---|---|
| `TypeCorrect` | `TypeOK` | inductive as it stands; one step per form, all forms that bind a cell going through `Rebind` |
| `TrackedOutputsAreCurrent` | `TrackedIsCurrent` | inductive together with `TypeOK`; see below |
| `FallbackIsLastDriven` | `FallbackIsLast` | inductive as it stands |
| `RunningOutputsSurvive` | `RunningSurvives` | an action property, from `TypeOK`, whether or not the pool may fill |
| `FlashTypeCorrect` | `FlashTypeOK` | inductive as it stands; the engine's steps by `TypeStep` |
| `TrackedThroughResets` | `TrackedIsCurrent` | the engine's steps by its own lemma; a boot compiles every graph in the cells it restores |
| `FallbackThroughResets` | `FallbackIsLast` | likewise; a boot leaves neutral fallbacks |
| `SavedProgramsComeBack` | `PatchComesBack` | an action property, from `FlashInv`; see below |
| `PoolTypeCorrect` | `TypeOK` of `NodePool` | needs `PoolInv`: roots and laws are nodes, and the loops are where they can be |
| `ScanIsTopological` | `InputsFirst` | from `PoolInv`; the collector's map keeps the order (`Collected`) |
| `TicksAreFresh` | `TickIsFresh` | needs `OrderInv`: before a tick and while a text may fail the order is closed under inputs and holds the outputs' roots |
| `SharesEverything` | `NothingTwice` | needs `HashInv`; see below |
| `MeaningsAreKept` | `KeepsMeanings` | an action property, from `PoolInv`; see below |
| `SlotTypeCorrect` | `TypeOK` of `StateSlots` | inductive as it stands; the loops by `OutputsStay` and its like |
| `SlotsAreNotShared` | `EachHasItsOwn` | needs `SlotsInv`; see below |
| `LawsAreLatest` | `LawIsLatest` | from the same invariant |
| `StateOutlivesEdits` | `EditsKeepState` | an action property, from the types: no form and no loop writes a value of a slot in use |
| `SessionTypeCorrect` | | `SessionTypeOK`, inductive as it stands |
| `BurstsAlwaysKeepDistance` | `BurstsKeepTheirDistance` | needs `RateInv`: the limit is the period of the rate, and the clock's difference is not more than the time passed |
| `FramesAlwaysFollow` | `FramesFollowTheirConfig` | needs `MixInv`; see below |
| `AnswersAlwaysMatch` | `AnswersMatch` | needs `LinesInv`; see below |
| `CapturedPulsesAreKept` | `PulseIsKept` | needs `ReaderHoldsPulse`: a read that is about to reset the latch already holds the pulse |
| `LevelIsCurrent` | `StateFollowsGate` | needs `HandlerHoldsLevel`: a handler that has read the pin holds its level, or another run is requested |
| `LightNeverDrifts` | `LightIsAsAsked` | needs `LightInv`: what the light is ahead of what was asked is the error the timer carries |
| `BouncesNeverCount` | `BouncesAreNot` | needs `DialInv`: a code of the knob half way is stored only if it was seen half way since the last count |
| `NobodyMissesOut` | `TheRestHears` | needs `NetworkInv`: the message's list has no addresses but those scanned, and who has stayed is there |
| `RingIsMailbox` | `IsMailbox` | `I2CIncoming` implements `Mailbox`; needs `RingInv`; see below |
| `KnobsAlwaysAsSent` | `KnobsAreAsSent` | needs `KnobsInv`; see below |
| `LookingOnlyMarks` | `LookedSpec` | `Projection` implements `LookedSpec` of `LiveEngine`; needs `LookInv`; see below |
| `ProjectedIsPlayed` | used by the next two | one sample of a fork is the sample a tick would play |
| `WindowsAreSampled` | `WindowIsSampled` | from `PlayInv` |
| `ProjectionsComeTrue` | `FutureIsReal` | an action property, from `PlayInv`; see below |
| `PanelShowsTheOutputs` | `JacksShowTheOutputs` | needs `PanelInv`: who drives which pin is set before the first output is written; by cases over the four boards |
| `AnswersAreJson` | `WellFormed` | needs `JsonInv` or `Spoilt`; see below |
| `AnswersAreCurrent` | `TellsWhatHappened` | needs `WindowInv`, `RingInv`, `CountInv` and `GaugeInv`; see below |
| `MirrorsAgree` | `MirrorAgrees` | needs `MirrorInv`; see below |
| `ClassesAreSound` | `ClassIsSound` | needs `WalkInv`; see below |
| `SuggestionsAreNearest` | `SuggestionIsNearest` | needs `NamesInv`; see below |
| `LinesAlwaysAlone` | `LinesAreReadAlone` | a fact about all texts of the user's characters (`LinesOf`); see below |

The central argument is that compilation is local.  `ReachIsLocal`: two cell
stores that agree on what a text reaches in the first reach the same cells.  From
it follow `CompilesIsLocal` and `GraphIsLocal`.  So when cell `c` is rebound, either
`c` is reached by the output's source, and then it is among the recorded
dependencies and the output is recompiled, or it is not reached, and then what the
source compiles to has not changed.  The reach may change with `c`; if it then
leaves the recorded dependencies, the property claims nothing of that output, and
section 4 says why nothing more can be claimed.

`SavedProgramsComeBack` needs more than locality.  A compilation sees of a cell
only its `Read`: a number and a vector of the same value are the same to it
(`SeenCompiles`).  `FlashInv` adds two facts to the types: every graph that runs is
what its text compiled to in *some* store (`RunsCompiled`), and a program that ran
its source when it was saved compiles in the cells saved with it
(`SavedCompiles`).  The second follows from the first because a graph tells what
its text saw (`SameGraph`), so that the store it was compiled in and the present
one look alike wherever the text reaches.  A restored cell looks to a compilation
as the saved one did unless it was empty, and nothing that a compilable text
reaches is empty (`ReachIsBound`).

`SharesEverything` rests on what a search of the table needs (`TableOK`): each node
that is in the table is met on its probes before any empty place, and no place
repeats another's node.  A search stops at its first empty place or at an equal node
(`HasFirst`, by the well-foundedness of `<`); if it stops at an empty place, no
equal node is further on, so the new node has no twin (`NoTwin`).  The new node
finds a place because the probes visit all places (`ProbesVisitAll`) and, by the
pigeonhole principle, fewer nodes than places leave one empty (`FreePlace`).  While
the collector rebuilds the table, the invariant speaks of the nodes put back so far
(`Tabled`).  That the nodes stay different when they are renumbered follows because
the renumbering is injective on live nodes and their inputs.

`MeaningsAreKept` first shows that there is a function that follows the recursion of
`Meaning` (`MeaningsFollow`): it is over inputs, and inputs come first.  Then one lemma
serves interning and collecting: nodes that are taken to nodes with the same operation,
whose inputs are taken along or are none, keep their meanings (`SameMeaning`, by a least
counterexample).  Interning takes every node to itself, the collector takes every live
node to its new number, and every root and law that counts is live.

Recursion up to a bound, which is how the models write the loops of the code, is
reasoned about with the lemmas of `BoundedRecursion`.  They speak of sets where one
would speak of predicates: every nonempty set of numbers has a least (`LeastOf`), a set
that goes on from each number to the next has them all (`Reached`), and a step that
stays in a set defines a function into it (`Recursion`).

`SlotsInv` says that every state cell and identifier with a slot has its own state there
and, unless it is being compiled, its own law, which for a cell is its latest update
(`Apart`); and that a slot's source is that of a cell that is still a state cell, so that
no change compiles the source of an older owner into a slot given out anew.  It is about
the tables while a form is compiled, too: every loop keeps it turn by turn.  It speaks of
the time up to the first `useq-clear` or vector that meets a state cell (`sound`); after
that it is false.

`MixInv` puts requests and answers in the order they were sent in and says of every
frame on its way that it fits the stream-config whose answer the editor will have read
by then (`Governs` finds it), and of the device's table that it fits the last one.  A
stream-config that counts was sent in this session, and so was all that follows it, which
is what restarts and reconnections could break.

`LinesInv` describes the bytes in the ring and on the wire at once: they are an ordered
and complete tail of the bytes of all messages sent (`Flows`), so that however lines are cut and held back,
the bytes of one end before those of the next begin.  Messages up to some number have been dealt
with, the last of them that is owed an answer being answered (`DealtWith`), and none after has lost its beginning
(`Unread`), unless it is junk, which has none.  Extraction up to a newline deals with
exactly one more.

`RingInv` says that the ring holds `n` messages for some `n` up to its capacity: the
flags of the `n` places from the tail on are the ones that are set, and the head is `n`
places after the tail.  The contents of the ring are then the queue of the mailbox; a
push puts a message at its end or is refused, at every wrap.

`KnobsInv` follows the lines on their way: what the firmware will have after each of
them, one after the other, ends in slots that agree with the browser's identifiers and
with what the editor wishes of every knob.  A message sent adds a step at the end, one
that is read removes the first.  That the last entry that means a number decides, and
that none after a word counts, is an induction over the entries (`HeardWalks`).

`LookingOnlyMarks` is a refinement without a mapping: `Projection` has the variables of
`LiveEngine` and more.  Its invariant says that a machine is its five fields (`IsMachine`,
so that putting the fields back gives the machine, `PutBackIsSaved`) and that a valid
output has a program (`RunsGiven`), so that the marks a look leaves are those of the
outputs that run (`HealedIs`), whatever was refused before.  While no output runs marked
invalid there is nothing to mark (`NothingToHeal`), and then the looks leave `LiveSpec`
itself.  Each group of calls has a lemma that it leaves the live variables or marks
(`ObserveLeaves`), or ticks them once and leaves or marks (`TickAndProjectLeaves`).

`ProjectedIsPlayed` is the step of the other half: machines that agree on states, time
and what valid outputs show (`Agree`) give every valid output the same sample and
agree afterwards, although a live tick commits valid outputs only and a fork all of
them.  `PlayInv` remembers a trail of live machines since the clone, one for each time
that was projected, that ends in a machine that agrees with the fork.  So a further
extension shows what the live engine will play then, however many lie between, and
whatever the live engine did meanwhile.  While an output runs marked invalid nothing has
been projected from the fork: the evaluation that refused its text dropped the fork, and a
projection would have marked it (`ForkIs`).

`JsonInv` says where a reader of JSON is that has read what was written: it has the open
scopes on its stack and awaits what the writer may write next, which the writer's comma
flags say (`Awaits`).  A reader's state after a text is a recursive function of its
tokens; that what it reads next depends on that state only (`ReadOn`) lets each call of
the builder be read by itself, an escaped string of any length included.  Once a field was
written in an array the invariant is `Spoilt`: the reader has met a key where it wants
a value, and a reader that is lost stays lost whatever follows (`LostForEver`).

Telemetry's four invariants relate what the code keeps to a history of all that was
measured.  `WindowInv` has the sum, the shortest and the longest of the ticks
since the window last began, `RingInv` the newest
events at the places before the head, whatever wraps, `CountInv` and `GaugeInv` the
names in the order in which they were first used, up to the places there are, with every
count and the last value.  What the answers serialize are folds over those tables.

`MirrorInv` says that the browser is what it was before with the snapshot applied to it,
whatever happened to the device in the meantime (`Applied(before, Snapshots(taken))`).  The
theorem follows because two engines that evaluate the same texts in the same order take
the same slots for the same owners (`Alike`, `AlikeNext`, `EvalsAlike`), although the
browser's may have been used before, and because what the snapshot then patches in by
name goes to the slot that has the name (`PatchedIs`).

`WalkInv` is about a walk that is under way: every node that was visited or is on the
stack feeds the root, what was noted is what the visited nodes read, and the inputs of a
visited node are visited or on the stack, which has at most one more than twice as many
entries as there are visited nodes and so never overflows while the graph is less than
half the pool.  When the stack is empty the visited nodes are all that feed the root.
That each of them matters is the other half: the value of a node is a sum, so a leaf that
feeds the root makes it greater, and one that does not leaves it as it is, by recursion
over the order of the nodes.

`SuggestionsAreNearest` needs that the row of distances, which is overwritten from left
to right while the old value of one place is kept aside, holds the distances of prefixes
(`LeastIsAsInRow`).  The least number of edits over all ways of letting letters stand for
others obeys the row's equations (`Least` over `Ways`: the last letters stand for each
other, or the one or the other stands for none).  The loops over the candidates keep the
first of the nearest (`Kept`).

`LinesAlwaysAlone` rests on `HereInLine`: outside of a string, what is read at a place does
not depend on what comes after the end of the line, although comments, symbols and
numbers are looked for in the whole text and strtod is given no length.  Up to the end of
the line the loop over the whole text and the loop over the line alone are therefore in the
same state, and after it the loop is in the state the rest's own loop is in, further on and
with the line's tokens before it (`LineApart`).  Leaving out tokens that find no room
gives the same before and after (`AtMostTwice`).

The assumptions on constants are named in the modules that declare them, and TLC
evaluates them in every run.  They say what the code fixes or checks: limits are natural
numbers and those of tables are not zero; the hash is in the table (`HomeAssumption`); a
file that is missing or damaged is not a patch (`FileAssumption`); messages have at
least one byte and junk no identifier (`LineAssumption`); no text gives a knob bounds
out of order, which `compile_live_edit` refuses (`KnobAssumption`); samples of the
converter are below its scale (`SamplesAssumption`); a board is one of the four
(`BoardAssumption`); no caller of the JSON writer nests deeper than its flags go
(`NestingAssumption`, which the answers' eight levels justify); rings, windows and the clock
are not empty (`SizesAssumption`); names have letters (`WordAssumption`); leaves are among
the operations without inputs (`LeafAssumption`); no digit is a sign, a point or a separator
(`ReaderAssumption`).

Only model-checked:

- The liveness properties (`ProgramIsHeard`, `ChangesAreShown`, `RequestsAreAnswered`),
  which are out of the prover's reach.
- `MeansTheText`, `UnlistedCellsDoNotMatter`, `RemembersItsHistory`, `StatesHaveLaws` and
  `KnobsSurviveEdits`: the compiler (`GraphBuilder`) and the meaning of expressions
  (`Language`) are operators that call each other recursively over texts and trees, and
  what such an operator computes for every text is an induction over data.
- `FormsRunInOrder`: what a form in the stream is, is defined over trees of any depth.

## 6. What is not modelled

- The legacy interpreter (`uSEQ.cpp`, `lisp/`, `ml/`, `dsp/`, `io/`): neither the
  firmware nor the wrapper makes an object of it.  The DSP stub is empty.
- Numbers beyond quarters: floating point, the transcendental functions, the
  arithmetic of bars and beats behind the time settings (the forms that set them are
  in `Forms`).
- Wording: diagnostics, logs, formatting of answers, and the functions of the wrapper
  that only print the engine's state.
- The search for a field in a received line; escapes in a received string are not read
  back as `\u` writes them, so identifiers are plain.
- The file system and its layout on flash, the emulated storage of the desktop build,
  the watchdog, plain switches (one read each), the boot light that nothing calls and
  `update_leds`, which is empty.
- Texts whose compilation does not end (a cycle that the inline stack does not recognise,
  section 4), and numbers given to symbols without a limit.

## 7. Plan

Every part of the live firmware and of the wrapper that keeps state has a module, and
the safety properties of those without recursion over trees are theorems.  What would add
most next:

1. `StatesHaveLaws` and `KnobsSurviveEdits`, over an abstraction of `GraphBuilder` in
   which a compilation is any sequence of the changes it makes to the builder; the
   builder would then be shown to implement it by TLC.
2. `FormsRunInOrder` for forms that are flat, over a `Forms` whose loops are functions as
   the reader's are.
3. A model of the tick as a whole, in which serial intake, evaluation and outputs share
   one clock, for the time settings.
