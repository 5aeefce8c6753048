------------------------------ MODULE Session ------------------------------
(***************************************************************************)
(* An editor and the device at the two ends of a USB port: the greeting,   *)
(* the choice of the channels to stream, the frames that carry them and    *)
(* what the editor makes of those, through restarts of the device and      *)
(* reconnections of the editor (firmware/serial_protocol.cpp, called from  *)
(* Firmware::tick).                                                        *)
(*                                                                         *)
(* Messages are whole here; module SerialProtocol is about their bytes,    *)
(* and module LiveInputs about requests that have nothing to do with       *)
(* streaming.  Time is counted in half periods of the fastest stream.      *)
(***************************************************************************)
EXTENDS Naturals, Sequences, FiniteSetsExt

CONSTANTS
  Input,        \* signals streamed when they change
  Output,       \* signals streamed in every burst
  Time,         \* "time"
  Level,        \* what an input may be
  Blank,        \* the editor shows nothing
  Config,       \* the stream-config messages an editor may send: a rate, 0 for none, and
                \* channels, each with a name and whether it is enabled
  NoConfig,     \* the editor has none in force
  MaxChannels,  \* MAX_STREAM_CHANNELS
  Capacity,     \* how many frames fit Serial's transmit buffer
  Wrap,         \* the modulus of micros()
  MaxStep,      \* bound: the longest tick
  MaxRequests,  \* bound: how many requests are sent
  MaxFaults     \* bound: restarts and reconnections

Signal == Input \cup Output \cup {Time}

ASSUME ConfigAssumption ==
  \A c \in Config : /\ c.hz \in Nat
                    /\ c.channels \in Seq([name : Signal, enabled : BOOLEAN])

ASSUME SessionAssumption ==
  /\ Time \notin Input \cup Output
  /\ MaxChannels \in Nat \ {0} /\ Capacity \in Nat
  /\ Wrap \in Nat \ {0} /\ MaxStep \in Nat

VARIABLES
  requests,  \* requests on their way to the device
  tx,        \* what is on its way to the editor
  jsonMode,  \* m_json_mode
  table,     \* stream_channels[0 .. num_stream_channels - 1]
  limit,     \* stream_rate_limit_us
  since,     \* micros() - m_last_stream_us
  sample,    \* io.inputs
  number,    \* the editor's last request identifier
  opened,    \* the last one it had used when it opened the port
  greeted,   \* it has read an answer to a hello
  config,    \* the stream-config it goes by: the last that was answered
  shown,     \* what it shows of every input
  gap,       \* history: the time since the last burst, as far as it matters
  early,     \* history: a burst has come sooner than it may
  rate,      \* history: the last rate that was asked for
  mistaken,  \* history: a frame was not what the answered stream-config says
  faults

board == <<jsonMode, table, limit, since>>
editor == <<opened, greeted, config, shown, mistaken>>
session == <<requests, tx, board, sample, number, editor, gap, early, rate, faults>>

-----------------------------------------------------------------------------
(* A channel of the table, as it is after stream_channels[i] = {}.         *)
Channel(name) == [source |-> name, last |-> 0]

(* The members of W that are numbers from 1 to n in order, the first       *)
(* `most' of them.                                                         *)
WithNext(chosen, i, W, most) ==
  IF i \in W /\ Len(chosen) < most THEN Append(chosen, i) ELSE chosen

Chosen(n, W, most) ==
  LET upTo[i \in 0 .. n] == IF i = 0 THEN <<>> ELSE WithNext(upTo[i - 1], i, W, most)
  IN upTo[n]

(* handle_stream_config's walk of the array.  `continue' leaves the walk   *)
(* in the first enabled element that says "time": its brace is counted     *)
(* twice, and no brace after it opens an element any more.                 *)
Walked(channels) ==
  {k \in DOMAIN channels :
     channels[k].enabled /\ \A j \in 1 .. k : channels[j].enabled => channels[j].name # Time}

Listed(channels, chosen) ==
  <<Time>> \o [i \in DOMAIN chosen |-> channels[chosen[i]].name]

TableWith(channels, chosen) ==
  [i \in DOMAIN Listed(channels, chosen) |-> Channel(Listed(channels, chosen)[i])]

TableOfAll ==   \* mutant: "enabled" is not looked at
  [c \in Config |->
     TableWith(c.channels, Chosen(Len(c.channels), DOMAIN c.channels, MaxChannels - 1))]

TableFor ==
  [c \in Config |->
     TableWith(c.channels, Chosen(Len(c.channels), Walked(c.channels), MaxChannels - 1))]

LimitUncapped(hz, old) == IF hz = 0 THEN old ELSE 200 \div hz   \* mutant: any rate is granted

(* A rate above 100 Hz is taken for 100, none leaves the limit as it was.  *)
LimitFor(hz, old) == IF hz = 0 THEN old ELSE 200 \div Min({hz, 100})

Answer(r) == [kind |-> "answer", of |-> r]

(* read_command: dispatch_message, and for an eval Firmware::tick.  The    *)
(* answer waits for room.                                                  *)
Handled(r) ==
  [mode  |-> jsonMode \/ r.kind = "hello",
   table |-> IF r.kind = "config" THEN TableFor[r.config] ELSE table,
   limit |-> IF r.kind = "config" THEN LimitFor(r.config.hz, limit) ELSE limit,
   rate  |-> IF r.kind = "config" /\ r.config.hz # 0 THEN r.config.hz ELSE rate,
   tx    |-> Append(tx, Answer(r))]

Idle == [mode |-> jsonMode, table |-> table, limit |-> limit, rate |-> rate, tx |-> tx]

-----------------------------------------------------------------------------
Now(source) == IF source \in Input THEN sample[source] ELSE 0

FrameOf(i, source) == [kind |-> "frame", channel |-> i, source |-> source, value |-> Now(source)]

(* Whether a channel has something to send.                                *)
HasNews(c) == c.source \in Input => Now(c.source) # c.last

(* send_stream_data's loop: a channel without news is passed over, and the *)
(* first for which there is no room ends the burst.                        *)
Fitting(d) ==
  Chosen(Len(d.table), {i \in DOMAIN d.table : HasNews(d.table[i])},
         IF Len(d.tx) < Capacity THEN Capacity - Len(d.tx) ELSE 0)

Frames(d, sent) == [k \in DOMAIN sent |-> FrameOf(sent[k], d.table[sent[k]].source)]

RememberAll(d, sent) ==   \* mutant: last_sent is set before the room is checked
  [i \in DOMAIN d.table |-> [d.table[i] EXCEPT !.last = Now(d.table[i].source)]]

WithLastSent(d, sent) ==
  [i \in DOMAIN d.table |->
     IF \E k \in DOMAIN sent : sent[k] = i
     THEN [d.table[i] EXCEPT !.last = Now(d.table[i].source)] ELSE d.table[i]]

(* The shortest time there may be between two bursts.                      *)
Period(hz) == Max({2, 200 \div hz})

(* send_stream_data: only after a hello, and not before the limit is past. *)
Due(d, passed) == d.mode /\ passed >= d.limit

(* Firmware::tick, seen from here: it may find a request, and ends with    *)
(* send_stream_data.                                                       *)
Burst(d, step) ==
  /\ \E sent \in {Fitting(d)} : tx' = d.tx \o Frames(d, sent) /\ table' = WithLastSent(d, sent)
  /\ since' = 0 /\ gap' = 0 /\ early' = (early \/ gap + step < Period(d.rate))

TickWith(found) ==
  \E step \in 1 .. MaxStep :
    LET d == IF found THEN Handled(Head(requests)) ELSE Idle
        passed == (since + step) % Wrap
    IN /\ found => requests # <<>>
       /\ requests' = IF found THEN Tail(requests) ELSE requests
       /\ jsonMode' = d.mode
       /\ limit' = d.limit
       /\ rate' = d.rate
       /\ IF Due(d, passed) THEN Burst(d, step)
          ELSE tx' = d.tx /\ table' = d.table /\ since' = passed
               /\ gap' = Min({gap + step, Wrap}) /\ UNCHANGED early
       /\ UNCHANGED <<sample, number, editor, faults>>

Tick == TickWith(FALSE)

TickTakes == TickWith(TRUE)

(* An input moves.                                                         *)
Turn(i) ==
  /\ \E v \in Level \ {sample[i]} : sample' = [sample EXCEPT ![i] = v]
  /\ UNCHANGED <<requests, tx, board, number, editor, gap, early, rate, faults>>

-----------------------------------------------------------------------------
(* The editor.                                                             *)
Send(kind, c) ==
  /\ number < MaxRequests
  /\ number' = number + 1
  /\ requests' = Append(requests, [number |-> number + 1, kind |-> kind, config |-> c])
  /\ UNCHANGED <<tx, board, sample, editor, gap, early, rate, faults>>

Hello == Send("hello", NoConfig)

Configure == greeted /\ \E c \in Config : Send("config", c)

(* What the channels of a stream-config are called by the device, which    *)
(* does not look at the "id" it gives them: the time, then every enabled   *)
(* signal in order, as far as there is room.                               *)
Wanted(channels) == {k \in DOMAIN channels : channels[k].enabled /\ channels[k].name # Time}

Asked ==
  [c \in Config |->
     Listed(c.channels, Chosen(Len(c.channels), Wanted(c.channels), MaxChannels - 1))]

(* An answer to a request from before the port was opened finds nobody     *)
(* waiting.                                                                *)
ReadAnswer(m) ==
  /\ m.kind = "answer"
  /\ LET mine == m.of.number > opened
     IN /\ greeted' = (greeted \/ (mine /\ m.of.kind = "hello"))
        /\ config' = IF mine /\ m.of.kind = "config" THEN m.of.config ELSE config
  /\ UNCHANGED <<shown, mistaken>>

ReadReady(m) ==
  /\ m.kind = "ready"
  /\ greeted' = FALSE /\ config' = NoConfig
  /\ UNCHANGED <<shown, mistaken>>

(* A frame is taken for that of the signal asked for at its place among    *)
(* the enabled ones, once the request has been answered.                   *)
ReadFrame(m) ==
  /\ m.kind = "frame"
  /\ IF m.channel = 1 \/ config = NoConfig THEN UNCHANGED <<shown, mistaken>>
     ELSE LET names == Asked[config]
              known == m.channel \in DOMAIN names
          IN /\ mistaken' = (mistaken \/ ~known \/ names[m.channel] # m.source)
             /\ shown' = IF known /\ names[m.channel] \in Input
                         THEN [shown EXCEPT ![names[m.channel]] = m.value] ELSE shown
  /\ UNCHANGED <<greeted, config>>

Receive ==
  /\ tx # <<>> /\ tx' = Tail(tx)
  /\ ReadAnswer(Head(tx)) \/ ReadReady(Head(tx)) \/ ReadFrame(Head(tx))
  /\ UNCHANGED <<requests, board, sample, number, opened, gap, early, rate, faults>>

Disconnected ==
  /\ opened' = number /\ greeted' = FALSE /\ config' = NoConfig
  /\ shown' = [i \in Input |-> Blank]

(* The editor opens the port again: what had not been read is lost, and    *)
(* the device cannot tell.                                                 *)
Reopen ==
  /\ faults < MaxFaults /\ faults' = faults + 1
  /\ Disconnected
  /\ tx' = <<>>
  /\ UNCHANGED <<requests, board, sample, number, mistaken, gap, early, rate>>

Fresh ==
  /\ jsonMode' = FALSE /\ table' = <<Channel(Time)>>
  /\ limit' = 2 /\ since' = 0

(* The watchdog, or the power: Firmware::init, which ends with send_ready. *)
(* Whether a host is listening by then is another matter.                  *)
Restart ==
  /\ faults < MaxFaults /\ faults' = faults + 1
  /\ Fresh /\ Disconnected
  /\ gap' = Wrap /\ rate' = 100
  /\ requests' = <<>>
  /\ tx' \in {<<>>, <<[kind |-> "ready"]>>}
  /\ UNCHANGED <<sample, number, mistaken, early>>

-----------------------------------------------------------------------------
(* The device has booted; the default limit is that of 100 Hz.             *)
SessionInit ==
  /\ requests = <<>> /\ tx \in {<<>>, <<[kind |-> "ready"]>>}
  /\ jsonMode = FALSE /\ table = <<Channel(Time)>> /\ limit = 2 /\ since = 0
  /\ sample = [i \in Input |-> 0]
  /\ number = 0 /\ opened = 0 /\ greeted = FALSE /\ config = NoConfig
  /\ shown = [i \in Input |-> Blank] /\ mistaken = FALSE
  /\ gap = Wrap /\ early = FALSE /\ rate = 100 /\ faults = 0

Others == (\E i \in Input : Turn(i)) \/ Hello \/ Configure \/ Reopen \/ Restart

SessionNext == Tick \/ TickTakes \/ Receive \/ Others

(* The device keeps ticking, what was sent arrives, and the editor empties *)
(* the pipe again and again: only to read would not do, for a burst begins *)
(* with the first channel and may never come to the last.                  *)
SessionSpec == /\ SessionInit /\ [][SessionNext]_session
        /\ WF_session(Tick) /\ WF_session(TickTakes) /\ WF_session(Receive)
        /\ []<>(tx = <<>>)

-----------------------------------------------------------------------------
(* A frame's number always means the channel at that place in the last     *)
(* stream-config the editor has had an answer to, although every           *)
(* stream-config numbers the channels anew: also across a second one, a    *)
(* restart, or an old session's requests that are answered in a new one.   *)
(* (That these are not the numbers of the greeting is another matter.)     *)
FramesFollowTheirConfig == ~mistaken

(* Bursts, of at most one frame of every channel, keep the distance that   *)
(* the last stream-config asked for, and at least that of 100 Hz, also     *)
(* where the clock wraps around.                                           *)
BurstsKeepTheirDistance == ~early

(* The editor goes by the configuration that the device has.               *)
Settled(i) == /\ requests = <<>> /\ jsonMode /\ config # NoConfig
              /\ \E k \in DOMAIN Asked[config] : Asked[config][k] = i

(* An input that comes to rest at another value than 0 is shown as it is,  *)
(* even if there was no room for it in many bursts.                        *)
ChangesAreShown ==
  \A i \in Input : \A v \in Level \ {0} :
    <>[](Settled(i) /\ sample[i] = v) => <>[](shown[i] = v)

-----------------------------------------------------------------------------
(* docs/specs/wire-protocol.md 5.3: every enabled channel is streamed, the *)
(* time channel, which the document's own example lists first, included.   *)
TimeKeepsTheOthers ==
  config # NoConfig /\ requests = <<>> /\ tx = <<>> /\ jsonMode
    => [i \in DOMAIN table |-> table[i].source] = Asked[config]

=============================================================================
