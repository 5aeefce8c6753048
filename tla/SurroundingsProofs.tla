------------------------- MODULE SurroundingsProofs -------------------------
(***************************************************************************)
(* Theorems about the parts of the firmware that face the outside, for     *)
(* every value of their constants.  MCSurroundings puts the parts side by  *)
(* side and moves one of them; what is proved of a part holds of the       *)
(* whole.                                                                  *)
(***************************************************************************)
EXTENDS MCSurroundings, FiniteSetTheorems, BoundedRecursion

-----------------------------------------------------------------------------
(* The gate input and its interrupt handler.                               *)
(* A handler that has read the pin holds its level, unless a newer edge    *)
(* has requested another run.                                              *)
HandlerHoldsLevel ==
  isr = "store" /\ ~request => val = gate

(* A read that is about to reset the latch holds its pulse.                *)
ReaderHoldsPulse ==
  pc = "reset" => g1 = 1

PulseInv == GateTypeOK /\ PulseIsKept /\ ReaderHoldsPulse

LevelInv == GateTypeOK /\ StateFollowsGate /\ HandlerHoldsLevel

(* Every step keeps the types.                                             *)
LEMMA TypeStep == GateTypeOK /\ [GateNext]_gateVars => GateTypeOK'
<1> SUFFICES ASSUME GateTypeOK, [GateNext]_gateVars PROVE GateTypeOK'
  OBVIOUS
<1> USE DEF GateTypeOK, Bit, hardware, handler, reader
<1>1. CASE Edge
  BY <1>1 DEF Edge
<1>2. CASE EnterIsr
  BY <1>2 DEF EnterIsr
<1>3. CASE ReadPin
  BY <1>3 DEF ReadPin
<1>4. CASE StoreLevel
  BY <1>4 DEF StoreLevel
<1>5. CASE LoadState
  BY <1>5 DEF LoadState
<1>6. CASE TestLatch
  BY <1>6 DEF TestLatch
<1>7. CASE ResetLatch
  BY <1>7 DEF ResetLatch
<1>8. CASE Publish
  BY <1>8 DEF Publish
<1>9. CASE UNCHANGED gateVars
  BY <1>9 DEF gateVars
<1> QED
  BY <1>1, <1>2, <1>3, <1>4, <1>5, <1>6, <1>7, <1>8, <1>9 DEF GateNext, Isr, ReadInputs

(* The handler only ever sets the latch and runs between two accesses of   *)
(* the read; the read gives the latch up only with the pulse in hand.      *)
LEMMA PulseStep == PulseInv /\ [GateNext]_gateVars => PulseInv'
<1> SUFFICES ASSUME PulseInv, [GateNext]_gateVars PROVE PulseIsKept' /\ ReaderHoldsPulse'
  BY TypeStep DEF PulseInv
<1> USE DEF PulseInv, PulseIsKept, ReaderHoldsPulse, hardware, handler, reader
<1>1. CASE Edge
  BY <1>1 DEF Edge
<1>2. CASE EnterIsr
  BY <1>2 DEF EnterIsr
<1>3. CASE ReadPin
  BY <1>3 DEF ReadPin
<1>4. CASE StoreLevel
  BY <1>4 DEF StoreLevel
<1>5. CASE LoadState
  BY <1>5 DEF LoadState
<1>6. CASE TestLatch
  BY <1>6 DEF TestLatch
<1>7. CASE ResetLatch
  BY <1>7 DEF ResetLatch
<1>8. CASE Publish
  BY <1>8 DEF Publish, GateTypeOK, Bit
<1>9. CASE UNCHANGED gateVars
  BY <1>9 DEF gateVars
<1> QED
  BY <1>1, <1>2, <1>3, <1>4, <1>5, <1>6, <1>7, <1>8, <1>9 DEF GateNext, Isr, ReadInputs

(* No pulse that the interrupt handler saw is lost, wherever it preempts   *)
(* read_inputs.                                                            *)
THEOREM CapturedPulsesAreKept == GateSpec => []PulseIsKept
<1>1. GateInit => PulseInv
  BY DEF GateInit, PulseInv, GateTypeOK, Bit, PulseIsKept, ReaderHoldsPulse
<1>2. PulseInv => PulseIsKept
  BY DEF PulseInv
<1> QED
  BY <1>1, <1>2, PulseStep, PTL DEF GateSpec

(* The value the handler read is the level of the jack until a new edge    *)
(* requests another run.                                                   *)
LEMMA LevelStep == LevelInv /\ [GateNext]_gateVars => LevelInv'
<1> SUFFICES ASSUME LevelInv, [GateNext]_gateVars PROVE StateFollowsGate' /\ HandlerHoldsLevel'
  BY TypeStep DEF LevelInv
<1> USE DEF LevelInv, StateFollowsGate, HandlerHoldsLevel, hardware, handler, reader
<1>1. CASE Edge
  BY <1>1 DEF Edge
<1>2. CASE EnterIsr
  BY <1>2 DEF EnterIsr
<1>3. CASE ReadPin
  BY <1>3 DEF ReadPin
<1>4. CASE StoreLevel
  BY <1>4 DEF StoreLevel
<1>5. CASE ReadInputs
  BY <1>5 DEF ReadInputs, LoadState, TestLatch, ResetLatch, Publish
<1>6. CASE UNCHANGED gateVars
  BY <1>6 DEF gateVars
<1> QED
  BY <1>1, <1>2, <1>3, <1>4, <1>5, <1>6 DEF GateNext, Isr

(* Whenever no interrupt is requested or running, the stored level is the  *)
(* level at the jack, once the jack has moved.                             *)
THEOREM LevelIsCurrent == GateSpec => []StateFollowsGate
<1>1. GateInit => LevelInv
  BY DEF GateInit, LevelInv, GateTypeOK, Bit, StateFollowsGate, HandlerHoldsLevel
<1>2. LevelInv => StateFollowsGate
  BY DEF LevelInv
<1> QED
  BY <1>1, <1>2, LevelStep, PTL DEF GateSpec

-----------------------------------------------------------------------------
(* What a part does, it does in the whole.                                 *)
LEMMA PartsMove ==
  /\ AroundInit => Ring!Init /\ Dial!Init /\ Analog!Init /\ Network!Init /\ Panel!Init
  /\ [AroundNext]_everything =>
       /\ [Ring!Next]_ringVars /\ [Dial!Next]_dialVars /\ [Analog!Next]_analogVars
       /\ [Network!Next]_networkVars /\ [Panel!Next]_panelVars
<1>1. AroundInit => Ring!Init /\ Dial!Init /\ Analog!Init /\ Network!Init /\ Panel!Init
  BY DEF AroundInit
<1>2. ASSUME [AroundNext]_everything
      PROVE  /\ [Ring!Next]_ringVars /\ [Dial!Next]_dialVars /\ [Analog!Next]_analogVars
             /\ [Network!Next]_networkVars /\ [Panel!Next]_panelVars
  BY <1>2 DEF AroundNext, Only, everything
<1>3. QED
  BY <1>1, <1>2

-----------------------------------------------------------------------------
(* The light of an analog input.                                           *)
LightInv == w \in 0 .. Scale - 1 /\ err \in 0 .. Scale - 1 /\ ahead = err

LEMMA BrightnessBound ==
  ASSUME NEW r \in Samples
  PROVE  Analog!Brightness(r) \in 0 .. Scale - 1
<1>1. r \in 0 .. Scale - 1 /\ Scale \in Nat \ {0}
  BY SamplesAssumption
<1>2. r * r \in Nat /\ r * r < Scale * Scale
  BY <1>1
<1>3. QED
  BY <1>1, <1>2 DEF Analog!Brightness

LEMMA LightStep == LightInv /\ [Analog!Next]_analogVars => LightInv'
<1> SUFFICES ASSUME LightInv, [Analog!Next]_analogVars PROVE LightInv'
  OBVIOUS
<1> USE SamplesAssumption DEF LightInv
<1>1. CASE \E r \in Samples : Analog!ReadInputs(r)
  BY <1>1, BrightnessBound DEF Analog!ReadInputs, Analog!light
<1>2. CASE Analog!Timer
  <2>1. err' = Scale * Analog!Lit(w, err) - w + err /\ ahead' = ahead + Scale * Analog!Lit(w, err) - w
          /\ w' = w
    BY <1>2 DEF Analog!Timer
  <2>2. CASE w > err
    BY <2>1, <2>2 DEF Analog!Lit
  <2>3. CASE ~(w > err)
    BY <2>1, <2>3 DEF Analog!Lit
  <2>4. QED
    BY <2>2, <2>3
<1>3. CASE UNCHANGED analogVars
  BY <1>3 DEF analogVars
<1>4. QED
  BY <1>1, <1>2, <1>3 DEF Analog!Next

(* The light given is never behind the brightness asked for nor a whole    *)
(* flash ahead, for converters of any width and any moments at which       *)
(* read_inputs changes what the timer interrupt reads.                     *)
THEOREM LightNeverDrifts == AroundSpec => []LightIsAsAsked
<1>1. Analog!Init => LightInv
  BY SamplesAssumption DEF Analog!Init, LightInv
<1>2. LightInv => LightIsAsAsked
  BY DEF LightInv, LightIsAsAsked, Analog!LightIsAsAsked
<1>3. QED
  BY <1>1, <1>2, PartsMove, LightStep, PTL DEF AroundSpec

-----------------------------------------------------------------------------
(* The rotary encoder: a transition that begins half way between detents   *)
(* has been stored only while the knob had been seen there.                *)
DialInv ==
  /\ phase \in Int /\ code \in 0 .. 15 /\ store \in 0 .. 255 /\ count \in Int
  /\ half \in BOOLEAN
  /\ code % 4 = 0 => half
  /\ store % 16 \in {1, 2} => half

LEMMA LowBits ==
  /\ \A n \in Nat, x \in 0 .. 255 : (256 * n + x) % 256 = x
  /\ \A n \in Nat, x \in 0 .. 15 : (16 * n + x) % 16 = x
  OBVIOUS

LEMMA DialStep ==
  DialInv /\ [Dial!Next]_dialVars =>
    /\ DialInv'
    /\ [count' # count => Dial!AtDetent(phase) /\ half /\ count' - count \in {-1, 1}]_dialVars
<1> SUFFICES ASSUME DialInv, [Dial!Next]_dialVars
             PROVE  /\ DialInv'
                    /\ [count' # count => Dial!AtDetent(phase) /\ half
                                          /\ count' - count \in {-1, 1}]_dialVars
  OBVIOUS
<1> USE DEF DialInv
<1>1. CASE Dial!Turn(1) \/ Dial!Turn(-1)
  BY <1>1 DEF Dial!Turn
<1>2. CASE Dial!ReadRotary
  <2> DEFINE new == Dial!Contacts(phase)
             c == (code * 4 + new) % 16
  <2>1. /\ new \in 0 .. 3 /\ (new = 0 <=> phase % 4 = 2) /\ (new = 3 <=> phase % 4 = 0)
    BY DEF Dial!Contacts
  <2> HIDE DEF new
  <2>2. /\ c \in 0 .. 15 /\ c % 4 = new /\ c = (code % 4) * 4 + new
    BY <2>1
  <2> HIDE DEF c
  <2>3. /\ code' = c /\ store' = Dial!Stored(c) /\ count' = count + Dial!Step(c)
        /\ half' = IF phase % 4 = 2 THEN TRUE ELSE half /\ Dial!Step(c) = 0
        /\ phase' = phase
    BY <1>2 DEF Dial!ReadRotary, c, new
  <2>8. c \in 0 .. 15
    BY <2>2
  <2>7. /\ half' \in BOOLEAN
        /\ phase % 4 = 2 => half'
        /\ half /\ Dial!Step(c) = 0 => half'
    <3>1. (half /\ Dial!Step(c) = 0) \in BOOLEAN
      BY Zenon
    <3>2. QED
      BY <2>3, <3>1, Zenon
  <2>4. CASE ~Dial!Changed(c)
    <3>1. store' = store /\ count' = count
      BY <2>3, <2>4 DEF Dial!Stored, Dial!Step
    <3>2. half => half'
      BY <2>4, <2>7 DEF Dial!Step
    <3>3. QED
      BY <2>1, <2>2, <2>3, <2>7, <3>1, <3>2
  <2>5. CASE Dial!Changed(c)
    <3>1. store' = (store * 16 + c) % 256 /\ c \in {1, 2, 4, 7, 8, 11, 13, 14}
      BY <2>3, <2>5 DEF Dial!Stored, Dial!Changed
    <3>2. store' \in 0 .. 255 /\ store' % 16 = c /\ store' = (store % 16) * 16 + c
      <4> DEFINE q == store \div 16
                 r == store % 16
      <4>1. q \in Nat /\ r \in 0 .. 15 /\ store = 16 * q + r
        OBVIOUS
      <4> HIDE DEF q, r
      <4>2. r * 16 + c \in 0 .. 255 /\ c \in 0 .. 15 /\ r \in Nat
        BY <2>8, <4>1
      <4>3. (256 * q + (r * 16 + c)) % 256 = r * 16 + c /\ (16 * r + c) % 16 = c
        BY <4>1, <4>2, LowBits
      <4>4. store * 16 + c = 256 * q + (r * 16 + c) /\ 16 * r + c = r * 16 + c
        BY <4>1, <4>2
      <4>5. store' = r * 16 + c /\ store' % 16 = c
        BY <3>1, <4>3, <4>4
      <4>6. QED
        BY <4>2, <4>5 DEF r
    <3>3. CASE store' = 43 \/ store' = 23
      <4>1. count' - count \in {-1, 1} /\ Dial!Step(c) # 0
        BY <2>3, <2>5, <3>3 DEF Dial!Step
      <4>2. c \in {7, 11} /\ store % 16 \in {1, 2} /\ new = 3
        BY <2>2, <3>2, <3>3
      <4>3. phase % 4 = 0 /\ half
        BY <2>1, <4>2
      <4>4. count' \in Int
        BY <2>3, <4>1
      <4>5. code' = c /\ c % 4 = 3 /\ store' % 16 \notin {1, 2}
        BY <2>2, <2>3, <3>2, <4>2
      <4>6. DialInv'
        <5>1. code' % 4 # 0 /\ store' % 16 \notin {1, 2}
          BY <4>5
        <5>2. phase' \in Int /\ code' \in 0 .. 15 /\ store' \in 0 .. 255 /\ count' \in Int
          BY <2>3, <2>8, <3>2, <4>4
        <5>3. QED
          BY <2>7, <5>1, <5>2, Zenon
      <4>7. QED
        BY <4>1, <4>3, <4>6 DEF Dial!AtDetent
    <3>4. CASE store' # 43 /\ store' # 23
      <4>0. Dial!Step(c) = 0
        BY <2>3, <2>5, <3>4 DEF Dial!Step
      <4>1. count' = count /\ (half => half')
        BY <2>3, <2>7, <4>0
      <4>2. c \in {1, 2} => code % 4 = 0
        BY <2>2
      <4>3. QED
        BY <2>1, <2>2, <2>3, <2>7, <3>2, <4>1, <4>2
    <3>5. QED
      BY <3>3, <3>4
  <2>6. QED
    BY <2>4, <2>5
<1>3. CASE UNCHANGED dialVars
  BY <1>3 DEF dialVars
<1>4. QED
  BY <1>1, <1>2, <1>3 DEF Dial!Next

(* However the contacts bounce and whatever samples are missed, the count  *)
(* changes by one, at a detent, once for every time the knob was seen half *)
(* way.                                                                    *)
THEOREM BouncesNeverCount == AroundSpec => BouncesAreNot
<1>1. Dial!Init => DialInv
  BY DEF Dial!Init, DialInv
<1>2. QED
  BY <1>1, PartsMove, DialStep, PTL DEF AroundSpec, BouncesAreNot, Dial!BouncesAreNot,
     Dial!encoder, dialVars

-----------------------------------------------------------------------------
(* The modules on the bus: who has stayed is still there, and who is not   *)
(* waited for any more has the whole message.                              *)
Listing(s) == s \in Seq(Network!ToSet(s))

NetworkInv ==
  /\ kind \in [Address -> {"none", "expander", "other"}]
  /\ heard \in [Address -> Nat] /\ offset \in Nat
  /\ Listing(expanders) /\ Listing(message.to)
  /\ message = [to |-> message.to, length |-> message.length]
  /\ \A a \in stayed : a \in Address /\ kind[a] # "none"
  /\ Network!TheRestHears

LEMMA ListingOf ==
  ASSUME NEW S, NEW s \in Seq(S)
  PROVE  Listing(s)
<1>1. DOMAIN s = 1 .. Len(s) /\ Len(s) \in Nat
  OBVIOUS
<1>2. \A i \in 1 .. Len(s) : s[i] \in Network!ToSet(s)
  BY <1>1 DEF Network!ToSet
<1>3. QED
  BY <1>1, <1>2 DEF Listing

LEMMA ShortListings == Listing(<<>>) /\ \A x : Listing(<<x>>)
<1>1. \A x : <<x>> \in Seq({x})
  OBVIOUS
<1>2. <<>> \in Seq({})
  OBVIOUS
<1>3. QED
  BY <1>1, <1>2, ListingOf

LEMMA ListingRest ==
  ASSUME NEW s, Listing(s), s # <<>>
  PROVE  Listing(Tail(s)) /\ \A a \in Network!ToSet(s) : a = Head(s) \/ a \in Network!ToSet(Tail(s))
<1> DEFINE S == Network!ToSet(s)
<1>1. s \in Seq(S)
  BY DEF Listing
<1> HIDE DEF S
<1>2. /\ Tail(s) \in Seq(S) /\ Len(s) \in Nat /\ Len(Tail(s)) = Len(s) - 1 /\ Head(s) = s[1]
      /\ DOMAIN s = 1 .. Len(s) /\ DOMAIN Tail(s) = 1 .. Len(s) - 1
      /\ \A i \in 1 .. Len(s) - 1 : Tail(s)[i] = s[i + 1]
  BY <1>1
<1>3. ASSUME NEW a \in Network!ToSet(s), a # Head(s) PROVE a \in Network!ToSet(Tail(s))
  <2>1. PICK i \in 1 .. Len(s) : s[i] = a
    BY <1>2 DEF Network!ToSet
  <2>2. i - 1 \in 1 .. Len(s) - 1 /\ (i - 1) + 1 = i
    BY <1>2, <1>3, <2>1
  <2>3. Tail(s)[i - 1] = a
    BY <1>2, <2>1, <2>2
  <2>4. QED
    BY <1>2, <2>2, <2>3 DEF Network!ToSet
<1>4. QED
  BY <1>2, <1>3, ListingOf

LEMMA BeginKeeps ==
  ASSUME NetworkInv, NEW to, Listing(to), NEW length, Network!Begin(to, length)
  PROVE  NetworkInv'
<1>1. /\ message' = [to |-> to, length |-> length] /\ offset' = 0
      /\ heard' = [a \in Address |-> 0] /\ wanted' = Network!ToSet(to)
      /\ stayed' = {a \in Address : kind[a] # "none"}
      /\ UNCHANGED <<kind, expanders>>
  BY DEF Network!Begin
<1>2. message'.to = to /\ message'.length = length
  BY <1>1
<1>3. Network!TheRestHears'
  BY <1>1, <1>2 DEF Network!TheRestHears
<1>4. QED
  BY <1>1, <1>2, <1>3 DEF NetworkInv

LEMMA PacketKeeps ==
  ASSUME NetworkInv, Network!Packet
  PROVE  NetworkInv'
<1> DEFINE a == Head(message.to)
<1>1. /\ message.to # <<>>
      /\ IF kind[a] = "none" THEN Network!GivesUp
         ELSE /\ heard' = [heard EXCEPT ![a] = offset + 1]
              /\ IF offset + 1 = message.length THEN Network!NextOne
                 ELSE offset' = offset + 1 /\ UNCHANGED message
      /\ UNCHANGED <<kind, expanders, wanted, stayed>>
  BY DEF Network!Packet, Network!Idle
<1> DEFINE to == message.to
<1>2. Listing(Tail(to)) /\ \A b \in Network!ToSet(to) : b = a \/ b \in Network!ToSet(Tail(to))
  BY <1>1, ListingRest DEF NetworkInv
<1> HIDE DEF a
<1>3. Network!NextOne => /\ message' = [to |-> Tail(to), length |-> message.length]
                         /\ message'.to = Tail(to) /\ message'.length = message.length
                         /\ message' = [to |-> message'.to, length |-> message'.length]
                         /\ offset' = 0
  BY DEF Network!NextOne, NetworkInv
<1> HIDE DEF to
<1>0. heard \in [Address -> Nat] /\ offset \in Nat /\ offset + 1 \in Nat
  BY DEF NetworkInv
<1>4. CASE kind[a] = "none"
  <2>1. Network!NextOne /\ heard' = heard
    BY <1>1, <1>4 DEF Network!GivesUp
  <2>2. Network!TheRestHears'
    BY <1>1, <1>2, <1>3, <1>4, <2>1 DEF NetworkInv, Network!TheRestHears, to
  <2>3. Listing(message'.to) /\ offset' \in Nat /\ expanders' = expanders
    <3>1. message'.to = Tail(to) /\ offset' = 0
      BY <1>3, <2>1
    <3>2. Listing(message'.to)
      BY <1>2, <3>1
    <3>3. QED
      BY <1>1, <3>1, <3>2
  <2>4. QED
    BY <1>0, <1>1, <1>3, <2>1, <2>2, <2>3, Zenon DEF NetworkInv
<1>5. CASE kind[a] # "none" /\ offset + 1 = message.length
  <2>1. heard' = [heard EXCEPT ![a] = offset + 1] /\ Network!NextOne
    BY <1>1, <1>5
  <2>2. heard' \in [Address -> Nat]
    BY <1>0, <2>1
  <2>3. \A b \in Address : heard'[b] = IF b = a THEN message.length ELSE heard[b]
    BY <1>5, <2>1 DEF NetworkInv
  <2>4. Network!TheRestHears'
    BY <1>1, <1>2, <1>3, <2>1, <2>3 DEF NetworkInv, Network!TheRestHears, to
  <2>5. Listing(message'.to) /\ offset' \in Nat /\ expanders' = expanders
    <3>1. message'.to = Tail(to) /\ offset' = 0
      BY <1>3, <2>1
    <3>2. Listing(message'.to)
      BY <1>2, <3>1
    <3>3. QED
      BY <1>1, <3>1, <3>2
  <2>6. QED
    BY <1>1, <1>3, <2>1, <2>2, <2>4, <2>5, Zenon DEF NetworkInv
<1>6. CASE kind[a] # "none" /\ offset + 1 # message.length
  <2>1. heard' = [heard EXCEPT ![a] = offset + 1] /\ offset' = offset + 1 /\ message' = message
    BY <1>1, <1>6
  <2>2. heard' \in [Address -> Nat] /\ offset' \in Nat
    BY <1>0, <2>1
  <2>3. \A b \in Address : b # a => heard'[b] = heard[b]
    BY <2>1 DEF NetworkInv
  <2>4. a \in Network!ToSet(message.to)
    <3>1. 1 \in DOMAIN message.to /\ a = message.to[1]
      <4> DEFINE S == Network!ToSet(message.to)
      <4>1. message.to \in Seq(S) /\ message.to # <<>>
        BY <1>1 DEF NetworkInv, Listing
      <4> HIDE DEF S
      <4>2. QED
        BY <4>1 DEF a
    <3>2. QED
      BY <3>1 DEF Network!ToSet
  <2>5. Network!TheRestHears'
    BY <1>1, <2>1, <2>3, <2>4 DEF NetworkInv, Network!TheRestHears
  <2>6. QED
    BY <1>1, <2>1, <2>2, <2>5 DEF NetworkInv
<1>7. QED
  BY <1>4, <1>5, <1>6

LEMMA ScanKeeps ==
  ASSUME NetworkInv, Network!ScanForExpanders
  PROVE  NetworkInv'
<1> DEFINE n == IF Network!Cardinality(Network!Found) < MaxExpanders
                THEN Network!Cardinality(Network!Found) ELSE MaxExpanders
<1>1. expanders' = Network!Listed(n) /\ UNCHANGED <<kind, message, offset, heard, wanted, stayed>>
  BY DEF Network!ScanForExpanders
<1>2. n \in Nat
  <2>1. IsFiniteSet(Network!Found)
    BY AddressAssumption, FS_Subset DEF Network!Found
  <2>2. Network!Cardinality(Network!Found) \in Nat
    BY <2>1, FS_CardinalityType DEF Network!Cardinality, Cardinality
  <2>3. QED
    BY <2>2, AddressAssumption
<1> HIDE DEF n
<1>3. Listing(Network!Listed(n))
  <2> DEFINE at(i) == CHOOSE a \in Network!Found :
                        Network!Cardinality({b \in Network!Found : b < a}) = i - 1
  <2>1. Network!Listed(n) = [i \in 1 .. n |-> at(i)]
    BY DEF Network!Listed
  <2> HIDE DEF at
  <2>2. [i \in 1 .. n |-> at(i)] \in Seq({at(i) : i \in 1 .. n})
    BY <1>2
  <2>3. QED
    BY <2>1, <2>2, ListingOf
<1>4. QED
  BY <1>1, <1>3 DEF NetworkInv, Network!TheRestHears

LEMMA PlugKeeps ==
  ASSUME NetworkInv, NEW a \in Address, NEW k \in {"none", "expander", "other"},
         Network!Plug(a, k)
  PROVE  NetworkInv'
<1>1. /\ kind' = [kind EXCEPT ![a] = k] /\ stayed' = stayed \ {a}
      /\ UNCHANGED <<expanders, message, offset, heard, wanted>>
  BY DEF Network!Plug
<1>2. Network!TheRestHears'
  BY <1>1 DEF NetworkInv, Network!TheRestHears
<1>3. QED
  BY <1>1, <1>2 DEF NetworkInv

LEMMA NetworkStep == NetworkInv /\ [Network!Next]_networkVars => NetworkInv'
<1> SUFFICES ASSUME NetworkInv, [Network!Next]_networkVars PROVE NetworkInv'
  OBVIOUS
<1>1. CASE \E length \in Lengths : Network!Broadcast(length)
  BY <1>1, BeginKeeps DEF Network!Broadcast, NetworkInv
<1>2. CASE \E length \in Lengths : \E i \in 1 .. MaxExpanders : Network!SendEvalTo(i, length)
  <2> PICK length \in Lengths, i \in 1 .. MaxExpanders : Network!SendEvalTo(i, length)
    BY <1>2
  <2>1. Listing(<<expanders[i]>>)
    BY ShortListings
  <2>2. QED
    BY <2>1, BeginKeeps DEF Network!SendEvalTo
<1>3. CASE UNCHANGED networkVars
  BY <1>3 DEF networkVars, NetworkInv, Network!TheRestHears
<1>4. QED
  BY <1>1, <1>2, <1>3, ScanKeeps, PacketKeeps, PlugKeeps DEF Network!Next

(* An expander that keeps answering gets every message it is sent whole,   *)
(* whatever modules are pulled out between two packets, for any number of  *)
(* addresses and lengths.                                                  *)
THEOREM NobodyMissesOut == AroundSpec => []TheRestHears
<1>1. Network!Init => NetworkInv
  <2> SUFFICES ASSUME Network!Init PROVE NetworkInv
    OBVIOUS
  <2>1. Listing(<<>>)
    BY ShortListings
  <2>2. QED
    BY <2>1 DEF Network!Init, NetworkInv, Network!TheRestHears
<1>2. NetworkInv => TheRestHears
  BY DEF NetworkInv, TheRestHears
<1>3. QED
  BY <1>1, <1>2, PartsMove, NetworkStep, PTL DEF AroundSpec

-----------------------------------------------------------------------------
(* The ring of incoming messages.  While it holds n messages, the next one *)
(* goes n places after the oldest, and the flags of these n places are the *)
(* ones that are set.                                                      *)
Wrapped(x) == IF x < Capacity THEN x ELSE x - Capacity

Place(i, from) == IF i < from THEN i + Capacity - from ELSE i - from

RingTypes ==
  /\ data \in [Ring!Index -> Message \cup {Nothing}]
  /\ occupied \in [Ring!Index -> BOOLEAN]
  /\ newest \in Ring!Index /\ oldest \in Ring!Index

Holds(n) ==
  /\ RingTypes
  /\ n \in 0 .. Capacity
  /\ newest = Wrapped(oldest + n)
  /\ \A i \in Ring!Index : occupied[i] <=> Place(i, oldest) < n

RingInv == \E n \in 0 .. Capacity : Holds(n)

LEMMA Wraps == \A x \in 0 .. 2 * Capacity - 1 : x % Capacity = Wrapped(x)
<1> SUFFICES ASSUME NEW x \in 0 .. 2 * Capacity - 1 PROVE x % Capacity = Wrapped(x)
  OBVIOUS
<1>1. Capacity \in Nat \ {0}
  BY RingAssumption
<1>2. CASE x < Capacity
  BY <1>1, <1>2 DEF Wrapped
<1>3. CASE ~(x < Capacity)
  <2>1. x - Capacity \in 0 .. Capacity - 1 /\ x = Capacity * 1 + (x - Capacity)
    BY <1>1, <1>3
  <2>2. QED
    BY <1>1, <1>3, <2>1 DEF Wrapped
<1>4. QED
  BY <1>2, <1>3

LEMMA Around ==
  /\ \A i, from \in 0 .. Capacity - 1 : Place(i, from) \in 0 .. Capacity - 1
  /\ \A i \in 0 .. Capacity - 1 : Wrapped(i + Capacity) = i
<1>1. Capacity \in Nat
  BY RingAssumption
<1>2. ASSUME NEW i \in 0 .. Capacity - 1, NEW from \in 0 .. Capacity - 1
      PROVE  Place(i, from) \in 0 .. Capacity - 1
  <2>1. CASE i < from
    BY <1>1, <2>1 DEF Place
  <2>2. CASE ~(i < from)
    BY <1>1, <2>2 DEF Place
  <2>3. QED
    BY <2>1, <2>2
<1>3. QED
  BY <1>1, <1>2 DEF Wrapped

(* Then the count and the sequence of the messages are what they seem.     *)
LEMMA Counted ==
  \A n : Holds(n) =>
    /\ Ring!Count = n /\ Ring!FlagsAgree
    /\ occupied[oldest] <=> n > 0
    /\ occupied[newest] <=> n = Capacity
    /\ (newest # oldest \/ occupied[oldest]) <=> n > 0
    /\ Ring!Contents = [i \in 1 .. n |-> data[Wrapped(oldest + i - 1)]]
<1> SUFFICES ASSUME NEW n, Holds(n)
             PROVE  /\ Ring!Count = n /\ Ring!FlagsAgree
                    /\ occupied[oldest] <=> n > 0
                    /\ occupied[newest] <=> n = Capacity
                    /\ (newest # oldest \/ occupied[oldest]) <=> n > 0
                    /\ Ring!Contents = [i \in 1 .. n |-> data[Wrapped(oldest + i - 1)]]
  OBVIOUS
<1>1. /\ Capacity \in Nat \ {0} /\ n \in 0 .. Capacity
      /\ newest \in 0 .. Capacity - 1 /\ oldest \in 0 .. Capacity - 1
  BY RingAssumption DEF Holds, RingTypes, Ring!Index
<1>2. newest = Wrapped(oldest + n) /\ \A i \in 0 .. Capacity - 1 : occupied[i] <=> Place(i, oldest) < n
  BY DEF Holds, Ring!Index
<1>3. occupied[oldest] <=> n > 0
  BY <1>1, <1>2 DEF Place
<1>4. occupied[newest] <=> n = Capacity
  BY <1>1, <1>2 DEF Place, Wrapped
<1>5. (newest # oldest \/ occupied[oldest]) <=> n > 0
  BY <1>1, <1>2, <1>3 DEF Wrapped
<1>6. Ring!Count = n
  <2>1. CASE newest = oldest
    BY <1>1, <1>2, <1>3, <2>1 DEF Ring!Count, Wrapped
  <2>2. CASE newest # oldest
    <3>1. newest + Capacity - oldest \in 0 .. 2 * Capacity - 1
      BY <1>1
    <3>2. Ring!Count = Wrapped(newest + Capacity - oldest)
      BY <2>2, <3>1, Wraps DEF Ring!Count
    <3>3. QED
      BY <1>1, <1>2, <2>2, <3>2 DEF Wrapped
  <2>3. QED
    BY <2>1, <2>2
<1>7. Ring!FlagsAgree
  <2> SUFFICES ASSUME NEW i \in Ring!Index
               PROVE  occupied[i] <=> (i + Capacity - oldest) % Capacity < Ring!Count
    BY DEF Ring!FlagsAgree
  <2>1. i \in 0 .. Capacity - 1 /\ i + Capacity - oldest \in 0 .. 2 * Capacity - 1
    BY <1>1 DEF Ring!Index
  <2>2. (i + Capacity - oldest) % Capacity = Place(i, oldest)
    BY <1>1, <2>1, Wraps DEF Wrapped, Place
  <2>3. QED
    BY <1>2, <1>6, <2>1, <2>2
<1>8. Ring!Contents = [i \in 1 .. n |-> data[Wrapped(oldest + i - 1)]]
  <2>1. \A i \in 1 .. n : (oldest + i - 1) % Capacity = Wrapped(oldest + i - 1)
    BY <1>1, Wraps
  <2>2. Ring!Contents = [i \in 1 .. n |-> data[(oldest + i - 1) % Capacity]]
    BY <1>6 DEF Ring!Contents
  <2>3. QED
    BY <2>1, <2>2
<1>9. QED
  BY <1>3, <1>4, <1>5, <1>6, <1>7, <1>8

LEMMA CountedNext ==
  (\A n : Holds(n) =>
    /\ Ring!Count = n /\ Ring!FlagsAgree
    /\ occupied[oldest] <=> n > 0
    /\ occupied[newest] <=> n = Capacity
    /\ (newest # oldest \/ occupied[oldest]) <=> n > 0
    /\ Ring!Contents = [i \in 1 .. n |-> data[Wrapped(oldest + i - 1)]])'
  BY Counted, PTL

(* Each operation moves the places and does to the messages what the       *)
(* mailbox does.                                                           *)
LEMMA PushedPlaces ==
  ASSUME NEW n, Holds(n), NEW m \in Message, Ring!Push(m)
  PROVE  Holds(IF n = Capacity THEN n ELSE n + 1)'
<1>1. /\ Capacity \in Nat \ {0} /\ n \in 0 .. Capacity
      /\ newest \in 0 .. Capacity - 1 /\ oldest \in 0 .. Capacity - 1
      /\ data \in [0 .. Capacity - 1 -> Message \cup {Nothing}]
      /\ occupied \in [0 .. Capacity - 1 -> BOOLEAN]
  BY RingAssumption DEF Holds, RingTypes, Ring!Index
<1>2. newest = Wrapped(oldest + n) /\ \A i \in 0 .. Capacity - 1 : occupied[i] <=> Place(i, oldest) < n
  BY DEF Holds, Ring!Index
<1>3. /\ oldest' = IF n = Capacity THEN Wrapped(oldest + 1) ELSE oldest
      /\ newest' = Wrapped(newest + 1)
      /\ data' = [data EXCEPT ![newest] = m]
      /\ occupied' = [occupied EXCEPT ![newest] = TRUE]
  <2>1. (newest + 1) % Capacity = Wrapped(newest + 1) /\ (oldest + 1) % Capacity = Wrapped(oldest + 1)
    BY <1>1, Wraps
  <2>2. QED
    BY <2>1, Counted DEF Ring!Push, Ring!After
<1>4. /\ newest' \in 0 .. Capacity - 1 /\ oldest' \in 0 .. Capacity - 1
  BY <1>1, <1>3 DEF Wrapped
<1>5. RingTypes'
  BY <1>1, <1>3, <1>4 DEF RingTypes, Ring!Index
<1>6. CASE n = Capacity
  <2>1. newest = oldest /\ oldest' = newest' /\ occupied' = occupied
    BY <1>1, <1>2, <1>3, <1>6, Counted DEF Wrapped
  <2>2. \A i \in 0 .. Capacity - 1 : Place(i, oldest) < Capacity /\ Place(i, oldest') < Capacity
    <3> TAKE i \in 0 .. Capacity - 1
    <3>1. Place(i, oldest) \in 0 .. Capacity - 1
      BY <1>1, Around
    <3>2. Place(i, oldest') \in 0 .. Capacity - 1
      BY <1>4, Around
    <3>3. QED
      BY <1>1, <3>1, <3>2
  <2>3. newest' = Wrapped(oldest' + n)
    BY <1>4, <1>6, <2>1, Around
  <2>4. QED
    BY <1>1, <1>2, <1>5, <1>6, <2>1, <2>2, <2>3 DEF Holds, Ring!Index
<1>7. CASE n # Capacity
  <2>1. newest' = Wrapped(oldest' + (n + 1)) /\ n + 1 \in 0 .. Capacity /\ oldest' = oldest
    BY <1>1, <1>2, <1>3, <1>7 DEF Wrapped
  <2>2. ASSUME NEW i \in 0 .. Capacity - 1 PROVE occupied'[i] <=> Place(i, oldest) < n + 1
    <3>1. CASE i = newest
      BY <1>1, <1>2, <1>3, <1>7, <3>1 DEF Place, Wrapped
    <3>2. CASE i # newest
      <4>1. Place(i, oldest) # n
        BY <1>1, <1>2, <3>2 DEF Place, Wrapped
      <4>2. occupied'[i] = occupied[i] /\ Place(i, oldest) \in Int
        BY <1>1, <1>3, <3>2 DEF Place
      <4>3. QED
        BY <1>1, <1>2, <4>1, <4>2
    <3>3. QED
      BY <3>1, <3>2
  <2>3. QED
    BY <1>5, <1>7, <2>1, <2>2 DEF Holds, Ring!Index
<1>8. QED
  BY <1>6, <1>7

LEMMA PoppedPlaces ==
  ASSUME NEW n, Holds(n), n # 0, Ring!Pop
  PROVE  Holds(n - 1)'
<1>1. /\ Capacity \in Nat \ {0} /\ n \in 1 .. Capacity
      /\ newest \in 0 .. Capacity - 1 /\ oldest \in 0 .. Capacity - 1
      /\ occupied \in [0 .. Capacity - 1 -> BOOLEAN]
  BY RingAssumption DEF Holds, RingTypes, Ring!Index
<1>2. newest = Wrapped(oldest + n) /\ \A i \in 0 .. Capacity - 1 : occupied[i] <=> Place(i, oldest) < n
  BY DEF Holds, Ring!Index
<1>3. /\ oldest' = Wrapped(oldest + 1) /\ newest' = newest /\ data' = data
      /\ occupied' = [occupied EXCEPT ![oldest] = FALSE]
  <2>1. (oldest + 1) % Capacity = Wrapped(oldest + 1) /\ occupied[oldest]
    BY <1>1, Wraps, Counted
  <2>2. QED
    BY <2>1 DEF Ring!Pop, Ring!After
<1>4. oldest' \in 0 .. Capacity - 1 /\ newest' = Wrapped(oldest' + (n - 1))
  BY <1>1, <1>2, <1>3 DEF Wrapped
<1>5. RingTypes'
  BY <1>1, <1>3, <1>4 DEF Holds, RingTypes, Ring!Index
<1>6. ASSUME NEW i \in 0 .. Capacity - 1 PROVE occupied'[i] <=> Place(i, oldest') < n - 1
  <2>1. CASE i = oldest
    BY <1>1, <1>3, <2>1 DEF Place, Wrapped
  <2>2. CASE i # oldest
    <3>1. Place(i, oldest') = Place(i, oldest) - 1 /\ Place(i, oldest) \in Int
      BY <1>1, <1>3, <2>2 DEF Place, Wrapped
    <3>2. occupied'[i] = occupied[i]
      BY <1>1, <1>3, <2>2
    <3>3. QED
      BY <1>1, <1>2, <3>1, <3>2
  <2>3. QED
    BY <2>1, <2>2
<1>7. QED
  BY <1>1, <1>4, <1>5, <1>6 DEF Holds, Ring!Index

LEMMA AsFunction ==
  ASSUME NEW S, NEW q \in Seq(S)
  PROVE  q = [i \in 1 .. Len(q) |-> q[i]] /\ (q = <<>> <=> Len(q) = 0)
  OBVIOUS

LEMMA AppendIs ==
  ASSUME NEW S, NEW q \in Seq(S), NEW x \in S, NEW r,
         r = [i \in 1 .. Len(q) + 1 |-> r[i]], r[Len(q) + 1] = x,
         \A i \in 1 .. Len(q) : r[i] = q[i]
  PROVE  r = Append(q, x)
<1>1. Append(q, x) \in Seq(S) /\ Len(Append(q, x)) = Len(q) + 1 /\ Len(q) \in Nat
  OBVIOUS
<1>2. \A i \in 1 .. Len(q) + 1 : Append(q, x)[i] = r[i]
  <2> TAKE i \in 1 .. Len(q) + 1
  <2>1. CASE i = Len(q) + 1
    BY <2>1
  <2>2. CASE i # Len(q) + 1
    <3>1. i \in 1 .. Len(q)
      BY <1>1, <2>2
    <3>2. Append(q, x)[i] = q[i]
      BY <3>1
    <3>3. QED
      BY <3>1, <3>2
  <2>3. QED
    BY <2>1, <2>2
<1>3. Append(q, x) = [i \in 1 .. Len(q) + 1 |-> Append(q, x)[i]]
  BY <1>1, AsFunction
<1>4. QED
  BY <1>2, <1>3

LEMMA TailIs ==
  ASSUME NEW S, NEW q \in Seq(S), q # <<>>, NEW r,
         r = [i \in 1 .. Len(q) - 1 |-> r[i]],
         \A i \in 1 .. Len(q) - 1 : r[i] = q[i + 1]
  PROVE  r = Tail(q)
<1>1. Tail(q) \in Seq(S) /\ Len(Tail(q)) = Len(q) - 1
  OBVIOUS
<1>2. \A i \in 1 .. Len(q) - 1 : Tail(q)[i] = r[i]
  OBVIOUS
<1>3. Tail(q) = [i \in 1 .. Len(q) - 1 |-> Tail(q)[i]]
  BY <1>1, AsFunction
<1>4. QED
  BY <1>2, <1>3

(* The ring that holds n messages, as a queue.                             *)
LEMMA QueueOf ==
  ASSUME NEW n, Holds(n)
  PROVE  /\ Ring!Contents \in Seq(Message \cup {Nothing}) /\ Len(Ring!Contents) = n
         /\ \A i \in 1 .. n : Ring!Contents[i] = data[Wrapped(oldest + i - 1)]
         /\ Ring!Contents = <<>> <=> n = 0
<1>1. /\ Capacity \in Nat \ {0} /\ n \in 0 .. Capacity /\ oldest \in 0 .. Capacity - 1
      /\ data \in [0 .. Capacity - 1 -> Message \cup {Nothing}]
  BY RingAssumption DEF Holds, RingTypes, Ring!Index
<1>2. \A i \in 1 .. n : data[Wrapped(oldest + i - 1)] \in Message \cup {Nothing}
  BY <1>1 DEF Wrapped
<1>3. Ring!Contents = [i \in 1 .. n |-> data[Wrapped(oldest + i - 1)]]
  BY Counted
<1>4. Ring!Contents \in Seq(Message \cup {Nothing}) /\ Len(Ring!Contents) = n
  BY <1>1, <1>2, <1>3
<1>5. QED
  BY <1>3, <1>4, AsFunction

LEMMA PushImplements ==
  ASSUME RingInv, NEW m \in Message, Ring!Push(m)
  PROVE  RingInv' /\ Ring!Box!Push(m)
<1>1. PICK n \in 0 .. Capacity : Holds(n)
  BY DEF RingInv
<1> DEFINE q == Ring!Contents
           k == IF n = Capacity THEN n ELSE n + 1
           kept == IF n = Capacity THEN Tail(q) ELSE q
<1>2. Holds(k)' /\ k \in 1 .. Capacity
  BY <1>1, PushedPlaces, RingAssumption
<1>3. /\ q \in Seq(Message \cup {Nothing}) /\ Len(q) = n /\ (q = <<>> <=> n = 0)
      /\ \A i \in 1 .. n : q[i] = data[Wrapped(oldest + i - 1)]
  BY <1>1, QueueOf
<1>4. q' = [i \in 1 .. k |-> data'[Wrapped(oldest' + i - 1)]]
  BY <1>2, CountedNext
<1> HIDE DEF q
<1>5. /\ Capacity \in Nat \ {0} /\ newest \in 0 .. Capacity - 1 /\ oldest \in 0 .. Capacity - 1
      /\ data \in [0 .. Capacity - 1 -> Message \cup {Nothing}]
      /\ newest = Wrapped(oldest + n)
  BY <1>1, RingAssumption DEF Holds, RingTypes, Ring!Index
<1>6. /\ oldest' = IF n = Capacity THEN Wrapped(oldest + 1) ELSE oldest
      /\ data' = [data EXCEPT ![newest] = m]
      /\ popped' = TRUE /\ m \notin Oversize
  <2>1. (oldest + 1) % Capacity = Wrapped(oldest + 1)
    BY <1>5, Wraps
  <2>2. QED
    BY <1>1, <2>1, Counted DEF Ring!Push, Ring!After
<1>7. /\ kept \in Seq(Message \cup {Nothing}) /\ Len(kept) = k - 1
      /\ \A i \in 1 .. k - 1 : kept[i] = data[Wrapped(oldest' + i - 1)]
  <2>1. CASE n = Capacity
    <3>1. q # <<>> /\ kept = Tail(q) /\ k = n
      BY <1>3, <1>5, <2>1
    <3>2. kept \in Seq(Message \cup {Nothing}) /\ Len(kept) = k - 1
          /\ \A i \in 1 .. k - 1 : kept[i] = q[i + 1]
      BY <1>3, <3>1
    <3>3. \A i \in 1 .. k - 1 : Wrapped(oldest' + i - 1) = Wrapped(oldest + (i + 1) - 1)
      BY <1>5, <1>6, <2>1, <3>1 DEF Wrapped
    <3>4. QED
      BY <1>3, <1>5, <2>1, <3>1, <3>2, <3>3
  <2>2. CASE n # Capacity
    BY <1>3, <1>6, <2>2
  <2>3. QED
    BY <2>1, <2>2
<1>8. /\ \A i \in 1 .. k - 1 : Wrapped(oldest' + i - 1) \in 0 .. Capacity - 1 \ {newest}
      /\ Wrapped(oldest' + k - 1) = newest
  <2>1. CASE n = Capacity
    BY <1>5, <1>6, <2>1 DEF Wrapped
  <2>2. CASE n # Capacity
    BY <1>1, <1>5, <1>6, <2>2 DEF Wrapped
  <2>3. QED
    BY <2>1, <2>2
<1>9. /\ \A i \in 1 .. k - 1 : q'[i] = kept[i]
      /\ q'[k] = m
  BY <1>2, <1>4, <1>5, <1>6, <1>7, <1>8
<1> HIDE DEF kept
<1>10. q' = Append(kept, m)
  <2>1. (k - 1) + 1 = k /\ q' = [i \in 1 .. k |-> q'[i]]
    BY <1>2, <1>4
  <2> HIDE DEF k
  <2>2. QED
    BY <1>7, <1>9, <2>1, AppendIs
<1>11. Ring!Box!Push(m)
  BY <1>3, <1>6, <1>10 DEF Ring!Box!Push, Ring!Box!Kept, q, kept
<1>12. RingInv'
  BY <1>2 DEF RingInv
<1>13. QED
  BY <1>11, <1>12

LEMMA PopImplements ==
  ASSUME RingInv, Ring!Pop
  PROVE  RingInv' /\ Ring!Box!Pop
<1>1. PICK n \in 0 .. Capacity : Holds(n)
  BY DEF RingInv
<1>2. /\ Ring!Contents \in Seq(Message \cup {Nothing}) /\ Len(Ring!Contents) = n
      /\ (Ring!Contents = <<>> <=> n = 0)
      /\ \A i \in 1 .. n : Ring!Contents[i] = data[Wrapped(oldest + i - 1)]
      /\ occupied[oldest] <=> n > 0
  BY <1>1, QueueOf, Counted
<1>3. CASE n = 0
  <2>1. popped' = Nothing /\ UNCHANGED <<data, occupied, newest, oldest>>
    BY <1>2, <1>3 DEF Ring!Pop
  <2>2. Ring!Contents' = Ring!Contents
    BY <2>1 DEF Ring!Contents, Ring!Count
  <2>3. Holds(n)'
    BY <1>1, <2>1 DEF Holds, RingTypes
  <2>4. QED
    BY <1>2, <1>3, <2>1, <2>2, <2>3 DEF RingInv, Ring!Box!Pop
<1>4. CASE n # 0
  <2> DEFINE q == Ring!Contents
  <2>1. Holds(n - 1)' /\ n - 1 \in 0 .. Capacity /\ n \in Nat
    BY <1>1, <1>4, PoppedPlaces, RingAssumption
  <2>2. q' = [i \in 1 .. n - 1 |-> data'[Wrapped(oldest' + i - 1)]]
    BY <2>1, CountedNext
  <2>3. q \in Seq(Message \cup {Nothing}) /\ Len(q) = n /\ q # <<>>
        /\ \A i \in 1 .. n : q[i] = data[Wrapped(oldest + i - 1)]
    BY <1>2, <1>4
  <2> HIDE DEF q
  <2>4. Capacity \in Nat \ {0} /\ n \in 1 .. Capacity /\ oldest \in 0 .. Capacity - 1
    BY <1>1, <1>4, RingAssumption DEF Holds, RingTypes, Ring!Index
  <2>5. /\ popped' = data[oldest] /\ data' = data
        /\ oldest' = Wrapped(oldest + 1)
    <3>1. (oldest + 1) % Capacity = Wrapped(oldest + 1) /\ occupied[oldest]
      BY <1>2, <2>4, Wraps
    <3>2. QED
      BY <3>1 DEF Ring!Pop, Ring!After
  <2>6. \A i \in 1 .. n - 1 : q'[i] = q[i + 1]
    <3>1. \A i \in 1 .. n - 1 : Wrapped(oldest' + i - 1) = Wrapped(oldest + (i + 1) - 1)
      BY <2>4, <2>5 DEF Wrapped
    <3>2. QED
      BY <2>2, <2>3, <2>4, <2>5, <3>1
  <2>7. q' = Tail(q)
    <3>1. q' = [i \in 1 .. Len(q) - 1 |-> q'[i]]
      BY <2>2, <2>3
    <3>2. QED
      BY <2>3, <2>6, <3>1, TailIs
  <2>8. popped' = Head(q)
    <3>1. Head(q) = q[1] /\ Wrapped(oldest + 1 - 1) = oldest
      BY <2>3, <2>4 DEF Wrapped
    <3>2. QED
      BY <2>3, <2>4, <2>5, <3>1
  <2>9. QED
    BY <2>1, <2>3, <2>7, <2>8 DEF RingInv, Ring!Box!Pop, q
<1>5. QED
  BY <1>3, <1>4

LEMMA StillImplements ==
  ASSUME RingInv, UNCHANGED <<data, occupied, newest, oldest>>
  PROVE  RingInv' /\ Ring!Contents' = Ring!Contents
         /\ (newest # oldest \/ occupied[oldest]) = (Ring!Contents # <<>>)
<1>1. PICK n \in 0 .. Capacity : Holds(n)
  BY DEF RingInv
<1>2. Holds(n)'
  BY <1>1 DEF Holds, RingTypes
<1>3. Ring!Contents' = Ring!Contents
  BY DEF Ring!Contents, Ring!Count
<1>4. (newest # oldest \/ occupied[oldest]) <=> (Ring!Contents # <<>>)
  <2>1. (newest # oldest \/ occupied[oldest]) <=> n > 0
    BY <1>1, Counted
  <2>2. n > 0 <=> Ring!Contents # <<>>
    BY <1>1, QueueOf
  <2>3. QED
    BY <2>1, <2>2, Zenon
<1>5. (newest # oldest \/ occupied[oldest]) = (Ring!Contents # <<>>)
  BY <1>4, Zenon
<1>6. QED
  BY <1>2, <1>3, <1>5 DEF RingInv

LEMMA RingStep ==
  RingInv /\ [Ring!Next]_ringVars =>
    RingInv' /\ [Ring!Box!Next]_<<Ring!Contents, popped>>
<1> SUFFICES ASSUME RingInv, [Ring!Next]_ringVars
             PROVE  RingInv' /\ [Ring!Box!Next]_<<Ring!Contents, popped>>
  OBVIOUS
<1>1. CASE \E m \in Message : Ring!Push(m)
  BY <1>1, PushImplements DEF Ring!Box!Next
<1>2. CASE \E m \in Message : Ring!Refuse(m)
  <2> PICK m \in Message : Ring!Refuse(m)
    BY <1>2
  <2>1. popped' = FALSE /\ m \in Oversize /\ UNCHANGED <<data, occupied, newest, oldest>>
    BY DEF Ring!Refuse
  <2>2. Ring!Box!Push(m)
    BY <2>1, StillImplements DEF Ring!Box!Push
  <2>3. QED
    BY <2>1, <2>2, StillImplements DEF Ring!Box!Next
<1>3. CASE Ring!Pop
  BY <1>3, PopImplements DEF Ring!Box!Next
<1>4. CASE Ring!Any
  <2>1. popped' = (newest # oldest \/ occupied[oldest])
        /\ UNCHANGED <<data, occupied, newest, oldest>>
    BY <1>4 DEF Ring!Any
  <2>2. Ring!Box!Ask
    BY <2>1, StillImplements, Zenon DEF Ring!Box!Ask
  <2>3. QED
    BY <2>1, <2>2, StillImplements DEF Ring!Box!Next
<1>5. CASE UNCHANGED ringVars
  BY <1>5, StillImplements DEF ringVars
<1>6. QED
  BY <1>1, <1>2, <1>3, <1>4, <1>5 DEF Ring!Next

(* The ring of any capacity behaves as the mailbox: it keeps the order of  *)
(* the messages through every wrap, gives up the oldest for a new one when *)
(* it is full, and push, pop and any answer as the mailbox does.           *)
THEOREM RingIsMailbox == AroundSpec => IsMailbox
<1>1. Ring!Init => RingInv /\ Ring!Box!Init
  <2> SUFFICES ASSUME Ring!Init PROVE RingInv /\ Ring!Box!Init
    OBVIOUS
  <2>1. Capacity \in Nat \ {0}
    BY RingAssumption
  <2>2. Holds(0)
    BY <2>1 DEF Ring!Init, Holds, RingTypes, Ring!Index, Wrapped, Place
  <2>3. Ring!Contents = <<>>
    BY <2>2, QueueOf
  <2>4. QED
    BY <2>1, <2>2, <2>3 DEF RingInv, Ring!Box!Init, Ring!Init
<1>2. QED
  BY <1>1, PartsMove, RingStep, PTL DEF AroundSpec, IsMailbox, Ring!IsMailbox, Ring!Box!Spec

-----------------------------------------------------------------------------
(* The knobs.  What the firmware will know of them once it has read the    *)
(* lines on their way, one after the other, is what the editor wishes.     *)
LiveSlot == {s \in [lo : Int, hi : Int, seed : Int, value : Int] : s.lo < s.hi}

LiveSlots == UNION {[D -> LiveSlot] : D \in SUBSET Knob}

Walking == [on : BOOLEAN, slots : LiveSlots, applied : Nat]

SlotLine ==
  [kind : {"text"}, id : Knob, given : Bounds] \cup [kind : {"slots"}, entries : Seq(Entry)]

LEMMA LiveSlotsAre ==
  ASSUME NEW F
  PROVE  F \in LiveSlots
           <=> /\ F = [k \in DOMAIN F |-> F[k]] /\ DOMAIN F \subseteq Knob
               /\ \A k \in DOMAIN F : F[k] \in LiveSlot
<1>1. ASSUME F \in LiveSlots
      PROVE  /\ F = [k \in DOMAIN F |-> F[k]] /\ DOMAIN F \subseteq Knob
             /\ \A k \in DOMAIN F : F[k] \in LiveSlot
  <2>1. PICK D \in SUBSET Knob : F \in [D -> LiveSlot]
    BY <1>1 DEF LiveSlots
  <2> QED
    BY <2>1
<1>2. ASSUME F = [k \in DOMAIN F |-> F[k]], DOMAIN F \subseteq Knob,
             \A k \in DOMAIN F : F[k] \in LiveSlot
      PROVE  F \in LiveSlots
  <2>1. F \in [DOMAIN F -> LiveSlot]
    BY <1>2
  <2> QED
    BY <1>2, <2>1 DEF LiveSlots
<1> QED
  BY <1>1, <1>2

LEMMA EntryIs ==
  ASSUME NEW e \in Entry
  PROVE  /\ e.id \in Knob
         /\ e.kind \in {"number", "true", "false", "huge", "other", "word"}
         /\ Knobs!MeansNumber(e) => Knobs!Number(e) \in Int
         /\ e.kind = "number" => e.number \in Int /\ Knobs!Number(e) = e.number
         /\ e.kind = "word" => ~Knobs!MeansNumber(e)
<1>1. e \in [id : Knob, number : Int, kind : {"number", "true", "false", "huge", "other", "word"}]
  BY KnobAssumption
<1> QED
  BY <1>1 DEF Knobs!MeansNumber, Knobs!Number

(* What writing to a knob changes.                                         *)
Same(F, G) ==
  /\ DOMAIN G = DOMAIN F
  /\ \A k \in DOMAIN F : G[k].lo = F[k].lo /\ G[k].hi = F[k].hi /\ G[k].seed = F[k].seed

LEMMA ClampIs ==
  ASSUME NEW v \in Int, NEW s, s.lo \in Int, s.hi \in Int, s.lo < s.hi
  PROVE  Knobs!Clamp(v, s) \in s.lo .. s.hi
  BY DEF Knobs!Clamp

LEMMA Written ==
  ASSUME NEW F \in LiveSlots, NEW k, NEW v \in Int
  PROVE  /\ Knobs!Write(F, k, v) \in LiveSlots
         /\ Same(F, Knobs!Write(F, k, v))
         /\ \A x \in DOMAIN F :
              Knobs!Write(F, k, v)[x].value = IF x = k THEN Knobs!Clamp(v, F[k]) ELSE F[x].value
<1> DEFINE G == Knobs!Write(F, k, v)
<1>1. /\ F = [x \in DOMAIN F |-> F[x]] /\ DOMAIN F \subseteq Knob
      /\ \A x \in DOMAIN F : F[x] \in LiveSlot
  BY LiveSlotsAre
<1>2. CASE k \notin DOMAIN F
  <2>1. G = F
    BY <1>2 DEF Knobs!Write
  <2> QED
    BY <1>2, <2>1 DEF Same
<1>3. CASE k \in DOMAIN F
  <2> DEFINE new == [F[k] EXCEPT !.value = Knobs!Clamp(v, F[k])]
  <2>1. F[k] \in [lo : Int, hi : Int, seed : Int, value : Int] /\ F[k].lo < F[k].hi
    BY <1>1, <1>3 DEF LiveSlot
  <2>2. Knobs!Clamp(v, F[k]) \in Int
    BY <2>1 DEF Knobs!Clamp
  <2>3. /\ new \in LiveSlot /\ new.value = Knobs!Clamp(v, F[k])
        /\ new.lo = F[k].lo /\ new.hi = F[k].hi /\ new.seed = F[k].seed
    BY <2>1, <2>2 DEF LiveSlot
  <2>4. G = [F EXCEPT ![k] = new]
    BY <1>3 DEF Knobs!Write
  <2> HIDE DEF new, G
  <2>5. /\ DOMAIN G = DOMAIN F /\ G = [x \in DOMAIN G |-> G[x]]
        /\ \A x \in DOMAIN F : G[x] = IF x = k THEN new ELSE F[x]
    BY <1>1, <2>4
  <2>6. \A x \in DOMAIN G : G[x] \in LiveSlot
    BY <1>1, <2>3, <2>5
  <2>7. G \in LiveSlots
    BY <1>1, <2>5, <2>6, LiveSlotsAre
  <2>8. Same(F, G)
    BY <2>3, <2>5 DEF Same
  <2>9. \A x \in DOMAIN F : G[x].value = IF x = k THEN Knobs!Clamp(v, F[k]) ELSE F[x].value
    BY <2>3, <2>5
  <2> QED
    BY <2>7, <2>8, <2>9 DEF G
<1> QED
  BY <1>2, <1>3

(* One entry, for the firmware and for the browser.                        *)
LEMMA SameAgain ==
  ASSUME NEW F, NEW G, NEW H, Same(F, G), Same(G, H)
  PROVE  Same(F, H)
  BY DEF Same

LEMMA GoesOn ==
  ASSUME NEW acc \in Walking, NEW G \in LiveSlots, NEW h,
         h = [acc EXCEPT !.slots = G, !.applied = acc.applied + 1]
  PROVE  h \in Walking /\ h.slots = G /\ (h.on <=> acc.on)
<1>1. acc \in [on : BOOLEAN, slots : LiveSlots, applied : Nat] /\ acc.applied \in Nat
  BY DEF Walking
<1>2. PICK a \in Nat : a = acc.applied + 1
  BY <1>1
<1>3. h = [acc EXCEPT !.slots = G, !.applied = a]
  BY <1>2
<1>4. h \in [on : BOOLEAN, slots : LiveSlots, applied : Nat] /\ h.slots = G /\ h.on = acc.on
  BY <1>1, <1>3, Zenon
<1> QED
  BY <1>4 DEF Walking

LEMMA HeardIs ==
  ASSUME NEW acc \in Walking, NEW e \in Entry
  PROVE  /\ Knobs!Heard(acc, e) \in Walking
         /\ Knobs!Heard(acc, e).on <=> acc.on /\ e.kind # "word"
         /\ Same(acc.slots, Knobs!Heard(acc, e).slots)
         /\ \A k \in DOMAIN acc.slots :
              Knobs!Heard(acc, e).slots[k].value =
                IF acc.on /\ e.kind # "word" /\ Knobs!MeansNumber(e) /\ e.id = k
                THEN Knobs!Clamp(Knobs!Number(e), acc.slots[k]) ELSE acc.slots[k].value
<1> DEFINE h == Knobs!Heard(acc, e)
<1>1. acc.slots \in LiveSlots /\ acc.applied \in Nat /\ acc.on \in BOOLEAN
      /\ acc = [on |-> acc.on, slots |-> acc.slots, applied |-> acc.applied]
  BY DEF Walking
<1>2. CASE ~acc.on \/ e.kind = "word"
  <2>1. h = [acc EXCEPT !.on = FALSE]
    BY <1>2 DEF Knobs!Heard
  <2>2. h \in Walking /\ h.on = FALSE /\ h.slots = acc.slots
    BY <1>1, <2>1 DEF Walking
  <2> QED
    BY <1>2, <2>2 DEF Same
<1>3. CASE acc.on /\ e.kind # "word" /\ Knobs!MeansNumber(e) /\ e.id \in DOMAIN acc.slots
  <2> DEFINE G == Knobs!Write(acc.slots, e.id, Knobs!Number(e))
  <2>1. h = [acc EXCEPT !.slots = G, !.applied = acc.applied + 1]
    BY <1>1, <1>3 DEF Knobs!Heard
  <2>2. /\ G \in LiveSlots /\ Same(acc.slots, G)
        /\ \A x \in DOMAIN acc.slots :
             G[x].value = IF x = e.id THEN Knobs!Clamp(Knobs!Number(e), acc.slots[e.id])
                          ELSE acc.slots[x].value
    BY <1>1, <1>3, EntryIs, Written
  <2> HIDE DEF G, h
  <2>3. G \in LiveSlots
    BY <2>2
  <2>4. h.slots = G /\ h \in Walking
    BY <2>1, <2>3, GoesOn
  <2>5. h.on
    <3>1. acc \in [on : BOOLEAN, slots : LiveSlots, applied : Nat]
      BY DEF Walking
    <3>2. h.on = acc.on
      BY <2>1, <3>1, Zenon
    <3> QED
      BY <1>3, <3>2, Zenon
  <2> QED
    BY <1>1, <1>3, <2>2, <2>4, <2>5 DEF h
<1>4. CASE acc.on /\ e.kind # "word" /\ ~(Knobs!MeansNumber(e) /\ e.id \in DOMAIN acc.slots)
  <2>1. h = acc
    BY <1>4 DEF Knobs!Heard
  <2> QED
    BY <1>1, <1>4, <2>1 DEF Same
<1> QED
  BY <1>1, <1>2, <1>3, <1>4

LEMMA CalledIs ==
  ASSUME NEW acc \in Walking, NEW e \in Entry
  PROVE  Knobs!Called(acc, e) \in Walking /\ Same(acc.slots, Knobs!Called(acc, e).slots)
<1> DEFINE h == Knobs!Called(acc, e)
<1>1. acc.slots \in LiveSlots /\ acc.applied \in Nat /\ acc.on \in BOOLEAN
      /\ acc = [on |-> acc.on, slots |-> acc.slots, applied |-> acc.applied]
  BY DEF Walking
<1>2. CASE ~acc.on \/ e.kind \notin {"number", "huge"}
  <2>1. h = [acc EXCEPT !.on = FALSE]
    BY <1>2 DEF Knobs!Called
  <2>2. h \in Walking /\ h.slots = acc.slots
    BY <1>1, <2>1 DEF Walking
  <2> QED
    BY <2>2 DEF Same
<1>3. CASE ~(~acc.on \/ e.kind \notin {"number", "huge"})
  <2> DEFINE G == IF e.kind = "huge" THEN acc.slots ELSE Knobs!Write(acc.slots, e.id, e.number)
  <2>1. h = [acc EXCEPT !.slots = G, !.applied = acc.applied + 1]
    BY <1>1, <1>3 DEF Knobs!Called
  <2>2. G \in LiveSlots /\ Same(acc.slots, G)
    <3>1. CASE e.kind = "huge"
      BY <1>1, <3>1 DEF Same
    <3>2. CASE e.kind # "huge"
      <4>1. e.number \in Int
        BY <1>3, <3>2, EntryIs
      <4> QED
        BY <1>1, <3>2, <4>1, Written
    <3> QED
      BY <3>1, <3>2
  <2> HIDE DEF G, h
  <2>3. h.slots = G /\ h \in Walking
    BY <2>1, <2>2, GoesOn
  <2> QED
    BY <2>2, <2>3 DEF h
<1> QED
  BY <1>2, <1>3

(* The walk, entry after entry.                                            *)
Walks(f, who, F, entries) ==
  /\ \A n \in 0 .. Len(entries) : f[n] \in Walking
  /\ f[0] = [on |-> TRUE, slots |-> F, applied |-> 0]
  /\ \A n \in 1 .. Len(entries) : f[n] = Knobs!Step(who, f[n - 1], entries[n])
  /\ Knobs!Walk(who, F, entries) = f[Len(entries)]

LEMMA WalkSteps ==
  ASSUME NEW who, NEW F \in LiveSlots, NEW entries \in Seq(Entry)
  PROVE  \E f : Walks(f, who, F, entries)
<1> DEFINE N == Len(entries)
           base == [on |-> TRUE, slots |-> F, applied |-> 0]
           g == [x \in (1 .. N) \X Walking |-> Knobs!Step(who, x[2], entries[x[1]])]
<1>1. N \in Nat /\ base \in Walking
  BY DEF Walking
<1>2. \A n \in 1 .. N, a \in Walking :
        /\ g[<<n, a>>] = Knobs!Step(who, a, entries[n])
        /\ Knobs!Step(who, a, entries[n]) \in Walking
  <2>1. \A n \in 1 .. N, a \in Walking : g[<<n, a>>] = Knobs!Step(who, a, entries[n])
    OBVIOUS
  <2>2. \A n \in 1 .. N : entries[n] \in Entry
    OBVIOUS
  <2>3. ASSUME NEW n \in 1 .. N, NEW a \in Walking
        PROVE  Knobs!Step(who, a, entries[n]) \in Walking
    BY <2>2, HeardIs, CalledIs DEF Knobs!Step
  <2> QED
    BY <2>1, <2>3
<1>3. Stays(g, N, Walking)
  BY <1>2 DEF Stays
<1> HIDE DEF g, base
<1>4. PICK f \in [0 .. N -> Walking] : Follows(f, g, N, base)
  BY <1>1, <1>3, Recursion
<1>5. \A n \in 1 .. N : n \in 0 .. N /\ n # 0 /\ n - 1 \in 0 .. N
  BY <1>1
<1>6. f[0] = base /\ \A n \in 1 .. N : f[n] = Knobs!Step(who, f[n - 1], entries[n])
  BY <1>2, <1>4, <1>5 DEF Follows
<1> DEFINE By(m, n) == IF n = 0 THEN base ELSE Knobs!Step(who, m[n - 1], entries[n])
<1>7. f = [n \in 0 .. N |-> By(f, n)]
  <2>1. \A n \in 0 .. N : n # 0 => n \in 1 .. N
    BY <1>1
  <2> QED
    BY <1>4, <1>6, <2>1
<1> DEFINE walked == CHOOSE m : m = [n \in 0 .. N |-> By(m, n)]
<1>8. walked = [n \in 0 .. N |-> By(walked, n)]
  BY <1>7, Zenon
<1>9. Knobs!Walk(who, F, entries) = walked[N]
  BY DEF Knobs!Walk, base
<1> HIDE DEF walked
<1>10. walked[0] = base
  <2>1. 0 \in 0 .. N
    BY <1>1
  <2> QED
    BY <1>8, <2>1
<1>11. \A n \in 1 .. N : walked[n] = Knobs!Step(who, walked[n - 1], entries[n])
  BY <1>5, <1>8
<1> DEFINE S == {n \in 0 .. N : walked[n] \in Walking}
<1>12. 0 \in S
  BY <1>1, <1>10
<1>13. ASSUME NEW n \in 0 .. N - 1, n \in S
       PROVE  n + 1 \in S
  <2>1. n + 1 \in 1 .. N /\ (n + 1) - 1 = n /\ n + 1 \in 0 .. N
    BY <1>1
  <2>2. walked[n + 1] = Knobs!Step(who, walked[n], entries[n + 1])
    BY <1>11, <2>1
  <2> QED
    BY <1>2, <1>13, <2>1, <2>2
<1>14. 0 .. N \subseteq S
  <2> HIDE DEF S
  <2> QED BY <1>1, <1>12, <1>13, Reached
<1> QED
  BY <1>9, <1>10, <1>11, <1>14 DEF Walks, base

(* What is meant by the first n entries.                                   *)
MeantBy(k, entries, n) == {i \in Knobs!Meant(k, entries) : i =< n}

(* What the first n entries make of F.                                     *)
WalkedTo(acc, F, entries, n) ==
  /\ Same(F, acc.slots)
  /\ acc.on <=> \A i \in 1 .. n : entries[i].kind # "word"
  /\ \A k \in DOMAIN F :
       \/ MeantBy(k, entries, n) = {} /\ acc.slots[k].value = F[k].value
       \/ \E i \in MeantBy(k, entries, n) :
            /\ \A j \in MeantBy(k, entries, n) : j =< i
            /\ acc.slots[k].value = Knobs!Clamp(Knobs!Number(entries[i]), F[k])

LEMMA HeardWalks ==
  ASSUME NEW F \in LiveSlots, NEW entries \in Seq(Entry), NEW n \in 0 .. Len(entries) - 1,
         NEW acc \in Walking, WalkedTo(acc, F, entries, n)
  PROVE  WalkedTo(Knobs!Heard(acc, entries[n + 1]), F, entries, n + 1)
<1> DEFINE e == entries[n + 1]
           h == Knobs!Heard(acc, e)
<1>1. /\ n + 1 \in 1 .. Len(entries) /\ n \in Nat /\ e \in Entry
      /\ \A i \in 1 .. n + 1 : i \in 1 .. n \/ i = n + 1
      /\ \A i \in 1 .. n : i \in 1 .. n + 1
  OBVIOUS
<1>2. /\ h \in Walking /\ (h.on <=> acc.on /\ e.kind # "word") /\ Same(acc.slots, h.slots)
      /\ \A k \in DOMAIN acc.slots :
           h.slots[k].value =
             IF acc.on /\ e.kind # "word" /\ Knobs!MeansNumber(e) /\ e.id = k
             THEN Knobs!Clamp(Knobs!Number(e), acc.slots[k]) ELSE acc.slots[k].value
  BY <1>1, HeardIs
<1>3. /\ Same(F, acc.slots)
      /\ acc.on <=> \A i \in 1 .. n : entries[i].kind # "word"
  BY DEF WalkedTo
<1> HIDE DEF h
<1>4. Same(F, h.slots)
  BY <1>2, <1>3, SameAgain
<1>5. h.on <=> \A i \in 1 .. n + 1 : entries[i].kind # "word"
  <2>1. h.on <=> acc.on /\ e.kind # "word"
    BY <1>2
  <2>2. acc.on <=> \A i \in 1 .. n : entries[i].kind # "word"
    BY <1>3
  <2>3. (\A i \in 1 .. n + 1 : entries[i].kind # "word")
          <=> (\A i \in 1 .. n : entries[i].kind # "word") /\ e.kind # "word"
    BY <1>1
  <2> QED
    BY <2>1, <2>2, <2>3, Zenon
<1>6. \A k : n + 1 \in MeantBy(k, entries, n + 1)
               <=> acc.on /\ e.kind # "word" /\ Knobs!MeansNumber(e) /\ e.id = k
  <2>1. \A k : n + 1 \in MeantBy(k, entries, n + 1)
                <=> /\ e.id = k /\ Knobs!MeansNumber(e)
                    /\ \A i \in 1 .. n + 1 : entries[i].kind # "word"
    BY <1>1 DEF MeantBy, Knobs!Meant
  <2>2. h.on <=> acc.on /\ e.kind # "word"
    BY <1>2
  <2> QED
    BY <1>5, <2>1, <2>2, Zenon
<1>7. \A k : \A i : i # n + 1 => (i \in MeantBy(k, entries, n + 1) <=> i \in MeantBy(k, entries, n))
  BY <1>1 DEF MeantBy, Knobs!Meant
<1>8. \A k : \A i \in MeantBy(k, entries, n) : i =< n /\ i \in Nat
  BY DEF MeantBy, Knobs!Meant
<1>9. ASSUME NEW k \in DOMAIN F
      PROVE  \/ MeantBy(k, entries, n + 1) = {} /\ h.slots[k].value = F[k].value
             \/ \E i \in MeantBy(k, entries, n + 1) :
                  /\ \A j \in MeantBy(k, entries, n + 1) : j =< i
                  /\ h.slots[k].value = Knobs!Clamp(Knobs!Number(entries[i]), F[k])
  <2>1. DOMAIN acc.slots = DOMAIN F /\ acc.slots[k].lo = F[k].lo /\ acc.slots[k].hi = F[k].hi
    BY <1>3 DEF Same
  <2>2. CASE n + 1 \in MeantBy(k, entries, n + 1)
    <3>1. h.slots[k].value = Knobs!Clamp(Knobs!Number(e), acc.slots[k])
      BY <1>2, <1>6, <2>1, <2>2
    <3>2. \A v : Knobs!Clamp(v, acc.slots[k]) = Knobs!Clamp(v, F[k])
      BY <2>1 DEF Knobs!Clamp
    <3>3. \A j \in MeantBy(k, entries, n + 1) : j =< n + 1
      BY DEF MeantBy
    <3> QED
      BY <2>2, <3>1, <3>2, <3>3
  <2>3. CASE n + 1 \notin MeantBy(k, entries, n + 1)
    <3>1. h.slots[k].value = acc.slots[k].value
      BY <1>2, <1>6, <2>1, <2>3
    <3>2. MeantBy(k, entries, n + 1) = MeantBy(k, entries, n)
      <4>1. \A i : i \in MeantBy(k, entries, n) => i # n + 1
        BY <1>1, <1>8
      <4> QED
        BY <1>7, <2>3, <4>1
    <3> QED
      BY <3>1, <3>2 DEF WalkedTo
  <2> QED
    BY <2>2, <2>3
<1> QED
  BY <1>4, <1>5, <1>9 DEF WalkedTo, h

(* So the last entry that says where a knob should be decides.             *)
LEMMA DeviceWalks ==
  ASSUME NEW F \in LiveSlots, NEW entries \in Seq(Entry)
  PROVE  LET G == Knobs!Walk("device", F, entries).slots
         IN /\ G \in LiveSlots /\ Same(F, G)
            /\ \A k \in DOMAIN F :
                 G[k].value = IF Knobs!Meant(k, entries) = {} THEN F[k].value
                   ELSE Knobs!Clamp(Knobs!Number(entries[Knobs!LastOf(Knobs!Meant(k, entries))]), F[k])
<1>1. PICK f : Walks(f, "device", F, entries)
  BY WalkSteps
<1> DEFINE N == Len(entries)
           S == {n \in 0 .. N : WalkedTo(f[n], F, entries, n)}
<1>2. N \in Nat
  OBVIOUS
<1>3. 0 \in S
  <2>1. f[0].on = TRUE /\ f[0].slots = F
    BY <1>1 DEF Walks
  <2>2. \A k : MeantBy(k, entries, 0) = {}
    BY DEF MeantBy, Knobs!Meant
  <2>3. 1 .. 0 = {} /\ 0 \in 0 .. N
    BY <1>2
  <2>4. Same(F, F)
    BY DEF Same
  <2>5. WalkedTo(f[0], F, entries, 0)
    BY <2>1, <2>2, <2>3, <2>4 DEF WalkedTo
  <2> QED
    BY <2>3, <2>5
<1>4. ASSUME NEW n \in 0 .. N - 1, n \in S
      PROVE  n + 1 \in S
  <2>1. n + 1 \in 1 .. N /\ (n + 1) - 1 = n /\ n + 1 \in 0 .. N /\ n \in 0 .. N
    BY <1>2
  <2>2. f[n] \in Walking /\ f[n + 1] = Knobs!Heard(f[n], entries[n + 1])
    BY <1>1, <2>1 DEF Walks, Knobs!Step
  <2>3. WalkedTo(f[n + 1], F, entries, n + 1)
    BY <1>4, <2>2, HeardWalks
  <2> QED
    BY <2>1, <2>3
<1>5. N \in 0 .. N /\ 0 .. N \subseteq S
  <2>1. N \in 0 .. N
    BY <1>2
  <2> HIDE DEF S
  <2> QED BY <1>2, <1>3, <1>4, <2>1, Reached
<1> DEFINE G == Knobs!Walk("device", F, entries).slots
<1>6. WalkedTo(f[N], F, entries, N) /\ f[N] \in Walking /\ G = f[N].slots
  BY <1>1, <1>5 DEF Walks
<1>7. G \in LiveSlots /\ Same(F, G)
  BY <1>6 DEF Walking, WalkedTo
<1>8. \A k : MeantBy(k, entries, N) = Knobs!Meant(k, entries)
  BY <1>2 DEF MeantBy, Knobs!Meant
<1>9. ASSUME NEW k \in DOMAIN F
      PROVE  G[k].value = IF Knobs!Meant(k, entries) = {} THEN F[k].value
               ELSE Knobs!Clamp(Knobs!Number(entries[Knobs!LastOf(Knobs!Meant(k, entries))]), F[k])
  <2> DEFINE M == Knobs!Meant(k, entries)
  <2>1. \/ M = {} /\ G[k].value = F[k].value
        \/ \E i \in M : /\ \A j \in M : j =< i
                        /\ G[k].value = Knobs!Clamp(Knobs!Number(entries[i]), F[k])
    BY <1>6, <1>8 DEF WalkedTo
  <2>2. \A i \in M : i \in Nat
    BY DEF Knobs!Meant
  <2> HIDE DEF M
  <2>3. \A i \in M : (\A j \in M : j =< i) => Knobs!LastOf(M) = i
    BY <2>2 DEF Knobs!LastOf
  <2> QED
    BY <2>1, <2>3 DEF M
<1> HIDE DEF G
<1> QED
  BY <1>7, <1>9 DEF G

LEMMA BrowserWalks ==
  ASSUME NEW F \in LiveSlots, NEW entries \in Seq(Entry)
  PROVE  /\ Knobs!Walk("browser", F, entries).slots \in LiveSlots
         /\ Same(F, Knobs!Walk("browser", F, entries).slots)
<1>1. PICK f : Walks(f, "browser", F, entries)
  BY WalkSteps
<1> DEFINE N == Len(entries)
           S == {n \in 0 .. N : Same(F, f[n].slots)}
<1>2. N \in Nat
  OBVIOUS
<1>3. 0 \in S
  <2>1. f[0].slots = F /\ 0 \in 0 .. N
    BY <1>1, <1>2 DEF Walks
  <2>2. Same(F, F)
    BY DEF Same
  <2> QED
    BY <2>1, <2>2
<1>4. ASSUME NEW n \in 0 .. N - 1, n \in S
      PROVE  n + 1 \in S
  <2>1. n + 1 \in 1 .. N /\ (n + 1) - 1 = n /\ n + 1 \in 0 .. N /\ n \in 0 .. N
    BY <1>2
  <2>2. f[n] \in Walking /\ f[n + 1] = Knobs!Called(f[n], entries[n + 1])
    BY <1>1, <2>1 DEF Walks, Knobs!Step
  <2>3. entries[n + 1] \in Entry
    BY <2>1
  <2>4. Same(f[n].slots, f[n + 1].slots)
    BY <2>2, <2>3, CalledIs
  <2>5. Same(F, f[n + 1].slots)
    BY <1>4, <2>4, SameAgain
  <2> QED
    BY <2>1, <2>5
<1>5. N \in 0 .. N /\ 0 .. N \subseteq S
  <2>1. N \in 0 .. N
    BY <1>2
  <2> HIDE DEF S
  <2> QED BY <1>2, <1>3, <1>4, <2>1, Reached
<1>6. f[N] \in Walking
  BY <1>1, <1>5 DEF Walks
<1> QED
  BY <1>1, <1>5, <1>6 DEF Walks, Walking

-----------------------------------------------------------------------------
(* A text gives a knob its slot.                                           *)
GivenTo(G, F, k, given) ==
  /\ G \in LiveSlots /\ DOMAIN G = DOMAIN F \cup {k}
  /\ \A x \in DOMAIN F : x # k => G[x] = F[x]
  /\ G[k].lo = given.lo /\ G[k].hi = given.hi
  /\ G[k].value = IF k \in DOMAIN F THEN Knobs!Clamp(F[k].value, given) ELSE given.seed

LEMMA AllocIs ==
  ASSUME NEW F \in LiveSlots, NEW k \in Knob, NEW given \in Bounds
  PROVE  GivenTo(Knobs!Alloc(F, k, given), F, k, given)
<1> DEFINE G == Knobs!Alloc(F, k, given)
<1>1. /\ DOMAIN F \subseteq Knob
      /\ \A x \in DOMAIN F : F[x] \in LiveSlot
  BY LiveSlotsAre
<1>2. given \in [lo : Int, hi : Int, seed : Int] /\ given.lo < given.hi
  BY KnobAssumption
<1> DEFINE v == IF k \in DOMAIN F THEN Knobs!Clamp(F[k].value, given) ELSE given.seed
           new == [lo |-> given.lo, hi |-> given.hi, seed |-> given.seed, value |-> v]
<1>3. G = [x \in DOMAIN F \cup {k} |-> IF x # k THEN F[x] ELSE new]
  BY DEF Knobs!Alloc
<1>4. v \in Int
  <2>1. CASE k \in DOMAIN F
    <3>1. F[k].value \in Int
      BY <1>1, <2>1 DEF LiveSlot
    <3>2. v \in given.lo .. given.hi
      BY <1>2, <2>1, <3>1, ClampIs
    <3> QED
      BY <1>2, <3>2
  <2>2. CASE k \notin DOMAIN F
    BY <1>2, <2>2
  <2> QED
    BY <2>1, <2>2
<1>8. v = IF k \in DOMAIN F THEN Knobs!Clamp(F[k].value, given) ELSE given.seed
  OBVIOUS
<1> HIDE DEF v
<1>5. new \in LiveSlot /\ new.lo = given.lo /\ new.hi = given.hi /\ new.seed = given.seed
      /\ new.value = v
  BY <1>2, <1>4 DEF LiveSlot
<1> HIDE DEF new, G
<1>6. /\ DOMAIN G = DOMAIN F \cup {k} /\ G = [x \in DOMAIN G |-> G[x]]
      /\ \A x \in DOMAIN F : x # k => G[x] = F[x]
      /\ G[k] = new
  BY <1>3
<1>7. G \in LiveSlots
  <2>1. \A x \in DOMAIN G : G[x] \in LiveSlot
    BY <1>1, <1>5, <1>6
  <2> QED
    BY <1>1, <1>6, <2>1, LiveSlotsAre
<1>9. GivenTo(G, F, k, given)
  BY <1>5, <1>6, <1>7, <1>8 DEF GivenTo
<1> QED
  BY <1>9 DEF G

(* One line, for the firmware.                                             *)
ReadLine(F, m) ==
  IF m.kind = "text" THEN Knobs!Alloc(F, m.id, m.given)
  ELSE Knobs!Walk("device", F, m.entries).slots

LEMMA ReadLineType ==
  ASSUME NEW F \in LiveSlots, NEW m \in SlotLine
  PROVE  ReadLine(F, m) \in LiveSlots
<1>1. CASE m \in [kind : {"text"}, id : Knob, given : Bounds]
  BY <1>1, AllocIs DEF ReadLine, GivenTo
<1>2. CASE m \in [kind : {"slots"}, entries : Seq(Entry)]
  BY <1>2, DeviceWalks DEF ReadLine
<1> QED
  BY <1>1, <1>2 DEF SlotLine

(* What is wished is what F has.                                           *)
AsWished(F, there, wished) ==
  /\ DOMAIN F = DOMAIN there
  /\ \A k \in DOMAIN F : F[k].lo = there[k].lo /\ F[k].hi = there[k].hi
  /\ \A k \in Knob : wished[k] # None => k \in DOMAIN F /\ F[k].value = wished[k]

(* And what is wished of a knob that a text has given its bounds.          *)
WishedOf(wished, there, k, given) ==
  [wished EXCEPT ![k] =
     IF @ # None THEN Knobs!Clamp(@, given)
     ELSE IF k \in DOMAIN there \/ given.seed \notin given.lo .. given.hi THEN None
     ELSE given.seed]

LEMMA TextWished ==
  ASSUME NEW F \in LiveSlots, NEW there \in LiveSlots, NEW wished, wished = [x \in Knob |-> wished[x]],
         AsWished(F, there, wished), NEW k \in Knob, NEW given \in Bounds, NEW after,
         after = WishedOf(wished, there, k, given)
  PROVE  AsWished(Knobs!Alloc(F, k, given), Knobs!Alloc(there, k, given), after)
<1> DEFINE G == Knobs!Alloc(F, k, given)
           H == Knobs!Alloc(there, k, given)
<1>1. GivenTo(G, F, k, given)
  BY AllocIs
<1>2. GivenTo(H, there, k, given)
  BY AllocIs
<1>3. /\ after[k] = IF wished[k] # None THEN Knobs!Clamp(wished[k], given)
                    ELSE IF k \in DOMAIN there \/ given.seed \notin given.lo .. given.hi THEN None
                    ELSE given.seed
      /\ \A x \in Knob : x # k => after[x] = wished[x]
  BY DEF WishedOf
<1>4. /\ DOMAIN F = DOMAIN there
      /\ \A x \in DOMAIN F : F[x].lo = there[x].lo /\ F[x].hi = there[x].hi
      /\ \A x \in Knob : wished[x] # None => x \in DOMAIN F /\ F[x].value = wished[x]
  BY DEF AsWished
<1> HIDE DEF G, H
<1>5. DOMAIN G = DOMAIN H
  BY <1>1, <1>2, <1>4 DEF GivenTo
<1>6. \A x \in DOMAIN G : G[x].lo = H[x].lo /\ G[x].hi = H[x].hi
  BY <1>1, <1>2, <1>4 DEF GivenTo
<1>7. ASSUME NEW x \in Knob, after[x] # None
      PROVE  x \in DOMAIN G /\ G[x].value = after[x]
  <2>1. CASE x # k
    BY <1>1, <1>3, <1>4, <1>7, <2>1 DEF GivenTo
  <2>2. CASE x = k
    <3>1. CASE wished[k] # None
      BY <1>1, <1>3, <1>4, <2>2, <3>1 DEF GivenTo
    <3>2. CASE wished[k] = None
      <4>1. k \notin DOMAIN F /\ after[k] = given.seed
        BY <1>3, <1>4, <1>7, <2>2, <3>2
      <4> QED
        BY <1>1, <2>2, <4>1 DEF GivenTo
    <3> QED
      BY <3>1, <3>2
  <2> QED
    BY <2>1, <2>2
<1> QED
  BY <1>5, <1>6, <1>7 DEF AsWished, G, H

LEMMA TurnWished ==
  ASSUME NEW F \in LiveSlots, NEW there \in LiveSlots, NEW wished,
         AsWished(F, there, wished), NEW entries \in Seq(Entry), NEW after,
         after = [k \in Knob |->
                    IF k \in DOMAIN there /\ Knobs!Meant(k, entries) # {}
                    THEN Knobs!Clamp(Knobs!Number(entries[Knobs!LastOf(Knobs!Meant(k, entries))]), there[k])
                    ELSE wished[k]]
  PROVE  AsWished(Knobs!Walk("device", F, entries).slots,
                  Knobs!Walk("browser", there, entries).slots, after)
<1> DEFINE G == Knobs!Walk("device", F, entries).slots
           H == Knobs!Walk("browser", there, entries).slots
           Newest(k) == Knobs!Number(entries[Knobs!LastOf(Knobs!Meant(k, entries))])
<1>1. /\ Same(F, G)
      /\ \A k \in DOMAIN F :
           G[k].value = IF Knobs!Meant(k, entries) = {} THEN F[k].value
                        ELSE Knobs!Clamp(Newest(k), F[k])
  BY DeviceWalks
<1>2. Same(there, H)
  BY BrowserWalks
<1>3. \A k \in Knob : after[k] = IF k \in DOMAIN there /\ Knobs!Meant(k, entries) # {}
                                 THEN Knobs!Clamp(Newest(k), there[k]) ELSE wished[k]
  OBVIOUS
<1>4. /\ DOMAIN F = DOMAIN there
      /\ \A k \in DOMAIN F : F[k].lo = there[k].lo /\ F[k].hi = there[k].hi
      /\ \A k \in Knob : wished[k] # None => k \in DOMAIN F /\ F[k].value = wished[k]
  BY DEF AsWished
<1> HIDE DEF G, H, Newest
<1>5. DOMAIN G = DOMAIN H /\ \A k \in DOMAIN G : G[k].lo = H[k].lo /\ G[k].hi = H[k].hi
  BY <1>1, <1>2, <1>4 DEF Same
<1>6. \A k \in DOMAIN F : \A v : Knobs!Clamp(v, F[k]) = Knobs!Clamp(v, there[k])
  BY <1>4 DEF Knobs!Clamp
<1>7. ASSUME NEW k \in Knob, after[k] # None
      PROVE  k \in DOMAIN G /\ G[k].value = after[k]
  <2>1. DOMAIN G = DOMAIN F
    BY <1>1 DEF Same
  <2>2. CASE k \in DOMAIN there /\ Knobs!Meant(k, entries) # {}
    BY <1>1, <1>3, <1>4, <1>6, <2>1, <2>2
  <2>3. CASE ~(k \in DOMAIN there /\ Knobs!Meant(k, entries) # {})
    <3>1. after[k] = wished[k]
      BY <1>3, <2>3
    <3>2. k \in DOMAIN F /\ F[k].value = wished[k]
      BY <1>4, <1>7, <3>1
    <3> QED
      BY <1>1, <1>4, <2>1, <2>3, <3>1, <3>2
  <2> QED
    BY <2>2, <2>3
<1> QED
  BY <1>5, <1>7 DEF AsWished, G, H

-----------------------------------------------------------------------------
(* A trail of the lines on their way, from what the firmware has to what   *)
(* is wished.                                                              *)
Trail(r, first, lines, there, wished) ==
  /\ \A i \in 0 .. Len(lines) : r[i] \in LiveSlots
  /\ r[0] = first
  /\ \A i \in 1 .. Len(lines) : r[i] = ReadLine(r[i - 1], lines[i])
  /\ AsWished(r[Len(lines)], there, wished)

LEMMA TrailGrows ==
  ASSUME NEW lines \in Seq(SlotLine), NEW m \in SlotLine, NEW r, NEW first, NEW there, NEW wished,
         Trail(r, first, lines, there, wished), NEW new, NEW after,
         AsWished(ReadLine(r[Len(lines)], m), new, after)
  PROVE  \E q : Trail(q, first, Append(lines, m), new, after)
<1> DEFINE N == Len(lines)
           more == Append(lines, m)
           q == [i \in 0 .. N + 1 |-> IF i = N + 1 THEN ReadLine(r[N], m) ELSE r[i]]
<1>1. /\ N \in Nat /\ Len(more) = N + 1 /\ more[N + 1] = m
      /\ \A i \in 1 .. N : more[i] = lines[i]
  OBVIOUS
<1>2. /\ N + 1 \in 0 .. N + 1 /\ N \in 0 .. N /\ 0 \in 0 .. N
      /\ \A i \in 0 .. N : i \in 0 .. N + 1 /\ i # N + 1
      /\ \A i \in 0 .. N + 1 : i = N + 1 \/ i \in 0 .. N
      /\ \A i \in 1 .. N + 1 : i = N + 1 \/ i \in 1 .. N
      /\ \A i \in 1 .. N : i \in 0 .. N /\ i - 1 \in 0 .. N
      /\ (N + 1) - 1 = N
  BY <1>1
<1>3. q[N + 1] = ReadLine(r[N], m) /\ \A i \in 0 .. N : q[i] = r[i]
  BY <1>2
<1> HIDE DEF q, more, N
<1>4. r[N] \in LiveSlots
  BY <1>2 DEF Trail, N
<1>5. \A i \in 0 .. N + 1 : q[i] \in LiveSlots
  <2>1. ReadLine(r[N], m) \in LiveSlots
    BY <1>4, ReadLineType
  <2> QED
    BY <1>2, <1>3, <2>1 DEF Trail, N
<1>6. \A i \in 1 .. N + 1 : q[i] = ReadLine(q[i - 1], more[i])
  <2> TAKE i \in 1 .. N + 1
  <2>1. CASE i = N + 1
    BY <1>1, <1>2, <1>3, <2>1
  <2>2. CASE i \in 1 .. N
    <3>1. r[i] = ReadLine(r[i - 1], lines[i])
      BY <2>2 DEF Trail, N
    <3> QED
      BY <1>1, <1>2, <1>3, <2>2, <3>1
  <2> QED
    BY <1>2, <2>1, <2>2
<1>7. q[0] = first /\ AsWished(q[N + 1], new, after)
  BY <1>2, <1>3 DEF Trail, N
<1>8. Trail(q, first, more, new, after)
  BY <1>1, <1>5, <1>6, <1>7 DEF Trail
<1> QED
  BY <1>8 DEF more

LEMMA TrailShrinks ==
  ASSUME NEW lines \in Seq(SlotLine), lines # <<>>, NEW r, NEW first, NEW there, NEW wished,
         Trail(r, first, lines, there, wished)
  PROVE  /\ \E q : Trail(q, ReadLine(first, Head(lines)), Tail(lines), there, wished)
         /\ first \in LiveSlots
<1> DEFINE N == Len(lines)
           q == [i \in 0 .. N - 1 |-> r[i + 1]]
<1>1. /\ N \in Nat /\ N >= 1 /\ Len(Tail(lines)) = N - 1 /\ Head(lines) = lines[1]
      /\ \A i \in 1 .. N - 1 : Tail(lines)[i] = lines[i + 1]
  OBVIOUS
<1>2. /\ \A i \in 0 .. N - 1 : i + 1 \in 0 .. N /\ i + 1 \in 1 .. N
      /\ \A i \in 1 .. N - 1 : i \in 0 .. N - 1 /\ i - 1 \in 0 .. N - 1 /\ (i + 1) - 1 = i
                                 /\ (i - 1) + 1 = i
      /\ 0 \in 0 .. N - 1 /\ N - 1 \in 0 .. N - 1 /\ (N - 1) + 1 = N /\ 1 \in 1 .. N /\ 1 - 1 = 0
      /\ 0 \in 0 .. N /\ 0 + 1 = 1
  BY <1>1
<1>3. \A i \in 0 .. N - 1 : q[i] = r[i + 1]
  OBVIOUS
<1> HIDE DEF q, N
<1>4. \A i \in 0 .. N - 1 : q[i] \in LiveSlots
  BY <1>2, <1>3 DEF Trail, N
<1>5. ASSUME NEW i \in 1 .. N - 1
      PROVE  q[i] = ReadLine(q[i - 1], Tail(lines)[i])
  <2>1. r[i + 1] = ReadLine(r[(i + 1) - 1], lines[i + 1])
    BY <1>2 DEF Trail, N
  <2> QED
    BY <1>1, <1>2, <1>3, <2>1
<1>6. q[0] = ReadLine(first, Head(lines))
  <2>1. r[1] = ReadLine(r[1 - 1], lines[1]) /\ r[0] = first
    BY <1>2 DEF Trail, N
  <2> QED
    BY <1>1, <1>2, <1>3, <2>1
<1>7. AsWished(q[N - 1], there, wished)
  BY <1>2, <1>3 DEF Trail, N
<1>8. Trail(q, ReadLine(first, Head(lines)), Tail(lines), there, wished)
  BY <1>1, <1>4, <1>5, <1>6, <1>7 DEF Trail
<1>9. first \in LiveSlots
  BY <1>2 DEF Trail, N
<1> QED
  BY <1>8, <1>9

KnobsInv ==
  /\ pending \in Seq(SlotLine) /\ browser \in LiveSlots
  /\ wish = [k \in Knob |-> wish[k]]
  /\ \E r : Trail(r, device, pending, browser, wish)

LEMMA KnobsStep == KnobsInv /\ [Knobs!Next]_knobVars => KnobsInv'
<1> SUFFICES ASSUME KnobsInv, [Knobs!Next]_knobVars PROVE KnobsInv'
  OBVIOUS
<1>1. PICK r : Trail(r, device, pending, browser, wish)
  BY DEF KnobsInv
<1>2. Len(pending) \in 0 .. Len(pending) /\ r[Len(pending)] \in LiveSlots
  <2>1. Len(pending) \in Nat
    BY DEF KnobsInv
  <2>2. Len(pending) \in 0 .. Len(pending)
    BY <2>1
  <2> QED
    BY <1>1, <2>2 DEF Trail
<1>3. AsWished(r[Len(pending)], browser, wish)
  BY <1>1 DEF Trail
<1>4. ASSUME NEW k \in Knob, NEW given \in Bounds, Knobs!Text(k, given)
      PROVE  KnobsInv'
  <2>1. PICK m \in SlotLine : m = [kind |-> "text", id |-> k, given |-> given]
    BY DEF SlotLine
  <2>2. /\ pending' = Append(pending, m) /\ browser' = Knobs!Alloc(browser, k, given)
        /\ wish' = WishedOf(wish, browser, k, given) /\ device' = device
    BY <1>4, <2>1 DEF Knobs!Text, WishedOf
  <2>3. m.kind = "text" /\ m.id = k /\ m.given = given
    BY <2>1
  <2>4. AsWished(ReadLine(r[Len(pending)], m), browser', wish')
    BY <1>2, <1>3, <2>2, <2>3, TextWished DEF ReadLine, KnobsInv
  <2>5. \E q : Trail(q, device, Append(pending, m), browser', wish')
    BY <1>1, <2>4, TrailGrows DEF KnobsInv
  <2>6. browser' \in LiveSlots
    BY <2>2, AllocIs DEF KnobsInv, GivenTo
  <2>7. pending' \in Seq(SlotLine) /\ wish' = [x \in Knob |-> wish'[x]]
    BY <2>1, <2>2 DEF KnobsInv, WishedOf
  <2> QED
    BY <2>2, <2>5, <2>6, <2>7 DEF KnobsInv
<1>5. ASSUME NEW entries \in Seq(Entry), Knobs!Turn(entries)
      PROVE  KnobsInv'
  <2>1. PICK m \in SlotLine : m = [kind |-> "slots", entries |-> entries]
    BY DEF SlotLine
  <2>2. /\ pending' = Append(pending, m)
        /\ browser' = Knobs!Walk("browser", browser, entries).slots
        /\ wish' = [k \in Knob |->
                     IF k \in DOMAIN browser /\ Knobs!Meant(k, entries) # {}
                     THEN Knobs!Clamp(Knobs!Number(entries[Knobs!LastOf(Knobs!Meant(k, entries))]),
                                      browser[k])
                     ELSE wish[k]]
        /\ device' = device
    BY <1>5, <2>1 DEF Knobs!Turn
  <2>3. m.kind # "text" /\ m.entries = entries
    BY <2>1
  <2>4. AsWished(ReadLine(r[Len(pending)], m), browser', wish')
    BY <1>2, <1>3, <2>2, <2>3, TurnWished DEF ReadLine, KnobsInv
  <2>5. \E q : Trail(q, device, Append(pending, m), browser', wish')
    BY <1>1, <2>4, TrailGrows DEF KnobsInv
  <2>6. browser' \in LiveSlots
    BY <2>2, BrowserWalks DEF KnobsInv
  <2>7. pending' \in Seq(SlotLine) /\ wish' = [x \in Knob |-> wish'[x]]
    BY <2>1, <2>2 DEF KnobsInv
  <2> QED
    BY <2>2, <2>5, <2>6, <2>7 DEF KnobsInv
<1>6. CASE Knobs!Take
  <2>1. /\ pending # <<>> /\ pending' = Tail(pending)
        /\ browser' = browser /\ wish' = wish
        /\ device' = ReadLine(device, Head(pending))
    BY <1>6 DEF Knobs!Take, ReadLine
  <2>2. \E q : Trail(q, ReadLine(device, Head(pending)), Tail(pending), browser, wish)
    BY <1>1, <2>1, TrailShrinks DEF KnobsInv
  <2>3. Tail(pending) \in Seq(SlotLine)
    BY <2>1 DEF KnobsInv
  <2> QED
    BY <2>1, <2>2, <2>3 DEF KnobsInv
<1>7. CASE UNCHANGED knobVars
  BY <1>7 DEF KnobsInv, knobVars
<1>8. ASSUME NEW n \in 1 .. MaxEntries, NEW entries \in [1 .. n -> Entry]
      PROVE  entries \in Seq(Entry)
  <2>1. n \in Nat
    BY KnobAssumption
  <2> QED
    BY <2>1
<1> QED
  BY <1>4, <1>5, <1>6, <1>7, <1>8 DEF Knobs!Next

(* Once the firmware has read what it was sent, every knob is where the    *)
(* editor put it last, within the bounds its texts have given it since,    *)
(* for any knobs, bounds, seeds and entries, and messages of any length.   *)
THEOREM KnobsAlwaysAsSent == AroundSpec => []KnobsAreAsSent
<1>1. Knobs!Init => KnobsInv
  <2> SUFFICES ASSUME Knobs!Init PROVE KnobsInv
    OBVIOUS
  <2> DEFINE F == [k \in {} |-> 0]
  <2>1. pending = <<>> /\ device = F /\ browser = F /\ wish = [k \in Knob |-> None]
    BY DEF Knobs!Init, Knobs!NoSlots
  <2>2. F \in LiveSlots /\ DOMAIN F = {}
    BY LiveSlotsAre
  <2> HIDE DEF F
  <2>3. AsWished(F, F, wish)
    BY <2>1, <2>2 DEF AsWished
  <2>4. Len(pending) = 0 /\ pending \in Seq(SlotLine)
    BY <2>1
  <2> DEFINE r == [i \in 0 .. 0 |-> F]
  <2>5. r[0] = F /\ 1 .. 0 = {} /\ 0 .. 0 = {0}
    OBVIOUS
  <2> HIDE DEF r
  <2>6. Trail(r, device, pending, browser, wish)
    BY <2>1, <2>2, <2>3, <2>4, <2>5 DEF Trail
  <2> QED
    BY <2>1, <2>2, <2>4, <2>6 DEF KnobsInv
<1>2. KnobsInv => KnobsAreAsSent
  <2> SUFFICES ASSUME KnobsInv, pending = <<>>, NEW k \in Knob
               PROVE  wish[k] # None => k \in DOMAIN device /\ device[k].value = wish[k]
    BY DEF KnobsAreAsSent, Knobs!KnobsAreAsSent
  <2>1. PICK r : Trail(r, device, pending, browser, wish)
    BY DEF KnobsInv
  <2>2. Len(pending) = 0
    OBVIOUS
  <2>3. AsWished(device, browser, wish)
    BY <2>1, <2>2 DEF Trail
  <2> QED
    BY <2>3 DEF AsWished
<1>3. AroundInit => Knobs!Init
  BY DEF AroundInit
<1>4. [AroundNext]_everything => [Knobs!Next]_knobVars
  BY DEF AroundNext, Only, everything
<1> QED
  BY <1>1, <1>2, <1>3, <1>4, KnobsStep, PTL DEF AroundSpec

-----------------------------------------------------------------------------
(* The panel.  The pins of its jacks and lights are all different, and     *)
(* which peripheral drives each, on each variant:                          *)
LightPin(i) == Panel!Lights[board][i]
JackPin(i) == Panel!Jacks[board][i]
Variants ==
  {"MUSICTHING", "USEQHARDWARE_1_0", "USEQHARDWARE_0_2", "EXPANDER_OUT"}

LEMMA Distinct ==
  ASSUME board \in Variants
  PROVE  \A i, j \in Panel!Indices :
           /\ LightPin(i) \in 0 .. 29 /\ JackPin(i) \in -1 .. 29
           /\ LightPin(i) = LightPin(j) => i = j
           /\ JackPin(i) = JackPin(j) /\ JackPin(i) # -1 => i = j
           /\ JackPin(i) # LightPin(j)
<1> USE DEF Panel!Indices, LightPin, JackPin, Panel!Lights, Panel!Jacks
<1>1. CASE board = "MUSICTHING"
  BY <1>1
<1>2. CASE board = "EXPANDER_OUT"
  BY <1>2
<1>3. CASE board = "USEQHARDWARE_1_0"
  BY <1>3
<1>4. CASE board = "USEQHARDWARE_0_2"
  BY <1>4
<1> QED
  BY <1>1, <1>2, <1>3, <1>4 DEF Variants

LEMMA OfItsOwn ==
  ASSUME board \in Variants
  PROVE  \A i \in Panel!Indices :
           /\ JackPin(i) = -1 => i \in {1, 2} /\ Panel!IsAnalog(i)
           /\ i \in Panel!OnMachine =>
                /\ Panel!IsAnalog(i)
                /\ LightPin(i) \notin Panel!InputPins[board] \cup Panel!BusPins \cup {Panel!Builtin}
           /\ ~Panel!IsAnalog(i) =>
                JackPin(i) \notin Panel!InputPins[board] \cup Panel!BusPins \cup {-1, Panel!Builtin}
           /\ board = "USEQHARDWARE_1_0" =>
                {LightPin(i), JackPin(i)} \cap (Panel!GateLights \cup {Panel!AI1Light, Panel!AI2Light}) = {}
<1> USE DEF Panel!Indices, LightPin, JackPin, Panel!Lights, Panel!Jacks, Panel!IsAnalog, Panel!AnalogJacks,
            Panel!OnMachine, Panel!Machined, Panel!InputPins, Panel!BusPins, Panel!Builtin, Panel!GateLights,
            Panel!AI1Light, Panel!AI2Light
<1>1. CASE board = "MUSICTHING"
  BY <1>1
<1>2. CASE board = "EXPANDER_OUT"
  BY <1>2
<1>3. CASE board = "USEQHARDWARE_1_0"
  BY <1>3
<1>4. CASE board = "USEQHARDWARE_0_2"
  BY <1>4
<1> QED
  BY <1>1, <1>2, <1>3, <1>4 DEF Variants

(* The pins of outputs that the PWM drives, those that are a bit each, and *)
(* those that a state machine drives.                                      *)
WavePin == {LightPin(i) : i \in Panel!Indices \ Panel!OnMachine}
        \cup ({JackPin(i) : i \in {j \in Panel!Indices : Panel!IsAnalog(j)}} \ {-1})

LEMMA ChannelIs ==
  \A p \in 0 .. 29 : Panel!ChannelOf(p) \in (0 .. 7) \X {0, 1}
<1> QED
BY DEF Panel!ChannelOf

LEMMA ChannelsApart ==
  ASSUME board \in Variants
  PROVE  /\ \A p, q \in WavePin : Panel!ChannelOf(p) = Panel!ChannelOf(q) => p = q
         /\ board = "USEQHARDWARE_1_0" => \A p \in WavePin : Panel!ChannelOf(p) # Panel!ChannelOf(Panel!AI2Light)
<1>0. \A p, q \in 0 .. 29 : Panel!ChannelOf(p) = Panel!ChannelOf(q) => p = q \/ p = q + 16 \/ q = p + 16
  BY DEF Panel!ChannelOf
<1> USE DEF Panel!Indices, LightPin, JackPin, Panel!Lights, Panel!Jacks, Panel!IsAnalog, Panel!AnalogJacks,
            Panel!OnMachine, Panel!Machined, Panel!AI2Light, WavePin
<1>1. CASE board = "MUSICTHING"
  <2>1. WavePin = {10, 11, 12, 13, 14, 15, 23, 22}
    BY <1>1
  <2> QED BY <1>1, <1>0, <2>1
<1>2. CASE board = "EXPANDER_OUT"
  BY <1>2, <1>0
<1>3. CASE board = "USEQHARDWARE_1_0"
  BY <1>3, <1>0
<1>4. CASE board = "USEQHARDWARE_0_2"
  BY <1>4, <1>0
<1> QED
  BY <1>1, <1>2, <1>3, <1>4 DEF Variants

BitJack == {JackPin(i) : i \in {j \in Panel!Indices : ~Panel!IsAnalog(j)}}

MachineLight == {LightPin(i) : i \in Panel!OnMachine}

LEMMA Spared ==
  ASSUME board \in Variants
  PROVE  /\ BitJack \subseteq Panel!Pin /\ MachineLight \subseteq Panel!Pin /\ WavePin \subseteq Panel!Pin
         /\ BitJack \cap MachineLight = {} /\ BitJack \cap WavePin = {} /\ MachineLight \cap WavePin = {}
         /\ (BitJack \cup MachineLight) \cap (Panel!InputPins[board] \cup Panel!BusPins \cup {Panel!Builtin}) = {}
         /\ board = "USEQHARDWARE_1_0" =>
              (BitJack \cup MachineLight \cup WavePin) \cap (Panel!GateLights \cup {Panel!AI1Light, Panel!AI2Light}) = {}
         /\ MachineLight = Panel!At(Panel!Lights, Panel!OnMachine)
         /\ BitJack \subseteq Panel!At(Panel!Jacks, Panel!Indices)
<1>1. Panel!OnMachine \subseteq Panel!Indices
  BY DEF Panel!OnMachine
<1>2. Panel!Pin = 0 .. 29
  BY DEF Panel!Pin
<1>3. BitJack \subseteq Panel!Pin
  BY <1>2, Distinct, OfItsOwn DEF BitJack
<1>4. MachineLight \subseteq Panel!Pin
  BY <1>1, <1>2, Distinct, OfItsOwn DEF MachineLight
<1>5. WavePin \subseteq Panel!Pin
  BY <1>2, Distinct, OfItsOwn DEF WavePin
<1>6. BitJack \cap MachineLight = {}
  BY <1>1, Distinct DEF BitJack, MachineLight
<1>7. BitJack \cap WavePin = {}
  BY Distinct, OfItsOwn DEF BitJack, WavePin
<1>8. MachineLight \cap WavePin = {}
  BY <1>1, Distinct, OfItsOwn DEF MachineLight, WavePin
<1>9. (BitJack \cup MachineLight) \cap (Panel!InputPins[board] \cup Panel!BusPins \cup {Panel!Builtin}) = {}
  BY <1>1, OfItsOwn DEF MachineLight, BitJack
<1>10. ASSUME board = "USEQHARDWARE_1_0"
       PROVE  (BitJack \cup MachineLight \cup WavePin) \cap (Panel!GateLights \cup {Panel!AI1Light, Panel!AI2Light}) = {}
  BY <1>1, <1>10, OfItsOwn DEF MachineLight, BitJack, WavePin
<1>11. MachineLight = Panel!At(Panel!Lights, Panel!OnMachine)
  BY <1>1, Distinct DEF MachineLight, Panel!At, LightPin
<1>12. BitJack \subseteq Panel!At(Panel!Jacks, Panel!Indices)
  BY OfItsOwn DEF BitJack, Panel!At, JackPin
<1> QED
  BY <1>3, <1>4, <1>5, <1>6, <1>7, <1>8, <1>9, <1>10, <1>11, <1>12

(* What a state after a tick shows rests on: every pin is still assigned   *)
(* to the peripheral that write_outputs writes to for it.                  *)
PanelInv ==
  /\ board \in Variants
  /\ DOMAIN channel = (0 .. 7) \X {0, 1}
  /\ stage # "reset" => /\ \A p \in BitJack : role[p] = "bit"
                        /\ \A p \in MachineLight : role[p] = "machine"
  /\ outputs # <<>> => /\ stage = "run" /\ DOMAIN outputs = Panel!Indices
                       /\ \A p \in WavePin : role[p] = "pwm"
  /\ Panel!JacksShowTheOutputs

LEMMA NothingToShow == outputs = <<>> => Panel!JacksShowTheOutputs
<1>1. DOMAIN <<>> = {}
  OBVIOUS
<1> QED
  BY <1>1 DEF Panel!JacksShowTheOutputs

(* Before the first tick only the assignment of the pins matters.          *)
LEMMA NotYetShown ==
  ASSUME PanelInv, outputs = <<>>, outputs' = <<>>, board' = board,
         DOMAIN channel' = DOMAIN channel,
         stage' # "reset" => /\ \A p \in BitJack : role'[p] = "bit"
                            /\ \A p \in MachineLight : role'[p] = "machine"
  PROVE  PanelInv'
<1>1. BitJack' = BitJack /\ MachineLight' = MachineLight /\ Panel!Pin' = Panel!Pin
  BY DEF BitJack, MachineLight, LightPin, JackPin, Panel!Indices, Panel!IsAnalog, Panel!OnMachine, Panel!Machined, Panel!Pin
<1>2. Panel!JacksShowTheOutputs'
  <2>1. DOMAIN <<>> = {}
    OBVIOUS
  <2> QED
    BY <2>1 DEF Panel!JacksShowTheOutputs
<1> QED
  BY <1>1, <1>2 DEF PanelInv

LEMMA RolesKept ==
  ASSUME NEW P, NEW new, NEW p \in Panel!Pin
  PROVE  /\ p \notin P => Panel!PinMode(P, new)[p] = role[p]
         /\ p \in P => Panel!PinMode(P, new)[p] = new
BY DEF Panel!PinMode

(* The lights of the boot are no jack and no state machine's.              *)
LEMMA LedsKeep ==
  ASSUME PanelInv, NEW I \in SUBSET Panel!Indices, NEW v, Panel!SetOutputLeds(I, v)
  PROVE  /\ \A p \in BitJack \cup MachineLight : role'[p] = role[p]
         /\ DOMAIN channel' = DOMAIN channel
<1> DEFINE D == Panel!At(Panel!Lights, I \ Panel!OnMachine)
<1>1. Panel!AnalogWrite([p \in D |-> v])
  BY DEF Panel!SetOutputLeds
<1>2. DOMAIN [p \in D |-> v] = D
  OBVIOUS
<1>3. role' = Panel!PinMode(D, "pwm") /\ DOMAIN channel' = DOMAIN channel
  BY <1>1, <1>2 DEF Panel!AnalogWrite
<1>4. D \subseteq WavePin
  BY Distinct DEF Panel!At, WavePin, LightPin, PanelInv
<1> HIDE DEF D
<1>5. \A p \in BitJack \cup MachineLight : p \in Panel!Pin /\ p \notin D
  BY <1>4, Spared DEF PanelInv
<1> QED
  BY <1>3, <1>5, RolesKept

LEMMA ResetKeeps == PanelInv /\ Panel!InitJacksAndInputs => PanelInv'
<1> SUFFICES ASSUME PanelInv, Panel!InitJacksAndInputs
             PROVE  PanelInv'
  OBVIOUS
<1>1. outputs = <<>> /\ outputs' = <<>> /\ board' = board /\ channel' = channel /\ bit' = bit
  BY DEF PanelInv, Panel!InitJacksAndInputs
<1>2. \A p \in BitJack : role'[p] = "bit"
  BY Spared DEF PanelInv, Panel!InitJacksAndInputs
<1>3. \A p \in MachineLight : role'[p] = "machine"
  <2>1. \A p \in MachineLight : /\ p \in Panel!Pin /\ p \notin Panel!InputPins[board]
                            /\ p \in Panel!At(Panel!Lights, Panel!OnMachine)
    BY Spared DEF PanelInv
  <2> QED
    BY <2>1 DEF Panel!InitJacksAndInputs
<1> QED
  BY <1>1, <1>2, <1>3, NotYetShown

LEMMA LightsKeep == PanelInv /\ Panel!InitLights => PanelInv'
<1> SUFFICES ASSUME PanelInv, Panel!InitLights
             PROVE  PanelInv'
  OBVIOUS
<1>1. /\ outputs = <<>> /\ outputs' = <<>> /\ board' = board /\ channel' = channel /\ bit' = bit
      /\ stage = "inputs"
  BY DEF PanelInv, Panel!InitLights
<1> DEFINE D == Panel!At(Panel!Lights, Panel!Configured)
                     \cup (IF board = "USEQHARDWARE_1_0"
                           THEN Panel!GateLights \cup {Panel!AI1Light, Panel!AI2Light} ELSE {})
<1>2. role' = Panel!PinMode(D, "bit")
  BY DEF Panel!InitLights
<1>3. \A p \in MachineLight : p \notin D
  <2>1. Panel!At(Panel!Lights, Panel!Configured) \subseteq WavePin
    BY Distinct DEF Panel!At, WavePin, LightPin, PanelInv, Panel!Configured
  <2> QED
    BY <2>1, Spared DEF PanelInv
<1> HIDE DEF D
<1>4. \A p \in MachineLight : role'[p] = "machine"
  <2>1. \A p \in MachineLight : p \in Panel!Pin /\ role[p] = "machine"
    BY <1>1, Spared DEF PanelInv
  <2> QED
    BY <1>2, <1>3, <2>1, RolesKept
<1>5. \A p \in BitJack : role'[p] = "bit"
  <2>1. \A p \in BitJack : p \in Panel!Pin /\ role[p] = "bit"
    BY <1>1, Spared DEF PanelInv
  <2> QED
    BY <1>2, <2>1, RolesKept
<1> QED
  BY <1>1, <1>4, <1>5, NotYetShown

LEMMA FrameKeeps == PanelInv /\ Panel!Frame => PanelInv'
<1> SUFFICES ASSUME PanelInv, Panel!Frame
             PROVE  PanelInv'
  OBVIOUS
<1>1. /\ outputs = <<>> /\ outputs' = <<>> /\ board' = board /\ bit' = bit
      /\ stage = "lights" /\ stage' = stage
  BY DEF PanelInv, Panel!Frame
<1>2. PICK i \in Panel!Indices, v \in {0, Top} : Panel!SetOutputLeds({i}, v)
  BY DEF Panel!Frame
<1>3. /\ \A p \in BitJack \cup MachineLight : role'[p] = role[p]
      /\ DOMAIN channel' = DOMAIN channel
  BY <1>2, LedsKeep
<1> QED
  BY <1>1, <1>3, NotYetShown DEF PanelInv

LEMMA BusKeeps == PanelInv /\ Panel!InitBus => PanelInv'
<1> SUFFICES ASSUME PanelInv, Panel!InitBus
             PROVE  PanelInv'
  OBVIOUS
<1>1. /\ outputs = <<>> /\ outputs' = <<>> /\ board' = board /\ channel' = channel
      /\ stage = "lights"
  BY DEF PanelInv, Panel!InitBus
<1>3. \A p \in BitJack \cup MachineLight : role'[p] = role[p]
  <2>1. \A p \in BitJack \cup MachineLight : p \in Panel!Pin /\ p \notin Panel!BusPins /\ p # Panel!Builtin
    BY Spared DEF PanelInv
  <2>2. role' = [Panel!PinMode(Panel!BusPins, "bus") EXCEPT ![Panel!Builtin] = "bit"]
    BY DEF Panel!InitBus
  <2> QED
    BY <2>1, <2>2 DEF Panel!PinMode
<1> QED
  BY <1>1, <1>3, NotYetShown DEF PanelInv

LEMMA FlashKeeps == PanelInv /\ (Panel!ErrorFlash \/ Panel!BootLedGreen) => PanelInv'
<1> SUFFICES ASSUME PanelInv, Panel!ErrorFlash \/ Panel!BootLedGreen
             PROVE  PanelInv'
  OBVIOUS
<1>1. /\ outputs = <<>> /\ outputs' = <<>> /\ board' = board /\ stage = "bus"
  BY DEF PanelInv, Panel!ErrorFlash, Panel!BootLedGreen
<1>3. PICK v : Panel!SetOutputLeds(Panel!Indices, v)
  BY DEF Panel!ErrorFlash, Panel!BootLedGreen
<1>4. /\ \A p \in BitJack \cup MachineLight : role'[p] = role[p]
      /\ DOMAIN channel' = DOMAIN channel
  BY <1>3, LedsKeep
<1> QED
  BY <1>1, <1>4, NotYetShown DEF PanelInv

(* The jack and the light of output i show it.                             *)
Seen(i) ==
  /\ IF JackPin(i) = -1 THEN dac[i] = Panel!Physical(outputs[i])
     ELSE Panel!Shown(JackPin(i)) = IF Panel!IsAnalog(i) THEN Panel!Physical(outputs[i])
                                    ELSE Top * Panel!Binary(outputs[i])
  /\ Panel!Shown(LightPin(i)) = IF Panel!IsAnalog(i) THEN Panel!Curve(outputs[i])
                                ELSE Panel!Clamped(outputs[i])

LEMMA SeenIs == Panel!JacksShowTheOutputs <=> \A i \in DOMAIN outputs : Seen(i)
BY DEF Panel!JacksShowTheOutputs, Seen, JackPin, LightPin

(* Where an output is to be seen.                                          *)
LEMMA WhereItIs ==
  ASSUME board \in Variants, NEW i \in Panel!Indices
  PROVE  /\ JackPin(i) # -1 => IF Panel!IsAnalog(i) THEN JackPin(i) \in WavePin ELSE JackPin(i) \in BitJack
         /\ IF i \in Panel!OnMachine THEN LightPin(i) \in MachineLight ELSE LightPin(i) \in WavePin
<1>1. Panel!IsAnalog(i) => JackPin(i) \in {JackPin(j) : j \in {k \in Panel!Indices : Panel!IsAnalog(k)}}
  OBVIOUS
<1>2. ~Panel!IsAnalog(i) => JackPin(i) \in BitJack
  BY DEF BitJack
<1>3. i \in Panel!OnMachine => LightPin(i) \in MachineLight
  BY DEF MachineLight
<1>4. i \notin Panel!OnMachine => LightPin(i) \in WavePin
  BY DEF WavePin
<1> QED
  BY <1>1, <1>2, <1>3, <1>4 DEF WavePin

(* What leaves the pins of the outputs alone leaves them showing what they *)
(* showed.                                                                 *)
LEMMA StillShown ==
  ASSUME PanelInv, board' = board, stage' = stage, outputs' = outputs, dac' = dac,
         DOMAIN channel' = DOMAIN channel, level' = level,
         \A p \in WavePin \cup BitJack \cup MachineLight : role'[p] = role[p],
         \A p \in BitJack : bit'[p] = bit[p],
         \A p \in WavePin : channel'[Panel!ChannelOf(p)] = channel[Panel!ChannelOf(p)]
  PROVE  PanelInv'
<1>1. /\ BitJack' = BitJack /\ MachineLight' = MachineLight /\ WavePin' = WavePin /\ Panel!Indices' = Panel!Indices
      /\ \A i : /\ JackPin(i)' = JackPin(i) /\ LightPin(i)' = LightPin(i)
               /\ Panel!IsAnalog(i)' <=> Panel!IsAnalog(i)
               /\ Panel!Physical(outputs[i])' = Panel!Physical(outputs[i])
               /\ Panel!Binary(outputs[i])' = Panel!Binary(outputs[i])
  BY DEF BitJack, MachineLight, WavePin, LightPin, JackPin, Panel!Indices, Panel!IsAnalog, Panel!OnMachine, Panel!Machined,
         Panel!Physical, Panel!Binary, Panel!Inverted
<1>2. Panel!JacksShowTheOutputs'
  <2> SUFFICES ASSUME outputs # <<>>
               PROVE  Panel!JacksShowTheOutputs'
    <3>1. DOMAIN <<>> = {}
      OBVIOUS
    <3> QED
      BY <3>1 DEF Panel!JacksShowTheOutputs
  <2>1. /\ stage = "run" /\ DOMAIN outputs = Panel!Indices /\ board \in Variants
        /\ \A p \in WavePin : role[p] = "pwm"
        /\ \A p \in BitJack : role[p] = "bit"
        /\ \A p \in MachineLight : role[p] = "machine"
    BY DEF PanelInv
  <2>2. ASSUME NEW i \in Panel!Indices, JackPin(i) # -1
        PROVE  Panel!Shown(JackPin(i))' = Panel!Shown(JackPin(i))
    <3> DEFINE p == Panel!Jacks[board][i]
    <3>1. p \in WavePin \/ p \in BitJack
      BY <2>1, <2>2, WhereItIs DEF JackPin
    <3>2. JackPin(i) = p /\ JackPin(i)' = p
      BY DEF JackPin
    <3> HIDE DEF p
    <3>3. role'[p] = role[p] /\ role[p] \in {"pwm", "bit"}
          /\ (role[p] = "bit" => bit'[p] = bit[p])
          /\ (role[p] = "pwm" => channel'[Panel!ChannelOf(p)] = channel[Panel!ChannelOf(p)])
      BY <2>1, <3>1, Spared
    <3> QED
      BY <3>2, <3>3 DEF Panel!Shown
  <2>3. ASSUME NEW i \in Panel!Indices
        PROVE  Panel!Shown(LightPin(i))' = Panel!Shown(LightPin(i))
    <3> DEFINE p == Panel!Lights[board][i]
    <3>1. p \in WavePin \/ p \in MachineLight
      BY <2>1, <2>3, WhereItIs DEF LightPin
    <3>2. LightPin(i) = p /\ LightPin(i)' = p
      BY DEF LightPin
    <3> HIDE DEF p
    <3>3. role'[p] = role[p] /\ role[p] \in {"pwm", "machine"}
          /\ (role[p] = "pwm" => channel'[Panel!ChannelOf(p)] = channel[Panel!ChannelOf(p)])
      BY <2>1, <3>1, Spared
    <3> QED
      BY <3>2, <3>3 DEF Panel!Shown
  <2>4. \A i \in Panel!Indices : Seen(i)
    BY <2>1, SeenIs DEF PanelInv
  <2>5. ASSUME NEW i \in Panel!Indices PROVE Seen(i)'
    <3>1. Seen(i)
      BY <2>4
    <3>2. /\ JackPin(i)' = JackPin(i) /\ Panel!IsAnalog(i)' = Panel!IsAnalog(i)
          /\ Panel!Physical(outputs[i])' = Panel!Physical(outputs[i])
          /\ Panel!Binary(outputs[i])' = Panel!Binary(outputs[i])
          /\ Panel!Curve(outputs[i])' = Panel!Curve(outputs[i])
          /\ Panel!Clamped(outputs[i])' = Panel!Clamped(outputs[i])
          /\ dac'[i] = dac[i]
      BY DEF JackPin, Panel!IsAnalog, Panel!Physical, Panel!Binary, Panel!Inverted, Panel!Curve, Panel!Clamped
    <3>3. /\ JackPin(i) # -1 => Panel!Shown(JackPin(i))' = Panel!Shown(JackPin(i))
          /\ Panel!Shown(LightPin(i))' = Panel!Shown(LightPin(i))
      BY <2>2, <2>3
    <3> QED
      BY <3>1, <3>2, <3>3 DEF Seen
  <2>6. DOMAIN outputs' = Panel!Indices
    BY <2>1
  <2>7. \A i \in DOMAIN outputs' : Seen(i)'
    BY <2>5, <2>6
  <2> QED
    BY <2>7 DEF Panel!JacksShowTheOutputs, Seen, JackPin, LightPin
<1> QED
  BY <1>1, <1>2 DEF PanelInv

LEMMA HandlerKeeps == PanelInv /\ Panel!Handler => PanelInv'
<1> SUFFICES ASSUME PanelInv, Panel!Handler
             PROVE  PanelInv'
  OBVIOUS
<1>1. /\ board = "USEQHARDWARE_1_0" /\ board \in Variants
      /\ UNCHANGED <<board, stage, role, level, channel, dac, outputs>>
  BY DEF PanelInv, Panel!Handler
<1>2. PICK q \in Panel!GateLights \cup {Panel!AI1Light}, v \in {0, 1} : Panel!DigitalWrite(Panel!Alone(q, v))
  BY DEF Panel!Handler
<1>3. \A p \in BitJack : bit'[p] = bit[p]
  <2>1. \A p \in BitJack : p \in Panel!Pin /\ p # q
    BY <1>1, Spared
  <2> QED
    BY <1>2, <2>1 DEF Panel!DigitalWrite, Panel!Over, Panel!Alone
<1> QED
  BY <1>1, <1>3, StillShown

LEMMA AI2Keeps == PanelInv /\ Panel!ShowAI2 => PanelInv'
<1> SUFFICES ASSUME PanelInv, Panel!ShowAI2
             PROVE  PanelInv'
  OBVIOUS
<1>1. /\ board = "USEQHARDWARE_1_0" /\ board \in Variants
      /\ UNCHANGED <<board, stage, bit, level, dac, outputs>>
      /\ DOMAIN channel = (0 .. 7) \X {0, 1}
  BY DEF PanelInv, Panel!ShowAI2
<1> DEFINE q == Panel!AI2Light
<1>2. PICK v \in {0, Top} : Panel!AnalogWrite(Panel!Alone(q, v))
  BY DEF Panel!ShowAI2
<1>3. \A p \in WavePin \cup BitJack \cup MachineLight : p \in Panel!Pin /\ p # q
  BY <1>1, Spared
<1>4. DOMAIN Panel!Alone(q, v) = {q}
  BY DEF Panel!Alone
<1>5. /\ role' = Panel!PinMode({q}, "pwm")
      /\ channel' = [c \in DOMAIN channel |->
           IF \E p \in {q} : Panel!ChannelOf(p) = c
           THEN Panel!Alone(q, v)[CHOOSE p \in {q} : Panel!ChannelOf(p) = c] ELSE channel[c]]
  BY <1>2, <1>4 DEF Panel!AnalogWrite
<1>6. \A p \in WavePin \cup BitJack \cup MachineLight : role'[p] = role[p]
  BY <1>3, <1>5, RolesKept
<1>7. \A p \in WavePin : channel'[Panel!ChannelOf(p)] = channel[Panel!ChannelOf(p)]
  <2>1. \A p \in WavePin : Panel!ChannelOf(p) # Panel!ChannelOf(q)
    BY <1>1, ChannelsApart
  <2>2. \A p \in WavePin : Panel!ChannelOf(p) \in DOMAIN channel
    BY <1>1, <1>3, ChannelIs DEF Panel!Pin
  <2> QED
    BY <1>5, <2>1, <2>2
<1>8. DOMAIN channel' = DOMAIN channel
  BY <1>5
<1> QED
  BY <1>1, <1>6, <1>7, <1>8, StillShown

(* A tick writes to every pin of an output what that output is.            *)
LEMMA IndexIs ==
  ASSUME board \in Variants, NEW i \in Panel!Indices
  PROVE  /\ Panel!IndexOf(Panel!Lights, LightPin(i)) = i
         /\ JackPin(i) # -1 => Panel!IndexOf(Panel!Jacks, JackPin(i)) = i
<1>1. \A j \in Panel!Indices : Panel!Lights[board][j] = LightPin(i) => j = i
  BY Distinct DEF LightPin
<1>2. JackPin(i) # -1 => \A j \in Panel!Indices : Panel!Jacks[board][j] = JackPin(i) => j = i
  BY Distinct DEF JackPin
<1>3. Panel!Lights[board][i] = LightPin(i) /\ Panel!Jacks[board][i] = JackPin(i)
  BY DEF LightPin, JackPin
<1> QED
  BY <1>1, <1>2, <1>3 DEF Panel!IndexOf

LEMMA WavePins ==
  ASSUME board \in Variants
  PROVE  Panel!At(Panel!Lights, Panel!Indices \ Panel!OnMachine)
           \cup Panel!At(Panel!Jacks, {i \in Panel!Indices : Panel!IsAnalog(i)}) = WavePin
BY Distinct DEF Panel!At, WavePin, LightPin, JackPin

LEMMA BitJacks ==
  ASSUME board \in Variants
  PROVE  Panel!At(Panel!Jacks, Panel!Indices \ {i \in Panel!Indices : Panel!IsAnalog(i)}) = BitJack
BY OfItsOwn DEF Panel!At, BitJack, JackPin

LEMMA ChannelsAreSet ==
  ASSUME PanelInv, NEW f, Panel!AnalogWrite(f), DOMAIN f = WavePin
  PROVE  /\ \A p \in WavePin : channel'[Panel!ChannelOf(p)] = f[p] /\ role'[p] = "pwm"
         /\ \A p \in BitJack \cup MachineLight : role'[p] = role[p]
         /\ DOMAIN channel' = DOMAIN channel
<1>1. board \in Variants /\ DOMAIN channel = (0 .. 7) \X {0, 1}
  BY DEF PanelInv
<1>2. /\ role' = Panel!PinMode(WavePin, "pwm")
      /\ channel' = [c \in DOMAIN channel |->
           IF \E p \in WavePin : Panel!ChannelOf(p) = c
           THEN f[CHOOSE p \in WavePin : Panel!ChannelOf(p) = c] ELSE channel[c]]
  BY DEF Panel!AnalogWrite
<1>3. \A p \in WavePin : p \in Panel!Pin /\ Panel!ChannelOf(p) \in DOMAIN channel
  BY <1>1, Spared, ChannelIs DEF Panel!Pin
<1>4. \A p \in BitJack \cup MachineLight : p \in Panel!Pin /\ p \notin WavePin
  BY <1>1, Spared
<1>5. ASSUME NEW p \in WavePin
      PROVE  channel'[Panel!ChannelOf(p)] = f[p]
  <2>1. (CHOOSE q \in WavePin : Panel!ChannelOf(q) = Panel!ChannelOf(p)) = p
    BY <1>1, ChannelsApart
  <2> QED
    BY <1>2, <1>3, <2>1
<1> QED
  BY <1>2, <1>3, <1>4, <1>5, RolesKept

LEMMA WriteKeeps == PanelInv /\ Panel!WriteOutputs => PanelInv'
<1> SUFFICES ASSUME PanelInv, Panel!WriteOutputs
             PROVE  PanelInv'
  OBVIOUS
<1> DEFINE of(map, p) == outputs'[Panel!IndexOf(map, p)]
           continuous == {i \in Panel!Indices : Panel!IsAnalog(i)}
           steady == Panel!At(Panel!Jacks, continuous)
           brightness(p) == IF Panel!IsAnalog(Panel!IndexOf(Panel!Lights, p)) THEN Panel!Curve(of(Panel!Lights, p))
                            ELSE Panel!Clamped(of(Panel!Lights, p))
           f == [p \in Panel!At(Panel!Lights, Panel!Indices \ Panel!OnMachine) \cup steady |->
                   IF p \in steady THEN Panel!Physical(of(Panel!Jacks, p)) ELSE brightness(p)]
           g == [p \in Panel!At(Panel!Jacks, Panel!Indices \ continuous) |-> Panel!Binary(of(Panel!Jacks, p))]
           h == [p \in Panel!At(Panel!Lights, Panel!OnMachine) |-> Panel!Curve(of(Panel!Lights, p))]
<1>1. /\ stage = "run" /\ stage' = stage /\ board' = board /\ board \in Variants
      /\ outputs' \in Panel!TickOutputs
      /\ Panel!AnalogWrite(f) /\ Panel!DigitalWrite(g) /\ level' = Panel!Over(level, h)
      /\ dac' = [i \in {1, 2} |-> Panel!Physical(outputs'[i])]
  BY DEF PanelInv, Panel!WriteOutputs
<1>2. DOMAIN outputs' = Panel!Indices
  BY <1>1 DEF Panel!TickOutputs
<1>3. DOMAIN f = WavePin /\ DOMAIN g = BitJack /\ DOMAIN h = MachineLight
  BY <1>1, WavePins, BitJacks, Spared
<1>4. /\ \A p \in WavePin : channel'[Panel!ChannelOf(p)] = f[p] /\ role'[p] = "pwm"
      /\ \A p \in BitJack \cup MachineLight : role'[p] = role[p]
      /\ DOMAIN channel' = DOMAIN channel
  <2> HIDE DEF f
  <2> QED
    BY <1>1, <1>3, ChannelsAreSet
<1>5. /\ \A p \in BitJack : bit'[p] = g[p] /\ role'[p] = "bit"
      /\ \A p \in MachineLight : level'[p] = h[p] /\ role'[p] = "machine"
  <2>1. \A p \in BitJack \cup MachineLight : p \in Panel!Pin
    BY <1>1, Spared
  <2>2. /\ \A p \in BitJack : role[p] = "bit"
        /\ \A p \in MachineLight : role[p] = "machine"
    BY <1>1 DEF PanelInv
  <2> HIDE DEF g, h
  <2> QED
    BY <1>1, <1>3, <1>4, <2>1, <2>2 DEF Panel!DigitalWrite, Panel!Over
<1>6. ASSUME NEW i \in Panel!Indices
      PROVE  /\ JackPin(i) # -1 /\ Panel!IsAnalog(i) => f[JackPin(i)] = Panel!Physical(outputs'[i])
             /\ ~Panel!IsAnalog(i) => g[JackPin(i)] = Panel!Binary(outputs'[i])
             /\ i \in Panel!OnMachine => h[LightPin(i)] = Panel!Curve(outputs'[i]) /\ Panel!IsAnalog(i)
             /\ i \notin Panel!OnMachine =>
                  f[LightPin(i)] = IF Panel!IsAnalog(i) THEN Panel!Curve(outputs'[i]) ELSE Panel!Clamped(outputs'[i])
  <2>1. /\ Panel!IndexOf(Panel!Lights, LightPin(i)) = i
        /\ JackPin(i) # -1 => Panel!IndexOf(Panel!Jacks, JackPin(i)) = i
    BY <1>1, IndexIs
  <2>2. LightPin(i) \notin steady
    BY <1>1, Distinct DEF Panel!At, JackPin
  <2>3. JackPin(i) # -1 /\ Panel!IsAnalog(i) => JackPin(i) \in steady
    BY DEF Panel!At, JackPin
  <2>4. ~Panel!IsAnalog(i) => JackPin(i) # -1 /\ JackPin(i) \in BitJack
    BY <1>1, OfItsOwn DEF BitJack
  <2>5. i \in Panel!OnMachine => LightPin(i) \in MachineLight /\ Panel!IsAnalog(i)
    BY <1>1, OfItsOwn DEF MachineLight
  <2>6. i \notin Panel!OnMachine => LightPin(i) \in WavePin
    BY <1>1, WhereItIs
  <2>7. JackPin(i) # -1 /\ Panel!IsAnalog(i) => JackPin(i) \in WavePin
    BY <1>1, WhereItIs
  <2> HIDE DEF steady
  <2>8. /\ \A p \in WavePin : f[p] = IF p \in steady THEN Panel!Physical(of(Panel!Jacks, p)) ELSE brightness(p)
        /\ \A p \in BitJack : g[p] = Panel!Binary(of(Panel!Jacks, p))
        /\ \A p \in MachineLight : h[p] = Panel!Curve(of(Panel!Lights, p))
    BY <1>3
  <2> HIDE DEF f, g, h
  <2> QED
    BY <2>1, <2>2, <2>3, <2>4, <2>5, <2>6, <2>7, <2>8
<1> HIDE DEF f, g, h
<1>7. ASSUME NEW i \in Panel!Indices
      PROVE  Seen(i)'
  <2> DEFINE jack == Panel!Jacks[board][i]
             light == Panel!Lights[board][i]
  <2>1. JackPin(i) = jack /\ JackPin(i)' = jack /\ LightPin(i) = light /\ LightPin(i)' = light
    BY <1>1 DEF JackPin, LightPin
  <2>2. jack = -1 => dac'[i] = Panel!Physical(outputs'[i])
    BY <1>1, <2>1, OfItsOwn
  <2>3. /\ jack # -1 => IF Panel!IsAnalog(i) THEN jack \in WavePin ELSE jack \in BitJack
        /\ IF i \in Panel!OnMachine THEN light \in MachineLight ELSE light \in WavePin
    BY <1>1, <2>1, WhereItIs
  <2> HIDE DEF jack, light
  <2>4. jack # -1 => Panel!Shown(JackPin(i))' = IF Panel!IsAnalog(i) THEN Panel!Physical(outputs'[i])
                                          ELSE Top * Panel!Binary(outputs'[i])
    <3>1. CASE jack # -1 /\ Panel!IsAnalog(i)
      <4>1. role'[jack] = "pwm" /\ channel'[Panel!ChannelOf(jack)] = Panel!Physical(outputs'[i])
        BY <1>4, <1>6, <2>1, <2>3, <3>1
      <4> QED
        BY <2>1, <3>1, <4>1 DEF Panel!Shown
    <3>2. CASE jack # -1 /\ ~Panel!IsAnalog(i)
      <4>1. role'[jack] = "bit" /\ bit'[jack] = Panel!Binary(outputs'[i])
        BY <1>5, <1>6, <2>1, <2>3, <3>2
      <4> QED
        BY <2>1, <3>2, <4>1 DEF Panel!Shown
    <3> QED
      BY <3>1, <3>2
  <2>5. Panel!Shown(LightPin(i))' = IF Panel!IsAnalog(i) THEN Panel!Curve(outputs'[i]) ELSE Panel!Clamped(outputs'[i])
    <3>1. CASE i \in Panel!OnMachine
      <4>1. role'[light] = "machine" /\ level'[light] = Panel!Curve(outputs'[i]) /\ Panel!IsAnalog(i)
        BY <1>5, <1>6, <2>1, <2>3, <3>1
      <4> QED
        BY <2>1, <4>1 DEF Panel!Shown
    <3>2. CASE i \notin Panel!OnMachine
      <4>1. /\ role'[light] = "pwm"
            /\ channel'[Panel!ChannelOf(light)] =
                 IF Panel!IsAnalog(i) THEN Panel!Curve(outputs'[i]) ELSE Panel!Clamped(outputs'[i])
        BY <1>4, <1>6, <2>1, <2>3, <3>2
      <4> QED
        BY <2>1, <4>1 DEF Panel!Shown
    <3> QED
      BY <3>1, <3>2
  <2>6. /\ Panel!IsAnalog(i)' = Panel!IsAnalog(i)
        /\ Panel!Physical(outputs[i])' = Panel!Physical(outputs'[i])
        /\ Panel!Binary(outputs[i])' = Panel!Binary(outputs'[i])
        /\ Panel!Curve(outputs[i])' = Panel!Curve(outputs'[i])
        /\ Panel!Clamped(outputs[i])' = Panel!Clamped(outputs'[i])
    BY <1>1 DEF Panel!IsAnalog, Panel!Physical, Panel!Binary, Panel!Inverted, Panel!Curve, Panel!Clamped
  <2> QED
    BY <2>1, <2>2, <2>4, <2>5, <2>6 DEF Seen
<1>8. Panel!JacksShowTheOutputs'
  <2>1. \A i \in DOMAIN outputs' : Seen(i)'
    BY <1>2, <1>7
  <2> QED
    BY <2>1 DEF Panel!JacksShowTheOutputs, Seen, JackPin, LightPin
<1>9. /\ BitJack' = BitJack /\ MachineLight' = MachineLight /\ WavePin' = WavePin
      /\ Panel!Indices' = Panel!Indices
  BY <1>1 DEF BitJack, MachineLight, WavePin, LightPin, JackPin, Panel!Indices, Panel!IsAnalog, Panel!OnMachine, Panel!Machined
<1> QED
  BY <1>1, <1>2, <1>4, <1>5, <1>8, <1>9 DEF PanelInv

LEMMA PanelStep == PanelInv /\ [Panel!Next]_panelVars => PanelInv'
<1>1. PanelInv /\ UNCHANGED panelVars => PanelInv'
  <2> SUFFICES ASSUME PanelInv, UNCHANGED panelVars
               PROVE  PanelInv'
    OBVIOUS
  <2> QED
    BY StillShown DEF panelVars
<1> QED
  BY <1>1, ResetKeeps, LightsKeep, FrameKeeps, BusKeeps, FlashKeeps, HandlerKeeps, AI2Keeps, WriteKeeps
     DEF Panel!Next

LEMMA PanelInitially == Panel!Init => PanelInv
<1> SUFFICES ASSUME Panel!Init
             PROVE  PanelInv
  OBVIOUS
<1>1. board \in Variants
  BY BoardAssumption DEF Panel!Init, Variants
<1>2. Panel!JacksShowTheOutputs
  BY NothingToShow DEF Panel!Init
<1> QED
  BY <1>1, <1>2 DEF Panel!Init, PanelInv

(* On every variant, after every tick, each jack and each light of an      *)
(* output shows what the tick computed, whatever the lights of the inputs  *)
(* and the interrupt handlers do: no two of them share a pin or a channel  *)
(* of the PWM.                                                             *)
THEOREM PanelShowsTheOutputs == AroundSpec => []JacksShowTheOutputs
<1>1. PanelInv => JacksShowTheOutputs
  BY DEF PanelInv, JacksShowTheOutputs
<1>2. QED
  BY <1>1, PartsMove, PanelInitially, PanelStep, PTL DEF AroundSpec

=============================================================================
