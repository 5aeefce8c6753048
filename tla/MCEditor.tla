------------------------------ MODULE MCEditor ------------------------------
(***************************************************************************)
(* The editor's side of the firmware: the texts it sends and what compiles *)
(* them, the session with its streams, and below both the bytes of the     *)
(* lines.  They share no variable: a behaviour moves one of the three and  *)
(* leaves the others at a start.                                           *)
(***************************************************************************)
EXTENDS MCCompiler, MCSession, SerialProtocol

CONSTANTS ask, tell, long, silent, text, id1, id2     \* SerialProtocol

VARIABLE part

(* The lines an editor sends; a long one fills the ring.                   *)
SomeLines == {ask, tell, long, silent, text}

KindOf == [m \in SomeLines |-> CASE m \in {ask, long} -> "request"
                                 [] m \in {tell, silent} -> "live"
                                 [] m = text -> "junk"]

IdOf == [m \in SomeLines |-> CASE m = ask -> id1
                               [] m \in {long, tell} -> id2
                               [] m \in {silent, text} -> NoId]

SizeOf == [m \in SomeLines |-> IF m = long THEN RxSize ELSE 2]

all == <<part, vars, session, lines>>

-----------------------------------------------------------------------------
Compiling == part = "compiler"
Streaming == part = "streams"
Reading == part = "lines"

(* A part that stays where it is has one start.                            *)
EditorInit ==
  /\ part \in {"compiler", "streams", "lines"}
  /\ Init /\ SessionInit /\ LinesInit
  /\ part # "compiler" => todo = <<<<<<"o1", T>>>>>>
  /\ part # "streams" => tx = <<>>

EditorNext ==
  /\ \/ Compiling /\ Next /\ UNCHANGED <<session, lines>>
     \/ Streaming /\ SessionNext /\ UNCHANGED <<vars, lines>>
     \/ Reading /\ LinesNext /\ UNCHANGED <<vars, session>>
  /\ UNCHANGED part

(* The fairness of the streams and of the lines.                           *)
StreamFairness ==
  /\ WF_session(Streaming /\ Tick) /\ WF_session(Streaming /\ TickTakes)
  /\ WF_session(Streaming /\ Receive)
  /\ []<>(tx = <<>>)

LineFairness ==
  WF_lines(Reading /\ HasIncoming) /\ WF_lines(Reading /\ ReadCommand)

EditorSpec == EditorInit /\ [][EditorNext]_all /\ StreamFairness /\ LineFairness

=============================================================================
