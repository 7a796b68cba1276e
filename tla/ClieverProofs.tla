--------------------------- MODULE ClieverProofs ---------------------------
(* Proofs about the life of a Cliever, for any handles and any number of   *)
(* waits pending.                                                          *)
EXTENDS Cliever, TLAPS

(* What the foreground has made by the time it is somewhere.               *)
MadeInOrder ==
  /\ fg = "create" => ~exists
  /\ ~exists => myHandle = None
  /\ fg = "listen" => exists
  /\ fg = "channel" => exists /\ listening
  /\ channel => exists /\ listening
  /\ listening => exists
  /\ fg \in {"alive", "run"} /\ odd = {} => channel
  /\ fg = "fault" => odd # {}

(* What the data layer may count on, if nothing odd has happened.          *)
WaitedFor ==
  /\ alive /\ odd = {} => channel
  /\ bg = "alive" /\ odd = {} => exists
  /\ bg \in {"open", "run", "ended"} => exists
  /\ bg \in {"open", "run", "ended"} /\ odd = {} => alive
  /\ bg = "fault" => odd # {}

(* Whoever beats has connected.                                            *)
ConnectedFirst ==
  /\ pulse \in {"test", "arm", "sleep", "done"} => channel
  /\ pulse = "fault" => odd # {}
  /\ beats > 0 => channel
  /\ ~unheard

IInv == TypeOK /\ MadeInOrder /\ WaitedFor /\ ConnectedFirst

LEMMA InitIInv == Init => IInv
<1> SUFFICES ASSUME Init PROVE IInv
    OBVIOUS
<1>1. TypeOK
  <2>1. beats \in 0 .. MaxWaits /\ frames \in 0 .. MaxWaits
    BY ClieverAssumption DEF Init
  <2>2. {exists, listening, channel, alive, shuttingDown} \subseteq BOOLEAN
        /\ {asking, terminated, unheard} \subseteq BOOLEAN
    BY Zenon DEF Init
  <2> QED  BY <2>1, <2>2 DEF Init, TypeOK
<1>2. MadeInOrder /\ WaitedFor /\ ConnectedFirst
  BY DEF Init, MadeInOrder, WaitedFor, ConnectedFirst
<1> QED  BY <1>1, <1>2 DEF IInv

----------------------------------------------------------------------------
LEMMA ForegroundIInv == ASSUME IInv, Foreground \/ InitFails PROVE IInv'
<1>1. CASE Construct
  <2>1. /\ fg = "create" /\ fg' = "listen" /\ exists'
        /\ alive' \in BOOLEAN /\ shuttingDown' \in BOOLEAN /\ myHandle' \in {None, Stray}
        /\ odd' = odd \cup (IF alive' THEN {"stray"} ELSE {})
        /\ UNCHANGED <<bg, pulse, stream, listening, channel, beats, frames, asking, answers,
                       given, terminated, unheard>>
    BY <1>1 DEF Construct, timers, net
  <2>2. odd' = {} => odd = {} /\ ~alive'
    BY <2>1
  <2>3. TypeOK'
    BY <2>1 DEF IInv, TypeOK
  <2>4. MadeInOrder'
    BY <2>1 DEF IInv, MadeInOrder
  <2>5. WaitedFor'
    <3>1. bg \notin {"open", "run", "ended"}
      BY <2>1 DEF IInv, WaitedFor, MadeInOrder
    <3> QED  BY <2>1, <2>2, <3>1 DEF IInv, WaitedFor
  <2>6. ConnectedFirst'
    BY <2>1, <2>2 DEF IInv, ConnectedFirst
  <2> QED  BY <2>3, <2>4, <2>5, <2>6 DEF IInv
<1>2. CASE Listen
  BY <1>2 DEF Listen, IInv, TypeOK, MadeInOrder, WaitedFor, ConnectedFirst, fields, timers, net, notes
<1>3. CASE OpenForeground
  BY <1>3 DEF OpenForeground, IInv, TypeOK, MadeInOrder, WaitedFor, ConnectedFirst, fields, timers, net, notes
<1>4. CASE SetAlive
  BY <1>4 DEF SetAlive, IInv, TypeOK, MadeInOrder, WaitedFor, ConnectedFirst, made, timers, net, notes
<1>5. CASE InitFails
  BY <1>5 DEF InitFails, IInv, TypeOK, MadeInOrder, WaitedFor, ConnectedFirst, made, fields, timers, net
<1> QED  BY <1>1, <1>2, <1>3, <1>4, <1>5 DEF Foreground

LEMMA DataLayerIInv == ASSUME IInv, DataLayer \/ OpenFails PROVE IInv'
<1>1. CASE SpinExists
  BY <1>1 DEF SpinExists, Spin, IInv, TypeOK, MadeInOrder, WaitedFor, ConnectedFirst, made, fields, timers, net
<1>2. CASE SpinAlive
  BY <1>2 DEF SpinAlive, Spin, IInv, TypeOK, MadeInOrder, WaitedFor, ConnectedFirst, made, fields, timers, net
<1>3. CASE OpenBackground
  BY <1>3 DEF OpenBackground, IInv, TypeOK, MadeInOrder, WaitedFor, ConnectedFirst, made, fields, timers, net, notes
<1>4. CASE OpenFails
  BY <1>4 DEF OpenFails, IInv, TypeOK, MadeInOrder, WaitedFor, ConnectedFirst, made, fields, timers, net, notes
<1> QED  BY <1>1, <1>2, <1>3, <1>4 DEF DataLayer

LEMMA PulseIInv == ASSUME IInv, Pulse PROVE IInv'
<1>1. CASE Connect
  <2>1. odd = {} => channel
    BY <1>1 DEF Connect, IInv, TypeOK, WaitedFor
  <2>2. /\ pulse = "connect" /\ pulse' \in {"test", "done", "fault"}
        /\ pulse' \in {"test", "done"} => channel
        /\ pulse' = "fault" => ~channel
        /\ UNCHANGED <<fg, bg, stream, exists, listening, channel, alive, shuttingDown, myHandle,
                       beats, frames, asking, answers, given, terminated, unheard, odd>>
    BY <1>1 DEF Connect, made, fields, timers, net, notes
  <2>3. TypeOK'
    BY <2>2 DEF IInv, TypeOK
  <2> QED  BY <2>1, <2>2, <2>3 DEF IInv, MadeInOrder, WaitedFor, ConnectedFirst
<1>2. CASE PulseTest
  BY <1>2 DEF PulseTest, IInv, TypeOK, MadeInOrder, WaitedFor, ConnectedFirst, made, fields, timers, net, notes
<1>3. CASE PulseArm
  <2>1. beats' \in 0 .. MaxWaits
    BY <1>3, ClieverAssumption DEF PulseArm, IInv, TypeOK
  <2> QED  BY <1>3, <2>1 DEF PulseArm, IInv, TypeOK, MadeInOrder, WaitedFor, ConnectedFirst,
                            made, fields, net, notes
<1>4. CASE PulseSleep
  BY <1>4 DEF PulseSleep, IInv, TypeOK, MadeInOrder, WaitedFor, ConnectedFirst, made, fields, timers, net, notes
<1> QED  BY <1>1, <1>2, <1>3, <1>4 DEF Pulse

LEMMA StreamIInv == ASSUME IInv, Stream PROVE IInv'
<1>1. CASE StreamTest
  BY <1>1 DEF StreamTest, IInv, TypeOK, MadeInOrder, WaitedFor, ConnectedFirst, made, fields, timers, net, notes
<1>2. CASE StreamArm
  <2>1. frames' \in 0 .. MaxWaits
    BY <1>2, ClieverAssumption DEF StreamArm, IInv, TypeOK
  <2> QED  BY <1>2, <2>1 DEF StreamArm, IInv, TypeOK, MadeInOrder, WaitedFor, ConnectedFirst,
                            made, fields, net, notes
<1>3. CASE StreamSleep
  BY <1>3 DEF StreamSleep, IInv, TypeOK, MadeInOrder, WaitedFor, ConnectedFirst, made, fields, timers, net, notes
<1> QED  BY <1>1, <1>2, <1>3 DEF Stream

LEMMA HandlersIInv == ASSUME IInv, Beat \/ Frame PROVE IInv'
<1>1. CASE Beat
  <2>1. /\ beats' \in 0 .. MaxWaits /\ channel /\ listening
    BY <1>1, ClieverAssumption DEF Beat, IInv, TypeOK, ConnectedFirst, MadeInOrder
  <2>2. /\ unheard' = FALSE /\ asking' \in BOOLEAN
        /\ UNCHANGED <<fg, bg, pulse, stream, exists, listening, channel, alive, shuttingDown,
                       myHandle, frames, answers, given, terminated, odd>>
    BY <1>1, <2>1 DEF Beat, IInv, ConnectedFirst, TypeOK, threads, made, fields
  <2>3. TypeOK'
    BY <2>1, <2>2 DEF IInv, TypeOK
  <2> QED  BY <2>1, <2>2, <2>3 DEF IInv, MadeInOrder, WaitedFor, ConnectedFirst
<1>2. CASE Frame
  <2>1. frames' \in 0 .. MaxWaits
    BY <1>2, ClieverAssumption DEF Frame, IInv, TypeOK
  <2> QED  BY <1>2, <2>1 DEF Frame, IInv, TypeOK, MadeInOrder, WaitedFor, ConnectedFirst,
                            threads, made, fields, net, notes
<1> QED  BY <1>1, <1>2

LEMMA NetIInv ==
  ASSUME IInv, Lose \/ \E h \in Handle \cup {None} : Hear(h) \/ Answer(h) \/ Occupy(h)
  PROVE  IInv'
<1>1. /\ UNCHANGED <<fg, bg, pulse, stream, exists, listening, channel, alive, shuttingDown,
                     beats, frames, terminated, unheard, odd>>
      /\ asking' \in BOOLEAN /\ answers' \subseteq Handle \cup {None} /\ given' \subseteq Handle
      /\ myHandle' \in Handle \cup {None, Stray}
      /\ bg = "run" \/ myHandle' = myHandle
  BY DEF Lose, Hear, Answer, Occupy, IInv, TypeOK, threads, made, fields, timers, notes
<1>2. TypeOK'
  BY <1>1 DEF IInv, TypeOK
<1> QED  BY <1>1, <1>2 DEF IInv, MadeInOrder, WaitedFor, ConnectedFirst

LEMMA TerminateIInv == ASSUME IInv, Terminate PROVE IInv'
<1>1. /\ UNCHANGED <<fg, bg, pulse, stream, exists, listening, channel, alive, myHandle,
                     beats, frames, asking, answers, given, unheard, odd>>
      /\ terminated' \in BOOLEAN /\ shuttingDown' \in BOOLEAN
  BY DEF Terminate, IInv, TypeOK, threads, made, timers, net
<1>2. TypeOK'
  BY <1>1 DEF IInv, TypeOK
<1> QED  BY <1>1, <1>2 DEF IInv, MadeInOrder, WaitedFor, ConnectedFirst

LEMMA StepIInv == ASSUME IInv, [Next]_vars PROVE IInv'
<1>1. CASE UNCHANGED vars
  BY <1>1 DEF vars, threads, made, fields, timers, net, notes, IInv, TypeOK, MadeInOrder,
              WaitedFor, ConnectedFirst
<1> QED  BY <1>1, ForegroundIInv, DataLayerIInv, PulseIInv, StreamIInv, HandlersIInv, NetIInv,
            TerminateIInv DEF Next

LEMMA Invariance == Spec => []IInv
BY InitIInv, StepIInv, PTL DEF Spec

----------------------------------------------------------------------------
(* Every variable keeps its type.                                          *)
THEOREM ClieverTypeOK == Spec => []TypeOK
<1>1. IInv => TypeOK
  BY DEF IInv
<1> QED  BY <1>1, Invariance, PTL

(* No heartbeat is sent before the Cliever listens to it.                  *)
THEOREM ClieverBeatIsHeard == Spec => []BeatIsHeard
<1>1. IInv => BeatIsHeard
  BY DEF IInv, ConnectedFirst, BeatIsHeard
<1> QED  BY <1>1, Invariance, PTL

(* A thread follows a bad pointer only for one of the three reasons.       *)
THEOREM ClieverFaultsExplained == Spec => []FaultsExplained
<1>1. IInv => FaultsExplained
  BY DEF IInv, MadeInOrder, WaitedFor, ConnectedFirst, FaultsExplained
<1> QED  BY <1>1, Invariance, PTL

(* A Cliever that was told to shut down stays told, and begins no wait but *)
(* those its threads had decided on.                                       *)
THEOREM ClieverOwesNoMore == Spec => OwesNoMore
<1>1. ASSUME IInv, [Next]_vars PROVE [OweNoMore]_vars
  <2> SUFFICES ASSUME Next, exists, shuttingDown PROVE shuttingDown' /\ Owed' <= Owed
      BY <1>1 DEF OweNoMore
  <2>1. beats \in Nat /\ frames \in Nat /\ Turns(pulse) \in Nat /\ Turns(stream) \in Nat
    BY <1>1 DEF IInv, TypeOK, Turns
  <2>2. ASSUME UNCHANGED <<shuttingDown, pulse, stream, beats, frames>>
        PROVE  shuttingDown' /\ Owed' <= Owed
    BY <2>1, <2>2 DEF Owed
  <2>3. CASE Foreground \/ InitFails
    <3>1. ~Construct
      BY <1>1 DEF Construct, IInv, MadeInOrder
    <3> QED  BY <2>2, <2>3, <3>1 DEF Foreground, InitFails, Listen, OpenForeground, SetAlive,
             fields, timers
  <2>4. CASE SpinExists \/ SpinAlive \/ OpenFails
    BY <2>2, <2>4 DEF SpinExists, SpinAlive, OpenFails, fields, timers
  <2>5. CASE OpenBackground
    BY <2>1, <2>5 DEF OpenBackground, fields, timers, Owed, Turns
  <2>6. CASE Pulse
    <3>1. UNCHANGED <<shuttingDown, stream, frames>>
      BY <2>6 DEF Pulse, Connect, PulseTest, PulseArm, PulseSleep, fields, timers
    <3>2. beats' + Turns(pulse') <= beats + Turns(pulse) /\ beats' + Turns(pulse') \in Nat
      BY <2>1, <2>6 DEF Pulse, Connect, PulseTest, PulseArm, PulseSleep, timers, Turns
    <3>3. beats' \in Nat /\ Turns(pulse') \in Nat
      BY <2>1, <2>6 DEF Pulse, Connect, PulseTest, PulseArm, PulseSleep, timers, Turns
    <3> QED  BY <2>1, <3>1, <3>2, <3>3 DEF Owed
  <2>7. CASE Stream
    <3>1. UNCHANGED <<shuttingDown, pulse, beats>>
      BY <2>7 DEF Stream, StreamTest, StreamArm, StreamSleep, fields, timers
    <3>2. frames' + Turns(stream') <= frames + Turns(stream)
      BY <2>1, <2>7 DEF Stream, StreamTest, StreamArm, StreamSleep, timers, Turns
    <3>3. frames' \in Nat /\ Turns(stream') \in Nat
      BY <2>1, <2>7 DEF Stream, StreamTest, StreamArm, StreamSleep, timers, Turns
    <3> QED  BY <2>1, <3>1, <3>2, <3>3 DEF Owed
  <2>8. CASE Beat \/ Frame
    <3>1. UNCHANGED <<shuttingDown, pulse, stream>>
      BY <2>8 DEF Beat, Frame, threads, fields
    <3>2. Turns(pulse') = Turns(pulse) /\ Turns(stream') = Turns(stream)
      BY <3>1
    <3>3. Owed' = beats' + frames' + Turns(pulse) + Turns(stream)
      BY <3>2 DEF Owed
    <3>4. \/ beats' = beats /\ frames' = frames - 1
          \/ frames' = frames /\ beats' = beats - 1
      BY <2>8 DEF Beat, Frame
    <3>5. Owed' = Owed - 1
      BY <2>1, <3>3, <3>4 DEF Owed
    <3>6. Owed \in Nat
      BY <2>1 DEF Owed
    <3> QED  BY <3>1, <3>5, <3>6
  <2>9. CASE Lose \/ \E h \in Handle \cup {None} : Hear(h) \/ Answer(h) \/ Occupy(h)
    BY <2>2, <2>9 DEF Lose, Hear, Answer, Occupy, threads, fields, timers
  <2>10. CASE Terminate
    <3>1. shuttingDown'
      BY <2>10 DEF Terminate
    <3>2. UNCHANGED <<pulse, stream, beats, frames>>
      BY <2>10 DEF Terminate, threads, timers
    <3> QED  BY <2>1, <3>1, <3>2 DEF Owed
  <2> QED  BY <2>3, <2>4, <2>5, <2>6, <2>7, <2>8, <2>9, <2>10 DEF Next, DataLayer
<1> QED  BY <1>1, Invariance, PTL DEF Spec, OwesNoMore
=============================================================================
