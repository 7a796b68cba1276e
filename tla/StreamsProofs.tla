--------------------------- MODULE StreamsProofs ---------------------------
(* Proofs about the two threads that run the io_service of a device, for   *)
(* any channels and any number of waits that are ready.                    *)
EXTENDS Streams, TLAPS

(* The variables a step of one thread may leave anywhere in their types.   *)
Steps == {"free", "connect", "test", "set", "process", "leave", "clean", "gone"}

ConnectsFrame == \A t \in Io : step[t] = "connect" => kind[t] = "frame"

(* If no two handlers of a kind have overlapped, the flag of a kind is set *)
(* exactly while a thread is between its setting and its resetting, and    *)
(* that thread is alone.                                                   *)
Solo ==
  "kind" \notin overlapped =>
    /\ \A k \in Kind : ~(Inside("fg", k) /\ Inside("bg", k))
    /\ \A t \in Io : step[t] \in {"process", "leave"} => busy[kind[t]]

(* A channel nobody receives on is the one the data layer ended with.      *)
LastOfBg == \A c \in Deaf : step["bg"] = "gone" /\ ch["bg"] = c

IInv == TypeOK /\ ConnectsFrame /\ Solo /\ DiesOfOverlap /\ BusyIsInside /\ LastOfBg

LEMMA InitIInv == Init => IInv
<1> SUFFICES ASSUME Init PROVE IInv
    OBVIOUS
<1>1. TypeOK
  <2>1. ready \in [Timer -> 0 .. MaxReady]
    BY StreamAssumption DEF Init
  <2>2. {connected, inserting} \subseteq BOOLEAN
    BY Zenon DEF Init
  <2>3. busy \in [Kind -> BOOLEAN]
    BY Zenon DEF Init
  <2>4. \A t \in Io : kind[t] = "incoming" <=> ch[t] # None
    BY DEF Init
  <2> QED  BY <2>1, <2>2, <2>3, <2>4 DEF Init, TypeOK, Io, Kind, Timer
<1>2. ConnectsFrame /\ Solo /\ DiesOfOverlap /\ BusyIsInside /\ LastOfBg
  BY DEF Init, ConnectsFrame, Solo, DiesOfOverlap, BusyIsInside, LastOfBg, Deaf, Inside, Io
<1> QED  BY <1>1, <1>2 DEF IInv

(* A step that changes neither the handlers nor the senders.               *)
LEMMA Idle ==
  ASSUME IInv, UNCHANGED <<handler, busy, armed, died>>, overlapped \subseteq overlapped'
  PROVE  ConnectsFrame' /\ Solo' /\ DiesOfOverlap' /\ BusyIsInside' /\ LastOfBg'
<1>1. UNCHANGED <<step, kind, ch, busy, armed, died>>
  BY DEF handler
<1>2. (\A t \in Io, k \in Kind : Inside(t, k)' <=> Inside(t, k)) /\ Deaf' = Deaf
  BY <1>1 DEF Inside, Deaf
<1> QED  BY <1>1, <1>2 DEF IInv, ConnectsFrame, Solo, DiesOfOverlap, BusyIsInside, LastOfBg,
                            Inside, Deaf, Io

LEMMA OutsideIInv ==
  ASSUME IInv, BeginInsert \/ EndInsert \/ \E k \in Timer : Arm(k)
  PROVE  IInv'
<1>1. UNCHANGED <<step, kind, ch, busy, armed, connected, died, overlapped>>
      /\ UNCHANGED handler
  BY DEF BeginInsert, EndInsert, Arm, handler
<1>2. inserting' \in BOOLEAN
  BY DEF BeginInsert, EndInsert, Arm, IInv, TypeOK
<1>3. ready' \in [Timer -> 0 .. MaxReady]
  BY StreamAssumption DEF BeginInsert, EndInsert, Arm, IInv, TypeOK
<1>4. TypeOK'
  BY <1>1, <1>2, <1>3 DEF IInv, TypeOK
<1> QED  BY <1>1, <1>4, Idle DEF IInv

(* A thread enters a handler.                                              *)
LEMMA EnterIInv ==
  ASSUME IInv, NEW t \in Io, NEW k \in Kind, NEW c \in Channel \cup {None},
         NEW at \in {"connect", "test"}, Enter(t, k, c, at),
         at = "connect" => k = "frame", k = "incoming" <=> c # None,
         armed' = armed \ {c}, ready' \in [Timer -> 0 .. MaxReady]
  PROVE  IInv'
<1>1. /\ step[t] = "free"
      /\ step' = [step EXCEPT ![t] = at] /\ kind' = [kind EXCEPT ![t] = k]
      /\ ch' = [ch EXCEPT ![t] = c]
      /\ overlapped' = IF \E u \in Io \ {t} : Inside(u, k)
                       THEN overlapped \cup {"kind"} ELSE overlapped
      /\ UNCHANGED <<busy, connected, inserting, died>>
  BY DEF Enter
<1>2. /\ step'[t] = at /\ kind'[t] = k /\ ch'[t] = c
      /\ \A u \in Io \ {t} : step'[u] = step[u] /\ kind'[u] = kind[u] /\ ch'[u] = ch[u]
  BY <1>1 DEF IInv, TypeOK
<1>3. TypeOK'
  <2>1. step' \in [Io -> Steps] /\ kind' \in [Io -> Kind] /\ ch' \in [Io -> Channel \cup {None}]
    BY <1>1 DEF IInv, TypeOK, Steps
  <2>2. step'["fg"] # "gone" /\ \A u \in Io : kind'[u] = "incoming" <=> ch'[u] # None
    BY <1>2 DEF IInv, TypeOK, Io
  <2>3. overlapped' \subseteq {"kind", "data"} /\ armed' \subseteq Channel
    BY <1>1 DEF IInv, TypeOK
  <2> QED  BY <1>1, <2>1, <2>2, <2>3 DEF IInv, TypeOK, Steps
<1>4. ConnectsFrame'
  BY <1>2 DEF IInv, ConnectsFrame
<1>5. Solo'
  <2> SUFFICES ASSUME "kind" \notin overlapped'
               PROVE  /\ \A j \in Kind : ~(Inside("fg", j)' /\ Inside("bg", j)')
                      /\ \A u \in Io : step'[u] \in {"process", "leave"} => busy'[kind'[u]]
      BY DEF Solo
  <2>1. "kind" \notin overlapped /\ \A u \in Io \ {t} : ~Inside(u, k)
    BY <1>1
  <2>2. /\ \A j \in Kind : ~(Inside("fg", j) /\ Inside("bg", j))
        /\ \A u \in Io : step[u] \in {"process", "leave"} => busy[kind[u]]
    BY <2>1 DEF IInv, Solo
  <2>3. \A u \in Io \ {t} : ~Inside(u, k)' /\ \A j \in Kind : Inside(u, j)' <=> Inside(u, j)
    BY <1>2, <2>1 DEF Inside
  <2>4. \A j \in Kind : Inside(t, j)' => j = k
    BY <1>2 DEF Inside
  <2> QED  BY <1>1, <1>2, <2>2, <2>3, <2>4 DEF Io
<1>6. BusyIsInside'
  BY <1>1, <1>2 DEF IInv, BusyIsInside
<1>7. LastOfBg'
  <2> SUFFICES ASSUME NEW d \in Deaf' PROVE step'["bg"] = "gone" /\ ch'["bg"] = d
      BY DEF LastOfBg
  <2>1. d \in Channel /\ d \notin armed' /\ \A u \in Io : ~(Inside(u, "incoming")' /\ ch'[u] = d)
    BY DEF Deaf
  <2>2. d # c
    <3>1. CASE c = None
      BY <2>1, <3>1, StreamAssumption
    <3>2. CASE c # None
      BY <1>2, <2>1, <3>2 DEF Inside
    <3> QED  BY <3>1, <3>2
  <2>3. \A u \in Io : ~(Inside(u, "incoming") /\ ch[u] = d)
    BY <1>1, <1>2, <2>1 DEF Inside
  <2>4. d \in Deaf
    BY <2>1, <2>2, <2>3 DEF Deaf
  <2>5. step["bg"] = "gone" /\ ch["bg"] = d
    BY <2>4 DEF IInv, LastOfBg
  <2> QED  BY <1>1, <1>2, <2>5 DEF Io
<1>8. DiesOfOverlap'
  BY <1>1 DEF IInv, DiesOfOverlap
<1> QED  BY <1>3, <1>4, <1>5, <1>6, <1>7, <1>8 DEF IInv

LEMMA TakeIInv ==
  ASSUME IInv, NEW t \in Io,
         (\E k \in Timer : TakeTimer(t, k)) \/ \E c \in Channel : TakeIncoming(t, c)
  PROVE  IInv'
<1>1. ASSUME NEW k \in Timer, TakeTimer(t, k) PROVE IInv'
  <2>1. PICK at \in {"connect", "test"} : Enter(t, k, None, at) /\ (at = "connect" => k = "frame")
    BY <1>1 DEF TakeTimer
  <2>2. ready' \in [Timer -> 0 .. MaxReady]
    BY <1>1, StreamAssumption DEF TakeTimer, IInv, TypeOK
  <2>3. armed' = armed \ {None}
    BY <1>1, StreamAssumption DEF TakeTimer, IInv, TypeOK
  <2>4. k \in Kind /\ k # "incoming"
    BY DEF Kind, Timer
  <2> QED  BY <2>1, <2>2, <2>3, <2>4, EnterIInv
<1>2. ASSUME NEW c \in Channel, TakeIncoming(t, c) PROVE IInv'
  <2>1. Enter(t, "incoming", c, "test") /\ armed' = armed \ {c} /\ ready' = ready
    BY <1>2 DEF TakeIncoming
  <2>2. c # None /\ "incoming" \in Kind /\ ready \in [Timer -> 0 .. MaxReady]
    BY StreamAssumption DEF Kind, IInv, TypeOK
  <2> QED  BY <2>1, <2>2, EnterIInv
<1> QED  BY <1>1, <1>2

----------------------------------------------------------------------------
(* A thread goes on inside its handler; the next steps of its own and the  *)
(* senders are given, and the senders agree with what it does.             *)
LEMMA MoveIInv ==
  ASSUME IInv, NEW t \in Io, Inside(t, kind[t]), NEW at \in Steps,
         step' = [step EXCEPT ![t] = at],
         UNCHANGED <<kind, ch, ready, inserting, died>>,
         connected' \in BOOLEAN,
         busy' \in [Kind -> BOOLEAN],
         overlapped \subseteq overlapped', overlapped' \subseteq {"kind", "data"},
         at # "connect", at = "gone" => t = "bg",
         armed' \subseteq Channel, armed \subseteq armed',
         at = "free" /\ kind[t] = "incoming" => ch[t] \in armed',
         at \in {"process", "leave"} => busy'[kind[t]],
         \A k \in Kind : k # kind[t] => busy'[k] = busy[k],
         busy'[kind[t]] => \E u \in Io : step'[u] \in {"process", "leave"} /\ kind[u] = kind[t]
  PROVE  IInv'
<1>1. /\ step'[t] = at /\ \A u \in Io \ {t} : step'[u] = step[u]
  BY DEF IInv, TypeOK
<1>2. TypeOK'
  <2>1. step' \in [Io -> Steps] /\ step'["fg"] # "gone"
    BY <1>1 DEF IInv, TypeOK, Steps, Io
  <2> QED  BY <2>1 DEF IInv, TypeOK, Steps
<1>3. ConnectsFrame'
  BY <1>1 DEF IInv, ConnectsFrame
<1>4. Solo'
  <2> SUFFICES ASSUME "kind" \notin overlapped'
               PROVE  /\ \A j \in Kind : ~(Inside("fg", j)' /\ Inside("bg", j)')
                      /\ \A u \in Io : step'[u] \in {"process", "leave"} => busy'[kind'[u]]
      BY DEF Solo
  <2>1. /\ \A j \in Kind : ~(Inside("fg", j) /\ Inside("bg", j))
        /\ \A u \in Io : step[u] \in {"process", "leave"} => busy[kind[u]]
    BY DEF IInv, Solo
  <2>2. \A u \in Io, j \in Kind : Inside(u, j)' => Inside(u, j)
    BY <1>1 DEF Inside
  <2>3. \A j \in Kind : ~(Inside("fg", j)' /\ Inside("bg", j)')
    BY <2>1, <2>2 DEF Io
  <2>4. ASSUME NEW u \in Io, step'[u] \in {"process", "leave"} PROVE busy'[kind'[u]]
    <3>1. CASE u = t
      BY <1>1, <2>4, <3>1
    <3>2. CASE u # t
      <4>1. step[u] \in {"process", "leave"} /\ busy[kind[u]] /\ kind[u] \in Kind /\ kind[t] \in Kind
        BY <1>1, <2>1, <2>4, <3>2 DEF IInv, TypeOK
      <4>2. kind[u] # kind[t]
        BY <2>1, <3>2, <4>1 DEF Inside, Io
      <4> QED  BY <4>1, <4>2
    <3> QED  BY <3>1, <3>2
  <2> QED  BY <2>3, <2>4
<1>5. BusyIsInside'
  <2> SUFFICES ASSUME NEW k \in Kind, busy'[k]
               PROVE  \E u \in Io : step'[u] \in {"process", "leave"} /\ kind'[u] = k
      BY DEF BusyIsInside
  <2>1. CASE k = kind[t]
    BY <2>1
  <2>2. CASE k # kind[t]
    <3>1. PICK u \in Io : step[u] \in {"process", "leave"} /\ kind[u] = k
      BY <2>2 DEF IInv, BusyIsInside
    <3> QED  BY <1>1, <2>2, <3>1
  <2> QED  BY <2>1, <2>2
<1>6. LastOfBg'
  <2> SUFFICES ASSUME NEW d \in Deaf' PROVE step'["bg"] = "gone" /\ ch'["bg"] = d
      BY DEF LastOfBg
  <2>1. d \in Channel /\ d \notin armed' /\ d \notin armed
        /\ \A u \in Io : ~(Inside(u, "incoming")' /\ ch[u] = d)
    BY DEF Deaf
  <2>2. CASE Inside(t, "incoming") /\ ch[t] = d
    <3>1. at = "gone" /\ t = "bg"
      BY <1>1, <2>1, <2>2 DEF Inside
    <3> QED  BY <1>1, <2>2, <3>1
  <2>3. CASE ~(Inside(t, "incoming") /\ ch[t] = d)
    <3>1. \A u \in Io : ~(Inside(u, "incoming") /\ ch[u] = d)
      BY <1>1, <2>1, <2>3 DEF Inside
    <3>2. step["bg"] = "gone" /\ ch["bg"] = d
      BY <2>1, <3>1 DEF Deaf, IInv, LastOfBg
    <3>3. t # "bg"
      BY <3>2 DEF Inside
    <3> QED  BY <1>1, <3>2, <3>3 DEF Io
  <2> QED  BY <2>2, <2>3
<1>7. DiesOfOverlap'
  BY DEF IInv, DiesOfOverlap
<1> QED  BY <1>2, <1>3, <1>4, <1>5, <1>6, <1>7 DEF IInv

(* The process is terminated.                                              *)
LEMMA DieIInv ==
  ASSUME IInv, UNCHANGED <<handler, busy, ready, armed, connected, inserting>>,
         died' \in {"sender", "memory", "address", "worker"},
         overlapped \subseteq overlapped', overlapped' \subseteq {"kind", "data"},
         died' = "sender" => "kind" \in overlapped', died' = "memory" => overlapped' # {}
  PROVE  IInv'
<1>1. UNCHANGED <<step, kind, ch>>
  BY DEF handler
<1>2. TypeOK'
  BY <1>1 DEF IInv, TypeOK
<1>3. Deaf' = Deaf
  BY <1>1 DEF Deaf, Inside
<1> QED  BY <1>1, <1>2, <1>3 DEF IInv, ConnectsFrame, Solo, DiesOfOverlap, BusyIsInside, LastOfBg,
                              Inside

(* Whoever finds the flag of its kind set while it has not set it itself,  *)
(* or has reset it, is not alone.                                          *)
LEMMA NotAlone ==
  ASSUME IInv, NEW t \in Io, step[t] \in {"test", "set", "clean"}, busy[kind[t]]
  PROVE  "kind" \in overlapped
<1>1. kind[t] \in Kind
  BY DEF IInv, TypeOK
<1>2. PICK u \in Io : step[u] \in {"process", "leave"} /\ kind[u] = kind[t]
  BY <1>1 DEF IInv, BusyIsInside
<1>3. u # t /\ Inside(u, kind[t]) /\ Inside(t, kind[t])
  BY <1>2 DEF Inside
<1> QED  BY <1>1, <1>3 DEF IInv, Solo, Io

LEMMA HandleIInv == ASSUME IInv, NEW t \in Io, Handle(t) PROVE IInv'
<1> USE DEF handler
<1>0. /\ kind[t] \in Kind /\ busy \in [Kind -> BOOLEAN] /\ overlapped \subseteq {"kind", "data"}
      /\ connected \in BOOLEAN /\ armed \subseteq Channel
  BY DEF IInv, TypeOK
<1>1. CASE Connect(t)
  <2>1. /\ step[t] = "connect" /\ kind[t] = "frame" /\ Inside(t, kind[t])
        /\ UNCHANGED <<kind, ch, busy, ready, armed, inserting>>
        /\ overlapped \subseteq overlapped' /\ overlapped' \subseteq {"kind", "data"}
    BY <1>0, <1>1 DEF Connect, IInv, ConnectsFrame, Inside
  <2>2. ASSUME NEW at \in {"free", "test", "gone"}, step' = [step EXCEPT ![t] = at],
               at = "gone" => t = "bg", connected' \in BOOLEAN, died' = died
        PROVE  IInv'
    <3>1. busy'[kind[t]] => \E u \in Io : step'[u] \in {"process", "leave"} /\ kind[u] = kind[t]
      BY <1>0, <2>1, <2>2 DEF IInv, BusyIsInside, TypeOK
    <3> QED  BY <1>0, <2>1, <2>2, <3>1, MoveIInv DEF Steps
  <2>3. ASSUME died' = "address", UNCHANGED <<step, connected>> PROVE IInv'
    BY <1>0, <2>1, <2>3, DieIInv
  <2>4. ASSUME NEW u \in Io \ {t}, Assigning(u) \/ step[u] = "connect",
               died' = "memory", UNCHANGED <<step, connected>>
        PROVE  IInv'
    <3>1. CASE Assigning(u)
      <4>1. overlapped' # {}
        BY <1>1, <3>1 DEF Connect
      <4> QED  BY <1>0, <2>1, <2>4, <4>1, DieIInv
    <3>2. CASE step[u] = "connect"
      <4>1. kind[u] = "frame" /\ Inside(u, "frame") /\ Inside(t, "frame")
        BY <2>1, <3>2 DEF IInv, ConnectsFrame, Inside
      <4>2. overlapped' # {}
        BY <2>1, <4>1 DEF IInv, Solo, Io, Kind, Timer
      <4> QED  BY <1>0, <2>1, <2>4, <4>2, DieIInv
    <3> QED  BY <2>4, <3>1, <3>2
  <2> QED  BY <1>0, <1>1, <2>2, <2>3, <2>4 DEF Connect, Escape
<1>2. CASE Test(t)
  <2>1. /\ step[t] = "test" /\ Inside(t, kind[t])
        /\ UNCHANGED <<kind, ch, busy, ready, armed, connected, inserting, overlapped>>
    BY <1>2 DEF Test, Inside
  <2>2. ASSUME NEW at \in {"set", "gone"}, step' = [step EXCEPT ![t] = at], died' = died,
               at = "gone" => t = "bg"
        PROVE  IInv'
    <3>1. busy'[kind[t]] => \E u \in Io : step'[u] \in {"process", "leave"} /\ kind[u] = kind[t]
      BY <1>0, <2>1, <2>2 DEF IInv, BusyIsInside, TypeOK
    <3> QED  BY <1>0, <2>1, <2>2, <3>1, MoveIInv DEF Steps
  <2>3. ASSUME busy[kind[t]], died' = "sender", step' = step PROVE IInv'
    BY <1>0, <2>1, <2>3, NotAlone, DieIInv
  <2> QED  BY <1>2, <2>2, <2>3 DEF Test, Escape
<1>3. CASE Set(t)
  <2>1. /\ step[t] = "set" /\ Inside(t, kind[t])
        /\ UNCHANGED <<kind, ch, ready, armed, connected, inserting, overlapped>>
    BY <1>3 DEF Set, Inside
  <2>2. ASSUME busy' = [busy EXCEPT ![kind[t]] = TRUE], step' = [step EXCEPT ![t] = "process"],
               died' = died
        PROVE  IInv'
    <3>1. /\ busy' \in [Kind -> BOOLEAN] /\ busy'[kind[t]]
          /\ \A k \in Kind : k # kind[t] => busy'[k] = busy[k]
      BY <1>0, <2>2
    <3>2. step'[t] = "process"
      BY <2>2 DEF IInv, TypeOK
    <3> QED  BY <1>0, <2>1, <2>2, <3>1, <3>2, MoveIInv DEF Steps
  <2>3. ASSUME busy[kind[t]], died' = "sender", UNCHANGED <<busy, step>> PROVE IInv'
    BY <1>0, <2>1, <2>3, NotAlone, DieIInv
  <2> QED  BY <1>3, <2>2, <2>3 DEF Set
<1>4. CASE Process(t)
  <2>1. /\ step[t] = "process" /\ Inside(t, kind[t])
        /\ UNCHANGED <<kind, ch, busy, ready, armed, connected, inserting>>
        /\ overlapped \subseteq overlapped' /\ overlapped' \subseteq {"kind", "data"}
    BY <1>0, <1>4 DEF Process, Inside
  <2>2. ASSUME busy[kind[t]], step' = [step EXCEPT ![t] = "leave"], died' = died PROVE IInv'
    <3>1. step'[t] = "leave"
      BY <2>2 DEF IInv, TypeOK
    <3> QED  BY <1>0, <2>1, <2>2, <3>1, MoveIInv DEF Steps
  <2>3. ASSUME ~busy[kind[t]], died' = "sender", step' = step PROVE IInv'
    BY <1>0, <2>1, <2>3, DieIInv DEF IInv, Solo
  <2>4. ASSUME Races(t), died' = "memory", step' = step PROVE IInv'
    <3>1. overlapped' # {}
      BY <1>4, <2>4 DEF Process
    <3> QED  BY <2>1, <2>4, <3>1, DieIInv
  <2> QED  BY <1>4, <2>2, <2>3, <2>4 DEF Process
<1>5. CASE Leave(t)
  <2>1. /\ step[t] = "leave" /\ Inside(t, kind[t])
        /\ busy' = [busy EXCEPT ![kind[t]] = FALSE] /\ step' = [step EXCEPT ![t] = "clean"]
        /\ UNCHANGED <<kind, ch, ready, armed, connected, inserting, died, overlapped>>
    BY <1>5 DEF Leave, Inside
  <2>2. /\ busy' \in [Kind -> BOOLEAN] /\ ~busy'[kind[t]]
        /\ \A k \in Kind : k # kind[t] => busy'[k] = busy[k]
    BY <1>0, <2>1
  <2> QED  BY <1>0, <2>1, <2>2, MoveIInv DEF Steps
<1>6. CASE Clean(t)
  <2>1. /\ step[t] = "clean" /\ Inside(t, kind[t])
        /\ UNCHANGED <<kind, ch, busy, ready, connected, inserting, overlapped>>
    BY <1>6 DEF Clean, Inside
  <2>2. CASE busy[kind[t]]
    BY <1>0, <1>6, <2>1, <2>2, NotAlone, DieIInv DEF Clean
  <2>3. CASE ~busy[kind[t]]
    <3>1. /\ step' = [step EXCEPT ![t] = "free"] /\ armed' = armed \cup ({ch[t]} \ {None})
          /\ died' = died
      BY <1>6, <2>3 DEF Clean
    <3>2. ch[t] \in Channel \cup {None} /\ (kind[t] = "incoming" => ch[t] # None)
      BY DEF IInv, TypeOK
    <3>3. /\ armed' \subseteq Channel /\ armed \subseteq armed'
          /\ kind[t] = "incoming" => ch[t] \in armed'
      BY <1>0, <3>1, <3>2
    <3> QED  BY <1>0, <2>1, <2>3, <3>1, <3>3, MoveIInv DEF Steps
  <2> QED  BY <2>2, <2>3
<1> QED  BY <1>1, <1>2, <1>3, <1>4, <1>5, <1>6 DEF Handle

LEMMA WorkerIInv == ASSUME IInv, WorkerFails PROVE IInv'
<1>1. overlapped \subseteq {"kind", "data"}
  BY DEF IInv, TypeOK
<1> QED  BY <1>1, DieIInv DEF WorkerFails

LEMMA StepIInv == ASSUME IInv, [Next]_vars PROVE IInv'
<1>1. CASE UNCHANGED vars
  <2>1. UNCHANGED <<step, kind, ch, busy, ready, armed, connected, inserting, died, overlapped>>
        /\ UNCHANGED handler
    BY <1>1 DEF vars, handler
  <2>2. TypeOK'
    BY <2>1 DEF IInv, TypeOK
  <2> QED  BY <2>1, <2>2, Idle DEF IInv
<1> QED  BY <1>1, OutsideIInv, TakeIInv, HandleIInv, WorkerIInv DEF Next

LEMMA Invariance == Spec => []IInv
BY InitIInv, StepIInv, PTL DEF Spec

----------------------------------------------------------------------------
(* Every variable keeps its type.                                          *)
THEOREM StreamsTypeOK == Spec => []TypeOK
<1>1. IInv => TypeOK
  BY DEF IInv
<1> QED  BY <1>1, Invariance, PTL

(* A sender or broken memory ends the process only after an overlap.       *)
THEOREM StreamsDieOfOverlap == Spec => []DiesOfOverlap
<1>1. IInv => DiesOfOverlap
  BY DEF IInv
<1> QED  BY <1>1, Invariance, PTL

(* No sender is left busy.                                                 *)
THEOREM StreamsBusyIsInside == Spec => []BusyIsInside
<1>1. IInv => BusyIsInside
  BY DEF IInv
<1> QED  BY <1>1, Invariance, PTL

(* The end of the data layer costs at most one channel.                    *)
THEOREM StreamsOneDeaf == Spec => []OneDeaf
<1>1. IInv => OneDeaf
  BY DEF IInv, LastOfBg, OneDeaf
<1> QED  BY <1>1, Invariance, PTL
=============================================================================
