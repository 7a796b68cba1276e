---------------------------- MODULE DeviceProofs ----------------------------
(* Proofs about a device daemon, for any threads, any names of any kinds   *)
(* and any number of odd events.                                           *)
EXTENDS Device, TLAPS

(* The data layer passes its wait only when thisDevice is made, ...        *)
Started ==
  /\ running => fg \notin {"create", "fill"}
  /\ fg \notin {"create", "fill"} /\ "failed" \notin odd => made = "all"
  /\ bg \in {"init", "start"} /\ "spurious" \notin odd => fg \notin {"create", "fill"}

(* ... and a thread its wait only when its dialog has an answer; ...       *)
Answered ==
  "spurious" \notin odd =>
     \A a \in App : pc[a] = "woken" => response[SubType[ask[a]]] # None

(* ... the worker leaves an entry of a deleted item only when overtaken.   *)
StaleIsOdd == stale => "overtaken" \in odd

(* While nothing odd happens, no two threads register names of one kind,   *)
Alone == \A a, b \in App : a # b /\ ask[a] # None /\ ask[b] # None
                              => SubType[ask[a]] # SubType[ask[b]]

(* a query waits in the queue no longer than the call that made it,        *)
QueriesCurrent == \A a \in App, n \in Name : <<a, n>> \in q => ask[a] = n

(* a name not granted yet is still asked for by a call whose query left,   *)
Pending == \A n \in sent \ granted : \E a \in App : ask[a] = n /\ <<a, n>> \notin q

(* and a thread was woken by the answer to its own query.                  *)
WokenGranted == \A a \in App : pc[a] = "woken" => /\ ask[a] \in granted
                                                  /\ <<a, ask[a]>> \notin q

Dialogs == Alone /\ QueriesCurrent /\ Pending /\ WokenGranted /\ registered \subseteq granted

IInv == /\ TypeOK /\ Started /\ Answered /\ StaleIsOdd /\ CrashExplained
        /\ (odd = {} => Dialogs)

----------------------------------------------------------------------------
LEMMA InitIInv == Init => IInv
<1> SUFFICES ASSUME Init PROVE IInv
    OBVIOUS
<1>1. TypeOK
  <2>1. {attached, running, born, cdAddress, cdConnected, stale, crashed} \subseteq BOOLEAN
    BY Zenon DEF Init
  <2> QED  BY <2>1, DeviceAssumption DEF Init, TypeOK, SubTypes
<1>2. Started /\ Answered /\ StaleIsOdd /\ CrashExplained
  BY DEF Init, Started, Answered, StaleIsOdd, CrashExplained
<1>3. Dialogs
  BY DEF Init, Dialogs, Alone, QueriesCurrent, Pending, WokenGranted
<1> QED  BY <1>1, <1>2, <1>3 DEF IInv

(* What the dialogs are made of.                                           *)
dialogs == <<pc, ask, lock, q, hand, fresh, sent, response, granted, registered>>

LEMMA DialogsKept ==
  ASSUME IInv, UNCHANGED dialogs, odd \subseteq odd'
  PROVE  Answered' /\ (odd' = {} => Dialogs')
<1>1. Answered'
  BY DEF IInv, Answered, dialogs
<1>2. ASSUME odd' = {} PROVE Dialogs'
  <2>1. Dialogs
    BY <1>2 DEF IInv
  <2> QED  BY <2>1 DEF Dialogs, Alone, QueriesCurrent, Pending, WokenGranted, dialogs
<1> QED  BY <1>1, <1>2

Startup == \/ Foreground \/ InitFails \/ Background \/ WakeForNothing \/ SetSingleton
           \/ Newborn \/ ConnectCD

(* The steps of the two main threads do not touch the dialogs.             *)
LEMMA StartIInv ==
  ASSUME IInv, Startup
  PROVE  IInv'
<1>1. UNCHANGED <<dialogs, stale>>
  BY DEF Startup, Foreground, CreateDevice, FillDevice, InitFails, SetRunning, Notify,
         Background, TestRunning, EnterWait, OpenChannel, StartThreads, WakeForNothing,
         SetSingleton, Newborn, ConnectCD, serving, calls, work, dialogs
<1>2. odd \subseteq odd' /\ odd' \subseteq odd \cup {"spurious", "failed", "late"}
  BY DEF Startup, Foreground, CreateDevice, FillDevice, InitFails, SetRunning, Notify,
         Background, TestRunning, EnterWait, OpenChannel, StartThreads, WakeForNothing,
         SetSingleton, Newborn, ConnectCD, Odd
<1>3. TypeOK'
  <2>1. /\ made' \in {"nothing", "object", "all"}
        /\ fg' \in {"create", "fill", "set", "notify", "run"}
        /\ bg' \in {"test", "enter", "waiting", "init", "start", "run", "ended"}
    BY DEF IInv, TypeOK, Startup, Foreground, CreateDevice, FillDevice, InitFails, SetRunning,
           Notify, Background, TestRunning, EnterWait, OpenChannel, StartThreads,
           WakeForNothing, SetSingleton, Newborn, ConnectCD, start
  <2>2. {attached, running, born, cdAddress, cdConnected, stale, crashed}' \subseteq BOOLEAN
    BY <1>1
       DEF IInv, TypeOK, Startup, Foreground, CreateDevice, FillDevice, InitFails, SetRunning,
           Notify, Background, TestRunning, EnterWait, OpenChannel, StartThreads,
           WakeForNothing, SetSingleton, Newborn, ConnectCD, start, serving, birth
  <2> QED  BY <1>1, <1>2, <2>1, <2>2 DEF IInv, TypeOK, dialogs
<1>4. Started' /\ CrashExplained'
  <2>1. Started /\ TypeOK /\ CrashExplained
    BY DEF IInv
  <2>2. CASE CreateDevice \/ FillDevice \/ InitFails \/ SetRunning \/ Notify
    BY <2>1, <2>2
       DEF CreateDevice, FillDevice, InitFails, SetRunning, Notify, Odd, Started, CrashExplained
  <2>3. CASE TestRunning \/ EnterWait \/ WakeForNothing \/ SetSingleton
    BY <2>1, <2>3
       DEF TestRunning, EnterWait, WakeForNothing, SetSingleton, Odd, Started, CrashExplained
  <2>4. CASE OpenChannel \/ StartThreads
    BY <2>1, <2>4 DEF OpenChannel, StartThreads, Started, CrashExplained
  <2>5. CASE Newborn \/ ConnectCD
    BY <2>1, <2>5 DEF Newborn, ConnectCD, Started, CrashExplained, start
  <2> QED  BY <2>2, <2>3, <2>4, <2>5 DEF Startup, Foreground, Background
<1>5. StaleIsOdd'
  BY <1>1, <1>2 DEF IInv, StaleIsOdd
<1> QED  BY <1>1, <1>2, <1>3, <1>4, <1>5, DialogsKept DEF IInv

LEMMA AskIInv ==
  ASSUME IInv, NEW a \in App, NEW n \in Name, Ask(a, n)
  PROVE  IInv'
<1>1. /\ pc[a] = "idle" /\ lock = None /\ ask[a] = None /\ lock' = a
      /\ pc' = [pc EXCEPT ![a] = "asked"] /\ ask' = [ask EXCEPT ![a] = n]
      /\ q' = q \cup {<<a, n>>}
      /\ fresh' = IF hand = None THEN fresh ELSE fresh \cup {<<a, n>>}
      /\ UNCHANGED <<made, attached, fg, bg, running, born, cdAddress, cdConnected, hand, stale,
                     sent, response, granted, registered, crashed>>
  BY DEF Ask, IInv, TypeOK, start, birth
<1>2. odd \subseteq odd' /\ odd' \subseteq odd \cup {"shared"}
  BY DEF Ask, Odd
<1>3. pc \in [App -> {"idle", "asked", "waiting", "woken"}] /\ ask \in [App -> Name \cup {None}]
      /\ None \notin Name /\ None \notin App
  BY DeviceAssumption DEF IInv, TypeOK
<1>4. /\ pc'[a] = "asked" /\ ask'[a] = n
      /\ \A b \in App : b # a => pc'[b] = pc[b] /\ ask'[b] = ask[b]
  BY <1>1, <1>3
<1>5. TypeOK'
  <2>1. pc' \in [App -> {"idle", "asked", "waiting", "woken"}]
        /\ ask' \in [App -> Name \cup {None}]
    BY <1>1, <1>3
  <2>2. \A b \in App : (pc[b] = "idle" <=> ask[b] = None) /\ pc[b] # "asked"
    BY <1>1, <1>3 DEF IInv, TypeOK
  <2>3. \A b \in App : (pc'[b] = "idle" <=> ask'[b] = None) /\ (pc'[b] = "asked" <=> lock' = b)
    BY <1>1, <1>3, <1>4, <2>2
  <2>4. q' \subseteq App \X Name /\ fresh' \subseteq q' /\ (hand' = None => fresh' = {})
    BY <1>1 DEF IInv, TypeOK
  <2> QED  BY <1>1, <1>2, <2>1, <2>3, <2>4 DEF IInv, TypeOK
<1>6. Started' /\ Answered' /\ StaleIsOdd' /\ CrashExplained'
  BY <1>1, <1>2, <1>4 DEF IInv, Started, Answered, StaleIsOdd, CrashExplained
<1>7. ASSUME odd' = {} PROVE Dialogs'
  <2>1. Dialogs /\ \A b \in App : ~Calling(b, SubType[n])
    BY <1>2, <1>7 DEF IInv, Ask, Odd
  <2>2. \A b \in App : b # a /\ ask[b] # None => SubType[ask[b]] # SubType[n]
    BY <2>1 DEF Calling
  <2>3. Alone'
    BY <1>4, <2>1, <2>2 DEF Dialogs, Alone
  <2>4. QueriesCurrent'
    BY <1>1, <1>3, <1>4, <2>1 DEF Dialogs, QueriesCurrent
  <2>5. Pending'
    <3> SUFFICES ASSUME NEW m \in sent \ granted
                 PROVE  \E b \in App : ask'[b] = m /\ <<b, m>> \notin q'
        BY <1>1 DEF Pending
    <3>1. PICK b \in App : ask[b] = m /\ <<b, m>> \notin q
      BY <2>1 DEF Dialogs, Pending
    <3>2. m # None
      BY <1>3 DEF IInv, TypeOK
    <3>3. b # a
      BY <1>1, <3>1, <3>2
    <3> QED  BY <1>1, <1>4, <3>1, <3>3
  <2>6. WokenGranted'
    <3> SUFFICES ASSUME NEW b \in App, pc'[b] = "woken"
                 PROVE  ask'[b] \in granted' /\ <<b, ask'[b]>> \notin q'
        BY DEF WokenGranted
    <3>1. b # a
      BY <1>4
    <3> QED  BY <1>1, <1>4, <2>1, <3>1 DEF Dialogs, WokenGranted
  <2> QED  BY <1>1, <2>1, <2>3, <2>4, <2>5, <2>6 DEF Dialogs
<1> QED  BY <1>5, <1>6, <1>7 DEF IInv

LEMMA WaitIInv ==
  ASSUME IInv, NEW a \in App, Wait(a)
  PROVE  IInv'
<1>1. /\ pc[a] = "asked" /\ pc' = [pc EXCEPT ![a] = "waiting"] /\ lock' = None
      /\ UNCHANGED <<made, attached, fg, bg, running, born, cdAddress, cdConnected, ask, q, hand,
                     fresh, stale, sent, response, granted, registered, crashed, odd>>
  BY DEF Wait, start, birth, work
<1>2. pc \in [App -> {"idle", "asked", "waiting", "woken"}] /\ None \notin App
  BY DeviceAssumption DEF IInv, TypeOK
<1>3. pc'[a] = "waiting" /\ \A b \in App : b # a => pc'[b] = pc[b]
  BY <1>1, <1>2
<1>4. TypeOK'
  <2>1. pc' \in [App -> {"idle", "asked", "waiting", "woken"}]
    BY <1>1, <1>2
  <2>2. \A b \in App : (pc[b] = "idle" <=> ask[b] = None) /\ (pc[b] = "asked" <=> lock = b)
    BY DEF IInv, TypeOK
  <2>3. \A b \in App : (pc'[b] = "idle" <=> ask[b] = None) /\ (pc'[b] = "asked" <=> lock' = b)
    BY <1>1, <1>2, <1>3, <2>2
  <2> QED  BY <1>1, <2>1, <2>3 DEF IInv, TypeOK
<1>5. Started' /\ Answered' /\ StaleIsOdd' /\ CrashExplained'
  BY <1>1, <1>3 DEF IInv, Started, Answered, StaleIsOdd, CrashExplained
<1>6. ASSUME odd' = {} PROVE Dialogs'
  BY <1>1, <1>3, <1>6 DEF IInv, Dialogs, Alone, QueriesCurrent, Pending, WokenGranted
<1> QED  BY <1>4, <1>5, <1>6 DEF IInv

LEMMA DispatchIInv ==
  ASSUME IInv, NEW a \in App, NEW n \in Name, Dispatch(a, n)
  PROVE  IInv'
<1>1. /\ hand = None /\ <<a, n>> \in q /\ q' = q \ {<<a, n>>} /\ hand' = <<a, n>>
      /\ UNCHANGED <<made, attached, fg, bg, running, born, cdAddress, cdConnected, pc, ask, lock,
                     fresh, stale, response, granted, registered, crashed, odd>>
  BY DEF Dispatch, start, birth, calls
<1>2. sent \subseteq sent' /\ sent' \subseteq Name
  BY DEF Dispatch, IInv, TypeOK
<1>3. TypeOK'
  BY <1>1, <1>2 DEF IInv, TypeOK
<1>4. Started' /\ Answered' /\ StaleIsOdd' /\ CrashExplained'
  BY <1>1 DEF IInv, Started, Answered, StaleIsOdd, CrashExplained
<1>5. ASSUME odd' = {} PROVE Dialogs'
  <2>1. Dialogs
    BY <1>1, <1>5 DEF IInv
  <2>2. ask[a] = n /\ sent' = sent \cup {n}
    BY <1>1, <2>1 DEF Dialogs, QueriesCurrent, Dispatch
  <2>3. Pending'
    BY <1>1, <2>1, <2>2 DEF Dialogs, Pending
  <2>4. Alone' /\ QueriesCurrent' /\ WokenGranted'
    BY <1>1, <2>1 DEF Dialogs, Alone, QueriesCurrent, WokenGranted
  <2> QED  BY <1>1, <2>1, <2>3, <2>4 DEF Dialogs
<1> QED  BY <1>3, <1>4, <1>5 DEF IInv

(* The other steps of the worker: while nothing is odd, no query is dropped *)
(* unsent, and none comes back.                                            *)
LEMMA WorkerIInv ==
  ASSUME IInv, Worker
  PROVE  IInv'
<1>1. UNCHANGED <<made, attached, fg, bg, running, born, cdAddress, cdConnected, pc, ask, lock,
                  response, granted, registered>>
  BY DEF Worker, DispatchFrame, DispatchStale, Pop, PopAnother, start, birth, calls
<1>2. odd \subseteq odd' /\ odd' \subseteq odd \cup {"overtaken"}
  BY DEF Worker, DispatchFrame, DispatchStale, Pop, PopAnother, Odd
<1>3. sent \subseteq sent' /\ sent' \subseteq Name
  <2>1. \A x \in q : ask[x[1]] \in Name \cup {None}
    BY DEF IInv, TypeOK
  <2> QED
    BY <2>1 DEF Worker, DispatchFrame, DispatchStale, Pop, PopAnother, IInv, TypeOK
<1>4. /\ q' \subseteq App \X Name /\ hand' \in (App \X Name) \cup {None, Frame}
      /\ fresh' \subseteq q' /\ (hand' = None => fresh' = {})
  <2>1. CASE DispatchFrame \/ DispatchStale \/ Pop
    BY <2>1, DeviceAssumption DEF DispatchFrame, DispatchStale, Pop, IInv, TypeOK
  <2>2. CASE \E x \in fresh \cup {Frame} : PopAnother(x)
    BY <2>2 DEF PopAnother, IInv, TypeOK
  <2> QED  BY <2>1, <2>2 DEF Worker
<1>5. stale' \in BOOLEAN /\ crashed' \in BOOLEAN
  BY DEF Worker, DispatchFrame, DispatchStale, Pop, PopAnother, IInv, TypeOK
<1>6. TypeOK'
  BY <1>1, <1>2, <1>3, <1>4, <1>5 DEF IInv, TypeOK
<1>7. Started' /\ Answered'
  BY <1>1, <1>2 DEF IInv, Started, Answered, StaleIsOdd, CrashExplained
<1>8. StaleIsOdd' /\ CrashExplained'
  BY DEF Worker, DispatchFrame, DispatchStale, Pop, PopAnother, Odd, IInv, StaleIsOdd,
         CrashExplained
<1>9. ASSUME odd' = {} PROVE Dialogs'
  <2>1. Dialogs /\ UNCHANGED <<q, sent>>
    BY <1>2, <1>9
       DEF Worker, DispatchFrame, DispatchStale, Pop, PopAnother, Odd, IInv, StaleIsOdd
  <2> QED  BY <1>1, <2>1 DEF Dialogs, Alone, QueriesCurrent, Pending, WokenGranted
<1> QED  BY <1>6, <1>7, <1>8, <1>9 DEF IInv

(* An answer wakes at most one thread, which waits for its kind of name.   *)
LEMMA HearWakes ==
  ASSUME IInv, NEW n \in Name, Hear(n)
  PROVE  /\ pc' \in [App -> {"idle", "asked", "waiting", "woken"}]
         /\ \A b \in App : \/ pc'[b] = pc[b]
                           \/ /\ pc[b] = "waiting" /\ pc'[b] = "woken"
                              /\ ask[b] # None /\ SubType[ask[b]] = SubType[n]
         /\ response' \in [SubTypes -> Name \cup {None, Gone}]
         /\ response'[SubType[n]] = n
         /\ \A k \in SubTypes : response[k] # None => response'[k] # None
<1>1. pc \in [App -> {"idle", "asked", "waiting", "woken"}]
  BY DEF IInv, TypeOK
<1>2. pc' \in [App -> {"idle", "asked", "waiting", "woken"}]
      /\ \A b \in App : \/ pc'[b] = pc[b]
                        \/ /\ pc[b] = "waiting" /\ pc'[b] = "woken"
                           /\ Calling(b, SubType[n])
  <2>1. CASE pc' = pc
    BY <1>1, <2>1
  <2>2. CASE pc' # pc
    <3>1. PICK a \in {c \in App : pc[c] = "waiting" /\ Calling(c, SubType[n])} :
                 pc' = [pc EXCEPT ![a] = "woken"]
      BY <2>2 DEF Hear
    <3> QED  BY <1>1, <3>1
  <2> QED  BY <2>1, <2>2
<1>3. /\ response \in [SubTypes -> Name \cup {None, Gone}]
      /\ response' = [response EXCEPT ![SubType[n]] = n]
      /\ SubType[n] \in SubTypes /\ None \notin Name
  BY DeviceAssumption DEF IInv, TypeOK, Hear
<1> QED  BY <1>2, <1>3 DEF Calling

(* So an answer breaks neither the types nor what a woken thread finds.    *)
LEMMA HearKeeps ==
  ASSUME IInv, NEW n \in Name, Hear(n),
         UNCHANGED <<made, attached, fg, bg, running, born, cdAddress, cdConnected, ask, lock, q,
                     hand, fresh, stale, sent, registered, crashed>>,
         granted' \subseteq sent, odd \subseteq odd', odd' \subseteq odd \cup {"stray"}
  PROVE  TypeOK' /\ Started' /\ Answered' /\ StaleIsOdd' /\ CrashExplained'
<1>1. TypeOK'
  <2>1. \A b \in App : (pc'[b] = "idle" <=> pc[b] = "idle") /\ (pc'[b] = "asked" <=> pc[b] = "asked")
    BY HearWakes
  <2>2. odd' \subseteq {"spurious", "stray", "overwritten", "shared", "failed", "late",
                        "overtaken"}
    BY DEF IInv, TypeOK
  <2> QED  BY <2>1, <2>2, HearWakes DEF IInv, TypeOK
<1>2. Started' /\ StaleIsOdd' /\ CrashExplained'
  BY DEF IInv, Started, StaleIsOdd, CrashExplained
<1>3. ASSUME "spurious" \notin odd' PROVE Answered'
  <2>1. \A a \in App : pc[a] = "woken" => response[SubType[ask[a]]] # None
    BY <1>3 DEF IInv, Answered
  <2>2. \A a \in App : ask[a] # None => ask[a] \in Name /\ SubType[ask[a]] \in SubTypes
    BY DeviceAssumption DEF IInv, TypeOK
  <2>3. \A a \in App : pc[a] = "woken" => ask[a] # None
    BY DEF IInv, TypeOK
  <2>4. n # None
    BY DeviceAssumption
  <2>5. ASSUME NEW a \in App, pc'[a] = "woken" PROVE response'[SubType[ask[a]]] # None
    <3>1. CASE pc[a] = "woken"
      BY <2>1, <2>2, <2>3, <3>1, HearWakes
    <3>2. CASE pc[a] # "woken"
      BY <2>4, <2>5, <3>2, HearWakes
    <3> QED  BY <3>1, <3>2
  <2> QED  BY <2>1, <2>5 DEF Answered
<1>4. Answered'
  BY <1>3 DEF Answered
<1> QED  BY <1>1, <1>2, <1>4

(* The MD grants a name: the thread its answer wakes is the one that asked. *)
LEMMA GrantIInv ==
  ASSUME IInv, NEW n \in Name, Grant(n)
  PROVE  IInv'
<1>1. /\ n \in sent \ granted /\ granted' = granted \cup {n}
      /\ UNCHANGED <<made, attached, fg, bg, running, born, cdAddress, cdConnected, ask, lock, q,
                     hand, fresh, stale, sent, registered, crashed, odd>>
      /\ Hear(n) \/ UNCHANGED <<response, pc>>
  BY DEF Grant, start, birth, work
<1>2. granted' \subseteq sent
  BY <1>1 DEF IInv, TypeOK
<1>3. TypeOK' /\ Started' /\ Answered' /\ StaleIsOdd' /\ CrashExplained'
  <2>1. CASE Hear(n)
    BY <1>1, <1>2, <2>1, HearKeeps
  <2>2. CASE UNCHANGED <<response, pc>>
    BY <1>1, <1>2, <2>2 DEF IInv, TypeOK, Started, Answered, StaleIsOdd, CrashExplained
  <2> QED  BY <1>1, <2>1, <2>2
<1>4. ASSUME odd' = {} PROVE Dialogs'
  <2>1. Dialogs
    BY <1>1, <1>4 DEF IInv
  <2>2. PICK a \in App : ask[a] = n /\ <<a, n>> \notin q
    BY <1>1, <2>1 DEF Dialogs, Pending
  <2>3. n # None
    BY DeviceAssumption
  <2>4. \A b \in App : pc'[b] = pc[b] \/ b = a
    <3>1. \A b \in App : ask[b] # None /\ SubType[ask[b]] = SubType[n] => b = a
      BY <2>1, <2>2, <2>3 DEF Dialogs, Alone
    <3> QED  BY <1>1, <3>1, HearWakes
  <2>5. WokenGranted'
    BY <1>1, <2>1, <2>2, <2>4 DEF Dialogs, WokenGranted
  <2>6. Alone' /\ QueriesCurrent' /\ Pending'
    BY <1>1, <2>1 DEF Dialogs, Alone, QueriesCurrent, Pending
  <2> QED  BY <1>1, <2>1, <2>5, <2>6 DEF Dialogs
<1> QED  BY <1>3, <1>4 DEF IInv

LEMMA HearStrayIInv ==
  ASSUME IInv, NEW n \in Name, HearStray(n)
  PROVE  IInv'
<1>1. /\ Hear(n)
      /\ UNCHANGED <<made, attached, fg, bg, running, born, cdAddress, cdConnected, ask, lock, q,
                     hand, fresh, stale, sent, granted, registered, crashed>>
      /\ odd' = odd \cup {"stray"}
  BY DEF HearStray, Odd, start, birth, work
<1>2. granted' \subseteq sent
  BY <1>1 DEF IInv, TypeOK
<1>3. TypeOK' /\ Started' /\ Answered' /\ StaleIsOdd' /\ CrashExplained'
  BY <1>1, <1>2, HearKeeps
<1> QED  BY <1>1, <1>3 DEF IInv

LEMMA OverwriteIInv ==
  ASSUME IInv, NEW k \in SubTypes, Overwrite(k)
  PROVE  IInv'
<1>1. /\ response' = [response EXCEPT ![k] = Gone]
      /\ UNCHANGED <<made, attached, fg, bg, running, born, cdAddress, cdConnected, pc, ask, lock,
                     q, hand, fresh, stale, sent, granted, registered, crashed>>
      /\ odd' = odd \cup {"overwritten"}
  BY DEF Overwrite, Odd, start, birth, calls, work
<1>2. /\ response \in [SubTypes -> Name \cup {None, Gone}] /\ Gone # None
  BY DeviceAssumption DEF IInv, TypeOK
<1>3. /\ response' \in [SubTypes -> Name \cup {None, Gone}]
      /\ \A j \in SubTypes : response[j] # None => response'[j] # None
  BY <1>1, <1>2
<1>4. TypeOK' /\ Started' /\ StaleIsOdd' /\ CrashExplained'
  BY <1>1, <1>3 DEF IInv, TypeOK, Started, StaleIsOdd, CrashExplained
<1>5. Answered'
  <2>1. \A a \in App : pc[a] = "woken" => SubType[ask[a]] \in SubTypes
    BY DeviceAssumption DEF IInv, TypeOK
  <2> QED  BY <1>1, <1>3, <2>1 DEF IInv, Answered
<1> QED  BY <1>1, <1>4, <1>5 DEF IInv

LEMMA WakeCallerIInv ==
  ASSUME IInv, NEW a \in App, WakeCaller(a)
  PROVE  IInv'
<1>1. /\ pc[a] = "waiting" /\ pc' = [pc EXCEPT ![a] = "woken"]
      /\ UNCHANGED <<made, attached, fg, bg, running, born, cdAddress, cdConnected, ask, lock, q,
                     hand, fresh, stale, sent, response, granted, registered, crashed>>
      /\ odd' = odd \cup {"spurious"}
  BY DEF WakeCaller, Odd, start, birth, work
<1>2. pc' \in [App -> {"idle", "asked", "waiting", "woken"}]
      /\ \A b \in App : (pc'[b] = "idle" <=> pc[b] = "idle") /\ (pc'[b] = "asked" <=> pc[b] = "asked")
  BY <1>1 DEF IInv, TypeOK
<1>3. TypeOK'
  BY <1>1, <1>2 DEF IInv, TypeOK
<1>4. Started' /\ Answered' /\ StaleIsOdd' /\ CrashExplained'
  BY <1>1 DEF IInv, Started, Answered, StaleIsOdd, CrashExplained
<1> QED  BY <1>1, <1>3, <1>4 DEF IInv

(* A call returns: what it registers is the name it asked for, granted.    *)
LEMMA ReturnIInv ==
  ASSUME IInv, NEW a \in App, Return(a)
  PROVE  IInv'
<1>1. /\ pc[a] = "woken" /\ lock = None
      /\ UNCHANGED <<made, attached, fg, bg, running, born, cdAddress, cdConnected, lock, q, hand,
                     fresh, stale, sent, response, granted, odd>>
  BY DEF Return, start, birth, work
<1>2. ask[a] \in Name /\ pc \in [App -> {"idle", "asked", "waiting", "woken"}]
      /\ ask \in [App -> Name \cup {None}] /\ None \notin Name /\ None \notin App
  BY <1>1, DeviceAssumption DEF IInv, TypeOK
<1>3. CASE response[SubType[ask[a]]] = None
  <2>1. crashed' = TRUE /\ UNCHANGED <<pc, ask, registered>>
    BY <1>3 DEF Return
  <2>2. "spurious" \in odd
    BY <1>1, <1>3 DEF IInv, Answered
  <2> QED  BY <1>1, <2>1, <2>2 DEF IInv, TypeOK, Started, Answered, StaleIsOdd, CrashExplained
<1>4. CASE response[SubType[ask[a]]] # None
  <2>1. /\ pc' = [pc EXCEPT ![a] = "idle"] /\ ask' = [ask EXCEPT ![a] = None]
        /\ crashed' = crashed
        /\ registered' \subseteq registered \cup {ask[a]}
    BY <1>4 DEF Return
  <2>2. /\ pc'[a] = "idle" /\ ask'[a] = None
        /\ \A b \in App : b # a => pc'[b] = pc[b] /\ ask'[b] = ask[b]
    BY <1>2, <2>1
  <2>3. TypeOK'
    <3>1. pc' \in [App -> {"idle", "asked", "waiting", "woken"}]
        /\ ask' \in [App -> Name \cup {None}]
      BY <1>2, <2>1
    <3>2. \A b \in App : (pc[b] = "idle" <=> ask[b] = None) /\ (pc[b] = "asked" <=> lock = b)
      BY DEF IInv, TypeOK
    <3>3. \A b \in App : (pc'[b] = "idle" <=> ask'[b] = None) /\ (pc'[b] = "asked" <=> lock' = b)
      BY <1>1, <1>2, <2>2, <3>2
    <3>4. registered' \subseteq Name
      BY <1>2, <2>1 DEF IInv, TypeOK
    <3> QED  BY <1>1, <2>1, <3>1, <3>3, <3>4 DEF IInv, TypeOK
  <2>4. Started' /\ Answered' /\ StaleIsOdd' /\ CrashExplained'
    BY <1>1, <2>1, <2>2 DEF IInv, Started, Answered, StaleIsOdd, CrashExplained
  <2>5. ASSUME odd' = {} PROVE Dialogs'
    <3>1. Dialogs /\ ask[a] \in granted /\ <<a, ask[a]>> \notin q
      BY <1>1, <2>5 DEF IInv, Dialogs, WokenGranted
    <3>2. Alone'
      BY <2>2, <3>1 DEF Dialogs, Alone
    <3>3. QueriesCurrent'
      BY <1>1, <2>2, <3>1 DEF Dialogs, QueriesCurrent
    <3>4. Pending'
      BY <1>1, <2>2, <3>1 DEF Dialogs, Pending
    <3>5. WokenGranted'
      BY <1>1, <2>2, <3>1 DEF Dialogs, WokenGranted
    <3>6. registered' \subseteq granted'
      BY <1>1, <2>1, <3>1 DEF Dialogs
    <3> QED  BY <3>1, <3>2, <3>3, <3>4, <3>5, <3>6 DEF Dialogs
  <2> QED  BY <2>3, <2>4, <2>5 DEF IInv
<1> QED  BY <1>3, <1>4

----------------------------------------------------------------------------
(* IInv holds in every state of a device daemon.                           *)
THEOREM DeviceInvariant == Spec => []IInv
<1>1. IInv /\ [Next]_vars => IInv'
  <2> SUFFICES ASSUME IInv, [Next]_vars PROVE IInv'
      OBVIOUS
  <2>1. CASE Startup
    BY <2>1, StartIInv
  <2>7. CASE Worker
    BY <2>7, WorkerIInv
  <2>2. CASE \E a \in App : Wait(a) \/ WakeCaller(a) \/ Return(a)
    BY <2>2, WaitIInv, WakeCallerIInv, ReturnIInv
  <2>3. CASE \E a \in App, n \in Name : Ask(a, n) \/ Dispatch(a, n)
    BY <2>3, AskIInv, DispatchIInv
  <2>4. CASE \E n \in Name : Grant(n) \/ HearStray(n)
    BY <2>4, GrantIInv, HearStrayIInv
  <2>5. CASE \E k \in SubTypes : Overwrite(k)
    BY <2>5, OverwriteIInv
  <2>6. CASE UNCHANGED vars
    <3>1. UNCHANGED <<made, attached, fg, bg, running, born, cdAddress, cdConnected, pc, ask,
                      lock, q, hand, fresh, stale, sent,
                      response, granted, registered, crashed, odd>>
      BY <2>6 DEF vars, start, birth, calls, work
    <3> QED  BY <3>1 DEF IInv, TypeOK, Started, Answered, StaleIsOdd, CrashExplained,
                         Dialogs, Alone, QueriesCurrent,
                         Pending, WokenGranted
  <2> QED  BY <2>1, <2>2, <2>3, <2>4, <2>5, <2>6, <2>7 DEF Next, Startup
<1> QED  BY InitIInv, <1>1, PTL DEF Spec

(* The variables keep to their types; whoever has asked and not begun to   *)
(* wait holds the mutex of the API (md_device.cpp:65, 99, 132).            *)
THEOREM DeviceTypeOK == Spec => []TypeOK
<1>1. IInv => TypeOK
  BY DEF IInv
<1> QED  BY <1>1, DeviceInvariant, PTL

(* A crash has a cause: a condition variable woke a thread nobody notified *)
(* (deviceDaemon.cpp:242, md_device.cpp:73, 111, 144), the initialization  *)
(* failed and the flag was set all the same (deviceDaemon.cpp:222-229),    *)
(* mdDDAPI was not set yet (deviceDaemon.cpp:253), or a push came between  *)
(* the worker's dispatch and its pop (deviceDaemon.cpp:333).               *)
THEOREM DeviceCrashExplained == Spec => []CrashExplained
<1>1. IInv => CrashExplained
  BY DEF IInv
<1> QED  BY <1>1, DeviceInvariant, PTL

(* Threads that register names of different kinds take their own answers   *)
(* (deviceDaemon.cpp:55-66): what they registered was granted.             *)
THEOREM DeviceRegisteredAreGranted == Spec => []RegisteredAreGranted
<1>1. IInv => RegisteredAreGranted
  BY DEF IInv, Dialogs, RegisteredAreGranted
<1> QED  BY <1>1, DeviceInvariant, PTL

(* The worker does not read a query whose call is over (dispatch,          *)
(* deviceDaemon.cpp:36-38): the call outlives its place in the queue, as   *)
(* long as no push overtakes the worker (dvWQ, deviceDaemon.cpp:333).      *)
THEOREM DeviceQueriesAlive == Spec => []QueriesAlive
<1>1. IInv => QueriesAlive
  BY DEF IInv, Dialogs, QueriesCurrent, QueriesAlive
<1> QED  BY <1>1, DeviceInvariant, PTL
=============================================================================
