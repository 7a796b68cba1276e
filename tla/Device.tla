------------------------------- MODULE Device -------------------------------
(***************************************************************************)
(* A device daemon (deviceDaemon.cpp, md_device.cpp): how its two main     *)
(* threads start, and how the threads of the application register names    *)
(* with the Master Daemon through it.  A call of the API queues its query, *)
(* waits on the condition variable of its kind of name, and reads the      *)
(* answer the receiving thread has left; the worker sends what is queued,  *)
(* and then drops what is on top of the queue by then.                     *)
(*                                                                         *)
(* The Master Daemon is what MasterDaemon says of it: it grants a name     *)
(* once, answers nothing else, and its answers may be lost, come twice or  *)
(* come to the wrong device.                                               *)
(***************************************************************************)
EXTENDS Naturals, FiniteSets

CONSTANTS App,       \* the threads of the application
          Name,      \* the names they register
          SubType,   \* whether a name is a command, ODE or observable
          None,      \* no thread, name or answer
          Gone,      \* an answer whose memory was used again
          Frame,     \* a telemetry frame in the worker's hand
          MaxOdd     \* bound of TLC: the kinds of odd events in one behaviour

SubTypes == {"REGSCPI", "REGODE", "REGOBS"}

ASSUME DeviceAssumption == /\ SubType \in [Name -> SubTypes]
                           /\ None # Gone
                           /\ {None, Gone} \cap (App \cup Name) = {}
                           /\ {None, Frame} \cap (App \X Name) = {} /\ None # Frame
                           /\ MaxOdd \in Nat

VARIABLES
  made,         \* of thisDevice: "nothing", the "object", or "all"
  attached,     \* the application has set mdDDAPI
  fg,           \* where runEmbedded is
  bg,           \* where runDataLayer is
  running,      \* deviceIsRunning
  born,         \* myHandle is set
  cdAddress,    \* the address of a Cliever is known
  cdConnected,  \* deviceDaemonConfig::cdConnected
  pc,           \* where each thread is in its call
  ask,          \* the name the call is about
  lock,         \* the holder of mdQuery
  q,            \* the queries in the work queue: the call and the name
  hand,         \* what the worker has dispatched and not dropped yet
  fresh,        \* the queries queued meanwhile
  stale,        \* an entry of the queue points to an item that was deleted
  sent,         \* the names the MD was sent a query about
  response,     \* the answer each dialog points to, by its name
  granted,      \* the names the MD has granted
  registered,   \* the keys of mySCPI, myODEs and myObs
  crashed,      \* a null pointer was followed, or memory freed twice
  odd           \* history: what happened that nobody counted on

(* Something odd happens.                                                  *)
Odd(what) == odd' = odd \cup {what} /\ Cardinality(odd') <= MaxOdd

start == <<made, attached, fg, bg, running>>
birth == <<born, cdAddress, cdConnected>>
calls == <<pc, ask, lock>>
work  == <<q, hand, fresh, stale>>
serving == <<birth, calls, work, sent, response, granted, registered>>
vars  == <<start, birth, calls, work, sent, response, granted, registered, crashed, odd>>

Init ==
  /\ made = "nothing" /\ attached = FALSE
  /\ fg = "create" /\ bg = "test" /\ running = FALSE
  /\ born = FALSE /\ cdAddress = FALSE /\ cdConnected = FALSE
  /\ pc = [a \in App |-> "idle"]
  /\ ask = [a \in App |-> None]
  /\ lock = None
  /\ q = {} /\ hand = None /\ fresh = {} /\ stale = FALSE
  /\ sent = {} /\ granted = {} /\ registered = {}
  /\ response = [k \in SubTypes |-> None]
  /\ crashed = FALSE
  /\ odd = {}

----------------------------------------------------------------------------
(* runEmbedded makes thisDevice, ...                                       *)
CreateDevice ==
  /\ fg = "create" /\ fg' = "fill"
  /\ made' = "object"
  /\ UNCHANGED <<attached, bg, running, serving, crashed, odd>>

(* ... its listeners and its channels, the one to the MD last; ...         *)
FillDevice ==
  /\ fg = "fill" /\ fg' = "set"
  /\ made' = "all"
  /\ UNCHANGED <<attached, bg, running, serving, crashed, odd>>

(* ... an exception is logged, and the thread goes on.                     *)
InitFails ==
  /\ fg \in {"create", "fill"} /\ fg' = "set"
  /\ Odd("failed")
  /\ UNCHANGED <<made, attached, bg, running, serving, crashed>>

(* It sets the flag without the mutex the other thread tests it under ...  *)
SetRunning ==
  /\ fg = "set" /\ fg' = "notify"
  /\ running' = TRUE
  /\ UNCHANGED <<made, attached, bg, serving, crashed, odd>>

(* Mutant: nobody is notified.                                             *)
NotifyNobody ==
  /\ fg = "notify" /\ fg' = "run"
  /\ UNCHANGED <<made, attached, bg, running, serving, crashed, odd>>

(* ... and notifies whoever waits by now.                                  *)
Notify ==
  /\ fg = "notify" /\ fg' = "run"
  /\ bg' = IF bg = "waiting" THEN "init" ELSE bg
  /\ UNCHANGED <<made, attached, running, serving, crashed, odd>>

(* Mutant: the data layer does not wait.                                   *)
TestNothing ==
  /\ bg = "test" /\ bg' = "init"
  /\ UNCHANGED <<made, attached, fg, running, serving, crashed, odd>>

(* runDataLayer tests the flag ...                                         *)
TestRunning ==
  /\ bg = "test" /\ bg' = IF running THEN "init" ELSE "enter"
  /\ UNCHANGED <<made, attached, fg, running, serving, crashed, odd>>

(* ... and then waits, once, until it is notified or wakes for no reason.  *)
EnterWait ==
  /\ bg = "enter" /\ bg' = "waiting"
  /\ UNCHANGED <<made, attached, fg, running, serving, crashed, odd>>

WakeForNothing ==
  /\ bg = "waiting" /\ bg' = "init"
  /\ Odd("spurious")
  /\ UNCHANGED <<made, attached, fg, running, serving, crashed>>

(* It opens a channel on the telemetry port and keeps it in thisDevice, or *)
(* ends, because the port is taken; the exception is logged.               *)
OpenChannel ==
  /\ ~crashed /\ bg = "init"
  /\ \/ /\ IF made = "nothing" THEN crashed' = TRUE /\ UNCHANGED bg
                                 ELSE bg' = "start" /\ UNCHANGED crashed
     \/ bg' = "ended" /\ UNCHANGED crashed
  /\ UNCHANGED <<made, attached, fg, running, serving, odd>>

(* It starts the heartbeat, through the channel to the MD, and the worker  *)
(* and the telemetry, through mdDDAPI, which the application sets after it *)
(* has started these threads.                                              *)
StartThreads ==
  /\ ~crashed /\ bg = "start"
  /\ IF made = "all" /\ attached
     THEN bg' = "run" /\ UNCHANGED <<crashed, odd>>
     ELSE /\ crashed' = TRUE /\ UNCHANGED bg
          /\ odd' = IF attached THEN odd ELSE odd \cup {"late"}
  /\ UNCHANGED <<made, attached, fg, running, serving>>

(* The application's own thread sets mdDDAPI.                              *)
SetSingleton ==
  /\ ~attached /\ attached' = TRUE
  /\ UNCHANGED <<made, fg, bg, running, serving, crashed, odd>>

(* A heartbeat was answered: the handle and, for a machine, a Cliever.     *)
Newborn ==
  /\ ~crashed /\ bg = "run"
  /\ born' = TRUE /\ cdAddress' \in BOOLEAN
  /\ UNCHANGED <<start, cdConnected, calls, work, sent, response, granted, registered, crashed,
                 odd>>

(* The telemetry thread connects to the Cliever.                           *)
ConnectCD ==
  /\ ~crashed /\ cdAddress /\ ~cdConnected
  /\ cdConnected' = TRUE
  /\ UNCHANGED <<start, born, cdAddress, calls, work, sent, response, granted, registered, crashed,
                 odd>>

----------------------------------------------------------------------------
Calling(a, k) == ask[a] # None /\ SubType[ask[a]] = k

(* mdRegisterODE, mdRegisterObservable, mdRegisterCommandCallback up to    *)
(* their wait.  The application calls them when the Cliever is connected,  *)
(* and not for a name it has registered.                                   *)
Ask(a, n) ==
  /\ ~crashed /\ born /\ cdConnected
  /\ pc[a] = "idle" /\ lock = None /\ n \notin registered
  /\ lock' = a
  /\ pc' = [pc EXCEPT ![a] = "asked"]
  /\ ask' = [ask EXCEPT ![a] = n]
  /\ q' = q \cup {<<a, n>>}
  /\ fresh' = IF hand = None THEN fresh ELSE fresh \cup {<<a, n>>}
  /\ IF \E b \in App : Calling(b, SubType[n]) THEN Odd("shared") ELSE UNCHANGED odd
  /\ UNCHANGED <<start, birth, hand, stale, sent, response, granted, registered, crashed>>

(* Mutant: the call does not wait.                                         *)
WaitNot(a) ==
  /\ ~crashed /\ pc[a] = "asked"
  /\ pc' = [pc EXCEPT ![a] = "woken"]
  /\ lock' = None
  /\ UNCHANGED <<start, birth, ask, work, sent, response, granted, registered, crashed, odd>>

(* The wait releases the mutex.                                            *)
Wait(a) ==
  /\ ~crashed /\ pc[a] = "asked"
  /\ pc' = [pc EXCEPT ![a] = "waiting"]
  /\ lock' = None
  /\ UNCHANGED <<start, birth, ask, work, sent, response, granted, registered, crashed, odd>>

(* The worker sends a query from the stack of the call that queued it; if  *)
(* the call is over, it sends what lies there by now.                      *)
Dispatch(a, n) ==
  /\ ~crashed /\ hand = None /\ <<a, n>> \in q
  /\ hand' = <<a, n>> /\ q' = q \ {<<a, n>>}
  /\ sent' \in IF ask[a] = n THEN {sent \cup {n}}
               ELSE {sent, sent \cup {n}, sent \cup ({ask[a]} \ {None})}
  /\ UNCHANGED <<start, birth, calls, fresh, stale, response, granted, registered, crashed, odd>>

(* It sends a frame, and deletes the item of its entry.                    *)
DispatchFrame ==
  /\ ~crashed /\ hand = None /\ cdConnected
  /\ hand' = Frame
  /\ UNCHANGED <<start, birth, calls, q, fresh, stale, sent, response, granted, registered,
                 crashed, odd>>

(* It finds an entry of a deleted item: it frees it twice, or takes for it *)
(* what lies there, such as an item queued since.                          *)
DispatchStale ==
  /\ ~crashed /\ hand = None /\ stale
  /\ \/ crashed' = TRUE /\ UNCHANGED <<stale, sent>>
     \/ /\ stale' \in BOOLEAN
        /\ sent' \in {sent} \cup {sent \cup ({ask[x[1]]} \ {None}) : x \in q}
        /\ UNCHANGED crashed
  /\ UNCHANGED <<start, birth, calls, q, hand, fresh, response, granted, registered, odd>>

(* It drops the entry it has dispatched, which is still on top.            *)
Pop ==
  /\ ~crashed /\ hand # None
  /\ hand' = None /\ fresh' = {}
  /\ UNCHANGED <<start, birth, calls, q, stale, sent, response, granted, registered, crashed, odd>>

(* A query or a frame was queued above it meanwhile and is dropped unsent, *)
(* and the entry that was dispatched stays.                                *)
PopAnother(x) ==
  /\ ~crashed /\ hand # None
  /\ x \in fresh \/ (x = Frame /\ cdConnected)
  /\ hand' = None /\ fresh' = {}
  /\ q' = (q \ {x}) \cup ({hand} \ {Frame})
  /\ stale' = (stale \/ hand = Frame)
  /\ Odd("overtaken")
  /\ UNCHANGED <<start, birth, calls, sent, response, granted, registered, crashed>>

(* Mutant: one condition variable for all kinds of names.                  *)
HearWakesAny(n) ==
  /\ response' = [response EXCEPT ![SubType[n]] = n]
  /\ IF \E a \in App : pc[a] = "waiting"
     THEN \E a \in App : pc[a] = "waiting" /\ pc' = [pc EXCEPT ![a] = "woken"]
     ELSE UNCHANGED pc

(* processEvent of an answer: it is left by kind, and one of the threads   *)
(* that wait for the kind is notified.                                     *)
Hear(n) ==
  LET waiting == {a \in App : pc[a] = "waiting" /\ Calling(a, SubType[n])}
  IN /\ response' = [response EXCEPT ![SubType[n]] = n]
     /\ IF waiting = {} THEN UNCHANGED pc
        ELSE \E a \in waiting : pc' = [pc EXCEPT ![a] = "woken"]

(* The MD grants a name it was asked about; its answer may be lost.        *)
Grant(n) ==
  /\ ~crashed /\ n \in sent \ granted
  /\ granted' = granted \cup {n}
  /\ Hear(n) \/ UNCHANGED <<response, pc>>
  /\ UNCHANGED <<start, birth, ask, lock, work, sent, registered, crashed, odd>>

(* An answer comes again, or is another device's.                          *)
HearStray(n) ==
  /\ ~crashed /\ bg = "run"
  /\ Hear(n)
  /\ Odd("stray")
  /\ UNCHANGED <<start, birth, ask, lock, work, sent, granted, registered, crashed>>

(* The answer was on the stack of the receiving thread, which goes on.     *)
Overwrite(k) ==
  /\ ~crashed /\ response[k] \notin {None, Gone}
  /\ response' = [response EXCEPT ![k] = Gone]
  /\ Odd("overwritten")
  /\ UNCHANGED <<start, birth, calls, work, sent, granted, registered, crashed>>

(* The condition variable wakes a thread nobody notified.                  *)
WakeCaller(a) ==
  /\ ~crashed /\ pc[a] = "waiting"
  /\ pc' = [pc EXCEPT ![a] = "woken"]
  /\ Odd("spurious")
  /\ UNCHANGED <<start, birth, ask, lock, work, sent, response, granted, registered, crashed>>

(* Mutant: the dialog is not ended.                                        *)
ReturnStays(a) ==
  /\ ~crashed /\ pc[a] = "woken" /\ lock = None
  /\ response[SubType[ask[a]]] # None
  /\ registered' = registered \cup {ask[a]}
  /\ pc' = [pc EXCEPT ![a] = "idle"]
  /\ UNCHANGED <<start, birth, ask, lock, work, sent, response, granted, crashed, odd>>

(* The rest of the call, with the mutex again: the name is registered if   *)
(* the answer, whichever it is, says so.                                   *)
Return(a) ==
  LET answer == response[SubType[ask[a]]]
  IN /\ ~crashed /\ pc[a] = "woken" /\ lock = None
     /\ IF answer = None
        THEN crashed' = TRUE /\ UNCHANGED <<pc, ask, registered>>
        ELSE /\ registered' \in {registered \cup {ask[a]}}
                                 \cup (IF answer = Gone THEN {registered} ELSE {})
             /\ pc' = [pc EXCEPT ![a] = "idle"]
             /\ ask' = [ask EXCEPT ![a] = None]
             /\ UNCHANGED crashed
     /\ UNCHANGED <<start, birth, lock, work, sent, response, granted, odd>>

----------------------------------------------------------------------------
Foreground == CreateDevice \/ FillDevice \/ SetRunning \/ Notify
Background == TestRunning \/ EnterWait \/ OpenChannel \/ StartThreads
Worker     == \/ DispatchFrame \/ DispatchStale \/ Pop
              \/ \E x \in fresh \cup {Frame} : PopAnother(x)

Next == \/ Foreground \/ InitFails \/ Background \/ WakeForNothing \/ SetSingleton
        \/ Worker
        \/ Newborn \/ ConnectCD
        \/ \E a \in App : Wait(a) \/ WakeCaller(a) \/ Return(a)
        \/ \E a \in App, n \in Name : Ask(a, n) \/ Dispatch(a, n)
        \/ \E n \in Name : Grant(n) \/ HearStray(n)
        \/ \E k \in SubTypes : Overwrite(k)

Spec == Init /\ [][Next]_vars

(* The two main threads run; nothing is assumed of the application and the *)
(* network.                                                                *)
FairSpec == Spec /\ WF_vars(Foreground) /\ WF_vars(Background)

----------------------------------------------------------------------------
(* The values of the variables; a call in progress is about a name, and    *)
(* holds the mutex until it waits.                                         *)
TypeOK ==
  /\ made \in {"nothing", "object", "all"}
  /\ fg \in {"create", "fill", "set", "notify", "run"}
  /\ bg \in {"test", "enter", "waiting", "init", "start", "run", "ended"}
  /\ {attached, running, born, cdAddress, cdConnected, stale, crashed} \subseteq BOOLEAN
  /\ pc \in [App -> {"idle", "asked", "waiting", "woken"}]
  /\ ask \in [App -> Name \cup {None}]
  /\ \A a \in App : (pc[a] = "idle" <=> ask[a] = None) /\ (pc[a] = "asked" <=> lock = a)
  /\ lock \in App \cup {None}
  /\ q \subseteq App \X Name /\ hand \in (App \X Name) \cup {None, Frame}
  /\ fresh \subseteq q /\ (hand = None => fresh = {})
  /\ response \in [SubTypes -> Name \cup {None, Gone}]
  /\ granted \subseteq sent
  /\ sent \subseteq Name /\ registered \subseteq Name
  /\ odd \subseteq {"spurious", "stray", "overwritten", "shared", "failed", "late", "overtaken"}

(* Neither the data layer nor a call of the API follows a null pointer     *)
(* (thisDevice and its channel, mdDDAPI, the response of a dialog), unless *)
(* a wait ends that nobody notified, the initialization failed, the        *)
(* application was late to set mdDDAPI, or a push overtook the worker.     *)
(* Stray answers, overwritten ones and threads that share a dialog do not  *)
(* lead there.                                                             *)
CrashExplained == crashed => odd \cap {"spurious", "failed", "late", "overtaken"} # {}

(* If nothing odd has happened, what the application was told it registered *)
(* is what the MD granted, however answers to several threads interleave.  *)
RegisteredAreGranted == odd = {} => registered \subseteq granted

(* If nothing odd has happened, no call returns before its query was sent: *)
(* the worker never reads the stack of a call that is over.  What is odd   *)
(* includes a push between its dispatch and its pop, after which it may.   *)
QueriesAlive == odd = {} => \A a \in App, n \in Name : <<a, n>> \in q => ask[a] = n

(* The data layer that begins its wait before the flag is set gets past it: *)
(* it starts, or ends because its port is taken.                           *)
WaitingStarts == (bg = "waiting" /\ ~running) ~> (bg \in {"run", "ended"} \/ crashed)

----------------------------------------------------------------------------
(* deviceDaemon.cpp:241: "Waiting for device to initialize MD background": *)
(* the data layer gets past its wait once the device is initialized.       *)
DataLayerStarts == <>(bg \in {"run", "ended"} \/ crashed)
=============================================================================
