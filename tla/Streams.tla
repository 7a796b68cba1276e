------------------------------ MODULE Streams ------------------------------
(***************************************************************************)
(* What a device daemon does between its calls (deviceDaemon.cpp): two     *)
(* threads run one io_service, and with it the handlers of the heartbeat   *)
(* and the telemetry timers and of the channels.  Each handler sends an    *)
(* event through the one EventSender of its kind, whose flag both threads  *)
(* test and set without a lock (EventSender.cpp).  An event sent while the *)
(* flag is set is an IllegalSendError, which leaves io_service::run: the   *)
(* data layer (bg) catches it and ends, nothing catches it in the          *)
(* foreground (fg).                                                        *)
(*                                                                         *)
(* Asserts are compiled in.  The handlers share more than the flags: the   *)
(* maps a frame is packed from, the address of the Cliever, and what       *)
(* connect_to keeps.  Nothing in the repository calls the                  *)
(* shutdown of a device, so the timers are armed for ever.                 *)
(***************************************************************************)
EXTENDS Naturals, FiniteSets

CONSTANTS Channel,   \* the channels with a receive of their own
          None,      \* no channel
          MaxReady   \* bound: the waits of a timer that are ready at a time

ASSUME StreamAssumption == /\ None \notin Channel
                           /\ MaxReady \in Nat \ {0}

Io    == {"fg", "bg"}        \* the threads that run io_
Timer == {"beat", "frame"}   \* t0 and t1
Kind  == Timer \cup {"incoming"}

VARIABLES
  step,       \* where each thread is in its handler
  kind, ch,   \* the handler, and the channel of an incoming datagram
  busy,       \* EventSender::_isBusySending of each kind of event
  ready,      \* the waits of each timer that are ready to be handled
  armed,      \* the channels with a receive pending
  connected,  \* deviceDaemonConfig::cdConnected
  inserting,  \* a thread of the application adds a name to myObs or myODEs
  died,       \* what terminated the process, or "no"
  overlapped  \* history: "kind" if two handlers of one kind have overlapped,
              \* "data" if one thread wrote data while another used them

handler == <<step, kind, ch>>
vars == <<handler, busy, ready, armed, connected, inserting, died, overlapped>>

Init ==
  /\ step = [t \in Io |-> "free"]
  /\ kind = [t \in Io |-> "beat"]
  /\ ch = [t \in Io |-> None]
  /\ busy = [k \in Kind |-> FALSE]
  /\ ready = [k \in Timer |-> 0]
  /\ armed = Channel
  /\ connected = FALSE /\ inserting = FALSE /\ died = "no"
  /\ overlapped = {}

Alive == died = "no"

Inside(t, k) == step[t] \notin {"free", "gone"} /\ kind[t] = k

(* It may be about to assign the address of the Cliever.                   *)
Assigning(t) == step[t] = "process" /\ kind[t] = "incoming"

----------------------------------------------------------------------------
(* The pulse and stream threads, and the application.                      *)

Arm(k) ==
  /\ Alive /\ ready[k] < MaxReady
  /\ ready' = [ready EXCEPT ![k] = @ + 1]
  /\ UNCHANGED <<handler, busy, armed, connected, inserting, died, overlapped>>

(* A registered name is put in its map.                                    *)
BeginInsert ==
  /\ Alive /\ connected /\ ~inserting /\ inserting' = TRUE
  /\ UNCHANGED <<handler, busy, ready, armed, connected, died, overlapped>>

EndInsert ==
  /\ Alive /\ inserting /\ inserting' = FALSE
  /\ UNCHANGED <<handler, busy, ready, armed, connected, died, overlapped>>

----------------------------------------------------------------------------
(* An exception leaves the handler, and io_service::run with it.           *)
Escape(t, cause) ==
  IF t = "bg" THEN step' = [step EXCEPT ![t] = "gone"] /\ UNCHANGED died
              ELSE died' = cause /\ UNCHANGED step

(* A thread takes a handler.                                               *)
Enter(t, k, c, at) ==
  /\ Alive /\ step[t] = "free"
  /\ step' = [step EXCEPT ![t] = at]
  /\ kind' = [kind EXCEPT ![t] = k]
  /\ ch' = [ch EXCEPT ![t] = c]
  /\ overlapped' = IF \E u \in Io \ {t} : Inside(u, k)
                   THEN overlapped \cup {"kind"} ELSE overlapped
  /\ UNCHANGED <<busy, connected, inserting, died>>

(* hbCallback, trCallback.                                                 *)
TakeTimer(t, k) ==
  /\ ready[k] > 0 /\ ready' = [ready EXCEPT ![k] = @ - 1]
  /\ Enter(t, k, None, IF k = "frame" /\ ~connected THEN "connect" ELSE "test")
  /\ UNCHANGED armed

(* handle_receive_from: one receive of the channel is over.                *)
TakeIncoming(t, c) ==
  /\ c \in armed /\ armed' = armed \ {c}
  /\ Enter(t, "incoming", c, "test")
  /\ UNCHANGED ready

(* trCallback goes no further without a Cliever.  What it knows of one may *)
(* be no address: the exception of from_string is thrown before the try of *)
(* connect_to, and leaves the handler.  The address is a string that a     *)
(* datagram may assign meanwhile, and two threads that connect at a time   *)
(* delete the same query.                                                  *)
Connect(t) ==
  LET written == \E u \in Io \ {t} : Assigning(u)
      shared  == \E u \in Io \ {t} : Assigning(u) \/ step[u] = "connect"
  IN /\ Alive /\ step[t] = "connect"
     /\ overlapped' = IF written THEN overlapped \cup {"data"} ELSE overlapped
     /\ \/ step' = [step EXCEPT ![t] = "free"] /\ UNCHANGED <<connected, died>>
        \/ step' = [step EXCEPT ![t] = "test"] /\ connected' = TRUE /\ UNCHANGED died
        \/ Escape(t, "address") /\ UNCHANGED connected
        \/ shared /\ died' = "memory" /\ UNCHANGED <<step, connected>>
     /\ UNCHANGED <<kind, ch, busy, ready, armed, inserting>>

(* The worker ends the process: a send of its own throws, which nothing    *)
(* catches, or the queue that it shares without a lock is broken.          *)
WorkerFails ==
  /\ Alive /\ died' = "worker"
  /\ UNCHANGED <<handler, busy, ready, armed, connected, inserting, overlapped>>

----------------------------------------------------------------------------
(* EventSender::sendEvent.                                                 *)

(* Mutant: the flag is set before it is looked at.                         *)
TestSets(t) ==
  /\ Alive /\ step[t] = "test"
  /\ busy' = [busy EXCEPT ![kind[t]] = TRUE]
  /\ IF ~busy[kind[t]] THEN step' = [step EXCEPT ![t] = "set"] /\ UNCHANGED died
                       ELSE Escape(t, "sender")
  /\ UNCHANGED <<kind, ch, ready, armed, connected, inserting, overlapped>>

(* The flag is looked at, and the exception leaves the handler, which does *)
(* not receive again, and the loop of the thread.                          *)
Test(t) ==
  /\ Alive /\ step[t] = "test"
  /\ IF ~busy[kind[t]] THEN step' = [step EXCEPT ![t] = "set"] /\ UNCHANGED died
                       ELSE Escape(t, "sender")
  /\ UNCHANGED <<kind, ch, busy, ready, armed, connected, inserting, overlapped>>

(* It is asserted not to be set, and set.                                  *)
Set(t) ==
  /\ Alive /\ step[t] = "set"
  /\ \/ /\ busy' = [busy EXCEPT ![kind[t]] = TRUE]
        /\ step' = [step EXCEPT ![t] = "process"]
        /\ UNCHANGED died
     \/ busy[kind[t]] /\ died' = "sender" /\ UNCHANGED <<busy, step>>
  /\ UNCHANGED <<kind, ch, ready, armed, connected, inserting, overlapped>>

(* What processEvent uses without a lock: a frame is packed from the maps, *)
(* a birth assigns the address of the Cliever.                             *)
Races(t) ==
  \/ kind[t] = "frame" /\ inserting
  \/ kind[t] = "incoming" /\ \E u \in Io \ {t} : Assigning(u) \/ step[u] = "connect"

(* processEvent asserts the flag.                                          *)
Process(t) ==
  /\ Alive /\ step[t] = "process"
  /\ overlapped' = IF Races(t) THEN overlapped \cup {"data"} ELSE overlapped
  /\ \/ busy[kind[t]] /\ step' = [step EXCEPT ![t] = "leave"] /\ UNCHANGED died
     \/ ~busy[kind[t]] /\ died' = "sender" /\ UNCHANGED step
     \/ Races(t) /\ died' = "memory" /\ UNCHANGED step
  /\ UNCHANGED <<kind, ch, busy, ready, armed, connected, inserting>>

(* Mutant: the loop of the thread ends after one handler (run_one).        *)
CleanLast(t) ==
  /\ Alive /\ step[t] = "clean"
  /\ step' = [step EXCEPT ![t] = "gone"]
  /\ armed' = armed \cup ({ch[t]} \ {None})
  /\ UNCHANGED <<kind, ch, busy, ready, connected, inserting, died, overlapped>>

(* Mutant: the flag stays.                                                 *)
LeaveBusy(t) ==
  /\ Alive /\ step[t] = "leave"
  /\ step' = [step EXCEPT ![t] = "clean"]
  /\ UNCHANGED <<kind, ch, busy, ready, armed, connected, inserting, died, overlapped>>

Leave(t) ==
  /\ Alive /\ step[t] = "leave"
  /\ busy' = [busy EXCEPT ![kind[t]] = FALSE]
  /\ step' = [step EXCEPT ![t] = "clean"]
  /\ UNCHANGED <<kind, ch, ready, armed, connected, inserting, died, overlapped>>

(* Mutant: whatever the handler, a channel receives again.                 *)
CleanArmsAny(t) ==
  /\ Alive /\ step[t] = "clean"
  /\ step' = [step EXCEPT ![t] = "free"]
  /\ armed' = armed \cup {ch[t]}
  /\ UNCHANGED <<kind, ch, busy, ready, connected, inserting, died, overlapped>>

(* Mutant: the channel does not receive again.                             *)
CleanOnly(t) ==
  /\ Alive /\ step[t] = "clean"
  /\ IF busy[kind[t]] THEN died' = "sender" /\ UNCHANGED step
     ELSE step' = [step EXCEPT ![t] = "free"] /\ UNCHANGED died
  /\ UNCHANGED <<kind, ch, busy, ready, armed, connected, inserting, overlapped>>

(* cleanupQueues asserts that the flag is not set; a channel then receives *)
(* again.                                                                  *)
Clean(t) ==
  /\ Alive /\ step[t] = "clean"
  /\ IF busy[kind[t]]
     THEN died' = "sender" /\ UNCHANGED <<step, armed>>
     ELSE /\ step' = [step EXCEPT ![t] = "free"]
          /\ armed' = armed \cup ({ch[t]} \ {None})
          /\ UNCHANGED died
  /\ UNCHANGED <<kind, ch, busy, ready, connected, inserting, overlapped>>

----------------------------------------------------------------------------
Handle(t) == Connect(t) \/ Test(t) \/ Set(t) \/ Process(t) \/ Leave(t) \/ Clean(t)

Next == \/ \E k \in Timer : Arm(k)
        \/ BeginInsert \/ EndInsert \/ WorkerFails
        \/ \E t \in Io : \/ \E k \in Timer : TakeTimer(t, k)
                         \/ \E c \in Channel : TakeIncoming(t, c)
                         \/ Handle(t)

Spec == Init /\ [][Next]_vars

(* The threads go on, and the io_service hands out the handlers that are   *)
(* ready in their order, so that each has its turn.                        *)
FairSpec == /\ Spec
            /\ \A t \in Io : WF_vars(Handle(t))
            /\ \A k \in Timer : SF_vars(\E t \in Io : TakeTimer(t, k))

----------------------------------------------------------------------------
TypeOK ==
  /\ step \in [Io -> {"free", "connect", "test", "set", "process", "leave", "clean", "gone"}]
  /\ kind \in [Io -> Kind]
  /\ ch \in [Io -> Channel \cup {None}]
  /\ \A t \in Io : kind[t] = "incoming" <=> ch[t] # None
  /\ step["fg"] # "gone"
  /\ busy \in [Kind -> BOOLEAN]
  /\ ready \in [Timer -> 0 .. MaxReady]
  /\ armed \subseteq Channel
  /\ {connected, inserting} \subseteq BOOLEAN
  /\ died \in {"no", "sender", "memory", "address", "worker"}
  /\ overlapped \subseteq {"kind", "data"}

(* An IllegalSendError or an assertion of a sender strikes only after two  *)
(* handlers of one kind have overlapped, and broken memory only after two  *)
(* threads have met in the same data: in one thread, events of three kinds *)
(* one after the other are harmless.  What else ends the process, a bad    *)
(* address in the foreground and the worker, has a cause of its own.       *)
DiesOfOverlap == /\ died = "sender" => "kind" \in overlapped
                 /\ died = "memory" => overlapped # {}

(* A sender is never left busy by nobody, which would turn every later     *)
(* event of its kind into an exception; also when two threads have passed  *)
(* its test together, and when one of them has left by an exception.       *)
BusyIsInside ==
  \A k \in Kind : busy[k] => \E t \in Io : step[t] \in {"process", "leave"} /\ kind[t] = k

(* When the data layer ends, by an overlap or a bad address, it takes at   *)
(* most one channel with it: all others go on receiving.                   *)
Deaf == {c \in Channel \ armed : \A t \in Io : ~(Inside(t, "incoming") /\ ch[t] = c)}
OneDeaf == /\ Deaf # {} => step["bg"] = "gone"
           /\ \A c, d \in Deaf : c = d

(* Heartbeats and frames go on as long as the process lives, also when the *)
(* data layer has ended: the foreground runs the handlers it leaves.       *)
StreamsGoOn ==
  \A k \in Timer : ready[k] = MaxReady ~> (ready[k] < MaxReady \/ ~Alive)
=============================================================================
