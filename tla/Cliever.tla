------------------------------ MODULE Cliever ------------------------------
(***************************************************************************)
(* The life of a Cliever's daemon (clientDaemon.cpp, auc-cd.cpp): the      *)
(* foreground thread makes it, the data layer waits for it a bounded       *)
(* number of turns and starts the heartbeat and the telemetry threads,     *)
(* the Master Daemon's answer to a heartbeat gives it its handle, and a    *)
(* signal asks it to shut down.                                            *)
(*                                                                         *)
(* The constructor that is used sets none of the fields the threads look   *)
(* at (clientDaemon.h:73).  A thread that follows a bad pointer raises     *)
(* SIGSEGV, whose handler returns (auc-cd.cpp:210): it stays where it is.  *)
(***************************************************************************)
EXTENDS Naturals

CONSTANTS Handle,    \* the handles of the places the MD has for Clievers
          None,      \* no handle: 0
          Stray,     \* a handle nobody gave
          MaxWaits   \* bound of TLC: the waits pending on a timer

ASSUME ClieverAssumption == /\ None \notin Handle /\ Stray \notin Handle
                            /\ None # Stray
                            /\ MaxWaits \in Nat \ {0}

VARIABLES
  fg,            \* where runCliever is
  bg,            \* where runDataLayer is
  pulse,         \* where the heartbeat thread is
  stream,        \* where the telemetry thread is
  exists,        \* thisCliever is set
  listening,     \* its listeners are added
  channel,       \* mdCliever::fg is set
  alive, shuttingDown, myHandle,  \* the fields of these names
  beats, frames, \* the waits pending on the timers t0 and t1
  asking,        \* a heartbeat without a handle is on its way
  answers,       \* the answers of the MD on their way: a handle, or a refusal
  given,         \* the MD's places for Clievers that are taken
  terminated,    \* the signal was caught
  unheard,       \* a heartbeat was sent that found no listener
  odd            \* history: what happened that the code does not count on

threads == <<fg, bg, pulse, stream>>
made    == <<exists, listening, channel>>
fields  == <<alive, shuttingDown, myHandle>>
timers  == <<beats, frames>>
net     == <<asking, answers, given>>
notes   == <<terminated, unheard, odd>>
vars    == <<threads, made, fields, timers, net, notes>>

Init ==
  /\ fg = "create" /\ bg = "exists" /\ pulse = "none" /\ stream = "none"
  /\ exists = FALSE /\ listening = FALSE /\ channel = FALSE
  /\ alive = FALSE /\ shuttingDown = FALSE /\ myHandle = None
  /\ beats = 0 /\ frames = 0
  /\ asking = FALSE /\ answers = {} /\ given = {}
  /\ terminated = FALSE /\ unheard = FALSE /\ odd = {}

(* The process exits when the data layer ends.                             *)
Running == bg # "ended"

----------------------------------------------------------------------------
(* runCliever.                                                             *)

(* new mdCliever(thisConfig): the fields are what the memory held.         *)
Construct ==
  /\ Running /\ fg = "create" /\ fg' = "listen"
  /\ exists' = TRUE
  /\ alive' \in BOOLEAN /\ shuttingDown' \in BOOLEAN /\ myHandle' \in {None, Stray}
  /\ odd' = odd \cup (IF alive' THEN {"stray"} ELSE {})
  /\ UNCHANGED <<bg, pulse, stream, listening, channel, timers, net, terminated, unheard>>

(* Mutant: the Cliever does not listen.                                    *)
ListenNot ==
  /\ Running /\ fg = "listen" /\ fg' = "channel"
  /\ UNCHANGED <<bg, pulse, stream, made, fields, timers, net, notes>>

Listen ==
  /\ Running /\ fg = "listen" /\ fg' = "channel"
  /\ listening' = TRUE
  /\ UNCHANGED <<bg, pulse, stream, exists, channel, fields, timers, net, notes>>

OpenForeground ==
  /\ Running /\ fg = "channel" /\ fg' = "alive"
  /\ channel' = TRUE
  /\ UNCHANGED <<bg, pulse, stream, exists, listening, fields, timers, net, notes>>

(* An exception is logged, and the thread goes on.                         *)
InitFails ==
  /\ Running /\ fg \in {"create", "listen", "channel"} /\ fg' = "alive"
  /\ odd' = odd \cup {"failed"}
  /\ UNCHANGED <<bg, pulse, stream, made, fields, timers, net, terminated, unheard>>

(* alive is set, whatever was made, and io_fg is run for good.             *)
SetAlive ==
  /\ Running /\ fg = "alive"
  /\ IF exists THEN fg' = "run" /\ alive' = TRUE
               ELSE fg' = "fault" /\ UNCHANGED alive
  /\ UNCHANGED <<bg, pulse, stream, made, shuttingDown, myHandle, timers, net, notes>>

----------------------------------------------------------------------------
(* runDataLayer.                                                           *)

(* A loop of a bounded number of turns ends when its condition holds, or   *)
(* when the turns are over.                                                *)
Spin(cond) == odd' = odd \cup (IF cond THEN {} ELSE {"hurried"})

SpinExists ==
  /\ bg = "exists" /\ bg' = "alive"
  /\ Spin(exists)
  /\ UNCHANGED <<fg, pulse, stream, made, fields, timers, net, terminated, unheard>>

(* Mutant: only that there is a Cliever is waited for.                     *)
SpinAliveNot ==
  /\ bg = "alive"
  /\ bg' = IF exists THEN "open" ELSE "fault"
  /\ UNCHANGED <<fg, pulse, stream, made, fields, timers, net, notes>>

SpinAlive ==
  /\ bg = "alive"
  /\ IF exists THEN bg' = "open" /\ Spin(alive)
               ELSE bg' = "fault" /\ UNCHANGED odd
  /\ UNCHANGED <<fg, pulse, stream, made, fields, timers, net, terminated, unheard>>

(* Mutant: the telemetry thread is not started.                            *)
OpenBackgroundNoStream ==
  /\ bg = "open" /\ bg' = "run"
  /\ pulse' = "connect"
  /\ UNCHANGED <<fg, stream, made, fields, timers, net, notes>>

(* Mutant: the telemetry loop looks at the flag after its first turn only. *)
OpenBackgroundArms ==
  /\ bg = "open" /\ bg' = "run"
  /\ pulse' = "connect" /\ stream' = "arm"
  /\ UNCHANGED <<fg, made, fields, timers, net, notes>>

(* The channel on the telemetry port and the two threads; io_bg runs.  It  *)
(* always has a receive pending, so it does not run out of work, and the   *)
(* threads are never joined.                                               *)
OpenBackground ==
  /\ bg = "open" /\ bg' = "run"
  /\ pulse' = "connect" /\ stream' = "test"
  /\ UNCHANGED <<fg, made, fields, timers, net, notes>>

(* The port is taken: the data layer ends, and the process with it.        *)
OpenFails ==
  /\ bg = "open" /\ bg' = "ended"
  /\ UNCHANGED <<fg, pulse, stream, made, fields, timers, net, notes>>

----------------------------------------------------------------------------
(* The heartbeat and the telemetry threads.                                *)

(* connect_to, through a channel that may not be there.                    *)
Connect ==
  /\ pulse = "connect"
  /\ pulse' \in IF channel THEN {"test", "done"} ELSE {"fault"}
  /\ UNCHANGED <<fg, bg, stream, made, fields, timers, net, notes>>

(* Mutant: the loop does not look at the flag.                             *)
PulseTestNot ==
  /\ pulse = "test" /\ pulse' = "arm"
  /\ UNCHANGED <<fg, bg, stream, made, fields, timers, net, notes>>

PulseTest ==
  /\ pulse = "test" /\ pulse' = IF shuttingDown THEN "done" ELSE "arm"
  /\ UNCHANGED <<fg, bg, stream, made, fields, timers, net, notes>>

PulseArm ==
  /\ pulse = "arm" /\ pulse' = "sleep"
  /\ beats < MaxWaits /\ beats' = beats + 1
  /\ UNCHANGED <<fg, bg, stream, made, fields, frames, net, notes>>

(* Mutant: the heartbeat is not repeated.                                  *)
PulseSleepOnce ==
  /\ pulse = "sleep" /\ pulse' = "done"
  /\ UNCHANGED <<fg, bg, stream, made, fields, timers, net, notes>>

PulseSleep ==
  /\ pulse = "sleep" /\ pulse' = "test"
  /\ UNCHANGED <<fg, bg, stream, made, fields, timers, net, notes>>

StreamTest ==
  /\ stream = "test" /\ stream' = IF shuttingDown THEN "done" ELSE "arm"
  /\ UNCHANGED <<fg, bg, pulse, made, fields, timers, net, notes>>

StreamArm ==
  /\ stream = "arm" /\ stream' = "sleep"
  /\ frames < MaxWaits /\ frames' = frames + 1
  /\ UNCHANGED <<fg, bg, pulse, made, fields, beats, net, notes>>

StreamSleep ==
  /\ stream = "sleep" /\ stream' = "test"
  /\ UNCHANGED <<fg, bg, pulse, made, fields, timers, net, notes>>

----------------------------------------------------------------------------
(* What io_bg runs, on the thread of the data layer.                       *)

(* hbCallback: a heartbeat, with the handle the Cliever has by now.        *)
Beat ==
  /\ beats > 0 /\ beats' = beats - 1
  /\ asking' = (asking \/ (alive /\ listening /\ myHandle = None))
  /\ unheard' = (unheard \/ (alive /\ ~listening))
  /\ UNCHANGED <<threads, made, fields, frames, answers, given, terminated, odd>>

(* trCallback: the Cliever does nothing with the frame it sends itself.    *)
Frame ==
  /\ frames > 0 /\ frames' = frames - 1
  /\ UNCHANGED <<threads, made, fields, beats, net, notes>>

(* processEvent of a NEWBORN, which may come late, and again.              *)
Hear(h) ==
  /\ bg = "run" /\ h \in answers
  /\ answers' \in {answers, answers \ {h}}
  /\ myHandle' = IF h # None THEN h ELSE myHandle
  /\ UNCHANGED <<threads, made, alive, shuttingDown, timers, asking, given, notes>>

(* A heartbeat is heard, once or more often.  Each time it takes one more  *)
(* place for good; when none is left it is refused.                        *)
Answer(h) ==
  /\ asking /\ asking' \in BOOLEAN
  /\ IF h = None THEN given = Handle ELSE h \in Handle \ given
  /\ answers' = answers \cup {h}
  /\ given' = given \cup ({h} \ {None})
  /\ UNCHANGED <<threads, made, fields, timers, notes>>

(* Another Cliever is born.                                                *)
Occupy(h) ==
  /\ h \in Handle \ given /\ given' = given \cup {h}
  /\ UNCHANGED <<threads, made, fields, timers, asking, answers, notes>>

Lose ==
  /\ \/ asking /\ asking' = FALSE /\ UNCHANGED answers
     \/ \E h \in answers : answers' = answers \ {h} /\ UNCHANGED asking
  /\ UNCHANGED <<threads, made, fields, timers, given, notes>>

----------------------------------------------------------------------------
(* SIGTERM, from the commander's quit or an operator, on any thread: the   *)
(* event is sent to whoever listens by now.                                *)
Terminate ==
  /\ Running
  /\ terminated' = TRUE
  /\ shuttingDown' = (shuttingDown \/ listening)
  /\ UNCHANGED <<threads, made, alive, myHandle, timers, net, unheard, odd>>

----------------------------------------------------------------------------
Foreground == Construct \/ Listen \/ OpenForeground \/ SetAlive
DataLayer  == SpinExists \/ SpinAlive \/ OpenBackground
Pulse      == Connect \/ PulseTest \/ PulseArm \/ PulseSleep
Stream     == StreamTest \/ StreamArm \/ StreamSleep

Next == \/ Foreground \/ InitFails \/ DataLayer \/ OpenFails
        \/ Pulse \/ Stream \/ Beat \/ Frame
        \/ \E h \in Handle \cup {None} : Hear(h) \/ Answer(h) \/ Occupy(h)
        \/ Lose \/ Terminate

Spec == Init /\ [][Next]_vars

(* The threads run, and the io_service runs every handler that is ready.   *)
FairThreads == /\ WF_vars(Foreground \/ InitFails) /\ WF_vars(DataLayer \/ OpenFails)
               /\ WF_vars(Pulse) /\ WF_vars(Stream)
               /\ WF_vars(Beat) /\ WF_vars(Frame)

(* A network that loses a great deal, but not every heartbeat.  Nothing is *)
(* assumed of what the MD answers, nor of its answers arriving.            *)
FairNet == SF_vars(\E h \in Handle \cup {None} : Answer(h))

FairSpec == Spec /\ FairThreads /\ FairNet

----------------------------------------------------------------------------
TypeOK ==
  /\ fg \in {"create", "listen", "channel", "alive", "run", "fault"}
  /\ bg \in {"exists", "alive", "open", "run", "fault", "ended"}
  /\ pulse \in {"none", "connect", "test", "arm", "sleep", "done", "fault"}
  /\ stream \in {"none", "test", "arm", "sleep", "done"}
  /\ bg = "run" <=> pulse # "none"
  /\ bg = "run" <=> stream # "none"
  /\ {exists, listening, channel, alive, shuttingDown} \subseteq BOOLEAN
  /\ {asking, terminated, unheard} \subseteq BOOLEAN
  /\ myHandle \in Handle \cup {None, Stray}
  /\ beats \in 0 .. MaxWaits /\ frames \in 0 .. MaxWaits
  /\ answers \subseteq Handle \cup {None} /\ given \subseteq Handle
  /\ odd \subseteq {"stray", "failed", "hurried"}

(* No heartbeat is sent before the Cliever listens to it, also if its      *)
(* alive flag was set from the start or its initialization failed: the     *)
(* thread that sends it first connects through what is made last.          *)
BeatIsHeard == ~unheard

(* A thread follows a bad pointer only if the data layer ran out of turns, *)
(* the memory of the Cliever made it look alive, or making it failed.      *)
FaultsExplained ==
  fg = "fault" \/ bg = "fault" \/ pulse = "fault" => odd # {}

(* A Cliever that beats without a handle and is not shut down goes on      *)
(* until it has one, or until the MD has no place left: whatever is lost   *)
(* of its heartbeats and of the answers, it never just stops asking.  Each *)
(* answer lost costs a place, so it may come to that.                      *)
Born == (fg = "run" /\ pulse = "sleep" /\ myHandle = None)
          ~> (myHandle # None \/ shuttingDown \/ given = Handle)

(* When the flag is set, heartbeats and frames come to an end.             *)
ShutdownQuiets == shuttingDown ~> [](beats = 0 /\ frames = 0)

(* Once the flag of a Cliever is set it stays set, and no wait is begun    *)
(* but the one each thread had decided on before it could see the flag:    *)
(* what is still to be sent only gets less, whoever set the flag.          *)
Turns(at) == IF at = "arm" THEN 1 ELSE 0
Owed == beats + frames + Turns(pulse) + Turns(stream)

OweNoMore  == exists /\ shuttingDown => shuttingDown' /\ Owed' <= Owed
OwesNoMore == [][OweNoMore]_vars

----------------------------------------------------------------------------
(* auc-cd.cpp:218: "terminate signal caught, auc-cd will shutdown."  Here  *)
(* the signal has set the flag of a Cliever that started as it should.     *)
TerminateEnds ==
  (terminated /\ shuttingDown /\ bg = "run" /\ odd = {}) ~> (bg = "ended")
=============================================================================
