---------------------------- MODULE MasterDaemon ----------------------------
(***************************************************************************)
(* The Master Daemon and its clients' ends of the dialog with it           *)
(* (masterDaemon.cpp, mdDevice.cpp, mdState.cpp; clientDaemon.cpp,         *)
(* deviceDaemon.cpp, md_device.cpp).  The background thread hears          *)
(* heartbeats and queries and queues the replies; the worker thread sends  *)
(* them, opening a back channel to a client first if it has none, and only *)
(* then drops what is on top of the queue by then.                         *)
(*                                                                         *)
(* A reply that was sent may be heard late, more than once or never.  A    *)
(* query is heard at once or never; a heartbeat without a handle may be    *)
(* heard when its client has been given one.  The queue gives the replies  *)
(* in any order; what a push does in the middle of a pop is left to        *)
(* WorkQueue.                                                              *)
(* Every client is in cliever group 0, the only one version 1 accepts.     *)
(***************************************************************************)
EXTENDS Naturals, FiniteSets

CONSTANTS Client, KindOf,            \* the peers, and the md_device each one is
          Handle,                    \* bound: the handles getHandle has to offer
          MaxCliever, MaxInstruments,
          Name, Known,               \* names devices register; those predefined
          SubType,                   \* whether a name is a command, ODE or observable
          Memory,                    \* what words never written may hold
          MaxQueued,                 \* bound of TLC: the replies queued at a time
          MaxOvertaken,              \* bound of TLC: how often the worker is overtaken
          None, Stray                \* no object; a pointer to no object

Kinds    == {"CD", "MACHINE", "INSTRUMENT"}
SubTypes == {"REGSCPI", "REGODE", "REGOBS"}
Idx      == 0 .. MaxCliever
Slot     == 1 .. MaxInstruments
Live     == [kind : Kinds, idx : Idx]
Reply    == [what : {"NEWBORN", "MDQUERY"}, to : Client, idx : Idx, ok : BOOLEAN,
             handle : Handle \cup {None},       \* sinkHandle
             cd : Client \cup {None},           \* whose address a machine is told
             name : Name \cup {None}]

ASSUME MasterAssumption ==
  /\ KindOf \in [Client -> Kinds]
  /\ IsFiniteSet(Handle)
  /\ MaxCliever \in Nat /\ MaxInstruments \in Nat
  /\ MaxCliever > MaxInstruments + 1   \* 10 and 3 in mdcommon.h
  /\ Known \subseteq Name
  /\ SubType \in [Name -> SubTypes]
  /\ Memory \subseteq {None, Stray} /\ None # Stray
  /\ MaxQueued \in Nat /\ MaxOvertaken \in Nat
  /\ {None, Stray} \cap (Client \cup Handle \cup Name \cup Live \cup Reply) = {}

VARIABLES
  allClients,   \* masterDaemonConfig::allClients: kind and mdStdDevIdx by handle
  cliever,      \* masterDaemonConfig::cliever[0] and its address clievers[0]
  nClievers,    \* masterDaemonConfig::nClievers
  machine,      \* theMachine, by its handle
  instruments,  \* the keys of masterDaemonConfig::instruments
  slots,        \* masterDaemon::instruments
  cb,           \* the indices that have a control block
  opened,       \* those whose back channel is open
  sourced,      \* the names that have a source, by the handle of their device
  q,            \* the replies queued that the worker has not dispatched
  above,        \* the one that was queued above the one in hand and is on top
  stale,        \* those it has dispatched and deleted, but left in the queue
  overtaken,    \* history: how often it has dropped another one than it sent
  inHand,       \* the reply it dispatches, or has yet to drop
  step,         \* how far it is with it
  active,       \* whom the last socket it opened is connected to
  crashed,      \* a pointer to no object was followed, or memory freed twice
  air,          \* the replies sent, each with the client it went to
  myHandle,     \* each client's handle
  cdAddress,    \* the telemetry Cliever each client was told of
  cdConnected,  \* the devices that are connected to one
  asked         \* the name a device's thread waits for an answer about

registry == <<allClients, cliever, nClievers, machine, instruments, slots>>
queue    == <<q, above, stale, overtaken>>
worker   == <<inHand, step, active, opened>>
clients  == <<myHandle, cdAddress, cdConnected, asked>>
vars     == <<registry, cb, sourced, queue, worker, crashed, air, clients>>

Init ==
  /\ allClients = [h \in Handle |-> None]
  /\ cliever \in Memory /\ machine \in Memory    \* neither is initialized
  /\ nClievers = 0
  /\ instruments = {}
  /\ slots = [i \in Slot |-> None]
  /\ cb = {0} /\ opened = {}
  /\ sourced = {}
  /\ q = {} /\ above = None /\ stale = {} /\ overtaken = 0
  /\ inHand = None /\ step = "idle" /\ active = None
  /\ crashed = FALSE /\ air = {}
  /\ myHandle = [c \in Client |-> None]
  /\ cdAddress = [c \in Client |-> None]
  /\ cdConnected = {}
  /\ asked = [c \in Client |-> None]

----------------------------------------------------------------------------
(* Birth: dispatch of a heartbeat without a handle, mdClientBirth and      *)
(* mdDeviceFabrik::newFromHeartbeat, all on the background thread.         *)

Alive(h) == allClients[h] # None

Newborn(c, h, i, cd) ==
  [what |-> "NEWBORN", to |-> c, idx |-> i, ok |-> h # None,
   handle |-> h, cd |-> cd, name |-> None]

(* processEvent of a reply: it is queued, whatever the worker is doing, at *)
(* the place its address gives it.                                         *)
Push(r) ==
  /\ Cardinality(q) < MaxQueued
  /\ q' = q \cup {r}
  /\ \/ UNCHANGED above
     \/ inHand # None /\ overtaken < MaxOvertaken /\ above' = r
  /\ UNCHANGED <<stale, overtaken>>

(* Mutant: the control block is not made.                                  *)
AdmitNoBlock(c, h, i, cd) ==
  /\ allClients' = [allClients EXCEPT ![h] = [kind |-> KindOf[c], idx |-> i]]
  /\ Push(Newborn(c, h, i, cd))
  /\ UNCHANGED <<cb, sourced, worker, crashed, air, clients>>

(* A validated client gets its handle, its index and a new control block.  *)
Admit(c, h, i, cd) ==
  /\ allClients' = [allClients EXCEPT ![h] = [kind |-> KindOf[c], idx |-> i]]
  /\ cb' = cb \cup {i}
  /\ opened' = opened \ {i}
  /\ Push(Newborn(c, h, i, cd))
  /\ UNCHANGED <<sourced, inHand, step, active, crashed, air, clients>>

(* mdClientServer::validateClient: the search for a free place never       *)
(* starts, so every Cliever takes the first; no two are found the same.    *)
ClieverBirth(c, h) ==
  /\ KindOf[c] = "CD" /\ nClievers < MaxCliever
  /\ nClievers' = nClievers + 1
  /\ cliever' = c
  /\ Admit(c, h, 1, None)
  /\ UNCHANGED <<machine, instruments, slots>>

(* Mutant: the index mdStdDevIdx gets in validateClient.                   *)
MachineBirthNextIndex(c, h) ==
  /\ KindOf[c] = "MACHINE" /\ machine = None /\ cliever # None
  /\ machine' = h
  /\ Admit(c, h, MaxCliever + 1, IF cliever = Stray THEN None ELSE cliever)
  /\ UNCHANGED <<cliever, nClievers, instruments, slots>>

(* Mutant: whether there is a machine already is not looked at.            *)
MachineBirthAgain(c, h) ==
  /\ KindOf[c] = "MACHINE" /\ cliever # None
  /\ machine' = h
  /\ Admit(c, h, MaxCliever, IF cliever = Stray THEN None ELSE cliever)
  /\ UNCHANGED <<cliever, nClievers, instruments, slots>>

(* mdMachine::validateClient: one machine, and a Cliever to send to.  The  *)
(* machine is told clievers[0], which is empty until a Cliever is born; if *)
(* cliever[0] is not written by then, a stray pointer is followed.         *)
MachineBirth(c, h) ==
  /\ KindOf[c] = "MACHINE" /\ machine = None /\ cliever # None
  /\ machine' = h
  /\ Admit(c, h, MaxCliever, IF cliever = Stray THEN None ELSE cliever)
  /\ UNCHANGED <<cliever, nClievers, instruments, slots>>

MachineBirthCrashes(c) ==
  /\ KindOf[c] = "MACHINE" /\ machine = None /\ cliever = Stray
  /\ crashed' = TRUE
  /\ UNCHANGED <<registry, cb, sourced, queue, worker, air, clients>>

(* Mutant: the first slot is taken, free or not.                           *)
InstrumentBirthFirstSlot(c, h) ==
  /\ KindOf[c] = "INSTRUMENT" /\ Cardinality(instruments) < MaxInstruments
  /\ instruments' = instruments \cup {h}
  /\ slots' = [slots EXCEPT ![1] = h]
  /\ Admit(c, h, 2, None)
  /\ UNCHANGED <<cliever, nClievers, machine>>

(* mdInstrument::validateClient, and the first free slot.                  *)
InstrumentBirth(c, h) ==
  /\ KindOf[c] = "INSTRUMENT" /\ Cardinality(instruments) < MaxInstruments
  /\ instruments' = instruments \cup {h}
  /\ \E i \in Slot :
       /\ slots[i] = None /\ \A j \in 1 .. i - 1 : slots[j] # None
       /\ slots' = [slots EXCEPT ![i] = h]
       /\ Admit(c, h, i + 1, None)
  /\ UNCHANGED <<cliever, nClievers, machine>>

(* Validation fails: the reply goes to the index of the MD itself.         *)
Stillbirth(c) ==
  /\ \/ KindOf[c] = "CD" /\ nClievers >= MaxCliever
     \/ KindOf[c] = "MACHINE" /\ (machine # None \/ cliever = None)
     \/ KindOf[c] = "INSTRUMENT" /\ Cardinality(instruments) >= MaxInstruments
  /\ Push(Newborn(c, None, 0, None))
  /\ UNCHANGED <<registry, cb, sourced, worker, crashed, air, clients>>

(* Mutant: getHandle gives a handle that is in use.                        *)
HeartbeatAnyHandle(c) ==
  /\ ~crashed
  /\ \/ \E h \in Handle : ClieverBirth(c, h) \/ MachineBirth(c, h) \/ InstrumentBirth(c, h)
     \/ MachineBirthCrashes(c)
     \/ Stillbirth(c)

(* A heartbeat is heard; getHandle draws a handle that is not in use.      *)
Heartbeat(c) ==
  /\ ~crashed
  /\ \/ \E h \in Handle :
          /\ ~Alive(h)
          /\ ClieverBirth(c, h) \/ MachineBirth(c, h) \/ InstrumentBirth(c, h)
     \/ MachineBirthCrashes(c)
     \/ Stillbirth(c)

----------------------------------------------------------------------------
(* Queries: a device registers the source of a command, ODE or observable. *)

(* registerCmd and registerData put the name under the one machine, or     *)
(* under the instrument that has the handle.                               *)
DeviceOf(h) == IF allClients[h].kind = "MACHINE" THEN machine ELSE h

Answer(c, h, n, granted) ==
  [what |-> "MDQUERY", to |-> c, idx |-> allClients[h].idx, ok |-> granted,
   handle |-> h, cd |-> None, name |-> n]

(* The telemetry thread of a device connects to the Cliever it was told.   *)
ConnectCD(c) ==
  /\ KindOf[c] # "CD" /\ cdAddress[c] # None /\ c \notin cdConnected
  /\ cdConnected' = cdConnected \cup {c}
  /\ UNCHANGED <<registry, cb, sourced, queue, worker, crashed, air, myHandle, cdAddress, asked>>

(* The device's thread asks for a handle and a connected Cliever first,    *)
(* but not about a command, and waits until it is answered.                *)
MayAsk(c, n) ==
  /\ KindOf[c] # "CD" /\ asked[c] = None
  /\ SubType[n] # "REGSCPI" => myHandle[c] # None /\ c \in cdConnected

(* A query that is lost on its way, or has no handle and is ignored.       *)
QueryInVain(c, n) ==
  /\ MayAsk(c, n)
  /\ asked' = [asked EXCEPT ![c] = n]
  /\ UNCHANGED <<registry, cb, sourced, queue, worker, crashed, air, myHandle, cdAddress,
                 cdConnected>>

(* Mutant: a name that has a source is granted again.                      *)
QueryNoConflict(c, n) ==
  LET h == myHandle[c]
  IN /\ ~crashed /\ MayAsk(c, n) /\ h # None
     /\ allClients[h].kind # "CD"
     /\ asked' = [asked EXCEPT ![c] = n]
     /\ sourced' = IF n \in Known THEN sourced \cup {<<DeviceOf(h), n>>} ELSE sourced
     /\ Push(Answer(c, h, n, n \in Known))
     /\ UNCHANGED <<registry, cb, worker, crashed, air, myHandle, cdAddress, cdConnected>>

(* A query is heard: dispatch, then registerCmd or registerData.  It is    *)
(* refused if the name is not known or has a source.  The handle of a      *)
(* Cliever makes a new, null entry in the map of instruments.              *)
Query(c, n) ==
  LET h == myHandle[c]
      granted == n \in Known /\ <<DeviceOf(h), n>> \notin sourced
  IN /\ ~crashed /\ MayAsk(c, n) /\ h # None
     /\ asked' = [asked EXCEPT ![c] = n]
     /\ IF allClients[h].kind = "CD"
        THEN /\ instruments' = instruments \cup {h}
             /\ crashed' = TRUE
             /\ UNCHANGED <<sourced, queue>>
        ELSE /\ sourced' = IF granted THEN sourced \cup {<<DeviceOf(h), n>>} ELSE sourced
             /\ Push(Answer(c, h, n, granted))
             /\ UNCHANGED <<instruments, crashed>>
     /\ UNCHANGED <<allClients, cliever, nClievers, machine, slots, cb, worker, air,
                    myHandle, cdAddress, cdConnected>>

----------------------------------------------------------------------------
(* The worker: masterDaemon::dispatch of the reply on top, and the pop.    *)

Take(r) ==
  /\ ~crashed /\ inHand = None
  /\ q' = q \ {r}
  /\ inHand' = r /\ step' = "connect"
  /\ UNCHANGED <<registry, cb, sourced, above, stale, overtaken, active, opened, crashed, air,
                 clients>>

(* On top is the entry of a reply that was deleted.  What is there by now  *)
(* is that reply still, or one queued since, ...                           *)
TakeStale(s, r) ==
  /\ ~crashed /\ inHand = None
  /\ q' = q \ {r}
  /\ stale' = (stale \ {s}) \cup ({r} \ {s})
  /\ inHand' = r /\ step' = "connect"
  /\ UNCHANGED <<registry, cb, sourced, above, overtaken, active, opened, crashed, air, clients>>

(* ... or nothing that can be sent; or its memory is freed twice.          *)
FollowStale(s) ==
  /\ ~crashed /\ inHand = None
  /\ \/ stale' = stale \ {s} /\ UNCHANGED crashed
     \/ crashed' = TRUE /\ UNCHANGED stale
  /\ UNCHANGED <<registry, cb, sourced, q, above, overtaken, worker, air, clients>>

(* Mutant: the replies of all queries are dropped.                         *)
RefuseAll ==
  /\ ~crashed /\ step = "connect"
  /\ inHand.what = "MDQUERY"
  /\ step' = "pop"
  /\ UNCHANGED <<registry, cb, sourced, queue, inHand, active, opened, crashed, air, clients>>

(* The reply of a failed query is only logged; the other ones go on, the   *)
(* failed births too (their index, 0, passes for success).                 *)
Refuse ==
  /\ ~crashed /\ step = "connect"
  /\ inHand.what = "MDQUERY" /\ ~inHand.ok
  /\ step' = "pop"
  /\ UNCHANGED <<registry, cb, sourced, queue, inHand, active, opened, crashed, air, clients>>

Connect ==
  /\ ~crashed /\ step = "connect"
  /\ inHand.what = "MDQUERY" => inHand.ok
  /\ IF inHand.idx \in opened
     THEN step' = "send" /\ UNCHANGED <<active, opened>>
     ELSE /\ active' = inHand.to
          /\ opened' = opened \cup {inHand.idx}
          /\ step' = "recheck"
  /\ UNCHANGED <<registry, cb, sourced, queue, inHand, crashed, air, clients>>

(* After a connect the control block is looked at again, and a birth may   *)
(* have renewed it.                                                        *)
Sending == step = "send" \/ (step = "recheck" /\ inHand.idx \in opened)

(* The reply goes out on the socket opened last, and is deleted.  (A       *)
(* refusal changes nothing at the client that hears it.)                   *)
Send ==
  /\ ~crashed /\ step \in {"send", "recheck"}
  /\ air' = IF Sending /\ inHand.ok THEN air \cup {<<active, inHand>>} ELSE air
  /\ step' = "pop"
  /\ UNCHANGED <<registry, cb, sourced, queue, inHand, active, opened, crashed, clients>>

(* The worker drops its entry, which is still on top.                      *)
Pop ==
  /\ ~crashed /\ step = "pop" /\ above = None
  /\ inHand' = None /\ step' = "idle"
  /\ UNCHANGED <<registry, cb, sourced, queue, active, opened, crashed, air, clients>>

(* A reply was queued above it meanwhile: that one is dropped unsent, and  *)
(* the entry of the deleted one stays.                                     *)
PopAnother ==
  /\ ~crashed /\ step = "pop" /\ above # None
  /\ q' = q \ {above} /\ above' = None /\ overtaken' = overtaken + 1
  /\ stale' = stale \cup {inHand}
  /\ inHand' = None /\ step' = "idle"
  /\ UNCHANGED <<registry, cb, sourced, active, opened, crashed, air, clients>>

----------------------------------------------------------------------------
(* What a client makes of a datagram from the MD.  A device that waits for *)
(* an answer takes any answer of the same kind for its own.                *)
Hear(c, r) ==
  /\ IF r.what = "NEWBORN"
     THEN /\ myHandle' = [myHandle EXCEPT ![c] = r.handle]
          /\ cdAddress' = [cdAddress EXCEPT ![c] = r.cd]
          /\ UNCHANGED asked
     ELSE /\ asked[c] # None /\ SubType[asked[c]] = SubType[r.name]
          /\ asked' = [asked EXCEPT ![c] = None]
          /\ UNCHANGED <<myHandle, cdAddress>>
  /\ UNCHANGED <<registry, cb, sourced, queue, worker, crashed, air, cdConnected>>

Worker == \/ \E r \in q : Take(r)
          \/ \E s \in stale : FollowStale(s) \/ \E r \in q \cup {s} : TakeStale(s, r)
          \/ Refuse \/ Connect \/ Send
          \/ Pop \/ PopAnother

Next == \/ \E c \in Client : Heartbeat(c)
        \/ \E c \in Client : ConnectCD(c)
        \/ \E c \in Client, n \in Name : Query(c, n) \/ QueryInVain(c, n)
        \/ \E d \in air : Hear(d[1], d[2])
        \/ Worker

Spec == Init /\ [][Next]_vars

(* The worker is a thread that never blocks; nobody makes a client beat.   *)
FairSpec == Spec /\ WF_vars(Worker)
----------------------------------------------------------------------------
(* The replies the worker was given, and those of them it has yet to send. *)
Pending == q \cup stale \cup (IF inHand = None THEN {} ELSE {inHand})
Unsent  == q \cup (IF step \in {"connect", "recheck", "send"} THEN {inHand} ELSE {})

TypeOK ==
  /\ allClients \in [Handle -> Live \cup {None}]
  /\ cliever \in Client \cup {None, Stray}
  /\ nClievers \in 0 .. MaxCliever
  /\ machine \in Handle \cup {None, Stray}
  /\ instruments \subseteq Handle
  /\ slots \in [Slot -> Handle \cup {None}]
  /\ cb \subseteq Idx /\ opened \subseteq cb
  /\ sourced \subseteq Handle \X Name
  /\ q \subseteq Reply /\ above \in q \cup {None} /\ (inHand = None => above = None)
  /\ stale \subseteq Reply /\ overtaken \in Nat
  /\ inHand \in Reply \cup {None}
  /\ step \in {"idle", "connect", "recheck", "send", "pop"}
  /\ air \subseteq Client \X Reply
  /\ active \in Client \cup {None}
  /\ crashed \in BOOLEAN
  /\ myHandle \in [Client -> Handle \cup {None}]
  /\ cdAddress \in [Client -> Client \cup {None}]
  /\ cdConnected \subseteq Client
  /\ asked \in [Client -> Name \cup {None}]

(* The assertion of the worker, masterDaemon.cpp:30: there is a control    *)
(* block for every reply it is given, also for those of failed births; and *)
(* the socket it sends on is connected to somebody.                        *)
ControlBlockFound ==
  /\ \A r \in Pending : r.idx \in cb
  /\ step \in {"recheck", "send"} => active # None

(* The four places that list the devices agree: an instrument has one slot *)
(* and the index of that slot, and is in the map by handle; the machine is *)
(* the one client of its kind; the count of Clievers is their number.      *)
InstrumentsListed ==
  \A h \in Handle : Alive(h) /\ allClients[h].kind = "INSTRUMENT" =>
    /\ h \in instruments
    /\ \E i \in Slot : slots[i] = h /\ allClients[h].idx = i + 1
SlotsListed ==
  \A i \in Slot : slots[i] # None =>
    Alive(slots[i]) /\ allClients[slots[i]] = [kind |-> "INSTRUMENT", idx |-> i + 1]
MachineListed ==
  \A h \in Handle : machine = h <=> Alive(h) /\ allClients[h].kind = "MACHINE"
ClieversCounted ==
  nClievers = Cardinality({h \in Handle : Alive(h) /\ allClients[h].kind = "CD"})

RegistryAgrees == /\ InstrumentsListed /\ SlotsListed
                  /\ MachineListed /\ ClieversCounted

(* No two devices share an index, and so a control block; only Clievers    *)
(* do, every one of them at index 1.                                       *)
IndexIsOwn ==
  \A g, h \in Handle :
    g # h /\ Alive(g) /\ Alive(h) /\ allClients[g].idx = allClients[h].idx
      => allClients[g].kind = "CD" /\ allClients[h].kind = "CD"

(* Wherever the replies go, late and more than once too, two clients never *)
(* have the same handle, unless a push has overtaken the worker: then one  *)
(* reply of a birth may be sent twice, to two clients.                     *)
HandleIsOwn ==
  overtaken = 0 =>
    \A c, d \in Client : c # d /\ myHandle[c] # None => myHandle[c] # myHandle[d]

(* A name gets a source once: a granted registration is never granted      *)
(* again, and no source is ever taken away.                                *)
SourceStep ==
  /\ sourced \subseteq sourced'
  /\ \A r \in q' \ q : r.what = "MDQUERY" /\ r.ok =>
       <<DeviceOf(r.handle), r.name>> \in sourced' \ sourced
SourceIsForGood == [][SourceStep]_vars

(* The MD implements Installation: a birth, a handle received and a source *)
(* granted are steps of it, a reply dropped unsent ends its promise about  *)
(* handles, and everything else the threads do changes nothing it speaks   *)
(* of.                                                                     *)
Promise == INSTANCE Installation
             WITH live <- allClients, holds <- myHandle, source <- sourced,
                  loose <- overtaken > 0

KeepsPromise == Promise!Spec

(* Every registration the MD grants is sent to somebody, or dropped by a   *)
(* pop that a push has overtaken, provided replies stop being queued at    *)
(* some time: the worker takes them in no particular order, and more of    *)
(* them may always pass one by.                                            *)
RepliesEnd == <>[][q' \subseteq q]_vars

Dropping == step = "pop" /\ above # None

AnswerTo(r, c, n) == r.what = "MDQUERY" /\ r.ok /\ r.to = c /\ r.name = n

GrantsSent ==
  RepliesEnd => \A c \in Client, n \in Known :
    (\E r \in Unsent : AnswerTo(r, c, n))
      ~> (\/ crashed
          \/ Sending /\ AnswerTo(inHand, c, n)
          \/ Dropping /\ AnswerTo(above, c, n))

----------------------------------------------------------------------------
(* deviceDaemon.cpp:55: "Got response to query re: '%s' from MD": a device *)
(* that takes an answer for its own is the source of the name it asked     *)
(* about.                                                                  *)
ToldTheTruth ==
  [][\A c \in Client : asked[c] # None /\ asked'[c] = None
       => <<myHandle[c], asked[c]>> \in sourced]_vars
============================================================================
