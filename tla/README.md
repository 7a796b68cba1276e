# TLA+ models of DACLIPS (OpenAUC Master Daemon and its clients)

DACLIPS is the data acquisition and control layer of an analytical
ultracentrifuge: a **Master Daemon** (MD) that knows every client of an
installation and every datum they exchange, **Clievers** (client-servers,
`auc-cd`) that receive telemetry, **devices** (one machine, several instruments)
that link the device daemon and its API, a **commander**, and data clients that
talk XML-RPC. The daemons share a small in-process event bus, a work queue and a
datagram channel. The rule engine CLIPS is vendored.

All paths below are relative to `src/src/`. The modules were written from the
code; where a comment or a log message says something else, the module follows
the code and the difference is told here.

## 1. Inventory

| Component | State | Operations | What is hard | What makes it correct |
|---|---|---|---|---|
| Event bus: `include/EventSender.h`, `Listener.h`, `server/EventSender2.cpp`, `Listener.cpp` | registry and two queues per event type, `_isBusySending`; three flags per listener | send, add, remove, `ignoreThisEvent`, listen/ignore | handlers that send, register or throw inside a send; two ways out of it | assertions hold, queues do not outlive their send, flags say who is registered |
| Work queue: `include/mdcommon.h:229-254`, `mdWQ`, `dvWQ` | a priority queue of pointers | queue, top, dispatch, pop | two threads, no lock; the order is that of pointers | every item dispatched once |
| Master Daemon: `server/masterDaemon.cpp`, `mdDevice.cpp` | `allClients`, Clievers, the machine, instruments twice (by handle, by slot), control blocks | heartbeats, births, queries, replies, back channels | two threads and one socket pointer for all clients; repeated heartbeats; limits; arrays never written | the lists agree, indices and handles have one owner, replies reach who asked |
| Data model: `server/mdState.cpp`, `mdObservable.cpp`, `mdBehavior.cpp` | observables, ODEs and commands by name | registerData, registerCmd, create, get, set | two registrations of a name; changed by the XML-RPC thread and the datagram thread | one source per name, for good |
| XML-RPC interface: `include/coreapi.h` | none of its own (`registerDevice` ends in stubs that do nothing) | create, get, set, getCommandList, command | its own threads, no lock on the maps | a create that was answered OK is seen by the registrations that follow |
| Datagram channel: `include/mdcommon.h:340-553` | passive socket, the socket opened last, the last datagram | connect_to, send, receive | a reply goes out on the socket opened last | see Master Daemon |
| Device daemon and API: `client/deviceDaemon.cpp`, `md_device.cpp` | its handle, three dialogs (call, response), mutex, condition variables, names registered | startup, heartbeat, register a command, ODE or observable, telemetry | startup handshake; a wait with no predicate; an answer kept as a pointer to a dead event; two threads on one `io_service` | it starts; a call takes its own answer |
| Cliever: `client/clientDaemon.cpp`, `auc-cd.cpp` | its handle, `alive`, `shuttingDown`, two timers | startup, heartbeat, telemetry timer, terminate | a constructor that sets nothing; bounded spins at startup; lost answers; joins after an `io_service` nobody stops | it starts, is born, falls silent when told to |
| Commander: `client/commander.cpp` | none | commands typed by the operator | - | - |
| Telemetry frame: `include/telemetry.h` | a buffer with cursors | pack, unpack | cursor arithmetic | what is packed is unpacked |

The bus connects the parts of one process: a channel's receive makes an event and
`send`s it, the daemon's `processEvent` runs inside that send, and what must be
sent out is put in the work queue. The processes exchange datagrams: a client
beats until it is told its handle (birth); a device then asks to be the source of
names (query); the MD answers both on a back channel it opens to the client.

## 2. Modules

| Module | Models | Proofs |
|---|---|---|
| `Subscription` | what the bus promises: who is handed an event | - |
| `EventBus` | senders and listeners of all event types in one process; implements `Subscription` | `EventBusProofs` |
| `WorkQueue` | the queue, its producers and its worker, step by step | `WorkQueueProofs` |
| `Installation` | what the MD promises: births, handles, sources, without threads | - |
| `MasterDaemon` | the MD's two threads, its registry and the clients' ends of the dialog; implements `Installation` | `MasterDaemonProofs`, `MasterPromiseProofs` |
| `Elements` | what the data model promises: elements, types, sources, without threads or maps | - |
| `MdData` | the data model in the threads of the XML-RPC server and the background thread; implements `Elements` | `MdDataProofs` |
| `Device` | a device daemon's startup and the API calls of its application | `DeviceProofs` |
| `Streams` | a started device's heartbeats, frames and datagrams in two threads | `StreamsProofs` |
| `Cliever` | the threads of a Cliever from `new` to the terminate signal | `ClieverProofs` |

The `MC` modules give TLC the values. In each module the mutants
(`(* Mutant: ... *)`) are wrong versions of the
definition after them, with which the runs were shown to fail; no specification
uses them. `PROJECT.json` maps each definition to its lines.

### EventBus

One variable per member of `EventSender` and `Listener`, indexed by event type or
listener; the C++ call stack is `stack` (the sends in progress), `toCall` (what
the iterator has not reached) and `calling` (the handler each send is inside). A
handler can do anything a handler's code can call; `thrown` is the exception in
flight and `Rethrow`, `Swallow`, `Escape` the catch clauses of `sendEvent`. The
registry is a set: the order of the calls is open. An assertion that fails sets
`aborted`. Left out: the sender's destructor, which runs at exit, and client code
that calls `processEventPublic` itself.

`Promise == INSTANCE Subscription` takes the flags `_registered` as the abstract
registrations and `_isBusySending` as the sends in progress; the registry, both
queues, the call stack, the exceptions and the assertions are hidden. So
`KeepsPromise` says what the queues are for: an event is handed once to each
listener whose flag was set when its send began, whatever the handlers do to the
registry meanwhile, and only the `IllegalSendError` of its own type ends a send
early.

### WorkQueue

`q` counts the entries at each heap address, because `MDWQ` orders `mdWQitem*` by
pointer (the comparison of priorities at `mdcommon.h:233-241` is a member of the
item and never used). `Take`, `Dispatch`, `BeginPop` and `EndPop` are the
worker's steps; `Queue` may come between any two. `std::priority_queue` calls are
atomic except `pop`, whose two halves (move the top to the end, drop the end)
`QueueInPop` comes between, with each outcome of the two unsynchronized updates
as a choice. A push that moves the vector to another place in memory while the
worker reads it is not represented. Addresses are reused after `delete`.

### MasterDaemon

`Heartbeat` is the whole of `dispatch`, `mdClientBirth`, `newFromHeartbeat` and
`validateClient` on the background thread; `Query` the whole of `dispatch` and
`registerCmd` or `registerData`; both end in `Push`, which queues the reply.
`Memory` is what the never initialized arrays `cliever` and `machine` may hold
when `theMachine` (index -1) and `cliever[0]` are first read: a machine whose
birth meets a stray `cliever[0]` may end the MD (`MachineBirthCrashes`).

The worker (`masterDaemon.cpp:294-303`) is cut where the other thread can come
between. `Take` reads the top; `Refuse`, `Connect` and `Send` are its `dispatch`: it
looks at the control block, connects, looks at it again, and the reply goes out on
`active`, the socket opened last (`mdDGChannel::active_`). Then it drops what
is on top by now: its own entry (`Pop`), or one that was queued above it meanwhile
(`above`, `PopAnother`). In the second case that one is lost unsent and the entry of
the deleted reply is left (`stale`), to be followed in a later round: the memory
may hold the old reply still, or one queued since (`TakeStale`), or nothing to
send, or be freed twice (`FollowStale`). `overtaken` counts the times this happened.

`air` holds the replies sent and where each went. `Hear` may come late, more than
once, or never.

Simplifications: a query is heard at once or not at all; a heartbeat too, except
that one sent before the client had its handle may be heard afterwards, any number
of times; the queue gives the replies in any order, and what a push does in the
middle of `pop` is left to `WorkQueue`; one application thread per device; only
Cliever group 0, the only one version 1 accepts; `connect_to` always opens a
socket. Births of data clients are absent because no client sends such a heartbeat,
and nothing ever leaves the registry because the code has no removal. `CDRESET` is
absent: the commander's datagram has client type 0, and `masterDaemon.cpp:249`
drops it before it is dispatched.

`Promise == INSTANCE Installation` takes as the abstract state what the concrete
one holds: `allClients` is `live`, `myHandle` is `holds`, `sourced` is `source`,
and `overtaken > 0` is `loose`. Lists, slots, control blocks, replies and sockets
are hidden. `KeepsPromise` says that no interleaving of them gives a client too
many, an index or a handle of somebody else, or a name a second source. A birth
reply that is sent twice can go to two clients, because it goes to the socket
opened last each time: so nothing is promised of who holds a handle once the worker
was overtaken. The rest of the promise stands even then. Where an answer
goes is no part of it at all (finding 2).

### MdData

`create` is cut where another thread can come between: `Look` (`find`), `Insert`
(`operator[]` looks again), `Link` (the node is put in the tree) and `SetType`.
`RegisterLook` and `RegisterGrab` are `registerData`'s `find` and its second look
with the flag, `BeginBirth` and `EndBirth` the linking of a new device. A
`std::map` that another thread is in during `Link` is **raced**: from then on
either answer of a look-up, and a crash, are possible, and the module no longer
follows the content. The properties speak of the devices that are not raced
(`Calm`): the model separates what is wrong only with a data race from what would
be wrong with every map operation atomic. `CreateObservable` answers OK and adds
nothing, as the code does. A handle that is not born, or whose entry is being
linked, crashes the call (`Crash`).

`Promise == INSTANCE Elements` shows the devices that are not raced; when one is
raced it is spoiled and nothing is seen of it any more. An element is seen once its
node is linked, its type once `SetType` has run; the threads and where they are in a
call are hidden. The names that two threads looked up and found absent are
contested. The observables that were answered OK and not added are not elements.

### Device

`fg` and `bg` are the program counters of `runEmbedded` and `runDataLayer`;
setting the flag, notifying, testing and entering the wait are steps of their own.
`made` is how much of `thisDevice` there is: an exception in the initialization is
logged and the flag set all the same (`InitFails`, `deviceDaemon.cpp:222-228`).
The data layer then opens its port, or ends because it is taken (`OpenChannel`,
`:248` and `:264`), and starts its threads through `thisDevice` and `mdDDAPI`
(`StartThreads`, `:250-253`); the application sets `mdDDAPI` after it has started
the two main threads (`SetSingleton`, `dvdriver.cpp:123` and `:165`), and nothing orders
the two.

`pc`, `ask` and `lock` are the application's threads in `mdRegister...`; the
condition variable of a kind wakes any of the threads that wait for it, and
`response` is the pointer of that kind's dialog. `Overwrite` is the end of the
event that pointer points to. The worker (`dvWQ`, `:333`) sends what is in its
`hand` and drops what is on top afterwards: its own entry (`Pop`), or a query or frame
queued above it meanwhile (`PopAnother`, `fresh`). Then a query's entry stays and is
dispatched again, from the stack of a call that may be over; a frame's entry points to
a deleted item (`stale`, `DispatchStale`). The order by address and what a push
does in the middle of `pop` are left to `WorkQueue`. What the MD does is reduced to what
`MasterDaemon` shows of it: it grants a name once and sends no other answers.

`crashed` means that a thread has followed a null pointer or freed memory twice; the
handler of `SIGSEGV` returns to the same instruction, so the thread gets no
further, and the model follows the process no further either. `odd` records the
events nobody counted on, so that properties can be claimed of the behaviours
without them: a spurious wakeup, a stray answer (a repeated one or another
device's), an answer whose memory was `overwritten`, two threads that `shared` a
dialog, a `failed` initialization, an application `late` to set `mdDDAPI`, a worker
that was `overtaken`.

### Streams

The device of `Device` once both threads run `io_`. Each handler goes through
the `EventSender` of its kind in the steps of `EventSender.cpp` (the version the
clients include): `Test` (an `IllegalSendError` if busy), `Set` (asserted not busy),
`Process` (asserts busy), `Leave`, `Clean` (asserts not busy, and the channel receives
again). An exception ends the data layer's loop (`gone`, caught at
`deviceDaemon.cpp:264`) and the process when it leaves the foreground's, which has
no `try`; an assertion ends the process. `died` names what did it:

- a `sender`, by its exception or an assertion;
- `memory`, broken by two threads: a map inserted into while a frame is packed,
  the query two connects delete, or the string `cdAddress` that `trCallback` reads
  (`:311-315`) while a datagram assigns it on the other thread (`:78`);
- an `address` that is none: `from_string` throws before the `try` of
  `connect_to` (`mdcommon.h:362`), out of the timer's handler;
- the `worker`, which has no `try` around `send_to` (`:333`) and shares its queue
  without a lock (`WorkerFails`, at any time).

`overlapped` records whether two handlers of one kind have overlapped (`kind`) and
whether one thread wrote data another was using (`data`). What a frame contains is
left out. `Enter` is Boost's hand-out of ready handlers. A heartbeat before
`alive` is set, seconds before the first timer fires, is not distinguished.

### Cliever

`fg`, `bg`, `pulse` and `stream` are the program counters of `runCliever`,
`runDataLayer` and the two threads it starts; `Beat`, `Frame` and `Hear` are the handlers `io_bg`
runs. The constructor in use (`clientDaemon.h:73`) sets only `cfg`, so `Construct`
chooses `alive`, `shuttingDown` and `myHandle`. `SpinExists` and `SpinAlive` may
end without their condition, because their turns are counted. A thread that
follows a bad pointer stays where it is (`fault`), because the handler of `SIGSEGV`
returns to the faulting instruction. `odd` names the three things the code does
not count on: `stray` (memory that looks alive), `failed` (an exception in the
initialization, which is logged) and `hurried` (a spin that ran out). The MD is `Answer`:
each heartbeat it hears takes one more of its places (`given`), whether its answer
arrives or not (`mdDevice.cpp:85-88`), and it refuses when none is left; other
Clievers take places too (`Occupy`). `Handle` stands for these places. The network may
`Lose` a heartbeat or an answer, and `Hear` an answer again. `asking` is one
heartbeat, however many are on their way. `Owed` counts what the process is still to
send: the armed waits of both timers and the threads that are about to arm one.
`OwesNoMore` says that once `shuttingDown` is set it stays set and this count only
falls.

## 3. Runs

| Run | Instance | Shows |
|---|---|---|
| `bus` | 2 event types, 2 listeners of one and 1 of the other | the invariants of the bus and the count of those who ignore an event; no step changes a registry that is walked; `Subscription` is implemented; every send ends |
| `queue` | 3 addresses, the item kinds of a device | no item is lost or repeated unless a push overtakes the worker; the highest is served |
| `queue_lost` | 3 addresses, the kinds of the MD | **violation**: `EverythingQueuedIsDispatched` |
| `master` | Cliever, machine, instrument, 3 handles, a command and `_device`, any initial memory, 2 replies queued, nothing overtaken | types, control blocks, agreeing lists, own handles; a name gets a source once; `Installation` is implemented, whatever is heard late, again or never |
| `master_live` | Cliever and machine, 2 handles, a known command and an unknown one, the worker overtaken once | once no more replies are queued, every registration granted is sent or dropped by the overtaken pop; `Installation` is implemented but for the holders of handles |
| `master_told` | Cliever, machine, instrument, as in `master` | **violation**: `ToldTheTruth` |
| `device` | 2 threads, 2 observables and 1 ODE | a call takes its own answer; null is followed only after one of four odd events; no call ends before its query was sent unless something odd happened; a wait begun in time ends |
| `device_startup` | 1 thread | **violation**: `DataLayerStarts` |
| `data` | 3 callers, 1 device, 2 ODEs, 2 observables, 2 types | what was created has an answered type; two creators only if they overlapped; a source is granted once; `Elements` is implemented |
| `cliever` | 2 handles, 2 waits per timer | no heartbeat is unheard; faults have one of three causes; a Cliever gets a handle unless the MD has no place left; a shutdown quiets it, and nothing is armed anew after it |
| `cliever_stop` | same | **violation**: `TerminateEnds` |
| `streams` | 2 threads, 2 channels, 1 ready wait per timer | senders and broken memory end the process only after an overlap; no flag stays set; one channel at most falls deaf; heartbeats and frames go on |

**Bounds.** *Bus*: recursion needs a send in a send of the other type, removal
during a send needs two listeners of one type; a third listener or type adds no
new pair, and the proofs cover any number. *Queue*: an item in hand, one above it
and one below; `MaxEntries = 2` lets an address be queued anew while a stale
entry of it is there. *Master*: one client of each kind meets every branch of the
births and queries; a repeated heartbeat is a second Cliever or instrument, which
fills both slots of `MaxInstruments = 2`, and a third meets the limit;
`MaxCliever = 4` (10 in the code) keeps the one relation the code needs,
`MaxCliever > MaxInstruments + 1`. `Handle` bounds the births: a handle is never
given back, so three of them stop a fourth birth. The names of `master` are a
command and the ODE every device has, those of `master_live` a known command and
an unknown one: a refusal and a grant of either kind. `MaxQueued = 2` lets
two replies wait while a third is in hand; `MaxOvertaken` is how often a
push may come between the worker's dispatch and its pop. It is 0 in `master`, whose
claims about handles end there, and 1 in `master_live`, where one stale entry is enough
to drop, repeat and free a reply twice; the proofs hold for any number.
*Device*: two threads can share a dialog,
three names give them the same kind or two kinds; `MaxOdd = 1` lets one kind of
odd event happen, any number of times; the proofs hold for any `MaxOdd`. *Data*:
three callers, so that two overlap with a third creating later; devices have maps of
their own and meet nowhere. *Cliever*: a refusal and two handles may be on their
way at once; two waits of a timer can be pending after the flag is set. *Streams*: a
second channel shows that only one falls deaf; two waits of a timer can be handled at once although
`MaxReady = 1`, because the wait a thread has taken is no longer ready. As in the sample driver, a
name is not registered again once it is. Handles are symmetric where a run
checks no liveness.

**Deadlock** is checked for the bus. In the other runs it is not: the handles or
names are used up, a worker has nothing to do, a device waits for an answer that
was lost, a Cliever has ended, or a process or an XML-RPC call has crashed; the
real processes sit idle or are gone in those states too.

**Fairness.** *Bus*: sends run to their end because each handler is ordinary
code that returns or throws (strong fairness of its return, as it may call the
bus any number of times first) and the loop goes on (weak fairness). *Queue* and
*MasterDaemon*: weak fairness of the worker, a thread that spins and never blocks.
The queue's liveness is claimed for the highest address only: one below can be
passed over for ever. `GrantsSent` further assumes `RepliesEnd`, that at some time no
more replies are queued, because newer ones can pass a reply by for ever; and it
allows a reply to be dropped by a pop that was overtaken, as finding 1 says.
*Device*: weak fairness of the two main threads; nothing is assumed of the application, the network or wakeups.
*Cliever*: weak fairness of its threads and handlers; for `Born`, strong fairness of
the MD answering something (`FairNet`), a grant while it has a place and a refusal
after. Nothing is assumed of the network: `Lose` remains possible for ever, and a
Cliever whose answers are lost beats until the MD has no place left, which is why
`Born` ends there.
*Streams*: weak fairness of a thread inside a handler; strong fairness of taking a
ready timer, because Boost queues ready handlers in order and datagrams cannot
overtake it for ever.

## 4. Findings

1. `masterDaemon.cpp:298` - `pop` after `dispatch` removes what is on top by
   then: a reply queued meanwhile is dropped and the deleted one dispatched
   again (`queue_lost`).
2. `masterDaemon.cpp:42` - replies leave on the socket opened last: a device
   can be told it registered what it is not the source of (`master_told`), and a
   client can take a handle made for one of another kind. The handle is still its
   own as long as no push overtakes the worker (`HandleIsOwn`); after finding 1 one
   reply can be sent twice, to two clients.
3. `deviceDaemon.cpp:228` - the flag is set and notified outside the mutex under
   which it is tested: the data layer can wait for ever (`device_startup`).
4. `clientDaemon.cpp:178` - nothing stops the `io_service` a terminated Cliever
   waits for: it falls silent and does not end (`cliever_stop`).

Seen while reading; no run is spent on them:

- `EventSender2.cpp:81`: an `IllegalSendError` caused through a second event type
  is caught by that type's send as a handler's own exception; the sender that
  recursed is never told (`Swallow` in `EventBus`).
- `masterDaemon.cpp:45`: the reply of a refused query is logged and dropped; the
  device waits for ever (`Refuse` in `MasterDaemon`).
- `mdObservable.cpp:10-32`: `create` of an observable answers OK and inserts
  nothing, against `coreapi.h:108` ("create the element"); a registration of the
  name is refused (`CreateObservable` in `MdData`).
- `deviceDaemon.cpp:142`: a frame is queued by the address of an event on the
  stack of `trCallback`, which returns before anything waits for the worker.
- `md_device.cpp:121` and `153` copy from the address of the pointer, not from
  what it points to; `md_device.cpp:148` indexes an array of 80 without a limit.
- `telemetry.h:34`: `*nNames++` moves the pointer and leaves the count at 0, and all
  names are written to one place; nothing reads a frame.
- `clientDaemon.cpp:112` and `deviceDaemon.cpp:181` wait on a timer whose expiry is
  never renewed: after the first, each wait is ready at once, and it is the sleep that paces
  the loop.
- `auc-cd.cpp:167` waits for `gm->graceful`, which nothing sets.
- `Listener.h:38-43` says a removed listener hears no more; the send in progress
  (`EventSender2.cpp:66`) still calls it.
- `mdcommon.h:233-241` orders items by priority; `MDWQ` orders pointers.
- `mdcommon.h:283` puts the machine at index `MAX_CLIEVER + 1`; `mdDevice.cpp:118`
  and `193` put it at `MAX_CLIEVER`. `IndexIsOwn` holds all the same, because
  `MAX_CLIEVER` exceeds `MAX_INSTRUMENTS + 1`.
- `masterDaemon.cpp:86` looks an instrument up with `[]`: a query under a
  Cliever's handle makes a null entry and follows it (`crashed` in
  `MasterDaemon`). It takes a handle of the wrong kind, finding 2.
- `masterDaemonConfig.cpp:6` leaves `cliever` and `machine` unwritten, and
  `mdDevice.cpp:110-116` reads them: a machine can be born with no Cliever, or
  not be born at all, or a stray pointer is followed at `:116`
  (`MachineBirthCrashes`).
- `mdDevice.cpp:85-88` takes a place for every heartbeat without a handle and none is
  ever given back: a Cliever whose answers are lost uses up the places of all, and is then
  refused for ever (`Answer` in `Cliever`).
- `mdcommon.h:362` parses the address before the `try`: what is no address, or a string
  another thread is assigning, throws out of `connect_to` and of the timer's handler
  (`Connect` in `Streams`).
- `deviceDaemon.cpp:222` logs a failed initialization and goes on; the flag is set and the
  data layer follows what was not made (`InitFails` in `Device`).
- `deviceDaemon.cpp:253` follows `mdDDAPI`, which is null until `setSingleton`
  (`md_device.cpp:171`), and the sample driver calls it after it has started the
  threads (`dvdriver.cpp:123`, `:165`) (`StartThreads` in `Device`).
- `deviceDaemon.cpp:333` pops what is on top after it has sent, as finding 1 has it
  of the MD: a query or frame is lost, or a query sent again when its call is over
  (`PopAnother` in `Device`).
- The limits at `mdDevice.cpp:73-99`: the search for a free Cliever never starts,
  so each takes place 0 and the address of the one before is lost.

## 5. Proofs

TLAPS checks every theorem for all values of the constants under the module's one
assumption (`BusAssumption`, `WorkAssumption`, `MasterAssumption`,
`DataAssumption`, `DeviceAssumption`, `StreamAssumption`, `ClieverAssumption`):
constants are of the right shape, the special values are not
among the others, and `MaxCliever > MaxInstruments + 1`. The bounds of the runs
(`MaxEntries`, `MaxQueued`, `MaxOvertaken`, `MaxOdd`, `MaxWaits`, `MaxReady`, the size of
`Handle`) are arbitrary in them.

- **EventBus**: `TypeOK`, `AssertionsHold`, `HoldPromise`,
  `RegisteredTellsTheTruth`, `RegistryFrozenWhileSending`. The invariant adds that
  the sends in progress are distinct types and exactly the busy ones, that a
  listener is in one queue at most and in the removal queue only if it is in the
  registry, and that a listener is called only by a send of its own type. With it,
  `IgnoredIsExact`: the listener inside a handler is one the loop has reached
  (`CallingIsReached`), so `ignoreThisEvent` adds a listener to the set that is
  counted, and the end of a send leaves the counts of the others alone.
- **EventBus implements Subscription**: `BusKeepsPromise`. Beyond the invariant it
  needs `HandlersNest`: every send but the innermost is inside a handler, and an
  exception in flight was thrown by one, so that the way out by `Rethrow` is a
  failing handler of the promise. A flag is true of the registry when no send of
  the type is under way, which is when a send takes its listeners from it.
- **WorkQueue**: `TypeOK`, `ExactlyOnce`, `EntriesAreItems`. The invariant says
  what each step of the round knows as long as nothing has overtaken it: the item
  in hand is the highest entry and has one entry more than its memory accounts
  for, until the pop. Whatever overtook it, what it pops is there.
- **MasterDaemon**: `TypeOK`, `ControlBlockFound`, `RegistryAgrees`, `IndexIsOwn`,
  `HandleIsOwn`, `SourceIsForGood`. The invariant has named conjuncts: among them that
  the index of every reply, deleted ones included (`Blocks`), has a control block;
  that every handle in a reply or at a client is alive (`HandlesLive`); that a client has its
  handle from a reply that was sent to it (`Heard`); that slots and map list the same
  instruments. `OnePlace` holds as long as nothing was overtaken: there is one birth
  reply unsent for a handle at most, and none once one was sent, and all that were
  sent went to one client. With `Heard` that makes a handle own, wherever replies
  go and however late and often they are heard; after an overtaken pop a deleted reply is
  sent a second time, and `OnePlace` is lost. That handles are never given back is
  what makes a source final. `MasterTelemetryToClievers`: whatever the
  unwritten array of Clievers held, and whichever reply a client heard, the address it
  sends frames to is a Cliever's, because a `Stray` entry is never handed out.
- **Device**: `TypeOK`, `CrashExplained`, `RegisteredAreGranted`, `QueriesAlive`. As
  long as nothing odd has happened, a name sent and not granted is still asked for by a
  call whose query has left the queue; so the thread an answer wakes - the only one that
  waits for its kind - is the one that asked for that name. A data layer
  past its wait finds `thisDevice` whole unless the wait was spurious or the initialization
  failed, and an entry is `stale` only after the worker was overtaken.
- **MasterDaemon implements Installation**: `MasterKeepsPromise`. From the
  invariant, a birth takes a handle nobody has and an index of its own below the
  limits; a handle heard, again or for the first time, is held by nobody else unless
  `loose`; a grant is the first of its name; `PopAnother` is `Loosen`; the worker's
  other steps stutter. `MasterOrderly` is then proved from `Installation` alone:
  whatever keeps that promise keeps the limits, gives each device one index and, until
  it is `loose`, each handle one holder, and its sources are devices born.
- **MdData**: `TypeOK`, `CreatedAreThere`, `TypeWasAnswered`, `SourcedAreThere`,
  `GrantedOnce`, `OneCreator`. The invariant says of each thread what it knows
  in the middle of a call, as long as its map is not raced: after `Insert` or
  `Link` the name is there or absent, and a thread between its look-up and its
  insertion of a name another has completed is in `dup`.
- **MdData implements Elements**: `DataKeepsPromise`. `BornWithPre` adds that the
  element of birth is there and nobody is creating it. Then `Link` adds an absent
  name, `SetType` answers it, the second look of `registerData` grants it, a first
  look that finds a name absent as another did contests it, and any step that races a map spoils
  its device. `DataTrustworthy` follows from `Elements` alone: what was answered or granted is
  there, and an uncontested element has the type of its one answer.
- **Streams**: `TypeOK`, `DiesOfOverlap`, `BusyIsInside`, `OneDeaf`. As long as no kind
  has overlapped, a flag is set exactly while one thread is between `Set` and
  `Leave` of that kind; in general a set flag has a thread that will clear it.
  `DiesOfOverlap` says that a sender ends the process only after an overlap of one kind, and
  broken memory only after two threads met in a handler or in data. A bad address and the
  worker need no overlap, and `died` tells them apart.
- **Cliever**: `TypeOK`, `BeatIsHeard`, `FaultsExplained`. The invariant orders what
  the foreground makes (channel after listeners after the object) and says that
  the heartbeat thread has connected, hence found the channel, before any wait is
  armed: the chain that makes a stray `alive` harmless. `OwesNoMore` is an action
  property: with the flag set a thread that is not about to arm a wait goes on to its
  end, and a handler only uses up a wait.

`HoldPromise`, `IndexIsOwn`, `CreatedAreThere` and `SourcedAreThere` are proved and have no run
of their own: the promises, which TLC checks, imply what a user of the component
sees of them. `TelemetryToClievers`, `Orderly` and `Trustworthy` are proved only.

Only model-checked: liveness (`EverySendEnds`, `HighestServed`, `GrantsSent`,
`WaitingStarts`, `Born`, `ShutdownQuiets`, `StreamsGoOn`), which is beyond the
prover's reach, and the four properties that are violated, which are false. In each proof
module the inductive invariant was checked with TLC before it was proved.

## 6. Not modelled

- **The startup of the MD** (`masterDaemon.cpp:226`): in the first second a heartbeat can
  meet `deviceFactory`, `cb[0]` or `thisService` unset and follow a null pointer.
  `MasterDaemon` starts when they are there.
- **The content of frames** and `telemetry.h`: sequential arithmetic whose result
  nothing reads.
- **`get`, `set` and the command look-ups** of the data model: they change values, not
  names or sources.
- **The composition of `WorkQueue` with the daemons**: both workers, of `MasterDaemon` and
  of `Device`, have the race of top, dispatch and pop themselves. What only `WorkQueue` has is
  the order by address and the two threads inside one `pop` and `push`; the products are
  too large for TLC.
- **Births of data clients, `CDRESET`, `registerDevice`, a device's shutdown**: no code
  reaches them, or they end in stubs.
- **`lxi-control`, the loggers, option parsing and daemonizing, the commander's
  command line, the sample clients**: no state of the protocols.
- **The vendored CLIPS core and its bindings**: other projects' code, by far
  most lines of the repository.

Next would be the MD's startup joined to `MasterDaemon`'s `Init`, and an abstract
specification of what the API promises an application - a call returns with its own answer -
that `Device` implements as long as no event of `odd` has happened.
