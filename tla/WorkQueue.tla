----------------------------- MODULE WorkQueue -----------------------------
(***************************************************************************)
(* The work queue of a daemon (mdcommon.h): any thread queues an item, the *)
(* worker thread takes the top, dispatches it and then pops.  No lock is   *)
(* held, so a push may fall between any two steps of the worker.  The      *)
(* queue holds pointers and orders them by address: q counts the entries   *)
(* at each address of the heap.                                            *)
(*                                                                         *)
(* Calls of std::priority_queue other than pop are atomic here, which is   *)
(* more than the code ensures.  A pop moves the top behind the others and  *)
(* then drops the last entry; a push that falls between the two may lose   *)
(* its own entry, undo the drop, both or neither.                          *)
(***************************************************************************)
EXTENDS Integers

CONSTANTS Addr,    \* the heap addresses of mdWQitems, in pointer order
          Kind,    \* the md_dispatch_category of an item, in enum order
          Freed,   \* the kinds whose dispatch deletes the item
          MaxEntries,  \* bound: entries of one address in the queue at a time
          Free,    \* the address holds no item
          Done     \* the item was dispatched and never deleted

ASSUME WorkAssumption == /\ Addr \subseteq Nat
                         /\ Kind \subseteq Nat
                         /\ Freed \subseteq Kind
                         /\ Free # Done
                         /\ Free \notin Kind /\ Done \notin Kind

None == -1

VARIABLES q,         \* mdProcess::q
          item,      \* what the heap holds at each address
          halt,      \* masterDaemonConfig::halt
          pc,        \* where the worker is in its loop
          next,      \* the item the worker took
          victim,    \* the entry pop moved behind the others
          drops,     \* whether the pop in progress will drop it
          overtaken, \* history: how pushes came between a take and the end of its pop
          faults     \* history: what went wrong with an item

vars == <<q, item, halt, pc, next, victim, drops, overtaken, faults>>

Init ==
  /\ q = [a \in Addr |-> 0]
  /\ item = [a \in Addr |-> Free]
  /\ halt = FALSE
  /\ pc = "look"
  /\ next = None
  /\ victim = None
  /\ drops = FALSE
  /\ overtaken = {}
  /\ faults = {}

----------------------------------------------------------------------------
(* An item that was queued and not yet dispatched.                         *)
Waiting(a) == item[a] \in Kind

(* Mutant: the queue is ordered the other way round.                       *)
LowestTop(a) == q[a] > 0 /\ \A b \in Addr : q[b] > 0 => a <= b

(* q.top(): the highest address.                                           *)
Top(a) == q[a] > 0 /\ \A b \in Addr : q[b] > 0 => b <= a

(* Mutant: an item is queued twice.                                        *)
QueueTwice(a, k) ==
  /\ pc # "popping" /\ item[a] = Free /\ q[a] < MaxEntries
  /\ item' = [item EXCEPT ![a] = k]
  /\ q' = [q EXCEPT ![a] = @ + 2]
  /\ overtaken' = IF pc # "look" /\ a > next
                  THEN overtaken \cup {"byAddress"} ELSE overtaken
  /\ UNCHANGED <<halt, pc, next, victim, drops, faults>>

(* mdProcess::queue of a new item: the allocator chooses the address.      *)
Queue(a, k) ==
  /\ pc # "popping" /\ item[a] = Free /\ q[a] < MaxEntries
  /\ item' = [item EXCEPT ![a] = k]
  /\ q' = [q EXCEPT ![a] = @ + 1]
  /\ overtaken' = IF pc # "look" /\ a > next
                  THEN overtaken \cup {"byAddress"} ELSE overtaken
  /\ UNCHANGED <<halt, pc, next, victim, drops, faults>>

(* The same while the worker is inside pop: the two threads update the end *)
(* of the same vector.                                                     *)
QueueInPop(a, k) ==
  /\ pc = "popping" /\ item[a] = Free /\ q[a] < MaxEntries
  /\ item' = [item EXCEPT ![a] = k]
  /\ \/ q' = [q EXCEPT ![a] = @ + 1] /\ UNCHANGED faults
     \/ faults' = faults \cup {"lost"} /\ UNCHANGED q
  /\ drops' \in {drops, FALSE}
  /\ overtaken' = overtaken \cup {"inPop"}
  /\ UNCHANGED <<halt, pc, next, victim>>

----------------------------------------------------------------------------
(* The worker finds the queue not empty and reads its top.                 *)
Take ==
  /\ pc = "look" /\ ~halt
  /\ \E a \in Addr : Top(a) /\ next' = a
  /\ pc' = "taken"
  /\ UNCHANGED <<q, item, halt, victim, drops, overtaken, faults>>

(* dispatch(next): an item already dispatched is dispatched once more, be  *)
(* it from memory that was given back.                                     *)
Dispatch ==
  /\ pc = "taken"
  /\ IF Waiting(next)
     THEN /\ item' = [item EXCEPT ![next] = IF @ \in Freed THEN Free ELSE Done]
          /\ UNCHANGED faults
     ELSE /\ faults' = faults \cup {"repeated"}
          /\ UNCHANGED item
  /\ pc' = "served"
  /\ UNCHANGED <<q, halt, next, victim, drops, overtaken>>

(* pop begins: whatever is on top by now goes behind the others.           *)
BeginPop ==
  /\ pc = "served"
  /\ \E a \in Addr : Top(a) /\ victim' = a
  /\ drops' = TRUE
  /\ pc' = "popping"
  /\ UNCHANGED <<q, item, halt, next, overtaken, faults>>

(* Mutant: the dispatch pops as well.                                      *)
EndPopTwice ==
  /\ pc = "popping"
  /\ q' = [q EXCEPT ![victim] = @ - 2]
  /\ pc' = "look" /\ next' = None /\ victim' = None /\ drops' = FALSE
  /\ UNCHANGED <<item, halt, overtaken, faults>>

(* Mutant: the entry stays.                                                *)
EndPopKeeps ==
  /\ pc = "popping"
  /\ pc' = "look" /\ next' = None /\ victim' = None /\ drops' = FALSE
  /\ UNCHANGED <<q, item, halt, overtaken, faults>>

(* pop ends.  An item whose last entry goes undispatched is lost.          *)
EndPop ==
  /\ pc = "popping"
  /\ IF drops
     THEN /\ q' = [q EXCEPT ![victim] = @ - 1]
          /\ faults' = faults \cup (IF Waiting(victim) /\ q[victim] = 1
                                    THEN {"lost"} ELSE {})
     ELSE UNCHANGED <<q, faults>>
  /\ pc' = "look" /\ next' = None /\ victim' = None /\ drops' = FALSE
  /\ UNCHANGED <<item, halt, overtaken>>

(* The worker is told to stop: it yields for ever from its next look on.   *)
Halt ==
  /\ ~halt /\ halt' = TRUE
  /\ UNCHANGED <<q, item, pc, next, victim, drops, overtaken, faults>>

Worker == Take \/ Dispatch \/ BeginPop \/ EndPop

Next == \/ \E a \in Addr, k \in Kind : Queue(a, k) \/ QueueInPop(a, k)
        \/ Worker
        \/ Halt

Spec == Init /\ [][Next]_vars

(* The worker is a thread of its own that never blocks.                    *)
FairSpec == Spec /\ WF_vars(Worker)

----------------------------------------------------------------------------
(* The values the variables take.                                          *)
TypeOK ==
  /\ q \in [Addr -> Nat]
  /\ item \in [Addr -> Kind \cup {Free, Done}]
  /\ halt \in BOOLEAN
  /\ pc \in {"look", "taken", "served", "popping"}
  /\ next \in Addr \cup {None}
  /\ victim \in Addr \cup {None}
  /\ drops \in BOOLEAN
  /\ overtaken \in SUBSET {"byAddress", "inPop"}
  /\ faults \in SUBSET {"lost", "repeated"}

(* The worker loop is right as long as nothing overtakes it: no item is    *)
(* lost and none is dispatched twice unless a push of a higher address     *)
(* came between a take and its pop, or any push came inside a pop.  A push *)
(* of a lower address is harmless, and so is one that gets the address the *)
(* worker has just given back and still has to pop.                        *)
ExactlyOnce == overtaken = {} => faults = {}

(* Between two rounds of the worker that nothing overtook, the queue holds *)
(* one entry for each waiting item and no entry for anything else: no item *)
(* is left behind in the heap and no entry points to a deleted one.        *)
EntriesAreItems ==
  pc = "look" /\ overtaken = {} =>
    \A a \in Addr : q[a] = IF Waiting(a) THEN 1 ELSE 0

(* The items at the highest address are not starved, whatever is queued in *)
(* the meantime.  (Those at lower addresses can be.)                       *)
HighestServed ==
  \A a \in Addr : (\A b \in Addr : b <= a) =>
    (Waiting(a) ~> (~Waiting(a) \/ halt \/ overtaken # {}))

----------------------------------------------------------------------------
(* What is not queued for the worker is named at masterDaemon.cpp:54-58,   *)
(* "Everything else is": what is queued is dispatched, and once, at least   *)
(* if no two calls of the queue ever overlap.                              *)
EverythingQueuedIsDispatched == "inPop" \notin overtaken => faults = {}
============================================================================
