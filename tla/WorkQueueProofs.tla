-------------------------- MODULE WorkQueueProofs --------------------------
(* Proofs about the work queue, for any heap and any kinds of items.       *)
EXTENDS WorkQueue, TLAPS

(* How many entries an address should have between two rounds.             *)
Entries(a) == IF Waiting(a) THEN 1 ELSE 0

(* Whatever overtakes the worker, it pops an entry that is there.          *)
InHand == /\ pc \in {"taken", "served"} => next \in Addr
          /\ pc = "popping" => victim \in Addr /\ q[victim] > 0

(* While a round is on, the item in hand is the highest of the queue ...   *)
NextIsHighest == next \in Addr /\ \A b \in Addr : q[b] > 0 => b <= next

(* ... and still has its entry when it was dispatched.                     *)
NextHasEntry == \A a \in Addr : q[a] = Entries(a) + (IF a = next THEN 1 ELSE 0)

(* The state of a queue that nothing has overtaken, step by step.          *)
Sound ==
  /\ faults = {}
  /\ pc \in {"look", "taken"} => \A a \in Addr : q[a] = Entries(a)
  /\ pc = "taken" => NextIsHighest /\ Waiting(next)
  /\ pc \in {"served", "popping"} => NextIsHighest /\ NextHasEntry
  /\ pc = "popping" => victim = next /\ drops

IInv == TypeOK /\ InHand /\ (overtaken = {} => Sound)

----------------------------------------------------------------------------
LEMMA InitIInv == Init => IInv
<1> SUFFICES ASSUME Init PROVE IInv
    OBVIOUS
<1>1. TypeOK
  BY WorkAssumption DEF Init, TypeOK, None
<1>2. InHand
  BY DEF Init, InHand
<1>3. Sound
  <2>1. \A a \in Addr : q[a] = 0 /\ ~Waiting(a)
    BY WorkAssumption DEF Init, Waiting
  <2> QED  BY <2>1 DEF Init, Sound, Entries
<1> QED  BY <1>1, <1>2, <1>3 DEF IInv

(* A push leaves the worker's round alone unless it overtakes it.          *)
LEMMA QueueIInv ==
  ASSUME IInv, NEW a \in Addr, NEW k \in Kind, Queue(a, k)
  PROVE  IInv'
<1>1. TypeOK'
  BY DEF IInv, TypeOK, Queue
<1>2. /\ q' = [q EXCEPT ![a] = @ + 1] /\ item' = [item EXCEPT ![a] = k]
      /\ pc # "popping" /\ pc' = pc /\ next' = next /\ faults' = faults
      /\ item[a] = Free
  BY DEF Queue
<1>3. InHand'
  BY <1>2 DEF IInv, InHand
<1>4. ASSUME overtaken' = {} PROVE Sound'
  <2>1. overtaken = {} /\ ~(pc # "look" /\ a > next)
    BY <1>4 DEF Queue
  <2>2. Sound
    BY <2>1 DEF IInv
  <2>3. /\ \A b \in Addr : b # a => q'[b] = q[b] /\ item'[b] = item[b]
        /\ q'[a] = q[a] + 1 /\ item'[a] = k
        /\ \A b \in Addr : q[b] \in Nat
    BY <1>2 DEF IInv, TypeOK
  <2>4. ~Waiting(a) /\ Waiting(a)' /\ \A b \in Addr : b # a => (Waiting(b)' <=> Waiting(b))
    BY <1>2, <2>3, WorkAssumption DEF Waiting
  <2>5. Entries(a) = 0 /\ Entries(a)' = 1 /\ \A b \in Addr : b # a => Entries(b)' = Entries(b)
    BY <2>4 DEF Entries
  <2>6. pc' \in {"look", "taken"} => \A b \in Addr : q'[b] = Entries(b)'
    BY <1>2, <2>2, <2>3, <2>5 DEF Sound
  <2>7. pc # "look" => NextIsHighest'
    <3> SUFFICES ASSUME pc # "look" PROVE NextIsHighest'
        OBVIOUS
    <3>1. NextIsHighest
      BY <1>2, <2>2 DEF Sound, IInv, TypeOK
    <3>2. a <= next
      BY <2>1, <3>1, WorkAssumption DEF NextIsHighest
    <3> QED  BY <1>2, <2>3, <3>1, <3>2 DEF NextIsHighest
  <2>8. pc' = "taken" => Waiting(next)'
    BY <1>2, <2>2, <2>4 DEF Sound, NextIsHighest
  <2>9. pc' = "served" => NextHasEntry'
    <3> SUFFICES ASSUME pc = "served" PROVE NextHasEntry'
        BY <1>2
    <3>1. NextHasEntry
      BY <2>2 DEF Sound
    <3> QED  BY <1>2, <2>3, <2>5, <3>1 DEF NextHasEntry
  <2> QED  BY <1>2, <2>2, <2>6, <2>7, <2>8, <2>9 DEF Sound
<1> QED  BY <1>1, <1>3, <1>4 DEF IInv

LEMMA QueueInPopIInv ==
  ASSUME IInv, NEW a \in Addr, NEW k \in Kind, QueueInPop(a, k)
  PROVE  IInv'
<1>1. TypeOK'
  <2>1. q' \in [Addr -> Nat] /\ faults' \in SUBSET {"lost", "repeated"}
    <3>1. q \in [Addr -> Nat] /\ faults \in SUBSET {"lost", "repeated"}
      BY DEF IInv, TypeOK
    <3>2. CASE q' = [q EXCEPT ![a] = @ + 1] /\ UNCHANGED faults
      BY <3>1, <3>2
    <3>3. CASE faults' = faults \cup {"lost"} /\ UNCHANGED q
      BY <3>1, <3>3
    <3> QED  BY <3>2, <3>3 DEF QueueInPop
  <2>2. item' \in [Addr -> Kind \cup {Free, Done}] /\ drops' \in BOOLEAN
    BY DEF IInv, TypeOK, QueueInPop
  <2>3. overtaken' \in SUBSET {"byAddress", "inPop"}
    BY DEF IInv, TypeOK, QueueInPop
  <2> QED  BY <2>1, <2>2, <2>3 DEF IInv, TypeOK, QueueInPop
<1>2. InHand'
  <2>1. \A b \in Addr : q[b] > 0 => q'[b] > 0
    BY DEF QueueInPop, IInv, TypeOK
  <2> QED  BY <2>1 DEF QueueInPop, IInv, InHand
<1>3. overtaken' # {}
  BY DEF QueueInPop
<1> QED  BY <1>1, <1>2, <1>3 DEF IInv

LEMMA TakeIInv == IInv /\ Take => IInv'
<1> SUFFICES ASSUME IInv, Take PROVE IInv'
    OBVIOUS
<1>1. PICK a \in Addr : Top(a) /\ next' = a
  BY DEF Take
<1>2. TypeOK' /\ InHand'
  BY <1>1 DEF IInv, TypeOK, InHand, Take
<1>3. ASSUME overtaken' = {} PROVE Sound'
  <2>1. /\ faults = {} /\ faults' = faults /\ pc' = "taken" /\ q' = q
        /\ \A b \in Addr : q[b] = Entries(b) /\ Entries(b)' = Entries(b)
    BY <1>3 DEF Take, IInv, Sound, Entries, Waiting
  <2>2. NextIsHighest'
    BY <1>1, <2>1 DEF NextIsHighest, Top
  <2>3. Waiting(next)'
    BY <1>1, <2>1 DEF Take, Top, Entries, Waiting
  <2> QED  BY <2>1, <2>2, <2>3 DEF Sound
<1> QED  BY <1>2, <1>3 DEF IInv

LEMMA DispatchIInv == IInv /\ Dispatch => IInv'
<1> SUFFICES ASSUME IInv, Dispatch PROVE IInv'
    OBVIOUS
<1>1. next \in Addr /\ pc = "taken" /\ pc' = "served" /\ q' = q /\ next' = next
  BY DEF Dispatch, IInv, InHand
<1>2. TypeOK' /\ InHand'
  BY <1>1 DEF IInv, TypeOK, InHand, Dispatch
<1>3. ASSUME overtaken' = {} PROVE Sound'
  <2>1. Sound /\ Waiting(next)
    BY <1>1, <1>3 DEF Dispatch, IInv, Sound
  <2>2. /\ faults' = {}
        /\ item' = [item EXCEPT ![next] = IF @ \in Freed THEN Free ELSE Done]
    BY <2>1 DEF Dispatch, Sound
  <2>3. ~Waiting(next)' /\ \A b \in Addr : b # next => (Waiting(b)' <=> Waiting(b))
    BY <1>1, <2>2, WorkAssumption DEF Waiting, IInv, TypeOK
  <2>4. NextHasEntry'
    BY <1>1, <2>1, <2>3 DEF NextHasEntry, Sound, Entries
  <2>5. NextIsHighest'
    BY <1>1, <2>1 DEF NextIsHighest, Sound
  <2> QED  BY <1>1, <2>2, <2>4, <2>5 DEF Sound
<1> QED  BY <1>2, <1>3 DEF IInv

(* The top that pop removes is the item in hand.                           *)
LEMMA BeginPopIInv == IInv /\ BeginPop => IInv'
<1> SUFFICES ASSUME IInv, BeginPop PROVE IInv'
    OBVIOUS
<1>1. PICK a \in Addr : Top(a) /\ victim' = a
  BY DEF BeginPop
<1>2. /\ pc = "served" /\ pc' = "popping" /\ q' = q /\ next' = next
      /\ item' = item /\ faults' = faults /\ drops'
  BY DEF BeginPop
<1>3. TypeOK'
  BY <1>1 DEF IInv, TypeOK, BeginPop
<1>4. InHand'
  BY <1>1, <1>2 DEF IInv, InHand, Top
<1>5. ASSUME overtaken' = {} PROVE Sound'
  <2>1. Sound /\ NextIsHighest /\ NextHasEntry
    BY <1>2, <1>5 DEF BeginPop, IInv, Sound
  <2>2. q[next] > 0
    BY <2>1 DEF NextIsHighest, NextHasEntry, Entries
  <2>3. a = next
    BY <1>1, <2>1, <2>2, WorkAssumption DEF Top, NextIsHighest
  <2>4. NextIsHighest' /\ NextHasEntry'
    BY <1>2, <2>1 DEF NextIsHighest, NextHasEntry, Entries, Waiting
  <2> QED  BY <1>1, <1>2, <2>1, <2>3, <2>4 DEF Sound
<1> QED  BY <1>3, <1>4, <1>5 DEF IInv

LEMMA EndPopIInv == IInv /\ EndPop => IInv'
<1> SUFFICES ASSUME IInv, EndPop PROVE IInv'
    OBVIOUS
<1>1. victim \in Addr /\ q[victim] > 0 /\ q \in [Addr -> Nat]
  BY DEF EndPop, IInv, InHand, TypeOK
<1>2. q' \in [Addr -> Nat]
  BY <1>1 DEF EndPop
<1>3. TypeOK' /\ InHand'
  BY <1>2 DEF IInv, TypeOK, InHand, EndPop
<1>4. ASSUME overtaken' = {} PROVE Sound'
  <2>1. Sound /\ NextHasEntry /\ victim = next /\ drops
    BY <1>4 DEF EndPop, IInv, Sound
  <2>2. q' = [q EXCEPT ![next] = @ - 1] /\ item' = item /\ pc' = "look"
    BY <2>1 DEF EndPop
  <2>3. Waiting(next) => q[next] = 2
    BY <1>1, <2>1 DEF NextHasEntry, Entries
  <2>4. faults' = {}
    BY <2>1, <2>3 DEF EndPop, Sound
  <2>5. \A a \in Addr : q'[a] = Entries(a)'
    BY <1>1, <2>1, <2>2 DEF NextHasEntry, Entries, Waiting
  <2> QED  BY <2>2, <2>4, <2>5 DEF Sound
<1> QED  BY <1>3, <1>4 DEF IInv

LEMMA IdleIInv == IInv /\ (Halt \/ UNCHANGED vars) => IInv'
  BY DEF IInv, TypeOK, InHand, Sound, NextIsHighest, NextHasEntry, Entries,
         Waiting, Halt, vars

LEMMA StepIInv == IInv /\ [Next]_vars => IInv'
  BY QueueIInv, QueueInPopIInv, TakeIInv, DispatchIInv, BeginPopIInv,
     EndPopIInv, IdleIInv DEF Next, Worker

LEMMA Invariance == Spec => []IInv
  BY InitIInv, StepIInv, PTL DEF Spec

----------------------------------------------------------------------------
(* mdProcess and its worker keep to their types, overtaken or not: in      *)
(* particular pop is never called on an empty queue.                       *)
THEOREM QueueTypeOK == Spec => []TypeOK
  BY Invariance, PTL DEF IInv

(* Unless a push overtakes the worker between a take and its pop, no item  *)
(* is lost and none is dispatched twice.                                   *)
THEOREM QueueExactlyOnce == Spec => []ExactlyOnce
<1>1. IInv => ExactlyOnce
  BY DEF IInv, Sound, ExactlyOnce
<1> QED  BY <1>1, Invariance, PTL

(* Between the worker's rounds a queue nothing has overtaken holds exactly *)
(* the items that wait.                                                    *)
THEOREM QueueEntriesAreItems == Spec => []EntriesAreItems
<1>1. IInv => EntriesAreItems
  BY DEF IInv, Sound, EntriesAreItems, Entries
<1> QED  BY <1>1, Invariance, PTL
============================================================================
