--------------------------- MODULE EventBusProofs ---------------------------
(***************************************************************************)
(* The event bus for any set of event types and listeners.                 *)
(***************************************************************************)
EXTENDS EventBus, SequenceTheorems, FiniteSetTheorems, TLAPS

(* What holds between the list of a type, its two queues and the sends in  *)
(* progress, and makes the invariants below inductive.                     *)
SendsNest == \A t \in EvType : t \in busy <=> \E i \in 1 .. Len(stack) : stack[i] = t

QueuesApart ==
  \A t \in EvType : /\ regQueue[t] \cap registry[t] = {}
                    /\ remQueue[t] \subseteq registry[t]
                    /\ toCall[t] \subseteq registry[t]
                    /\ \A l \in registry[t] \cup regQueue[t] : Hears[l] = t

CalledWhileSending ==
  /\ \A l \in processing : calling[Hears[l]] = l
  /\ \A t \in EvType : calling[t] # None \/ toCall[t] # {} => t \in busy

IInv == /\ TypeOK
        /\ AssertionsHold
        /\ HoldPromise
        /\ RegisteredTellsTheTruth
        /\ SendsNest
        /\ QueuesApart
        /\ CalledWhileSending

----------------------------------------------------------------------------
(* No type is on the stack twice.                                          *)
LEMMA DistinctFrames ==
  ASSUME TypeOK
  PROVE  \A i, j \in 1 .. Len(stack) : stack[i] = stack[j] => i = j
<1>1. stack \in Seq(EvType) /\ IsInjective(stack)
  BY DEF TypeOK
<1>2. DOMAIN stack = 1 .. Len(stack)
  BY <1>1
<1>3. QED BY <1>1, <1>2 DEF IsInjective

(* Popping the innermost send removes exactly its type from the stack.     *)
LEMMA PopStack ==
  ASSUME TypeOK, SendsNest, stack # <<>>
  PROVE  /\ Top \in EvType /\ Top \in busy
         /\ Tail(stack) \in Seq(EvType) /\ IsInjective(Tail(stack))
         /\ \A t \in EvType : t \in busy \ {Top}
               <=> \E i \in 1 .. Len(Tail(stack)) : Tail(stack)[i] = t
<1>1. /\ stack \in Seq(EvType) /\ Tail(stack) \in Seq(EvType)
      /\ Len(stack) \in Nat /\ Len(stack) >= 1 /\ Len(Tail(stack)) = Len(stack) - 1
      /\ Top = stack[1] /\ \A i \in 1 .. Len(stack) - 1 : Tail(stack)[i] = stack[i + 1]
  BY DEF TypeOK, Top
<1>2. \A i, j \in 1 .. Len(stack) : stack[i] = stack[j] => i = j
  BY DistinctFrames
<1>3. Top \in EvType /\ Top \in busy
  BY <1>1 DEF SendsNest
<1>4. IsInjective(Tail(stack))
  <2>1. ASSUME NEW i \in 1 .. Len(stack) - 1, NEW j \in 1 .. Len(stack) - 1,
               Tail(stack)[i] = Tail(stack)[j]
        PROVE  i = j
    <3>1. i + 1 \in 1 .. Len(stack) /\ j + 1 \in 1 .. Len(stack) /\ stack[i + 1] = stack[j + 1]
      BY <1>1, <2>1
    <3>2. QED BY <1>2, <3>1
  <2>2. QED BY <1>1, <2>1 DEF IsInjective
<1>5. ASSUME NEW t \in EvType
      PROVE  t \in busy \ {Top} <=> \E i \in 1 .. Len(Tail(stack)) : Tail(stack)[i] = t
  <2>1. ASSUME t \in busy \ {Top}
        PROVE  \E i \in 1 .. Len(Tail(stack)) : Tail(stack)[i] = t
    <3>1. PICK i \in 1 .. Len(stack) : stack[i] = t
      BY <2>1 DEF SendsNest
    <3>2. i # 1 /\ i - 1 \in 1 .. Len(Tail(stack)) /\ Tail(stack)[i - 1] = t
      BY <1>1, <2>1, <3>1
    <3>3. QED BY <3>2
  <2>2. ASSUME NEW i \in 1 .. Len(Tail(stack)), Tail(stack)[i] = t
        PROVE  t \in busy \ {Top}
    <3>1. i + 1 \in 1 .. Len(stack) /\ 1 \in 1 .. Len(stack) /\ i + 1 # 1 /\ stack[i + 1] = t
      BY <1>1, <2>2
    <3>2. t # Top
      BY <1>1, <1>2, <3>1
    <3>3. QED BY <3>1, <3>2 DEF SendsNest
  <2>3. QED BY <2>1, <2>2
<1>6. QED BY <1>1, <1>3, <1>4, <1>5

(* Pushing a type that is not being sent adds exactly that type.           *)
LEMMA PushStack ==
  ASSUME TypeOK, SendsNest, NEW u \in EvType, u \notin busy
  PROVE  /\ <<u>> \o stack \in Seq(EvType) /\ IsInjective(<<u>> \o stack)
         /\ \A t \in EvType : t \in busy \cup {u}
               <=> \E i \in 1 .. Len(<<u>> \o stack) : (<<u>> \o stack)[i] = t
<1> DEFINE s == <<u>> \o stack
<1>1. /\ stack \in Seq(EvType) /\ s \in Seq(EvType)
      /\ Len(stack) \in Nat /\ Len(s) = Len(stack) + 1
      /\ s[1] = u /\ \A i \in 1 .. Len(stack) : s[i + 1] = stack[i]
  BY DEF TypeOK
<1> HIDE DEF s
<1>2. \A i \in 1 .. Len(stack) : stack[i] # u
  BY <1>1 DEF SendsNest
<1>3. \A i, j \in 1 .. Len(stack) : stack[i] = stack[j] => i = j
  BY DistinctFrames
<1>4. \A i \in 1 .. Len(s) : i = 1 \/ (i - 1 \in 1 .. Len(stack) /\ s[i] = stack[i - 1])
  BY <1>1
<1>5. ASSUME NEW i \in 1 .. Len(s), NEW j \in 1 .. Len(s), s[i] = s[j]
      PROVE  i = j
  <2>1. CASE i = 1 \/ j = 1
    BY <1>1, <1>2, <1>4, <1>5, <2>1
  <2>2. CASE i # 1 /\ j # 1
    <3>1. /\ i - 1 \in 1 .. Len(stack) /\ j - 1 \in 1 .. Len(stack)
          /\ stack[i - 1] = stack[j - 1]
      BY <1>4, <1>5, <2>2
    <3>2. i - 1 = j - 1
      BY <1>3, <3>1
    <3>3. QED BY <1>1, <3>2
  <2>3. QED BY <2>1, <2>2
<1>6. IsInjective(s)
  BY <1>1, <1>5 DEF IsInjective
<1>7. ASSUME NEW t \in EvType
      PROVE  t \in busy \cup {u} <=> \E i \in 1 .. Len(s) : s[i] = t
  <2>1. ASSUME t \in busy
        PROVE  \E i \in 1 .. Len(s) : s[i] = t
    <3>1. PICK i \in 1 .. Len(stack) : stack[i] = t
      BY <2>1 DEF SendsNest
    <3>2. i + 1 \in 1 .. Len(s) /\ s[i + 1] = t
      BY <1>1, <3>1
    <3>3. QED BY <3>2
  <2>2. 1 \in 1 .. Len(s)
    BY <1>1
  <2>3. ASSUME NEW i \in 1 .. Len(s), s[i] = t
        PROVE  t \in busy \cup {u}
    BY <1>1, <1>4, <2>3 DEF SendsNest
  <2>4. QED BY <1>1, <2>1, <2>2, <2>3
<1>8. QED BY <1>1, <1>6, <1>7 DEF s

----------------------------------------------------------------------------
(* The end of a send, on either way out, keeps the invariant: the merged   *)
(* lists are the set of registered listeners, and both queues are empty.   *)
LEMMA EndSendKeeps ==
  ASSUME IInv, stack # <<>>, EndSend, UNCHANGED thrown,
         processing' \subseteq processing, \A l \in processing' : l # calling[Top]
  PROVE  IInv'
<1> USE BusAssumption DEF IInv
<1>1. /\ Top \in EvType /\ Top \in busy
      /\ Tail(stack) \in Seq(EvType) /\ IsInjective(Tail(stack))
      /\ \A t \in EvType : t \in busy \ {Top}
            <=> \E i \in 1 .. Len(Tail(stack)) : Tail(stack)[i] = t
  BY PopStack
<1>2. TypeOK'
  BY <1>1 DEF TypeOK, EndSend, CleanupQueues
<1>3. SendsNest'
  BY <1>1 DEF SendsNest, EndSend
<1>4. HoldPromise' /\ AssertionsHold'
  BY <1>1 DEF TypeOK, HoldPromise, AssertionsHold, EndSend, CleanupQueues
<1>5. RegisteredTellsTheTruth'
  BY <1>1 DEF TypeOK, RegisteredTellsTheTruth, EndSend, CleanupQueues
<1>6. QueuesApart'
  BY <1>1 DEF TypeOK, QueuesApart, EndSend, CleanupQueues
<1>7. CalledWhileSending'
  BY <1>1 DEF TypeOK, CalledWhileSending, EndSend
<1>8. QED BY <1>2, <1>3, <1>4, <1>5, <1>6, <1>7

LEMMA InitIInv == Init => IInv
  BY BusAssumption DEF Init, IInv, TypeOK, AssertionsHold, HoldPromise, RegisteredTellsTheTruth,
     SendsNest, QueuesApart, CalledWhileSending, IsInjective

LEMMA StepIInv == IInv /\ [Next]_vars => IInv'
<1> SUFFICES ASSUME IInv, [Next]_vars
             PROVE  IInv'
  OBVIOUS
<1> USE BusAssumption DEF IInv
<1>1. ASSUME NEW t \in EvType, Send(t)
      PROVE  IInv'
  <2>1. UNCHANGED <<lists, flags, calling, aborted>>
    BY <1>1 DEF Send, sends
  <2>2. CASE t \in busy
    <3>1. thrown' = t /\ UNCHANGED <<sends, ignored>>
      BY <1>1, <2>2 DEF Send
    <3>2. QED
      BY <2>1, <3>1 DEF sends, lists, flags, TypeOK, AssertionsHold, HoldPromise,
         RegisteredTellsTheTruth, SendsNest, QueuesApart, CalledWhileSending
  <2>3. CASE t \notin busy
    <3>1. /\ busy' = busy \cup {t} /\ stack' = <<t>> \o stack /\ thrown' = thrown
          /\ ignored' = [ignored EXCEPT ![t] = 0]
          /\ toCall' = [toCall EXCEPT ![t] = registry[t]]
      BY <1>1, <2>3 DEF Send
    <3>2. /\ stack' \in Seq(EvType) /\ IsInjective(stack')
          /\ \A u \in EvType : u \in busy' <=> \E i \in 1 .. Len(stack') : stack'[i] = u
      <4>1. /\ <<t>> \o stack \in Seq(EvType) /\ IsInjective(<<t>> \o stack)
            /\ \A u \in EvType : u \in busy \cup {t}
                  <=> \E i \in 1 .. Len(<<t>> \o stack) : (<<t>> \o stack)[i] = u
        BY <2>3, PushStack
      <4>2. QED BY ONLY <3>1, <4>1
    <3>3. ignored' \in [EvType -> Nat] /\ toCall' \in [EvType -> SUBSET Listener]
      BY <3>1 DEF TypeOK
    <3>4. TypeOK'
      BY <2>1, <3>1, <3>2, <3>3 DEF lists, flags, TypeOK
    <3>5. SendsNest'
      BY <3>2 DEF SendsNest
    <3>6. AssertionsHold' /\ HoldPromise' /\ RegisteredTellsTheTruth'
      BY <2>1, <3>1 DEF lists, flags, AssertionsHold, HoldPromise, RegisteredTellsTheTruth
    <3>7. QueuesApart'
      BY <2>1, <3>1 DEF lists, TypeOK, QueuesApart
    <3>8. CalledWhileSending'
      BY <2>1, <3>1 DEF flags, CalledWhileSending
    <3>9. QED BY <3>4, <3>5, <3>6, <3>7, <3>8
  <2>4. QED BY <2>2, <2>3
<1>2. ASSUME NEW l \in Listener, Deliver(l)
      PROVE  IInv'
  <2>1. Top \in EvType /\ Top \in busy
    BY <1>2, PopStack DEF Deliver
  <2>2. Hears[l] = Top
    BY <1>2, <2>1 DEF Deliver, QueuesApart
  <2>3. TypeOK' /\ AssertionsHold' /\ HoldPromise' /\ RegisteredTellsTheTruth'
    BY <1>2, <2>1 DEF Deliver, lists, TypeOK, AssertionsHold, HoldPromise, RegisteredTellsTheTruth
  <2>4. SendsNest' /\ QueuesApart'
    BY <1>2, <2>1 DEF Deliver, lists, TypeOK, SendsNest, QueuesApart
  <2>5. CalledWhileSending'
    BY <1>2, <2>1, <2>2 DEF Deliver, TypeOK, CalledWhileSending
  <2>6. QED BY <2>3, <2>4, <2>5
<1>3. ASSUME NEW l \in Listener, Return(l)
      PROVE  IInv'
  <2>1. Top \in EvType /\ Top \in busy
    BY <1>3, PopStack DEF Return
  <2>2. TypeOK' /\ AssertionsHold' /\ HoldPromise' /\ RegisteredTellsTheTruth'
    BY <1>3, <2>1 DEF Return, lists, TypeOK, AssertionsHold, HoldPromise, RegisteredTellsTheTruth
  <2>3. SendsNest' /\ QueuesApart' /\ CalledWhileSending'
    BY <1>3, <2>1 DEF Return, lists, TypeOK, SendsNest, QueuesApart, CalledWhileSending
  <2>4. QED BY <2>2, <2>3
<1>4. ASSUME NEW l \in Listener, ListenForEvents(l)
      PROVE  IInv'
  <2> DEFINE t == Hears[l]
  <2>1. /\ t \in EvType
        /\ UNCHANGED <<ignoring, processing, sends, ignored, thrown>>
    BY <1>4 DEF ListenForEvents
  <2>2. SendsNest' /\ CalledWhileSending'
    BY <2>1 DEF sends, SendsNest, CalledWhileSending
  <2>3. /\ aborted' = None
        /\ registered' = registered \cup {l}
    BY <1>4, <2>1 DEF ListenForEvents, RegisterListener, Abort, AssertionsHold, HoldPromise,
       RegisteredTellsTheTruth, QueuesApart
  <2>4. CASE t \in busy /\ l \in remQueue[t]
    <3>1. remQueue' = [remQueue EXCEPT ![t] = @ \ {l}] /\ UNCHANGED <<registry, regQueue>>
      BY <1>4, <2>1, <2>3, <2>4 DEF ListenForEvents, RegisterListener, Abort, AssertionsHold
    <3>2. TypeOK'
      BY <2>1, <2>3, <3>1 DEF TypeOK, sends
    <3>3. AssertionsHold' /\ HoldPromise'
      BY <2>1, <2>3, <2>4, <3>1 DEF TypeOK, AssertionsHold, HoldPromise, sends
    <3>4. RegisteredTellsTheTruth'
      BY <2>1, <2>3, <2>4, <3>1 DEF TypeOK, HoldPromise, RegisteredTellsTheTruth, QueuesApart
    <3>5. QueuesApart'
      <4>1. /\ t \notin busy => regQueue[t] = {} /\ remQueue[t] = {} /\ toCall[t] = {}
            /\ l \in registered <=> l \in (registry[t] \cup regQueue[t]) \ remQueue[t]
        BY <2>1 DEF HoldPromise, CalledWhileSending, RegisteredTellsTheTruth
      <4>2. toCall' = toCall /\ \A u \in EvType : u # t => /\ registry'[u] = registry[u]
                                                         /\ regQueue'[u] = regQueue[u]
                                                         /\ remQueue'[u] = remQueue[u]
        BY <2>1, <3>1 DEF TypeOK, sends
      <4>3. /\ regQueue'[t] \cap registry'[t] = {} /\ remQueue'[t] \subseteq registry'[t]
            /\ toCall[t] \subseteq registry'[t]
            /\ \A m \in registry'[t] \cup regQueue'[t] : Hears[m] = t
        BY <1>4, <2>1, <2>4, <3>1, <4>1 DEF TypeOK, QueuesApart, ListenForEvents
      <4>4. QED BY <4>2, <4>3 DEF QueuesApart
    <3>6. QED BY <2>2, <3>2, <3>3, <3>4, <3>5
  <2>5. CASE t \in busy /\ l \notin remQueue[t]
    <3>1. regQueue' = [regQueue EXCEPT ![t] = @ \cup {l}] /\ UNCHANGED <<registry, remQueue>>
      BY <1>4, <2>1, <2>3, <2>5 DEF ListenForEvents, RegisterListener, Abort, AssertionsHold
    <3>2. TypeOK'
      BY <2>1, <2>3, <3>1 DEF TypeOK, sends
    <3>3. AssertionsHold' /\ HoldPromise'
      BY <2>1, <2>3, <2>5, <3>1 DEF TypeOK, AssertionsHold, HoldPromise, sends
    <3>4. RegisteredTellsTheTruth'
      BY <2>1, <2>3, <2>5, <3>1 DEF TypeOK, HoldPromise, RegisteredTellsTheTruth, QueuesApart
    <3>5. QueuesApart'
      <4>1. /\ t \notin busy => regQueue[t] = {} /\ remQueue[t] = {} /\ toCall[t] = {}
            /\ l \in registered <=> l \in (registry[t] \cup regQueue[t]) \ remQueue[t]
        BY <2>1 DEF HoldPromise, CalledWhileSending, RegisteredTellsTheTruth
      <4>2. toCall' = toCall /\ \A u \in EvType : u # t => /\ registry'[u] = registry[u]
                                                         /\ regQueue'[u] = regQueue[u]
                                                         /\ remQueue'[u] = remQueue[u]
        BY <2>1, <3>1 DEF TypeOK, sends
      <4>3. /\ regQueue'[t] \cap registry'[t] = {} /\ remQueue'[t] \subseteq registry'[t]
            /\ toCall[t] \subseteq registry'[t]
            /\ \A m \in registry'[t] \cup regQueue'[t] : Hears[m] = t
        BY <1>4, <2>1, <2>5, <3>1, <4>1 DEF TypeOK, QueuesApart, ListenForEvents
      <4>4. QED BY <4>2, <4>3 DEF QueuesApart
    <3>6. QED BY <2>2, <3>2, <3>3, <3>4, <3>5
  <2>6. CASE t \notin busy
    <3>1. registry' = [registry EXCEPT ![t] = @ \cup {l}] /\ UNCHANGED <<regQueue, remQueue>>
      BY <1>4, <2>1, <2>3, <2>6 DEF ListenForEvents, RegisterListener, Abort, AssertionsHold
    <3>2. TypeOK'
      BY <2>1, <2>3, <3>1 DEF TypeOK, sends
    <3>3. AssertionsHold' /\ HoldPromise'
      BY <2>1, <2>3, <2>6, <3>1 DEF TypeOK, AssertionsHold, HoldPromise, sends
    <3>4. RegisteredTellsTheTruth'
      BY <2>1, <2>3, <2>6, <3>1 DEF TypeOK, HoldPromise, RegisteredTellsTheTruth, QueuesApart
    <3>5. QueuesApart'
      <4>1. /\ t \notin busy => regQueue[t] = {} /\ remQueue[t] = {} /\ toCall[t] = {}
            /\ l \in registered <=> l \in (registry[t] \cup regQueue[t]) \ remQueue[t]
        BY <2>1 DEF HoldPromise, CalledWhileSending, RegisteredTellsTheTruth
      <4>2. toCall' = toCall /\ \A u \in EvType : u # t => /\ registry'[u] = registry[u]
                                                         /\ regQueue'[u] = regQueue[u]
                                                         /\ remQueue'[u] = remQueue[u]
        BY <2>1, <3>1 DEF TypeOK, sends
      <4>3. /\ regQueue'[t] \cap registry'[t] = {} /\ remQueue'[t] \subseteq registry'[t]
            /\ toCall[t] \subseteq registry'[t]
            /\ \A m \in registry'[t] \cup regQueue'[t] : Hears[m] = t
        BY <1>4, <2>1, <2>6, <3>1, <4>1 DEF TypeOK, QueuesApart, ListenForEvents
      <4>4. QED BY <4>2, <4>3 DEF QueuesApart
    <3>6. QED BY <2>2, <3>2, <3>3, <3>4, <3>5
  <2>7. QED BY <2>4, <2>5, <2>6
<1>5. ASSUME NEW l \in Listener, IgnoreEvents(l)
      PROVE  IInv'
  <2> DEFINE t == Hears[l]
  <2>1. /\ t \in EvType
        /\ UNCHANGED <<ignoring, processing, sends, ignored, thrown>>
    BY <1>5 DEF IgnoreEvents
  <2>2. SendsNest' /\ CalledWhileSending'
    BY <2>1 DEF sends, SendsNest, CalledWhileSending
  <2>3. /\ aborted' = None
        /\ registered' = registered \ {l}
    BY <1>5, <2>1 DEF IgnoreEvents, RemoveListener, Abort, AssertionsHold, HoldPromise,
       RegisteredTellsTheTruth, QueuesApart
  <2>4. CASE t \in busy /\ l \in regQueue[t]
    <3>1. regQueue' = [regQueue EXCEPT ![t] = @ \ {l}] /\ UNCHANGED <<registry, remQueue>>
      BY <1>5, <2>1, <2>3, <2>4 DEF IgnoreEvents, RemoveListener, Abort, AssertionsHold
    <3>2. TypeOK'
      BY <2>1, <2>3, <3>1 DEF TypeOK, sends
    <3>3. AssertionsHold' /\ HoldPromise'
      BY <2>1, <2>3, <2>4, <3>1 DEF TypeOK, AssertionsHold, HoldPromise, sends
    <3>4. RegisteredTellsTheTruth'
      BY <2>1, <2>3, <2>4, <3>1 DEF TypeOK, HoldPromise, RegisteredTellsTheTruth, QueuesApart
    <3>5. QueuesApart'
      <4>1. /\ t \notin busy => regQueue[t] = {} /\ remQueue[t] = {} /\ toCall[t] = {}
            /\ l \in registered <=> l \in (registry[t] \cup regQueue[t]) \ remQueue[t]
        BY <2>1 DEF HoldPromise, CalledWhileSending, RegisteredTellsTheTruth
      <4>2. toCall' = toCall /\ \A u \in EvType : u # t => /\ registry'[u] = registry[u]
                                                         /\ regQueue'[u] = regQueue[u]
                                                         /\ remQueue'[u] = remQueue[u]
        BY <2>1, <3>1 DEF TypeOK, sends
      <4>3. /\ regQueue'[t] \cap registry'[t] = {} /\ remQueue'[t] \subseteq registry'[t]
            /\ toCall[t] \subseteq registry'[t]
            /\ \A m \in registry'[t] \cup regQueue'[t] : Hears[m] = t
        BY <1>5, <2>1, <2>4, <3>1, <4>1 DEF TypeOK, QueuesApart, IgnoreEvents
      <4>4. QED BY <4>2, <4>3 DEF QueuesApart
    <3>6. QED BY <2>2, <3>2, <3>3, <3>4, <3>5
  <2>5. CASE t \in busy /\ l \notin regQueue[t]
    <3>1. remQueue' = [remQueue EXCEPT ![t] = @ \cup {l}] /\ UNCHANGED <<registry, regQueue>>
      BY <1>5, <2>1, <2>3, <2>5 DEF IgnoreEvents, RemoveListener, Abort, AssertionsHold
    <3>2. TypeOK'
      BY <2>1, <2>3, <3>1 DEF TypeOK, sends
    <3>3. AssertionsHold' /\ HoldPromise'
      BY <2>1, <2>3, <2>5, <3>1 DEF TypeOK, AssertionsHold, HoldPromise, sends
    <3>4. RegisteredTellsTheTruth'
      BY <2>1, <2>3, <2>5, <3>1 DEF TypeOK, HoldPromise, RegisteredTellsTheTruth, QueuesApart
    <3>5. QueuesApart'
      <4>1. /\ t \notin busy => regQueue[t] = {} /\ remQueue[t] = {} /\ toCall[t] = {}
            /\ l \in registered <=> l \in (registry[t] \cup regQueue[t]) \ remQueue[t]
        BY <2>1 DEF HoldPromise, CalledWhileSending, RegisteredTellsTheTruth
      <4>2. toCall' = toCall /\ \A u \in EvType : u # t => /\ registry'[u] = registry[u]
                                                         /\ regQueue'[u] = regQueue[u]
                                                         /\ remQueue'[u] = remQueue[u]
        BY <2>1, <3>1 DEF TypeOK, sends
      <4>3. /\ regQueue'[t] \cap registry'[t] = {} /\ remQueue'[t] \subseteq registry'[t]
            /\ toCall[t] \subseteq registry'[t]
            /\ \A m \in registry'[t] \cup regQueue'[t] : Hears[m] = t
        BY <1>5, <2>1, <2>5, <3>1, <4>1 DEF TypeOK, QueuesApart, IgnoreEvents
      <4>4. QED BY <4>2, <4>3 DEF QueuesApart
    <3>6. QED BY <2>2, <3>2, <3>3, <3>4, <3>5
  <2>6. CASE t \notin busy
    <3>1. registry' = [registry EXCEPT ![t] = @ \ {l}] /\ UNCHANGED <<regQueue, remQueue>>
      BY <1>5, <2>1, <2>3, <2>6 DEF IgnoreEvents, RemoveListener, Abort, AssertionsHold
    <3>2. TypeOK'
      BY <2>1, <2>3, <3>1 DEF TypeOK, sends
    <3>3. AssertionsHold' /\ HoldPromise'
      BY <2>1, <2>3, <2>6, <3>1 DEF TypeOK, AssertionsHold, HoldPromise, sends
    <3>4. RegisteredTellsTheTruth'
      BY <2>1, <2>3, <2>6, <3>1 DEF TypeOK, HoldPromise, RegisteredTellsTheTruth, QueuesApart
    <3>5. QueuesApart'
      <4>1. /\ t \notin busy => regQueue[t] = {} /\ remQueue[t] = {} /\ toCall[t] = {}
            /\ l \in registered <=> l \in (registry[t] \cup regQueue[t]) \ remQueue[t]
        BY <2>1 DEF HoldPromise, CalledWhileSending, RegisteredTellsTheTruth
      <4>2. toCall' = toCall /\ \A u \in EvType : u # t => /\ registry'[u] = registry[u]
                                                         /\ regQueue'[u] = regQueue[u]
                                                         /\ remQueue'[u] = remQueue[u]
        BY <2>1, <3>1 DEF TypeOK, sends
      <4>3. /\ regQueue'[t] \cap registry'[t] = {} /\ remQueue'[t] \subseteq registry'[t]
            /\ toCall[t] \subseteq registry'[t]
            /\ \A m \in registry'[t] \cup regQueue'[t] : Hears[m] = t
        BY <1>5, <2>1, <2>6, <3>1, <4>1 DEF TypeOK, QueuesApart, IgnoreEvents
      <4>4. QED BY <4>2, <4>3 DEF QueuesApart
    <3>6. QED BY <2>2, <3>2, <3>3, <3>4, <3>5
  <2>7. QED BY <2>4, <2>5, <2>6
<1>6. ASSUME NEW l \in Listener, IgnoreThisEvent(l)
      PROVE  IInv'
  <2>1. Hears[l] \in busy
    BY <1>6 DEF IgnoreThisEvent, TypeOK, CalledWhileSending
  <2>2. TypeOK' /\ AssertionsHold' /\ HoldPromise' /\ RegisteredTellsTheTruth'
    BY <1>6, <2>1 DEF IgnoreThisEvent, lists, sends, TypeOK, AssertionsHold, HoldPromise,
       RegisteredTellsTheTruth
  <2>3. SendsNest' /\ QueuesApart' /\ CalledWhileSending'
    BY <1>6, <2>1 DEF IgnoreThisEvent, lists, sends, SendsNest, QueuesApart, CalledWhileSending
  <2>4. QED BY <2>2, <2>3
<1>7. CASE Throw
  BY <1>7 DEF Throw, lists, flags, sends, TypeOK, AssertionsHold, HoldPromise,
     RegisteredTellsTheTruth, SendsNest, QueuesApart, CalledWhileSending
<1>8. CASE Finish
  <2>1. \A l \in processing : l # calling[Top]
    BY <1>8 DEF Finish, TypeOK
  <2>2. QED BY <1>8, <2>1, EndSendKeeps DEF Finish
<1>9. CASE Rethrow
  BY <1>9, EndSendKeeps DEF Rethrow
<1>10. CASE Swallow
  <2>1. Top \in EvType /\ Top \in busy
    BY <1>10, PopStack DEF Swallow
  <2>2. TypeOK' /\ AssertionsHold' /\ HoldPromise' /\ RegisteredTellsTheTruth'
    BY <1>10, <2>1 DEF Swallow, lists, TypeOK, AssertionsHold, HoldPromise, RegisteredTellsTheTruth
  <2>3. SendsNest' /\ QueuesApart' /\ CalledWhileSending'
    BY <1>10, <2>1 DEF Swallow, lists, TypeOK, SendsNest, QueuesApart, CalledWhileSending
  <2>4. QED BY <2>2, <2>3
<1>11. CASE Escape
  BY <1>11 DEF Escape, lists, flags, sends, TypeOK, AssertionsHold, HoldPromise,
     RegisteredTellsTheTruth, SendsNest, QueuesApart, CalledWhileSending
<1>12. CASE UNCHANGED vars
  BY <1>12 DEF vars, lists, flags, sends, TypeOK, AssertionsHold, HoldPromise,
     RegisteredTellsTheTruth, SendsNest, QueuesApart, CalledWhileSending
<1>13. QED
  BY <1>1, <1>2, <1>3, <1>4, <1>5, <1>6, <1>7, <1>8, <1>9, <1>10, <1>11, <1>12 DEF Next

(* The bus keeps its types: every list holds listeners and every event     *)
(* type is being sent at most once at a time.                              *)
THEOREM BusTypeOK == Spec => []TypeOK
<1>1. IInv => TypeOK
  BY DEF IInv
<1>2. QED BY <1>1, InitIInv, StepIInv, PTL DEF Spec

(* None of the assertions of the event bus stops the program, for any      *)
(* number of event types, listeners and handlers.                          *)
THEOREM BusAssertionsHold == Spec => []AssertionsHold
<1>1. IInv => AssertionsHold
  BY DEF IInv
<1>2. QED BY <1>1, InitIInv, StepIInv, PTL DEF Spec

(* Both queues are empty whenever no send is in progress.                  *)
THEOREM BusHoldsPromise == Spec => []HoldPromise
<1>1. IInv => HoldPromise
  BY DEF IInv
<1>2. QED BY <1>1, InitIInv, StepIInv, PTL DEF Spec

(* isRegistered is the truth about the lists and queues of the sender.     *)
THEOREM BusRegisteredTellsTheTruth == Spec => []RegisteredTellsTheTruth
<1>1. IInv => RegisteredTellsTheTruth
  BY DEF IInv
<1>2. QED BY <1>1, InitIInv, StepIInv, PTL DEF Spec

(* No step of a handler changes the list a send is walking.                *)
THEOREM BusRegistryFrozen == Spec => RegistryFrozenWhileSending
<1>1. IInv /\ [Next]_vars
        => [\A t \in EvType : t \in busy /\ t \in busy' => registry'[t] = registry[t]]_vars
  <2> SUFFICES ASSUME IInv, Next, NEW t \in EvType, t \in busy, t \in busy'
               PROVE  registry'[t] = registry[t]
    OBVIOUS
  <2>1. ASSUME EndSend, stack # <<>>
        PROVE  registry'[t] = registry[t]
    BY <2>1 DEF EndSend, CleanupQueues, IInv, TypeOK
  <2>2. ASSUME NEW l \in Listener, ListenForEvents(l) \/ IgnoreEvents(l)
        PROVE  registry'[t] = registry[t]
    BY <2>2, BusAssumption DEF ListenForEvents, RegisterListener, IgnoreEvents, RemoveListener,
       Abort, lists, IInv, TypeOK
  <2>3. QED
    BY <2>1, <2>2 DEF Next, Send, Deliver, Return, IgnoreThisEvent, Throw, Finish, Rethrow,
       Swallow, Escape, lists
<1>2. QED BY <1>1, InitIInv, StepIInv, PTL DEF Spec, RegistryFrozenWhileSending
----------------------------------------------------------------------------
(* The listeners of type t that this send has reached and that ignore its  *)
(* event.  The listener inside a handler is one the loop has reached, so a *)
(* call of ignoreThisEvent adds one listener to the set it is counted in.  *)
Ignorers(t) == {l \in registry[t] \ toCall[t] : l \in ignoring}

CallingIsReached ==
  \A t \in EvType : calling[t] # None => calling[t] \in registry[t] \ toCall[t]

CountInv == IInv /\ CallingIsReached /\ IgnoredIsExact

(* A step that leaves the counters, the flags and what each send in        *)
(* progress has reached alone leaves the counts exact.                     *)
LEMMA SameCounts ==
  ASSUME IInv, IgnoredIsExact, busy' \subseteq busy,
         \A t \in busy' : /\ ignored'[t] = ignored[t] /\ registry'[t] = registry[t]
                          /\ toCall'[t] = toCall[t],
         ignoring' = ignoring
  PROVE  IgnoredIsExact'
<1>1. ASSUME NEW t \in busy'
      PROVE  Ignorers(t)' = Ignorers(t)
  BY <1>1 DEF Ignorers
<1>2. QED BY <1>1 DEF IgnoredIsExact, Ignorers

(* The list of a type in a send is left alone by a registration, a         *)
(* deregistration and the end of another send.                             *)
LEMMA OtherListsStay ==
  ASSUME IInv, NEW t \in EvType, t \in busy,
         \/ EndSend /\ stack # <<>> /\ t # Top
         \/ \E l \in Listener : ListenForEvents(l) \/ IgnoreEvents(l)
  PROVE  registry'[t] = registry[t] /\ toCall'[t] = toCall[t]
<1>1. ASSUME EndSend, stack # <<>>, t # Top
      PROVE  registry'[t] = registry[t] /\ toCall'[t] = toCall[t]
  BY <1>1 DEF EndSend, CleanupQueues, IInv, TypeOK
<1>2. ASSUME NEW l \in Listener, ListenForEvents(l) \/ IgnoreEvents(l)
      PROVE  registry'[t] = registry[t] /\ toCall'[t] = toCall[t]
  BY <1>2, BusAssumption DEF ListenForEvents, RegisterListener, IgnoreEvents, RemoveListener,
     Abort, lists, sends, IInv, TypeOK
<1>3. QED BY <1>1, <1>2

LEMMA EndSendCounts ==
  ASSUME CountInv, stack # <<>>, EndSend
  PROVE  CallingIsReached' /\ IgnoredIsExact'
<1>1. /\ TypeOK /\ Top \in EvType /\ busy' = busy \ {Top}
      /\ ignored' = ignored /\ ignoring' = ignoring
      /\ calling' = [calling EXCEPT ![Top] = None]
  BY PopStack DEF EndSend, CountInv, IInv
<1>2. \A t \in busy \ {Top} : registry'[t] = registry[t] /\ toCall'[t] = toCall[t]
  BY <1>1, OtherListsStay DEF CountInv, TypeOK
<1>3. \A t \in EvType : calling'[t] # None => t \in busy \ {Top} /\ calling'[t] = calling[t]
  BY <1>1 DEF TypeOK, CountInv, IInv, CalledWhileSending
<1>4. CallingIsReached'
  BY <1>2, <1>3 DEF CallingIsReached, CountInv
<1>5. IgnoredIsExact'
  BY <1>1, <1>2, SameCounts DEF CountInv
<1>6. QED BY <1>4, <1>5

LEMMA StepCountInv == CountInv /\ [Next]_vars => CountInv'
<1> SUFFICES ASSUME CountInv, [Next]_vars
             PROVE  CallingIsReached' /\ IgnoredIsExact'
  BY StepIInv DEF CountInv
<1>1. /\ IInv /\ TypeOK /\ CallingIsReached /\ IgnoredIsExact
      /\ QueuesApart /\ CalledWhileSending /\ busy \subseteq EvType
  BY DEF CountInv, IInv, TypeOK
<1>2. ASSUME NEW t \in EvType, Send(t)
      PROVE  CallingIsReached' /\ IgnoredIsExact'
  <2>1. CASE t \in busy
    BY <1>1, <1>2, <2>1, SameCounts DEF Send, sends, lists, flags, CallingIsReached
  <2>2. CASE t \notin busy
    <3>1. /\ busy' = busy \cup {t} /\ ignored' = [ignored EXCEPT ![t] = 0]
          /\ toCall' = [toCall EXCEPT ![t] = registry[t]]
          /\ registry' = registry /\ ignoring' = ignoring /\ calling' = calling
      BY <1>2, <2>2 DEF Send, lists, flags
    <3>2. calling[t] = None
      BY <1>1, <2>2 DEF CalledWhileSending
    <3>3. CallingIsReached'
      BY <1>1, <3>1, <3>2 DEF CallingIsReached, TypeOK
    <3>4. ASSUME NEW u \in busy'
          PROVE  ignored'[u] = Cardinality(Ignorers(u)')
      <4>1. CASE u = t
        <5>1. Ignorers(u)' = {} /\ ignored'[u] = 0
          BY <1>1, <3>1, <4>1 DEF Ignorers, TypeOK
        <5>2. QED BY <5>1, FS_EmptySet
      <4>2. CASE u # t
        <5>1. Ignorers(u)' = Ignorers(u) /\ ignored'[u] = ignored[u] /\ u \in busy
          BY <1>1, <3>1, <4>2 DEF Ignorers, TypeOK
        <5>2. QED BY <1>1, <5>1 DEF IgnoredIsExact, Ignorers
      <4>3. QED BY <4>1, <4>2
    <3>5. QED BY <3>3, <3>4 DEF IgnoredIsExact, Ignorers
  <2>3. QED BY <2>1, <2>2
<1>3. ASSUME NEW l \in Listener, Deliver(l)
      PROVE  CallingIsReached' /\ IgnoredIsExact'
  <2>1. /\ Top \in EvType /\ busy' = busy /\ ignored' = ignored /\ registry' = registry
        /\ calling' = [calling EXCEPT ![Top] = l] /\ l \in registry[Top]
        /\ toCall' = [toCall EXCEPT ![Top] = @ \ {l}] /\ ignoring' = ignoring \ {l}
        /\ l \in toCall[Top] /\ Hears[l] = Top
    BY <1>1, <1>3, PopStack DEF Deliver, lists, IInv, QueuesApart
  <2>2. CallingIsReached'
    BY <1>1, <2>1 DEF CallingIsReached, TypeOK
  <2>3. ASSUME NEW u \in busy
        PROVE  Ignorers(u)' = Ignorers(u)
    <3>1. CASE u = Top
      BY <1>1, <2>1, <3>1 DEF Ignorers, TypeOK
    <3>2. CASE u # Top
      <4>1. l \notin registry[u]
        BY <1>1, <2>1, <3>2 DEF QueuesApart
      <4>2. QED BY <1>1, <2>1, <3>2, <4>1 DEF Ignorers, TypeOK
    <3>3. QED BY <3>1, <3>2
  <2>4. IgnoredIsExact'
    BY <1>1, <2>1, <2>3 DEF IgnoredIsExact, Ignorers
  <2>5. QED BY <2>2, <2>4
<1>4. ASSUME NEW l \in Listener, Return(l)
      PROVE  CallingIsReached' /\ IgnoredIsExact'
  <2>1. Top \in EvType
    BY <1>1, <1>4, PopStack DEF Return, IInv
  <2>2. CallingIsReached'
    BY <1>1, <1>4, <2>1 DEF Return, lists, CallingIsReached, TypeOK
  <2>3. QED BY <1>1, <1>4, <2>2, SameCounts DEF Return, lists
<1>5. ASSUME NEW l \in Listener, ListenForEvents(l) \/ IgnoreEvents(l)
      PROVE  CallingIsReached' /\ IgnoredIsExact'
  <2>1. /\ busy' = busy /\ ignored' = ignored /\ ignoring' = ignoring /\ calling' = calling
        /\ toCall' = toCall
    BY <1>5 DEF ListenForEvents, IgnoreEvents, sends
  <2>2. \A t \in busy : registry'[t] = registry[t]
    BY <1>1, <1>5, OtherListsStay
  <2>3. CallingIsReached'
    BY <1>1, <2>1, <2>2 DEF CallingIsReached, CalledWhileSending
  <2>4. QED BY <1>1, <2>1, <2>2, <2>3, SameCounts
<1>6. ASSUME NEW l \in Listener, IgnoreThisEvent(l)
      PROVE  CallingIsReached' /\ IgnoredIsExact'
  <2> DEFINE t == Hears[l]
  <2>1. /\ t \in busy /\ t \in EvType /\ calling[t] = l /\ l # None
        /\ l \in registry[t] \ toCall[t]
    BY <1>1, <1>6, BusAssumption DEF IgnoreThisEvent, CalledWhileSending, CallingIsReached
  <2>2. /\ l \notin ignoring /\ ignored' = [ignored EXCEPT ![t] = @ + 1]
        /\ ignoring' = ignoring \cup {l}
        /\ UNCHANGED <<registry, busy, toCall, calling>>
    BY <1>6, <2>1 DEF IgnoreThisEvent, lists, sends
  <2>3. ASSUME NEW u \in busy
        PROVE  ignored'[u] = Cardinality(Ignorers(u)')
    <3>1. CASE u = t
      <4>1. Ignorers(t)' = Ignorers(t) \cup {l} /\ l \notin Ignorers(t)
        BY <2>1, <2>2 DEF Ignorers
      <4>2. IsFiniteSet(Ignorers(t))
        <5>1. Ignorers(t) \in SUBSET Listener
          BY <1>1, <2>1 DEF Ignorers, TypeOK
        <5>2. QED BY <5>1, BusAssumption, FS_Subset
      <4>3. ignored'[t] = ignored[t] + 1 /\ ignored[t] = Cardinality(Ignorers(t))
        BY <1>1, <2>1, <2>2 DEF TypeOK, IgnoredIsExact, Ignorers
      <4>4. QED BY <3>1, <4>1, <4>2, <4>3, FS_AddElement
    <3>2. CASE u # t
      <4>1. l \notin registry[u]
        BY <1>1, <2>1, <3>2 DEF QueuesApart
      <4>2. Ignorers(u)' = Ignorers(u) /\ ignored'[u] = ignored[u]
        BY <1>1, <2>1, <2>2, <3>2, <4>1 DEF Ignorers, TypeOK
      <4>3. QED BY <1>1, <4>2 DEF IgnoredIsExact, Ignorers
    <3>3. QED BY <3>1, <3>2
  <2>4. CallingIsReached'
    BY <1>1, <2>2 DEF CallingIsReached
  <2>5. QED BY <2>2, <2>3, <2>4 DEF IgnoredIsExact, Ignorers
<1>7. CASE Finish \/ Rethrow
  BY <1>7, EndSendCounts DEF Finish, Rethrow
<1>8. CASE Swallow
  <2>1. Top \in EvType
    BY <1>1, <1>8, PopStack DEF Swallow, IInv
  <2>2. CallingIsReached'
    BY <1>1, <1>8, <2>1 DEF Swallow, lists, CallingIsReached, TypeOK
  <2>3. QED BY <1>1, <1>8, <2>2, SameCounts DEF Swallow, lists
<1>9. CASE Throw \/ Escape \/ UNCHANGED vars
  BY <1>1, <1>9, SameCounts DEF Throw, Escape, vars, lists, flags, sends, CallingIsReached
<1>10. QED
  BY <1>2, <1>3, <1>4, <1>5, <1>6, <1>7, <1>8, <1>9 DEF Next

(* getMinNumIgnored is the number of listeners that have ignored the event *)
(* being sent, for any nesting of sends and any order of the calls: a      *)
(* listener counts once, and one that ignored an earlier event does not.   *)
THEOREM BusIgnoredIsExact == Spec => []IgnoredIsExact
<1>1. Init => CountInv
  BY InitIInv DEF CountInv, CallingIsReached, IgnoredIsExact, Init, IInv, TypeOK
<1>2. CountInv => IgnoredIsExact
  BY DEF CountInv
<1>3. QED BY <1>1, <1>2, StepCountInv, PTL DEF Spec
----------------------------------------------------------------------------
(* A send below the innermost one is inside a handler, and an exception in *)
(* flight was thrown by a handler of the innermost send.                   *)
HandlersNest ==
  /\ \A i \in 2 .. Len(stack) : calling[stack[i]] # None
  /\ thrown # None /\ stack # <<>> => calling[Top] # None

LEMMA PopHandlers ==
  ASSUME IInv, HandlersNest, stack # <<>>, EndSend
  PROVE  /\ \A i \in 1 .. Len(stack') : calling'[stack'[i]] # None
         /\ stack' # <<>> => calling'[Top'] # None
<1>1. /\ stack \in Seq(EvType) /\ stack' = Tail(stack)
      /\ Len(stack) \in Nat /\ Len(stack) >= 1 /\ Len(stack') = Len(stack) - 1
      /\ Top = stack[1] /\ \A i \in 1 .. Len(stack) - 1 : stack'[i] = stack[i + 1]
      /\ calling' = [calling EXCEPT ![Top] = None] /\ calling \in [EvType -> Listener \cup {None}]
  BY DEF EndSend, IInv, TypeOK, Top
<1>2. \A i, j \in 1 .. Len(stack) : stack[i] = stack[j] => i = j
  BY DistinctFrames DEF IInv
<1>3. ASSUME NEW i \in 1 .. Len(stack')
      PROVE  calling'[stack'[i]] # None
  <2>1. /\ i + 1 \in 2 .. Len(stack) /\ i + 1 \in 1 .. Len(stack) /\ 1 \in 1 .. Len(stack)
        /\ i + 1 # 1 /\ stack'[i] = stack[i + 1] /\ stack[i + 1] \in EvType
    BY <1>1
  <2>2. stack[i + 1] # Top
    BY <1>1, <1>2, <2>1
  <2>3. QED BY <1>1, <2>1, <2>2 DEF HandlersNest
<1>4. stack' # <<>> => 1 \in 1 .. Len(stack') /\ Top' = stack'[1]
  BY <1>1 DEF Top
<1>5. QED BY <1>3, <1>4

LEMMA StepHandlersNest == IInv /\ HandlersNest /\ [Next]_vars => HandlersNest'
<1> SUFFICES ASSUME IInv, HandlersNest, [Next]_vars
             PROVE  HandlersNest'
  OBVIOUS
<1>1. /\ TypeOK /\ SendsNest /\ stack \in Seq(EvType) /\ Len(stack) \in Nat
      /\ calling \in [EvType -> Listener \cup {None}]
      /\ \A i \in 1 .. Len(stack) : stack[i] \in EvType
      /\ stack # <<>> => Len(stack) >= 1 /\ Top = stack[1] /\ Top \in EvType
  BY DEF IInv, TypeOK, Top
<1>2. ASSUME NEW t \in EvType, Send(t)
      PROVE  HandlersNest'
  <2>1. calling' = calling /\ InControl
    BY <1>2 DEF Send, sends
  <2>2. CASE t \in busy
    <3>1. stack # <<>>
      BY <1>1, <2>2 DEF SendsNest
    <3>2. stack' = stack /\ calling[Top] # None
      BY <1>2, <2>1, <2>2, <3>1 DEF Send, sends, InControl
    <3>3. QED BY <2>1, <3>2 DEF HandlersNest, Top
  <2>3. CASE t \notin busy
    <3>1. stack' = <<t>> \o stack /\ thrown' = None
      BY <1>2, <2>1, <2>3 DEF Send, InControl
    <3>2. /\ Len(stack') = Len(stack) + 1 /\ stack' \in Seq(EvType)
          /\ \A i \in 2 .. Len(stack') : i - 1 \in 1 .. Len(stack) /\ stack'[i] = stack[i - 1]
      BY <1>1, <3>1
    <3>3. \A i \in 1 .. Len(stack) : calling[stack[i]] # None
      <4>1. ASSUME NEW i \in 1 .. Len(stack)
            PROVE  calling[stack[i]] # None
        <5>1. i = 1 \/ i \in 2 .. Len(stack)
          BY <1>1
        <5>2. stack # <<>>
          BY <1>1
        <5>3. QED BY <1>1, <2>1, <5>1, <5>2 DEF HandlersNest, InControl
      <4>2. QED BY <4>1
    <3>4. QED BY <2>1, <3>1, <3>2, <3>3 DEF HandlersNest
  <2>4. QED BY <2>2, <2>3
<1>3. ASSUME NEW l \in Listener, Deliver(l)
      PROVE  HandlersNest'
  BY <1>1, <1>3, BusAssumption DEF Deliver, HandlersNest, Top
<1>4. CASE (\E l \in Listener : Return(l)) \/ Swallow
  <2>1. /\ stack # <<>> /\ stack' = stack /\ thrown' = None
        /\ calling' = [calling EXCEPT ![Top] = None]
    BY <1>4 DEF Return, Swallow, InControl
  <2>2. \A i \in 2 .. Len(stack) : stack[i] # Top
    BY <1>1, <2>1, DistinctFrames
  <2>3. \A i \in 2 .. Len(stack) : calling'[stack[i]] = calling[stack[i]]
    BY <1>1, <2>1, <2>2
  <2>4. QED BY <2>1, <2>3 DEF HandlersNest
<1>5. ASSUME NEW l \in Listener, ListenForEvents(l) \/ IgnoreEvents(l) \/ IgnoreThisEvent(l)
      PROVE  HandlersNest'
  BY <1>5 DEF ListenForEvents, IgnoreEvents, IgnoreThisEvent, sends, HandlersNest, Top
<1>6. CASE Throw \/ Escape \/ UNCHANGED vars
  BY <1>6 DEF Throw, Escape, vars, sends, InControl, HandlersNest, Top
<1>7. CASE Finish \/ Rethrow
  <2>1. stack # <<>> /\ EndSend
    BY <1>7 DEF Finish, Rethrow
  <2>2. QED BY <1>1, <2>1, PopHandlers DEF HandlersNest, EndSend
<1>8. QED BY <1>2, <1>3, <1>4, <1>5, <1>6, <1>7 DEF Next

(* The list a send sets out with is the set of the listeners registered.   *)
LEMMA ListIsRegistered ==
  ASSUME IInv, NEW t \in EvType, t \notin busy
  PROVE  registry[t] = {l \in registered : Hears[l] = t}
<1>1. regQueue[t] = {} /\ remQueue[t] = {} /\ registry[t] \subseteq Listener
  BY DEF IInv, HoldPromise, TypeOK
<1>2. \A l \in registry[t] : Hears[l] = t /\ l \in registered
  BY <1>1 DEF IInv, QueuesApart, RegisteredTellsTheTruth
<1>3. \A l \in registered : Hears[l] = t => l \in registry[t]
  BY <1>1 DEF IInv, TypeOK, RegisteredTellsTheTruth
<1>4. QED BY <1>2, <1>3

promised == <<registered, busy, toCall, calling>>

LEMMA SendPromised ==
  ASSUME IInv, NEW t \in EvType, Send(t)
  PROVE  [Promise!Next]_promised
<1>1. CASE t \in busy
  BY <1>1 DEF Send, sends, flags, promised
<1>2. CASE t \notin busy
  <2>1. /\ busy' = busy \cup {t} /\ registered' = registered /\ calling' = calling
        /\ toCall' = [toCall EXCEPT ![t] = registry[t]]
    BY <1>2 DEF Send, flags
  <2>2. Promise!Begin(t)
    BY <1>2, <2>1, ListIsRegistered DEF Promise!Begin
  <2>3. QED BY <2>2 DEF Promise!Next
<1>3. QED BY <1>1, <1>2

LEMMA ListenPromised ==
  ASSUME IInv, NEW l \in Listener, ListenForEvents(l) \/ IgnoreEvents(l)
  PROVE  [Promise!Next]_promised
<1>1. /\ UNCHANGED <<busy, toCall, calling>>
      /\ registered' = registered \/ Promise!Register(l) \/ Promise!Remove(l)
  BY DEF ListenForEvents, RegisterListener, IgnoreEvents, RemoveListener, Abort, sends,
     Promise!Register, Promise!Remove
<1>2. QED BY <1>1 DEF Promise!Next, promised

LEMMA StepPromised == IInv /\ HandlersNest /\ [Next]_vars => [Promise!Next]_promised
<1> SUFFICES ASSUME IInv, HandlersNest, [Next]_vars
             PROVE  [Promise!Next]_promised
  OBVIOUS
<1>1. TypeOK /\ (stack # <<>> => Top \in EvType /\ Top \in busy)
  BY PopStack DEF IInv
<1>2. ASSUME NEW l \in Listener, Deliver(l)
      PROVE  Promise!Next
  <2>1. Hears[l] = Top
    BY <1>1, <1>2 DEF Deliver, IInv, QueuesApart
  <2>2. Promise!Call(l)
    BY <1>1, <1>2, <2>1 DEF Deliver, Promise!Call
  <2>3. QED BY <2>2 DEF Promise!Next
<1>3. CASE (\E l \in Listener : Return(l)) \/ Swallow
  <2>1. Promise!Done(Top) /\ Top \in EvType
    BY <1>1, <1>3, BusAssumption
    DEF Return, Swallow, InControl, HandlersNest, lists, Promise!Done
  <2>2. QED BY <2>1 DEF Promise!Next
<1>4. CASE Finish
  <2>1. toCall' = toCall /\ calling' = calling
    BY <1>1, <1>4 DEF Finish, EndSend, TypeOK
  <2>2. Promise!End(Top) /\ Top \in EvType
    BY <1>1, <1>4, <2>1 DEF Finish, EndSend, Promise!End
  <2>3. QED BY <2>2 DEF Promise!Next
<1>5. CASE Rethrow
  <2>1. thrown # None
    BY <1>1, <1>5, BusAssumption DEF Rethrow
  <2>2. Promise!Fail(Top) /\ Top \in EvType
    BY <1>1, <1>5, <2>1 DEF Rethrow, EndSend, HandlersNest, Promise!Fail
  <2>3. QED BY <2>2 DEF Promise!Next
<1>6. CASE (\E l \in Listener : IgnoreThisEvent(l)) \/ Throw \/ Escape \/ UNCHANGED vars
  BY <1>6 DEF IgnoreThisEvent, Throw, Escape, vars, flags, sends, promised
<1>7. QED BY <1>2, <1>3, <1>4, <1>5, <1>6, SendPromised, ListenPromised DEF Next

(* The bus implements Subscription: for any listeners and event types, an  *)
(* event reaches the listeners registered when its send began, once each,  *)
(* and only a handler that recursed ends a send before that.               *)
THEOREM BusKeepsPromise == Spec => KeepsPromise
<1>1. Init => HandlersNest /\ Promise!Init
  BY DEF Init, HandlersNest, Promise!Init
<1>2. IInv /\ HandlersNest /\ [Next]_vars => [Promise!Next]_<<registered, busy, toCall, calling>>
  BY StepPromised DEF promised
<1>3. QED
  BY <1>1, <1>2, InitIInv, StepIInv, StepHandlersNest, PTL DEF Spec, KeepsPromise, Promise!Spec
=============================================================================
