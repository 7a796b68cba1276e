------------------------ MODULE MasterPromiseProofs ------------------------
(* That the Master Daemon implements Installation: each step of one of its *)
(* threads is a step of the promise or changes nothing it speaks of.       *)
EXTENDS MasterDaemonProofs

promised == <<allClients, myHandle, sourced, overtaken > 0>>

LEMMA InitPromised == Init => Promise!Init
  BY DEF Init, Promise!Init

LEMMA SameCardinality == \A S : Promise!Cardinality(S) = Cardinality(S)
  BY DEF Promise!Cardinality, Cardinality

(* A birth keeps to the limit of its kind.                                 *)
LEMMA WithinLimit ==
  ASSUME IInv, ClieversCounted, NEW c \in Client, NEW h \in Handle,
         ClieverBirth(c, h) \/ MachineBirth(c, h) \/ InstrumentBirth(c, h)
  PROVE  Cardinality(Promise!Born(KindOf[c])) < Promise!Limit(KindOf[c])
<1>1. Promise!Born(KindOf[c]) = {g \in Handle : Alive(g) /\ allClients[g].kind = KindOf[c]}
  BY DEF Promise!Born, Alive
<1>2. CASE ClieverBirth(c, h)
  BY <1>1, <1>2 DEF ClieverBirth, ClieversCounted, Promise!Limit
<1>3. CASE MachineBirth(c, h)
  <2>1. \A g \in Handle : ~(Alive(g) /\ allClients[g].kind = "MACHINE")
    BY <1>3, Distinct DEF MachineBirth, IInv, Registered, MachineListed
  <2>2. Promise!Born(KindOf[c]) = {}
    BY <1>1, <1>3, <2>1 DEF MachineBirth
  <2>3. Cardinality(Promise!Born(KindOf[c])) = 0
    BY <2>2, FS_EmptySet
  <2> QED  BY <1>3, <2>3 DEF MachineBirth, Promise!Limit
<1>4. CASE InstrumentBirth(c, h)
  <2>1. Promise!Born(KindOf[c]) \subseteq instruments
    BY <1>1, <1>4 DEF InstrumentBirth, IInv, Registered, InstrumentsListed
  <2>2. IsFiniteSet(instruments)
    BY MasterAssumption, FS_Subset DEF IInv, TypeOK
  <2>3. /\ Cardinality(Promise!Born(KindOf[c])) <= Cardinality(instruments)
        /\ Cardinality(instruments) \in Nat
        /\ Cardinality(Promise!Born(KindOf[c])) \in Nat
    BY <2>1, <2>2, FS_Subset, FS_CardinalityType
  <2>4. Cardinality(instruments) < MaxInstruments /\ KindOf[c] = "INSTRUMENT"
    BY <1>4 DEF InstrumentBirth
  <2> QED  BY <2>3, <2>4, MasterAssumption DEF Promise!Limit
<1> QED  BY <1>2, <1>3, <1>4

LEMMA AdmitPromised ==
  ASSUME IInv, IndexIsOwn', NEW c \in Client, NEW h \in Handle, ~Alive(h), NEW i \in Idx,
         NEW cd \in Client \cup {None}, Admit(c, h, i, cd),
         Cardinality(Promise!Born(KindOf[c])) < Promise!Limit(KindOf[c])
  PROVE  Promise!Next
<1>1. /\ Alive(h)' /\ allClients'[h].kind = KindOf[c] /\ allClients'[h].idx = i
      /\ allClients'[h] = [kind |-> KindOf[c], idx |-> i]
      /\ \A g \in Handle : g # h =>
           (Alive(g)' <=> Alive(g)) /\ allClients'[g] = allClients[g]
  BY AdmitLists
<1>2. ASSUME NEW g \in Handle, allClients[g] # None, allClients[g].idx = i
      PROVE  KindOf[c] = "CD" /\ allClients[g].kind = "CD"
  <2>1. g # h /\ Alive(g)' /\ allClients'[g] = allClients[g]
    BY <1>1, <1>2 DEF Alive
  <2> QED  BY <1>1, <1>2, <2>1 DEF IndexIsOwn
<1>3. /\ allClients[h] = None
      /\ allClients' = [allClients EXCEPT ![h] = [kind |-> KindOf[c], idx |-> i]]
      /\ UNCHANGED <<myHandle, sourced, overtaken>>
  BY DEF Admit, Push, Alive, clients
<1>4. Promise!Birth(h, KindOf[c], i)
  BY <1>2, <1>3, SameCardinality DEF Promise!Birth
<1>5. KindOf[c] \in Promise!Kinds /\ i \in 0 .. MaxCliever
  BY MasterAssumption DEF Promise!Kinds, Kinds, Idx
<1> QED  BY <1>4, <1>5 DEF Promise!Next

LEMMA HeartbeatPromised ==
  ASSUME IInv, IndexIsOwn', ClieversCounted, NEW c \in Client, Heartbeat(c)
  PROVE  [Promise!Next]_promised
<1>1. CASE Stillbirth(c)
  BY <1>1 DEF Stillbirth, Push, promised, registry, clients
<1>2. ASSUME NEW h \in Handle, ~Alive(h),
             ClieverBirth(c, h) \/ MachineBirth(c, h) \/ InstrumentBirth(c, h)
      PROVE  Promise!Next
  <2>1. Cardinality(Promise!Born(KindOf[c])) < Promise!Limit(KindOf[c])
    BY <1>2, WithinLimit
  <2>2. CASE ClieverBirth(c, h)
    <3>1. Admit(c, h, 1, None) /\ 1 \in Idx
      BY <2>2, Indices DEF ClieverBirth
    <3> QED  BY <1>2, <2>1, <3>1, AdmitPromised
  <2>3. CASE MachineBirth(c, h)
    <3>1. PICK cd \in Client \cup {None} : Admit(c, h, MaxCliever, cd)
      BY <2>3 DEF MachineBirth, IInv, TypeOK
    <3> QED  BY <1>2, <2>1, <3>1, Indices, AdmitPromised
  <2>4. CASE InstrumentBirth(c, h)
    <3>1. PICK i \in Slot : Admit(c, h, i + 1, None)
      BY <2>4 DEF InstrumentBirth
    <3>2. i + 1 \in Idx
      BY Indices
    <3> QED  BY <1>2, <2>1, <3>1, <3>2, AdmitPromised
  <2> QED  BY <1>2, <2>2, <2>3, <2>4
<1>3. CASE MachineBirthCrashes(c)
  BY <1>3 DEF MachineBirthCrashes, promised, registry, queue, clients
<1> QED  BY <1>1, <1>2, <1>3 DEF Heartbeat

LEMMA QueryPromised ==
  ASSUME IInv, NEW c \in Client, NEW n \in Name, Query(c, n)
  PROVE  [Promise!Next]_promised
<1> DEFINE h == myHandle[c]
           pair == <<DeviceOf(h), n>>
<1>1. UNCHANGED <<allClients, myHandle, overtaken>>
  BY DEF Query, Push, queue
<1>2. CASE sourced' = sourced
  BY <1>1, <1>2 DEF promised
<1>3. CASE sourced' # sourced
  <2>1. /\ h # None /\ allClients[h].kind # "CD"
        /\ pair \notin sourced /\ sourced' = sourced \cup {pair}
    BY <1>3 DEF Query
  <2>2. h \in Handle /\ Alive(h)
    BY <2>1, HeldLive
  <2>3. DeviceOf(h) = h
    BY <2>2 DEF DeviceOf, IInv, Registered, MachineListed
  <2>4. Promise!Grant(h, n)
    BY <1>1, <2>1, <2>2, <2>3 DEF Promise!Grant, Alive
  <2> QED  BY <2>2, <2>4 DEF Promise!Next
<1> QED  BY <1>2, <1>3

(* As long as no push overtakes the worker, a reply that is heard again    *)
(* brings its client nothing new.                                          *)
LEMMA HearPromised ==
  ASSUME IInv, NEW d \in air, Hear(d[1], d[2])
  PROVE  [Promise!Next]_promised
<1>1. UNCHANGED <<allClients, sourced, overtaken>> /\ d[1] \in Client /\ d[2] \in Reply
  BY DEF Hear, registry, queue, IInv, TypeOK
<1>2. CASE UNCHANGED myHandle
  BY <1>1, <1>2 DEF promised
<1>3. CASE d[2].what = "NEWBORN"
  <2>1. myHandle' = [myHandle EXCEPT ![d[1]] = d[2].handle]
    BY <1>3 DEF Hear
  <2>2. Birth(d[2]) /\ d[2].handle \in Handle /\ allClients[d[2].handle] # None
    BY <1>1, <1>3 DEF IInv, Sound, BirthsHonest, HandlesLive, Birth, Reply, Alive
  <2>3. overtaken > 0 \/ \A c \in Client \ {d[1]} : myHandle[c] # d[2].handle
    <3> SUFFICES ASSUME ~(overtaken > 0), NEW c \in Client, c # d[1], myHandle[c] = d[2].handle
                 PROVE  FALSE
        OBVIOUS
    <3>1. overtaken = 0
      BY DEF IInv, TypeOK
    <3>2. PICK e \in air : e[1] = c /\ Birth(e[2]) /\ e[2].handle = d[2].handle
      BY <2>2 DEF IInv, Sound, Heard, Birth
    <3> QED  BY <2>2, <3>1, <3>2 DEF IInv, Sound, OnePlace
  <2>4. Promise!Receive(d[1], d[2].handle)
    BY <1>1, <2>1, <2>2, <2>3 DEF Promise!Receive
  <2> QED  BY <1>1, <2>2, <2>4 DEF Promise!Next
<1> QED  BY <1>2, <1>3 DEF Hear

LEMMA StepPromised == IInv /\ IndexIsOwn' /\ ClieversCounted /\ [Next]_vars => [Promise!Next]_promised
<1> SUFFICES ASSUME IInv, IndexIsOwn', ClieversCounted, [Next]_vars
             PROVE  [Promise!Next]_promised
    OBVIOUS
<1>1. CASE \/ \E r \in q : Take(r)
           \/ \E s \in stale : FollowStale(s) \/ \E r \in q \cup {s} : TakeStale(s, r)
           \/ Refuse \/ Connect \/ Send \/ Pop
           \/ \E c \in Client : ConnectCD(c)
           \/ \E c \in Client, n \in Name : QueryInVain(c, n)
  BY <1>1 DEF Take, TakeStale, FollowStale, Refuse, Connect, Send, Pop, ConnectCD, QueryInVain,
     registry, queue, clients, promised
<1>2. CASE PopAnother
  <2>1. UNCHANGED <<allClients, myHandle, sourced>> /\ overtaken' > 0
    BY <1>2 DEF PopAnother, registry, clients, IInv, TypeOK
  <2>2. Promise!Loosen
    BY <2>1 DEF Promise!Loosen
  <2> QED  BY <2>2 DEF Promise!Next
<1>3. CASE UNCHANGED vars
  BY <1>3 DEF vars, registry, queue, clients, promised
<1> QED  BY <1>1, <1>2, <1>3, HeartbeatPromised, QueryPromised, HearPromised DEF Next, Worker

(* The Master Daemon implements Installation: births within the limits,    *)
(* handles held by one client until a push overtakes the worker, and       *)
(* sources granted once, however late and often the replies are heard and  *)
(* whatever the unwritten memory holds.                                    *)
THEOREM MasterKeepsPromise == Spec => KeepsPromise
<1>1. Init => Promise!Init
  BY InitPromised
<1>2. IInv /\ IndexIsOwn' /\ ClieversCounted /\ [Next]_vars
        => [Promise!Next]_<<allClients, myHandle, sourced, overtaken > 0>>
  BY StepPromised DEF promised
<1> QED  BY <1>1, <1>2, Invariance, Counted, MasterIndexIsOwn, PTL DEF Spec, KeepsPromise, Promise!Spec
----------------------------------------------------------------------------
(* What follows from Installation alone.                                   *)
LiveType == allClients \in [Handle -> [kind : Promise!Kinds, idx : 0 .. MaxCliever] \cup {None}]

AInv == LiveType /\ myHandle \in [Client -> Handle \cup {None}] /\ Promise!Orderly

LEMMA BirthOrderly ==
  ASSUME AInv, NEW h \in Handle, NEW k \in Promise!Kinds, NEW i \in 0 .. MaxCliever,
         Promise!Birth(h, k, i)
  PROVE  AInv'
<1> DEFINE new == [kind |-> k, idx |-> i]
<1>1. /\ new # None /\ None \notin Handle
      /\ new \in [kind : Promise!Kinds, idx : 0 .. MaxCliever]
  BY Distinct DEF Live, Kinds, Idx, Promise!Kinds
<1>2. /\ allClients[h] = None /\ allClients' = [allClients EXCEPT ![h] = new]
      /\ UNCHANGED <<myHandle, sourced, overtaken > 0>>
      /\ Cardinality(Promise!Born(k)) < Promise!Limit(k)
      /\ \A g \in Handle : allClients[g] # None /\ allClients[g].idx = i
           => k = "CD" /\ allClients[g].kind = "CD"
  BY SameCardinality DEF Promise!Birth
<1>3. LiveType' /\ myHandle' \in [Client -> Handle \cup {None}]
  BY <1>1, <1>2 DEF AInv, LiveType
<1>4. /\ allClients'[h] = new /\ new.kind = k /\ new.idx = i
      /\ \A g \in Handle : g # h => allClients'[g] = allClients[g]
  BY <1>2 DEF AInv, LiveType
<1>5. Promise!WithinLimits'
  <2>1. ASSUME NEW m \in Promise!Kinds
        PROVE  Cardinality(Promise!Born(m)') <= Promise!Limit(m)
    <3>1. /\ IsFiniteSet(Promise!Born(m))
          /\ Cardinality(Promise!Born(m)) \in Nat /\ Promise!Limit(m) \in Nat
      <4>1. Promise!Born(m) \in SUBSET Handle
        BY DEF Promise!Born
      <4>2. IsFiniteSet(Promise!Born(m))
        BY <4>1, MasterAssumption, FS_Subset
      <4> QED  BY <4>2, MasterAssumption, FS_CardinalityType DEF Promise!Limit
    <3>2. CASE m = k
      <4>1. Promise!Born(m)' = Promise!Born(m) \cup {h}
        BY <1>1, <1>2, <1>4, <3>2 DEF Promise!Born
      <4>2. Cardinality(Promise!Born(m) \cup {h}) <= Cardinality(Promise!Born(m)) + 1
        BY <3>1, FS_AddElement
      <4>3. Cardinality(Promise!Born(m) \cup {h}) \in Nat
        BY <3>1, FS_AddElement, FS_CardinalityType
      <4> QED  BY <1>2, <3>1, <3>2, <4>1, <4>2, <4>3
    <3>3. CASE m # k
      <4>1. Promise!Born(m)' = Promise!Born(m)
        BY <1>2, <1>4, <3>3 DEF Promise!Born
      <4> QED  BY <4>1, SameCardinality DEF AInv, Promise!Orderly, Promise!WithinLimits
    <3> QED  BY <3>2, <3>3
  <2> QED  BY <2>1, SameCardinality DEF Promise!WithinLimits, Promise!Limit
<1>6. Promise!IndexesApart'
  BY <1>2, <1>4 DEF AInv, Promise!Orderly, Promise!IndexesApart
<1>7. Promise!HoldersApart'
  BY <1>1, <1>2, <1>4 DEF AInv, Promise!Orderly, Promise!HoldersApart
<1>8. Promise!SourcesLive'
  BY <1>1, <1>2, <1>4 DEF AInv, Promise!Orderly, Promise!SourcesLive
<1> QED  BY <1>3, <1>5, <1>6, <1>7, <1>8 DEF AInv, Promise!Orderly

LEMMA ReceiveOrderly ==
  ASSUME AInv, NEW c \in Client, NEW h \in Handle, Promise!Receive(c, h)
  PROVE  AInv'
<1>1. /\ allClients[h] # None /\ myHandle' = [myHandle EXCEPT ![c] = h]
      /\ overtaken > 0 \/ \A d \in Client \ {c} : myHandle[d] # h
      /\ UNCHANGED <<allClients, sourced, overtaken > 0>>
  BY DEF Promise!Receive
<1>2. LiveType' /\ myHandle' \in [Client -> Handle \cup {None}]
  BY <1>1 DEF AInv, LiveType
<1>3. Promise!HoldersApart'
  BY <1>1 DEF AInv, Promise!Orderly, Promise!HoldersApart
<1>4. Promise!WithinLimits' /\ Promise!IndexesApart' /\ Promise!SourcesLive'
  BY <1>1 DEF AInv, Promise!Orderly, Promise!WithinLimits, Promise!Born, Promise!IndexesApart,
     Promise!SourcesLive
<1> QED  BY <1>2, <1>3, <1>4 DEF AInv, Promise!Orderly

LEMMA StepOrderly == AInv /\ [Promise!Next]_promised => AInv'
<1> SUFFICES ASSUME AInv, [Promise!Next]_promised
             PROVE  AInv'
    OBVIOUS
<1>1. ASSUME NEW h \in Handle, NEW n \in Name, Promise!Grant(h, n)
      PROVE  AInv'
  BY <1>1 DEF Promise!Grant, AInv, LiveType, Promise!Orderly, Promise!WithinLimits, Promise!Born,
     Promise!IndexesApart, Promise!HoldersApart, Promise!SourcesLive
<1>2. CASE Promise!Loosen
  BY <1>2 DEF Promise!Loosen, AInv, LiveType, Promise!Orderly, Promise!WithinLimits, Promise!Born,
     Promise!IndexesApart, Promise!HoldersApart, Promise!SourcesLive
<1>3. CASE UNCHANGED promised
  BY <1>3 DEF promised, AInv, LiveType, Promise!Orderly, Promise!WithinLimits, Promise!Born,
     Promise!IndexesApart, Promise!HoldersApart, Promise!SourcesLive
<1> QED  BY <1>1, <1>2, <1>3, BirthOrderly, ReceiveOrderly DEF Promise!Next

LEMMA InitOrderly == Promise!Init => AInv
<1> SUFFICES ASSUME Promise!Init PROVE AInv
    OBVIOUS
<1>1. Promise!WithinLimits
  <2>1. \A k \in Promise!Kinds : Promise!Born(k) = {}
    BY DEF Promise!Init, Promise!Born
  <2> QED  BY <2>1, FS_EmptySet, SameCardinality, MasterAssumption
           DEF Promise!WithinLimits, Promise!Limit
<1> QED  BY <1>1 DEF Promise!Init, AInv, LiveType, Promise!Orderly, Promise!IndexesApart,
            Promise!HoldersApart, Promise!SourcesLive

(* An installation run by the Master Daemon stays orderly: it has one      *)
(* machine at most and no more Clievers and instruments than there is room *)
(* for, no two devices with one index, no two clients with one handle      *)
(* unless a push overtook the worker, and every source is a device that    *)
(* was born.  This follows from Installation alone, whatever else          *)
(* implements it.                                                          *)
THEOREM MasterOrderly == Spec => []Promise!Orderly
<1>1. AInv => Promise!Orderly
  BY DEF AInv
<1>2. AInv /\ [Promise!Next]_<<allClients, myHandle, sourced, overtaken > 0>> => AInv'
  BY StepOrderly DEF promised
<1> QED  BY <1>1, <1>2, InitOrderly, MasterKeepsPromise, PTL DEF KeepsPromise, Promise!Spec
=============================================================================
