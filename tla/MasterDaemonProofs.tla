------------------------- MODULE MasterDaemonProofs -------------------------
(* Proofs about the Master Daemon, for any clients, handles, names and     *)
(* limits the assumption allows, and any content of unwritten memory.      *)
EXTENDS MasterDaemon, FiniteSetTheorems, TLAPS

(* The worker has a reply in hand exactly while it is not idle, and once a *)
(* back channel is open it has somebody to send to.                        *)
WorkerAgrees ==
  /\ step = "idle" <=> inHand = None
  /\ opened # {} \/ step \in {"recheck", "send"} => active # None

(* The index of a live client, of a reply and of the MD has its block.     *)
Blocks ==
  /\ 0 \in cb
  /\ \A h \in Handle : Alive(h) => allClients[h].idx \in cb
  /\ \A r \in Pending : r.idx \in cb

(* Every handle that is on its way is in allClients.                       *)
HandlesLive ==
  /\ \A r \in Pending : r.handle # None => Alive(r.handle)
  /\ \A d \in air : d[2].handle # None => Alive(d[2].handle)

(* The index of a client by its kind.                                      *)
KindsIndexed ==
  \A h \in Handle : Alive(h) =>
    /\ allClients[h].kind = "CD" => allClients[h].idx = 1
    /\ allClients[h].kind = "MACHINE" => allClients[h].idx = MaxCliever

Registered == InstrumentsListed /\ SlotsListed /\ MachineListed /\ KindsIndexed

Birth(r) == r.what = "NEWBORN" /\ r.handle # None

(* The reply of a birth succeeds exactly if it has a handle, and no reply  *)
(* that failed is sent as a success.                                       *)
BirthsHonest ==
  /\ \A r \in Pending : r.what = "NEWBORN" => (r.ok <=> r.handle # None)
  /\ \A d \in air : d[2].what = "NEWBORN" => Birth(d[2])

(* A client has its handle from a reply that was sent to it.               *)
Heard ==
  \A c \in Client : myHandle[c] # None =>
    \E d \in air : d[1] = c /\ Birth(d[2]) /\ d[2].handle = myHandle[c]

(* As long as the worker drops what it sends, one reply at most has yet to *)
(* bring a handle, none of a handle that was sent, and that one went to    *)
(* one client.                                                             *)
OnePlace ==
  overtaken = 0 =>
    /\ stale = {}
    /\ \A r, s \in Unsent : Birth(r) /\ Birth(s) /\ r.handle = s.handle => r = s
    /\ step \in {"connect", "recheck", "send"} /\ Birth(inHand) => inHand \notin q
    /\ \A r \in Unsent, d \in air : Birth(r) /\ Birth(d[2]) => d[2].handle # r.handle
    /\ \A d, e \in air :
         Birth(d[2]) /\ Birth(e[2]) /\ d[2].handle = e[2].handle => d[1] = e[1]

QueueTypes ==
  /\ q \subseteq Reply /\ above \in q \cup {None} /\ (inHand = None => above = None)
  /\ stale \subseteq Reply /\ overtaken \in Nat

Sound == /\ Blocks /\ HandlesLive /\ BirthsHonest /\ Heard /\ OnePlace

IInv == TypeOK /\ WorkerAgrees /\ Registered /\ Sound

----------------------------------------------------------------------------
LEMMA Distinct ==
  /\ None \notin Client /\ None \notin Handle /\ None \notin Name
  /\ None \notin Live /\ None \notin Reply
  /\ Stray \notin Client /\ Stray \notin Handle /\ Stray # None
  BY MasterAssumption

LEMMA Indices == 0 \in Idx /\ 1 \in Idx /\ MaxCliever \in Idx
                 /\ \A i \in Slot : i + 1 \in Idx /\ i + 1 # MaxCliever /\ i + 1 # 1
  BY MasterAssumption DEF Idx, Slot

LEMMA InitIInv == Init => IInv
<1> SUFFICES ASSUME Init PROVE IInv
    OBVIOUS
<1>1. TypeOK
  <2>1. /\ cliever \in Client \cup {None, Stray}
        /\ machine \in Handle \cup {None, Stray}
    BY MasterAssumption DEF Init
  <2>2. nClievers \in 0 .. MaxCliever /\ cb \subseteq Idx /\ opened \subseteq cb
    BY MasterAssumption, Indices DEF Init
  <2> QED  BY <2>1, <2>2 DEF Init, TypeOK
<1>2. Pending = {} /\ Unsent = {} /\ air = {} /\ \A h \in Handle : ~Alive(h)
  BY DEF Init, Pending, Unsent, Alive
<1>3. WorkerAgrees
  BY DEF Init, WorkerAgrees
<1>4. Registered
  <2>1. \A h \in Handle : machine # h
    BY MasterAssumption, Distinct DEF Init
  <2> QED  BY <1>2, <2>1 DEF Init, Registered, InstrumentsListed, SlotsListed,
              MachineListed, KindsIndexed
<1>5. Sound
  BY <1>2 DEF Init, Sound, Blocks, HandlesLive, BirthsHonest, Heard, OnePlace
<1> QED  BY <1>1, <1>3, <1>4, <1>5 DEF IInv

LEMMA NewbornType ==
  ASSUME NEW c \in Client, NEW h \in Handle \cup {None}, NEW i \in Idx,
         NEW cd \in Client \cup {None}
  PROVE  Newborn(c, h, i, cd) \in Reply
  BY DEF Newborn, Reply

(* A reply that is queued, while the worker stands where it stood.         *)
LEMMA Pushed ==
  ASSUME TypeOK, NEW r \in Reply, Push(r), UNCHANGED <<inHand, step>>
  PROVE  /\ q' = q \cup {r} /\ UNCHANGED <<stale, overtaken>>
         /\ QueueTypes' /\ Pending' = Pending \cup {r} /\ Unsent' = Unsent \cup {r}
<1>1. q' = q \cup {r} /\ UNCHANGED <<stale, overtaken>>
  BY DEF Push
<1>2. QueueTypes'
  BY <1>1 DEF Push, TypeOK, QueueTypes
<1> QED  BY <1>1, <1>2 DEF Pending, Unsent

(* What every birth has in common keeps all but the lists of devices.      *)
LEMMA AdmitKeeps ==
  ASSUME IInv, NEW c \in Client, NEW h \in Handle, ~Alive(h), NEW i \in Idx,
         NEW cd \in Client \cup {None}, Admit(c, h, i, cd)
  PROVE  /\ allClients' \in [Handle -> Live \cup {None}]
         /\ cb' \subseteq Idx /\ opened' \subseteq cb' /\ QueueTypes'
         /\ WorkerAgrees' /\ Sound'
<1> DEFINE n == Newborn(c, h, i, cd)
           live == [kind |-> KindOf[c], idx |-> i]
<1>1. live \in Live /\ live # None
  BY MasterAssumption, Distinct DEF Live
<1>2. n \in Reply /\ n.what = "NEWBORN" /\ n.handle = h /\ n.idx = i /\ n.ok = (h # None)
  BY NewbornType DEF Newborn
<1>3. /\ allClients' = [allClients EXCEPT ![h] = live]
      /\ cb' = cb \cup {i} /\ opened' = opened \ {i} /\ Push(n)
      /\ UNCHANGED <<inHand, step, active, air, myHandle>>
  BY DEF Admit, clients
<1> HIDE DEF n
<1>4. /\ q' = q \cup {n} /\ UNCHANGED <<stale, overtaken>>
      /\ QueueTypes' /\ Pending' = Pending \cup {n} /\ Unsent' = Unsent \cup {n}
  BY <1>2, <1>3, Pushed DEF IInv
<1>5. allClients' \in [Handle -> Live \cup {None}] /\ cb' \subseteq Idx /\ opened' \subseteq cb'
  BY <1>1, <1>3 DEF IInv, TypeOK
<1>6. \A g \in Handle : /\ g # h => allClients'[g] = allClients[g] /\ Alive(g)' = Alive(g)
                        /\ allClients'[h] = live /\ Alive(h)'
  BY <1>1, <1>3 DEF Alive, IInv, TypeOK
<1>7. WorkerAgrees'
  BY <1>3 DEF IInv, WorkerAgrees
<1>8. Blocks'
  BY <1>2, <1>3, <1>4, <1>6 DEF IInv, Sound, Blocks
<1>9. Unsent \subseteq Pending /\ Unsent \subseteq Reply /\ Pending \subseteq Reply
      /\ air \subseteq Client \X Reply
  BY DEF IInv, TypeOK, WorkerAgrees, Pending, Unsent
<1>10. HandlesLive'
  <2>1. ASSUME NEW r \in Reply, r.handle # None, Alive(r.handle) PROVE Alive(r.handle)'
    <3>1. r.handle \in Handle
      BY <2>1 DEF Reply
    <3> QED  BY <1>6, <2>1, <3>1
  <2>2. \A d \in air : d[2] \in Reply
    BY <1>9
  <2> QED  BY <1>2, <1>3, <1>4, <1>6, <1>9, <2>1, <2>2 DEF IInv, Sound, HandlesLive
<1>11. /\ \A r \in Pending : r.handle # h
       /\ \A d \in air : d[2].handle # h
  BY Distinct DEF IInv, Sound, HandlesLive
<1>12. OnePlace'
  <2> SUFFICES ASSUME overtaken = 0
               PROVE  /\ stale' = {}
                      /\ \A r, s \in Unsent' : Birth(r) /\ Birth(s) /\ r.handle = s.handle => r = s
                      /\ step \in {"connect", "recheck", "send"} /\ Birth(inHand) => inHand \notin q'
                      /\ \A r \in Unsent', d \in air :
                           Birth(r) /\ Birth(d[2]) => d[2].handle # r.handle
                      /\ \A d, e \in air :
                           Birth(d[2]) /\ Birth(e[2]) /\ d[2].handle = e[2].handle => d[1] = e[1]
      BY <1>3, <1>4 DEF OnePlace, Birth
  <2>1. \A r, s \in Unsent' : Birth(r) /\ Birth(s) /\ r.handle = s.handle => r = s
    BY <1>2, <1>4, <1>9, <1>11 DEF IInv, Sound, OnePlace
  <2>2. ASSUME step \in {"connect", "recheck", "send"}, Birth(inHand) PROVE inHand \notin q'
    <3>1. inHand \in Pending /\ inHand \notin q
      BY <2>2 DEF Pending, IInv, WorkerAgrees, Sound, OnePlace
    <3> QED  BY <1>2, <1>4, <1>11, <3>1
  <2>3. \A r \in Unsent', d \in air : Birth(r) /\ Birth(d[2]) => d[2].handle # r.handle
    BY <1>2, <1>4, <1>11 DEF IInv, Sound, OnePlace
  <2> QED  BY <1>4, <2>1, <2>2, <2>3 DEF IInv, Sound, OnePlace
<1>13. BirthsHonest'
  BY <1>2, <1>3, <1>4, Distinct DEF IInv, Sound, BirthsHonest, Birth
<1>14. Heard'
  BY <1>3 DEF IInv, Sound, Heard, Birth
<1> QED  BY <1>4, <1>5, <1>7, <1>8, <1>10, <1>12, <1>13, <1>14 DEF Sound

(* ... and the lists of devices, seen through allClients.                  *)
LEMMA AdmitLists ==
  ASSUME IInv, NEW c \in Client, NEW h \in Handle, ~Alive(h), NEW i \in Idx,
         NEW cd \in Client \cup {None}, Admit(c, h, i, cd)
  PROVE  /\ Alive(h)' /\ allClients'[h].kind = KindOf[c] /\ allClients'[h].idx = i
         /\ allClients'[h] = [kind |-> KindOf[c], idx |-> i]
         /\ \A g \in Handle : g # h =>
              (Alive(g)' <=> Alive(g)) /\ allClients'[g] = allClients[g]
<1> DEFINE live == [kind |-> KindOf[c], idx |-> i]
<1>1. live \in Live /\ live # None
  BY MasterAssumption, Distinct DEF Live
<1>2. allClients' = [allClients EXCEPT ![h] = live] /\ allClients \in [Handle -> Live \cup {None}]
  BY DEF Admit, IInv, TypeOK
<1>3. allClients'[h] = live /\ \A g \in Handle : g # h => allClients'[g] = allClients[g]
  BY <1>2
<1> QED  BY <1>1, <1>3 DEF Alive

LEMMA ClieverBirthIInv ==
  ASSUME IInv, NEW c \in Client, NEW h \in Handle, ~Alive(h), ClieverBirth(c, h)
  PROVE  IInv'
<1> USE DEF ClieverBirth
<1>1. Admit(c, h, 1, None)
  OBVIOUS
<1>2. /\ allClients' \in [Handle -> Live \cup {None}]
      /\ cb' \subseteq Idx /\ opened' \subseteq cb' /\ QueueTypes'
      /\ WorkerAgrees' /\ Sound'
  BY <1>1, AdmitKeeps, Indices
<1>3. TypeOK'
  <2>1. nClievers' \in 0 .. MaxCliever
    BY MasterAssumption DEF IInv, TypeOK
  <2> QED  BY <1>1, <1>2, <2>1 DEF IInv, TypeOK, QueueTypes, Admit, clients
<1>4. Registered'
  <2>1. /\ allClients'[h].kind = "CD" /\ allClients'[h].idx = 1 /\ Alive(h)'
        /\ \A g \in Handle : g # h =>
             (Alive(g)' <=> Alive(g)) /\ allClients'[g] = allClients[g]
    <3>1. KindOf[c] = "CD" /\ 1 \in Idx /\ None \in Client \cup {None}
      BY Indices
    <3>2. /\ allClients'[h] = [kind |-> "CD", idx |-> 1] /\ Alive(h)'
          /\ \A g \in Handle : g # h =>
               (Alive(g)' <=> Alive(g)) /\ allClients'[g] = allClients[g]
      BY <1>1, <3>1, AdmitLists
    <3> QED  BY <3>2
  <2>2. /\ machine' = machine /\ instruments' = instruments /\ slots' = slots
        /\ slots \in [Slot -> Handle \cup {None}] /\ machine # h
    BY DEF IInv, TypeOK, Registered, MachineListed
  <2>3. InstrumentsListed' /\ MachineListed' /\ KindsIndexed'
    BY <2>1, <2>2 DEF IInv, Registered, InstrumentsListed, MachineListed, KindsIndexed
  <2>4. SlotsListed'
    BY <2>1, <2>2 DEF IInv, Registered, SlotsListed
  <2> QED  BY <2>3, <2>4 DEF Registered
<1> QED  BY <1>2, <1>3, <1>4 DEF IInv

LEMMA MachineBirthIInv ==
  ASSUME IInv, NEW c \in Client, NEW h \in Handle, ~Alive(h), MachineBirth(c, h)
  PROVE  IInv'
<1> DEFINE cd == IF cliever = Stray THEN None ELSE cliever
<1>1. Admit(c, h, MaxCliever, cd) /\ cd \in Client \cup {None}
  BY DEF MachineBirth, IInv, TypeOK
<1>2. /\ allClients' \in [Handle -> Live \cup {None}]
      /\ cb' \subseteq Idx /\ opened' \subseteq cb' /\ QueueTypes'
      /\ WorkerAgrees' /\ Sound'
  BY <1>1, AdmitKeeps, Indices
<1>3. TypeOK'
  BY <1>1, <1>2 DEF IInv, TypeOK, QueueTypes, Admit, clients, MachineBirth
<1>4. Registered'
  <2>1. /\ allClients'[h].kind = "MACHINE" /\ allClients'[h].idx = MaxCliever /\ Alive(h)'
        /\ \A g \in Handle : g # h =>
             (Alive(g)' <=> Alive(g)) /\ allClients'[g] = allClients[g]
    <3>1. KindOf[c] = "MACHINE" /\ MaxCliever \in Idx
      BY Indices DEF MachineBirth
    <3>2. /\ allClients'[h] = [kind |-> "MACHINE", idx |-> MaxCliever] /\ Alive(h)'
          /\ \A g \in Handle : g # h =>
               (Alive(g)' <=> Alive(g)) /\ allClients'[g] = allClients[g]
      BY <1>1, <3>1, AdmitLists
    <3> QED  BY <3>2
  <2>2. /\ machine' = h /\ machine = None /\ instruments' = instruments /\ slots' = slots
        /\ slots \in [Slot -> Handle \cup {None}]
    BY DEF IInv, TypeOK, MachineBirth
  <2>3. \A g \in Handle : Alive(g) => allClients[g].kind # "MACHINE"
    BY <2>2, Distinct DEF IInv, Registered, MachineListed
  <2>4. InstrumentsListed' /\ KindsIndexed'
    BY <2>1, <2>2 DEF IInv, Registered, InstrumentsListed, KindsIndexed
  <2>5. MachineListed'
    BY <2>1, <2>2, <2>3 DEF MachineListed
  <2>6. SlotsListed'
    BY <2>1, <2>2 DEF IInv, Registered, SlotsListed
  <2> QED  BY <2>4, <2>5, <2>6 DEF Registered
<1> QED  BY <1>2, <1>3, <1>4 DEF IInv

LEMMA InstrumentBirthIInv ==
  ASSUME IInv, NEW c \in Client, NEW h \in Handle, ~Alive(h), InstrumentBirth(c, h)
  PROVE  IInv'
<1>1. PICK i \in Slot : /\ slots[i] = None
                        /\ slots' = [slots EXCEPT ![i] = h]
                        /\ Admit(c, h, i + 1, None)
  BY DEF InstrumentBirth
<1>2. /\ allClients' \in [Handle -> Live \cup {None}]
      /\ cb' \subseteq Idx /\ opened' \subseteq cb' /\ QueueTypes'
      /\ WorkerAgrees' /\ Sound'
  BY <1>1, AdmitKeeps, Indices
<1>3. TypeOK'
  <2>1. slots' \in [Slot -> Handle \cup {None}] /\ instruments' \subseteq Handle
    BY <1>1 DEF IInv, TypeOK, InstrumentBirth
  <2> QED  BY <1>1, <1>2, <2>1 DEF IInv, TypeOK, QueueTypes, Admit, clients, InstrumentBirth
<1>4. Registered'
  <2>1. /\ allClients'[h] = [kind |-> "INSTRUMENT", idx |-> i + 1]
        /\ allClients'[h].kind = "INSTRUMENT" /\ allClients'[h].idx = i + 1 /\ Alive(h)'
        /\ \A g \in Handle : g # h =>
             (Alive(g)' <=> Alive(g)) /\ allClients'[g] = allClients[g]
    BY <1>1, AdmitLists, Indices DEF InstrumentBirth
  <2>2. /\ machine' = machine /\ instruments' = instruments \cup {h}
        /\ machine # h
        /\ slots'[i] = h /\ \A j \in Slot : j # i => slots'[j] = slots[j]
        /\ \A j \in Slot : slots[j] # None => slots[j] \in Handle /\ slots[j] # h
    BY <1>1 DEF IInv, TypeOK, Registered, MachineListed, SlotsListed, InstrumentBirth
  <2>3. MachineListed' /\ KindsIndexed'
    BY <2>1, <2>2 DEF IInv, Registered, MachineListed, KindsIndexed
  <2>4. SlotsListed'
    BY <2>1, <2>2 DEF IInv, Registered, SlotsListed
  <2>5. InstrumentsListed'
    <3> SUFFICES ASSUME NEW g \in Handle, Alive(g)', allClients'[g].kind = "INSTRUMENT"
                 PROVE  /\ g \in instruments'
                        /\ \E j \in Slot : slots'[j] = g /\ allClients'[g].idx = j + 1
        BY DEF InstrumentsListed
    <3>1. CASE g = h
      BY <2>1, <2>2, <3>1
    <3>2. CASE g # h
      <4>1. g \in instruments /\ \E j \in Slot : slots[j] = g /\ allClients[g].idx = j + 1
        BY <2>1, <3>2 DEF IInv, Registered, InstrumentsListed
      <4>2. PICK j \in Slot : slots[j] = g /\ allClients[g].idx = j + 1
        BY <4>1
      <4>3. j # i
        BY <1>1, <4>2, Distinct
      <4> QED  BY <2>1, <2>2, <3>2, <4>1, <4>2, <4>3
    <3> QED  BY <3>1, <3>2
  <2> QED  BY <2>3, <2>4, <2>5 DEF Registered
<1> QED  BY <1>2, <1>3, <1>4 DEF IInv

(* A step that leaves the lists of devices alone keeps what they say.      *)
LEMMA SameLists ==
  ASSUME IInv, UNCHANGED <<allClients, machine, slots>>, instruments \subseteq instruments'
  PROVE  Registered'
  BY DEF IInv, Registered, InstrumentsListed, SlotsListed, MachineListed,
         KindsIndexed, Alive

(* A new reply that is about no new handle.                                *)
LEMMA ReplyKeeps ==
  ASSUME IInv, NEW r \in Reply, ~Birth(r), r.what = "NEWBORN" => ~r.ok,
         r.idx \in cb, r.handle # None => Alive(r.handle), Push(r),
         UNCHANGED <<allClients, cb, inHand, step, air, myHandle>>
  PROVE  QueueTypes' /\ Sound'
<1>1. /\ q' = q \cup {r} /\ UNCHANGED <<stale, overtaken>>
      /\ QueueTypes' /\ Pending' = Pending \cup {r} /\ Unsent' = Unsent \cup {r}
  BY Pushed DEF IInv
<1>2. \A h : Alive(h)' = Alive(h)
  BY DEF Alive
<1>3. Blocks' /\ HandlesLive'
  BY <1>1, <1>2 DEF IInv, Sound, Blocks, HandlesLive
<1>4. OnePlace'
  BY <1>1 DEF IInv, Sound, OnePlace, Birth
<1>5. BirthsHonest' /\ Heard'
  BY <1>1 DEF IInv, Sound, BirthsHonest, Heard, Birth
<1> QED  BY <1>1, <1>3, <1>4, <1>5 DEF Sound

LEMMA StillbirthIInv ==
  ASSUME IInv, NEW c \in Client, Stillbirth(c)
  PROVE  IInv'
<1> DEFINE r == Newborn(c, None, 0, None)
<1>1. r \in Reply /\ r.handle = None /\ r.idx = 0 /\ ~r.ok
  BY NewbornType, Indices DEF Newborn
<1>2. Push(r) /\ UNCHANGED <<registry, cb, sourced, worker, crashed, air, clients>>
  BY DEF Stillbirth
<1> HIDE DEF r
<1>3. QueueTypes' /\ Sound'
  <2>1. r.idx \in cb /\ ~Birth(r)
    BY <1>1 DEF IInv, Sound, Blocks, Birth
  <2>2. UNCHANGED <<allClients, cb, inHand, step, air, myHandle>>
    BY <1>2 DEF registry, worker, clients
  <2> QED  BY <1>1, <1>2, <2>1, <2>2, ReplyKeeps
<1>4. TypeOK'
  BY <1>2, <1>3 DEF IInv, TypeOK, QueueTypes, registry, worker, clients
<1>5. Registered' /\ WorkerAgrees'
  BY <1>2, SameLists DEF registry, worker, IInv, WorkerAgrees
<1> QED  BY <1>3, <1>4, <1>5 DEF IInv

(* A client's handle is one of a client that was born.                     *)
LEMMA HeldLive ==
  ASSUME IInv, NEW c \in Client, myHandle[c] # None
  PROVE  myHandle[c] \in Handle /\ Alive(myHandle[c])
  BY DEF IInv, TypeOK, Sound, Heard, HandlesLive

(* The device a granted name is put under is one with a handle.            *)
LEMMA DeviceOfType ==
  ASSUME IInv, NEW h \in Handle, Alive(h)
  PROVE  DeviceOf(h) \in Handle
  BY DEF IInv, Registered, MachineListed, DeviceOf

LEMMA QueryIInv ==
  ASSUME IInv, NEW c \in Client, NEW n \in Name, Query(c, n)
  PROVE  IInv'
<1> DEFINE h == myHandle[c]
           granted == n \in Known /\ <<DeviceOf(h), n>> \notin sourced
           r == Answer(c, h, n, granted)
<1>1. h \in Handle /\ Alive(h) /\ h # None
  BY HeldLive DEF Query
<1>2. allClients[h] \in Live
  BY <1>1 DEF Alive, IInv, TypeOK
<1>3. /\ UNCHANGED <<allClients, cliever, nClievers, machine, slots, cb, worker, air,
                     myHandle, cdAddress, cdConnected>>
      /\ asked' = [asked EXCEPT ![c] = n]
  BY DEF Query
<1>4. UNCHANGED <<inHand, step, active, opened>>
  BY <1>3 DEF worker
<1>5. asked' \in [Client -> Name \cup {None}]
  BY <1>3 DEF IInv, TypeOK
<1>6. WorkerAgrees'
  BY <1>4 DEF IInv, WorkerAgrees
<1>7. CASE allClients[h].kind = "CD"
  <2>1. /\ instruments' = instruments \cup {h} /\ crashed' = TRUE
        /\ UNCHANGED <<sourced, q, above, stale, overtaken>>
    BY <1>7 DEF Query, queue
  <2>2. TypeOK'
    BY <1>1, <1>3, <1>4, <1>5, <2>1 DEF IInv, TypeOK
  <2>3. Registered'
    BY <1>3, <2>1, SameLists
  <2>4. Pending' = Pending /\ Unsent' = Unsent
    BY <1>4, <2>1 DEF Pending, Unsent
  <2>5. Sound'
    BY <1>3, <1>4, <2>1, <2>4 DEF IInv, Sound, Blocks, HandlesLive, OnePlace, Birth, BirthsHonest,
       Heard, Alive
  <2> QED  BY <1>6, <2>2, <2>3, <2>5 DEF IInv
<1>8. CASE allClients[h].kind # "CD"
  <2>1. /\ sourced' = IF granted THEN sourced \cup {<<DeviceOf(h), n>>} ELSE sourced
        /\ Push(r) /\ UNCHANGED <<instruments, crashed>>
    BY <1>8 DEF Query
  <2>2. /\ r \in Reply /\ r.what = "MDQUERY" /\ r.handle = h /\ r.idx = allClients[h].idx
    <3>1. allClients[h].idx \in Idx
      BY <1>2 DEF Live
    <3>2. granted \in BOOLEAN
      OBVIOUS
    <3> HIDE DEF granted, h
    <3> QED  BY <1>1, <3>1, <3>2 DEF Answer, Reply
  <2>3. QueueTypes' /\ Sound'
    <3>1. r.idx \in cb /\ ~Birth(r) /\ Alive(r.handle)
      BY <1>1, <2>2 DEF IInv, Sound, Blocks, Birth
    <3> HIDE DEF r
    <3> QED  BY <1>3, <1>4, <2>1, <2>2, <3>1, ReplyKeeps
  <2>4. sourced' \subseteq Handle \X Name
    <3>1. DeviceOf(h) \in Handle
      BY <1>1, DeviceOfType
    <3> HIDE DEF granted, h
    <3> QED  BY <2>1, <3>1 DEF IInv, TypeOK
  <2>5. TypeOK'
    BY <1>3, <1>4, <1>5, <2>1, <2>3, <2>4 DEF IInv, TypeOK, QueueTypes
  <2>6. Registered'
    BY <1>3, <2>1, SameLists
  <2> QED  BY <1>6, <2>3, <2>5, <2>6 DEF IInv
<1> QED  BY <1>7, <1>8

(* A step that neither queues, sends nor hears a reply changes little.     *)
LEMMA WorkerLists ==
  ASSUME IInv, UNCHANGED <<registry, cb, air, myHandle>>, Pending' \subseteq Pending
  PROVE  Registered' /\ Blocks' /\ HandlesLive' /\ BirthsHonest' /\ Heard'
<1>1. Registered'
  BY SameLists DEF registry
<1>2. \A h : Alive(h)' = Alive(h)
  BY DEF registry, Alive
<1>3. Blocks' /\ HandlesLive'
  BY <1>2 DEF IInv, Sound, Blocks, HandlesLive, registry
<1>4. BirthsHonest' /\ Heard'
  BY DEF IInv, Sound, BirthsHonest, Heard, Birth
<1> QED  BY <1>1, <1>3, <1>4

(* What has yet to be sent, and what was, stays as much in one place.      *)
LEMMA PlaceKept ==
  ASSUME OnePlace, UNCHANGED <<overtaken, air>>, stale' \subseteq stale, Unsent' \subseteq Unsent,
         step' \in {"connect", "recheck", "send"} /\ Birth(inHand') => inHand' \notin q'
  PROVE  OnePlace'
<1>1. \A r : Birth(r)' = Birth(r)
  BY DEF Birth
<1> QED  BY <1>1 DEF OnePlace, Birth

(* A device that connects, or asks in vain, changes none of the lists, nor *)
(* does a heartbeat that crashes the daemon.                               *)
LEMMA DeviceIInv ==
  ASSUME IInv, NEW c \in Client,
         ConnectCD(c) \/ MachineBirthCrashes(c) \/ \E n \in Name : QueryInVain(c, n)
  PROVE  IInv'
<1>1. UNCHANGED <<registry, cb, sourced, queue, worker, air, myHandle, cdAddress>>
  BY DEF ConnectCD, MachineBirthCrashes, QueryInVain, clients
<1>2. UNCHANGED <<q, above, stale, overtaken, inHand, step, active, opened>>
  BY <1>1 DEF queue, worker
<1>3. Pending' = Pending /\ Unsent' = Unsent
  BY <1>2 DEF Pending, Unsent
<1>4. /\ asked' \in [Client -> Name \cup {None}] /\ cdConnected' \subseteq Client
      /\ crashed' \in BOOLEAN
  BY DEF ConnectCD, MachineBirthCrashes, QueryInVain, clients, IInv, TypeOK
<1>5. TypeOK'
  BY <1>1, <1>2, <1>4 DEF IInv, TypeOK, registry
<1>6. Registered' /\ Blocks' /\ HandlesLive' /\ BirthsHonest' /\ Heard'
  BY <1>1, <1>3, WorkerLists
<1>7. WorkerAgrees'
  BY <1>2 DEF IInv, WorkerAgrees
<1>8. OnePlace'
  BY <1>1, <1>2, <1>3 DEF IInv, Sound, OnePlace, Birth
<1> QED  BY <1>5, <1>6, <1>7, <1>8 DEF IInv, Sound

LEMMA TakeIInv ==
  ASSUME IInv, NEW r \in q, Take(r)
  PROVE  IInv'
<1>1. /\ inHand = None /\ q' = q \ {r} /\ inHand' = r /\ step' = "connect" /\ step = "idle"
      /\ above = None
      /\ UNCHANGED <<registry, cb, sourced, above, stale, overtaken, active, opened, crashed,
                     air, clients>>
  BY DEF Take, IInv, TypeOK, WorkerAgrees
<1>2. r \in Reply /\ r # None
  BY Distinct DEF IInv, TypeOK
<1>3. Pending' = Pending /\ Unsent' = Unsent
  BY <1>1, <1>2 DEF Pending, Unsent
<1>4. TypeOK'
  BY <1>1, <1>2 DEF IInv, TypeOK, registry, clients
<1>5. WorkerAgrees'
  BY <1>1, <1>2 DEF IInv, WorkerAgrees
<1>6. OnePlace'
  BY <1>1, <1>3, PlaceKept DEF IInv, Sound
<1>7. Registered' /\ Blocks' /\ HandlesLive' /\ BirthsHonest' /\ Heard'
  BY <1>1, <1>3, WorkerLists DEF clients
<1> QED  BY <1>4, <1>5, <1>6, <1>7 DEF IInv, Sound

(* Entries of deleted replies are left only where the worker was overtaken.*)
LEMMA TakeStaleIInv ==
  ASSUME IInv, NEW s \in stale, NEW r \in q \cup {s}, TakeStale(s, r)
  PROVE  IInv'
<1>1. /\ inHand = None /\ q' = q \ {r} /\ inHand' = r /\ step' = "connect" /\ above = None
      /\ stale' = (stale \ {s}) \cup ({r} \ {s})
      /\ UNCHANGED <<registry, cb, sourced, above, overtaken, active, opened, crashed,
                     air, clients>>
  BY DEF TakeStale, IInv, TypeOK
<1>2. r \in Reply /\ r # None
  BY Distinct DEF IInv, TypeOK
<1>3. Pending' \subseteq Pending
  BY <1>1, <1>2 DEF Pending
<1>4. TypeOK'
  BY <1>1, <1>2 DEF IInv, TypeOK, registry, clients
<1>5. WorkerAgrees'
  BY <1>1, <1>2 DEF IInv, WorkerAgrees
<1>6. OnePlace'
  BY <1>1 DEF IInv, Sound, OnePlace
<1>7. Registered' /\ Blocks' /\ HandlesLive' /\ BirthsHonest' /\ Heard'
  BY <1>1, <1>3, WorkerLists DEF clients
<1> QED  BY <1>4, <1>5, <1>6, <1>7 DEF IInv, Sound

LEMMA FollowStaleIInv ==
  ASSUME IInv, NEW s \in stale, FollowStale(s)
  PROVE  IInv'
<1>1. /\ stale' \subseteq stale /\ crashed' \in BOOLEAN
      /\ UNCHANGED <<registry, cb, sourced, q, above, overtaken, inHand, step, active, opened,
                     air, clients>>
  BY DEF FollowStale, IInv, TypeOK, worker
<1>2. Pending' \subseteq Pending /\ Unsent' = Unsent
  BY <1>1 DEF Pending, Unsent
<1>3. TypeOK' /\ WorkerAgrees'
  BY <1>1 DEF IInv, TypeOK, WorkerAgrees, registry, clients
<1>4. OnePlace'
  BY <1>1, <1>2 DEF IInv, Sound, OnePlace, Birth
<1>5. Registered' /\ Blocks' /\ HandlesLive' /\ BirthsHonest' /\ Heard'
  BY <1>1, <1>2, WorkerLists DEF clients
<1> QED  BY <1>3, <1>4, <1>5 DEF IInv, Sound

LEMMA RefuseIInv == IInv /\ Refuse => IInv'
<1> SUFFICES ASSUME IInv, Refuse PROVE IInv'
    OBVIOUS
<1>1. /\ step = "connect" /\ step' = "pop"
      /\ UNCHANGED <<registry, cb, sourced, q, above, stale, overtaken, inHand, active, opened,
                     crashed, air, clients>>
  BY DEF Refuse, queue
<1>2. Pending' = Pending /\ Unsent' \subseteq Unsent
  BY <1>1 DEF Pending, Unsent
<1>3. TypeOK' /\ WorkerAgrees'
  BY <1>1 DEF IInv, TypeOK, WorkerAgrees, registry, clients
<1>4. OnePlace'
  BY <1>1, <1>2, PlaceKept DEF IInv, Sound
<1>5. Registered' /\ Blocks' /\ HandlesLive' /\ BirthsHonest' /\ Heard'
  BY <1>1, <1>2, WorkerLists DEF clients
<1> QED  BY <1>3, <1>4, <1>5 DEF IInv, Sound

LEMMA ConnectIInv == IInv /\ Connect => IInv'
<1> SUFFICES ASSUME IInv, Connect PROVE IInv'
    OBVIOUS
<1>1. /\ step = "connect" /\ step' \in {"recheck", "send"}
      /\ UNCHANGED <<registry, cb, sourced, q, above, stale, overtaken, inHand, crashed, air,
                     clients>>
  BY DEF Connect, queue
<1>2. inHand \in Reply /\ inHand \in Pending /\ inHand # None
  BY <1>1 DEF IInv, TypeOK, WorkerAgrees, Pending
<1>3. inHand.to \in Client /\ inHand.to # None /\ inHand.idx \in cb
  BY <1>2, Distinct DEF Reply, IInv, Sound, Blocks
<1>4. Pending' = Pending /\ Unsent' = Unsent
  BY <1>1 DEF Pending, Unsent
<1>5. TypeOK'
  BY <1>1, <1>3 DEF Connect, IInv, TypeOK, registry, clients
<1>6. WorkerAgrees'
  BY <1>1, <1>2, <1>3 DEF Connect, IInv, WorkerAgrees
<1>7. OnePlace'
  BY <1>1, <1>4, PlaceKept DEF IInv, Sound, OnePlace, Birth
<1>8. Registered' /\ Blocks' /\ HandlesLive' /\ BirthsHonest' /\ Heard'
  BY <1>1, <1>4, WorkerLists DEF clients
<1> QED  BY <1>5, <1>6, <1>7, <1>8 DEF IInv, Sound

(* Once a birth's reply is sent, no other one is to bring its handle.      *)
LEMMA SendIInv == IInv /\ Send => IInv'
<1> SUFFICES ASSUME IInv, Send PROVE IInv'
    OBVIOUS
<1> DEFINE sent == <<active, inHand>>
<1>1. /\ step \in {"send", "recheck"} /\ step' = "pop"
      /\ UNCHANGED <<registry, cb, sourced, q, above, stale, overtaken, inHand, active, opened,
                     crashed, clients>>
      /\ (air' = air \/ (inHand.ok /\ air' = air \cup {sent}))
  BY DEF Send, queue
<1>2. inHand \in Reply /\ inHand \in Pending /\ inHand \in Unsent /\ active \in Client
  BY <1>1 DEF IInv, TypeOK, WorkerAgrees, Pending, Unsent
<1>3. Pending' = Pending /\ Unsent' = q /\ Unsent = q \cup {inHand}
  BY <1>1 DEF Pending, Unsent
<1>4. WorkerAgrees' /\ TypeOK'
  BY <1>1, <1>2 DEF IInv, TypeOK, WorkerAgrees, registry, clients
<1>5. Registered'
  BY <1>1, SameLists DEF registry
<1>6. Blocks'
  BY <1>1, <1>3 DEF IInv, Sound, Blocks, registry, Alive
<1>7. CASE air' = air
  <2>1. OnePlace'
    BY <1>1, <1>3, <1>7, PlaceKept DEF IInv, Sound
  <2>2. HandlesLive' /\ BirthsHonest' /\ Heard'
    BY <1>1, <1>3, <1>7, WorkerLists DEF clients
  <2> QED  BY <1>4, <1>5, <1>6, <2>1, <2>2 DEF IInv, Sound
<1>8. CASE inHand.ok /\ air' = air \cup {sent}
  <2>1. sent[1] = active /\ sent[2] = inHand
    OBVIOUS
  <2> HIDE DEF sent
  <2>2. HandlesLive' /\ BirthsHonest'
    BY <1>1, <1>2, <1>3, <1>8, <2>1 DEF IInv, Sound, HandlesLive, BirthsHonest, Birth, registry,
       Alive
  <2>3. Heard'
    BY <1>1, <1>8 DEF IInv, Sound, Heard, Birth, clients
  <2>4. OnePlace'
    <3> SUFFICES ASSUME overtaken = 0
                 PROVE  /\ stale = {}
                        /\ \A r, s \in q : Birth(r) /\ Birth(s) /\ r.handle = s.handle => r = s
                        /\ \A r \in q, d \in air' :
                             Birth(r) /\ Birth(d[2]) => d[2].handle # r.handle
                        /\ \A d, e \in air' :
                             Birth(d[2]) /\ Birth(e[2]) /\ d[2].handle = e[2].handle => d[1] = e[1]
        BY <1>1, <1>3 DEF OnePlace, Birth
    <3>1. \A r \in q : Birth(r) /\ Birth(inHand) => r.handle # inHand.handle
      BY <1>1, <1>3 DEF IInv, Sound, OnePlace
    <3>2. \A d \in air : Birth(d[2]) /\ Birth(inHand) => d[2].handle # inHand.handle
      BY <1>2 DEF IInv, Sound, OnePlace
    <3> QED  BY <1>3, <1>8, <2>1, <3>1, <3>2 DEF IInv, Sound, OnePlace
  <2> QED  BY <1>4, <1>5, <1>6, <2>2, <2>3, <2>4 DEF IInv, Sound
<1> QED  BY <1>1, <1>7, <1>8

LEMMA PopIInv == IInv /\ Pop => IInv'
<1> SUFFICES ASSUME IInv, Pop PROVE IInv'
    OBVIOUS
<1>1. /\ step = "pop" /\ above = None /\ inHand' = None /\ step' = "idle"
      /\ UNCHANGED <<registry, cb, sourced, q, above, stale, overtaken, active, opened,
                     crashed, air, clients>>
  BY DEF Pop, queue
<1>2. Pending' \subseteq Pending /\ Unsent' = Unsent
  BY <1>1 DEF Pending, Unsent
<1>3. TypeOK' /\ WorkerAgrees'
  BY <1>1 DEF IInv, TypeOK, WorkerAgrees, registry, clients
<1>4. OnePlace'
  BY <1>1, <1>2, PlaceKept DEF IInv, Sound
<1>5. Registered' /\ Blocks' /\ HandlesLive' /\ BirthsHonest' /\ Heard'
  BY <1>1, <1>2, WorkerLists DEF clients
<1> QED  BY <1>3, <1>4, <1>5 DEF IInv, Sound

LEMMA PopAnotherIInv == IInv /\ PopAnother => IInv'
<1> SUFFICES ASSUME IInv, PopAnother PROVE IInv'
    OBVIOUS
<1>1. /\ step = "pop" /\ inHand' = None /\ step' = "idle" /\ above' = None
      /\ q' = q \ {above} /\ overtaken' = overtaken + 1 /\ stale' = stale \cup {inHand}
      /\ UNCHANGED <<registry, cb, sourced, active, opened, crashed, air, clients>>
  BY DEF PopAnother
<1>2. inHand \in Reply /\ inHand # None /\ overtaken \in Nat
  BY <1>1 DEF IInv, TypeOK, WorkerAgrees
<1>3. Pending' \subseteq Pending
  BY <1>1, <1>2 DEF Pending
<1>4. TypeOK' /\ WorkerAgrees'
  BY <1>1, <1>2 DEF IInv, TypeOK, WorkerAgrees, registry, clients
<1>5. OnePlace'
  <2>1. overtaken' # 0
    BY <1>1, <1>2
  <2> QED  BY <2>1 DEF OnePlace
<1>6. Registered' /\ Blocks' /\ HandlesLive' /\ BirthsHonest' /\ Heard'
  BY <1>1, <1>3, WorkerLists DEF clients
<1> QED  BY <1>4, <1>5, <1>6 DEF IInv, Sound

(* Whoever hears the reply of a birth has its handle from it.              *)
LEMMA HearIInv ==
  ASSUME IInv, NEW d \in air, Hear(d[1], d[2])
  PROVE  IInv'
<1> USE DEF Hear
<1>1. d[1] \in Client /\ d[2] \in Reply
  BY DEF IInv, TypeOK
<1>2. UNCHANGED <<registry, cb, sourced, queue, worker, crashed, air, cdConnected>>
  OBVIOUS
<1>3. UNCHANGED <<q, above, stale, overtaken, inHand, step, active, opened>>
  BY <1>2 DEF queue, worker
<1>4. Pending' = Pending /\ Unsent' = Unsent
  BY <1>3 DEF Pending, Unsent
<1>5. Registered'
  BY <1>2, SameLists DEF registry
<1>6. WorkerAgrees'
  BY <1>3 DEF IInv, WorkerAgrees
<1>7. Blocks' /\ HandlesLive' /\ BirthsHonest' /\ OnePlace'
  BY <1>2, <1>3, <1>4 DEF IInv, Sound, Blocks, HandlesLive, BirthsHonest, OnePlace, Birth,
     registry, Alive
<1>8. CASE d[2].what = "NEWBORN"
  <2>1. /\ myHandle' = [myHandle EXCEPT ![d[1]] = d[2].handle]
        /\ cdAddress' = [cdAddress EXCEPT ![d[1]] = d[2].cd]
        /\ UNCHANGED asked
    BY <1>8
  <2>2. Birth(d[2]) /\ d[2].handle \in Handle /\ d[2].cd \in Client \cup {None}
    BY <1>1, <1>8 DEF IInv, Sound, BirthsHonest, Birth, Reply
  <2>3. TypeOK'
    BY <1>1, <1>2, <1>3, <2>1, <2>2 DEF IInv, TypeOK, registry
  <2>4. /\ myHandle'[d[1]] = d[2].handle
        /\ \A c \in Client : c # d[1] => myHandle'[c] = myHandle[c]
    BY <1>1, <2>1 DEF IInv, TypeOK
  <2>5. Heard'
    <3> SUFFICES ASSUME NEW c \in Client, myHandle'[c] # None
                 PROVE  \E e \in air : e[1] = c /\ Birth(e[2]) /\ e[2].handle = myHandle'[c]
        BY <1>2 DEF Heard, Birth
    <3>1. CASE c = d[1]
      BY <2>2, <2>4, <3>1
    <3>2. CASE c # d[1]
      BY <2>4, <3>2 DEF IInv, Sound, Heard
    <3> QED  BY <3>1, <3>2
  <2> QED  BY <1>5, <1>6, <1>7, <2>3, <2>5 DEF IInv, Sound
<1>9. CASE d[2].what # "NEWBORN"
  <2>1. asked' = [asked EXCEPT ![d[1]] = None] /\ UNCHANGED <<myHandle, cdAddress>>
    BY <1>9
  <2>2. TypeOK'
    BY <1>1, <1>2, <1>3, <2>1 DEF IInv, TypeOK, registry
  <2>3. Heard'
    BY <1>2, <2>1 DEF IInv, Sound, Heard, Birth
  <2> QED  BY <1>5, <1>6, <1>7, <2>2, <2>3 DEF IInv, Sound
<1> QED  BY <1>8, <1>9

LEMMA StepIInv == IInv /\ [Next]_vars => IInv'
<1> SUFFICES ASSUME IInv, [Next]_vars PROVE IInv'
    OBVIOUS
<1>1. ASSUME NEW c \in Client, Heartbeat(c) PROVE IInv'
  BY <1>1, ClieverBirthIInv, MachineBirthIInv, InstrumentBirthIInv, StillbirthIInv, DeviceIInv
     DEF Heartbeat
<1>2. CASE Worker
  BY <1>2, TakeIInv, TakeStaleIInv, FollowStaleIInv, RefuseIInv, ConnectIInv, SendIInv, PopIInv,
     PopAnotherIInv DEF Worker
<1>3. CASE UNCHANGED vars
  <2>1. /\ UNCHANGED <<registry, cb, sourced, crashed, air, clients>>
        /\ UNCHANGED <<q, above, stale, overtaken, inHand, step, active, opened>>
    BY <1>3 DEF vars, queue, worker
  <2>2. Pending' = Pending /\ Unsent' = Unsent /\ UNCHANGED myHandle
    BY <2>1 DEF Pending, Unsent, clients
  <2>3. Registered' /\ Blocks' /\ HandlesLive' /\ BirthsHonest' /\ Heard'
    BY <2>1, <2>2, WorkerLists
  <2>4. TypeOK' /\ WorkerAgrees' /\ OnePlace'
    BY <2>1, <2>2 DEF IInv, TypeOK, WorkerAgrees, Sound, OnePlace, Birth, registry, clients
  <2> QED  BY <2>3, <2>4 DEF IInv, Sound
<1> QED  BY <1>1, <1>2, <1>3, QueryIInv, DeviceIInv, HearIInv DEF Next

LEMMA Invariance == Spec => []IInv
  BY InitIInv, StepIInv, PTL DEF Spec

----------------------------------------------------------------------------
(* The lists, queues and blocks of the daemon keep to their types.         *)
THEOREM MasterTypeOK == Spec => []TypeOK
  BY Invariance, PTL DEF IInv

(* The worker's assertion holds: no reply lacks its control block.         *)
THEOREM MasterControlBlockFound == Spec => []ControlBlockFound
<1>1. IInv => ControlBlockFound
  BY DEF IInv, Sound, Blocks, WorkerAgrees, ControlBlockFound
<1> QED  BY <1>1, Invariance, PTL

LEMMA OwnIndex == IInv => IndexIsOwn
<1>1. ASSUME IInv, NEW g \in Handle, NEW h \in Handle, g # h, Alive(g), Alive(h),
             allClients[g].idx = allClients[h].idx
      PROVE  allClients[g].kind = "CD" /\ allClients[h].kind = "CD"
  <2>1. /\ allClients[g].kind \in Kinds /\ allClients[h].kind \in Kinds
    BY <1>1 DEF IInv, TypeOK, Alive, Live
  <2>2. \A k \in Handle : Alive(k) /\ allClients[k].kind = "INSTRUMENT" =>
          \E i \in Slot : slots[i] = k /\ allClients[k].idx = i + 1
                          /\ i + 1 # 1 /\ i + 1 # MaxCliever
    BY <1>1, Indices DEF IInv, Registered, InstrumentsListed
  <2>3. 1 # MaxCliever
    BY MasterAssumption
  <2>4. ~(allClients[g].kind = "MACHINE" /\ allClients[h].kind = "MACHINE")
    BY <1>1 DEF IInv, Registered, MachineListed
  <2>5. ~(allClients[g].kind = "INSTRUMENT" /\ allClients[h].kind = "INSTRUMENT")
    BY <1>1, <2>2, MasterAssumption DEF Slot
  <2>6. \A k \in Handle : Alive(k) => /\ allClients[k].kind = "CD" => allClients[k].idx = 1
                                      /\ allClients[k].kind = "MACHINE" => allClients[k].idx = MaxCliever
    BY <1>1 DEF IInv, Registered, KindsIndexed
  <2> QED  BY <1>1, <2>1, <2>2, <2>3, <2>4, <2>5, <2>6 DEF Kinds
<1> QED  BY <1>1 DEF IndexIsOwn

(* Devices of one daemon do not share an index, whatever the limits.       *)
THEOREM MasterIndexIsOwn == Spec => []IndexIsOwn
  BY OwnIndex, Invariance, PTL

(* However late, and however often, a reply is heard, and wherever it      *)
(* goes, no two clients have the same handle, as long as no push overtook  *)
(* the worker.                                                             *)
THEOREM MasterHandleIsOwn == Spec => []HandleIsOwn
<1>1. IInv => HandleIsOwn
  BY DEF IInv, Sound, Heard, OnePlace, HandleIsOwn
<1> QED  BY <1>1, Invariance, PTL

----------------------------------------------------------------------------
Clievers == {h \in Handle : Alive(h) /\ allClients[h].kind = "CD"}

LEMMA CountSame ==
  ASSUME ClieversCounted, UNCHANGED <<allClients, nClievers>>
  PROVE  ClieversCounted'
<1>1. Clievers' = Clievers
  BY DEF Clievers, Alive
<1> QED  BY <1>1 DEF ClieversCounted, Clievers

(* Only the birth of a Cliever adds to their number, and it adds one.      *)
LEMMA CountAdmitted ==
  ASSUME IInv, ClieversCounted, NEW c \in Client, NEW h \in Handle, ~Alive(h),
         NEW i \in Idx, NEW cd \in Client \cup {None}, Admit(c, h, i, cd),
         nClievers' = IF KindOf[c] = "CD" THEN nClievers + 1 ELSE nClievers
  PROVE  ClieversCounted'
<1>1. /\ Alive(h)' /\ allClients'[h].kind = KindOf[c]
      /\ \A g \in Handle : g # h =>
           (Alive(g)' <=> Alive(g)) /\ allClients'[g] = allClients[g]
  BY AdmitLists
<1>2. h \notin Clievers /\ IsFiniteSet(Clievers)
  BY MasterAssumption, FS_Subset DEF Clievers
<1>3. CASE KindOf[c] = "CD"
  <2>1. Clievers' = Clievers \cup {h}
    BY <1>1, <1>3 DEF Clievers
  <2>2. Cardinality(Clievers') = Cardinality(Clievers) + 1
    BY <1>2, <2>1, FS_AddElement
  <2> QED  BY <1>3, <2>2 DEF ClieversCounted, Clievers
<1>4. CASE KindOf[c] # "CD"
  <2>1. Clievers' = Clievers
    BY <1>1, <1>2, <1>4 DEF Clievers
  <2> QED  BY <1>4, <2>1 DEF ClieversCounted, Clievers
<1> QED  BY <1>3, <1>4

LEMMA CountHeartbeat ==
  ASSUME IInv, ClieversCounted, NEW c \in Client, Heartbeat(c)
  PROVE  ClieversCounted'
<1>1. CASE Stillbirth(c)
  BY <1>1, CountSame DEF Stillbirth, registry
<1>2. ASSUME NEW h \in Handle, ~Alive(h), ClieverBirth(c, h) PROVE ClieversCounted'
  <2>1. Admit(c, h, 1, None) /\ nClievers' = IF KindOf[c] = "CD" THEN nClievers + 1 ELSE nClievers
    BY <1>2 DEF ClieverBirth
  <2>2. 1 \in Idx
    BY Indices
  <2> QED  BY <1>2, <2>1, <2>2, CountAdmitted
<1>3. ASSUME NEW h \in Handle, ~Alive(h), MachineBirth(c, h) PROVE ClieversCounted'
  <2>1. PICK cd \in Client \cup {None} :
          Admit(c, h, MaxCliever, cd)
          /\ nClievers' = IF KindOf[c] = "CD" THEN nClievers + 1 ELSE nClievers
    BY <1>3 DEF MachineBirth, IInv, TypeOK
  <2>2. MaxCliever \in Idx
    BY Indices
  <2> QED  BY <1>3, <2>1, <2>2, CountAdmitted
<1>4. ASSUME NEW h \in Handle, ~Alive(h), InstrumentBirth(c, h) PROVE ClieversCounted'
  <2>1. PICK i \in Slot :
          Admit(c, h, i + 1, None)
          /\ nClievers' = IF KindOf[c] = "CD" THEN nClievers + 1 ELSE nClievers
    BY <1>4 DEF InstrumentBirth
  <2>2. i + 1 \in Idx
    BY Indices
  <2> QED  BY <1>4, <2>1, <2>2, CountAdmitted
<1>5. CASE MachineBirthCrashes(c)
  BY <1>5, CountSame DEF MachineBirthCrashes, registry
<1> QED  BY <1>1, <1>2, <1>3, <1>4, <1>5 DEF Heartbeat

LEMMA StepCount == IInv /\ ClieversCounted /\ [Next]_vars => ClieversCounted'
<1> SUFFICES ASSUME IInv, ClieversCounted, [Next]_vars PROVE ClieversCounted'
    OBVIOUS
<1>1. ASSUME NEW c \in Client, NEW n \in Name, Query(c, n) PROVE ClieversCounted'
  BY <1>1, CountSame DEF Query
<1>2. CASE Worker
  BY <1>2, CountSame DEF Worker, Take, TakeStale, FollowStale, Refuse, Connect, Send, Pop,
     PopAnother, registry
<1>3. CASE UNCHANGED vars
  BY <1>3, CountSame DEF vars, registry
<1>4. ASSUME NEW c \in Client, ConnectCD(c) \/ \E n \in Name : QueryInVain(c, n)
      PROVE  ClieversCounted'
  BY <1>4, CountSame DEF ConnectCD, QueryInVain, registry
<1>5. ASSUME NEW d \in air, Hear(d[1], d[2]) PROVE ClieversCounted'
  BY <1>5, CountSame DEF Hear, registry
<1> QED  BY <1>1, <1>2, <1>3, <1>4, <1>5, CountHeartbeat DEF Next

LEMMA Counted == Spec => []ClieversCounted
<1>1. Init => ClieversCounted
  <2> SUFFICES ASSUME Init PROVE ClieversCounted
      OBVIOUS
  <2>1. Clievers = {}
    BY DEF Init, Clievers, Alive
  <2> QED  BY <2>1, FS_EmptySet DEF Init, ClieversCounted, Clievers
<1> QED  BY <1>1, StepCount, Invariance, PTL DEF Spec

(* The lists of devices agree and the Clievers are counted, whatever comes *)
(* in.                                                                     *)
THEOREM MasterRegistryAgrees == Spec => []RegistryAgrees
<1>1. IInv /\ ClieversCounted => RegistryAgrees
  BY DEF IInv, Registered, RegistryAgrees
<1> QED  BY <1>1, Counted, Invariance, PTL

----------------------------------------------------------------------------
LEMMA NoAnswerNoSource ==
  ASSUME sourced' = sourced, \A r \in q' \ q : r.what # "MDQUERY"
  PROVE  SourceStep
  BY DEF SourceStep

LEMMA HeartbeatSource ==
  ASSUME NEW c \in Client, Heartbeat(c)
  PROVE  SourceStep
<1>1. ASSUME NEW h, NEW i, NEW cd, Admit(c, h, i, cd) PROVE SourceStep
  <2>1. Newborn(c, h, i, cd).what = "NEWBORN"
    BY DEF Newborn
  <2> QED  BY <1>1, <2>1, NoAnswerNoSource DEF Admit, Push
<1>2. CASE Stillbirth(c)
  <2>1. Newborn(c, None, 0, None).what = "NEWBORN"
    BY DEF Newborn
  <2> QED  BY <1>2, <2>1, NoAnswerNoSource DEF Stillbirth, Push
<1>3. ASSUME NEW h \in Handle, ClieverBirth(c, h) \/ MachineBirth(c, h) \/ InstrumentBirth(c, h)
      PROVE  SourceStep
  BY <1>1, <1>3 DEF ClieverBirth, MachineBirth, InstrumentBirth
<1>4. CASE MachineBirthCrashes(c)
  BY <1>4, NoAnswerNoSource DEF MachineBirthCrashes, queue
<1> QED  BY <1>2, <1>3, <1>4 DEF Heartbeat

LEMMA QuerySource ==
  ASSUME NEW c \in Client, NEW n \in Name, Query(c, n)
  PROVE  SourceStep
<1> DEFINE h == myHandle[c]
           pair == <<DeviceOf(h), n>>
           granted == n \in Known /\ pair \notin sourced
           r == Answer(c, h, n, granted)
<1>1. CASE allClients[h].kind = "CD"
  BY <1>1, NoAnswerNoSource DEF Query, queue
<1>2. CASE allClients[h].kind # "CD"
  <2>1. /\ sourced' = IF granted THEN sourced \cup {pair} ELSE sourced
        /\ q' = q \cup {r}
    BY <1>2 DEF Query, Push
  <2>2. r.handle = h /\ r.name = n /\ r.ok = granted
    BY DEF Answer
  <2>3. granted => pair \in sourced' \ sourced
    BY <2>1
  <2> QED  BY <2>1, <2>2, <2>3 DEF SourceStep
<1> QED  BY <1>1, <1>2

(* A registration is granted once, and its source is never taken away.     *)
THEOREM MasterSourceIsForGood == Spec => SourceIsForGood
<1>1. [Next]_vars => [SourceStep]_vars
  <2> SUFFICES ASSUME Next PROVE SourceStep
      BY DEF vars
  <2>1. CASE Worker
    BY <2>1, NoAnswerNoSource DEF Worker, Take, TakeStale, FollowStale, Refuse, Connect, Send,
       Pop, PopAnother, queue
  <2>2. ASSUME NEW c \in Client, ConnectCD(c) \/ \E n \in Name : QueryInVain(c, n)
        PROVE  SourceStep
    BY <2>2, NoAnswerNoSource DEF ConnectCD, QueryInVain, queue
  <2>3. ASSUME NEW d \in air, Hear(d[1], d[2]) PROVE SourceStep
    BY <2>3, NoAnswerNoSource DEF Hear, queue
  <2> QED  BY <2>1, <2>2, <2>3, HeartbeatSource, QuerySource DEF Next
<1> QED  BY <1>1, PTL DEF Spec, SourceIsForGood
----------------------------------------------------------------------------
(* Where frames are sent.  The array of Clievers is read before it is      *)
(* written, and replies reach clients they were not meant for; the address *)
(* a client was told is that of a Cliever all the same.                    *)
IsCliever(c) == KindOf[c] = "CD" /\ nClievers > 0

TelemetryToClievers == \A c \in Client : cdAddress[c] # None => IsCliever(cdAddress[c])

ClieversTold ==
  /\ cliever \in Client => IsCliever(cliever)
  /\ \A r \in Pending : r.cd # None => IsCliever(r.cd)
  /\ \A d \in air : d[2].cd # None => IsCliever(d[2].cd)
  /\ TelemetryToClievers

LEMMA AdmitTold ==
  ASSUME IInv, ClieversTold, NEW c, NEW h, NEW i, NEW cd, Admit(c, h, i, cd),
         cd # None => IsCliever(cd), nClievers' >= nClievers, nClievers' \in Nat,
         cliever' \in Client => KindOf[cliever'] = "CD" /\ nClievers' > 0
  PROVE  ClieversTold'
<1>1. Pending' = Pending \cup {Newborn(c, h, i, cd)} /\ Newborn(c, h, i, cd).cd = cd
  BY DEF Admit, Push, Pending, Newborn
<1>2. \A d : IsCliever(d) => IsCliever(d)'
  BY DEF IsCliever, IInv, TypeOK
<1>3. UNCHANGED <<air, cdAddress>>
  BY DEF Admit, clients
<1> QED  BY <1>1, <1>2, <1>3 DEF ClieversTold, TelemetryToClievers, IsCliever

LEMMA StepTold == IInv /\ ClieversTold /\ [Next]_vars => ClieversTold'
<1> SUFFICES ASSUME IInv, ClieversTold, [Next]_vars PROVE ClieversTold'
    OBVIOUS
<1>1. nClievers \in Nat
  BY DEF IInv, TypeOK
<1>2. ASSUME UNCHANGED <<cliever, nClievers, air, cdAddress>>,
             \A r \in Pending' : r \in Pending \/ r.cd = None
      PROVE  ClieversTold'
  BY <1>2 DEF ClieversTold, TelemetryToClievers, IsCliever
<1>3. ASSUME NEW c \in Client, Heartbeat(c) PROVE ClieversTold'
  <2>1. ASSUME NEW h \in Handle, ClieverBirth(c, h) PROVE ClieversTold'
    BY <1>1, <2>1, AdmitTold DEF ClieverBirth
  <2>2. ASSUME NEW h \in Handle, MachineBirth(c, h) PROVE ClieversTold'
    <3>1. /\ UNCHANGED <<cliever, nClievers>>
          /\ Admit(c, h, MaxCliever, IF cliever = Stray THEN None ELSE cliever)
          /\ cliever # None
      BY <2>2 DEF MachineBirth
    <3>2. cliever = Stray \/ cliever \in Client
      BY <3>1 DEF IInv, TypeOK
    <3> QED  BY <1>1, <3>1, <3>2, AdmitTold DEF ClieversTold, IsCliever
  <2>3. ASSUME NEW h \in Handle, InstrumentBirth(c, h) PROVE ClieversTold'
    <3>1. UNCHANGED <<cliever, nClievers>> /\ \E i \in Slot : Admit(c, h, i + 1, None)
      BY <2>3 DEF InstrumentBirth
    <3> QED  BY <1>1, <3>1, AdmitTold DEF ClieversTold, IsCliever
  <2>4. CASE Stillbirth(c)
    <3>1. /\ UNCHANGED <<cliever, nClievers, air, cdAddress>>
          /\ Pending' = Pending \cup {Newborn(c, None, 0, None)}
      BY <2>4 DEF Stillbirth, Push, registry, worker, clients, Pending
    <3> QED  BY <1>2, <3>1 DEF Newborn
  <2>5. CASE MachineBirthCrashes(c)
    BY <1>2, <2>5 DEF MachineBirthCrashes, registry, queue, worker, clients, Pending
  <2> QED  BY <1>3, <2>1, <2>2, <2>3, <2>4, <2>5 DEF Heartbeat
<1>4. CASE Send
  <2>1. /\ UNCHANGED <<cliever, nClievers, cdAddress>> /\ Pending' = Pending
        /\ inHand \in Pending
        /\ air' \subseteq air \cup {<<active, inHand>>}
    BY <1>4 DEF Send, registry, queue, clients, Pending, IInv, WorkerAgrees
  <2> QED  BY <2>1 DEF ClieversTold, TelemetryToClievers, IsCliever
<1>5. ASSUME NEW d \in air, Hear(d[1], d[2]) PROVE ClieversTold'
  <2>1. UNCHANGED <<cliever, nClievers, air>> /\ Pending' = Pending
    BY <1>5 DEF Hear, registry, queue, worker, Pending
  <2>2. \A c \in Client : cdAddress'[c] = cdAddress[c] \/ cdAddress'[c] = d[2].cd
    BY <1>5 DEF Hear, IInv, TypeOK
  <2> QED  BY <2>1, <2>2 DEF ClieversTold, TelemetryToClievers, IsCliever
<1>6. ASSUME NEW c \in Client, NEW n \in Name, Query(c, n) PROVE ClieversTold'
  <2>1. /\ UNCHANGED <<cliever, nClievers, air, cdAddress, inHand, stale>>
        /\ q' = q \/ q' = q \cup {Answer(c, myHandle[c], n, n \in Known
                                      /\ <<DeviceOf(myHandle[c]), n>> \notin sourced)}
    BY <1>6 DEF Query, Push, queue, worker
  <2>2. \A r \in Pending' : r \in Pending \/ r.cd = None
    BY <2>1 DEF Pending, Answer
  <2> QED  BY <1>2, <2>1, <2>2
<1>7. CASE UNCHANGED <<cliever, nClievers, cdAddress, air, q, stale, inHand>>
  BY <1>2, <1>7 DEF Pending
<1>8. CASE \/ \E r \in q : Take(r)
           \/ \E s \in stale : FollowStale(s) \/ \E r \in q \cup {s} : TakeStale(s, r)
           \/ Refuse \/ Connect \/ Pop \/ PopAnother
  <2>1. UNCHANGED <<cliever, nClievers, cdAddress, air>> /\ q' \subseteq q
    BY <1>8 DEF Take, FollowStale, TakeStale, Refuse, Connect, Pop, PopAnother, registry, queue,
       clients
  <2>2. inHand' = None \/ inHand' \in q \cup stale \cup {inHand}
    BY <1>8 DEF Take, FollowStale, TakeStale, Refuse, Connect, Pop, PopAnother, worker
  <2>3. stale' \subseteq stale \cup q \cup {inHand}
    BY <1>8 DEF Take, FollowStale, TakeStale, Refuse, Connect, Pop, PopAnother, queue
  <2>4. step # "idle" <=> inHand # None
    BY DEF IInv, WorkerAgrees
  <2>5. PopAnother \/ stale' \subseteq stale \cup q
    BY <1>8 DEF Take, FollowStale, TakeStale, Refuse, Connect, Pop, PopAnother, queue
  <2>6. PopAnother => inHand # None
    BY <2>4 DEF PopAnother
  <2>7. Pending' \subseteq Pending
    BY <2>1, <2>2, <2>3, <2>5, <2>6 DEF Pending
  <2> QED  BY <1>2, <2>1, <2>7
<1>9. ASSUME NEW c \in Client, ConnectCD(c) \/ \E n \in Name : QueryInVain(c, n)
      PROVE  UNCHANGED <<cliever, nClievers, cdAddress, air, q, stale, inHand>>
  BY <1>9 DEF ConnectCD, QueryInVain, registry, queue, worker
<1>10. CASE UNCHANGED vars
  BY <1>7, <1>10 DEF vars, registry, queue, worker, clients
<1> QED  BY <1>3, <1>4, <1>5, <1>6, <1>7, <1>8, <1>9, <1>10 DEF Next, Worker

(* Whatever replies reach it, a client is only told of Clievers that were  *)
(* born: a machine whose birth read an entry nobody wrote is told of none. *)
THEOREM MasterTelemetryToClievers == Spec => []TelemetryToClievers
<1>1. Init => ClieversTold
  BY Distinct, MasterAssumption DEF Init, ClieversTold, TelemetryToClievers, Pending
<1>2. ClieversTold => TelemetryToClievers
  BY DEF ClieversTold
<1> QED  BY <1>1, <1>2, Invariance, StepTold, PTL DEF Spec
=============================================================================
