---------------------------- MODULE MdDataProofs ----------------------------
(* Proofs about the data model, for any devices, names and threads of the  *)
(* XML-RPC server.                                                         *)
EXTENDS MdData, TLAPS

(* Whoever is spoken of has been born, and who is being born has not.      *)
BornFirst ==
  /\ \A t \in Caller : pc[t] # "idle" => call[t].dev \in born
  /\ bg = "birth" => query.dev \notin born
  /\ bg \in {"look", "grab"} => query.dev \in born
  /\ \A d \in Device, n \in Name : <<d, n>> \in sourced => d \in born
  /\ \A d \in Device, n \in Name, ty \in Type : <<d, n, ty>> \in told => d \in born

(* In a calm map one thread links at a time, a name that is not there, and *)
(* one that is about to be given its type is there.                        *)
LinksApart ==
  /\ \A t, u \in Caller :
       t # u /\ pc[t] = "link" /\ pc[u] = "link" /\ call[t].dev = call[u].dev
         => call[t].dev \in raced
  /\ \A t \in Caller : pc[t] = "link" /\ call[t].dev \in Calm
                         => call[t].name \notin odes[call[t].dev]
  /\ \A t \in Caller : pc[t] = "type" /\ call[t].dev \in Calm
                         => call[t].name \in odes[call[t].dev]

(* A call that found the name absent and has not answered yet.             *)
Creates(t, d, n) ==
  pc[t] \in {"insert", "link", "type"} /\ call[t].dev = d /\ call[t].name = n

CreatorAlone ==
  \A d \in Calm, n \in Ode :
    <<d, n>> \notin dup =>
      /\ \A t, u \in Caller : Creates(t, d, n) /\ Creates(u, d, n) => t = u
      /\ \A t \in Caller, ty \in Type : Creates(t, d, n) => <<d, n, ty>> \notin told

Grabbed ==
  bg = "grab" => \/ query.name = PreObs
                 \/ query.name \in Ode /\ (query.dev \in Calm => query.name \in odes[query.dev])

GrantsFlagged == granted \subseteq sourced /\ twice = {}

IInv == /\ TypeOK /\ BornFirst /\ LinksApart /\ CreatorAlone /\ Grabbed
        /\ GrantsFlagged /\ CreatedAreThere /\ TypeWasAnswered /\ SourcedAreThere

----------------------------------------------------------------------------
LEMMA InitIInv == Init => IInv
<1> SUFFICES ASSUME Init PROVE IInv
    OBVIOUS
<1>1. TypeOK /\ BornFirst /\ Grabbed /\ GrantsFlagged
  BY DataAssumption DEF Init, TypeOK, BornFirst, Grabbed, GrantsFlagged
<1>2. LinksApart /\ CreatorAlone
  BY DEF Init, LinksApart, CreatorAlone, Creates
<1>3. CreatedAreThere /\ TypeWasAnswered /\ SourcedAreThere
  BY DEF Init, CreatedAreThere, TypeWasAnswered, SourcedAreThere
<1> QED  BY <1>1, <1>2, <1>3 DEF IInv

(* What is raced stays raced, and whoever overlaps a link makes it so.     *)
LEMMA Touched ==
  ASSUME IInv, NEW t, NEW d \in Device, Touch(t, d)
  PROVE  /\ raced' \subseteq Device /\ raced \subseteq raced'
         /\ Calm' \subseteq Calm
         /\ d \notin raced' => ~Overlaps(t, d)
         /\ \A e \in Device : e # d => (e \in raced' <=> e \in raced)
  BY DEF Touch, Calm, IInv, TypeOK

(* A call that is under way.                                               *)
LEMMA CallType ==
  ASSUME IInv, NEW t \in Caller, pc[t] # "idle"
  PROVE  /\ call[t] \in Call /\ call[t].dev \in Device /\ call[t].dev \in born
         /\ call[t].name \in Ode /\ call[t].type \in Type
  BY DEF IInv, TypeOK, BornFirst, Call

(* A step that only notes what it was asked keeps the rest.                *)
LEMMA SameModel ==
  ASSUME IInv, UNCHANGED <<born, odes, type, sourced, pc, call, told, grants, dup, raced>>
  PROVE  /\ LinksApart' /\ CreatorAlone' /\ GrantsFlagged'
         /\ CreatedAreThere' /\ TypeWasAnswered' /\ SourcedAreThere'
<1>1. Calm' = Calm
  BY DEF Calm
<1>2. LinksApart' /\ CreatorAlone'
  BY <1>1 DEF IInv, LinksApart, CreatorAlone, Creates
<1>3. GrantsFlagged' /\ CreatedAreThere' /\ SourcedAreThere'
  BY <1>1 DEF IInv, GrantsFlagged, CreatedAreThere, SourcedAreThere, grants
<1>4. TypeWasAnswered'
  BY <1>1 DEF IInv, TypeWasAnswered, Busy
<1> QED  BY <1>2, <1>3, <1>4

LEMMA CrashIInv == ASSUME IInv, NEW d \in Device, Crash(d) PROVE IInv'
<1>1. UNCHANGED <<born, odes, type, sourced, pc, call, told, grants, dup, raced, bg, query>>
      /\ crashed' \in BOOLEAN
  BY DEF Crash, threads, history
<1>2. TypeOK' /\ BornFirst' /\ Grabbed'
  BY <1>1 DEF IInv, TypeOK, BornFirst, Grabbed, grants, Calm
<1> QED  BY <1>1, <1>2, SameModel DEF IInv

LEMMA ObservableIInv ==
  ASSUME IInv, NEW t \in Caller, NEW d \in Device, NEW n \in Obs, CreateObservable(t, d, n)
  PROVE  IInv'
<1>1. /\ d \in born /\ told' = told \cup {<<d, n, Default>>}
      /\ UNCHANGED <<born, odes, type, sourced, threads, grants, dup, raced, crashed>>
  BY DEF CreateObservable
<1>2. UNCHANGED <<pc, call, bg, query, granted, twice>> /\ Calm' = Calm
  BY <1>1 DEF threads, grants, Calm
<1>3. \A e \in Device, m \in Ode, ty \in Type : <<e, m, ty>> \in told' <=> <<e, m, ty>> \in told
  BY <1>1, DataAssumption
<1>4. TypeOK'
  BY <1>1, <1>2, DataAssumption DEF IInv, TypeOK, Name
<1>5. BornFirst' /\ Grabbed' /\ GrantsFlagged'
  BY <1>1, <1>2 DEF IInv, BornFirst, Grabbed, GrantsFlagged
<1>6. LinksApart' /\ CreatorAlone'
  BY <1>1, <1>2, <1>3 DEF IInv, LinksApart, CreatorAlone, Creates, Calm
<1>7. CreatedAreThere' /\ SourcedAreThere' /\ TypeWasAnswered'
  <2>1. CreatedAreThere' /\ SourcedAreThere'
    BY <1>1, <1>2, <1>3 DEF IInv, CreatedAreThere, SourcedAreThere
  <2>2. \A e \in Calm, m \in Ode : Busy(e, m)' <=> Busy(e, m)
    BY <1>2 DEF Busy
  <2>3. type \in [Device -> [Ode -> Type]]
    BY DEF IInv, TypeOK
  <2>4. TypeWasAnswered'
    BY <1>1, <1>2, <1>3, <2>2, <2>3 DEF IInv, TypeWasAnswered, Calm
  <2> QED  BY <2>1, <2>4
<1> QED  BY <1>4, <1>5, <1>6, <1>7 DEF IInv

(* A step of one call that adds no entry and answers nothing.              *)
LEMMA CallStep ==
  ASSUME IInv, NEW t \in Caller,
         UNCHANGED <<born, odes, type, sourced, told, grants, bg, query>>,
         \A u \in Caller \ {t} : pc'[u] = pc[u] /\ call'[u] = call[u],
         raced \subseteq raced', Calm' \subseteq Calm,
         pc[t] \notin {"link", "type"}
  PROVE  /\ GrantsFlagged' /\ CreatedAreThere' /\ SourcedAreThere' /\ TypeWasAnswered'
         /\ Grabbed'
<1>1. GrantsFlagged' /\ CreatedAreThere' /\ SourcedAreThere'
  BY DEF IInv, GrantsFlagged, CreatedAreThere, SourcedAreThere, grants
<1>2. \A e \in Calm, m \in Ode : Busy(e, m) => Busy(e, m)'
  BY DEF Busy
<1>3. TypeWasAnswered'
  BY <1>2 DEF IInv, TypeWasAnswered
<1>4. Grabbed'
  BY DEF IInv, Grabbed
<1> QED  BY <1>1, <1>3, <1>4

LEMMA CreateOdeIInv ==
  ASSUME IInv, NEW t \in Caller, NEW d \in Device, NEW n \in Ode, NEW ty \in Type,
         CreateOde(t, d, n, ty)
  PROVE  IInv'
<1> DEFINE c == [dev |-> d, name |-> n, type |-> ty]
<1>1. /\ pc[t] = "idle" /\ d \in born
      /\ pc' = [pc EXCEPT ![t] = "look"] /\ call' = [call EXCEPT ![t] = c]
      /\ UNCHANGED <<born, odes, type, sourced, told, grants, dup, raced, crashed, bg, query>>
      /\ UNCHANGED <<granted, twice>>
  BY DEF CreateOde, history, grants
<1>2. c \in Call /\ Calm' = Calm
  BY <1>1 DEF Call, Calm
<1>3. /\ pc'[t] = "look" /\ call'[t] = c /\ c.dev = d
      /\ \A u \in Caller \ {t} : pc'[u] = pc[u] /\ call'[u] = call[u]
  BY <1>1 DEF IInv, TypeOK
<1>4. TypeOK'
  BY <1>1, <1>2, <1>3 DEF IInv, TypeOK
<1>5. BornFirst'
  BY <1>1, <1>3 DEF IInv, BornFirst
<1>6. LinksApart'
  BY <1>1, <1>2, <1>3 DEF IInv, LinksApart
<1>7. CreatorAlone'
  BY <1>1, <1>2, <1>3 DEF IInv, CreatorAlone, Creates
<1> QED  BY <1>1, <1>2, <1>3, <1>4, <1>5, <1>6, <1>7, CallStep DEF IInv

LEMMA LookIInv == ASSUME IInv, NEW t \in Caller, Look(t) PROVE IInv'
<1> DEFINE d == call[t].dev
           n == call[t].name
           missed == pc'[t] = "insert"
<1>1. /\ pc[t] = "look" /\ Touch(t, d)
      /\ UNCHANGED <<born, odes, type, sourced, bg, query, told, grants, crashed>>
      /\ UNCHANGED <<granted, twice>>
  BY DEF Look, grants
<1>2. d \in Device /\ n \in Ode /\ call[t] \in Call /\ d \in born
  BY <1>1, CallType
<1>3. /\ raced' \subseteq Device /\ raced \subseteq raced' /\ Calm' \subseteq Calm
      /\ d \notin raced' => ~Overlaps(t, d)
  BY <1>1, <1>2, Touched
<1>4. /\ \/ /\ pc' = [pc EXCEPT ![t] = "idle"] /\ call' = [call EXCEPT ![t] = None]
            /\ dup' = dup
         \/ /\ MayMiss(d, n)
            /\ pc' = [pc EXCEPT ![t] = "insert"] /\ call' = call
            /\ dup' = IF \E u \in Caller \ {t} : Between(u, d, n)
                      THEN dup \cup {<<d, n>>} ELSE dup
  BY DEF Look
<1>5. /\ pc'[t] \in {"idle", "insert"} /\ dup \subseteq dup'
      /\ missed => MayMiss(d, n) /\ call'[t] = call[t]
      /\ missed /\ <<d, n>> \notin dup' => \A u \in Caller \ {t} : ~Between(u, d, n)
      /\ \A u \in Caller \ {t} : pc'[u] = pc[u] /\ call'[u] = call[u]
  BY <1>4 DEF IInv, TypeOK
<1>6. TypeOK'
  <2>1. dup' \subseteq Pair
    BY <1>4, <1>2 DEF IInv, TypeOK, Pair, Name
  <2>2. /\ pc' \in [Caller -> {"idle", "look", "insert", "link", "type"}]
        /\ call' \in [Caller -> Call \cup {None}]
    BY <1>2, <1>4 DEF IInv, TypeOK
  <2>3. \A u \in Caller : pc'[u] # "idle" => call'[u] \in Call
    BY <1>2, <1>5 DEF IInv, TypeOK
  <2> QED  BY <1>1, <1>3, <2>1, <2>2, <2>3 DEF IInv, TypeOK
<1>7. BornFirst'
  <2>1. \A u \in Caller : pc'[u] # "idle" => call'[u].dev \in born
    BY <1>2, <1>5 DEF IInv, BornFirst
  <2> QED  BY <1>1, <2>1 DEF IInv, BornFirst
<1>8. LinksApart'
  <2>1. \A u \in Caller : pc'[u] \in {"link", "type"} =>
          u # t /\ pc[u] = pc'[u] /\ call'[u] = call[u]
    BY <1>5
  <2>2. \A u, v \in Caller :
          u # v /\ pc'[u] = "link" /\ pc'[v] = "link" /\ call'[u].dev = call'[v].dev
            => call'[u].dev \in raced'
    BY <1>3, <2>1 DEF IInv, LinksApart
  <2>3. \A u \in Caller : pc'[u] = "link" /\ call'[u].dev \in Calm'
                         => call'[u].name \notin odes'[call'[u].dev]
    BY <1>1, <1>3, <2>1 DEF IInv, LinksApart
  <2>4. \A u \in Caller : pc'[u] = "type" /\ call'[u].dev \in Calm'
                         => call'[u].name \in odes'[call'[u].dev]
    BY <1>1, <1>3, <2>1 DEF IInv, LinksApart
  <2> QED  BY <2>2, <2>3, <2>4 DEF LinksApart
<1>9. CreatorAlone'
  <2> SUFFICES ASSUME NEW e \in Calm', NEW m \in Ode, <<e, m>> \notin dup'
               PROVE  /\ \A u, v \in Caller : Creates(u, e, m)' /\ Creates(v, e, m)' => u = v
                      /\ \A u \in Caller, ty \in Type : Creates(u, e, m)' => <<e, m, ty>> \notin told'
      BY DEF CreatorAlone
  <2>1. /\ e \in Calm /\ <<e, m>> \notin dup
        /\ \A u, v \in Caller : Creates(u, e, m) /\ Creates(v, e, m) => u = v
        /\ \A u \in Caller, ty \in Type : Creates(u, e, m) => <<e, m, ty>> \notin told
    BY <1>3, <1>5 DEF IInv, CreatorAlone
  <2>2. \A u \in Caller \ {t} : Creates(u, e, m)' <=> Creates(u, e, m)
    BY <1>5 DEF Creates
  <2>3. CASE Creates(t, e, m)'
    <3>1. missed /\ e = d /\ m = n
      BY <1>5, <2>3 DEF Creates
    <3>2. n \notin odes[d]
      BY <1>5, <3>1 DEF MayMiss, Calm
    <3>3. \A u \in Caller \ {t} : ~Between(u, d, n)
      BY <1>5, <3>1
    <3>4. \A u \in Caller \ {t} : ~Creates(u, d, n)
      BY <2>1, <3>1, <3>2, <3>3 DEF Creates, Between, IInv, LinksApart
    <3>5. \A ty \in Type : <<d, n, ty>> \notin told
      BY <1>2, <2>1, <3>1, <3>2 DEF IInv, CreatedAreThere
    <3> QED  BY <1>1, <2>2, <3>1, <3>4, <3>5
  <2>4. CASE ~Creates(t, e, m)'
    BY <1>1, <2>1, <2>2, <2>4
  <2> QED  BY <2>3, <2>4
<1>10. /\ GrantsFlagged' /\ CreatedAreThere' /\ SourcedAreThere' /\ TypeWasAnswered'
       /\ Grabbed'
  BY <1>1, <1>3, <1>5, CallStep
<1> QED  BY <1>6, <1>7, <1>8, <1>9, <1>10 DEF IInv

LEMMA InsertIInv == ASSUME IInv, NEW t \in Caller, Insert(t) PROVE IInv'
<1> DEFINE d == call[t].dev
           n == call[t].name
<1>1. /\ pc[t] = "insert" /\ Touch(t, d)
      /\ \/ MayFind(d, n) /\ pc' = [pc EXCEPT ![t] = "type"]
         \/ MayMiss(d, n) /\ pc' = [pc EXCEPT ![t] = "link"]
      /\ UNCHANGED <<born, odes, type, sourced, call, bg, query, told, grants, dup, crashed>>
      /\ UNCHANGED <<granted, twice>>
  BY DEF Insert, history, grants
<1>2. d \in Device /\ n \in Ode /\ call[t] \in Call /\ d \in born
  BY <1>1, CallType
<1>3. /\ raced' \subseteq Device /\ raced \subseteq raced' /\ Calm' \subseteq Calm
      /\ d \notin raced' => ~Overlaps(t, d)
  BY <1>1, <1>2, Touched
<1>4. /\ pc'[t] \in {"type", "link"}
      /\ pc'[t] = "type" => MayFind(d, n)
      /\ pc'[t] = "link" => MayMiss(d, n)
      /\ \A u \in Caller \ {t} : pc'[u] = pc[u]
  BY <1>1 DEF IInv, TypeOK
<1>5. TypeOK'
  <2>1. /\ pc' \in [Caller -> {"idle", "look", "insert", "link", "type"}]
        /\ \A u \in Caller : pc'[u] # "idle" => call'[u] \in Call
    BY <1>1, <1>2, <1>4 DEF IInv, TypeOK
  <2> QED  BY <1>1, <1>3, <2>1 DEF IInv, TypeOK
<1>6. BornFirst'
  BY <1>1, <1>2, <1>4 DEF IInv, BornFirst
<1>7. LinksApart'
  <2>1. ASSUME NEW u \in Caller, NEW v \in Caller, u # v, pc'[u] = "link", pc'[v] = "link",
               call[u].dev = call[v].dev
        PROVE  call[u].dev \in raced'
    <3>1. CASE u # t /\ v # t
      BY <1>3, <1>4, <2>1, <3>1 DEF IInv, LinksApart
    <3>2. CASE u = t
      BY <1>3, <1>4, <2>1, <3>2 DEF Overlaps
    <3>3. CASE v = t
      BY <1>3, <1>4, <2>1, <3>3 DEF Overlaps
    <3> QED  BY <3>1, <3>2, <3>3
  <2>2. ASSUME NEW u \in Caller, call[u].dev \in Calm'
        PROVE  /\ pc'[u] = "link" => call[u].name \notin odes[call[u].dev]
               /\ pc'[u] = "type" => call[u].name \in odes[call[u].dev]
    <3>1. CASE u = t
      BY <1>4, <2>2, <3>1 DEF MayFind, MayMiss, Calm
    <3>2. CASE u # t
      BY <1>3, <1>4, <2>2, <3>2 DEF IInv, LinksApart
    <3> QED  BY <3>1, <3>2
  <2> QED  BY <1>1, <2>1, <2>2 DEF LinksApart
<1>8. CreatorAlone'
  <2>1. \A u \in Caller : \A e, m : Creates(u, e, m)' => Creates(u, e, m)
    BY <1>1, <1>4 DEF Creates
  <2> QED  BY <1>1, <1>3, <2>1 DEF IInv, CreatorAlone
<1>9. /\ GrantsFlagged' /\ CreatedAreThere' /\ SourcedAreThere' /\ TypeWasAnswered'
       /\ Grabbed'
  BY <1>1, <1>3, <1>4, CallStep
<1> QED  BY <1>5, <1>6, <1>7, <1>8, <1>9 DEF IInv

LEMMA LinkIInv == ASSUME IInv, NEW t \in Caller, Link(t) PROVE IInv'
<1> DEFINE d == call[t].dev
           n == call[t].name
<1>1. /\ pc[t] = "link" /\ Touch(t, d)
      /\ IF d \in raced' THEN UNCHANGED <<odes, type>>
         ELSE /\ odes' = [odes EXCEPT ![d] = @ \cup {n}]
              /\ type' = [type EXCEPT ![d][n] = Default]
      /\ pc' = [pc EXCEPT ![t] = "type"]
      /\ UNCHANGED <<born, sourced, call, bg, query, told, grants, dup, crashed>>
      /\ UNCHANGED <<granted, twice>>
  BY DEF Link, history, grants
<1>2. d \in Device /\ n \in Ode /\ call[t] \in Call /\ d \in born
  BY <1>1, CallType
<1>3. /\ raced' \subseteq Device /\ raced \subseteq raced' /\ Calm' \subseteq Calm
      /\ d \notin raced' => ~Overlaps(t, d)
  BY <1>1, <1>2, Touched
<1>4. pc'[t] = "type" /\ \A u \in Caller \ {t} : pc'[u] = pc[u]
  BY <1>1 DEF IInv, TypeOK
<1>5. \A e \in Device : /\ e # d => odes'[e] = odes[e] /\ type'[e] = type[e]
                        /\ odes[e] \subseteq odes'[e]
  BY <1>1 DEF IInv, TypeOK
<1>6. d \notin raced' => /\ odes'[d] = odes[d] \cup {n}
                         /\ \A m \in Ode : m # n => type'[d][m] = type[d][m]
  BY <1>1, <1>2 DEF IInv, TypeOK
<1>7. TypeOK'
  <2>1. odes' \in [Device -> SUBSET Ode]
    BY <1>1, <1>2 DEF IInv, TypeOK
  <2>2. type' \in [Device -> [Ode -> Type]]
    <3>1. [type[d] EXCEPT ![n] = Default] \in [Ode -> Type]
      BY <1>2, DataAssumption DEF IInv, TypeOK
    <3>2. type' = type \/ type' = [type EXCEPT ![d] = [type[d] EXCEPT ![n] = Default]]
      BY <1>1
    <3> QED  BY <1>2, <3>1, <3>2 DEF IInv, TypeOK
  <2>3. /\ pc' \in [Caller -> {"idle", "look", "insert", "link", "type"}]
        /\ \A u \in Caller : pc'[u] # "idle" => call'[u] \in Call
    BY <1>1, <1>2, <1>4 DEF IInv, TypeOK
  <2> QED  BY <1>1, <1>3, <2>1, <2>2, <2>3 DEF IInv, TypeOK
<1>8. BornFirst'
  BY <1>1, <1>2, <1>4 DEF IInv, BornFirst
<1>9. LinksApart'
  <2>1. \A u, v \in Caller :
          u # v /\ pc'[u] = "link" /\ pc'[v] = "link" /\ call[u].dev = call[v].dev
            => call[u].dev \in raced'
    BY <1>3, <1>4 DEF IInv, LinksApart
  <2>2. ASSUME NEW u \in Caller, call[u].dev \in Calm', pc'[u] = "link"
        PROVE  call[u].name \notin odes'[call[u].dev]
    <3>1. u # t /\ pc[u] = "link" /\ call[u].dev \in Calm
      BY <1>3, <1>4, <2>2
    <3>2. call[u].dev # d
      BY <1>3, <2>2, <3>1 DEF Overlaps, Calm
    <3> QED  BY <1>5, <2>2, <3>1, <3>2 DEF IInv, LinksApart, Calm
  <2>3. ASSUME NEW u \in Caller, call[u].dev \in Calm', pc'[u] = "type"
        PROVE  call[u].name \in odes'[call[u].dev]
    <3>1. CASE u = t
      BY <1>6, <2>3, <3>1 DEF Calm
    <3>2. CASE u # t
      <4>1. pc[u] = "type" /\ call[u].dev \in Calm
        BY <1>3, <1>4, <2>3, <3>2
      <4> QED  BY <1>5, <4>1 DEF IInv, LinksApart, Calm
    <3> QED  BY <3>1, <3>2
  <2> QED  BY <1>1, <2>1, <2>2, <2>3 DEF LinksApart
<1>10. CreatorAlone'
  <2>1. \A u \in Caller : \A e, m : Creates(u, e, m)' => Creates(u, e, m)
    BY <1>1, <1>4 DEF Creates
  <2> QED  BY <1>1, <1>3, <2>1 DEF IInv, CreatorAlone
<1>11. CreatedAreThere' /\ SourcedAreThere' /\ Grabbed' /\ GrantsFlagged'
  <2>1. CreatedAreThere' /\ SourcedAreThere'
    BY <1>1, <1>3, <1>5 DEF IInv, CreatedAreThere, SourcedAreThere, Calm
  <2>2. Grabbed'
    BY <1>1, <1>3, <1>5 DEF IInv, Grabbed, Calm
  <2> QED  BY <1>1, <2>1, <2>2 DEF IInv, GrantsFlagged
<1>12. TypeWasAnswered'
  <2> SUFFICES ASSUME NEW e \in Calm', NEW m \in Ode,
                      \E ty \in Type : <<e, m, ty>> \in told', ~Busy(e, m)'
               PROVE  <<e, m, type'[e][m]>> \in told'
      BY DEF TypeWasAnswered
  <2>1. ~(e = d /\ m = n)
    BY <1>1, <1>4 DEF Busy
  <2>2. ~Busy(e, m)
    BY <1>1, <1>4, <2>1 DEF Busy
  <2>3. e \in Calm /\ type'[e][m] = type[e][m]
    BY <1>3, <1>5, <1>6, <2>1 DEF Calm
  <2> QED  BY <1>1, <2>2, <2>3 DEF IInv, TypeWasAnswered
<1> QED  BY <1>7, <1>8, <1>9, <1>10, <1>11, <1>12 DEF IInv

LEMMA SetTypeIInv == ASSUME IInv, NEW t \in Caller, SetType(t) PROVE IInv'
<1> DEFINE d == call[t].dev
           n == call[t].name
           ty == call[t].type
<1>1. /\ pc[t] = "type"
      /\ IF d \in raced THEN UNCHANGED <<type, told>>
         ELSE /\ type' = [type EXCEPT ![d][n] = ty]
              /\ told' = told \cup {<<d, n, ty>>}
      /\ pc' = [pc EXCEPT ![t] = "idle"]
      /\ call' = [call EXCEPT ![t] = None]
      /\ UNCHANGED <<born, odes, sourced, bg, query, grants, dup, raced, crashed>>
      /\ UNCHANGED <<granted, twice>> /\ Calm' = Calm
  BY DEF SetType, grants, Calm
<1>2. d \in Device /\ n \in Ode /\ ty \in Type /\ call[t] \in Call /\ d \in born
  BY <1>1, CallType
<1>3. pc'[t] = "idle" /\ \A u \in Caller \ {t} : pc'[u] = pc[u] /\ call'[u] = call[u]
  BY <1>1 DEF IInv, TypeOK
<1>4. \A e \in Device : e # d => type'[e] = type[e]
  BY <1>1 DEF IInv, TypeOK
<1>5. d \notin raced => /\ type'[d][n] = ty
                        /\ \A m \in Ode : m # n => type'[d][m] = type[d][m]
  BY <1>1, <1>2 DEF IInv, TypeOK
<1>6. /\ \A e, m, tz : <<e, m, tz>> \in told' =>
                         <<e, m, tz>> \in told \/ (e = d /\ m = n /\ tz = ty /\ d \notin raced)
      /\ told \subseteq told'
  BY <1>1
<1>7. TypeOK'
  <2>1. told' \subseteq Device \X Name \X Type
    BY <1>1, <1>2 DEF IInv, TypeOK, Name
  <2>2. type' \in [Device -> [Ode -> Type]]
    <3>1. [type[d] EXCEPT ![n] = ty] \in [Ode -> Type]
      BY <1>2 DEF IInv, TypeOK
    <3>2. type' = type \/ type' = [type EXCEPT ![d] = [type[d] EXCEPT ![n] = ty]]
      BY <1>1
    <3> QED  BY <1>2, <3>1, <3>2 DEF IInv, TypeOK
  <2>3. /\ pc' \in [Caller -> {"idle", "look", "insert", "link", "type"}]
        /\ call' \in [Caller -> Call \cup {None}]
        /\ \A u \in Caller : pc'[u] # "idle" => call'[u] \in Call
    BY <1>1, <1>2, <1>3 DEF IInv, TypeOK
  <2> QED  BY <1>1, <2>1, <2>2, <2>3 DEF IInv, TypeOK
<1>8. BornFirst'
  <2>1. \A u \in Caller : pc'[u] # "idle" => call'[u].dev \in born
    BY <1>3 DEF IInv, BornFirst
  <2>2. \A e \in Device, m \in Name, tz \in Type : <<e, m, tz>> \in told' => e \in born
    BY <1>2, <1>6 DEF IInv, BornFirst
  <2> QED  BY <1>1, <2>1, <2>2 DEF IInv, BornFirst
<1>9. LinksApart'
  <2>1. \A u \in Caller : pc'[u] \in {"link", "type"} =>
          u # t /\ pc[u] = pc'[u] /\ call'[u] = call[u]
    BY <1>3
  <2> QED  BY <1>1, <2>1 DEF IInv, LinksApart
<1>10. CreatorAlone'
  <2> SUFFICES ASSUME NEW e \in Calm, NEW m \in Ode, <<e, m>> \notin dup
               PROVE  /\ \A u, v \in Caller : Creates(u, e, m)' /\ Creates(v, e, m)' => u = v
                      /\ \A u \in Caller, tz \in Type : Creates(u, e, m)' => <<e, m, tz>> \notin told'
      BY <1>1 DEF CreatorAlone
  <2>1. /\ \A u, v \in Caller : Creates(u, e, m) /\ Creates(v, e, m) => u = v
        /\ \A u \in Caller, tz \in Type : Creates(u, e, m) => <<e, m, tz>> \notin told
    BY DEF IInv, CreatorAlone
  <2>2. \A u \in Caller : Creates(u, e, m)' => u # t /\ Creates(u, e, m)
    BY <1>3 DEF Creates
  <2>3. Creates(t, d, n)
    BY <1>1 DEF Creates
  <2> QED  BY <1>6, <2>1, <2>2, <2>3
<1>11. CreatedAreThere'
  <2>1. d \notin raced => n \in odes[d]
    BY <1>1, <1>2 DEF IInv, LinksApart, Calm
  <2> QED  BY <1>1, <1>6, <2>1 DEF IInv, CreatedAreThere
<1>12. SourcedAreThere' /\ Grabbed' /\ GrantsFlagged'
  BY <1>1 DEF IInv, SourcedAreThere, Grabbed, GrantsFlagged
<1>13. TypeWasAnswered'
  <2> SUFFICES ASSUME NEW e \in Calm, NEW m \in Ode,
                      \E tz \in Type : <<e, m, tz>> \in told', ~Busy(e, m)'
               PROVE  <<e, m, type'[e][m]>> \in told'
      BY <1>1 DEF TypeWasAnswered
  <2>1. CASE e = d /\ m = n
    BY <1>1, <1>5, <2>1 DEF Calm
  <2>2. CASE ~(e = d /\ m = n)
    <3>1. ~Busy(e, m)
      BY <1>3, <2>2 DEF Busy
    <3>2. type'[e][m] = type[e][m]
      BY <1>4, <1>5, <2>2 DEF Calm
    <3>3. \E tz \in Type : <<e, m, tz>> \in told
      BY <1>6, <2>2
    <3> QED  BY <1>6, <3>1, <3>2, <3>3 DEF IInv, TypeWasAnswered
  <2> QED  BY <2>1, <2>2
<1> QED  BY <1>7, <1>8, <1>9, <1>10, <1>11, <1>12, <1>13 DEF IInv

----------------------------------------------------------------------------
LEMMA BeginBirthIInv == ASSUME IInv, NEW d \in Device, BeginBirth(d) PROVE IInv'
<1>1. /\ d \notin born /\ bg' = "birth" /\ query' = [dev |-> d, name |-> None]
      /\ UNCHANGED <<born, odes, type, sourced, pc, call, told, grants, dup, raced, crashed>>
      /\ UNCHANGED <<granted, twice>>
  BY DEF BeginBirth, history, grants
<1>2. TypeOK' /\ BornFirst' /\ Grabbed'
  BY <1>1 DEF IInv, TypeOK, BornFirst, Grabbed
<1> QED  BY <1>1, <1>2, SameModel DEF IInv

LEMMA QueryIInv == ASSUME IInv, NEW d \in Device, NEW n \in Name, Query(d, n) PROVE IInv'
<1>1. /\ d \in born /\ bg' = "look" /\ query' = [dev |-> d, name |-> n]
      /\ UNCHANGED <<born, odes, type, sourced, pc, call, told, grants, dup, raced, crashed>>
      /\ UNCHANGED <<granted, twice>>
  BY DEF Query, history, grants
<1>2. TypeOK' /\ BornFirst' /\ Grabbed'
  BY <1>1 DEF IInv, TypeOK, BornFirst, Grabbed
<1> QED  BY <1>1, <1>2, SameModel DEF IInv

LEMMA EndBirthIInv == ASSUME IInv, EndBirth PROVE IInv'
<1> DEFINE d == query.dev
<1>1. /\ bg = "birth" /\ born' = born \cup {d}
      /\ odes' = [odes EXCEPT ![d] = {PreOde}]
      /\ bg' = "idle" /\ query' = None
      /\ UNCHANGED <<type, sourced, pc, call, told, grants, dup, raced, crashed>>
      /\ UNCHANGED <<granted, twice>> /\ Calm' = Calm
  BY DEF EndBirth, history, grants, Calm
<1>2. d \in Device /\ d \notin born
  BY <1>1 DEF IInv, TypeOK, BornFirst
<1>3. \A e \in born : odes'[e] = odes[e]
  BY <1>1, <1>2 DEF IInv, TypeOK
<1>4. TypeOK'
  <2>1. odes' \in [Device -> SUBSET Ode]
    BY <1>1, <1>2, DataAssumption DEF IInv, TypeOK
  <2> QED  BY <1>1, <1>2, <2>1 DEF IInv, TypeOK
<1>5. BornFirst'
  BY <1>1, <1>2 DEF IInv, BornFirst
<1>6. LinksApart'
  <2>1. \A t \in Caller : pc[t] # "idle" => odes'[call[t].dev] = odes[call[t].dev]
    BY <1>3 DEF IInv, BornFirst
  <2> QED  BY <1>1, <2>1 DEF IInv, LinksApart
<1>7. CreatorAlone' /\ GrantsFlagged' /\ Grabbed'
  BY <1>1 DEF IInv, CreatorAlone, Creates, GrantsFlagged, Grabbed
<1>8. CreatedAreThere'
  <2>1. \A e \in Calm, n \in Ode, ty \in Type : <<e, n, ty>> \in told => e \in born
    BY DEF IInv, BornFirst, Calm, Name
  <2> QED  BY <1>1, <1>3, <2>1 DEF IInv, CreatedAreThere
<1>9. SourcedAreThere'
  <2>1. \A e \in Calm, n \in Name : <<e, n>> \in sourced => e \in born
    BY DEF IInv, BornFirst, Calm
  <2> QED  BY <1>1, <1>3, <2>1 DEF IInv, SourcedAreThere
<1>10. TypeWasAnswered'
  BY <1>1 DEF IInv, TypeWasAnswered, Busy
<1> QED  BY <1>4, <1>5, <1>6, <1>7, <1>8, <1>9, <1>10 DEF IInv

(* The background thread does not link, and only ever adds to what raced.  *)
LEMMA HearStep ==
  ASSUME IInv, UNCHANGED <<born, odes, type, pc, call, told, dup>>,
         raced \subseteq raced', Calm' \subseteq Calm
  PROVE  LinksApart' /\ CreatorAlone' /\ CreatedAreThere' /\ TypeWasAnswered'
<1>1. LinksApart'
  BY DEF IInv, LinksApart
<1>2. CreatorAlone'
  BY DEF IInv, CreatorAlone, Creates
<1>3. CreatedAreThere'
  BY DEF IInv, CreatedAreThere
<1>4. TypeWasAnswered'
  BY DEF IInv, TypeWasAnswered, Busy
<1> QED  BY <1>1, <1>2, <1>3, <1>4

LEMMA RegisterLookIInv == ASSUME IInv, RegisterLook PROVE IInv'
<1> DEFINE d == query.dev
           n == query.name
<1>1. /\ bg = "look"
      /\ query' = IF bg' = "idle" THEN None ELSE query
      /\ UNCHANGED <<born, odes, type, sourced, pc, call, told, grants, dup, crashed>>
      /\ UNCHANGED <<granted, twice>>
  BY DEF RegisterLook, history, grants
<1>2. d \in Device /\ d \in born /\ n \in Name
  BY <1>1 DEF IInv, TypeOK, BornFirst
<1>3. /\ bg' \in {"grab", "idle"}
      /\ raced \subseteq raced' /\ raced' \subseteq Device /\ Calm' \subseteq Calm
      /\ bg' = "grab" => n = PreObs \/ (n \in Ode /\ (d \in Calm' => n \in odes[d]))
  <2>1. CASE n \in Obs
    BY <2>1 DEF RegisterLook, IInv, TypeOK, Calm
  <2>2. CASE n \notin Obs
    <3>1. n \in Ode /\ Touch(Background, d)
          /\ ((MayFind(d, n) /\ bg' = "grab") \/ bg' = "idle")
      BY <1>2, <2>2 DEF RegisterLook, Name
    <3>2. raced \subseteq raced' /\ raced' \subseteq Device /\ Calm' \subseteq Calm
      BY <1>2, <3>1, Touched
    <3> QED  BY <3>1, <3>2 DEF MayFind, Calm
  <2> QED  BY <2>1, <2>2
<1>4. TypeOK'
  BY <1>1, <1>2, <1>3 DEF IInv, TypeOK
<1>5. BornFirst'
  BY <1>1, <1>2, <1>3 DEF IInv, BornFirst
<1>6. SourcedAreThere' /\ GrantsFlagged'
  BY <1>1, <1>3 DEF IInv, SourcedAreThere, GrantsFlagged
<1>7. Grabbed'
  BY <1>1, <1>3 DEF Grabbed
<1> QED  BY <1>1, <1>3, <1>4, <1>5, <1>6, <1>7, HearStep DEF IInv

LEMMA RegisterGrabIInv == ASSUME IInv, RegisterGrab PROVE IInv'
<1> DEFINE d == query.dev
           n == query.name
           p == <<d, n>>
<1>1. /\ bg = "grab" /\ bg' = "idle" /\ query' = None
      /\ UNCHANGED <<born, odes, type, pc, call, told, dup, crashed>>
  BY DEF RegisterGrab
<1>2. d \in Device /\ d \in born /\ n \in Name /\ p \in Pair
  BY <1>1 DEF IInv, TypeOK, BornFirst, Pair
<1>3. raced \subseteq raced' /\ raced' \subseteq Device /\ Calm' \subseteq Calm
  <2>1. CASE n \in Ode
    BY <1>2, <2>1, Touched DEF RegisterGrab
  <2>2. CASE n \notin Ode
    BY <2>2 DEF RegisterGrab, IInv, TypeOK, Calm
  <2> QED  BY <2>1, <2>2
<1>4. \/ sourced' = sourced /\ granted' = granted /\ twice' = twice
      \/ /\ sourced' = sourced \cup {p} /\ granted' = granted \cup {p}
         /\ p \notin sourced
         /\ twice' = IF p \in granted THEN twice \cup {p} ELSE twice
  BY DEF RegisterGrab, Granted, grants
<1>5. TypeOK'
  <2>1. sourced' \subseteq Pair /\ granted' \subseteq Pair /\ twice' \subseteq Pair
    BY <1>2, <1>4 DEF IInv, TypeOK
  <2> QED  BY <1>1, <1>3, <2>1 DEF IInv, TypeOK
<1>6. BornFirst'
  BY <1>1, <1>2, <1>4 DEF IInv, BornFirst
<1>7. GrantsFlagged'
  BY <1>4 DEF IInv, GrantsFlagged
<1>8. SourcedAreThere'
  <2>1. d \in Calm' => n \in odes[d] \cup {PreObs}
    BY <1>1, <1>3 DEF IInv, Grabbed
  <2> QED  BY <1>1, <1>3, <1>4, <2>1 DEF IInv, SourcedAreThere
<1>9. Grabbed'
  BY <1>1 DEF Grabbed
<1> QED  BY <1>1, <1>3, <1>5, <1>6, <1>7, <1>8, <1>9, HearStep DEF IInv

----------------------------------------------------------------------------
LEMMA StutterIInv == ASSUME IInv, UNCHANGED vars PROVE IInv'
<1>1. UNCHANGED <<born, odes, type, sourced, pc, call, bg, query, told, granted, twice,
                  dup, raced, crashed>>
      /\ UNCHANGED grants
  BY DEF vars, threads, history, grants
<1>2. TypeOK' /\ BornFirst' /\ Grabbed'
  BY <1>1 DEF IInv, TypeOK, BornFirst, Grabbed, Calm
<1> QED  BY <1>1, <1>2, SameModel DEF IInv

LEMMA StepIInv == ASSUME IInv, [Next]_vars PROVE IInv'
<1>1. ASSUME NEW t \in Caller, Create(t) PROVE IInv'
  BY <1>1, ObservableIInv, CreateOdeIInv, LookIInv, InsertIInv, LinkIInv, SetTypeIInv
     DEF Create
<1>2. ASSUME Hear PROVE IInv'
  BY <1>2, BeginBirthIInv, EndBirthIInv, QueryIInv, RegisterLookIInv, RegisterGrabIInv
     DEF Hear
<1> QED  BY <1>1, <1>2, CrashIInv, StutterIInv DEF Next

LEMMA Invariance == Spec => []IInv
BY InitIInv, StepIInv, PTL DEF Spec

(* Every variable keeps its type.                                          *)
THEOREM DataTypeOK == Spec => []TypeOK
<1>1. IInv => TypeOK
  BY DEF IInv
<1> QED  BY <1>1, Invariance, PTL

(* What a create was answered OK for can be found, whatever other creates  *)
(* and registrations run at the same time, as long as no map is raced.     *)
THEOREM DataCreatedAreThere == Spec => []CreatedAreThere
<1>1. IInv => CreatedAreThere
  BY DEF IInv
<1> QED  BY <1>1, Invariance, PTL

(* The type of an element at rest is one that was answered OK.             *)
THEOREM DataTypeWasAnswered == Spec => []TypeWasAnswered
<1>1. IInv => TypeWasAnswered
  BY DEF IInv
<1> QED  BY <1>1, Invariance, PTL

(* A source is granted only of an element that exists.                     *)
THEOREM DataSourcedAreThere == Spec => []SourcedAreThere
<1>1. IInv => SourcedAreThere
  BY DEF IInv
<1> QED  BY <1>1, Invariance, PTL

(* A source is granted once.                                               *)
THEOREM DataGrantedOnce == Spec => []GrantedOnce
<1>1. IInv => GrantedOnce
  BY DEF IInv, GrantsFlagged, GrantedOnce
<1> QED  BY <1>1, Invariance, PTL

(* A second create of a name is answered OK only after two calls had both  *)
(* found the name absent.                                                  *)
THEOREM DataOneCreator == Spec => OneCreator
<1>1. ASSUME IInv, [Next]_vars PROVE [OkStep]_vars
  <2> SUFFICES ASSUME NEW t \in Caller, pc[t] = "type",
                      call[t].dev \notin raced, <<call[t].dev, call[t].name>> \notin dup
               PROVE  \A ty \in Type : <<call[t].dev, call[t].name, ty>> \notin told
    BY DEF OkStep
  <2>1. call[t].dev \in Calm /\ call[t].name \in Ode
    BY <1>1, CallType DEF Calm
  <2>2. Creates(t, call[t].dev, call[t].name)
    BY DEF Creates
  <2> QED  BY <1>1, <2>1, <2>2 DEF IInv, CreatorAlone
<1> QED  BY <1>1, Invariance, PTL DEF Spec, OneCreator
----------------------------------------------------------------------------
(* The data model keeps its promise.                                       *)
promised == <<seenNames, seenTypes, seenAnswers, seenGrants, seenContests, raced>>

(* A device has its element of birth, which nobody creates, and before it  *)
(* is born there is nothing to see.                                        *)
BornWithPre ==
  /\ raced \subseteq born
  /\ \A d \in Device \ born, n \in Ode : type[d][n] = Default
  /\ \A d \in born : PreOde \in odes[d]
  /\ \A t \in Caller : pc[t] \in {"insert", "link", "type"} /\ call[t].dev \in Calm
                         => call[t].name # PreOde

LEMMA StepBornWithPre == IInv /\ BornWithPre /\ [Next]_vars => BornWithPre'
<1> SUFFICES ASSUME IInv, BornWithPre, [Next]_vars PROVE BornWithPre'
    OBVIOUS
<1>1. ASSUME UNCHANGED <<born, odes, type, pc, call, raced>> PROVE BornWithPre'
  BY <1>1 DEF BornWithPre, Calm
<1>2. ASSUME NEW t \in Caller, NEW d \in Device, NEW n \in Ode, NEW ty \in Type,
             CreateOde(t, d, n, ty)
      PROVE  BornWithPre'
  <2>1. /\ UNCHANGED <<born, odes, type, raced>> /\ pc'[t] = "look"
        /\ \A u \in Caller \ {t} : pc'[u] = pc[u] /\ call'[u] = call[u]
    BY <1>2 DEF CreateOde, IInv, TypeOK
  <2> QED  BY <2>1 DEF BornWithPre, Calm
<1>3. ASSUME NEW t \in Caller, Look(t) PROVE BornWithPre'
  <2> DEFINE d == call[t].dev
             n == call[t].name
  <2>1. /\ pc[t] = "look" /\ Touch(t, d) /\ UNCHANGED <<born, odes, type>>
        /\ \A u \in Caller \ {t} : pc'[u] = pc[u] /\ call'[u] = call[u]
        /\ pc'[t] = "idle" \/ (pc'[t] = "insert" /\ call' = call /\ MayMiss(d, n))
    BY <1>3 DEF Look, IInv, TypeOK
  <2>2. d \in Device /\ d \in born
    BY <2>1, CallType
  <2>3. raced \subseteq raced' /\ raced' \subseteq born /\ Calm' \subseteq Calm
    BY <2>1, <2>2, Touched DEF Touch, BornWithPre
  <2>4. pc'[t] = "insert" /\ d \in Calm' => n # PreOde
    BY <2>1, <2>2 DEF MayMiss, Calm, BornWithPre
  <2> QED  BY <2>1, <2>3, <2>4 DEF BornWithPre
<1>4. ASSUME NEW t \in Caller, Insert(t) PROVE BornWithPre'
  <2>1. /\ pc[t] = "insert" /\ Touch(t, call[t].dev) /\ UNCHANGED <<born, odes, type, call>>
        /\ \A u \in Caller \ {t} : pc'[u] = pc[u]
    BY <1>4 DEF Insert, IInv, TypeOK
  <2>2. call[t].dev \in Device /\ call[t].dev \in born
    BY <2>1, CallType
  <2>3. raced \subseteq raced' /\ raced' \subseteq born /\ Calm' \subseteq Calm
    BY <2>1, <2>2, Touched DEF Touch, BornWithPre
  <2> QED  BY <2>1, <2>3 DEF BornWithPre
<1>5. ASSUME NEW t \in Caller, Link(t) PROVE BornWithPre'
  <2>1. /\ pc[t] = "link" /\ Touch(t, call[t].dev) /\ UNCHANGED <<born, call>>
        /\ \A u \in Caller \ {t} : pc'[u] = pc[u]
        /\ \A e \in Device : e # call[t].dev => type'[e] = type[e]
        /\ \A e \in Device : odes[e] \subseteq odes'[e]
    BY <1>5 DEF Link, IInv, TypeOK
  <2>2. call[t].dev \in Device /\ call[t].dev \in born
    BY <2>1, CallType
  <2>3. raced \subseteq raced' /\ raced' \subseteq born /\ Calm' \subseteq Calm
    BY <2>1, <2>2, Touched DEF Touch, BornWithPre
  <2>4. born \subseteq Device
    BY DEF IInv, TypeOK
  <2> QED  BY <2>1, <2>2, <2>3, <2>4 DEF BornWithPre
<1>6. ASSUME NEW t \in Caller, SetType(t) PROVE BornWithPre'
  <2>1. /\ pc[t] = "type" /\ pc'[t] = "idle" /\ UNCHANGED <<born, odes, raced>>
        /\ \A u \in Caller \ {t} : pc'[u] = pc[u] /\ call'[u] = call[u]
        /\ \A e \in Device : e # call[t].dev => type'[e] = type[e]
    BY <1>6 DEF SetType, IInv, TypeOK
  <2>2. call[t].dev \in born
    BY <2>1, CallType
  <2> QED  BY <2>1, <2>2 DEF BornWithPre, Calm
<1>7. ASSUME EndBirth PROVE BornWithPre'
  <2>1. /\ query.dev \in Device \ born /\ born' = born \cup {query.dev}
        /\ odes' = [odes EXCEPT ![query.dev] = {PreOde}]
        /\ UNCHANGED <<type, pc, call, raced>>
    BY <1>7 DEF EndBirth, IInv, TypeOK, BornFirst
  <2>2. born \subseteq Device /\ odes \in [Device -> SUBSET Ode]
    BY DEF IInv, TypeOK
  <2> QED  BY <2>1, <2>2 DEF BornWithPre, Calm
<1>8. ASSUME RegisterLook \/ RegisterGrab PROVE BornWithPre'
  <2>1. /\ UNCHANGED <<born, odes, type, pc, call>>
        /\ raced' = raced \/ Touch(Background, query.dev)
        /\ query.dev \in born /\ query.dev \in Device
    BY <1>8 DEF RegisterLook, RegisterGrab, IInv, TypeOK, BornFirst
  <2>2. raced \subseteq raced' /\ raced' \subseteq born /\ Calm' \subseteq Calm
    BY <2>1, Touched DEF Touch, BornWithPre, Calm
  <2> QED  BY <2>1, <2>2 DEF BornWithPre
<1>9. CASE UNCHANGED vars
  BY <1>1, <1>9 DEF vars, threads
<1>10. CASE \E d \in Device : Crash(d)
  BY <1>1, <1>10 DEF Crash, threads
<1>11. CASE \E t \in Caller : \E d \in Device, n \in Obs : CreateObservable(t, d, n)
  BY <1>1, <1>11 DEF CreateObservable, threads
<1>12. CASE (\E d \in Device : BeginBirth(d)) \/ \E d \in Device, n \in Name : Query(d, n)
  BY <1>1, <1>12 DEF BeginBirth, Query
<1> QED  BY <1>2, <1>3, <1>4, <1>5, <1>6, <1>7, <1>8, <1>9, <1>10, <1>11, <1>12
         DEF Next, Create, Hear

(* What nobody else sees, and what is only done to a map raced already.    *)
LEMMA NothingSeen ==
  ASSUME UNCHANGED <<seenNames, seenTypes, seenAnswers, seenGrants, seenContests, raced>>
  PROVE  [Promise!Next]_promised
BY DEF promised

LEMMA SameSeen ==
  ASSUME UNCHANGED <<born, odes, type, told, granted, dup, raced>>
  PROVE  [Promise!Next]_promised
BY NothingSeen DEF seenNames, seenTypes, seenAnswers, seenGrants, seenContests, Has, SeenTypes

(* A thread that is in a map while another links spoils it.                *)
LEMMA TouchSpoils ==
  ASSUME IInv, NEW t, NEW d \in born, Touch(t, d), d \in raced',
         UNCHANGED <<born, odes, type, told, granted>>,
         dup \subseteq dup', \A p \in dup' : p \in dup \/ p[1] = d
  PROVE  [Promise!Next]_promised
<1>1. d \in Device /\ raced' = raced \cup {d}
  BY DEF Touch, IInv, TypeOK
<1>2. CASE d \in raced
  <2>1. raced' = raced
    BY <1>1, <1>2
  <2>2. seenContests' = seenContests
    BY <1>2, <2>1 DEF seenContests
  <2>3. UNCHANGED <<seenNames, seenTypes, seenAnswers, seenGrants>>
    BY <2>1 DEF seenNames, seenTypes, seenAnswers, seenGrants, Has, SeenTypes
  <2> QED  BY <2>1, <2>2, <2>3, NothingSeen
<1>3. CASE d \notin raced
  <2>1. seenNames[d] # {}
    BY <1>1, <1>3 DEF seenNames, Has
  <2>2. \A e \in Device : Has(e)' = IF e = d THEN {} ELSE Has(e)
    BY <1>1 DEF Has
  <2>3. seenNames' = [seenNames EXCEPT ![d] = {}]
    BY <2>2 DEF seenNames
  <2>4. seenTypes' = [seenTypes EXCEPT ![d] = Promise!AllDefault]
    <3>1. \A e \in Device : SeenTypes(e)' = IF e = d THEN Promise!AllDefault ELSE SeenTypes(e)
      BY <2>2 DEF SeenTypes, Promise!AllDefault
    <3> QED  BY <3>1 DEF seenTypes
  <2>5. /\ seenAnswers' = {a \in seenAnswers : a[1] # d}
        /\ seenGrants' = {p \in seenGrants : p[1] # d}
        /\ seenContests' = {p \in seenContests : p[1] # d}
    BY <1>1 DEF seenAnswers, seenGrants, seenContests
  <2>6. Promise!Spoil(d)
    BY <1>1, <2>1, <2>3, <2>4, <2>5 DEF Promise!Spoil
  <2> QED  BY <1>1, <2>6 DEF Promise!Next
<1> QED  BY <1>2, <1>3

(* The observables that are reported as created are not elements.          *)
LEMMA ObservableNotSeen ==
  ASSUME IInv, NEW t \in Caller, NEW d \in Device, NEW n \in Obs, CreateObservable(t, d, n)
  PROVE  [Promise!Next]_promised
<1>1. /\ told' = told \cup {<<d, n, Default>>} /\ n \notin Ode
      /\ UNCHANGED <<born, odes, type, granted, dup, raced>>
  BY DataAssumption DEF CreateObservable, grants
<1>2. seenAnswers' = seenAnswers
  BY <1>1 DEF seenAnswers
<1>3. UNCHANGED <<seenNames, seenTypes, seenGrants, seenContests>>
  BY <1>1 DEF seenNames, seenTypes, seenGrants, seenContests, Has, SeenTypes
<1> QED  BY <1>1, <1>2, <1>3, NothingSeen

LEMMA LookSeen == ASSUME IInv, BornWithPre, NEW t \in Caller, Look(t) PROVE [Promise!Next]_promised
<1> DEFINE d == call[t].dev
           n == call[t].name
<1>1. /\ Touch(t, d) /\ UNCHANGED <<born, odes, type, told, granted>>
      /\ \/ dup' = dup
         \/ dup' = dup \cup {<<d, n>>} /\ MayMiss(d, n)
  BY DEF Look, grants
<1>2. d \in Device /\ d \in born /\ n \in Ode
  BY CallType DEF Look
<1>3. CASE d \in raced'
  BY <1>1, <1>2, <1>3, TouchSpoils
<1>4. CASE d \notin raced' /\ dup' = dup
  <2>1. raced' = raced
    BY <1>1, <1>4 DEF Touch
  <2> QED  BY <1>1, <1>4, <2>1, SameSeen
<1>5. CASE d \notin raced' /\ dup' # dup
  <2>1. raced' = raced /\ n \notin odes[d] /\ n # PreObs /\ dup' = dup \cup {<<d, n>>}
    BY <1>1, <1>2, <1>5, DataAssumption DEF Touch, MayMiss
  <2>2. seenNames[d] # {} /\ n \notin seenNames[d]
    BY <1>2, <1>5, <2>1 DEF seenNames, Has
  <2>3. seenContests' = seenContests \cup {<<d, n>>}
    BY <1>5, <2>1 DEF seenContests
  <2>4. UNCHANGED <<seenNames, seenTypes, seenAnswers, seenGrants>>
    BY <1>1, <2>1 DEF seenNames, seenTypes, seenAnswers, seenGrants, Has, SeenTypes
  <2>5. Promise!Contest(d, n)
    BY <2>1, <2>2, <2>3, <2>4 DEF Promise!Contest
  <2> QED  BY <1>2, <2>5 DEF Promise!Next, Name
<1> QED  BY <1>3, <1>4, <1>5

LEMMA InsertSeen == ASSUME IInv, NEW t \in Caller, Insert(t) PROVE [Promise!Next]_promised
<1>1. /\ Touch(t, call[t].dev) /\ call[t].dev \in born
      /\ UNCHANGED <<born, odes, type, told, granted, dup>>
  BY CallType DEF Insert, history, grants
<1>2. CASE call[t].dev \in raced'
  BY <1>1, <1>2, TouchSpoils
<1>3. CASE call[t].dev \notin raced'
  <2>1. raced' = raced
    BY <1>1, <1>3 DEF Touch
  <2> QED  BY <1>1, <2>1, SameSeen
<1> QED  BY <1>2, <1>3

LEMMA LinkSeen == ASSUME IInv, NEW t \in Caller, Link(t) PROVE [Promise!Next]_promised
<1>1. PICK d \in Device, n \in Ode : d = call[t].dev /\ n = call[t].name /\ d \in born
  BY CallType DEF Link
<1>2. /\ pc[t] = "link" /\ Touch(t, d)
      /\ IF d \in raced' THEN UNCHANGED <<odes, type>>
         ELSE /\ odes' = [odes EXCEPT ![d] = @ \cup {n}]
              /\ type' = [type EXCEPT ![d][n] = Default]
      /\ UNCHANGED <<born, told, granted, dup>>
  BY <1>1 DEF Link, history, grants
<1>3. CASE d \in raced'
  BY <1>2, <1>1, <1>3, TouchSpoils
<1>4. CASE d \notin raced'
  <2>1. raced' = raced /\ n \notin odes[d] /\ n # PreObs
    BY <1>2, <1>1, <1>4, DataAssumption DEF Touch, IInv, LinksApart, Calm
  <2>2. \A e \in Device : Has(e)' = IF e = d THEN Has(d) \cup {n} ELSE Has(e)
    <3>1. /\ odes'[d] = odes[d] \cup {n}
          /\ \A e \in Device \ {d} : odes'[e] = odes[e]
      BY <1>2, <1>1, <1>4 DEF IInv, TypeOK
    <3>2. Has(d)' = Has(d) \cup {n}
      BY <1>2, <1>1, <1>4, <2>1, <3>1 DEF Has
    <3>3. \A e \in Device \ {d} : Has(e)' = Has(e)
      BY <1>2, <2>1, <3>1 DEF Has
    <3> QED  BY <3>2, <3>3
  <2>3. seenNames' = [seenNames EXCEPT ![d] = @ \cup {n}]
    BY <1>1, <2>2 DEF seenNames
  <2>4. seenNames[d] # {} /\ n \notin seenNames[d]
    BY <1>1, <1>4, <2>1 DEF seenNames, Has
  <2>5. \A e \in Device, m \in Ode :
          type'[e][m] = IF e = d /\ m = n THEN Default ELSE type[e][m]
    BY <1>2, <1>1, <1>4 DEF IInv, TypeOK
  <2>6. n \notin Has(d)
    BY <2>1 DEF Has
  <2>7. \A e \in Device : SeenTypes(e)' = SeenTypes(e)
    BY <2>2, <2>5, <2>6 DEF SeenTypes
  <2>8. UNCHANGED <<seenTypes, seenAnswers, seenGrants, seenContests>>
    BY <1>2, <2>1, <2>7 DEF seenTypes, seenAnswers, seenGrants, seenContests
  <2>9. Promise!Add(d, n)
    BY <2>1, <2>3, <2>4, <2>8 DEF Promise!Add
  <2> QED  BY <1>1, <2>9 DEF Promise!Next, Name
<1> QED  BY <1>3, <1>4

LEMMA SetTypeSeen == ASSUME IInv, BornWithPre, NEW t \in Caller, SetType(t) PROVE [Promise!Next]_promised
<1>1. PICK d \in Device, n \in Ode, ty \in Type :
        d = call[t].dev /\ n = call[t].name /\ ty = call[t].type /\ d \in born
  BY CallType DEF SetType
<1>2. /\ pc[t] = "type"
      /\ IF d \in raced THEN UNCHANGED <<type, told>>
         ELSE /\ type' = [type EXCEPT ![d][n] = ty]
              /\ told' = told \cup {<<d, n, ty>>}
      /\ UNCHANGED <<born, odes, granted, dup, raced>>
  BY <1>1 DEF SetType, grants
<1>3. CASE d \in raced
  BY <1>2, <1>3, SameSeen
<1>4. CASE d \notin raced
  <2>1. n \in odes[d] /\ n # PreOde /\ n # PreObs
    BY <1>2, <1>1, <1>4, DataAssumption DEF IInv, LinksApart, BornWithPre, Calm
  <2>2. n \in Has(d) /\ n \in seenNames[d] \ {PreOde, PreObs}
    BY <1>1, <1>4, <2>1 DEF seenNames, Has
  <2>3. <<d, n>> \in seenContests \/ \A u \in Type : <<d, n, u>> \notin seenAnswers
    <3>1. Creates(t, d, n)
      BY <1>1, <1>2 DEF Creates
    <3>2. <<d, n>> \in dup \/ \A u \in Type : <<d, n, u>> \notin told
      BY <1>1, <1>4, <3>1 DEF IInv, CreatorAlone, Calm
    <3> QED  BY <1>4, <3>2 DEF seenContests, seenAnswers
  <2>4. \A e \in Device, m \in Ode :
          type'[e][m] = IF e = d /\ m = n THEN ty ELSE type[e][m]
    BY <1>2, <1>1, <1>4 DEF IInv, TypeOK
  <2>5. \A e \in Device : Has(e)' = Has(e)
    BY <1>2 DEF Has
  <2>6. \A e \in Device \ {d} : SeenTypes(e)' = SeenTypes(e)
    BY <2>4, <2>5 DEF SeenTypes
  <2>7. SeenTypes(d)' = [SeenTypes(d) EXCEPT ![n] = ty]
    <3>1. \A m \in Name : SeenTypes(d)'[m] = IF m = n THEN ty ELSE SeenTypes(d)[m]
      BY <1>1, <2>2, <2>4, <2>5 DEF SeenTypes
    <3>2. /\ SeenTypes(d) = [m \in Name |-> SeenTypes(d)[m]]
          /\ SeenTypes(d)' = [m \in Name |-> SeenTypes(d)'[m]]
      BY DEF SeenTypes
    <3> QED  BY <3>1, <3>2
  <2>8. seenTypes' = [seenTypes EXCEPT ![d][n] = ty]
    <3>1. seenTypes' = [e \in Device |-> SeenTypes(e)'] /\ seenTypes[d] = SeenTypes(d)
      BY <1>1 DEF seenTypes
    <3>2. seenTypes' = [seenTypes EXCEPT ![d] = SeenTypes(d)']
      BY <1>1, <2>6, <3>1 DEF seenTypes
    <3> QED  BY <2>7, <3>1, <3>2
  <2>9. seenAnswers' = seenAnswers \cup {<<d, n, ty>>}
    BY <1>2, <1>1, <1>4 DEF seenAnswers
  <2>10. UNCHANGED <<seenNames, seenGrants, seenContests>>
    BY <1>2, <2>5 DEF seenNames, seenGrants, seenContests
  <2>11. Promise!Answer(d, n, ty)
    BY <1>2, <2>2, <2>3, <2>8, <2>9, <2>10 DEF Promise!Answer
  <2> QED  BY <1>1, <2>11 DEF Promise!Next, Name
<1> QED  BY <1>3, <1>4

LEMMA EndBirthSeen == ASSUME IInv, BornWithPre, EndBirth PROVE [Promise!Next]_promised
<1> DEFINE d == query.dev
<1>1. /\ d \in Device /\ d \notin born /\ d \notin raced
      /\ born' = born \cup {d} /\ odes' = [odes EXCEPT ![d] = {PreOde}]
      /\ UNCHANGED <<type, told, granted, dup, raced>>
  BY DEF EndBirth, IInv, TypeOK, BornFirst, BornWithPre, history, grants
<1>2. \A e \in Device : Has(e)' = IF e = d THEN {PreOde, PreObs} ELSE Has(e)
  BY <1>1 DEF Has, IInv, TypeOK
<1>3. seenNames' = [seenNames EXCEPT ![d] = {PreOde, PreObs}]
  BY <1>1, <1>2 DEF seenNames
<1>4. seenNames[d] = {}
  BY <1>1 DEF seenNames, Has
<1>5. \A n \in Ode : type[d][n] = Default
  BY <1>1 DEF BornWithPre
<1>6. \A e \in Device : SeenTypes(e)' = SeenTypes(e)
  BY <1>1, <1>2, <1>5 DEF SeenTypes, Has
<1>7. UNCHANGED <<seenTypes, seenAnswers, seenGrants, seenContests>>
  BY <1>1, <1>6 DEF seenTypes, seenAnswers, seenGrants, seenContests
<1>8. Promise!Birth(d)
  BY <1>1, <1>3, <1>4, <1>7 DEF Promise!Birth
<1> QED  BY <1>1, <1>8 DEF Promise!Next

LEMMA RegisterLookSeen == ASSUME IInv, RegisterLook PROVE [Promise!Next]_promised
<1>1. /\ raced' = raced \/ Touch(Background, query.dev)
      /\ query.dev \in born
      /\ UNCHANGED <<born, odes, type, told, granted, dup>>
  BY DEF RegisterLook, IInv, BornFirst, history, grants
<1>2. CASE raced' = raced
  BY <1>1, <1>2, SameSeen
<1>3. CASE raced' # raced
  BY <1>1, <1>3, TouchSpoils DEF Touch
<1> QED  BY <1>2, <1>3

LEMMA RegisterGrabSeen == ASSUME IInv, RegisterGrab PROVE [Promise!Next]_promised
<1> DEFINE d == query.dev
           n == query.name
<1>1. /\ bg = "grab" /\ d \in born /\ d \in Device /\ n \in Name
      /\ raced' = raced \/ (n \in Ode /\ Touch(Background, d))
      /\ UNCHANGED <<born, odes, type, told, dup>>
      /\ \/ granted' = granted
         \/ /\ granted' = granted \cup {<<d, n>>} /\ <<d, n>> \notin sourced
            /\ ~(n \in Ode /\ d \in raced')
  BY DEF RegisterGrab, Granted, grants, IInv, TypeOK, BornFirst
<1>2. CASE raced' # raced
  <2>1. n \in Ode /\ Touch(Background, d) /\ d \in raced'
    BY <1>1, <1>2 DEF Touch
  <2> QED  BY <1>1, <2>1, TouchSpoils
<1>3. CASE raced' = raced /\ granted' = granted
  BY <1>1, <1>3, SameSeen
<1>4. CASE raced' = raced /\ granted' # granted
  <2>1. granted' = granted \cup {<<d, n>>} /\ <<d, n>> \notin granted
    BY <1>1, <1>4 DEF IInv, GrantsFlagged
  <2>2. UNCHANGED <<seenNames, seenTypes, seenAnswers, seenContests>>
    BY <1>1, <1>4 DEF seenNames, seenTypes, seenAnswers, seenContests, Has, SeenTypes
  <2>3. CASE d \in raced
    <3>1. seenGrants' = seenGrants
      BY <1>4, <2>1, <2>3 DEF seenGrants
    <3> QED  BY <1>4, <2>2, <3>1, NothingSeen
  <2>4. CASE d \notin raced
    <3>1. n \in seenNames[d]
      BY <1>1, <2>4 DEF IInv, Grabbed, Calm, seenNames, Has
    <3>2. seenGrants' = seenGrants \cup {<<d, n>>} /\ <<d, n>> \notin seenGrants
      BY <1>4, <2>1, <2>4 DEF seenGrants
    <3>3. Promise!Grant(d, n)
      BY <1>4, <2>2, <3>1, <3>2 DEF Promise!Grant
    <3> QED  BY <1>1, <3>3 DEF Promise!Next
  <2> QED  BY <2>3, <2>4
<1> QED  BY <1>2, <1>3, <1>4

LEMMA StepPromised == IInv /\ BornWithPre /\ [Next]_vars => [Promise!Next]_promised
<1> SUFFICES ASSUME IInv, BornWithPre, [Next]_vars PROVE [Promise!Next]_promised
    OBVIOUS
<1>1. ASSUME NEW t \in Caller, Create(t) PROVE [Promise!Next]_promised
  <2>1. CASE \E d \in Device, n \in Ode, ty \in Type : CreateOde(t, d, n, ty)
    BY <2>1, SameSeen DEF CreateOde, history, grants
  <2> QED  BY <1>1, <2>1, ObservableNotSeen, LookSeen, InsertSeen, LinkSeen, SetTypeSeen
           DEF Create
<1>2. ASSUME Hear PROVE [Promise!Next]_promised
  <2>1. CASE (\E d \in Device : BeginBirth(d)) \/ \E d \in Device, n \in Name : Query(d, n)
    BY <2>1, SameSeen DEF BeginBirth, Query, history, grants
  <2> QED  BY <1>2, <2>1, EndBirthSeen, RegisterLookSeen, RegisterGrabSeen DEF Hear
<1>3. CASE \E d \in Device : Crash(d)
  BY <1>3, SameSeen DEF Crash, history, grants
<1>4. CASE UNCHANGED vars
  BY <1>4, SameSeen DEF vars, history, grants
<1> QED  BY <1>1, <1>2, <1>3, <1>4 DEF Next

(* Whatever the threads do, the data model is one that changes as Elements *)
(* says: births, additions, answers and grants one at a time.              *)
THEOREM DataKeepsPromise == Spec => KeepsPromise
<1>1. Init => BornWithPre /\ Promise!Init
  <2> SUFFICES ASSUME Init PROVE BornWithPre /\ Promise!Init
      OBVIOUS
  <2>1. BornWithPre
    BY DEF Init, BornWithPre
  <2>2. \A d \in Device : Has(d) = {}
    BY DEF Init, Has
  <2>3. seenNames = [d \in Device |-> {}]
        /\ seenTypes = [d \in Device |-> Promise!AllDefault]
    BY <2>2 DEF seenNames, seenTypes, SeenTypes, Promise!AllDefault
  <2>4. seenAnswers = {} /\ seenGrants = {} /\ seenContests = {} /\ raced = {}
    BY DEF Init, seenAnswers, seenGrants, seenContests
  <2> QED  BY <2>1, <2>3, <2>4 DEF Promise!Init
<1> QED  BY <1>1, Invariance, StepBornWithPre, StepPromised, PTL
         DEF Spec, KeepsPromise, Promise!Spec, promised

----------------------------------------------------------------------------
(* What follows from Elements alone.                                       *)
Pre == {PreOde, PreObs}

AInv ==
  /\ seenNames \in [Device -> SUBSET Name]
  /\ seenTypes \in [Device -> [Name -> Type]]
  /\ Promise!Trustworthy

LEMMA SpoilTrustworthy == ASSUME AInv, NEW d \in Device, Promise!Spoil(d) PROVE AInv'
<1>1. /\ \A e \in Device : /\ seenNames'[e] = IF e = d THEN {} ELSE seenNames[e]
                           /\ seenTypes'[e] = IF e = d THEN Promise!AllDefault ELSE seenTypes[e]
      /\ seenAnswers' = {a \in seenAnswers : a[1] # d}
      /\ seenGrants' = {p \in seenGrants : p[1] # d}
      /\ seenContests' = {p \in seenContests : p[1] # d}
  BY DEF Promise!Spoil, AInv
<1>2. /\ seenNames' \in [Device -> SUBSET Name]
      /\ seenTypes' \in [Device -> [Name -> Type]]
  BY DataAssumption DEF Promise!Spoil, AInv, Promise!AllDefault
<1>3. Promise!AnsweredAreThere' /\ Promise!GrantedAreThere'
  BY <1>1 DEF AInv, Promise!Trustworthy, Promise!AnsweredAreThere, Promise!GrantedAreThere
<1>4. Promise!TypesAreAnswered'
  BY <1>1 DEF AInv, Promise!Trustworthy, Promise!TypesAreAnswered
<1>5. Promise!OthersAreDefault'
  BY <1>1 DEF AInv, Promise!Trustworthy, Promise!OthersAreDefault, Promise!AllDefault
<1> QED  BY <1>2, <1>3, <1>4, <1>5 DEF AInv, Promise!Trustworthy

LEMMA AnswerTrustworthy ==
  ASSUME AInv, NEW d \in Device, NEW n \in Name, NEW ty \in Type, Promise!Answer(d, n, ty)
  PROVE  AInv'
<1>1. /\ n \in seenNames[d] \ Pre
      /\ <<d, n>> \in seenContests \/ \A u \in Type : <<d, n, u>> \notin seenAnswers
      /\ seenTypes' = [seenTypes EXCEPT ![d][n] = ty]
      /\ seenAnswers' = seenAnswers \cup {<<d, n, ty>>}
      /\ UNCHANGED <<seenNames, seenGrants, seenContests>>
  BY DEF Promise!Answer, Pre
<1>2. /\ seenTypes' \in [Device -> [Name -> Type]]
      /\ \A e \in Device, m \in Name :
           seenTypes'[e][m] = IF e = d /\ m = n THEN ty ELSE seenTypes[e][m]
  BY <1>1 DEF AInv
<1>3. Promise!AnsweredAreThere' /\ Promise!GrantedAreThere'
  BY <1>1 DEF AInv, Promise!Trustworthy, Promise!AnsweredAreThere, Promise!GrantedAreThere, Pre
<1>4. Promise!TypesAreAnswered'
  BY <1>1, <1>2 DEF AInv, Promise!Trustworthy, Promise!TypesAreAnswered
<1>5. Promise!OthersAreDefault'
  BY <1>1, <1>2 DEF AInv, Promise!Trustworthy, Promise!OthersAreDefault
<1> QED  BY <1>1, <1>2, <1>3, <1>4, <1>5 DEF AInv, Promise!Trustworthy

(* The steps that only add names, grants and contests.                     *)
LEMMA GrowTrustworthy ==
  ASSUME AInv, UNCHANGED <<seenTypes, seenAnswers>>,
         seenNames' \in [Device -> SUBSET Name],
         \A d \in Device : seenNames[d] \subseteq seenNames'[d],
         seenContests \subseteq seenContests',
         \A d \in Device, n \in Name :
           <<d, n>> \in seenGrants' => <<d, n>> \in seenGrants \/ n \in seenNames[d]
  PROVE  AInv'
<1>1. Promise!AnsweredAreThere' /\ Promise!GrantedAreThere'
  BY DEF AInv, Promise!Trustworthy, Promise!AnsweredAreThere, Promise!GrantedAreThere
<1>2. Promise!TypesAreAnswered' /\ Promise!OthersAreDefault'
  BY DEF AInv, Promise!Trustworthy, Promise!TypesAreAnswered, Promise!OthersAreDefault
<1> QED  BY <1>1, <1>2 DEF AInv, Promise!Trustworthy

LEMMA StepTrustworthy == AInv /\ [Promise!Next]_promised => AInv'
<1> SUFFICES ASSUME AInv, [Promise!Next]_promised PROVE AInv'
    OBVIOUS
<1>1. ASSUME NEW d \in Device, Promise!Birth(d) PROVE AInv'
  <2>1. /\ seenNames' \in [Device -> SUBSET Name]
        /\ \A e \in Device : seenNames[e] \subseteq seenNames'[e]
    BY <1>1, DataAssumption DEF Promise!Birth, AInv, Name
  <2> QED  BY <1>1, <2>1, GrowTrustworthy DEF Promise!Birth
<1>2. ASSUME NEW d \in Device, NEW n \in Name, Promise!Add(d, n) PROVE AInv'
  <2>1. /\ seenNames' \in [Device -> SUBSET Name]
        /\ \A e \in Device : seenNames[e] \subseteq seenNames'[e]
    BY <1>2 DEF Promise!Add, AInv
  <2> QED  BY <1>2, <2>1, GrowTrustworthy DEF Promise!Add
<1>3. ASSUME NEW d \in Device, NEW n \in Name, Promise!Contest(d, n) \/ Promise!Grant(d, n)
      PROVE  AInv'
  <2>1. seenNames' \in [Device -> SUBSET Name] /\ seenNames' = seenNames
    BY <1>3 DEF Promise!Contest, Promise!Grant, AInv
  <2> QED  BY <1>3, <2>1, GrowTrustworthy DEF Promise!Contest, Promise!Grant
<1>4. CASE UNCHANGED promised
  BY <1>4, GrowTrustworthy DEF promised, AInv
<1> QED  BY <1>1, <1>2, <1>3, <1>4, SpoilTrustworthy, AnswerTrustworthy DEF Promise!Next

(* The data model can be trusted: what was created or granted is there, a  *)
(* created element has the type of the only create that was answered for   *)
(* it unless two found it absent together, and nothing else has changed.   *)
THEOREM DataTrustworthy == Spec => []Promise!Trustworthy
<1>1. Promise!Init => AInv
  BY DataAssumption DEF Promise!Init, Promise!AllDefault, AInv, Promise!Trustworthy,
     Promise!AnsweredAreThere, Promise!GrantedAreThere, Promise!TypesAreAnswered,
     Promise!OthersAreDefault
<1>2. AInv => Promise!Trustworthy
  BY DEF AInv
<1>3. AInv /\ [Promise!Next]_<<seenNames, seenTypes, seenAnswers, seenGrants, seenContests, raced>>
        => AInv'
  BY StepTrustworthy DEF promised
<1> QED  BY <1>1, <1>2, <1>3, DataKeepsPromise, PTL DEF KeepsPromise, Promise!Spec
=============================================================================
