------------------------------- MODULE MdData -------------------------------
(***************************************************************************)
(* The data model of the Master Daemon and the threads that share it       *)
(* without a lock: those of the XML-RPC server, which run create           *)
(* (coreapi.h, mdState.cpp, mdObservable.cpp), and the background thread,  *)
(* which hears births and registrations (mdDevice.cpp, mdState.cpp).       *)
(*                                                                         *)
(* A std::map that two threads are in while one of them links a node is    *)
(* raced: from then on a look-up in it may answer either way or crash, and *)
(* what it holds is not followed further.  Entries are never removed.      *)
(***************************************************************************)
EXTENDS FiniteSets

CONSTANTS Device,      \* the handles of the machine and the instruments
          Caller,      \* the threads of the XML-RPC server
          Ode, Obs,    \* names that start with an underscore, and that do not
          Type,        \* type signatures, one of them the default
          Default,
          PreOde, PreObs,  \* what each device has from its birth
          Background,  \* the thread of the data layer
          None

Name   == Ode \cup Obs
Thread == Caller \cup {Background}

ASSUME DataAssumption ==
  /\ Ode \cap Obs = {}
  /\ PreOde \in Ode /\ PreObs \in Obs
  /\ Default \in Type
  /\ Background \notin Caller
  /\ None \notin Caller \cup Device \cup Name

VARIABLES born,     \* masterDaemonConfig::allClients, and instruments or theMachine
          odes,     \* mdState::localODEs of each device: the names
          type,     \* referenceType of each element
          sourced,  \* the elements with hasSource set
          pc, call, \* where each XML-RPC thread is, and with what
          bg, query,  \* the same of the background thread
          told,     \* the creates that were answered OK
          granted,  \* the registrations that were answered with success
          twice,    \* those that were more than once
          dup,      \* names two calls found absent at the same time
          raced,    \* the devices whose localODEs was touched during a link
          crashed

threads == <<pc, call, bg, query>>
grants  == <<granted, twice>>
history == <<told, grants, dup>>
vars    == <<born, odes, type, sourced, threads, history, raced, crashed>>

Init ==
  /\ born = {}
  /\ odes = [d \in Device |-> {}]
  /\ type = [d \in Device |-> [n \in Ode |-> Default]]
  /\ sourced = {}
  /\ pc = [t \in Caller |-> "idle"]
  /\ call = [t \in Caller |-> None]
  /\ bg = "idle" /\ query = None
  /\ told = {} /\ granted = {} /\ twice = {} /\ dup = {}
  /\ raced = {}
  /\ crashed = FALSE

----------------------------------------------------------------------------
(* The maps.                                                               *)

(* Somebody else is linking a node into the localODEs of d.                *)
Overlaps(t, d) == \E u \in Caller \ {t} : pc[u] = "link" /\ call[u].dev = d

(* An access of localODEs by t, and what its look-up of n may answer.      *)
Touch(t, d) == raced' = IF Overlaps(t, d) THEN raced \cup {d} ELSE raced

MayFind(d, n) == d \in raced' \/ n \in odes[d]
MayMiss(d, n) == d \in raced' \/ n \notin odes[d]

----------------------------------------------------------------------------
(* create, on a thread of the XML-RPC server.                              *)

(* The handle is looked up with [], which makes a null entry of one it     *)
(* does not find and follows it; while the background thread links a       *)
(* birth, it may miss any.  A raced map may crash whoever walks it.        *)
Crash(d) ==
  /\ ~crashed
  /\ d \notin born \/ bg = "birth" \/ d \in raced
  /\ crashed' = TRUE
  /\ UNCHANGED <<born, odes, type, sourced, threads, history, raced>>

(* mdObservable::create looks for the name and adds nothing.               *)
CreateObservable(t, d, n) ==
  /\ ~crashed /\ pc[t] = "idle"
  /\ d \in born /\ n \in Obs \ {PreObs}
  /\ told' = told \cup {<<d, n, Default>>}
  /\ UNCHANGED <<born, odes, type, sourced, threads, grants, dup, raced, crashed>>

CreateOde(t, d, n, ty) ==
  /\ ~crashed /\ pc[t] = "idle"
  /\ d \in born /\ n \in Ode
  /\ pc' = [pc EXCEPT ![t] = "look"]
  /\ call' = [call EXCEPT ![t] = [dev |-> d, name |-> n, type |-> ty]]
  /\ UNCHANGED <<born, odes, type, sourced, bg, query, history, raced, crashed>>

(* t is between its look-up, which found nothing, and the link.            *)
Between(t, d, n) ==
  pc[t] \in {"insert", "link"} /\ call[t].dev = d /\ call[t].name = n

(* Mutant: whether the name is there already is not looked at.             *)
LookNot(t) ==
  LET d == call[t].dev  n == call[t].name
  IN /\ ~crashed /\ pc[t] = "look"
     /\ Touch(t, d)
     /\ pc' = [pc EXCEPT ![t] = "insert"]
     /\ dup' = IF \E u \in Caller \ {t} : Between(u, d, n)
               THEN dup \cup {<<d, n>>} ELSE dup
     /\ UNCHANGED <<born, odes, type, sourced, call, bg, query, told, grants, crashed>>

(* Mutant: the type is set before the answer of the look-up is known.      *)
LookSetsType(t) ==
  LET d == call[t].dev  n == call[t].name
  IN /\ ~crashed /\ pc[t] = "look"
     /\ Touch(t, d)
     /\ type' = [type EXCEPT ![d][n] = call[t].type]
     /\ \/ /\ MayFind(d, n)
           /\ pc' = [pc EXCEPT ![t] = "idle"]
           /\ call' = [call EXCEPT ![t] = None]
           /\ UNCHANGED dup
        \/ /\ MayMiss(d, n)
           /\ pc' = [pc EXCEPT ![t] = "insert"]
           /\ dup' = IF \E u \in Caller \ {t} : Between(u, d, n)
                     THEN dup \cup {<<d, n>>} ELSE dup
           /\ UNCHANGED call
     /\ UNCHANGED <<born, odes, sourced, bg, query, told, grants, crashed>>

(* localODEs.find: "Dataname already defined.", or go on.                  *)
Look(t) ==
  LET d == call[t].dev  n == call[t].name
  IN /\ ~crashed /\ pc[t] = "look"
     /\ Touch(t, d)
     /\ \/ /\ MayFind(d, n)
           /\ pc' = [pc EXCEPT ![t] = "idle"]
           /\ call' = [call EXCEPT ![t] = None]
           /\ UNCHANGED dup
        \/ /\ MayMiss(d, n)
           /\ pc' = [pc EXCEPT ![t] = "insert"]
           /\ dup' = IF \E u \in Caller \ {t} : Between(u, d, n)
                     THEN dup \cup {<<d, n>>} ELSE dup
           /\ UNCHANGED call
     /\ UNCHANGED <<born, odes, type, sourced, bg, query, told, grants, crashed>>

(* localODEs[dataName] looks again, and has an entry to link if there is   *)
(* still none.                                                             *)
Insert(t) ==
  LET d == call[t].dev  n == call[t].name
  IN /\ ~crashed /\ pc[t] = "insert"
     /\ Touch(t, d)
     /\ \/ MayFind(d, n) /\ pc' = [pc EXCEPT ![t] = "type"]
        \/ MayMiss(d, n) /\ pc' = [pc EXCEPT ![t] = "link"]
     /\ UNCHANGED <<born, odes, type, sourced, call, bg, query, history, crashed>>

(* Mutant: the new element is a local copy, as in mdObservable::create.    *)
LinkNot(t) ==
  LET d == call[t].dev  n == call[t].name
  IN /\ ~crashed /\ pc[t] = "link"
     /\ Touch(t, d)
     /\ type' = [type EXCEPT ![d][n] = Default]
     /\ pc' = [pc EXCEPT ![t] = "type"]
     /\ UNCHANGED <<born, odes, sourced, call, bg, query, history, crashed>>

(* The node is in the map, with an element of the default type and without *)
(* a source.                                                               *)
Link(t) ==
  LET d == call[t].dev  n == call[t].name
  IN /\ ~crashed /\ pc[t] = "link"
     /\ Touch(t, d)
     /\ IF d \in raced' THEN UNCHANGED <<odes, type>>
        ELSE /\ odes' = [odes EXCEPT ![d] = @ \cup {n}]
             /\ type' = [type EXCEPT ![d][n] = Default]
     /\ pc' = [pc EXCEPT ![t] = "type"]
     /\ UNCHANGED <<born, sourced, call, bg, query, history, crashed>>

(* Mutant: signature and name are taken for each other.                    *)
SetTypeSwapped(t) ==
  LET c == call[t]
  IN /\ ~crashed /\ pc[t] = "type"
     /\ type' = [type EXCEPT ![c.dev][c.name] = c.name]
     /\ told' = told \cup {<<c.dev, c.name, c.type>>}
     /\ pc' = [pc EXCEPT ![t] = "idle"]
     /\ call' = [call EXCEPT ![t] = None]
     /\ UNCHANGED <<born, odes, sourced, bg, query, grants, dup, raced, crashed>>

(* referenceType is written to the element, and the call is answered OK.   *)
SetType(t) ==
  LET c == call[t]
  IN /\ ~crashed /\ pc[t] = "type"
     /\ IF c.dev \in raced THEN UNCHANGED <<type, told>>
        ELSE /\ type' = [type EXCEPT ![c.dev][c.name] = c.type]
             /\ told' = told \cup {<<c.dev, c.name, c.type>>}
     /\ pc' = [pc EXCEPT ![t] = "idle"]
     /\ call' = [call EXCEPT ![t] = None]
     /\ UNCHANGED <<born, odes, sourced, bg, query, grants, dup, raced, crashed>>

----------------------------------------------------------------------------
(* The background thread.                                                  *)

(* A device is born: its entries are being linked.                         *)
BeginBirth(d) ==
  /\ ~crashed /\ bg = "idle" /\ d \notin born
  /\ bg' = "birth" /\ query' = [dev |-> d, name |-> None]
  /\ UNCHANGED <<born, odes, type, sourced, pc, call, history, raced, crashed>>

EndBirth ==
  /\ ~crashed /\ bg = "birth"
  /\ born' = born \cup {query.dev}
  /\ odes' = [odes EXCEPT ![query.dev] = {PreOde}]
  /\ bg' = "idle" /\ query' = None
  /\ UNCHANGED <<type, sourced, pc, call, history, raced, crashed>>

(* A query of the device d to be the source of n.                          *)
Query(d, n) ==
  /\ ~crashed /\ bg = "idle" /\ d \in born
  /\ bg' = "look" /\ query' = [dev |-> d, name |-> n]
  /\ UNCHANGED <<born, odes, type, sourced, pc, call, history, raced, crashed>>

(* registerData finds the name, or answers MISSING.  No observable is ever *)
(* added to those a device is born with.                                   *)
RegisterLook ==
  LET d == query.dev  n == query.name
  IN /\ ~crashed /\ bg = "look"
     /\ IF n \in Obs
        THEN /\ bg' = IF n = PreObs THEN "grab" ELSE "idle"
             /\ UNCHANGED raced
        ELSE /\ Touch(Background, d)
             /\ \/ MayFind(d, n) /\ bg' = "grab"
                \/ MayMiss(d, n) /\ bg' = "idle"
     /\ query' = IF bg' = "idle" THEN None ELSE query
     /\ UNCHANGED <<born, odes, type, sourced, pc, call, history, crashed>>

Granted(p) == /\ granted' = granted \cup {p}
              /\ twice' = IF p \in granted THEN twice \cup {p} ELSE twice

(* Mutant: the flag is set in the copy the function works on.              *)
RegisterGrabCopy ==
  LET d == query.dev  n == query.name
  IN /\ ~crashed /\ bg = "grab"
     /\ IF n \in Ode THEN Touch(Background, d) ELSE UNCHANGED raced
     /\ IF <<d, n>> \in sourced \/ (n \in Ode /\ d \in raced')
        THEN UNCHANGED grants ELSE Granted(<<d, n>>)
     /\ bg' = "idle" /\ query' = None
     /\ UNCHANGED <<born, odes, type, sourced, pc, call, told, dup, crashed>>

(* operator[] looks again, the flag is tested (CONFLICT) and set through   *)
(* the pointer that all copies of an element share.                        *)
RegisterGrab ==
  LET d == query.dev  n == query.name
  IN /\ ~crashed /\ bg = "grab"
     /\ IF n \in Ode THEN Touch(Background, d) ELSE UNCHANGED raced
     /\ IF <<d, n>> \in sourced \/ (n \in Ode /\ d \in raced')
        THEN UNCHANGED <<sourced, grants>>
        ELSE /\ sourced' = sourced \cup {<<d, n>>}
             /\ Granted(<<d, n>>)
     /\ bg' = "idle" /\ query' = None
     /\ UNCHANGED <<born, odes, type, pc, call, told, dup, crashed>>

----------------------------------------------------------------------------
Create(t) == \/ \E d \in Device, n \in Obs : CreateObservable(t, d, n)
             \/ \E d \in Device, n \in Ode, ty \in Type : CreateOde(t, d, n, ty)
             \/ Look(t) \/ Insert(t) \/ Link(t) \/ SetType(t)

Hear == \/ \E d \in Device : BeginBirth(d)
        \/ EndBirth
        \/ \E d \in Device, n \in Name : Query(d, n)
        \/ RegisterLook \/ RegisterGrab

Next == (\E t \in Caller : Create(t)) \/ Hear \/ \E d \in Device : Crash(d)

Spec == Init /\ [][Next]_vars
----------------------------------------------------------------------------
Pair == Device \X Name
Call == [dev : Device, name : Ode, type : Type]

TypeOK ==
  /\ born \subseteq Device
  /\ odes \in [Device -> SUBSET Ode]
  /\ type \in [Device -> [Ode -> Type]]
  /\ sourced \subseteq Pair
  /\ pc \in [Caller -> {"idle", "look", "insert", "link", "type"}]
  /\ call \in [Caller -> Call \cup {None}]
  /\ \A t \in Caller : pc[t] # "idle" => call[t] \in Call
  /\ bg \in {"idle", "birth", "look", "grab"}
  /\ query \in [dev : Device, name : Name \cup {None}] \cup {None}
  /\ bg # "idle" => query \in [dev : Device, name : Name \cup {None}]
  /\ bg \in {"look", "grab"} => query.name \in Name
  /\ told \subseteq Device \X Name \X Type
  /\ granted \subseteq Pair /\ twice \subseteq Pair /\ dup \subseteq Pair
  /\ raced \subseteq Device
  /\ crashed \in BOOLEAN

(* The devices whose localODEs no two threads were in at the same time,    *)
(* one of them linking: what follows is claimed of them.                   *)
Calm == Device \ raced

(* An ODE whose create was answered OK can be found by registerData.       *)
CreatedAreThere ==
  \A d \in Calm, n \in Ode, ty \in Type : <<d, n, ty>> \in told => n \in odes[d]

(* When no create of an ODE is under way, its type is one that a create    *)
(* was answered OK for: a call that is refused leaves no trace, also one   *)
(* that was overtaken between its look-up and its insertion.               *)
Busy(d, n) == \E t \in Caller : pc[t] = "type" /\ call[t].dev = d /\ call[t].name = n

TypeWasAnswered ==
  \A d \in Calm, n \in Ode :
    (\E ty \in Type : <<d, n, ty>> \in told) /\ ~Busy(d, n)
      => <<d, n, type[d][n]>> \in told

(* A second create of an ODE is answered OK only if the two calls had both *)
(* found the name absent before one of them inserted it.                   *)
OkStep ==
  \A t \in Caller :
    LET c == call[t]
    IN pc[t] = "type" /\ pc'[t] = "idle" =>
         \/ c.dev \in raced \/ <<c.dev, c.name>> \in dup
         \/ \A ty \in Type : <<c.dev, c.name, ty>> \notin told
OneCreator == [][OkStep]_vars

(* What is sourced exists: it was created or is there from birth.          *)
SourcedAreThere ==
  \A d \in Calm, n \in Name :
    <<d, n>> \in sourced => n \in odes[d] \cup {PreObs}

(* registerData grants a name once: the flag survives the create calls     *)
(* that run at the same time, and the copy of the element it works on.     *)
(* (Grants from raced maps are not counted.)                               *)
GrantedOnce == twice = {}

----------------------------------------------------------------------------
(* The data model as others see it: the maps nobody raced.                 *)
Has(d) == IF d \in born \ raced THEN odes[d] \cup {PreObs} ELSE {}

SeenTypes(d) == [n \in Name |-> IF n \in Ode \cap Has(d) THEN type[d][n] ELSE Default]

seenNames    == [d \in Device |-> Has(d)]
seenTypes    == [d \in Device |-> SeenTypes(d)]
seenAnswers  == {a \in told : a[1] \notin raced /\ a[2] \in Ode}
seenGrants   == {p \in granted : p[1] \notin raced}
seenContests == {p \in dup : p[1] \notin raced}

Promise == INSTANCE Elements WITH
  Pre <- {PreOde, PreObs}, names <- seenNames, typeOf <- seenTypes, answered <- seenAnswers,
  granted <- seenGrants, contested <- seenContests, spoiled <- raced

(* However the threads interleave, each of their steps is one step of the  *)
(* promised data model or none: a create that goes on after its look-up    *)
(* adds a name that is still absent, its answer is the only one unless the *)
(* name was contested before it was there, a source is granted once and of *)
(* an element that is there, and the maps are never in a state between.    *)
KeepsPromise == Promise!Spec
=============================================================================
