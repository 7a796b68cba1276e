------------------------------ MODULE Elements ------------------------------
(***************************************************************************)
(* What the data model of the Master Daemon promises, without its threads  *)
(* and maps: a device has the elements it is born with and those that were *)
(* created; the type of a created element is the one its create was        *)
(* answered with, and nobody else's, unless two creates found its name     *)
(* absent together; a source is granted once, of an element that is there. *)
(* Nothing is promised of a device once two threads were in its map while  *)
(* one of them changed it.  MdData implements this module.                 *)
(***************************************************************************)

CONSTANTS Device, Name, Type, Default,
          Pre   \* the elements a device is born with

VARIABLES names,      \* the elements of each device; none before its birth
          typeOf,     \* their types
          answered,   \* the creates that were answered OK
          granted,    \* the sources that were granted
          contested,  \* the names two creates found absent together
          spoiled     \* the devices of which nothing is promised any more

AllDefault == [n \in Name |-> Default]

Init == /\ names = [d \in Device |-> {}]
        /\ typeOf = [d \in Device |-> AllDefault]
        /\ answered = {} /\ granted = {} /\ contested = {} /\ spoiled = {}

Birth(d) ==
  /\ names[d] = {} /\ d \notin spoiled
  /\ names' = [names EXCEPT ![d] = Pre]
  /\ UNCHANGED <<typeOf, answered, granted, contested, spoiled>>

Contest(d, n) ==
  /\ names[d] # {} /\ n \notin names[d]
  /\ contested' = contested \cup {<<d, n>>}
  /\ UNCHANGED <<names, typeOf, answered, granted, spoiled>>

Add(d, n) ==
  /\ names[d] # {} /\ n \notin names[d]
  /\ names' = [names EXCEPT ![d] = @ \cup {n}]
  /\ UNCHANGED <<typeOf, answered, granted, contested, spoiled>>

Answer(d, n, ty) ==
  /\ n \in names[d] \ Pre
  /\ <<d, n>> \in contested \/ \A u \in Type : <<d, n, u>> \notin answered
  /\ typeOf' = [typeOf EXCEPT ![d][n] = ty]
  /\ answered' = answered \cup {<<d, n, ty>>}
  /\ UNCHANGED <<names, granted, contested, spoiled>>

Grant(d, n) ==
  /\ n \in names[d] /\ <<d, n>> \notin granted
  /\ granted' = granted \cup {<<d, n>>}
  /\ UNCHANGED <<names, typeOf, answered, contested, spoiled>>

Spoil(d) ==
  /\ names[d] # {}
  /\ names' = [names EXCEPT ![d] = {}]
  /\ typeOf' = [typeOf EXCEPT ![d] = AllDefault]
  /\ answered' = {a \in answered : a[1] # d}
  /\ granted' = {p \in granted : p[1] # d}
  /\ contested' = {p \in contested : p[1] # d}
  /\ spoiled' = spoiled \cup {d}

Next == \E d \in Device :
          \/ Birth(d) \/ Spoil(d)
          \/ \E n \in Name : \/ Contest(d, n) \/ Add(d, n) \/ Grant(d, n)
                             \/ \E ty \in Type : Answer(d, n, ty)

Spec == Init /\ [][Next]_<<names, typeOf, answered, granted, contested, spoiled>>
----------------------------------------------------------------------------
(* What a caller can count on from this: an element that was created, or   *)
(* whose source was granted, is there; an element has the type its create  *)
(* was answered with if no other create was under way when it was made,    *)
(* and one of birth keeps the default.                                     *)
AnsweredAreThere ==
  \A d \in Device, n \in Name, ty \in Type :
    <<d, n, ty>> \in answered => n \in names[d] \ Pre

GrantedAreThere == \A d \in Device, n \in Name : <<d, n>> \in granted => n \in names[d]

TypesAreAnswered ==
  \A d \in Device, n \in Name, ty \in Type :
    <<d, n, ty>> \in answered /\ <<d, n>> \notin contested => typeOf[d][n] = ty

OthersAreDefault ==
  \A d \in Device, n \in Name :
    (\A ty \in Type : <<d, n, ty>> \notin answered) => typeOf[d][n] = Default

Trustworthy == AnsweredAreThere /\ GrantedAreThere /\ TypesAreAnswered /\ OthersAreDefault
=============================================================================
