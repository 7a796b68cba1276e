---------------------------- MODULE Subscription ----------------------------
(***************************************************************************)
(* What the event bus promises its listeners, without its lists, queues,   *)
(* flags and assertions: an event is handed, one by one and once each, to  *)
(* the listeners that were registered when its send began, whoever comes   *)
(* or goes in the meantime; only a handler that fails ends a send early.   *)
(* EventBus implements this module.                                        *)
(***************************************************************************)
CONSTANTS EvType, Listener, Hears, None

VARIABLES registered,  \* the listeners that asked for events
          sending,     \* the event types of which an event is being sent
          toCall,      \* who has not been handed it yet
          calling      \* whose handler has it

Init == /\ registered = {} /\ sending = {}
        /\ toCall = [t \in EvType |-> {}]
        /\ calling = [t \in EvType |-> None]

Register(l) == /\ l \notin registered
               /\ registered' = registered \cup {l}
               /\ UNCHANGED <<sending, toCall, calling>>

Remove(l) == /\ l \in registered
             /\ registered' = registered \ {l}
             /\ UNCHANGED <<sending, toCall, calling>>

Begin(t) == /\ t \notin sending /\ sending' = sending \cup {t}
            /\ toCall' = [toCall EXCEPT ![t] = {l \in registered : Hears[l] = t}]
            /\ UNCHANGED <<registered, calling>>

Call(l) == LET t == Hears[l]
           IN /\ t \in sending /\ calling[t] = None /\ l \in toCall[t]
              /\ calling' = [calling EXCEPT ![t] = l]
              /\ toCall' = [toCall EXCEPT ![t] = @ \ {l}]
              /\ UNCHANGED <<registered, sending>>

Done(t) == /\ calling[t] # None
           /\ calling' = [calling EXCEPT ![t] = None]
           /\ UNCHANGED <<registered, sending, toCall>>

End(t) == /\ t \in sending /\ calling[t] = None /\ toCall[t] = {}
          /\ sending' = sending \ {t}
          /\ UNCHANGED <<registered, toCall, calling>>

(* The handler sends an event of the type it is handling.                  *)
Fail(t) == /\ t \in sending /\ calling[t] # None
           /\ sending' = sending \ {t}
           /\ toCall' = [toCall EXCEPT ![t] = {}]
           /\ calling' = [calling EXCEPT ![t] = None]
           /\ UNCHANGED registered

Next == \/ \E l \in Listener : Register(l) \/ Remove(l) \/ Call(l)
        \/ \E t \in EvType : Begin(t) \/ Done(t) \/ End(t) \/ Fail(t)

Spec == Init /\ [][Next]_<<registered, sending, toCall, calling>>
=============================================================================
