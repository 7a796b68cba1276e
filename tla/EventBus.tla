------------------------------ MODULE EventBus ------------------------------
(***************************************************************************)
(* The in-process event bus of the daemons: one EventSender per event type *)
(* and Listeners that hear one type each (EventSender.h, Listener.h and    *)
(* their template bodies, identical for the Master Daemon and the          *)
(* clients).  All calls are synchronous and one thread makes them, as the  *)
(* class requires: a handler runs inside the send that called it and may   *)
(* itself send, register, deregister or throw.                             *)
(*                                                                         *)
(* The std::list registries are sets: the order of the calls is left open, *)
(* and the assertions that keep a list free of duplicates are kept.        *)
(***************************************************************************)
EXTENDS Naturals, Sequences, FiniteSets, Functions

CONSTANTS EvType,     \* the event types
          Listener,   \* the listener objects
          Hears,      \* the event type each listener was instantiated for
          None,       \* no listener, no exception, no failed assertion
          Other       \* any exception that is not an IllegalSendError

ASSUME BusAssumption == /\ Hears \in [Listener -> EvType]
                        /\ None \notin EvType \cup Listener \cup {Other}
                        /\ Other \notin EvType
                        /\ IsFiniteSet(Listener)

VARIABLES registry,    \* EventSender::_registry
          regQueue,    \* EventSender::_registrationQueue
          remQueue,    \* EventSender::_removalQueue
          busy,        \* the types with _isBusySending set
          ignored,     \* EventSender::_eventIgnored
          registered,  \* the listeners with _registered set
          ignoring,    \* the listeners with _ignoringHeardEvent set
          processing,  \* the listeners with _processingEvent set
          stack,       \* the types of the sendEvent calls in progress, innermost first
          toCall,      \* what registryIter has not reached yet
          calling,     \* the listener each sendEvent is calling
          thrown,      \* the exception in flight: a type stands for its IllegalSendError
          aborted      \* the assertion that stopped the program

lists == <<registry, regQueue, remQueue>>
flags == <<registered, ignoring, processing>>
sends == <<busy, stack, toCall, calling>>
vars  == <<lists, flags, sends, ignored, thrown, aborted>>

Init ==
  /\ registry = [t \in EvType |-> {}]
  /\ regQueue = [t \in EvType |-> {}]
  /\ remQueue = [t \in EvType |-> {}]
  /\ busy = {}
  /\ ignored = [t \in EvType |-> 0]
  /\ registered = {} /\ ignoring = {} /\ processing = {}
  /\ stack = <<>>
  /\ toCall = [t \in EvType |-> {}]
  /\ calling = [t \in EvType |-> None]
  /\ thrown = None
  /\ aborted = None

----------------------------------------------------------------------------
Top == Head(stack)

(* Client code runs when no exception is in flight, and either no send is  *)
(* in progress or the innermost one is inside a handler.                   *)
InControl == /\ aborted = None
             /\ thrown = None
             /\ stack # <<>> => calling[Top] # None

(* An assertion fails: the program stops where it is.                      *)
Abort(name) == aborted' = name /\ UNCHANGED <<lists, registered>>

----------------------------------------------------------------------------
(* Mutant: no check that a send is in progress.                            *)
SendUnchecked(t) ==
  /\ InControl
  /\ registry[t] # {}
  /\ busy' = busy \cup {t}
  /\ ignored' = [ignored EXCEPT ![t] = 0]
  /\ stack' = <<t>> \o stack
  /\ toCall' = [toCall EXCEPT ![t] = registry[t]]
  /\ UNCHANGED <<calling, thrown, lists, flags, aborted>>

(* EventSender::sendEvent up to its loop; with an empty registry it only   *)
(* logs.                                                                   *)
Send(t) ==
  /\ InControl
  /\ IF t \in busy
     THEN thrown' = t /\ UNCHANGED <<sends, ignored>>
     ELSE /\ registry[t] # {}
          /\ busy' = busy \cup {t}
          /\ ignored' = [ignored EXCEPT ![t] = 0]
          /\ stack' = <<t>> \o stack
          /\ toCall' = [toCall EXCEPT ![t] = registry[t]]
          /\ UNCHANGED <<calling, thrown>>
  /\ UNCHANGED <<lists, flags, aborted>>

(* One turn of the loop: processEventPublic, preProcessEvent.              *)
Deliver(l) ==
  /\ aborted = None /\ thrown = None /\ stack # <<>>
  /\ calling[Top] = None
  /\ l \in toCall[Top]
  /\ calling' = [calling EXCEPT ![Top] = l]
  /\ toCall' = [toCall EXCEPT ![Top] = @ \ {l}]
  /\ ignoring' = ignoring \ {l}
  /\ processing' = processing \cup {l}
  /\ UNCHANGED <<lists, registered, busy, stack, ignored, thrown, aborted>>

(* The handler returns: postProcessEvent.                                  *)
Return(l) ==
  /\ InControl /\ stack # <<>>
  /\ calling[Top] = l
  /\ processing' = processing \ {l}
  /\ calling' = [calling EXCEPT ![Top] = None]
  /\ UNCHANGED <<lists, registered, ignoring, busy, stack, toCall, ignored, thrown, aborted>>

(* The handler throws something of its own.                                *)
Throw ==
  /\ InControl /\ stack # <<>>
  /\ thrown' = Other
  /\ UNCHANGED <<lists, flags, sends, ignored, aborted>>

(* Mutant: the removals stay queued.                                       *)
CleanupRegistrationsOnly(t) ==
  /\ registry' = [registry EXCEPT ![t] = (@ \cup regQueue[t]) \ remQueue[t]]
  /\ regQueue' = [regQueue EXCEPT ![t] = {}]
  /\ UNCHANGED remQueue

(* cleanupQueues: first the registrations, then the removals.              *)
CleanupQueues(t) ==
  /\ registry' = [registry EXCEPT ![t] = (@ \cup regQueue[t]) \ remQueue[t]]
  /\ regQueue' = [regQueue EXCEPT ![t] = {}]
  /\ remQueue' = [remQueue EXCEPT ![t] = {}]

(* Mutant: _isBusySending is left set.                                     *)
EndSendStaysBusy ==
  /\ CleanupQueues(Top)
  /\ stack' = Tail(stack)
  /\ toCall' = [toCall EXCEPT ![Top] = {}]
  /\ calling' = [calling EXCEPT ![Top] = None]
  /\ UNCHANGED <<busy, registered, ignoring, ignored, aborted>>

(* The end of sendEvent, after its loop or on its own IllegalSendError.    *)
EndSend ==
  /\ busy' = busy \ {Top}
  /\ CleanupQueues(Top)
  /\ stack' = Tail(stack)
  /\ toCall' = [toCall EXCEPT ![Top] = {}]
  /\ calling' = [calling EXCEPT ![Top] = None]
  /\ UNCHANGED <<registered, ignoring, ignored, aborted>>

Finish ==
  /\ aborted = None /\ thrown = None /\ stack # <<>>
  /\ calling[Top] = None /\ toCall[Top] = {}
  /\ EndSend
  /\ UNCHANGED <<processing, thrown>>

(* Mutant: the exceptional way out skips cleanupQueues.                    *)
RethrowAtOnce ==
  /\ aborted = None /\ stack # <<>> /\ thrown = Top
  /\ processing' = processing \ {calling[Top]}
  /\ busy' = busy \ {Top}
  /\ stack' = Tail(stack)
  /\ toCall' = [toCall EXCEPT ![Top] = {}]
  /\ calling' = [calling EXCEPT ![Top] = None]
  /\ UNCHANGED <<lists, registered, ignoring, ignored, thrown, aborted>>

(* The catch clauses around the handler: the IllegalSendError of the same  *)
(* event type ends the send and is thrown again, anything else is logged   *)
(* and forgotten.                                                          *)
Rethrow ==
  /\ aborted = None /\ stack # <<>> /\ thrown = Top
  /\ processing' = processing \ {calling[Top]}
  /\ EndSend
  /\ UNCHANGED thrown

Swallow ==
  /\ aborted = None /\ stack # <<>> /\ thrown \notin {None, Top}
  /\ processing' = processing \ {calling[Top]}
  /\ calling' = [calling EXCEPT ![Top] = None]
  /\ thrown' = None
  /\ UNCHANGED <<lists, registered, ignoring, busy, stack, toCall, ignored, aborted>>

(* The exception leaves the outermost send; its caller deals with it.      *)
Escape ==
  /\ aborted = None /\ stack = <<>> /\ thrown # None
  /\ thrown' = None
  /\ UNCHANGED <<lists, flags, sends, ignored, aborted>>

----------------------------------------------------------------------------
(* Mutant: the removal queue is not looked at.                             *)
RegisterBlindly(l) ==
  LET t == Hears[l] IN
  /\ IF t \in busy
     THEN /\ regQueue' = [regQueue EXCEPT ![t] = @ \cup {l}]
          /\ UNCHANGED registry
     ELSE /\ registry' = [registry EXCEPT ![t] = @ \cup {l}]
          /\ UNCHANGED regQueue
  /\ registered' = registered \cup {l}
  /\ UNCHANGED <<remQueue, aborted>>

(* EventSender::registerListener.                                          *)
RegisterListener(l) ==
  LET t == Hears[l] IN
  IF t \in busy
  THEN IF l \in remQueue[t]
       THEN /\ remQueue' = [remQueue EXCEPT ![t] = @ \ {l}]
            /\ registered' = registered \cup {l}
            /\ UNCHANGED <<registry, regQueue, aborted>>
       ELSE IF l \in regQueue[t]
       THEN Abort("onRegistrationQueue")
       ELSE /\ regQueue' = [regQueue EXCEPT ![t] = @ \cup {l}]
            /\ registered' = registered \cup {l}
            /\ UNCHANGED <<registry, remQueue, aborted>>
  ELSE IF l \in registry[t]
       THEN Abort("inRegistry")
       ELSE /\ registry' = [registry EXCEPT ![t] = @ \cup {l}]
            /\ registered' = registered \cup {l}
            /\ UNCHANGED <<regQueue, remQueue, aborted>>

(* Mutant: removed at once, also while sending.                            *)
RemoveAtOnce(l) ==
  /\ registry' = [registry EXCEPT ![Hears[l]] = @ \ {l}]
  /\ regQueue' = [regQueue EXCEPT ![Hears[l]] = @ \ {l}]
  /\ registered' = registered \ {l}
  /\ UNCHANGED <<remQueue, aborted>>

(* EventSender::removeListener.                                            *)
RemoveListener(l) ==
  LET t == Hears[l] IN
  IF t \in busy
  THEN IF l \in regQueue[t]
       THEN /\ regQueue' = [regQueue EXCEPT ![t] = @ \ {l}]
            /\ registered' = registered \ {l}
            /\ UNCHANGED <<registry, remQueue, aborted>>
       ELSE IF l \in remQueue[t]
       THEN Abort("onRemovalQueue")
       ELSE /\ remQueue' = [remQueue EXCEPT ![t] = @ \cup {l}]
            /\ registered' = registered \ {l}
            /\ UNCHANGED <<registry, regQueue, aborted>>
  ELSE IF \/ remQueue[t] # {} \/ regQueue[t] # {}
          \/ l \notin registry[t]
       THEN Abort("notRemovable")
       ELSE /\ registry' = [registry EXCEPT ![t] = @ \ {l}]
            /\ registered' = registered \ {l}
            /\ UNCHANGED <<regQueue, remQueue, aborted>>

(* Listener::listenForEvents and Listener::ignoreEvents (the destructor    *)
(* too), called by whatever code is in control.                            *)
ListenForEvents(l) ==
  /\ InControl /\ l \notin registered
  /\ RegisterListener(l)
  /\ UNCHANGED <<ignoring, processing, sends, ignored, thrown>>

IgnoreEvents(l) ==
  /\ InControl /\ l \in registered
  /\ RemoveListener(l)
  /\ UNCHANGED <<ignoring, processing, sends, ignored, thrown>>

(* Mutant: every call counts.                                              *)
IgnoreThisEventAgain(l) ==
  /\ InControl /\ l \in processing
  /\ ignored' = [ignored EXCEPT ![Hears[l]] = @ + 1]
  /\ ignoring' = ignoring \cup {l}
  /\ UNCHANGED <<lists, registered, processing, sends, thrown, aborted>>

(* Listener::ignoreThisEvent: counted once per event and listener.         *)
IgnoreThisEvent(l) ==
  /\ InControl /\ l \in processing
  /\ IF Hears[l] \in busy
     THEN /\ l \notin ignoring
          /\ ignored' = [ignored EXCEPT ![Hears[l]] = @ + 1]
          /\ ignoring' = ignoring \cup {l}
          /\ UNCHANGED aborted
     ELSE /\ aborted' = "notSending"
          /\ UNCHANGED <<ignored, ignoring>>
  /\ UNCHANGED <<lists, registered, processing, sends, thrown>>

Next ==
  \/ \E t \in EvType : Send(t)
  \/ \E l \in Listener : \/ Deliver(l) \/ Return(l)
                         \/ ListenForEvents(l) \/ IgnoreEvents(l) \/ IgnoreThisEvent(l)
  \/ Throw \/ Finish \/ Rethrow \/ Swallow \/ Escape

Spec == Init /\ [][Next]_vars

(* A handler is straight-line code, so it returns however many sends it    *)
(* makes; the loop of sendEvent goes on as long as it can.                 *)
Fairness ==
  /\ WF_vars(Finish) /\ WF_vars(Rethrow) /\ WF_vars(Swallow)
  /\ \A l \in Listener : WF_vars(Deliver(l)) /\ SF_vars(Return(l))

FairSpec == Spec /\ Fairness

----------------------------------------------------------------------------
TypeOK ==
  /\ registry \in [EvType -> SUBSET Listener]
  /\ regQueue \in [EvType -> SUBSET Listener]
  /\ remQueue \in [EvType -> SUBSET Listener]
  /\ busy \subseteq EvType
  /\ ignored \in [EvType -> Nat]
  /\ registered \subseteq Listener
  /\ ignoring \subseteq Listener
  /\ processing \subseteq Listener
  /\ stack \in Seq(EvType) /\ IsInjective(stack)
  /\ toCall \in [EvType -> SUBSET Listener]
  /\ calling \in [EvType -> Listener \cup {None}]
  /\ thrown \in EvType \cup {None, Other}

(* None of the assertions in registerListener, removeListener and          *)
(* ignoreThisEvent ever stops the program, whatever the handlers do.       *)
AssertionsHold == aborted = None

(* "the registration queue must be empty when isBusySending is over"       *)
(* (cleanupQueues), on the normal and on the exceptional way out.          *)
HoldPromise == \A t \in EvType \ busy : regQueue[t] = {} /\ remQueue[t] = {}

(* _registered tells the truth at all times: it is set exactly for the     *)
(* listeners that are in the registry or queued for it and not queued for  *)
(* removal, so that no sequence of calls inside and outside sends loses a  *)
(* registration or leaves a stale one behind.                              *)
RegisteredTellsTheTruth ==
  \A l \in Listener :
    l \in registered <=> LET t == Hears[l] IN
                         l \in (registry[t] \cup regQueue[t]) \ remQueue[t]

(* getMinNumIgnored counts each listener that has ignored the event being  *)
(* sent once, and none for an earlier event.                               *)
IgnoredIsExact ==
  \A t \in busy :
    ignored[t] = Cardinality({l \in registry[t] \ toCall[t] : l \in ignoring})

(* "This insures the integrity of the list of listeners during the send()  *)
(* process": nothing a handler does changes the list being walked.         *)
RegistryFrozenWhileSending ==
  [][\A t \in EvType : t \in busy /\ t \in busy' => registry'[t] = registry[t]]_vars

(* The bus implements Subscription: an event reaches each listener that    *)
(* was registered when its send began, once, whatever the handlers do with *)
(* the lists, the queues and the exceptions.                               *)
Promise == INSTANCE Subscription WITH sending <- busy

KeepsPromise == Promise!Spec

(* Every send ends and gives the event type back, also when handlers send, *)
(* register, throw or recurse.                                             *)
EverySendEnds == \A t \in EvType : t \in busy ~> t \notin busy
=============================================================================
