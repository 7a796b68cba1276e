---------------------------- MODULE Installation ----------------------------
(***************************************************************************)
(* What the Master Daemon promises an installation, without its threads,   *)
(* lists, replies and sockets: clients are born within their limits, each  *)
(* with a handle and an index nobody else gets; a handle is held by one    *)
(* client, until the daemon loses hold of its replies; a name of a device  *)
(* gets one source, for good.  MasterDaemon implements this module.        *)
(***************************************************************************)
EXTENDS Naturals, FiniteSets

CONSTANTS Client, Handle, Name, MaxCliever, MaxInstruments, None

VARIABLES live,    \* the kind and index of each client born, by its handle
          holds,   \* the handle each client has received
          source,  \* the names of each device that have a source
          loose    \* nothing is promised any more of who holds a handle

Kinds == {"CD", "MACHINE", "INSTRUMENT"}

Limit(k) == IF k = "CD" THEN MaxCliever
            ELSE IF k = "MACHINE" THEN 1 ELSE MaxInstruments

Born(k) == {h \in Handle : live[h] # None /\ live[h].kind = k}

Init == /\ live = [h \in Handle |-> None]
        /\ holds = [c \in Client |-> None]
        /\ source = {}
        /\ loose = FALSE

(* Clievers share an index; no device shares its own.                      *)
Birth(h, k, i) ==
  /\ live[h] = None
  /\ live' = [live EXCEPT ![h] = [kind |-> k, idx |-> i]]
  /\ Cardinality(Born(k)) < Limit(k)
  /\ \A g \in Handle : live[g] # None /\ live[g].idx = i => k = "CD" /\ live[g].kind = "CD"
  /\ UNCHANGED <<holds, source, loose>>

Receive(c, h) ==
  /\ live[h] # None
  /\ holds' = [holds EXCEPT ![c] = h]
  /\ loose \/ \A d \in Client \ {c} : holds[d] # h
  /\ UNCHANGED <<live, source, loose>>

Grant(h, n) ==
  /\ live[h] # None /\ live[h].kind # "CD"
  /\ <<h, n>> \notin source
  /\ source' = source \cup {<<h, n>>}
  /\ UNCHANGED <<live, holds, loose>>

Loosen == loose' = TRUE /\ UNCHANGED <<live, holds, source>>

Next == \/ \E h \in Handle, k \in Kinds, i \in 0 .. MaxCliever : Birth(h, k, i)
        \/ \E c \in Client, h \in Handle : Receive(c, h)
        \/ \E h \in Handle, n \in Name : Grant(h, n)
        \/ Loosen

Spec == Init /\ [][Next]_<<live, holds, source, loose>>
----------------------------------------------------------------------------
(* What an installation can count on from this: no more clients of a kind  *)
(* than there is room for, one machine among them; an index of its own for *)
(* each device; a handle, of a client that was born, for whoever holds it  *)
(* and, unless the promise was given up, nobody else; sources that are     *)
(* devices born.                                                           *)
WithinLimits == \A k \in Kinds : Cardinality(Born(k)) <= Limit(k)

IndexesApart ==
  \A g, h \in Handle :
    g # h /\ live[g] # None /\ live[h] # None /\ live[g].idx = live[h].idx
      => live[g].kind = "CD" /\ live[h].kind = "CD"

HoldersApart ==
  \A c \in Client : holds[c] # None =>
    /\ holds[c] \in Handle /\ live[holds[c]] # None
    /\ ~loose => \A d \in Client : holds[d] = holds[c] => d = c

SourcesLive ==
  \A p \in source : p[1] \in Handle /\ live[p[1]] # None /\ live[p[1]].kind # "CD"

Orderly == WithinLimits /\ IndexesApart /\ HoldersApart /\ SourcesLive
=============================================================================
