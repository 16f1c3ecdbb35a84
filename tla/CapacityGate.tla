---------------------------- MODULE CapacityGate ----------------------------
(***************************************************************************)
(* The admission of work to nodes: dispatchCapacityGate and                *)
(* nodeDispatchGate (capacity_gate.go, node_dispatch_gate.go), the         *)
(* reservation its callers hold (dispatch_reservation.go) and the part of  *)
(* the node registry it reads (cluster/registry.go).                       *)
(*                                                                         *)
(* A client is a goroutine that reserves, works and releases: the dispatch *)
(* of a task, a routed request, or the dispatch of a task to a shard group,*)
(* which takes a global slot only and loads the head node all the same.    *)
(* Every caller of Reserve passes a single candidate, so that is what is   *)
(* modelled.  Each critical section of a gate's mu is one action, and the  *)
(* capacity report a client has read is used in a later one.               *)
(*                                                                         *)
(* A node reports the truth at the time of the report, which may be old    *)
(* when it is used: heartbeats are delivered late and are trusted for      *)
(* nodeCapacityFreshnessWindow.  A node also serves external work the      *)
(* orchestrator does not know of, and it does not count the requests it    *)
(* only proxies: those of the router and of shard groups.                  *)
(***************************************************************************)
EXTENDS Integers, FiniteSets

CONSTANTS Clients, Nodes,
          NoNode,       \* the node of an idle client
          Kinds,        \* the kinds of client: "task", "routed", "shard"
          NodeLimit,    \* MaxConcurrentTasks of each node, 0 when not reported
          GlobalLimit,  \* the orchestrator's dispatch concurrency
          MaxExternal,  \* model bound on external work per node
          MaxRequests   \* model bound on reservations per client

ASSUME GateAssumption == /\ IsFiniteSet(Clients)
                         /\ NoNode \notin Nodes
                         /\ Kinds \subseteq {"task", "routed", "shard"}
                         /\ NodeLimit \in [Nodes -> Nat]
                         /\ GlobalLimit \in Nat \ {0}
                         /\ MaxExternal \in Nat
                         /\ MaxRequests \in Nat

VARIABLES client,    \* what each client is doing
          requests,  \* reservations each client has asked for
          ended,     \* clients whose context is done
          gate,      \* the nodeDispatchGate of each node
          slots,     \* len(dispatchCapacityGate.slots)
          reg,       \* the registry's status of each node
          heartbeat, \* a report of each node that is on its way
          external,  \* external work on each node
          page       \* the occupancy the health page has read of each node

vars == <<client, requests, ended, gate, slots, reg, heartbeat, external, page>>

Steps == {"idle", "lookup", "capacity", "await", "probe", "set", "check", "wait",
          "slot", "recheck", "giveback", "held", "working", "answered", "unloaded",
          "releasing", "released"}

Max(x, y) == IF x > y THEN x ELSE y
Minus(x, y) == IF x > y THEN x - y ELSE 0

Limit(n) == IF NodeLimit[n] = 0 THEN GlobalLimit ELSE NodeLimit[n]

\* The requests of some kinds that node n is working on.
Executing(n, kinds) == Cardinality({c \in Clients : /\ client[c].node = n
                                                    /\ client[c].pc = "working"
                                                    /\ client[c].kind \in kinds})

\* What a node says of itself; limit and available are 0 when not reported.
Report(n) == LET busy == Executing(n, {"task"}) + external[n]
             IN  [available |-> Minus(NodeLimit[n], busy), active |-> busy]

IdleClient == [pc |-> "idle", node |-> NoNode, kind |-> "task", occupied |-> 0]

Init == /\ client = [c \in Clients |-> IdleClient]
        /\ requests = [c \in Clients |-> 0]
        /\ ended = {}
        /\ gate = [n \in Nodes |-> [limit |-> Limit(n), active |-> 0, external |-> 0,
                                    refreshing |-> FALSE]]
        /\ slots = 0
        /\ reg = [n \in Nodes |-> [healthy |-> TRUE, fresh |-> TRUE,
                                   available |-> NodeLimit[n], active |-> 0]]
        /\ heartbeat = [n \in Nodes |-> {}]
        /\ external = [n \in Nodes |-> 0]
        /\ page = [n \in Nodes |-> {}]

-----------------------------------------------------------------------------
(***************************************************************************)
(* Nodes, the registry and its readers                                     *)
(***************************************************************************)

ExternalWork(n, k) ==
  /\ external' = [external EXCEPT ![n] = k]
  /\ UNCHANGED <<client, requests, ended, gate, slots, reg, heartbeat, page>>

SendHeartbeat(n) ==
  /\ heartbeat' = [heartbeat EXCEPT ![n] = {Report(n)}]
  /\ UNCHANGED <<client, requests, ended, gate, slots, reg, external, page>>

Upsert(n, report) ==
  reg' = [reg EXCEPT ![n] = [healthy |-> TRUE, fresh |-> TRUE,
                             available |-> report.available, active |-> report.active]]

DeliverHeartbeat(n) ==
  /\ \E report \in heartbeat[n] : Upsert(n, report)
  /\ heartbeat' = [heartbeat EXCEPT ![n] = {}]
  /\ UNCHANGED <<client, requests, ended, gate, slots, external, page>>

\* nodeCapacityFreshnessWindow passes without a report.
Age(n) ==
  /\ reg[n].fresh
  /\ reg' = [reg EXCEPT ![n].fresh = FALSE]
  /\ UNCHANGED <<client, requests, ended, gate, slots, heartbeat, external, page>>

\* The health checker gives up on a node.
MarkUnhealthy(n) ==
  /\ reg[n].healthy
  /\ reg' = [reg EXCEPT ![n].healthy = FALSE]
  /\ UNCHANGED <<client, requests, ended, gate, slots, heartbeat, external, page>>

\* What tryAcquire is told: max(limit - available, reportedActive).
Occupied(n, report) ==
  IF NodeLimit[n] = 0 THEN report.active
                      ELSE Max(Minus(NodeLimit[n], report.available), report.active)

\* The cluster health page reads the registry, however old its status is, ...
ReadStatus(n) ==
  /\ page[n] = {}
  /\ page' = [page EXCEPT ![n] = {Occupied(n, reg[n])}]
  /\ UNCHANGED <<client, requests, ended, gate, slots, reg, heartbeat, external>>

\* ... and then sets the gate's capacity from what it has read.
snapshotNodeCapacity(n) ==
  /\ \E occupied \in page[n] :
       gate' = [gate EXCEPT ![n].limit = Limit(n),
                            ![n].external = Minus(occupied, gate[n].active)]
  /\ page' = [page EXCEPT ![n] = {}]
  /\ UNCHANGED <<client, requests, ended, slots, reg, heartbeat, external>>

Reserving(c) == client[c].pc \in {"lookup", "capacity", "await", "probe", "set", "check",
                                  "wait", "slot", "recheck", "giveback"}

\* The client's context is cancelled or passes its deadline.  It bounds the wait
\* only: a reservation once returned does not look at it.
EndContext(c) ==
  /\ Reserving(c)
  /\ c \notin ended
  /\ ended' = ended \cup {c}
  /\ UNCHANGED <<client, requests, gate, slots, reg, heartbeat, external, page>>

-----------------------------------------------------------------------------
(***************************************************************************)
(* Reserve                                                                 *)
(***************************************************************************)

At(c, pc) == client[c].pc = pc

Moved(c, pc) == [client EXCEPT ![c].pc = pc]

\* Reserve returns an error, or the last Release of a reservation returns.
Done(c) == [client EXCEPT ![c] = IdleClient]

Request(c, n, kind) ==
  /\ At(c, "idle")
  /\ requests[c] < MaxRequests
  /\ requests' = [requests EXCEPT ![c] = @ + 1]
  /\ ended' = ended \ {c}
  /\ client' = [client EXCEPT ![c].pc = IF kind = "shard" THEN "slot" ELSE "lookup",
                              ![c].node = n, ![c].kind = kind]
  /\ UNCHANGED <<gate, slots, reg, heartbeat, external, page>>

\* One round of Reserve's loop begins.
Lookup(c) ==
  /\ At(c, "lookup")
  /\ client' = IF c \in ended \/ ~ reg[client[c].node].healthy
               THEN Done(c) ELSE Moved(c, "capacity")
  /\ UNCHANGED <<requests, ended, gate, slots, reg, heartbeat, external, page>>

\* Mutant: every client that finds a stale status probes the node.
CapacityEachProbes(c) ==
  /\ At(c, "capacity")
  /\ LET n == client[c].node
     IN  /\ reg[n].healthy /\ ~ reg[n].fresh
         /\ gate' = [gate EXCEPT ![n].refreshing = TRUE]
         /\ client' = Moved(c, "probe")
  /\ UNCHANGED <<requests, ended, slots, reg, heartbeat, external, page>>

\* The head of dispatchCapacity's loop: use a fresh status, else probe the node
\* or wait for the client that does.
Capacity(c) ==
  /\ At(c, "capacity")
  /\ LET n == client[c].node
     IN  \/ /\ ~ reg[n].healthy
            /\ client' = Done(c)
            /\ UNCHANGED gate
         \/ /\ reg[n].healthy /\ reg[n].fresh
            /\ client' = [client EXCEPT ![c].pc = "set",
                                        ![c].occupied = Occupied(n, reg[n])]
            /\ UNCHANGED gate
         \/ /\ reg[n].healthy /\ ~ reg[n].fresh /\ ~ gate[n].refreshing
            /\ gate' = [gate EXCEPT ![n].refreshing = TRUE]
            /\ client' = Moved(c, "probe")
         \/ /\ reg[n].healthy /\ ~ reg[n].fresh /\ gate[n].refreshing
            /\ client' = Moved(c, "await")
            /\ UNCHANGED gate
  /\ UNCHANGED <<requests, ended, slots, reg, heartbeat, external, page>>

\* A client waiting for another's probe gives up.
AbandonProbe(c) ==
  /\ At(c, "await")
  /\ c \in ended
  /\ client' = Done(c)
  /\ UNCHANGED <<requests, ended, gate, slots, reg, heartbeat, external, page>>

\* endRefresh releases every client waiting for the probe of n.
EndRefresh(n, after) ==
  /\ gate' = [gate EXCEPT ![n].refreshing = FALSE]
  /\ client' = [d \in Clients |-> IF after[d].pc = "await" /\ after[d].node = n
                                  THEN [after[d] EXCEPT !.pc = "capacity"] ELSE after[d]]

\* Mutant: a prober whose context ended returns without endRefresh.
ProbedForgetting(c) ==
  /\ At(c, "probe")
  /\ LET n == client[c].node
     IN  IF c \in ended
         THEN client' = Done(c) /\ UNCHANGED <<gate, reg>>
         ELSE /\ Upsert(n, Report(n))
              /\ EndRefresh(n, [client EXCEPT ![c].pc = "set",
                                              ![c].occupied = Occupied(n, Report(n))])
  /\ UNCHANGED <<requests, ended, slots, heartbeat, external, page>>

\* The probe returns: with the node's status, with an error that marks the node
\* unhealthy, or with the error of the prober's own ended context.
Probed(c) ==
  /\ At(c, "probe")
  /\ LET n == client[c].node
     IN  \/ /\ Upsert(n, Report(n))
            /\ EndRefresh(n, [client EXCEPT ![c].pc = "set",
                                            ![c].occupied = Occupied(n, Report(n))])
         \/ /\ reg' = IF c \in ended THEN reg ELSE [reg EXCEPT ![n].healthy = FALSE]
            /\ EndRefresh(n, Done(c))
  /\ UNCHANGED <<requests, ended, slots, heartbeat, external, page>>

\* The first critical section of tryAcquire.
setCapacity(c) ==
  /\ At(c, "set")
  /\ LET n == client[c].node
     IN  gate' = [gate EXCEPT ![n].limit = Limit(n),
                              ![n].external = Minus(client[c].occupied, gate[n].active)]
  /\ client' = [client EXCEPT ![c].pc = "check", ![c].occupied = 0]
  /\ UNCHANGED <<requests, ended, slots, reg, heartbeat, external, page>>

\* Mutant: off by one.
tryAcquireInclusive(c) ==
  /\ At(c, "check")
  /\ LET n == client[c].node
     IN  /\ gate[n].active + gate[n].external <= gate[n].limit
         /\ gate' = [gate EXCEPT ![n].active = @ + 1]
         /\ client' = Moved(c, "slot")
  /\ UNCHANGED <<requests, ended, slots, reg, heartbeat, external, page>>

\* The second.
tryAcquire(c) ==
  /\ At(c, "check")
  /\ LET n == client[c].node
     IN  IF gate[n].active + gate[n].external < gate[n].limit
         THEN /\ gate' = [gate EXCEPT ![n].active = @ + 1]
              /\ client' = Moved(c, "slot")
         ELSE /\ client' = Moved(c, "wait")
              /\ UNCHANGED gate
  /\ UNCHANGED <<requests, ended, slots, reg, heartbeat, external, page>>

\* The gate changed or the one-second ticker fired; or the context ended.
Wake(c) ==
  /\ At(c, "wait")
  /\ client' = IF c \in ended THEN Done(c) ELSE Moved(c, "lookup")
  /\ UNCHANGED <<requests, ended, gate, slots, reg, heartbeat, external, page>>

\* nodeDispatchGate.release; a shard task has no node gate.
NodeReleased(c) == IF client[c].kind = "shard" THEN gate
                   ELSE [gate EXCEPT ![client[c].node].active = @ - 1]

\* A global slot is free.  Reserve looks at the context once more afterwards; a
\* shard task does not.
TakeSlot(c) ==
  /\ At(c, "slot")
  /\ slots < GlobalLimit
  /\ slots' = slots + 1
  /\ client' = Moved(c, IF client[c].kind = "shard" THEN "held" ELSE "recheck")
  /\ UNCHANGED <<requests, ended, gate, reg, heartbeat, external, page>>

\* Mutant: the node's capacity is kept when the wait for a slot is cut off.
AbandonSlotLeak(c) ==
  /\ At(c, "slot")
  /\ c \in ended
  /\ client' = Done(c)
  /\ UNCHANGED <<requests, ended, gate, slots, reg, heartbeat, external, page>>

\* The context ends first: the node's capacity is given back.
AbandonSlot(c) ==
  /\ At(c, "slot")
  /\ c \in ended
  /\ gate' = NodeReleased(c)
  /\ client' = Done(c)
  /\ UNCHANGED <<requests, ended, slots, reg, heartbeat, external, page>>

Recheck(c) ==
  /\ At(c, "recheck")
  /\ IF c \in ended
     THEN gate' = NodeReleased(c) /\ client' = Moved(c, "giveback")
     ELSE UNCHANGED gate /\ client' = Moved(c, "held")
  /\ UNCHANGED <<requests, ended, slots, reg, heartbeat, external, page>>

GiveBack(c) ==
  /\ At(c, "giveback")
  /\ slots > 0
  /\ slots' = slots - 1
  /\ client' = Done(c)
  /\ UNCHANGED <<requests, ended, gate, reg, heartbeat, external, page>>

-----------------------------------------------------------------------------
(***************************************************************************)
(* The reservation                                                         *)
(***************************************************************************)

\* Mutant: the count may go below zero.
IncrementLoadUnclamped(n, delta) ==
  [reg EXCEPT ![n].active = @ + delta]

IncrementLoad(n, delta) ==
  [reg EXCEPT ![n].active = Max(@ + delta, 0)]

\* dispatchReservation.Start, and the request goes to the node.
StartWork(c) ==
  /\ At(c, "held")
  /\ reg' = IncrementLoad(client[c].node, 1)
  /\ client' = Moved(c, "working")
  /\ UNCHANGED <<requests, ended, gate, slots, heartbeat, external, page>>

\* The node has finished, or the request was cut off.
FinishWork(c) ==
  /\ At(c, "working")
  /\ client' = Moved(c, "answered")
  /\ UNCHANGED <<requests, ended, gate, slots, reg, heartbeat, external, page>>

\* The first Release takes the load off the registry, if it was put on, ...
Unload(c) ==
  /\ At(c, "answered")
  /\ reg' = IncrementLoad(client[c].node, -1)
  /\ client' = Moved(c, "unloaded")
  /\ UNCHANGED <<requests, ended, gate, slots, heartbeat, external, page>>

\* ... then its share of the node's gate, ...
Release(c) ==
  /\ At(c, "held") \/ At(c, "unloaded")
  /\ gate' = NodeReleased(c)
  /\ client' = Moved(c, "releasing")
  /\ UNCHANGED <<requests, ended, slots, reg, heartbeat, external, page>>

\* ... and then gives the global slot back: a node's reservation panics when
\* there is none, a shard task's waits for one.
ReleaseSlot(c) ==
  /\ At(c, "releasing")
  /\ slots > 0
  /\ slots' = slots - 1
  /\ client' = Moved(c, "released")
  /\ UNCHANGED <<requests, ended, gate, reg, heartbeat, external, page>>


\* The deferred second Release does nothing.
ReleaseAgain(c) ==
  /\ At(c, "released")
  /\ client' = Done(c)
  /\ UNCHANGED <<requests, ended, gate, slots, reg, heartbeat, external, page>>

-----------------------------------------------------------------------------
ReserveStep(c) ==
  \/ Lookup(c) \/ Capacity(c) \/ AbandonProbe(c) \/ Probed(c) \/ setCapacity(c)
  \/ tryAcquire(c) \/ Wake(c) \/ TakeSlot(c) \/ AbandonSlot(c) \/ Recheck(c) \/ GiveBack(c)

WorkStep(c) ==
  \/ StartWork(c) \/ FinishWork(c) \/ Unload(c) \/ Release(c) \/ ReleaseSlot(c)
  \/ ReleaseAgain(c)

NodeStep(n) ==
  \/ \E k \in 0 .. MaxExternal : k # external[n] /\ ExternalWork(n, k)
  \/ SendHeartbeat(n) \/ DeliverHeartbeat(n) \/ Age(n) \/ MarkUnhealthy(n)
  \/ ReadStatus(n) \/ snapshotNodeCapacity(n)

Next == \/ \E c \in Clients : \/ \E n \in Nodes : \E kind \in Kinds : Request(c, n, kind)
                              \/ EndContext(c) \/ ReserveStep(c) \/ WorkStep(c)
        \/ \E n \in Nodes : NodeStep(n)

Spec == Init /\ [][Next]_vars

\* Goroutines run, probes and requests return (both have timeouts), tickers
\* fire, and a status grows old unless it is renewed.  Nothing else is fair: no
\* client's context need end, no heartbeat need arrive.
FairSpec == /\ Spec
            /\ \A c \in Clients : /\ WF_vars(ReserveStep(c))
                                  /\ WF_vars(TakeSlot(c))
                                  /\ WF_vars(WorkStep(c))
            /\ \A n \in Nodes : WF_vars(Age(n))

-----------------------------------------------------------------------------
ClientRecord == [pc : Steps, node : Nodes \cup {NoNode},
                 kind : {"task", "routed", "shard"}, occupied : Nat]

\* Type invariant: counters never go below zero, slots never above its capacity.
TypeOK ==
  /\ client \in [Clients -> ClientRecord]
  /\ requests \in [Clients -> 0 .. MaxRequests]
  /\ ended \in SUBSET Clients
  /\ gate \in [Nodes -> [limit : Nat, active : Nat, external : Nat, refreshing : BOOLEAN]]
  /\ slots \in 0 .. GlobalLimit
  /\ reg \in [Nodes -> [healthy : BOOLEAN, fresh : BOOLEAN, available : Nat, active : Nat]]
  /\ heartbeat \in [Nodes -> SUBSET [available : Nat, active : Nat]]
  /\ external \in [Nodes -> 0 .. MaxExternal]
  /\ page \in [Nodes -> SUBSET Nat]

\* Who has taken capacity of node n, and who has a global slot.
NodeHolders(n) == {c \in Clients : /\ client[c].node = n /\ client[c].kind # "shard"
                                   /\ client[c].pc \in {"slot", "recheck", "held", "working",
                                                        "answered", "unloaded"}}
SlotHolders == {c \in Clients : client[c].pc \in {"recheck", "giveback", "held", "working",
                                                  "answered", "unloaded", "releasing"}}

\* Capacity is neither leaked nor invented: wherever contexts end between the
\* node gate, the global slot and the release, each gate counts exactly the
\* clients that hold it.
CapacityConserved ==
  /\ slots = Cardinality(SlotHolders)
  /\ \A n \in Nodes : gate[n].active = Cardinality(NodeHolders(n))


\* However old the reports, and although a node does not report all of its
\* work, the orchestrator never admits more requests to a node than the node's
\* limit: setCapacity and the check are two critical sections, and what the
\* first one wrote may be overwritten before the second.
NodeNotOvercommitted == \A n \in Nodes : Executing(n, {"task", "routed"}) <= Limit(n)

\* At most one probe of a node is in flight, and the gate says so as long as it
\* is: nobody waits for a probe that nobody makes.
SingleProbe ==
  \A n \in Nodes :
    LET probing == {c \in Clients : client[c].node = n /\ client[c].pc = "probe"}
    IN  /\ Cardinality(probing) <= 1
        /\ gate[n].refreshing <=> probing # {}
        /\ (\E c \in Clients : client[c].node = n /\ client[c].pc = "await") => probing # {}

\* Without external work every Reserve returns, although the reports it waits on
\* may be old and the requests it waits for may be lost to other clients first.
ReserveReturns == \A c \in Clients : Reserving(c) ~> ~ Reserving(c)
=============================================================================
