--------------------- MODULE AsyncEventDispatcherProofs ----------------------
(***************************************************************************)
(* That handlers see events in order and none is forgotten, for any number *)
(* of threads, events, names and handlers.                                 *)
(***************************************************************************)
EXTENDS AsyncEventDispatcher, FiniteSetTheorems, SequenceTheorems, TLAPS

USE DispatcherAssumption

(* Taking the first element of a queue.                                    *)
LEMMA TailFacts ==
  ASSUME NEW S, NEW q \in Seq(S), q # <<>>
  PROVE  /\ Head(q) \in S /\ Head(q) = q[1] /\ Tail(q) \in Seq(S)
         /\ Len(q) \in Nat \ {0} /\ Len(Tail(q)) = Len(q) - 1
         /\ \A i \in 1..Len(q) - 1 : Tail(q)[i] = q[i + 1]
OBVIOUS

(* What is in a sequence.                                                  *)
LEMMA EventsOfQueue ==
  ASSUME NEW S, NEW q \in Seq(S)
  PROVE  \A i \in DOMAIN q : q[i] \in S
OBVIOUS

(* What Push puts behind the newest of what was there.                     *)
LEMMA PushFacts ==
  ASSUME NEW q \in Seq(EventType), NEW x \in EventType, Len(q) <= QueueSize
  PROVE  /\ Push(q, x, QueueSize) \in Seq(EventType) /\ Len(Push(q, x, QueueSize)) <= QueueSize
         /\ Len(Push(q, x, QueueSize)) \in Nat \ {0}
         /\ Push(q, x, QueueSize)[Len(Push(q, x, QueueSize))] = x
         /\ \E k \in {0, 1} : \A i \in 1..Len(Push(q, x, QueueSize)) - 1 :
              i + k \in 1..Len(q) /\ Push(q, x, QueueSize)[i] = q[i + k]
<1> QueueSize \in Nat \ {0}
  OBVIOUS
<1>1. CASE Len(q) = QueueSize
  <2>1. q # <<>> /\ Len(q) \in Nat
    BY <1>1
  <2>2. /\ Tail(q) \in Seq(EventType) /\ Len(Tail(q)) = QueueSize - 1
        /\ \A i \in 1..QueueSize - 1 : Tail(q)[i] = q[i + 1]
    BY <1>1, <2>1, TailFacts
  <2>3. Push(q, x, QueueSize) = Append(Tail(q), x)
    BY <1>1 DEF Push
  <2>4. /\ Push(q, x, QueueSize) \in Seq(EventType) /\ Len(Push(q, x, QueueSize)) = QueueSize
        /\ Push(q, x, QueueSize)[QueueSize] = x
        /\ \A i \in 1..QueueSize - 1 : Push(q, x, QueueSize)[i] = Tail(q)[i]
    BY <2>2, <2>3, AppendProperties
  <2>5. \A i \in 1..QueueSize - 1 : i + 1 \in 1..Len(q) /\ Push(q, x, QueueSize)[i] = q[i + 1]
    BY <1>1, <2>2, <2>4
  <2> QED BY <2>4, <2>5
<1>2. CASE Len(q) # QueueSize
  <2>1. Push(q, x, QueueSize) = Append(q, x) /\ Len(q) \in Nat
    BY <1>2 DEF Push
  <2>2. /\ Push(q, x, QueueSize) \in Seq(EventType) /\ Len(Push(q, x, QueueSize)) = Len(q) + 1
        /\ Push(q, x, QueueSize)[Len(q) + 1] = x
        /\ \A i \in 1..Len(q) : Push(q, x, QueueSize)[i] = q[i]
    BY <2>1, AppendProperties
  <2>3. \A i \in 1..Len(q) : i + 0 \in 1..Len(q) /\ Push(q, x, QueueSize)[i] = q[i + 0]
    BY <2>1, <2>2
  <2> QED BY <1>2, <2>1, <2>2, <2>3
<1> QED BY <1>1, <1>2

-----------------------------------------------------------------------------
(* Where a thread is follows from the call it is in.                       *)
Flow ==
  \A t \in Threads :
    /\ at[t] # "idle" /\ role[t] = "handle" => t \in Consumers
    /\ at[t] = "push" => role[t] = "dispatch"
    /\ at[t] \in {"pop", "lookup", "run"} => role[t] = "handle"
    /\ at[t] \in {"lookup", "run"} => event[t] \in EventType

(* The bound on the calls of Dispatch counts those under way.              *)
Counted == dispatched + Cardinality(Dispatching) <= MaxEvents

TypeInv == TypeOK /\ Flow /\ Counted

(* Who is dispatching is a finite set.                                     *)
LEMMA DispatchingFinite ==
  /\ IsFiniteSet(Dispatching) /\ Cardinality(Dispatching) \in Nat
  /\ IsFiniteSet(Dispatching') /\ Cardinality(Dispatching') \in Nat
<1>1. Dispatching \subseteq Threads /\ Dispatching' \subseteq Threads
  BY DEF Dispatching
<1> QED BY <1>1, FS_Subset, FS_CardinalityType

(* A step after which nobody dispatches who did not before.                *)
LEMMA NoNewDispatch ==
  ASSUME TypeOK, Counted, Dispatching' \subseteq Dispatching,
         dispatched' = dispatched
  PROVE  Counted'
<1>1. Cardinality(Dispatching') <= Cardinality(Dispatching)
  BY DispatchingFinite, FS_Subset
<1>2. dispatched \in Nat
  BY DEF TypeOK
<1> QED BY <1>1, <1>2, DispatchingFinite DEF Counted

(* The two checks at the head of both calls.                               *)
LEMMA ChecksType ==
  ASSUME TypeInv, NEW t \in Threads,
         \/ Test(t, "dispatch") \/ Test(t, "handle")
         \/ Store(t) \/ Compare(t) \/ CheckOther(t)
  PROVE  TypeInv'
<1>1. /\ UNCHANGED <<event_queue, handlers, registered, event, todo, dispatched,
                     active, log, finished>>
      /\ \E pc \in {"store", "compare", "other", "idle", Work(role[t])} :
           at' = [at EXCEPT ![t] = pc]
  BY DEF Test, Store, Compare, CheckOther, Goes, workVars, history
<1>2. role' \in [Threads -> Roles] /\ id' \in [Roles -> Threads \cup {NoThread}]
      /\ \A u \in Threads \ {t} : role'[u] = role[u]
  BY DEF Test, Store, Compare, CheckOther, TypeInv, TypeOK, Roles
<1>3. /\ at' \in [Threads -> {"idle", "store", "compare", "other", "push",
                             "pop", "lookup", "run"}]
      /\ \A u \in Threads \ {t} : at'[u] = at[u]
      /\ at'[t] \in {"store", "compare", "other", "idle", Work(role[t])}
  BY <1>1 DEF TypeInv, TypeOK, Work
<1>4. TypeOK'
  BY <1>1, <1>2, <1>3 DEF TypeInv, TypeOK
<1>5. Flow'
  <2> SUFFICES ASSUME NEW u \in Threads
               PROVE  /\ at'[u] # "idle" /\ role'[u] = "handle" => u \in Consumers
                      /\ at'[u] = "push" => role'[u] = "dispatch"
                      /\ at'[u] \in {"pop", "lookup", "run"} => role'[u] = "handle"
                      /\ at'[u] \in {"lookup", "run"} => event'[u] \in EventType
    BY <1>1 DEF Flow, EventType
  <2>1. CASE u # t
    BY <1>1, <1>2, <1>3, <2>1 DEF TypeInv, Flow
  <2>2. CASE u = t /\ (Test(t, "dispatch") \/ Test(t, "handle"))
    BY <2>2 DEF Test, Goes, TypeInv, TypeOK
  <2>3. CASE u = t /\ (Store(t) \/ Compare(t) \/ CheckOther(t))
    <3>1. at[t] # "idle" /\ role'[t] = role[t] /\ role[t] \in Roles
      BY <2>3 DEF Store, Compare, CheckOther, TypeInv, TypeOK
    <3>2. CASE at'[t] \in {"store", "compare", "other", "idle"}
      BY <2>3, <3>1, <3>2 DEF TypeInv, Flow
    <3>3. CASE at'[t] = Work(role[t])
      BY <2>3, <3>1, <3>3 DEF TypeInv, Flow, Work, Roles
    <3> QED BY <1>3, <3>2, <3>3
  <2> QED BY <2>1, <2>2, <2>3
<1>6. Counted'
  <2>1. CASE Test(t, "dispatch")
    <3>1. Dispatching' = Dispatching \cup {t} /\ t \notin Dispatching
      BY <1>2, <1>3, <2>1 DEF Test, Goes, Dispatching, TypeInv, TypeOK
    <3>2. Cardinality(Dispatching') = Cardinality(Dispatching) + 1
      BY <3>1, DispatchingFinite, FS_AddElement
    <3>3. dispatched + Cardinality(Dispatching) < MaxEvents /\ dispatched \in Nat
      BY <2>1 DEF Test, TypeInv, TypeOK
    <3> QED BY <1>1, <3>2, <3>3, DispatchingFinite DEF Counted
  <2>2. CASE Test(t, "handle")
    <3>1. Dispatching' \subseteq Dispatching
      BY <1>2, <1>3, <2>2 DEF Test, Goes, Dispatching, TypeInv, TypeOK
    <3> QED BY <1>1, <3>1, NoNewDispatch DEF TypeInv
  <2>3. CASE Store(t) \/ Compare(t) \/ CheckOther(t)
    <3>1. at[t] # "idle" /\ role' = role
      BY <2>3 DEF Store, Compare, CheckOther
    <3>2. Dispatching' \subseteq Dispatching
      BY <1>3, <3>1 DEF Dispatching
    <3> QED BY <1>1, <3>2, NoNewDispatch DEF TypeInv
  <2> QED BY <2>1, <2>2, <2>3
<1> QED BY <1>4, <1>5, <1>6 DEF TypeInv

(* Dispatch pushes its event.                                              *)
LEMMA PushType ==
  ASSUME TypeInv, NEW t \in Threads, NEW name \in Names, PushEvent(t, name)
  PROVE  TypeInv'
<1> DEFINE e == [n |-> dispatched + 1, name |-> name, known |-> handlers[name]]
<1>1. /\ at[t] = "push" /\ role[t] = "dispatch"
      /\ at' = [at EXCEPT ![t] = "idle"]
      /\ UNCHANGED <<id, role, handlers, registered, event, todo, log, finished>>
      /\ dispatched' = dispatched + 1 /\ dispatched \in Nat
  <2>1. dispatched \in Nat
    BY DEF TypeInv, TypeOK
  <2> QED BY <2>1 DEF PushEvent, TypeInv, Flow, workVars
<1>2. Cardinality(Dispatching') = Cardinality(Dispatching) - 1
  <2>1. Dispatching' = Dispatching \ {t} /\ t \in Dispatching
    BY <1>1 DEF Dispatching, TypeInv, TypeOK
  <2> QED BY <2>1, DispatchingFinite, FS_RemoveElement
<1>3. Counted' /\ dispatched' \in 1..MaxEvents
  BY <1>1, <1>2, DispatchingFinite DEF Counted, TypeInv
<1>4. e \in EventType
  BY <1>1, <1>3 DEF EventType, TypeInv, TypeOK
<1>5. event_queue' = Push(event_queue, e, QueueSize)
  BY DEF PushEvent
<1> HIDE DEF e
<1>6. event_queue' \in Seq(EventType) /\ Len(event_queue') <= QueueSize
  <2>1. event_queue \in Seq(EventType) /\ Len(event_queue) <= QueueSize
    BY DEF TypeInv, TypeOK
  <2> QED BY <1>4, <1>5, <2>1, PushFacts
<1>7. active' \in [Roles -> SUBSET Threads]
  BY DEF PushEvent, TypeInv, TypeOK
<1>8. TypeOK'
  BY <1>1, <1>3, <1>6, <1>7 DEF TypeInv, TypeOK
<1>9. Flow'
  BY <1>1 DEF TypeInv, TypeOK, Flow
<1> QED BY <1>3, <1>8, <1>9 DEF TypeInv

(* HandleEvents takes an event, looks its handlers up and runs them.       *)
LEMMA HandlingType ==
  ASSUME TypeInv, NEW t \in Threads,
         PopEvent(t) \/ LookUpHandlers(t) \/ RunHandler(t)
  PROVE  TypeInv'
<1>1. /\ at[t] \in {"pop", "lookup", "run"} /\ role[t] = "handle"
      /\ UNCHANGED <<id, role, handlers, registered, dispatched>>
  BY DEF PopEvent, LookUpHandlers, Copies, RunHandler, history, TypeInv, Flow
<1>2. /\ at' \in [Threads -> {"idle", "store", "compare", "other", "push",
                             "pop", "lookup", "run"}]
      /\ \A u \in Threads \ {t} : at'[u] = at[u] /\ event'[u] = event[u]
      /\ at'[t] \in {"idle", "pop", "lookup", "run"}
  BY DEF PopEvent, LookUpHandlers, Copies, RunHandler, TypeInv, TypeOK
<1>3. /\ event_queue' \in Seq(EventType) /\ Len(event_queue') <= QueueSize
      /\ event' \in [Threads -> EventType \cup {NoEvent}]
      /\ at'[t] \in {"lookup", "run"} => event'[t] \in EventType
  <2>1. CASE PopEvent(t) /\ CanPop(event_queue)
    <3>1. /\ Head(event_queue) \in EventType
          /\ event_queue' \in Seq(EventType)
          /\ Len(event_queue') = Len(event_queue) - 1 /\ Len(event_queue) \in Nat
      <4>1. /\ event_queue # <<>> /\ event_queue' = Tail(event_queue)
            /\ event_queue \in Seq(EventType)
        BY <2>1 DEF PopEvent, CanPop, Rest, TypeInv, TypeOK
      <4> QED BY <4>1, TailFacts
    <3>2. event' = [event EXCEPT ![t] = Head(event_queue)]
      BY <2>1 DEF PopEvent, Front
    <3>3. Len(event_queue) <= QueueSize /\ event \in [Threads -> EventType \cup {NoEvent}]
      BY DEF TypeInv, TypeOK
    <3>4. Len(event_queue') <= QueueSize
      BY <3>1, <3>3
    <3> QED BY <3>1, <3>2, <3>3, <3>4
  <2>2. CASE PopEvent(t) /\ ~CanPop(event_queue)
    BY <2>2 DEF PopEvent, TypeInv, TypeOK
  <2>3. CASE LookUpHandlers(t)
    BY <2>3 DEF LookUpHandlers, Copies, TypeInv, TypeOK, Flow
  <2>4. CASE RunHandler(t)
    BY <2>4 DEF RunHandler, TypeInv, TypeOK, Flow
  <2> QED BY <2>1, <2>2, <2>3, <2>4
<1>4. active' \in [Roles -> SUBSET Threads]
  <2>1. active' = active \/ active' = [active EXCEPT !["handle"] = @ \cup {t}]
    BY DEF PopEvent, LookUpHandlers, Copies, RunHandler, history
  <2>2. active \in [Roles -> SUBSET Threads]
    BY DEF TypeInv, TypeOK
  <2> QED BY <2>1, <2>2
<1>5. /\ todo' \in [Threads -> Seq(1..MaxHandlers)]
      /\ log' \in Seq([n : 1..MaxEvents, handler : 1..MaxHandlers])
      /\ finished' \subseteq EventType
  <2>1. CASE PopEvent(t)
    BY <2>1 DEF PopEvent, TypeInv, TypeOK
  <2>2. CASE LookUpHandlers(t)
    <3>1. event[t].name \in Names
      BY <2>2 DEF LookUpHandlers, Copies, TypeInv, Flow, EventType
    <3>2. /\ todo' = [todo EXCEPT ![t] = handlers[event[t].name]]
          /\ UNCHANGED <<log, finished>>
      BY <2>2 DEF LookUpHandlers, Copies, history
    <3>3. handlers[event[t].name] \in Seq(1..MaxHandlers)
      BY <3>1 DEF TypeInv, TypeOK
    <3>4. todo \in [Threads -> Seq(1..MaxHandlers)]
          /\ log \in Seq([n : 1..MaxEvents, handler : 1..MaxHandlers])
          /\ finished \subseteq EventType
      BY DEF TypeInv, TypeOK
    <3> QED BY <3>2, <3>3, <3>4
  <2>3. CASE RunHandler(t) /\ todo[t] # <<>>
    <3>1. event[t].n \in 1..MaxEvents
      BY <2>3 DEF RunHandler, TypeInv, Flow, EventType
    <3>2. Head(todo[t]) \in 1..MaxHandlers /\ Tail(todo[t]) \in Seq(1..MaxHandlers)
      BY <2>3, TailFacts DEF TypeInv, TypeOK
    <3>3. /\ todo' = [todo EXCEPT ![t] = Tail(@)] /\ UNCHANGED finished
          /\ log' = Append(log, [n |-> event[t].n, handler |-> Head(todo[t])])
      BY <2>3 DEF RunHandler
    <3>4. todo \in [Threads -> Seq(1..MaxHandlers)]
          /\ log \in Seq([n : 1..MaxEvents, handler : 1..MaxHandlers])
          /\ finished \subseteq EventType
      BY DEF TypeInv, TypeOK
    <3>5. [n |-> event[t].n, handler |-> Head(todo[t])]
            \in [n : 1..MaxEvents, handler : 1..MaxHandlers]
      BY <3>1, <3>2
    <3>6. log' \in Seq([n : 1..MaxEvents, handler : 1..MaxHandlers])
      BY <3>3, <3>4, <3>5, AppendProperties
    <3> QED BY <3>2, <3>3, <3>4, <3>6
  <2>4. CASE RunHandler(t) /\ todo[t] = <<>>
    BY <2>4 DEF RunHandler, TypeInv, TypeOK, Flow
  <2> QED BY <2>1, <2>2, <2>3, <2>4
<1>6. TypeOK'
  BY <1>1, <1>2, <1>3, <1>4, <1>5 DEF TypeInv, TypeOK
<1>7. Flow'
  <2> SUFFICES ASSUME NEW u \in Threads
               PROVE  /\ at'[u] # "idle" /\ role'[u] = "handle" => u \in Consumers
                      /\ at'[u] = "push" => role'[u] = "dispatch"
                      /\ at'[u] \in {"pop", "lookup", "run"} => role'[u] = "handle"
                      /\ at'[u] \in {"lookup", "run"} => event'[u] \in EventType
    BY DEF Flow, EventType
  <2>1. CASE u # t
    BY <1>1, <1>2, <2>1 DEF TypeInv, Flow
  <2>2. CASE u = t
    BY <1>1, <1>2, <1>3, <2>2 DEF TypeInv, Flow
  <2> QED BY <2>1, <2>2
<1>8. Dispatching' \subseteq Dispatching
  BY <1>1, <1>2 DEF Dispatching
<1>9. Counted'
  BY <1>1, <1>8, NoNewDispatch DEF TypeInv
<1> QED BY <1>6, <1>7, <1>9 DEF TypeInv

(* Types, and what is under way fits the calls.                            *)
LEMMA TypeInvariant == Spec => []TypeInv
<1>1. Init => TypeInv
  <2> SUFFICES ASSUME Init PROVE TypeInv
    OBVIOUS
  <2>1. Dispatching = {}
    BY DEF Init, Dispatching
  <2>2. Counted
    BY <2>1, FS_EmptySet DEF Init, Counted
  <2>3. Flow
    BY DEF Init, Flow
  <2>4. TypeOK
    BY DEF Init, TypeOK, Roles
  <2> QED BY <2>2, <2>3, <2>4 DEF TypeInv
<1>2. TypeInv /\ [Next]_vars => TypeInv'
  <2> SUFFICES ASSUME TypeInv, [Next]_vars PROVE TypeInv'
    OBVIOUS
  <2>1. CASE UNCHANGED vars
    BY <2>1 DEF vars, roleVars, workVars, history, TypeInv, TypeOK, Flow,
                Counted, Dispatching
  <2>2. ASSUME NEW t \in Threads, NEW name \in Names, RegisterHandler(t, name)
        PROVE  TypeInv'
    <3>1. handlers' \in [Names -> Seq(1..MaxHandlers)]
          /\ registered' \in 0..MaxHandlers
      BY <2>2 DEF RegisterHandler, Registers, TypeInv, TypeOK
    <3> QED BY <2>2, <3>1 DEF RegisterHandler, Registers, roleVars, workVars,
                history, TypeInv, TypeOK, Flow, Counted, Dispatching
  <2> QED BY <2>1, <2>2, ChecksType, PushType, HandlingType
          DEF Next, Dispatch, HandleEvents
<1> QED BY <1>1, <1>2, PTL DEF Spec

(* Types, for any number of threads and of events.                         *)
THEOREM TypeCorrect == Spec => []TypeOK
<1>1. TypeInv => TypeOK
  BY DEF TypeInv
<1> QED BY <1>1, TypeInvariant, PTL

-----------------------------------------------------------------------------
(* Neither check touches what is being handled.                            *)
LEMMA ChecksHandleNothing ==
  ASSUME TypeInv, NEW t \in Threads,
         \/ Test(t, "dispatch") \/ Test(t, "handle")
         \/ Store(t) \/ Compare(t) \/ CheckOther(t)
  PROVE  /\ UNCHANGED <<event_queue, handlers, registered, event, todo,
                        dispatched, active, log, finished>>
         /\ \A u \in Threads : /\ at'[u] = "lookup" <=> at[u] = "lookup"
                               /\ at'[u] = "run" <=> at[u] = "run"
<1>1. UNCHANGED <<event_queue, handlers, registered, event, todo, dispatched,
                  active, log, finished>>
  BY DEF Test, Store, Compare, CheckOther, Goes, workVars, history
<1>2. /\ at[t] \in {"idle", "store", "compare", "other"}
      /\ \E pc \in {"idle", "store", "compare", "other", "push", "pop"} :
           at' = [at EXCEPT ![t] = pc]
  BY DEF Test, Store, Compare, CheckOther, Goes, Work
<1> QED BY <1>1, <1>2 DEF TypeInv, TypeOK

(* A handler is in a list; it has run for event n.                         *)
Has(list, h) == \E i \in DOMAIN list : list[i] = h

Ran(n, h) == Has(log, [n |-> n, handler |-> h])

(* The handlers an event is meant for are still registered.                *)
Covered(e) == \A i \in DOMAIN e.known : Has(handlers[e.name], e.known[i])

(* What the loop of HandleEvents still owes to each of them: to find it, or *)
(* to run it unless it has.                                                *)
KnownInv ==
  /\ \A i \in DOMAIN event_queue : Covered(event_queue[i])
  /\ \A t \in Threads :
       /\ at[t] = "lookup" => Covered(event[t])
       /\ at[t] = "run" =>
            \A i \in DOMAIN event[t].known :
              \/ Has(todo[t], event[t].known[i])
              \/ Ran(event[t].n, event[t].known[i])
  /\ KnownHandlersRan

(* A list that grows at its end loses nobody.                              *)
LEMMA HasAppend ==
  ASSUME NEW S, NEW list \in Seq(S), NEW x \in S
  PROVE  Has(Append(list, x), x) /\ \A h : Has(list, h) => Has(Append(list, x), h)
<1>1. /\ DOMAIN list = 1..Len(list) /\ Len(list) \in Nat
      /\ DOMAIN Append(list, x) = 1..Len(list) + 1
      /\ \A i \in 1..Len(list) : Append(list, x)[i] = list[i]
      /\ Append(list, x)[Len(list) + 1] = x
  BY AppendProperties
<1> QED BY <1>1 DEF Has

(* What is in a list is its head or in its tail.                           *)
LEMMA HasHeadOrTail ==
  ASSUME NEW S, NEW list \in Seq(S), NEW h, Has(list, h), list # <<>>
  PROVE  h = Head(list) \/ Has(Tail(list), h)
<1>1. PICK i \in 1..Len(list) : list[i] = h
  BY DEF Has
<1>2. /\ Head(list) = list[1] /\ Len(list) \in Nat \ {0}
      /\ Tail(list) \in Seq(S) /\ Len(Tail(list)) = Len(list) - 1
      /\ \A k \in 1..Len(list) - 1 : Tail(list)[k] = list[k + 1]
  BY TailFacts
<1>3. CASE i = 1
  BY <1>1, <1>2, <1>3
<1>4. CASE i # 1
  <2>1. i - 1 \in 1..Len(list) - 1 /\ Tail(list)[i - 1] = h
    BY <1>1, <1>2, <1>4
  <2>2. DOMAIN Tail(list) = 1..Len(list) - 1
    BY <1>2
  <2> QED BY <2>1, <2>2 DEF Has
<1> QED BY <1>3, <1>4

(* RegisterHandler keeps every handler.                                    *)
LEMMA RegisterKeeps ==
  ASSUME TypeInv, NEW t \in Threads, NEW name \in Names, RegisterHandler(t, name)
  PROVE  \A e \in EventType : \A h :
           Has(handlers[e.name], h) => Has(handlers'[e.name], h)
<1>1. /\ handlers \in [Names -> Seq(1..MaxHandlers)]
      /\ handlers' = [handlers EXCEPT ![name] = Append(handlers[name], registered + 1)]
      /\ registered + 1 \in 1..MaxHandlers
  BY DEF RegisterHandler, Registers, TypeInv, TypeOK
<1>2. \A h : Has(handlers[name], h) =>
               Has(Append(handlers[name], registered + 1), h)
  BY <1>1, HasAppend
<1> QED BY <1>1, <1>2 DEF EventType

(* Every step keeps what the handlers are owed.                            *)
LEMMA KnownStep ==
  ASSUME TypeInv, KnownInv, [Next]_vars
  PROVE  KnownInv'
<1>1. CASE UNCHANGED vars
  BY <1>1 DEF vars, roleVars, workVars, history, KnownInv, KnownHandlersRan,
              Covered, Has, Ran
<1>2. ASSUME NEW t \in Threads,
             \/ Test(t, "dispatch") \/ Test(t, "handle")
             \/ Store(t) \/ Compare(t) \/ CheckOther(t)
      PROVE  KnownInv'
  BY <1>2, ChecksHandleNothing
     DEF KnownInv, KnownHandlersRan, Covered, Has, Ran
<1>3. ASSUME NEW t \in Threads, NEW name \in Names, RegisterHandler(t, name)
      PROVE  KnownInv'
  <2>1. UNCHANGED <<at, event_queue, event, todo, log, finished>>
    BY <1>3 DEF RegisterHandler, Registers, roleVars, workVars, history
  <2>2. \A e \in EventType : Covered(e) => Covered(e)'
    BY <1>3, RegisterKeeps DEF Covered
  <2>3. /\ \A i \in DOMAIN event_queue : event_queue[i] \in EventType
        /\ \A u \in Threads : at[u] = "lookup" => event[u] \in EventType
    BY DEF TypeInv, TypeOK, Flow
  <2>4. \A i \in DOMAIN event_queue' : Covered(event_queue[i])'
    BY <2>1, <2>2, <2>3 DEF KnownInv
  <2>5. \A u \in Threads : at'[u] = "lookup" => Covered(event[u])'
    BY <2>1, <2>2, <2>3 DEF KnownInv
  <2> QED BY <2>1, <2>4, <2>5 DEF KnownInv, KnownHandlersRan, Ran, Covered, Has
<1>4. ASSUME NEW t \in Threads, NEW name \in Names, PushEvent(t, name)
      PROVE  KnownInv'
  <2> DEFINE e == [n |-> dispatched + 1, name |-> name, known |-> handlers[name]]
  <2>1. /\ UNCHANGED <<handlers, event, todo, log, finished>>
        /\ at[t] = "push" /\ at' = [at EXCEPT ![t] = "idle"]
        /\ event_queue' = Push(event_queue, e, QueueSize)
    BY <1>4 DEF PushEvent, workVars
  <2>2. \A u \in Threads : (at'[u] = "lookup" => at[u] = "lookup")
                           /\ (at'[u] = "run" => at[u] = "run")
    BY <2>1 DEF TypeInv, TypeOK
  <2>3. Covered(e)
    BY DEF Covered, Has
  <2>4. /\ event_queue \in Seq(EventType) /\ Len(event_queue) <= QueueSize
        /\ e \in EventType
    <3>1. dispatched + 1 \in 1..MaxEvents
      <4>1. dispatched' \in 0..MaxEvents /\ dispatched \in Nat /\ dispatched' = dispatched + 1
        <5>1. TypeInv' /\ dispatched' = dispatched + 1
          BY <1>4, PushType DEF PushEvent
        <5> QED BY <5>1 DEF TypeInv, TypeOK
      <4> QED BY <4>1
    <3> QED BY <3>1 DEF TypeInv, TypeOK, EventType
  <2> HIDE DEF e
  <2>5. \A i \in DOMAIN event_queue' : Covered(event_queue'[i])
    <3>1. /\ event_queue' \in Seq(EventType) /\ Len(event_queue') \in Nat \ {0}
          /\ event_queue'[Len(event_queue')] = e
          /\ \E k \in {0, 1} : \A i \in 1..Len(event_queue') - 1 :
               i + k \in 1..Len(event_queue) /\ event_queue'[i] = event_queue[i + k]
      <4> DEFINE q == Push(event_queue, e, QueueSize)
      <4>1. /\ q \in Seq(EventType) /\ Len(q) \in Nat \ {0} /\ q[Len(q)] = e
            /\ \E k \in {0, 1} : \A i \in 1..Len(q) - 1 :
                 i + k \in 1..Len(event_queue) /\ q[i] = event_queue[i + k]
        <5> QED BY <2>4, PushFacts, Zenon
      <4> QED BY <2>1, <4>1
    <3>2. \A i \in 1..Len(event_queue) : Covered(event_queue[i])
      BY <2>4 DEF KnownInv
    <3>3. \A i \in 1..Len(event_queue') - 1 : Covered(event_queue'[i])
      BY <3>1, <3>2
    <3>4. \A i \in 1..Len(event_queue') :
             i \in 1..Len(event_queue') - 1 \/ i = Len(event_queue')
      BY <3>1
    <3> QED BY <2>3, <3>1, <3>3, <3>4
  <2> QED BY <2>1, <2>2, <2>5
          DEF KnownInv, KnownHandlersRan, Covered, Ran, Has
<1>5. ASSUME NEW t \in Threads, PopEvent(t)
      PROVE  KnownInv'
  <2>1. UNCHANGED <<handlers, todo, log, finished>>
    BY <1>5 DEF PopEvent
  <2>2. CASE ~CanPop(event_queue)
    <3>1. UNCHANGED <<event, event_queue>> /\ at' = [at EXCEPT ![t] = "idle"]
      BY <1>5, <2>2 DEF PopEvent
    <3>2. \A u \in Threads : (at'[u] = "lookup" => at[u] = "lookup")
                             /\ (at'[u] = "run" => at[u] = "run")
      BY <3>1 DEF TypeInv, TypeOK
    <3> QED BY <2>1, <3>1, <3>2 DEF KnownInv, KnownHandlersRan, Covered, Ran, Has
  <2>3. CASE CanPop(event_queue)
    <3>1. /\ event' = [event EXCEPT ![t] = Head(event_queue)]
          /\ event_queue' = Tail(event_queue) /\ event_queue # <<>>
          /\ at' = [at EXCEPT ![t] = "lookup"]
      BY <1>5, <2>3 DEF PopEvent, CanPop, Front, Rest
    <3>2. event_queue \in Seq(EventType)
      BY DEF TypeInv, TypeOK
    <3>3. /\ Head(event_queue) = event_queue[1] /\ Tail(event_queue) \in Seq(EventType)
          /\ Len(event_queue) \in Nat \ {0}
          /\ Len(Tail(event_queue)) = Len(event_queue) - 1
          /\ \A i \in 1..Len(event_queue) - 1 : Tail(event_queue)[i] = event_queue[i + 1]
      BY <3>1, <3>2, TailFacts
    <3>4. \A i \in 1..Len(event_queue) : Covered(event_queue[i])
      BY <3>2 DEF KnownInv
    <3>5. Covered(Head(event_queue))
          /\ \A i \in DOMAIN event_queue' : Covered(event_queue'[i])
      BY <3>1, <3>3, <3>4
    <3>6. \A u \in Threads :
            /\ at'[u] = "run" => at[u] = "run" /\ event'[u] = event[u]
            /\ at'[u] = "lookup" => \/ at[u] = "lookup" /\ event'[u] = event[u]
                                    \/ event'[u] = Head(event_queue)
      BY <3>1 DEF TypeInv, TypeOK
    <3>7. \A u \in Threads : at'[u] = "lookup" => Covered(event'[u])
      BY <3>5, <3>6 DEF KnownInv
    <3>8. \A i \in DOMAIN event_queue' : Covered(event_queue[i])'
      BY <2>1, <3>5 DEF Covered, Has
    <3>9. \A u \in Threads : at'[u] = "lookup" => Covered(event[u])'
      BY <2>1, <3>7 DEF Covered, Has
    <3>10. \A u \in Threads : at'[u] = "run" =>
             \A i \in DOMAIN event'[u].known :
               \/ Has(todo'[u], event'[u].known[i])
               \/ Ran(event'[u].n, event'[u].known[i])
      BY <2>1, <3>6 DEF KnownInv
    <3> QED BY <2>1, <3>8, <3>9, <3>10 DEF KnownInv, KnownHandlersRan, Ran, Has
  <2> QED BY <2>2, <2>3
<1>6. ASSUME NEW t \in Threads, LookUpHandlers(t)
      PROVE  KnownInv'
  <2>1. /\ at[t] = "lookup" /\ at' = [at EXCEPT ![t] = "run"]
        /\ todo' = [todo EXCEPT ![t] = handlers[event[t].name]]
        /\ UNCHANGED <<event_queue, handlers, event, log, finished>>
    BY <1>6 DEF LookUpHandlers, Copies, history
  <2>2. /\ \A u \in Threads :
             /\ at'[u] = "lookup" => at[u] = "lookup"
             /\ at'[u] = "run" => u = t \/ (at[u] = "run" /\ todo'[u] = todo[u])
        /\ todo'[t] = handlers[event[t].name]
    <3>1. /\ todo \in [Threads -> Seq(1..MaxHandlers)]
          /\ at \in [Threads -> {"idle", "store", "compare", "other", "push",
                                 "pop", "lookup", "run"}]
      BY DEF TypeInv, TypeOK
    <3> QED BY <2>1, <3>1
  <2>3. Covered(event[t])
    BY <2>1 DEF KnownInv
  <2>4. \A u \in Threads : at'[u] = "run" =>
             \A i \in DOMAIN event[u].known :
               \/ Has(todo'[u], event[u].known[i])
               \/ Ran(event[u].n, event[u].known[i])
    BY <2>2, <2>3 DEF KnownInv, Covered
  <2> QED BY <2>1, <2>2, <2>4 DEF KnownInv, KnownHandlersRan, Covered, Ran, Has
<1>7. ASSUME NEW t \in Threads, RunHandler(t)
      PROVE  KnownInv'
  <2>1. at[t] = "run" /\ UNCHANGED <<event_queue, handlers>>
    BY <1>7 DEF RunHandler
  <2>2. CASE todo[t] # <<>>
    <3>1. /\ log' = Append(log, [n |-> event[t].n, handler |-> Head(todo[t])])
          /\ todo' = [todo EXCEPT ![t] = Tail(@)]
          /\ UNCHANGED <<at, event, finished>>
      BY <1>7, <2>2 DEF RunHandler
    <3>2. todo \in [Threads -> Seq(1..MaxHandlers)]
      BY DEF TypeInv, TypeOK
    <3>3. event[t].n \in 1..MaxEvents /\ Head(todo[t]) \in 1..MaxHandlers
      BY <2>1, <2>2, <3>2, TailFacts DEF TypeInv, Flow, EventType
    <3> DEFINE x == [n |-> event[t].n, handler |-> Head(todo[t])]
    <3>4. Has(log', x) /\ \A y : Has(log, y) => Has(log', y)
      <4>1. /\ log \in Seq([n : 1..MaxEvents, handler : 1..MaxHandlers])
            /\ x \in [n : 1..MaxEvents, handler : 1..MaxHandlers]
        BY <3>3 DEF TypeInv, TypeOK
      <4>2. log' = Append(log, x)
        BY <3>1
      <4> HIDE DEF x
      <4> QED BY <4>1, <4>2, HasAppend
    <3>5. \A h : Has(todo[t], h) => h = Head(todo[t]) \/ Has(Tail(todo[t]), h)
      BY <2>2, <3>2, HasHeadOrTail
    <3>6. todo'[t] = Tail(todo[t]) /\ \A u \in Threads \ {t} : todo'[u] = todo[u]
      BY <3>1, <3>2
    <3>7. ASSUME NEW u \in Threads, at[u] = "run", NEW i \in DOMAIN event[u].known
          PROVE  \/ Has(todo'[u], event[u].known[i])
                 \/ Has(log', [n |-> event[u].n, handler |-> event[u].known[i]])
      <4>1. \/ Has(todo[u], event[u].known[i])
            \/ Has(log, [n |-> event[u].n, handler |-> event[u].known[i]])
        BY <3>7 DEF KnownInv, Ran
      <4>2. CASE Has(log, [n |-> event[u].n, handler |-> event[u].known[i]])
        BY <3>4, <4>2
      <4>3. CASE Has(todo[u], event[u].known[i]) /\ u # t
        BY <3>6, <4>3
      <4>4. CASE Has(todo[u], event[u].known[i]) /\ u = t
        <5>1. CASE event[t].known[i] = Head(todo[t])
          BY <3>4, <4>4, <5>1
        <5>2. CASE Has(Tail(todo[t]), event[t].known[i])
          BY <3>6, <4>4, <5>2
        <5> QED BY <3>5, <4>4, <5>1, <5>2
      <4> QED BY <4>1, <4>2, <4>3, <4>4
    <3>8. KnownHandlersRan'
      BY <3>1, <3>4 DEF KnownInv, KnownHandlersRan, Has
    <3>9. /\ \A i \in DOMAIN event_queue' : Covered(event_queue[i])'
          /\ \A u \in Threads : at'[u] = "lookup" => Covered(event[u])'
      BY <2>1, <3>1 DEF KnownInv, Covered, Has
    <3>10. \A u \in Threads : at'[u] = "run" =>
             \A i \in DOMAIN event'[u].known :
               \/ Has(todo'[u], event'[u].known[i])
               \/ Has(log', [n |-> event'[u].n, handler |-> event'[u].known[i]])
      BY <3>1, <3>7
    <3> HIDE DEF x
    <3> QED BY <3>8, <3>9, <3>10 DEF KnownInv, Ran
  <2>3. CASE todo[t] = <<>>
    <3>1. /\ finished' = finished \cup {event[t]}
          /\ at' = [at EXCEPT ![t] = "pop"]
          /\ event' = [event EXCEPT ![t] = NoEvent]
          /\ UNCHANGED <<log, todo>>
      BY <1>7, <2>3 DEF RunHandler
    <3>2. \A u \in Threads :
            /\ at'[u] = "lookup" => at[u] = "lookup" /\ event'[u] = event[u]
            /\ at'[u] = "run" => at[u] = "run" /\ event'[u] = event[u]
      BY <2>1, <3>1 DEF TypeInv, TypeOK
    <3>3. \A i \in DOMAIN event[t].known : Ran(event[t].n, event[t].known[i])
      BY <2>1, <2>3 DEF KnownInv, Has
    <3>4. KnownHandlersRan'
      <4> SUFFICES ASSUME NEW e \in finished', NEW h \in DOMAIN e.known
                   PROVE  Has(log, [n |-> e.n, handler |-> e.known[h]])
        BY <3>1 DEF KnownHandlersRan, Has
      <4>1. CASE e \in finished
        BY <4>1 DEF KnownInv, KnownHandlersRan, Has
      <4>2. CASE e = event[t]
        BY <3>3, <4>2 DEF Ran
      <4> QED BY <3>1, <4>1, <4>2
    <3>5. \A u \in Threads : at'[u] = "run" =>
             \A i \in DOMAIN event'[u].known :
               \/ Has(todo[u], event'[u].known[i])
               \/ Ran(event'[u].n, event'[u].known[i])
      BY <3>2 DEF KnownInv
    <3>6. \A u \in Threads : at'[u] = "lookup" => Covered(event'[u])
      BY <3>2 DEF KnownInv
    <3> QED BY <2>1, <3>1, <3>4, <3>5, <3>6 DEF KnownInv, Covered, Has, Ran
  <2> QED BY <2>2, <2>3
<1> QED BY <1>1, <1>2, <1>3, <1>4, <1>5, <1>6, <1>7
        DEF Next, Dispatch, HandleEvents

(* Whatever threads there are, an event is done with only when every       *)
(* handler it was dispatched to has run for it: a handler is never removed, *)
(* and one that is not on the list a thread copied was registered later.   *)
THEOREM KnownHandlersRun == Spec => []KnownHandlersRan
<1>1. Init => KnownInv
  BY DEF Init, KnownInv, KnownHandlersRan
<1>2. KnownInv => KnownHandlersRan
  BY DEF KnownInv
<1> QED BY <1>1, <1>2, KnownStep, TypeInvariant, PTL DEF Spec

-----------------------------------------------------------------------------
(* Numbers that go up: events as they are dispatched, handlers as they are  *)
(* registered.                                                             *)
Increasing(list) == \A i, j \in DOMAIN list : i < j => list[i] < list[j]

HandlersInv ==
  \A name \in Names :
    /\ Increasing(handlers[name])
    /\ \A i \in DOMAIN handlers[name] : handlers[name][i] <= registered

QueueInv ==
  /\ \A i, j \in DOMAIN event_queue :
       i < j => event_queue[i].n < event_queue[j].n
  /\ \A i \in DOMAIN event_queue : event_queue[i].n <= dispatched

(* Every event that waits was dispatched after event n.                    *)
Waits(n) == n <= dispatched /\ \A i \in DOMAIN event_queue : n < event_queue[i].n

(* What is logged comes before what thread t is about to run.              *)
Before(entry, t) ==
  \/ entry.n < event[t].n
  \/ /\ entry.n = event[t].n
     /\ \A k \in DOMAIN todo[t] : entry.handler < todo[t][k]

HandledInv ==
  /\ \A t \in Threads :
       at[t] \in {"lookup", "run"} => t \in active["handle"] /\ Waits(event[t].n)
  /\ \A i \in DOMAIN log : Waits(log[i].n)
  /\ \A t \in Threads :
       /\ at[t] = "lookup" => \A i \in DOMAIN log : log[i].n < event[t].n
       /\ at[t] = "run" =>
            Increasing(todo[t]) /\ \A i \in DOMAIN log : Before(log[i], t)
  /\ HandledInOrder

(* The latch of the handling thread is not set in one step with its test:  *)
(* what follows holds until a second thread has got past it.               *)
OneHandler == \A t, u \in active["handle"] : t = u

OrderInv == HandlersInv /\ QueueInv /\ (OneHandler => HandledInv)

(* A list of numbers grows by a larger one.                                *)
LEMMA IncreasingAppend ==
  ASSUME NEW list \in Seq(Int), NEW m \in Int, NEW x \in Int, m < x,
         Increasing(list), \A i \in DOMAIN list : list[i] <= m
  PROVE  /\ Increasing(Append(list, x))
         /\ \A i \in DOMAIN Append(list, x) : Append(list, x)[i] <= x
<1>1. /\ DOMAIN list = 1..Len(list) /\ Len(list) \in Nat
      /\ DOMAIN Append(list, x) = 1..Len(list) + 1
      /\ \A i \in 1..Len(list) : Append(list, x)[i] = list[i] /\ list[i] \in Int
      /\ Append(list, x)[Len(list) + 1] = x
  BY AppendProperties
<1>2. \A i \in 1..Len(list) + 1 : i \in 1..Len(list) \/ i = Len(list) + 1
  BY <1>1
<1>3. \A i \in DOMAIN Append(list, x) : Append(list, x)[i] <= x
  BY <1>1, <1>2
<1>4. ASSUME NEW i \in DOMAIN Append(list, x), NEW j \in DOMAIN Append(list, x), i < j
      PROVE  Append(list, x)[i] < Append(list, x)[j]
  <2>1. i \in 1..Len(list)
    BY <1>1, <1>4
  <2>2. CASE j \in 1..Len(list)
    BY <1>1, <1>4, <2>1, <2>2 DEF Increasing
  <2>3. CASE j = Len(list) + 1
    BY <1>1, <2>1, <2>3
  <2> QED BY <1>1, <1>2, <2>2, <2>3
<1> QED BY <1>3, <1>4 DEF Increasing

(* What is left of a list that goes up goes up, above its head.            *)
LEMMA IncreasingTail ==
  ASSUME NEW list \in Seq(Int), list # <<>>, Increasing(list)
  PROVE  /\ Increasing(Tail(list))
         /\ \A i \in DOMAIN Tail(list) : Head(list) < Tail(list)[i]
<1>1. /\ Head(list) = list[1] /\ Len(list) \in Nat \ {0}
      /\ DOMAIN list = 1..Len(list)
      /\ DOMAIN Tail(list) = 1..Len(list) - 1
      /\ \A i \in 1..Len(list) - 1 : Tail(list)[i] = list[i + 1]
  BY TailFacts
<1>2. \A i \in 1..Len(list) - 1 : i + 1 \in 1..Len(list) /\ 1 < i + 1
  BY <1>1
<1>3. 1 \in 1..Len(list)
  BY <1>1
<1>4. \A i \in 1..Len(list) - 1 : list[1] < list[i + 1]
  BY <1>1, <1>2, <1>3 DEF Increasing
<1>5. \A i, j \in 1..Len(list) - 1 : i < j => list[i + 1] < list[j + 1]
  BY <1>1, <1>2 DEF Increasing
<1> QED BY <1>1, <1>4, <1>5 DEF Increasing

(* The handlers of an event: registering puts the newest one last.         *)
LEMMA HandlersStep ==
  ASSUME TypeInv, HandlersInv, [Next]_vars
  PROVE  HandlersInv'
<1>1. CASE UNCHANGED <<handlers, registered>>
  BY <1>1 DEF HandlersInv, Increasing
<1>2. ASSUME NEW t \in Threads, NEW name \in Names, RegisterHandler(t, name)
      PROVE  HandlersInv'
  <2>1. /\ handlers \in [Names -> Seq(1..MaxHandlers)] /\ registered \in Int
        /\ registered' = registered + 1
        /\ handlers' = [handlers EXCEPT ![name] = Append(handlers[name], registered + 1)]
    BY <1>2 DEF RegisterHandler, Registers, TypeInv, TypeOK
  <2>2. /\ Increasing(handlers[name])
        /\ \A i \in DOMAIN handlers[name] : handlers[name][i] <= registered
    BY DEF HandlersInv
  <2>3. handlers[name] \in Seq(Int)
    <3>1. handlers[name] \in Seq(1..MaxHandlers)
      BY <2>1
    <3> QED BY <3>1
  <2>4. /\ Increasing(handlers'[name])
        /\ \A i \in DOMAIN handlers'[name] : handlers'[name][i] <= registered'
    <3>1. registered + 1 \in Int /\ registered < registered + 1
      BY <2>1
    <3> QED BY <2>1, <2>2, <2>3, <3>1, IncreasingAppend
  <2>5. \A other \in Names \ {name} :
          /\ Increasing(handlers'[other])
          /\ \A i \in DOMAIN handlers'[other] : handlers'[other][i] <= registered'
    <3>1. ASSUME NEW other \in Names \ {name}
          PROVE  /\ Increasing(handlers'[other])
                 /\ \A i \in DOMAIN handlers'[other] : handlers'[other][i] <= registered'
      <4>1. handlers'[other] = handlers[other]
        BY <2>1
      <4>2. \A i \in DOMAIN handlers[other] : handlers[other][i] \in Int
        BY <2>1
      <4> QED BY <2>1, <4>1, <4>2 DEF HandlersInv
    <3> QED BY <3>1
  <2> QED BY <2>4, <2>5 DEF HandlersInv, Increasing
<1>3. CASE \A t \in Threads, name \in Names : ~RegisterHandler(t, name)
  BY <1>1, <1>3
     DEF Next, Dispatch, HandleEvents, Test, Store, Compare, CheckOther, Goes,
         PushEvent, PopEvent, LookUpHandlers, Copies, RunHandler, vars
<1> QED BY <1>2, <1>3

(* The events that wait, and those that were there before them.            *)
LEMMA QueuePush ==
  ASSUME TypeInv, QueueInv, NEW t \in Threads, NEW name \in Names,
         PushEvent(t, name)
  PROVE  QueueInv' /\ \A n \in Int : Waits(n) => Waits(n)'
<1> DEFINE e == [n |-> dispatched + 1, name |-> name, known |-> handlers[name]]
<1> DEFINE q == Push(event_queue, e, QueueSize)
<1>0. event_queue' = q
  BY DEF PushEvent
<1> HIDE DEF q
<1>1. /\ dispatched' = dispatched + 1 /\ dispatched \in Int
      /\ event_queue \in Seq(EventType) /\ Len(event_queue) <= QueueSize
      /\ QueueSize \in Nat \ {0}
  BY DEF PushEvent, TypeInv, TypeOK
<1>2. e.n = dispatched + 1
  OBVIOUS
<1>3. e \in EventType
  <2>1. TypeInv'
    BY PushType
  <2>2. dispatched + 1 \in 1..MaxEvents
    BY <1>1, <2>1 DEF TypeInv, TypeOK
  <2> QED BY <2>2 DEF TypeInv, TypeOK, EventType
<1> HIDE DEF e
<1>4. /\ q \in Seq(EventType) /\ Len(q) \in Nat \ {0} /\ q[Len(q)] = e
      /\ \E k \in {0, 1} : \A i \in 1..Len(q) - 1 :
           i + k \in 1..Len(event_queue) /\ q[i] = event_queue[i + k]
  <2>1. event_queue \in Seq(EventType) /\ Len(event_queue) <= QueueSize
    BY <1>1
  <2> QED BY <1>3, <2>1, PushFacts, Zenon DEF q
<1>5. DOMAIN event_queue = 1..Len(event_queue) /\ DOMAIN q = 1..Len(q)
      /\ \A i \in 1..Len(event_queue) : event_queue[i].n \in Int
  <2>1. DOMAIN event_queue = 1..Len(event_queue)
    BY <1>1
  <2>2. DOMAIN q = 1..Len(q)
    BY <1>4
  <2>3. \A i \in 1..Len(event_queue) : event_queue[i] \in EventType
    BY <1>1
  <2>4. \A f \in EventType : f.n \in Int
    BY DEF EventType
  <2> QED BY <2>1, <2>2, <2>3, <2>4, Zenon
<1>6. PICK k \in {0, 1} : \A i \in 1..Len(q) - 1 :
           i + k \in 1..Len(event_queue) /\ q[i] = event_queue[i + k]
  BY <1>4
<1>7. \A i \in 1..Len(q) : i \in 1..Len(q) - 1 \/ i = Len(q)
  BY <1>4
<1>8. \A i \in 1..Len(q) - 1 : q[i].n <= dispatched
  BY <1>5, <1>6 DEF QueueInv
<1>9. ASSUME NEW i \in 1..Len(q) - 1, NEW j \in 1..Len(q) - 1, i < j
      PROVE  q[i].n < q[j].n
  <2>1. /\ i + k \in 1..Len(event_queue) /\ q[i] = event_queue[i + k]
        /\ j + k \in 1..Len(event_queue) /\ q[j] = event_queue[j + k]
    BY <1>6
  <2>2. i + k < j + k
    <3>1. i \in Int /\ j \in Int /\ k \in Int
      BY <1>4
    <3> QED BY <1>9, <3>1
  <2>3. \A a, b \in 1..Len(event_queue) :
          a < b => event_queue[a].n < event_queue[b].n
    BY <1>5 DEF QueueInv
  <2> QED BY <2>1, <2>2, <2>3, Zenon
<1>10. \A i \in 1..Len(q) - 1 : q[i].n \in Int
  BY <1>5, <1>6
<1>11. ASSUME NEW i \in 1..Len(q), NEW j \in 1..Len(q), i < j
       PROVE  q[i].n < q[j].n
  <2>1. i \in 1..Len(q) - 1
    BY <1>4, <1>11
  <2>2. CASE j \in 1..Len(q) - 1
    BY <1>9, <1>11, <2>1, <2>2
  <2>3. CASE j = Len(q)
    <3>1. q[j].n = dispatched + 1
      BY <1>2, <1>4, <2>3
    <3>2. q[i].n <= dispatched /\ q[i].n \in Int
      BY <1>8, <1>10, <2>1
    <3> QED BY <1>1, <3>1, <3>2
  <2> QED BY <1>7, <2>2, <2>3
<1>12. \A i \in 1..Len(q) : q[i].n <= dispatched + 1
  <2>1. ASSUME NEW i \in 1..Len(q) - 1
        PROVE  q[i].n <= dispatched + 1
    <3>1. q[i].n \in Int /\ q[i].n <= dispatched
      BY <1>8, <1>10
    <3> QED BY <1>1, <3>1
  <2>2. q[Len(q)].n = dispatched + 1
    BY <1>2, <1>4
  <2> QED BY <1>1, <1>7, <2>1, <2>2
<1>13. QueueInv'
  BY <1>0, <1>1, <1>5, <1>11, <1>12 DEF QueueInv
<1>14. ASSUME NEW n \in Int, Waits(n)
       PROVE  Waits(n)'
  <2>1. n <= dispatched /\ \A i \in 1..Len(event_queue) : n < event_queue[i].n
    BY <1>5, <1>14 DEF Waits
  <2>2. \A i \in 1..Len(q) - 1 : n < q[i].n
    BY <1>6, <2>1
  <2>3. n < q[Len(q)].n
    BY <1>1, <1>2, <1>4, <2>1
  <2>4. \A i \in 1..Len(q) : n < q[i].n
    BY <1>7, <2>2, <2>3
  <2> QED BY <1>0, <1>1, <1>5, <2>1, <2>4 DEF Waits
<1> QED BY <1>13, <1>14

(* While one thread handles, no other holds an event.                      *)
LEMMA OnlyHandler ==
  ASSUME HandledInv, OneHandler, NEW t \in active["handle"]
  PROVE  \A u \in Threads \ {t} : at[u] \notin {"lookup", "run"}
BY DEF HandledInv, OneHandler

(* Threads that got past the checks stay on record.                        *)
LEMMA ActiveGrows ==
  ASSUME TypeInv, [Next]_vars
  PROVE  active["handle"] \subseteq active'["handle"]
<1>1. \/ UNCHANGED active
      \/ \E t \in Threads, r \in {"dispatch", "handle"} :
           active' = [active EXCEPT ![r] = @ \cup {t}]
  BY DEF Next, Dispatch, HandleEvents, Test, Store, Compare, CheckOther, Goes,
         PushEvent, PopEvent, LookUpHandlers, Copies, RunHandler,
         RegisterHandler, Registers, history, vars
<1>2. active \in [Roles -> SUBSET Threads]
  BY DEF TypeInv, TypeOK
<1> QED BY <1>1, <1>2 DEF Roles

(* Taking the oldest event: it is newer than all that was handled.         *)
LEMMA HandledPop ==
  ASSUME TypeInv, QueueInv, HandledInv, OneHandler, NEW t \in Threads,
         PopEvent(t), OneHandler', CanPop(event_queue)
  PROVE  QueueInv' /\ HandledInv'
<1> DEFINE q == event_queue
<1>1. /\ event' = [event EXCEPT ![t] = Head(q)]
      /\ q' = Tail(q) /\ q # <<>>
      /\ at[t] = "pop" /\ at' = [at EXCEPT ![t] = "lookup"]
      /\ active' = [active EXCEPT !["handle"] = @ \cup {t}]
      /\ UNCHANGED <<todo, dispatched, log>>
  BY DEF PopEvent, CanPop, Front, Rest
<1>2. /\ q \in Seq(EventType) /\ active \in [Roles -> SUBSET Threads]
      /\ at \in [Threads -> {"idle", "store", "compare", "other", "push",
                             "pop", "lookup", "run"}]
      /\ event \in [Threads -> EventType \cup {NoEvent}]
      /\ log \in Seq([n : 1..MaxEvents, handler : 1..MaxHandlers])
  BY DEF TypeInv, TypeOK
<1>3. /\ Head(q) = q[1] /\ Len(q) \in Nat \ {0}
      /\ DOMAIN q = 1..Len(q) /\ DOMAIN Tail(q) = 1..Len(q) - 1
      /\ \A i \in 1..Len(q) - 1 : Tail(q)[i] = q[i + 1]
  <2>1. /\ Head(q) = q[1] /\ Len(q) \in Nat \ {0} /\ Tail(q) \in Seq(EventType)
        /\ Len(Tail(q)) = Len(q) - 1
        /\ \A i \in 1..Len(q) - 1 : Tail(q)[i] = q[i + 1]
    BY <1>1, <1>2, TailFacts
  <2> QED BY <1>2, <2>1
<1>4. /\ \A i, j \in 1..Len(q) : i < j => q[i].n < q[j].n
      /\ \A i \in 1..Len(q) : q[i].n <= dispatched
  BY <1>3 DEF QueueInv
<1>5. \A i \in 1..Len(q) - 1 : i + 1 \in 1..Len(q) /\ 1 < i + 1 /\ 1 \in 1..Len(q)
  BY <1>3
<1>6. \A i \in 1..Len(q) - 1 : Head(q).n < Tail(q)[i].n
  BY <1>3, <1>4, <1>5
<1>7. QueueInv'
  <2>1. \A i, j \in 1..Len(q) - 1 : i < j => Tail(q)[i].n < Tail(q)[j].n
    BY <1>3, <1>4, <1>5
  <2>2. \A i \in 1..Len(q) - 1 : Tail(q)[i].n <= dispatched
    BY <1>3, <1>4, <1>5
  <2> QED BY <1>1, <1>3, <2>1, <2>2 DEF QueueInv
<1>8. active'["handle"] = active["handle"] \cup {t}
  BY <1>1, <1>2 DEF Roles
<1>9. \A u \in Threads : at'[u] \in {"lookup", "run"} => u = t
  <2>1. \A u \in Threads : at[u] \in {"lookup", "run"} => u = t
    BY <1>8 DEF HandledInv, OneHandler
  <2> QED BY <1>1, <1>2, <2>1
<1>10. at'[t] = "lookup" /\ event'[t] = Head(q)
  BY <1>1, <1>2
<1>11. Head(q).n <= dispatched
  BY <1>3, <1>4, <1>5
<1>12. \A i \in DOMAIN log :
         /\ log[i].n <= dispatched /\ log[i].n < Head(q).n
         /\ \A j \in 1..Len(q) - 1 : log[i].n < Tail(q)[j].n
  <2>1. \A i \in DOMAIN log :
          log[i].n <= dispatched /\ \A j \in 1..Len(q) : log[i].n < q[j].n
    BY <1>3 DEF HandledInv, Waits
  <2> QED BY <1>3, <1>5, <2>1
<1>13. \A u \in Threads : at'[u] \in {"lookup", "run"} =>
         /\ u \in active'["handle"] /\ event'[u].n <= dispatched'
         /\ \A i \in DOMAIN q' : event'[u].n < q'[i].n
  BY <1>1, <1>3, <1>6, <1>8, <1>9, <1>10, <1>11
<1>14. \A i \in DOMAIN log' :
         log'[i].n <= dispatched' /\ \A j \in DOMAIN q' : log'[i].n < q'[j].n
  BY <1>1, <1>3, <1>12
<1>15. \A u \in Threads :
         /\ at'[u] # "run"
         /\ at'[u] = "lookup" => \A i \in DOMAIN log' : log'[i].n < event'[u].n
  BY <1>1, <1>9, <1>10, <1>12
<1>16. HandledInOrder'
  BY <1>1 DEF HandledInv, HandledInOrder
<1> QED BY <1>7, <1>13, <1>14, <1>15, <1>16 DEF HandledInv, Waits

(* Copying the handlers of an event.                                       *)
LEMMA HandledLookUp ==
  ASSUME TypeInv, HandlersInv, HandledInv, OneHandler, NEW t \in Threads,
         LookUpHandlers(t)
  PROVE  HandledInv'
<1>1. /\ at[t] = "lookup" /\ at' = [at EXCEPT ![t] = "run"]
      /\ todo' = [todo EXCEPT ![t] = handlers[event[t].name]]
      /\ UNCHANGED <<event_queue, event, dispatched, active, log>>
  BY DEF LookUpHandlers, Copies, history
<1>2. /\ at \in [Threads -> {"idle", "store", "compare", "other", "push",
                             "pop", "lookup", "run"}]
      /\ todo \in [Threads -> Seq(1..MaxHandlers)]
      /\ event[t].name \in Names
  BY <1>1 DEF TypeInv, TypeOK, Flow, EventType
<1>3. t \in active["handle"]
  BY <1>1 DEF HandledInv
<1>4. \A u \in Threads \ {t} : at[u] \notin {"lookup", "run"}
  BY <1>3, OnlyHandler
<1>5. /\ at'[t] = "run" /\ todo'[t] = handlers[event[t].name]
      /\ \A u \in Threads \ {t} : at'[u] \notin {"lookup", "run"}
  BY <1>1, <1>2, <1>4
<1>6. Increasing(todo'[t])
  BY <1>2, <1>5 DEF HandlersInv
<1>7. \A i \in DOMAIN log : log[i].n < event[t].n
  BY <1>1 DEF HandledInv
<1>8. \A u \in Threads :
        at'[u] \in {"lookup", "run"} => u \in active["handle"] /\ Waits(event[u].n)
  BY <1>1, <1>5 DEF HandledInv
<1> QED BY <1>1, <1>5, <1>6, <1>7, <1>8
        DEF HandledInv, Before, Waits, Increasing, HandledInOrder

(* Running the next handler of an event.                                   *)
LEMMA HandledRun ==
  ASSUME TypeInv, HandledInv, OneHandler, NEW t \in Threads, RunHandler(t),
         todo[t] # <<>>
  PROVE  HandledInv'
<1> DEFINE x == [n |-> event[t].n, handler |-> Head(todo[t])]
<1>1. /\ at[t] = "run" /\ log' = Append(log, x)
      /\ todo' = [todo EXCEPT ![t] = Tail(@)]
      /\ UNCHANGED <<at, event_queue, event, dispatched, active>>
  BY DEF RunHandler
<1>2. /\ todo \in [Threads -> Seq(1..MaxHandlers)] /\ event[t].n \in 1..MaxEvents
      /\ log \in Seq([n : 1..MaxEvents, handler : 1..MaxHandlers])
  BY <1>1 DEF TypeInv, TypeOK, Flow, EventType
<1>3. /\ Head(todo[t]) \in 1..MaxHandlers /\ Head(todo[t]) = todo[t][1]
      /\ Len(todo[t]) \in Nat \ {0} /\ DOMAIN todo[t] = 1..Len(todo[t])
      /\ DOMAIN Tail(todo[t]) = 1..Len(todo[t]) - 1
      /\ \A k \in 1..Len(todo[t]) - 1 : Tail(todo[t])[k] = todo[t][k + 1]
  <2>1. /\ Head(todo[t]) \in 1..MaxHandlers /\ Head(todo[t]) = todo[t][1]
        /\ Tail(todo[t]) \in Seq(1..MaxHandlers)
        /\ Len(todo[t]) \in Nat \ {0} /\ Len(Tail(todo[t])) = Len(todo[t]) - 1
        /\ \A k \in 1..Len(todo[t]) - 1 : Tail(todo[t])[k] = todo[t][k + 1]
    BY <1>2, TailFacts
  <2>2. todo[t] \in Seq(1..MaxHandlers)
    BY <1>2
  <2> QED BY <2>1, <2>2
<1>4. /\ Increasing(todo[t]) /\ t \in active["handle"] /\ Waits(event[t].n)
      /\ \A i \in DOMAIN log : Before(log[i], t)
  BY <1>1 DEF HandledInv
<1>5. \A u \in Threads \ {t} : at'[u] \notin {"lookup", "run"}
  BY <1>1, <1>4, OnlyHandler
<1>6. todo'[t] = Tail(todo[t]) /\ at'[t] = "run"
  BY <1>1, <1>2
<1>7. /\ Increasing(Tail(todo[t]))
      /\ \A k \in DOMAIN Tail(todo[t]) : Head(todo[t]) < Tail(todo[t])[k]
  <2>1. todo[t] \in Seq(Int)
    <3>1. todo[t] \in Seq(1..MaxHandlers)
      BY <1>2
    <3> QED BY <3>1
  <2> QED BY <1>4, <2>1, IncreasingTail
<1>8. x.n = event[t].n /\ x.handler = Head(todo[t])
      /\ x \in [n : 1..MaxEvents, handler : 1..MaxHandlers]
  BY <1>2, <1>3
<1> HIDE DEF x
<1>9. /\ DOMAIN log = 1..Len(log) /\ Len(log) \in Nat
      /\ DOMAIN log' = 1..Len(log) + 1
      /\ \A i \in 1..Len(log) : log'[i] = log[i]
      /\ log'[Len(log) + 1] = x
  BY <1>1, <1>2, <1>8, AppendProperties
<1>10. \A i \in 1..Len(log) + 1 : i \in 1..Len(log) \/ i = Len(log) + 1
  BY <1>9
<1>11. \A i \in DOMAIN log' :
         /\ log'[i].n <= dispatched
         /\ \A j \in DOMAIN event_queue : log'[i].n < event_queue[j].n
  BY <1>4, <1>8, <1>9, <1>10 DEF HandledInv, Waits
<1>12. \A i \in DOMAIN log' :
         \/ log'[i].n < event[t].n
         \/ /\ log'[i].n = event[t].n
            /\ \A k \in DOMAIN Tail(todo[t]) : log'[i].handler < Tail(todo[t])[k]
  <2>1. ASSUME NEW i \in 1..Len(log)
        PROVE  \/ log[i].n < event[t].n
               \/ /\ log[i].n = event[t].n
                  /\ \A k \in DOMAIN Tail(todo[t]) : log[i].handler < Tail(todo[t])[k]
    <3>1. \A k \in DOMAIN Tail(todo[t]) :
            k + 1 \in DOMAIN todo[t] /\ Tail(todo[t])[k] = todo[t][k + 1]
      BY <1>3
    <3>2. Before(log[i], t)
      BY <1>4, <1>9
    <3> QED BY <3>1, <3>2 DEF Before
  <2> QED BY <1>7, <1>8, <1>9, <1>10, <2>1
<1>13. HandledInOrder'
  <2> SUFFICES ASSUME NEW i \in 1..Len(log) + 1, NEW j \in 1..Len(log) + 1, i < j
               PROVE  \/ log'[i].n < log'[j].n
                      \/ log'[i].n = log'[j].n /\ log'[i].handler < log'[j].handler
    BY <1>9 DEF HandledInOrder
  <2>1. i \in 1..Len(log)
    BY <1>9
  <2>2. CASE j \in 1..Len(log)
    BY <1>9, <2>1, <2>2 DEF HandledInv, HandledInOrder
  <2>3. CASE j = Len(log) + 1
    <3>1. Before(log[i], t) /\ 1 \in DOMAIN todo[t]
      BY <1>3, <1>4, <1>9, <2>1
    <3>2. log'[i] = log[i] /\ log'[j] = x
      BY <1>9, <2>1, <2>3
    <3> QED BY <1>3, <1>8, <3>1, <3>2 DEF Before
  <2> QED BY <1>10, <2>2, <2>3
<1>14. \A u \in Threads : at'[u] \in {"lookup", "run"} =>
         u \in active'["handle"] /\ Waits(event[u].n)'
  BY <1>1, <1>4, <1>5 DEF Waits
<1>15. \A i \in DOMAIN log' : Waits(log[i].n)'
  BY <1>1, <1>11 DEF Waits
<1>16. \A u \in Threads : at'[u] # "lookup" /\ (at'[u] = "run" => u = t)
  BY <1>5, <1>6
<1>17. Increasing(todo'[t]) /\ \A i \in DOMAIN log' : Before(log[i], t)'
  BY <1>1, <1>6, <1>7, <1>12 DEF Before
<1> QED BY <1>13, <1>14, <1>15, <1>16, <1>17 DEF HandledInv, Increasing

(* Every step keeps the order, while one thread handles.                   *)
LEMMA OrderStep ==
  ASSUME TypeInv, OrderInv, [Next]_vars
  PROVE  OrderInv'
<1>1. HandlersInv' /\ (OneHandler' => OneHandler)
  BY HandlersStep, ActiveGrows DEF OrderInv, OneHandler
<1>2. SUFFICES QueueInv' /\ (OneHandler /\ OneHandler' /\ HandledInv => HandledInv')
  BY <1>1 DEF OrderInv
<1>3. HandlersInv /\ QueueInv
  BY DEF OrderInv
<1>4. CASE UNCHANGED vars
  BY <1>3, <1>4 DEF vars, roleVars, workVars, history, QueueInv, HandledInv,
              HandledInOrder, Waits, Before, Increasing
<1>5. ASSUME NEW t \in Threads,
             \/ Test(t, "dispatch") \/ Test(t, "handle")
             \/ Store(t) \/ Compare(t) \/ CheckOther(t)
      PROVE  QueueInv' /\ (HandledInv => HandledInv')
  BY <1>3, <1>5, ChecksHandleNothing
     DEF QueueInv, HandledInv, HandledInOrder, Waits, Before, Increasing
<1>6. ASSUME NEW t \in Threads, NEW name \in Names, RegisterHandler(t, name)
      PROVE  QueueInv' /\ (HandledInv => HandledInv')
  BY <1>3, <1>6 DEF RegisterHandler, Registers, roleVars, workVars, history,
                QueueInv, HandledInv, HandledInOrder, Waits, Before, Increasing
<1>7. ASSUME NEW t \in Threads, NEW name \in Names, PushEvent(t, name)
      PROVE  QueueInv' /\ (HandledInv => HandledInv')
  <2>1. QueueInv' /\ \A n \in Int : Waits(n) => Waits(n)'
    BY <1>3, <1>7, QueuePush
  <2>2. /\ at[t] = "push" /\ at' = [at EXCEPT ![t] = "idle"]
        /\ active'["handle"] = active["handle"]
        /\ UNCHANGED <<event, todo, log>>
    BY <1>7 DEF PushEvent, workVars, TypeInv, TypeOK, Roles
  <2>3. \A u \in Threads : /\ at'[u] = "lookup" => at[u] = "lookup"
                           /\ at'[u] = "run" => at[u] = "run"
    BY <2>2 DEF TypeInv, TypeOK
  <2>4. /\ \A u \in Threads : at[u] \in {"lookup", "run"} => event[u].n \in Int
        /\ \A i \in DOMAIN log : log[i].n \in Int
    <3>1. \A u \in Threads : at[u] \in {"lookup", "run"} => event[u] \in EventType
      BY DEF TypeInv, Flow
    <3>2. log \in Seq([n : 1..MaxEvents, handler : 1..MaxHandlers])
      BY DEF TypeInv, TypeOK
    <3> DEFINE Entries == [n : 1..MaxEvents, handler : 1..MaxHandlers]
    <3>3. \A entry \in Entries : entry.n \in Int
      OBVIOUS
    <3>4. log \in Seq(Entries)
      BY <3>2
    <3> HIDE DEF Entries
    <3>5. \A i \in DOMAIN log : log[i] \in Entries
      BY <3>4, EventsOfQueue
    <3> QED BY <3>1, <3>3, <3>5 DEF EventType
  <2>5. ASSUME HandledInv
        PROVE  /\ \A u \in Threads : at'[u] \in {"lookup", "run"} => Waits(event[u].n)'
               /\ \A i \in DOMAIN log' : Waits(log[i].n)'
    <3>1. \A n \in Int : Waits(n) =>
            n <= dispatched' /\ \A i \in DOMAIN event_queue' : n < event_queue'[i].n
      BY <2>1 DEF Waits
    <3>2. \A u \in Threads : at[u] \in {"lookup", "run"} => Waits(event[u].n)
      BY <2>5 DEF HandledInv
    <3>3. \A i \in DOMAIN log : Waits(log[i].n)
      BY <2>5 DEF HandledInv
    <3>4. \A u \in Threads : at'[u] \in {"lookup", "run"} => Waits(event[u].n)'
      BY <2>2, <2>3, <2>4, <3>1, <3>2 DEF Waits
    <3>5. \A i \in DOMAIN log' : Waits(log[i].n)'
      BY <2>2, <2>4, <3>1, <3>3 DEF Waits
    <3> QED BY <3>4, <3>5
  <2> QED BY <2>1, <2>2, <2>3, <2>5
          DEF HandledInv, HandledInOrder, Before, Increasing
<1>8. ASSUME NEW t \in Threads, PopEvent(t)
      PROVE  QueueInv' /\ (OneHandler /\ OneHandler' /\ HandledInv => HandledInv')
  <2>1. CASE CanPop(event_queue)
    <3>1. QueueInv'
      <4>1. /\ event_queue' = Tail(event_queue) /\ event_queue # <<>>
            /\ event_queue \in Seq(EventType) /\ UNCHANGED dispatched
        BY <1>8, <2>1 DEF PopEvent, CanPop, Rest, TypeInv, TypeOK
      <4>2. /\ Len(event_queue) \in Nat \ {0} /\ Tail(event_queue) \in Seq(EventType)
            /\ Len(Tail(event_queue)) = Len(event_queue) - 1
            /\ \A i \in 1..Len(event_queue) - 1 :
                 Tail(event_queue)[i] = event_queue[i + 1]
        BY <4>1, TailFacts
      <4>3. \A i \in 1..Len(event_queue) - 1 : i + 1 \in 1..Len(event_queue)
        BY <4>2
      <4>4. /\ DOMAIN Tail(event_queue) = 1..Len(event_queue) - 1
            /\ DOMAIN event_queue = 1..Len(event_queue)
        BY <4>1, <4>2
      <4> QED BY <1>3, <4>1, <4>2, <4>3, <4>4 DEF QueueInv
    <3> QED BY <1>3, <1>8, <2>1, <3>1, HandledPop
  <2>2. CASE ~CanPop(event_queue)
    <3>1. /\ at' = [at EXCEPT ![t] = "idle"]
          /\ UNCHANGED <<event, event_queue, todo, dispatched, log>>
      BY <1>8, <2>2 DEF PopEvent
    <3>2. \A u \in Threads : /\ at'[u] = "lookup" => at[u] = "lookup"
                             /\ at'[u] = "run" => at[u] = "run"
      BY <3>1 DEF TypeInv, TypeOK
    <3> QED BY <1>3, <3>1, <3>2, ActiveGrows
            DEF QueueInv, HandledInv, HandledInOrder, Waits, Before, Increasing
  <2> QED BY <2>1, <2>2
<1>9. ASSUME NEW t \in Threads, LookUpHandlers(t)
      PROVE  QueueInv' /\ (OneHandler /\ HandledInv => HandledInv')
  <2>1. UNCHANGED <<event_queue, dispatched>>
    BY <1>9 DEF LookUpHandlers, Copies, history
  <2> QED BY <1>3, <1>9, <2>1, HandledLookUp DEF QueueInv
<1>10. ASSUME NEW t \in Threads, RunHandler(t)
       PROVE  QueueInv' /\ (OneHandler /\ HandledInv => HandledInv')
  <2>1. UNCHANGED <<event_queue, dispatched, active>> /\ at[t] = "run"
    BY <1>10 DEF RunHandler
  <2>2. CASE todo[t] # <<>>
    BY <1>3, <1>10, <2>1, <2>2, HandledRun DEF QueueInv
  <2>3. CASE todo[t] = <<>>
    <3>1. /\ at' = [at EXCEPT ![t] = "pop"]
          /\ event' = [event EXCEPT ![t] = NoEvent] /\ UNCHANGED <<log, todo>>
      BY <1>10, <2>3 DEF RunHandler
    <3>2. \A u \in Threads :
            /\ at'[u] = "lookup" => at[u] = "lookup" /\ event'[u] = event[u]
            /\ at'[u] = "run" => at[u] = "run" /\ event'[u] = event[u]
      BY <2>1, <3>1 DEF TypeInv, TypeOK
    <3> QED BY <1>3, <2>1, <3>1, <3>2
            DEF QueueInv, HandledInv, HandledInOrder, Waits, Before, Increasing
  <2> QED BY <2>2, <2>3
<1> QED BY <1>4, <1>5, <1>6, <1>7, <1>8, <1>9, <1>10
        DEF Next, Dispatch, HandleEvents

(* As long as one thread handles events, whatever the others dispatch and  *)
(* register, and whoever else tries to handle.                             *)
THEOREM OrderInvariant == Spec => []OrderInv
<1>1. Init => OrderInv
  BY DEF Init, OrderInv, HandlersInv, QueueInv, HandledInv, HandledInOrder,
         Increasing
<1> QED BY <1>1, OrderStep, TypeInvariant, PTL DEF Spec

(* The use the class is made for: one thread calls HandleEvents.  Handlers *)
(* then see events in the order of Dispatch, each event once, and in the   *)
(* order they were registered in.                                          *)
THEOREM EventsInOrder ==
  ASSUME \A t, u \in Consumers : t = u
  PROVE  Spec => []HandledInOrder
<1> DEFINE Handlers == active["handle"] \subseteq Consumers
<1>1. Init => Handlers
  BY DEF Init, Roles
<1>2. TypeInv /\ Handlers /\ [Next]_vars => Handlers'
  <2> SUFFICES ASSUME TypeInv, Handlers, [Next]_vars PROVE Handlers'
    OBVIOUS
  <2>1. \/ UNCHANGED active
        \/ active' = [active EXCEPT !["dispatch"] = active'["dispatch"]]
        \/ \E t \in Threads : /\ at[t] = "pop"
                              /\ active' = [active EXCEPT !["handle"] = @ \cup {t}]
    BY DEF Next, Dispatch, HandleEvents, Test, Store, Compare, CheckOther, Goes,
           PushEvent, PopEvent, LookUpHandlers, Copies, RunHandler,
           RegisterHandler, Registers, history, vars, TypeInv, TypeOK, Roles
  <2>2. \A t \in Threads : at[t] = "pop" => t \in Consumers
    BY DEF TypeInv, Flow
  <2>3. active \in [Roles -> SUBSET Threads]
    BY DEF TypeInv, TypeOK
  <2> QED BY <2>1, <2>2, <2>3 DEF Roles
<1>3. Handlers /\ OrderInv => HandledInOrder
  BY DEF OrderInv, OneHandler, HandledInv
<1> QED BY <1>1, <1>2, <1>3, TypeInvariant, OrderInvariant, PTL DEF Spec
=============================================================================
