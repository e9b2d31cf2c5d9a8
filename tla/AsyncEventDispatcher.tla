------------------------ MODULE AsyncEventDispatcher -------------------------
(***************************************************************************)
(* AsyncEventDispatcher of src/common/event: one thread dispatches events  *)
(* into a queue, another one handles them, any thread registers handlers.  *)
(* Which thread has which role is latched in two atomics by the first      *)
(* calls; every load and store of them is a step of its own.  Dispatch and *)
(* HandleEvents open with the same code, here Test, Store, Compare and     *)
(* CheckOther; a call that throws returns to its caller.                   *)
(***************************************************************************)
EXTENDS Integers, FiniteSets, Sequences, ThreadSafeQueue

CONSTANTS Dispatchers, Consumers, Registrars, \* threads that make each call
          NoThread,    \* std::thread::id()
          Names,       \* event names
          QueueSize,   \* N of the queue (64 in the code)
          MaxEvents,   \* bound: calls of Dispatch that succeed
          MaxHandlers  \* bound: calls of RegisterHandler

Threads == Dispatchers \cup Consumers \cup Registrars

ASSUME DispatcherAssumption ==
  /\ IsFiniteSet(Threads) /\ NoThread \notin Threads
  /\ QueueSize \in Nat \ {0} /\ MaxEvents \in Nat /\ MaxHandlers \in Nat

VARIABLES
  id,          \* dispatch_thread_id_ and handle_events_thread_id_
  at, role,    \* where each thread is, and in which of the two calls
  event_queue, \* event_queue_
  handlers,    \* handlers_, handlers numbered as they are registered
  registered,  \* how many handlers there are
  event, todo, \* what a thread in HandleEvents is handling
  dispatched,  \* how many events were pushed, which numbers them
  active,      \* history: the threads that got past the checks of a role
  log,         \* history: the runs of handlers
  finished     \* history: events HandleEvents is done with

roleVars == <<id, at, role>>
workVars == <<event, todo>>
history == <<dispatched, active, log, finished>>
vars == <<roleVars, event_queue, handlers, registered, workVars, history>>

Roles == {"dispatch", "handle"}

Other == [dispatch |-> "handle", handle |-> "dispatch"]

NoEvent == [n |-> 0]

Init ==
  /\ id = [r \in Roles |-> NoThread]
  /\ at = [t \in Threads |-> "idle"] /\ role = [t \in Threads |-> "dispatch"]
  /\ event_queue = <<>>
  /\ handlers = [name \in Names |-> <<>>] /\ registered = 0
  /\ event = [t \in Threads |-> NoEvent] /\ todo = [t \in Threads |-> <<>>]
  /\ dispatched = 0 /\ active = [r \in Roles |-> {}]
  /\ log = <<>> /\ finished = {}

-----------------------------------------------------------------------------
(* RegisterHandler, at any time, from a running handler too: HandleEvents  *)
(* does not hold handler_mutex_ then.                                      *)
Registers(t, name, list) ==
  /\ t \in Registrars /\ at[t] \in {"idle", "run"}
  /\ registered < MaxHandlers
  /\ registered' = registered + 1
  /\ handlers' = [handlers EXCEPT ![name] = list]
  /\ UNCHANGED <<roleVars, event_queue, workVars, history>>

(* A mutation: a new handler comes first.                                  *)
RegisterAtFront(t, name) ==
  Registers(t, name, <<registered + 1>> \o handlers[name])

RegisterHandler(t, name) ==
  Registers(t, name, Append(handlers[name], registered + 1))

-----------------------------------------------------------------------------
(* The two checks.                                                         *)
Goes(t, pc) ==
  /\ at' = [at EXCEPT ![t] = pc]
  /\ UNCHANGED <<event_queue, handlers, registered, workVars, history>>

Dispatching == {t \in Threads : at[t] # "idle" /\ role[t] = "dispatch"}

(* The call begins: has this role been taken?                              *)
Test(t, r) ==
  /\ at[t] = "idle"
  /\ \/ r = "dispatch" /\ t \in Dispatchers
        /\ dispatched + Cardinality(Dispatching) < MaxEvents
     \/ r = "handle" /\ t \in Consumers
  /\ Goes(t, IF id[r] = NoThread THEN "store" ELSE "compare")
  /\ role' = [role EXCEPT ![t] = r]
  /\ UNCHANGED id

Store(t) ==
  /\ at[t] = "store"
  /\ id' = [id EXCEPT ![role[t]] = t]
  /\ Goes(t, "other")
  /\ UNCHANGED role

Compare(t) ==
  /\ at[t] = "compare"
  /\ Goes(t, IF id[role[t]] = t THEN "other" ELSE "idle")
  /\ UNCHANGED <<id, role>>

Work(r) == IF r = "dispatch" THEN "push" ELSE "pop"

(* A mutation: any thread in the other role makes the call fail.           *)
CheckOtherFree(t) ==
  /\ at[t] = "other"
  /\ Goes(t, IF id[Other[role[t]]] # NoThread THEN "idle" ELSE Work(role[t]))
  /\ UNCHANGED <<id, role>>

CheckOther(t) ==
  /\ at[t] = "other"
  /\ Goes(t, IF id[Other[role[t]]] = t THEN "idle" ELSE Work(role[t]))
  /\ UNCHANGED <<id, role>>

-----------------------------------------------------------------------------
(* The end of Dispatch.  "known" is history: who was to hear of the event. *)
PushEvent(t, name) ==
  /\ at[t] = "push"
  /\ event_queue' =
       Push(event_queue,
            [n |-> dispatched + 1, name |-> name, known |-> handlers[name]],
            QueueSize)
  /\ dispatched' = dispatched + 1
  /\ active' = [active EXCEPT !["dispatch"] = @ \cup {t}]
  /\ at' = [at EXCEPT ![t] = "idle"]
  /\ UNCHANGED <<id, role, handlers, registered, workVars, log, finished>>

(* The loop of HandleEvents: take an event, copy its handlers under the    *)
(* lock, run the copy without it.                                          *)
PopEvent(t) ==
  /\ at[t] = "pop"
  /\ active' = [active EXCEPT !["handle"] = @ \cup {t}]
  /\ \/ /\ CanPop(event_queue)
        /\ event' = [event EXCEPT ![t] = Front(event_queue)]
        /\ event_queue' = Rest(event_queue)
        /\ at' = [at EXCEPT ![t] = "lookup"]
     \/ /\ ~CanPop(event_queue)
        /\ at' = [at EXCEPT ![t] = "idle"]
        /\ UNCHANGED <<event, event_queue>>
  /\ UNCHANGED <<id, role, handlers, registered, todo, dispatched, log,
                 finished>>

Copies(t, list) ==
  /\ at[t] = "lookup"
  /\ todo' = [todo EXCEPT ![t] = list]
  /\ at' = [at EXCEPT ![t] = "run"]
  /\ UNCHANGED <<id, role, event_queue, handlers, registered, event, history>>

(* A mutation: only the first handler is found.                            *)
LookUpFirst(t) ==
  LET list == handlers[event[t].name]
  IN  Copies(t, IF list = <<>> THEN <<>> ELSE <<Head(list)>>)

LookUpHandlers(t) == Copies(t, handlers[event[t].name])

RunHandler(t) ==
  /\ at[t] = "run"
  /\ \/ /\ todo[t] # <<>>
        /\ log' = Append(log, [n |-> event[t].n, handler |-> Head(todo[t])])
        /\ todo' = [todo EXCEPT ![t] = Tail(@)]
        /\ UNCHANGED <<at, event, finished>>
     \/ /\ todo[t] = <<>>
        /\ finished' = finished \cup {event[t]}
        /\ event' = [event EXCEPT ![t] = NoEvent]
        /\ at' = [at EXCEPT ![t] = "pop"]
        /\ UNCHANGED <<log, todo>>
  /\ UNCHANGED <<id, role, event_queue, handlers, registered, dispatched,
                 active>>

-----------------------------------------------------------------------------
Dispatch(t) ==
  \/ Test(t, "dispatch")
  \/ role[t] = "dispatch" /\ (Store(t) \/ Compare(t) \/ CheckOther(t))
  \/ \E name \in Names : PushEvent(t, name)

HandleEvents(t) ==
  \/ Test(t, "handle")
  \/ role[t] = "handle" /\ (Store(t) \/ Compare(t) \/ CheckOther(t))
  \/ PopEvent(t) \/ LookUpHandlers(t) \/ RunHandler(t)

Next ==
  \E t \in Threads :
    \/ Dispatch(t) \/ HandleEvents(t)
    \/ \E name \in Names : RegisterHandler(t, name)

(* The owner of the handling thread calls HandleEvents again and again, as *)
(* a main loop does; nobody has to dispatch or to register.                *)
Fairness == \A t \in Consumers : WF_vars(HandleEvents(t))

Spec == Init /\ [][Next]_vars /\ Fairness

-----------------------------------------------------------------------------
EventType ==
  [n : 1..MaxEvents, name : Names, known : Seq(1..MaxHandlers)]

(* Variables have their types and the queue does not outgrow its limit.    *)
TypeOK ==
  /\ id \in [Roles -> Threads \cup {NoThread}]
  /\ at \in [Threads -> {"idle", "store", "compare", "other", "push",
                         "pop", "lookup", "run"}]
  /\ role \in [Threads -> Roles]
  /\ event_queue \in Seq(EventType) /\ Len(event_queue) <= QueueSize
  /\ handlers \in [Names -> Seq(1..MaxHandlers)]
  /\ registered \in 0..MaxHandlers /\ dispatched \in 0..MaxEvents
  /\ event \in [Threads -> EventType \cup {NoEvent}]
  /\ todo \in [Threads -> Seq(1..MaxHandlers)]
  /\ active \in [Roles -> SUBSET Threads]
  /\ log \in Seq([n : 1..MaxEvents, handler : 1..MaxHandlers])
  /\ finished \subseteq EventType

(* Events are handled in the order they were dispatched, the handlers of   *)
(* one event run in the order they were registered, and no handler sees an *)
(* event twice, although handlers come while events are being handled.     *)
HandledInOrder ==
  \A i, j \in DOMAIN log : i < j =>
    \/ log[i].n < log[j].n
    \/ log[i].n = log[j].n /\ log[i].handler < log[j].handler

(* A handler that was registered before an event was dispatched has run    *)
(* for it by the time HandleEvents is done with the event.                 *)
KnownHandlersRan ==
  \A e \in finished : \A h \in DOMAIN e.known :
    \E i \in DOMAIN log : log[i] = [n |-> e.n, handler |-> e.known[h]]

(* Every event in the queue is handled (or pushed out by newer ones).      *)
QueueDrains == []<>(event_queue = <<>>)

(* What the check in Dispatch is for: no two threads dispatch events.      *)
OneDispatcher == Cardinality(active["dispatch"]) <= 1
=============================================================================
