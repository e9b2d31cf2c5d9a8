------------------------------ MODULE InputHid -------------------------------
(***************************************************************************)
(* The drivers of src/driver/input_hid.  A polling driver (Joystick,       *)
(* Keyboard) reads its device in a thread of its own and keeps what it     *)
(* read or calls back; with the event driver one HidEventListener watches  *)
(* the handlers of several devices in libevent's loop.  The kernel queues  *)
(* the events of a device for each reader, and empties the queue when it   *)
(* is full; a device may be unplugged.                                     *)
(***************************************************************************)
EXTENDS Integers, Sequences, TLC, SequencesExt

CONSTANTS Drivers,     \* of "Joystick", "Keyboard", "HidEventListener"
          Events,      \* for each device, "js" and "kb", the events it sends
          AxisRange,   \* for each axis code its least and greatest value
          keycode_map, \* names of keys by their codes
          KernelQueue, \* events the kernel keeps for a reader
          MaxEvents,   \* bound: events while a driver is open
          MaxOpens     \* bound: calls of Open

ASSUME HidAssumption ==
  /\ Drivers \subseteq {"Joystick", "Keyboard", "HidEventListener"}
  /\ \A d \in {"js", "kb"} :
       Events[d] \subseteq [type : {"key", "abs"}, code : Nat, value : Int]
  /\ KernelQueue \in Nat \ {0} /\ MaxEvents \in Nat /\ MaxOpens \in Nat

VARIABLES
  driver,                     \* which one the program uses
  plugged, notify,            \* devices that are there; has inotify an event?
  queue, sent, lost,          \* of a device: what its reader has not read;
                              \* history: sent since Open; was the queue full?
  opened, added, opens,       \* valid fds; hid_events_; calls of Open so far
  owner, thread, active,      \* the thread that owns the driver; the driver's;
                              \* devices whose callback is due in this turn
  keep_running, event_break,  \* of a polling driver; of libevent's loop
  channels,                   \* buttons_ and axes_ of Joystick
  handled                     \* history: what the callbacks were given

deviceVars == <<plugged, notify, queue, sent, lost>>
openVars == <<opened, added, opens>>
loopVars == <<active, keep_running, event_break>>
outVars == <<channels, handled>>
vars == <<driver, deviceVars, openVars, owner, thread, loopVars, outVars>>

-----------------------------------------------------------------------------
Devices == {"js", "kb"}

Used == CASE driver = "Joystick" -> {"js"}
          [] driver = "Keyboard" -> {"kb"}
          [] OTHER -> Devices

BTN_JOYSTICK == 288
BTN_THUMBR == 318
ABS_TOOL_WIDTH == 28

(* To -1 .. 1, halves cut off; an axis without a range is not a number.    *)
Normalized(axis, value) ==
  LET range == AxisRange[axis]
  IN  IF range[1] = range[2] THEN "nan"
      ELSE ((value - range[1]) * 2) \div (range[2] - range[1]) - 1

(* What an event of the joystick means to its driver, if anything.         *)
JoystickInput(e) ==
  CASE e.type = "key" /\ e.code \in BTN_JOYSTICK..BTN_THUMBR ->
         <<[control |-> <<"button", e.code - BTN_JOYSTICK>>, value |-> e.value # 0]>>
    [] e.type = "abs" /\ e.code < ABS_TOOL_WIDTH ->
         <<[control |-> <<"axis", e.code>>, value |-> Normalized(e.code, e.value)]>>
    [] OTHER -> <<>>

(* operator[] of the map adds a key it does not know, as kUnknown.  A key  *)
(* that repeats, value 2, is pressed again.                                *)
KeyInput(e) ==
  IF e.type = "key"
  THEN <<[control |-> IF e.code \in DOMAIN keycode_map THEN keycode_map[e.code]
                      ELSE "kUnknown",
          value |-> e.value # 0]>>
  ELSE <<>>

Input(d, e) == IF d = "js" THEN JoystickInput(e) ELSE KeyInput(e)

InputOf(d, events) == FlattenSeq([i \in DOMAIN events |-> Input(d, events[i])])

(* InitializeChannels: what has not moved is at rest.                      *)
AtRest == <<>>

Moved(state, input) ==
  IF input = <<>> THEN state
  ELSE [c \in DOMAIN state \cup {Head(input).control} |->
          IF c = Head(input).control THEN Head(input).value ELSE state[c]]

Init ==
  /\ driver \in Drivers
  /\ plugged = Devices /\ notify = FALSE
  /\ queue = [d \in Devices |-> <<>>] /\ sent = [d \in Devices |-> <<>>]
  /\ lost = [d \in Devices |-> FALSE]
  /\ opened = {} /\ added = {} /\ opens = 0
  /\ owner = "open" /\ thread = "none" /\ active = <<>>
  /\ keep_running = FALSE /\ event_break = FALSE
  /\ channels = AtRest /\ handled = [d \in Devices |-> <<>>]

-----------------------------------------------------------------------------
(* The kernel.  A full queue is emptied before the newest event.           *)
Emit(d, e) ==
  /\ d \in plugged \cap opened /\ Len(sent["js"]) + Len(sent["kb"]) < MaxEvents
  /\ sent' = [sent EXCEPT ![d] = Append(@, e)]
  /\ lost' = [lost EXCEPT ![d] = @ \/ Len(queue[d]) = KernelQueue]
  /\ queue' = [queue EXCEPT ![d] = IF Len(@) = KernelQueue THEN <<e>> ELSE Append(@, e)]
  /\ UNCHANGED <<driver, plugged, notify, openVars, owner, thread, loopVars, outVars>>

(* The device's file is removed, which changes its link count: IN_ATTRIB.  *)
Unplug(d) ==
  /\ d \in plugged \cap Used
  /\ plugged' = plugged \ {d}
  /\ queue' = [queue EXCEPT ![d] = <<>>]
  /\ lost' = [lost EXCEPT ![d] = TRUE]
  /\ notify' = (d \in opened)
  /\ UNCHANGED <<driver, sent, openVars, owner, thread, loopVars, outVars>>

-----------------------------------------------------------------------------
(* The owner of a polling driver: Open or StartMonitoring, later Close or  *)
(* the destructor.  A new inotify instance knows no old event; buttons and *)
(* axes stay as they were.                                                 *)
Open ==
  /\ owner = "open" /\ driver # "HidEventListener"
  /\ opens' = opens + 1
  /\ \/ /\ Used \subseteq plugged
        /\ opened' = Used
        /\ notify' = FALSE
        /\ keep_running' = TRUE
        /\ thread' = "loop" /\ owner' = "run"
     \/ /\ owner' = "done"
        /\ UNCHANGED <<opened, notify, keep_running, thread>>
  /\ sent' = [d \in Devices |-> <<>>] /\ lost' = [d \in Devices |-> FALSE]
  /\ handled' = [d \in Devices |-> <<>>]
  /\ UNCHANGED <<driver, plugged, queue, added, active, event_break, channels>>

Close ==
  /\ owner = "run" /\ driver # "HidEventListener"
  /\ keep_running' = FALSE
  /\ owner' = "join"
  /\ UNCHANGED <<driver, deviceVars, openVars, thread, active, event_break, outVars>>

(* The owner of the event driver: handlers are opened, added and watched.  *)
OpenHandler(d) ==
  /\ owner = "open" /\ driver = "HidEventListener" /\ d \in Used \ opened
  /\ \/ d \in plugged /\ opened' = opened \cup {d} /\ UNCHANGED owner
     \/ owner' = "close" /\ UNCHANGED opened
  /\ UNCHANGED <<driver, deviceVars, added, opens, thread, loopVars, outVars>>

(* event_new or event_add may fail: then the program gives up.             *)
AddHidHandler(d) ==
  /\ owner = "open" /\ driver = "HidEventListener" /\ opened = Used
  /\ d \in Used \ added
  /\ \/ added' = added \cup {d} /\ UNCHANGED owner
     \/ owner' = "join" /\ UNCHANGED added
  /\ UNCHANGED <<driver, deviceVars, opened, opens, thread, loopVars, outVars>>

StartListening ==
  /\ owner = "open" /\ driver = "HidEventListener" /\ added = Used
  /\ thread' = "starting" /\ owner' = "run"
  /\ UNCHANGED <<driver, deviceVars, openVars, loopVars, outVars>>

(* ~HidEventListener: event_base_loopbreak only sets a flag.               *)
LoopBreak ==
  /\ owner = "run" /\ driver = "HidEventListener"
  /\ event_break' = TRUE
  /\ owner' = "join"
  /\ UNCHANGED <<driver, deviceVars, openVars, thread, active, keep_running, outVars>>

(* A mutation: the thread is detached.                                     *)
Detach ==
  /\ owner = "join"
  /\ owner' = "close"
  /\ UNCHANGED <<driver, deviceVars, openVars, thread, loopVars, outVars>>

Join ==
  /\ owner = "join" /\ thread \in {"none", "exited"}
  /\ owner' = "close"
  /\ UNCHANGED <<driver, deviceVars, openVars, thread, loopVars, outVars>>

(* close(fd), and with it the kernel's queue; a joystick may open again.   *)
CloseDevices ==
  /\ owner = "close"
  /\ opened' = {} /\ added' = {}
  /\ queue' = [d \in Devices |-> <<>>]
  /\ owner' \in IF driver = "Joystick" /\ opens < MaxOpens THEN {"open", "done"} ELSE {"done"}
  /\ UNCHANGED <<driver, plugged, notify, sent, lost, opens, thread, loopVars, outVars>>

-----------------------------------------------------------------------------
(* The thread of a polling driver: while (keep_running_) PollEvent();      *)
TestKeepRunning ==
  /\ thread = "loop"
  /\ thread' = IF keep_running THEN "poll" ELSE "exited"
  /\ UNCHANGED <<driver, deviceVars, openVars, owner, loopVars, outVars>>

(* A change of the device calls Close() here, on the thread it joins: the  *)
(* exception ends the process.                                             *)
CheckDevice ==
  /\ thread = "poll"
  /\ IF driver = "Joystick" /\ notify
     THEN thread' = "terminated" /\ owner' = "terminated" /\ keep_running' = FALSE
     ELSE thread' = "read" /\ UNCHANGED <<owner, keep_running>>
  /\ UNCHANGED <<driver, deviceVars, openVars, active, event_break, outVars>>

(* ReadJoystickInput, Keyboard::PollEvent: until read() finds nothing.     *)
ReadEvent(d) ==
  /\ thread = "read" /\ d \in Used
  /\ IF queue[d] = <<>>
     THEN thread' = "loop" /\ UNCHANGED <<queue, outVars>>
     ELSE /\ queue' = [queue EXCEPT ![d] = Tail(@)]
          /\ IF driver = "Joystick"
             THEN /\ channels' = Moved(channels, JoystickInput(Head(queue[d])))
                  /\ UNCHANGED handled
             ELSE /\ handled' = [handled EXCEPT ![d] = @ \o KeyInput(Head(queue[d]))]
                  /\ UNCHANGED channels
          /\ UNCHANGED thread
  /\ UNCHANGED <<driver, plugged, notify, sent, lost, openVars, owner, loopVars>>

-----------------------------------------------------------------------------
(* libevent's loop on the listener's thread: entering it clears the flag.  *)
Dispatch ==
  /\ thread = "starting"
  /\ event_break' = FALSE
  /\ thread' = "top"
  /\ UNCHANGED <<driver, deviceVars, openVars, owner, active, keep_running, outVars>>

TestBreak ==
  /\ thread = "top"
  /\ thread' = IF event_break THEN "exited" ELSE "wait"
  /\ UNCHANGED <<driver, deviceVars, openVars, owner, loopVars, outVars>>

Ready == {d \in added : queue[d] # <<>> \/ d \notin plugged}

(* A mutation: without the wakeup event.                                   *)
WaitForInput ==
  /\ thread = "wait" /\ Ready # {}
  /\ active' \in SetToSeqs(Ready)
  /\ thread' = "process"
  /\ UNCHANGED <<driver, deviceVars, openVars, owner, keep_running, event_break, outVars>>

(* The devices that can be read, or the wakeup event's second is over.     *)
Wait ==
  /\ thread = "wait"
  /\ active' \in SetToSeqs(Ready)
  /\ thread' = "process"
  /\ UNCHANGED <<driver, deviceVars, openVars, owner, keep_running, event_break, outVars>>

(* A mutation: the handler reads all there is and looks at the newest.     *)
OnInputEventNewest(d) ==
  /\ thread = "process" /\ active # <<>> /\ d = Head(active)
  /\ active' = IF event_break THEN <<>> ELSE Tail(active)
  /\ queue' = [queue EXCEPT ![d] = <<>>]
  /\ handled' = [handled EXCEPT ![d] =
       IF queue[d] = <<>> THEN @ ELSE @ \o Input(d, Last(queue[d]))]
  /\ UNCHANGED <<driver, plugged, notify, sent, lost, openVars, owner, thread,
                 keep_running, event_break, channels>>

(* A mutation: the event is added without EV_PERSIST.                      *)
OnInputEventOnce(d) ==
  /\ thread = "process" /\ active # <<>> /\ d = Head(active)
  /\ active' = IF event_break THEN <<>> ELSE Tail(active)
  /\ added' = added \ {d}
  /\ IF queue[d] = <<>> THEN UNCHANGED <<queue, handled>>
     ELSE /\ queue' = [queue EXCEPT ![d] = Tail(@)]
          /\ handled' = [handled EXCEPT ![d] = @ \o Input(d, Head(queue[d]))]
  /\ UNCHANGED <<driver, plugged, notify, sent, lost, opened, opens, owner, thread,
                 keep_running, event_break, channels>>

(* EventCallback: one event is read; of an unplugged device, none.  A loop *)
(* that is to break makes no further callback.                             *)
OnInputEvent(d) ==
  /\ thread = "process" /\ active # <<>> /\ d = Head(active)
  /\ active' = IF event_break THEN <<>> ELSE Tail(active)
  /\ IF queue[d] = <<>> THEN UNCHANGED <<queue, handled>>
     ELSE /\ queue' = [queue EXCEPT ![d] = Tail(@)]
          /\ handled' = [handled EXCEPT ![d] = @ \o Input(d, Head(queue[d]))]
  /\ UNCHANGED <<driver, plugged, notify, sent, lost, openVars, owner, thread,
                 keep_running, event_break, channels>>

NextTurn ==
  /\ thread = "process" /\ active = <<>>
  /\ thread' = "top"
  /\ UNCHANGED <<driver, deviceVars, openVars, owner, loopVars, outVars>>

-----------------------------------------------------------------------------
Owner ==
  \/ Open \/ StartListening \/ Join \/ CloseDevices
  \/ \E d \in Devices : OpenHandler(d) \/ AddHidHandler(d)

Thread ==
  \/ TestKeepRunning \/ CheckDevice \/ Dispatch \/ TestBreak \/ Wait \/ NextTurn
  \/ \E d \in Devices : ReadEvent(d) \/ OnInputEvent(d)

Next ==
  \/ Owner \/ Thread \/ Close \/ LoopBreak
  \/ \E d \in Devices : Unplug(d) \/ \E e \in Events[d] : Emit(d, e)

(* Both threads run; events, faults and the wish to stop need not come.    *)
Spec == Init /\ [][Next]_vars /\ WF_vars(Owner) /\ WF_vars(Thread)

-----------------------------------------------------------------------------
AllEvents == Events["js"] \cup Events["kb"]

(* Variables have their types and the kernel's queues their bound.         *)
TypeOK ==
  /\ driver \in Drivers /\ plugged \subseteq Devices /\ notify \in BOOLEAN
  /\ queue \in [Devices -> Seq(AllEvents)] /\ sent \in [Devices -> Seq(AllEvents)]
  /\ \A d \in Devices : Len(queue[d]) <= KernelQueue
  /\ lost \in [Devices -> BOOLEAN]
  /\ opened \subseteq Used /\ added \subseteq Used /\ opens \in Nat
  /\ owner \in {"open", "run", "join", "close", "done", "terminated"}
  /\ thread \in {"none", "loop", "poll", "read", "starting", "top", "wait",
                 "process", "exited", "terminated"}
  /\ active \in Seq(Devices)
  /\ keep_running \in BOOLEAN /\ event_break \in BOOLEAN
  /\ DOMAIN handled = Devices

(* As long as the kernel's queue was not full and the device is there, no  *)
(* input is lost, repeated or overtaken by another of its device: what a   *)
(* callback was given, or a joystick shows, and what is still queued are   *)
(* together what was sent, through all turns of the loop and of the other  *)
(* device.                                                                 *)
InputInOrder ==
  \A d \in opened :
    ~lost[d] =>
      IF driver = "Joystick"
      THEN LET read == SubSeq(sent[d], 1, Len(sent[d]) - Len(queue[d]))
               last(c) == SelectLastInSeq(InputOf(d, read), LAMBDA i : i.control = c)
           IN  \A c \in DOMAIN channels :
                 last(c) # 0 => channels[c] = InputOf(d, read)[last(c)].value
      ELSE handled[d] \o InputOf(d, queue[d]) = InputOf(d, sent[d])

(* No callback runs once the driver has been destroyed: what it calls may  *)
(* be gone.                                                                *)
NoLateCallback == [][handled' # handled => owner' \in {"run", "join"}]_vars

(* What a driver has opened it reads in the end, one event in a turn or    *)
(* all, whatever else happens to the other device.                         *)
InputIsHandled ==
  \A d \in Devices : (owner = "run" /\ queue[d] # <<>>) ~> (queue[d] = <<>> \/ owner # "run")

(* The flag that ends the thread is set, and libevent was in its loop.     *)
ToldToStop ==
  /\ owner = "join" /\ thread # "starting"
  /\ \/ thread \in {"none", "exited"}
     \/ IF driver = "HidEventListener" THEN event_break ELSE ~keep_running

(* The owner that closes a driver gets its thread back, although the flag  *)
(* wakes nobody: unless libevent enters its loop later and clears the flag.*)
StopReturns == ToldToStop ~> owner \in {"open", "done", "terminated"}

(* The same without the exception.                                         *)
StopAlwaysReturns == owner = "join" ~> owner \in {"open", "done", "terminated"}

=============================================================================
