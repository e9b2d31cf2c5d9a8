------------------------------- MODULE ServoBus -------------------------------
(***************************************************************************)
(* The SMS/STS servos of src/driver/motor_waveshare: SmsStsServo and       *)
(* SmsStsServoArray drive servos over one half-duplex serial line.  A call *)
(* of the API is a list of requests, each written to the line and followed *)
(* by a wait for an answer that ends with a timeout.  Packets are whole    *)
(* here; their bytes are in ScsProtocol.  A packet may be lost, an answer  *)
(* may be garbled or come after its timeout, and the port may go away.     *)
(***************************************************************************)
EXTENDS Integers, Sequences, FiniteSets, SequencesExt

CONSTANTS Ids,          \* ids the servos have at first
          FreeIds,      \* ids no servo has at first
          Positions,    \* positions the application asks for
          Default,      \* SmsStsServoArray::default_position_
          MaxRequests,  \* bound: requests in a behaviour
          MaxFaults,    \* bound: packets lost or garbled
          MaxStrays     \* bound: answers nobody awaits when a call begins

ASSUME ServoAssumption ==
  /\ Ids \subseteq 1..253 /\ FreeIds \subseteq 1..253 /\ Ids \cap FreeIds = {}
  /\ Default \in Positions
  /\ MaxRequests \in Nat /\ MaxFaults \in Nat /\ MaxStrays \in Nat

VARIABLES
  port,      \* "closed", "open", or "gone": the adapter was unplugged
  api, todo, \* the call under way, "none" between calls; its next requests
  request,   \* the request whose answer is awaited, or NoRequest
  made,      \* requests so far; their numbers tell answers apart
  air, rx,   \* answers not yet received; the kernel's input buffer
  strays,    \* numbers of the answers in the air when the request was made
  faults,    \* packets harmed so far
  results,   \* for each request of this call, the answer it was given
  clean,     \* no packet of this call was lost, garbled or late
  outcome,   \* how the last call ended, until the next begins
  id_,       \* SmsStsServo::Impl::id_; 0 when there are several servos
  targets,   \* SmsStsServoArray::positions_targets_
  stale,     \* history: SetPositions was called, or a packet with positions
             \* harmed, after a SetPosition of the array last sent one
  servos     \* the servos: id, goal position, EPROM lock

callVars == <<api, todo, results, clean, outcome>>
busVars == <<request, made, air, rx, strays, faults>>
vars == <<port, callVars, busVars, id_, targets, stale, servos>>

Write(id, addr, value) ==
  [kind |-> "write", id |-> id, addr |-> addr, value |-> value]
Read(id, length) ==
  [kind |-> "read", id |-> id, addr |-> "present", value |-> length]
SnycWrite(positions) ==
  [kind |-> "sync", id |-> 254, addr |-> "goal", value |-> positions]
NoOutcome == [api |-> "none", ok |-> FALSE, clean |-> FALSE]
NoRequest == [kind |-> "none", id |-> 0, addr |-> "none", value |-> 0]

-----------------------------------------------------------------------------
Init ==
  /\ port = "closed" /\ api = "none" /\ todo = <<>> /\ request = NoRequest
  /\ made = 0 /\ air = {} /\ rx = <<>> /\ strays = {} /\ faults = 0
  /\ results = <<>> /\ clean = TRUE /\ outcome = NoOutcome
  /\ id_ \in Ids \cup {0}
  /\ targets = [i \in Ids |-> Default] /\ stale = TRUE
  /\ servos = [s \in Ids |-> [id |-> s, goal |-> -1, locked |-> TRUE]]

(* begin() closes an open port first, and may fail.                        *)
Connect ==
  /\ api = "none" /\ port # "gone"
  /\ port' \in {"open", "closed"} /\ port' # port
  /\ rx' = <<>>
  /\ UNCHANGED <<callVars, request, made, air, strays, faults, id_, targets,
                 stale, servos>>

(* end() forgets the descriptor; the file stays open.                      *)
Disconnect ==
  /\ api = "none" /\ port = "open"
  /\ port' = "closed"
  /\ UNCHANGED <<callVars, busVars, id_, targets, stale, servos>>

Unplug ==
  /\ port = "open"
  /\ port' = "gone"
  /\ UNCHANGED <<callVars, busVars, id_, targets, stale, servos>>

-----------------------------------------------------------------------------
Begin(call, requests) ==
  /\ api = "none" /\ made + Len(requests) <= MaxRequests
  /\ Cardinality(air) + Len(rx) <= MaxStrays
  /\ api' = call
  /\ todo' = requests
  /\ outcome' = NoOutcome
  /\ UNCHANGED <<port, busVars, results, clean, id_, servos>>

(* WriteSpe writes the acceleration and, whatever came of it, the speed.   *)
SetSpeed == Begin("SetSpeed", <<Write(id_, "acc", 50), Write(id_, "speed", 0)>>)

(* GetSpeed and GetPosition.                                               *)
GetWord == Begin("GetWord", <<Read(id_, 2)>>)

(* FeedBack reads the whole present state at once.                         *)
GetState == Begin("GetState", <<Read(id_, 15)>>)

SetPosition(position) == Begin("SetPosition", <<Write(id_, "goal", position)>>)

(* Only the change to speed mode writes; false is returned in any case.    *)
SetMode == Begin("SetMode", <<Write(id_, "mode", 1)>>)

SetNeutralPosition == Begin("SetNeutralPosition", <<Write(id_, "torque", 128)>>)

(* A mutation: the EPROM is locked under the old id.                       *)
SetMotorIdOldLock(id) ==
  Begin("SetMotorId",
        <<Write(id_, "lock", 0), Write(id_, "id", id), Write(id_, "lock", 1)>>)

(* Unlock, write the id, lock under the new one; id_ keeps the old one.    *)
SetMotorId(id) ==
  Begin("SetMotorId",
        <<Write(id_, "lock", 0), Write(id_, "id", id), Write(id, "lock", 1)>>)

(* Several servos: GetPositions and GetStates ask one after the other.     *)
GetPositions ==
  Begin("GetPositions", SetToSeq({Read(id, 2) : id \in Ids}))

GetStates == Begin("GetStates", SetToSeq({Read(id, 15) : id \in Ids}))

(* A mutation: the position is sent and not remembered.                    *)
ArrayForgets(id, position) ==
  \/ /\ position = targets[id]
     /\ Begin("ArraySetPosition", <<>>)
     /\ UNCHANGED <<targets, stale>>
  \/ /\ position # targets[id]
     /\ stale' = FALSE
     /\ Begin("ArraySetPosition",
              <<SnycWrite([targets EXCEPT ![id] = position])>>)
     /\ UNCHANGED targets

(* The array's SetPosition: nothing when the position is the remembered    *)
(* one, else the remembered positions of all servos are sent.              *)
ArraySetPosition(id, position) ==
  \/ /\ position = targets[id]
     /\ Begin("ArraySetPosition", <<>>)
     /\ UNCHANGED <<targets, stale>>
  \/ /\ position # targets[id]
     /\ targets' = [targets EXCEPT ![id] = position] /\ stale' = FALSE
     /\ Begin("ArraySetPosition", <<SnycWrite(targets')>>)

(* The array's SetPositions leaves positions_targets_ alone.               *)
ArraySetPositions(positions) ==
  /\ Begin("ArraySetPositions", <<SnycWrite(positions)>>)
  /\ stale' = TRUE
  /\ UNCHANGED targets

-----------------------------------------------------------------------------
(* What a servo does with a request.                                       *)
Carried(servo, r) ==
  CASE r.kind = "sync" /\ servo.id \in Ids ->
         [servo EXCEPT !.goal = r.value[servo.id]]
    [] r.id = servo.id /\ r.addr = "goal" -> [servo EXCEPT !.goal = r.value]
    [] r.id = servo.id /\ r.addr = "lock" ->
         [servo EXCEPT !.locked = (r.value = 1)]
    [] r.id = servo.id /\ r.addr = "id" /\ ~servo.locked ->
         [servo EXCEPT !.id = r.value]
    [] OTHER -> servo

(* Its answer; nobody answers a synchronous write.                         *)
Length(r) == IF r.kind = "read" THEN r.value ELSE 0

Answers(r) ==
  {[req |-> made + 1, id |-> r.id, length |-> Length(r), garbled |-> FALSE] :
     s \in {s \in DOMAIN servos : servos[s].id = r.id}}

(* The wait is over with an answer, or without one: 0.                     *)
Replied(answer) ==
  /\ request' = NoRequest
  /\ results' = Append(results, [asked |-> made, got |-> answer,
                                 stray |-> answer \in strays])
  /\ strays' = {}

(* A request reaches the servos unless it is lost or the port is not open. *)
Transmit(r) ==
  /\ made' = made + 1
  /\ strays' = {a.req : a \in air}
  /\ request' = IF r.kind = "sync" THEN NoRequest ELSE r
  /\ \/ /\ port = "open"
        /\ servos' = [s \in DOMAIN servos |-> Carried(servos[s], r)]
        /\ air' = air \cup Answers(r)
        /\ UNCHANGED <<faults, clean, stale>>
     \/ /\ port = "open" /\ faults < MaxFaults
        /\ faults' = faults + 1
        /\ clean' = FALSE /\ stale' = (stale \/ r.kind = "sync")
        /\ UNCHANGED <<servos, air>>
     \/ /\ port # "open"
        /\ clean' = FALSE /\ stale' = (stale \/ r.kind = "sync")
        /\ UNCHANGED <<servos, air, faults>>
  /\ UNCHANGED <<port, api, results, outcome, id_, targets>>

(* A mutation: what the input buffer holds is not thrown away.             *)
SendUnflushed ==
  /\ todo # <<>> /\ request = NoRequest
  /\ Transmit(Head(todo))
  /\ todo' = Tail(todo)
  /\ UNCHANGED rx

(* rFlush, writeBuf, wFlush: what has arrived is thrown away, what is      *)
(* still on its way is not.                                                *)
Send ==
  /\ todo # <<>> /\ request = NoRequest
  /\ Transmit(Head(todo))
  /\ todo' = Tail(todo)
  /\ rx' = <<>>

(* The line: an answer arrives, is lost, or is garbled on its way.         *)
Arrive ==
  /\ port = "open"
  /\ \E a \in air : air' = air \ {a} /\ rx' = Append(rx, a)
  /\ UNCHANGED <<port, callVars, request, made, strays, faults, id_, targets,
                 stale, servos>>

Disturb ==
  /\ faults < MaxFaults
  /\ faults' = faults + 1
  /\ clean' = (api = "none")
  /\ \E a \in air :
       \/ air' = air \ {a}
       \/ air' = (air \ {a}) \cup {[a EXCEPT !.garbled = TRUE]}
  /\ UNCHANGED <<port, api, todo, results, outcome, request, made, rx, strays,
                 id_, targets, stale, servos>>

-----------------------------------------------------------------------------
(* Ack wants the id of the servo and an answer without data; Read looks at *)
(* the length alone.                                                       *)
Accepted(a) ==
  /\ ~a.garbled /\ a.length = Length(request)
  /\ request.kind = "write" => a.id = request.id

(* readSCS has as many bytes as it waits for.                              *)
Receive ==
  /\ request # NoRequest /\ rx # <<>>
  /\ Head(rx).length >= Length(request) \/ Len(rx) > 1
  /\ rx' = Tail(rx)
  /\ Replied(IF Accepted(Head(rx)) THEN Head(rx).req ELSE 0)
  /\ clean' = (clean /\ Head(rx).req = made)
  /\ UNCHANGED <<port, api, todo, outcome, made, air, faults, id_, targets,
                 stale, servos>>

Unanswered ==
  /\ Replied(0)
  /\ rx' = <<>>
  /\ clean' = (clean /\ {a \in air : a.req = made} = {})
  /\ UNCHANGED <<port, api, todo, outcome, made, air, faults, id_, targets,
                 stale, servos>>

(* A mutation: readSCS waits for as long as it takes.                      *)
TimeoutClosed ==
  /\ request # NoRequest /\ port = "closed"
  /\ Unanswered

(* select() gives up.  An answer still on its way is late.                 *)
(* When the adapter is gone select() finds the port readable for ever, and *)
(* readSCS never returns.                                                  *)
Timeout ==
  /\ request # NoRequest /\ port # "gone"
  /\ Unanswered

(* SetMotorId and SetNeutralPosition tell whether their write was          *)
(* acknowledged; the other calls tell nothing.                             *)
Acknowledged ==
  \/ api = "SetMotorId" /\ results[2].got # 0
  \/ api = "SetNeutralPosition" /\ results[1].got # 0

Return ==
  /\ api # "none" /\ todo = <<>> /\ request = NoRequest
  /\ outcome' = [api |-> api, ok |-> Acknowledged, clean |-> clean]
  /\ api' = "none"
  /\ results' = <<>>
  /\ clean' = TRUE
  /\ UNCHANGED <<port, todo, busVars, id_, targets, stale, servos>>

-----------------------------------------------------------------------------
(* One servo, or an array of all of them.                                  *)
SingleCall ==
  /\ id_ # 0
  /\ \/ SetSpeed \/ GetWord \/ GetState \/ SetMode \/ SetNeutralPosition
     \/ \E position \in Positions : SetPosition(position)
     \/ \E id \in FreeIds : SetMotorId(id)
  /\ UNCHANGED <<targets, stale>>

ArrayCall ==
  /\ id_ = 0
  /\ \/ (GetPositions \/ GetStates) /\ UNCHANGED <<targets, stale>>
     \/ \E id \in Ids, position \in Positions : ArraySetPosition(id, position)
     \/ \E positions \in [Ids -> Positions] : ArraySetPositions(positions)

Driver == Send \/ Receive \/ Timeout \/ Return

Next ==
  \/ Connect \/ Disconnect \/ Unplug \/ SingleCall \/ ArrayCall
  \/ Driver \/ Arrive \/ Disturb

(* The thread that called runs, and its select() ends.                     *)
Spec == Init /\ [][Next]_vars /\ WF_vars(Driver)

-----------------------------------------------------------------------------
Packet == [req : 1..MaxRequests, id : Ids \cup FreeIds, length : {0, 2, 15},
           garbled : BOOLEAN]

Reply == [asked : 1..MaxRequests, got : 0..MaxRequests, stray : BOOLEAN]

(* Variables have their types.                                             *)
TypeOK ==
  /\ port \in {"closed", "open", "gone"} /\ made \in 0..MaxRequests
  /\ Len(todo) + made <= MaxRequests
  /\ request.kind \in {"none", "read", "write"}
  /\ air \subseteq Packet /\ rx \in Seq(Packet) /\ strays \subseteq 1..MaxRequests
  /\ faults \in 0..MaxFaults /\ results \in Seq(Reply) /\ clean \in BOOLEAN
  /\ id_ \in Ids \cup {0} /\ targets \in [Ids -> Positions] /\ stale \in BOOLEAN
  /\ servos \in [Ids -> [id : Ids \cup FreeIds, goal : Positions \cup {-1},
                         locked : BOOLEAN]]

(* An answer counts for the request that was made, or it is the late one   *)
(* of a request that was given up and was still on its way when this one   *)
(* was made: rFlush lets nothing else be mistaken.                         *)
AnswerIsExpected ==
  \A i \in DOMAIN results :
    results[i].got = 0 \/ results[i].got = results[i].asked \/ results[i].stray

(* When SetMotorId reports success and no packet of it was harmed, no      *)
(* servo is left with its EPROM unlocked.                                  *)
EpromRelocked ==
  api = "none" /\ outcome.api = "SetMotorId" /\ outcome.ok /\ outcome.clean =>
    \A s \in DOMAIN servos : servos[s].locked

(* Between calls every servo is where the array remembers it, calls that   *)
(* found their position remembered and sent nothing included, unless since *)
(* the last SetPosition that did send SetPositions was called, or the      *)
(* packet did not arrive.  Packets lost before that one are made up for.   *)
TargetsReached ==
  api = "none" /\ ~stale => \A s \in DOMAIN servos : servos[s].goal = targets[s]

(* A SetPosition of the array of which no packet was harmed leaves every   *)
(* servo where the array remembers it.  It does not: the remembered        *)
(* position may be one that never arrived, or that SetPositions replaced.  *)
PositionObeyed ==
  api = "none" /\ outcome.api = "ArraySetPosition" /\ outcome.clean =>
    \A s \in DOMAIN servos : servos[s].goal = targets[s]

(* A call returns, whatever the line loses, unless the adapter is gone:    *)
(* then readSCS spins.                                                     *)
CallsReturn == api # "none" ~> api = "none" \/ port = "gone"
=============================================================================
