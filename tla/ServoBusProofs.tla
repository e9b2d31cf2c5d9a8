--------------------------- MODULE ServoBusProofs ----------------------------
(***************************************************************************)
(* What holds of the servos' bus for every set of ids and positions, and   *)
(* however many requests are made, packets harmed and answers late: an     *)
(* answer is not mistaken, a successful change of the id leaves no EPROM   *)
(* unlocked, and the array's servos go where it remembers them.            *)
(***************************************************************************)
EXTENDS ServoBus, FiniteSetTheorems, TLAPS

Names == Ids \cup FreeIds

Servo == [id : Names, goal : Positions \cup {-1}, locked : BOOLEAN]

(* The requests that change nothing.                                       *)
Reads == [kind : {"read"}, id : Ids, addr : {"present"}, value : {2, 15}]

(* The requests of the calls that leave ids and EPROM locks alone.         *)
Harmless ==
  Reads
    \cup [kind : {"write"}, id : Ids, addr : {"acc", "speed", "mode", "torque"},
          value : {0, 1, 50, 128}]
    \cup [kind : {"write"}, id : Ids, addr : {"goal"}, value : Positions]
    \cup [kind : {"sync"}, id : {254}, addr : {"goal"}, value : [Ids -> Positions]]

Requests ==
  Harmless
    \cup [kind : {"write"}, id : Names, addr : {"lock"}, value : {0, 1}]
    \cup [kind : {"write"}, id : Ids, addr : {"id"}, value : FreeIds]

TypeInv ==
  /\ TypeOK
  /\ todo \in Seq(Requests) /\ request \in Requests \cup {NoRequest}
  /\ request # NoRequest => made > 0

(* Every answer that is not yet read.                                      *)
InFlight == air \cup {rx[i] : i \in DOMAIN rx}

(* The answers there are while one is awaited: the one, and those that     *)
(* were on their way when the request was made.                            *)
AnswerInv ==
  /\ \A a \in InFlight : a.req <= made
  /\ request # NoRequest => \A a \in InFlight : a.req \in strays \cup {made}
  /\ AnswerIsExpected

IdleInv == api = "none" => todo = <<>> /\ request = NoRequest /\ results = <<>>

(* Nothing but SetMotorId changes the id of a servo or unlocks one, and    *)
(* it only those of its own.                                               *)
OthersKept ==
  \A s \in Ids : s # id_ => servos[s].id = s /\ servos[s].locked

Pending == IF request = NoRequest THEN 0 ELSE 1

(* The second request, that for the new id, was answered or is to be.      *)
Answered ==
  IF request = NoRequest THEN results[2].got # 0
  ELSE \E a \in InFlight : a.req = made

(* SetMotorId from its first request to its last, and what is known of the *)
(* servo as long as no packet of the call was harmed.                      *)
Asked(id) ==
  /\ todo = <<Write(id_, "lock", 0), Write(id_, "id", id), Write(id, "lock", 1)>>
  /\ request = NoRequest /\ results = <<>>

Unlocked(id) ==
  /\ todo = <<Write(id_, "id", id), Write(id, "lock", 1)>>
  /\ Len(results) = 1 - Pending
  /\ clean /\ servos[id_].id = id_ => ~servos[id_].locked

Renamed(id) ==
  /\ todo = <<Write(id, "lock", 1)>>
  /\ Len(results) = 2 - Pending
  /\ clean /\ Answered => servos[id_].id = id

Relocked ==
  /\ todo = <<>>
  /\ Len(results) = 3 - Pending
  /\ clean /\ results[2].got # 0 => servos[id_].locked

EpromInv ==
  /\ OthersKept
  /\ IF api = "SetMotorId"
     THEN /\ id_ \in Ids
          /\ \E id \in FreeIds : Asked(id) \/ Unlocked(id) \/ Renamed(id) \/ Relocked
     ELSE todo \in Seq(Harmless)
  /\ EpromRelocked

AtTargets == \A s \in DOMAIN servos : servos[s].goal = targets[s]

(* The remembered positions are on their way to the servos of an array, or *)
(* the servos have them and are only read.                                 *)
TargetsInv ==
  ~stale =>
    /\ id_ = 0
    /\ \/ todo = <<SnycWrite(targets)>>
       \/ todo \in Seq(Reads) /\ AtTargets

-----------------------------------------------------------------------------
(* What each kind of request does to a servo.                              *)
LEMMA CarriedType ==
  ASSUME NEW servo \in Servo, NEW r \in Requests
  PROVE  Carried(servo, r) \in Servo
<1> USE DEF Servo, Names
<1>1. servo.id # 254
  BY ServoAssumption
<1>2. CASE r \in [kind : {"sync"}, id : {254}, addr : {"goal"}, value : [Ids -> Positions]]
  BY <1>1, <1>2 DEF Carried
<1>3. CASE r \in [kind : {"write"}, id : Ids, addr : {"goal"}, value : Positions]
  BY <1>3 DEF Carried
<1>4. CASE r \in [kind : {"write"}, id : Names, addr : {"lock"}, value : {0, 1}]
  BY <1>4 DEF Carried
<1>5. CASE r \in [kind : {"write"}, id : Ids, addr : {"id"}, value : FreeIds]
  BY <1>5 DEF Carried
<1>6. CASE r \in [kind : {"read"}, id : Ids, addr : {"present"}, value : {2, 15}]
  BY <1>6 DEF Carried
<1>7. CASE r \in [kind : {"write"}, id : Ids, addr : {"acc", "speed", "mode", "torque"},
                  value : {0, 1, 50, 128}]
  BY <1>7 DEF Carried
<1> QED BY <1>2, <1>3, <1>4, <1>5, <1>6, <1>7 DEF Requests, Harmless, Reads

(* A finite set can be listed.                                             *)
LEMMA SetToSeqType ==
  ASSUME NEW S, IsFiniteSet(S)
  PROVE  SetToSeq(S) \in Seq(S)
<1>1. PICK f : f \in Bijection(1..Cardinality(S), S)
  BY FS_CardinalityType DEF ExistsBijection
<1>2. f \in [1..Cardinality(S) -> S] /\ IsInjective(f)
  BY <1>1 DEF Bijection, Injection
<1>3. SetToSeq(S) \in [1..Cardinality(S) -> S]
  BY <1>2 DEF SetToSeq
<1>4. Cardinality(S) \in Nat
  BY FS_CardinalityType
<1> QED BY <1>3, <1>4

(* Reading from all servos is a list of harmless requests.                 *)
LEMMA ReadAllType ==
  ASSUME NEW length \in {2, 15}
  PROVE  /\ SetToSeq({Read(id, length) : id \in Ids}) \in Seq(Reads)
         /\ SetToSeq({Read(id, length) : id \in Ids}) \in Seq(Harmless)
<1> DEFINE S == {Read(id, length) : id \in Ids}
<1>1. IsFiniteSet(Ids)
  <2>1. Ids \in SUBSET Nat /\ 253 \in Nat /\ \A id \in Ids : id <= 253
    BY ServoAssumption
  <2> QED BY <2>1, FS_BoundedSetOfNaturals, ZenonT(30)
<1>2. [id \in Ids |-> Read(id, length)] \in Surjection(Ids, S)
  BY DEF Surjection
<1>3. IsFiniteSet(S)
  BY <1>1, <1>2, FS_Surjection
<1>4. SetToSeq(S) \in Seq(S)
  BY <1>3, SetToSeqType
<1>5. S \subseteq Reads /\ S \subseteq Harmless
  BY DEF Harmless, Reads, Read
<1> HIDE DEF S
<1>6. SetToSeq(S) \in Seq(Reads)
  BY <1>4, <1>5
<1>7. SetToSeq(S) \in Seq(Harmless)
  BY <1>4, <1>5
<1> QED BY <1>6, <1>7 DEF S

-----------------------------------------------------------------------------
(* A call writes a list of requests.                                       *)
LEMMA CallTypes ==
  ASSUME TypeInv, NEW call, NEW requests \in Seq(Requests), Begin(call, requests),
         targets' \in [Ids -> Positions], stale' \in BOOLEAN
  PROVE  TypeInv'
<1>1. /\ todo' = requests /\ made + Len(requests) <= MaxRequests
      /\ UNCHANGED <<port, busVars, results, clean, id_, servos>>
  BY DEF Begin
<1>2. Len(todo') + made' <= MaxRequests
  BY <1>1 DEF busVars, TypeInv, TypeOK
<1> QED BY <1>1, <1>2 DEF TypeInv, TypeOK, busVars, Packet, Reply

(* The calls of a single servo and their requests.                         *)
LEMMA SingleCallBegins ==
  ASSUME TypeInv, SingleCall
  PROVE  /\ id_ # 0 /\ targets' = targets /\ stale' = stale
         /\ \/ \E call \in {"SetSpeed", "GetWord", "GetState", "SetMode", "SetNeutralPosition",
                            "SetPosition"}, requests \in Seq(Harmless) :
                 Begin(call, requests)
            \/ \E id \in FreeIds :
                 Begin("SetMotorId", <<Write(id_, "lock", 0), Write(id_, "id", id),
                                       Write(id, "lock", 1)>>)
<1> DEFINE Calls == {"SetSpeed", "GetWord", "GetState", "SetMode", "SetNeutralPosition",
                     "SetPosition"}
           Harmlessly == \E call \in Calls, requests \in Seq(Harmless) : Begin(call, requests)
<1>1. id_ \in Ids /\ id_ # 0 /\ targets' = targets /\ stale' = stale
  BY DEF SingleCall, TypeInv, TypeOK
<1>7. \A call \in Calls, requests \in Seq(Harmless) : Begin(call, requests) => Harmlessly
  BY Zenon
<1>2. /\ \A length \in {2, 15} : Read(id_, length) \in Harmless
      /\ \A value \in {0, 1, 50, 128}, addr \in {"acc", "speed", "mode", "torque"} :
           Write(id_, addr, value) \in Harmless
      /\ \A position \in Positions : Write(id_, "goal", position) \in Harmless
  BY <1>1 DEF Read, Write, Harmless, Reads
<1>3. /\ \A r \in Harmless : <<r>> \in Seq(Harmless)
      /\ \A q, r \in Harmless : <<q, r>> \in Seq(Harmless)
  OBVIOUS
<1>4. CASE SetSpeed \/ GetWord \/ GetState \/ SetMode \/ SetNeutralPosition
  <2>1. /\ <<Write(id_, "acc", 50), Write(id_, "speed", 0)>> \in Seq(Harmless)
        /\ <<Read(id_, 2)>> \in Seq(Harmless) /\ <<Read(id_, 15)>> \in Seq(Harmless)
        /\ <<Write(id_, "mode", 1)>> \in Seq(Harmless)
        /\ <<Write(id_, "torque", 128)>> \in Seq(Harmless)
    BY <1>2, <1>3
  <2> HIDE DEF Harmlessly
  <2>2. Harmlessly
    BY <1>4, <1>7, <2>1, Zenon DEF SetSpeed, GetWord, GetState, SetMode, SetNeutralPosition
  <2> QED BY <1>1, <2>2, Zenon DEF Harmlessly
<1>5. CASE \E position \in Positions : SetPosition(position)
  <2> HIDE DEF Harmlessly
  <2>1. PICK position \in Positions : SetPosition(position)
    BY <1>5
  <2>2. <<Write(id_, "goal", position)>> \in Seq(Harmless)
    BY <1>2, <1>3
  <2>3. Harmlessly
    BY <1>7, <2>1, <2>2, Zenon DEF SetPosition
  <2> QED BY <1>1, <2>3, Zenon DEF Harmlessly
<1>6. CASE \E id \in FreeIds : SetMotorId(id)
  BY <1>1, <1>6, ServoAssumption DEF SetMotorId
<1> QED BY <1>4, <1>5, <1>6 DEF SingleCall

(* What the calls of an array ask for, and which of them makes the         *)
(* remembered positions stale.                                             *)
ArrayAsks(call, requests) ==
  /\ Begin(call, requests) /\ targets' = targets
  /\ \/ requests \in Seq(Reads) /\ stale' = stale
     \/ requests \in Seq(Harmless) /\ stale' = TRUE

(* The calls of an array: one of them moves the remembered positions.      *)
LEMMA ArrayCallBegins ==
  ASSUME TypeInv, ArrayCall
  PROVE  /\ id_ = 0 /\ targets' \in [Ids -> Positions] /\ stale' \in BOOLEAN
         /\ \/ \E call \in {"GetPositions", "GetStates", "ArraySetPosition",
                            "ArraySetPositions"}, requests \in Seq(Harmless) :
                 ArrayAsks(call, requests)
            \/ Begin("ArraySetPosition", <<SnycWrite(targets')>>) /\ stale' = FALSE
<1> DEFINE Calls == {"GetPositions", "GetStates", "ArraySetPosition", "ArraySetPositions"}
           Asks == \E call \in Calls, requests \in Seq(Harmless) : ArrayAsks(call, requests)
<1>1. \A positions \in [Ids -> Positions] : <<SnycWrite(positions)>> \in Seq(Harmless)
  BY DEF SnycWrite, Harmless
<1>2. targets \in [Ids -> Positions] /\ stale \in BOOLEAN /\ id_ = 0
  BY DEF TypeInv, TypeOK, ArrayCall
<1>6. \A call \in Calls, requests \in Seq(Harmless) : ArrayAsks(call, requests) => Asks
  BY Zenon
<1>7. <<>> \in Seq(Reads) /\ <<>> \in Seq(Harmless)
  OBVIOUS
<1> HIDE DEF Asks
<1>3. CASE (GetPositions \/ GetStates) /\ UNCHANGED <<targets, stale>>
  <2>1. PICK length \in {2, 15}, call \in Calls :
          Begin(call, SetToSeq({Read(id, length) : id \in Ids}))
    BY <1>3 DEF GetPositions, GetStates
  <2>2. ArrayAsks(call, SetToSeq({Read(id, length) : id \in Ids}))
    BY <1>3, <2>1, ReadAllType DEF ArrayAsks
  <2>3. Asks
    BY <1>6, <2>2, ReadAllType
  <2> QED BY <1>2, <1>3, <2>3 DEF Asks
<1>4. CASE \E id \in Ids, position \in Positions : ArraySetPosition(id, position)
  <2>1. PICK id \in Ids, position \in Positions : ArraySetPosition(id, position)
    BY <1>4
  <2>2. CASE position = targets[id]
    <3>1. ArrayAsks("ArraySetPosition", <<>>) /\ stale' = stale /\ targets' = targets
      BY <1>7, <2>1, <2>2 DEF ArraySetPosition, ArrayAsks
    <3>2. Asks
      BY <1>6, <1>7, <3>1
    <3> QED BY <1>2, <3>1, <3>2 DEF Asks
  <2>3. CASE position # targets[id]
    BY <1>2, <2>1, <2>3 DEF ArraySetPosition
  <2> QED BY <2>2, <2>3
<1>5. CASE \E positions \in [Ids -> Positions] : ArraySetPositions(positions)
  <2>1. PICK positions \in [Ids -> Positions] : ArraySetPositions(positions)
    BY <1>5
  <2>2. ArrayAsks("ArraySetPositions", <<SnycWrite(positions)>>) /\ stale' = TRUE
        /\ targets' = targets
    BY <1>1, <2>1 DEF ArraySetPositions, ArrayAsks
  <2>3. Asks
    BY <1>1, <1>6, <2>2
  <2> QED BY <1>2, <2>2, <2>3 DEF Asks
<1> QED BY <1>3, <1>4, <1>5 DEF ArrayCall

(* Every request of a call is one the servos know.                         *)
LEMMA RequestTypes ==
  /\ Harmless \subseteq Requests
  /\ \A positions \in [Ids -> Positions] : <<SnycWrite(positions)>> \in Seq(Requests)
  /\ \A old \in Ids, id \in FreeIds :
       <<Write(old, "lock", 0), Write(old, "id", id), Write(id, "lock", 1)>> \in Seq(Requests)
<1>1. Harmless \subseteq Requests
  BY DEF Requests
<1>2. \A positions \in [Ids -> Positions] : SnycWrite(positions) \in Requests
  BY DEF SnycWrite, Harmless, Requests
<1>3. \A old \in Ids, id \in FreeIds :
        /\ Write(old, "lock", 0) \in Requests /\ Write(old, "id", id) \in Requests
        /\ Write(id, "lock", 1) \in Requests
  BY DEF Write, Requests, Names
<1>4. /\ \A r \in Requests : <<r>> \in Seq(Requests)
      /\ \A p, q, r \in Requests : <<p, q, r>> \in Seq(Requests)
  OBVIOUS
<1> QED BY <1>1, <1>2, <1>3, <1>4

(* A list of harmless requests is a list of requests.                      *)
LEMMA HarmlessSeq ==
  ASSUME NEW requests \in Seq(Harmless)
  PROVE  requests \in Seq(Requests)
<1> DEFINE H == Harmless
           R == Requests
<1>1. H \subseteq R
  BY RequestTypes
<1>2. requests \in Seq(H)
  OBVIOUS
<1> HIDE DEF H, R
<1>3. requests \in Seq(R)
  BY <1>1, <1>2
<1> QED BY <1>3 DEF R

-----------------------------------------------------------------------------
(* The request Send takes, and what it leaves.                             *)
LEMMA SendTakes ==
  ASSUME TypeInv, Send
  PROVE  /\ Head(todo) \in Requests /\ Tail(todo) \in Seq(Requests)
         /\ Len(Tail(todo)) = Len(todo) - 1 /\ made + 1 \in 1..MaxRequests
         /\ todo' = Tail(todo) /\ made' = made + 1 /\ rx' = <<>>
         /\ strays' = {a.req : a \in air}
         /\ UNCHANGED <<port, api, results, outcome, id_, targets>>
<1> DEFINE R == Requests
<1>1. /\ todo \in Seq(R) /\ todo # <<>>
      /\ made \in 0..MaxRequests /\ Len(todo) + made <= MaxRequests
  BY DEF TypeInv, TypeOK, Send
<1> HIDE DEF R
<1>2. Head(todo) \in R /\ Tail(todo) \in Seq(R) /\ Len(Tail(todo)) = Len(todo) - 1
  BY <1>1
<1>3. made + 1 \in 1..MaxRequests
  <2>1. Len(todo) \in Nat /\ Len(Tail(todo)) \in Nat
    BY <1>1, <1>2
  <2> QED BY <1>1, <1>2, <2>1, ServoAssumption
<1> QED BY <1>2, <1>3 DEF Send, Transmit, R

(* An answer is a packet.                                                  *)
LEMMA AnswersType ==
  ASSUME TypeInv, NEW r \in Requests, made + 1 \in 1..MaxRequests
  PROVE  Answers(r) \subseteq Packet
<1>1. Length(r) \in {0, 2, 15}
  BY DEF Length, Requests, Harmless, Reads
<1>2. \A s \in DOMAIN servos : servos[s].id \in Ids \cup FreeIds
  BY DEF TypeInv, TypeOK
<1>3. ASSUME NEW answer \in Answers(r) PROVE answer \in Packet
  <2>1. PICK s \in DOMAIN servos :
          /\ servos[s].id = r.id
          /\ answer = [req |-> made + 1, id |-> r.id, length |-> Length(r), garbled |-> FALSE]
    BY <1>3 DEF Answers
  <2>2. r.id \in Ids \cup FreeIds
    BY <1>2, <2>1
  <2> QED BY <1>1, <2>1, <2>2 DEF Packet
<1> QED BY <1>3

(* A wait that is over leaves one more result.                             *)
LEMMA RepliedType ==
  ASSUME TypeInv, NEW answer \in 0..MaxRequests, Replied(answer), request # NoRequest
  PROVE  results' \in Seq(Reply) /\ strays' = {} /\ request' = NoRequest
<1> DEFINE reply == [asked |-> made, got |-> answer, stray |-> answer \in strays]
<1>1. made \in 1..MaxRequests
  BY DEF TypeInv, TypeOK
<1>2. reply \in Reply
  BY <1>1 DEF Reply
<1> QED BY <1>2 DEF Replied, TypeInv, TypeOK

(* Variables keep their types.                                             *)
LEMMA TypeStep ==
  TypeInv /\ [Next]_vars => TypeInv'
<1> SUFFICES ASSUME TypeInv, [Next]_vars PROVE TypeInv'
  OBVIOUS
<1>1. CASE Connect \/ Disconnect \/ Unplug
  <2>1. /\ port' \in {"closed", "open", "gone"} /\ rx' \in {rx, <<>>}
        /\ UNCHANGED <<callVars, request, made, air, strays, faults, id_, targets, stale,
                       servos>>
    BY <1>1 DEF Connect, Disconnect, Unplug, callVars, busVars
  <2>2. rx' \in Seq(Packet)
    <3>1. rx \in Seq(Packet)
      BY DEF TypeInv, TypeOK
    <3>2. <<>> \in Seq(Packet)
      OBVIOUS
    <3> QED BY <2>1, <3>1, <3>2, Zenon
  <2> QED BY <2>1, <2>2 DEF callVars, TypeInv, TypeOK
<1>2. CASE SingleCall
  <2>1. targets' \in [Ids -> Positions] /\ stale' \in BOOLEAN
    BY <1>2, SingleCallBegins DEF TypeInv, TypeOK
  <2>2. \E call, requests : requests \in Seq(Requests) /\ Begin(call, requests)
    <3>1. CASE \E call \in {"SetSpeed", "GetWord", "GetState", "SetMode", "SetNeutralPosition",
                            "SetPosition"}, requests \in Seq(Harmless) :
                 Begin(call, requests)
      BY <3>1, HarmlessSeq, Zenon
    <3>2. CASE \E id \in FreeIds :
                 Begin("SetMotorId", <<Write(id_, "lock", 0), Write(id_, "id", id),
                                       Write(id, "lock", 1)>>)
      <4>1. id_ \in Ids
        BY <1>2, SingleCallBegins DEF TypeInv, TypeOK
      <4> QED BY <3>2, <4>1, RequestTypes, Zenon
    <3> QED BY <1>2, <3>1, <3>2, SingleCallBegins, Zenon
  <2> QED BY <2>1, <2>2, CallTypes
<1>3. CASE ArrayCall
  <2>1. targets' \in [Ids -> Positions] /\ stale' \in BOOLEAN
    BY <1>3, ArrayCallBegins
  <2>2. \E call, requests : requests \in Seq(Requests) /\ Begin(call, requests)
    BY <1>3, <2>1, ArrayCallBegins, HarmlessSeq, RequestTypes, Zenon DEF ArrayAsks
  <2> QED BY <2>1, <2>2, CallTypes
<1>4. CASE Send
  <2> DEFINE r == Head(todo)
  <2>1. r \in Requests /\ made + 1 \in 1..MaxRequests
    BY <1>4, SendTakes
  <2>2. Answers(r) \subseteq Packet
    BY <2>1, AnswersType
  <2>3. air' \subseteq Packet /\ strays' \subseteq 1..MaxRequests
    BY <1>4, <2>2 DEF Send, Transmit, TypeInv, TypeOK, Packet
  <2>4. faults' \in 0..MaxFaults /\ clean' \in BOOLEAN
    <3>1. \/ faults' = faults /\ clean' \in {clean, FALSE}
          \/ faults < MaxFaults /\ faults' = faults + 1 /\ clean' = FALSE
      BY <1>4 DEF Send, Transmit
    <3>2. faults \in 0..MaxFaults /\ clean \in BOOLEAN
      BY DEF TypeInv, TypeOK
    <3>3. clean' \in BOOLEAN
      BY <3>1, <3>2, Zenon
    <3>5. faults' = faults \/ (faults < MaxFaults /\ faults' = faults + 1)
      BY <3>1, Zenon
    <3>4. faults' \in 0..MaxFaults
      BY <3>2, <3>5, ServoAssumption
    <3> QED BY <3>3, <3>4
  <2>11. stale' \in BOOLEAN
    <3>1. stale' = stale \/ stale' = (stale \/ r.kind = "sync")
      BY <1>4, Zenon DEF Send, Transmit
    <3>2. stale \in BOOLEAN
      BY DEF TypeInv, TypeOK
    <3> QED BY <3>1, <3>2, Zenon
  <2>5. request' \in Requests \cup {NoRequest} /\ request'.kind \in {"none", "read", "write"}
    BY <1>4, <2>1 DEF Send, Transmit, Requests, Harmless, Reads, NoRequest
  <2>6. servos' \in [Ids -> Servo]
    <3>1. servos \in [Ids -> Servo]
      BY DEF TypeInv, TypeOK, Servo, Names
    <3>2. servos' = servos \/ servos' = [s \in DOMAIN servos |-> Carried(servos[s], r)]
      BY <1>4 DEF Send, Transmit
    <3> QED BY <2>1, <3>1, <3>2, CarriedType
  <2>7. Len(todo') + made' <= MaxRequests
    <3>1. Len(todo) + made <= MaxRequests /\ Len(todo) \in Nat /\ made \in Nat
      BY DEF TypeInv, TypeOK
    <3> QED BY <1>4, <3>1, SendTakes
  <2>8. /\ todo' \in Seq(Requests) /\ made' \in 0..MaxRequests /\ rx' = <<>>
        /\ UNCHANGED <<port, results, id_, targets>>
    <3>1. /\ todo' \in Seq(Requests) /\ made' = made + 1 /\ rx' = <<>>
          /\ UNCHANGED <<port, results, id_, targets>>
      BY <1>4, SendTakes, Zenon
    <3>2. made' \in 0..MaxRequests
      BY <2>1, <3>1
    <3> QED BY <3>1, <3>2, Zenon
  <2>9. rx' \in Seq(Packet) /\ made' > 0
    BY <2>1, <2>8, <1>4, SendTakes
  <2>10. servos' \in [Ids -> [id : Ids \cup FreeIds, goal : Positions \cup {-1},
                              locked : BOOLEAN]]
    BY <2>6 DEF Servo, Names
  <2> HIDE DEF r
  <2> QED BY <2>3, <2>4, <2>5, <2>7, <2>8, <2>9, <2>10, <2>11 DEF TypeInv, TypeOK
<1>5. CASE Receive
  <2>1. rx' = Tail(rx) /\ rx # <<>> /\ rx \in Seq(Packet)
    BY <1>5 DEF Receive, TypeInv, TypeOK
  <2>2. Head(rx) \in Packet /\ rx' \in Seq(Packet)
    BY <2>1
  <2>3. (IF Accepted(Head(rx)) THEN Head(rx).req ELSE 0) \in 0..MaxRequests
    BY <2>2, ServoAssumption DEF Packet
  <2>4. results' \in Seq(Reply) /\ strays' = {} /\ request' = NoRequest
    BY <1>5, <2>3, RepliedType DEF Receive
  <2>5. /\ clean' \in BOOLEAN
        /\ UNCHANGED <<port, todo, made, air, faults, id_, targets, stale,
                       servos>>
    BY <1>5, <2>2 DEF Receive, TypeInv, TypeOK, Packet
  <2> QED BY <2>2, <2>4, <2>5 DEF TypeInv, TypeOK, NoRequest
<1>6. CASE Timeout
  <2>1. results' \in Seq(Reply) /\ strays' = {} /\ request' = NoRequest
    BY <1>6, RepliedType, ServoAssumption DEF Timeout, Unanswered
  <2>2. /\ clean' \in BOOLEAN /\ rx' = <<>>
        /\ UNCHANGED <<port, todo, made, air, faults, id_, targets, stale,
                       servos>>
    BY <1>6 DEF Timeout, Unanswered, TypeInv, TypeOK
  <2> QED BY <2>1, <2>2 DEF TypeInv, TypeOK, NoRequest
<1>7. CASE Return
  BY <1>7 DEF Return, busVars, TypeInv, TypeOK, Packet, Reply
<1>8. CASE Arrive
  <2>1. PICK a \in air : air' = air \ {a} /\ rx' = Append(rx, a)
    BY <1>8 DEF Arrive
  <2>2. air' \subseteq Packet /\ rx' \in Seq(Packet)
    BY <2>1 DEF TypeInv, TypeOK
  <2>3. UNCHANGED <<port, callVars, request, made, strays, faults, id_, targets, stale,
                   servos>>
    BY <1>8 DEF Arrive
  <2> QED BY <2>2, <2>3 DEF TypeInv, TypeOK, callVars
<1>9. CASE Disturb
  <2>1. PICK a \in air :
          air' = air \ {a} \/ air' = (air \ {a}) \cup {[a EXCEPT !.garbled = TRUE]}
    BY <1>9 DEF Disturb
  <2>2. air' \subseteq Packet
    <3>1. air \subseteq Packet
      BY DEF TypeInv, TypeOK
    <3>2. \A b \in Packet : [b EXCEPT !.garbled = TRUE] \in Packet
      BY DEF Packet
    <3> QED BY <2>1, <3>1, <3>2
  <2>3. /\ faults' \in 0..MaxFaults /\ clean' \in BOOLEAN
        /\ UNCHANGED <<port, todo, results, request, made, rx, strays, id_, targets, stale,
                       servos>>
    BY <1>9, ServoAssumption DEF Disturb, TypeInv, TypeOK
  <2> QED BY <2>2, <2>3 DEF TypeInv, TypeOK
<1>10. CASE UNCHANGED vars
  BY <1>10 DEF vars, callVars, busVars, TypeInv, TypeOK
<1> QED BY <1>1, <1>2, <1>3, <1>4, <1>5, <1>6, <1>7, <1>8, <1>9, <1>10 DEF Next, Driver

(* Variables have their types.                                             *)
LEMMA TypeInvariant == Spec => []TypeInv
<1>1. Init => TypeInv
  <2> SUFFICES ASSUME Init PROVE TypeInv
    OBVIOUS
  <2>1. request = NoRequest /\ request.kind = "none" /\ todo = <<>> /\ made = 0 /\ rx = <<>>
        /\ results = <<>>
    BY DEF Init, NoRequest
  <2>2. todo \in Seq(Requests) /\ Len(todo) = 0 /\ rx \in Seq(Packet) /\ results \in Seq(Reply)
    BY <2>1
  <2>3. /\ targets \in [Ids -> Positions] /\ stale \in BOOLEAN
        /\ servos \in [Ids -> [id : Ids \cup FreeIds, goal : Positions \cup {-1},
                               locked : BOOLEAN]]
    BY ServoAssumption DEF Init
  <2>4. /\ port = "closed" /\ air = {} /\ strays = {} /\ faults = 0 /\ clean = TRUE
        /\ id_ \in Ids \cup {0}
    BY DEF Init
  <2> QED BY <2>1, <2>2, <2>3, <2>4, ServoAssumption DEF TypeInv, TypeOK
<1> QED BY <1>1, TypeStep, PTL DEF Spec

(* Every call, answer and servo is of the kind the driver works with.      *)
THEOREM TypeCorrect == Spec => []TypeOK
<1>1. TypeInv => TypeOK
  BY DEF TypeInv
<1> QED BY <1>1, TypeInvariant, PTL

-----------------------------------------------------------------------------
(* The fields of the answers on the line.                                  *)
LEMMA InFlightType == TypeInv => \A a \in InFlight : a \in Packet /\ a.req \in Nat
<1> SUFFICES ASSUME TypeInv, NEW a \in InFlight PROVE a \in Packet /\ a.req \in Nat
  OBVIOUS
<1>1. air \subseteq Packet /\ rx \in Seq(Packet)
  BY DEF TypeInv, TypeOK
<1>2. a \in Packet
  BY <1>1 DEF InFlight
<1> QED BY <1>2, ServoAssumption DEF Packet

(* What a wait appends, and that nothing before it changes.                *)
LEMMA RepliedAppends ==
  ASSUME TypeInv, NEW answer, Replied(answer)
  PROVE  /\ Len(results') = Len(results) + 1
         /\ \A i \in DOMAIN results : i \in DOMAIN results' /\ results'[i] = results[i]
         /\ \A i \in DOMAIN results' :
              \/ i \in DOMAIN results
              \/ /\ i = Len(results) + 1
                 /\ results'[i] = [asked |-> made, got |-> answer, stray |-> answer \in strays]
<1> DEFINE reply == [asked |-> made, got |-> answer, stray |-> answer \in strays]
<1>1. results \in Seq(Reply) /\ results' = Append(results, reply)
  BY DEF TypeInv, TypeOK, Replied
<1> HIDE DEF reply
<1>2. /\ Len(results') = Len(results) + 1
      /\ \A i \in DOMAIN results : i \in DOMAIN results' /\ results'[i] = results[i]
      /\ \A i \in DOMAIN results' :
           i \in DOMAIN results \/ (i = Len(results) + 1 /\ results'[i] = reply)
  BY <1>1
<1> QED BY <1>2 DEF reply

(* A wait that ends with an answer awaited, or with none, keeps the rule.  *)
LEMMA RepliedAsExpected ==
  ASSUME TypeInv, AnswerIsExpected, NEW answer, Replied(answer),
         answer = 0 \/ answer = made \/ answer \in strays
  PROVE  AnswerIsExpected'
<1> SUFFICES ASSUME NEW i \in DOMAIN results'
             PROVE  \/ results'[i].got = 0 \/ results'[i].got = results'[i].asked
                    \/ results'[i].stray
  BY DEF AnswerIsExpected
<1>1. CASE i \in DOMAIN results
  BY <1>1, RepliedAppends DEF AnswerIsExpected
<1>2. CASE i \notin DOMAIN results
  <2>1. results'[i] = [asked |-> made, got |-> answer, stray |-> answer \in strays]
    BY <1>2, RepliedAppends
  <2>2. /\ results'[i].asked = made /\ results'[i].got = answer
        /\ results'[i].stray = (answer \in strays)
    BY <2>1
  <2> QED BY <2>2, Zenon
<1> QED BY <1>1, <1>2

(* How the answers on the line can change.                                 *)
LEMMA InFlightStep ==
  ASSUME TypeInv, [Next]_vars
  PROVE  \/ /\ Send /\ request = NoRequest
            /\ \A a \in InFlight' : \/ a \in air /\ a.req \in strays'
                                    \/ a \in Answers(Head(todo))
         \/ /\ ~Send /\ made' = made
            /\ \A a \in InFlight' : \E b \in InFlight : a.req = b.req
            /\ \/ request' = request /\ strays' = strays
               \/ request' = NoRequest
<1>1. CASE Send
  <2>1. rx' = <<>> /\ strays' = {a.req : a \in air}
    BY <1>1, SendTakes
  <2>2. air' = air \/ air' = air \cup Answers(Head(todo))
    BY <1>1 DEF Send, Transmit
  <2>3. InFlight' = air'
    BY <2>1 DEF InFlight
  <2> QED BY <1>1, <2>1, <2>2, <2>3 DEF Send
<1> SUFFICES ASSUME ~Send
             PROVE  /\ made' = made
                    /\ \A a \in InFlight' : \E b \in InFlight : a.req = b.req
                    /\ \/ request' = request /\ strays' = strays
                       \/ request' = NoRequest
  BY <1>1, Zenon
<1>2. CASE SingleCall \/ ArrayCall
  <2>1. UNCHANGED busVars
    BY <1>2, SingleCallBegins, ArrayCallBegins DEF Begin, ArrayAsks
  <2> QED BY <2>1 DEF busVars, InFlight
<1>3. CASE Connect \/ Disconnect \/ Unplug \/ Return \/ UNCHANGED vars
  <2>1. rx' \in {rx, <<>>} /\ UNCHANGED <<request, made, air, strays>>
    BY <1>3 DEF Connect, Disconnect, Unplug, Return, busVars, vars
  <2>2. CASE rx' = rx
    BY <2>1, <2>2 DEF InFlight
  <2>3. CASE rx' = <<>>
    BY <2>1, <2>3 DEF InFlight
  <2> QED BY <2>1, <2>2, <2>3, Zenon
<1>4. CASE Receive
  <2>1. /\ rx' = Tail(rx) /\ rx # <<>> /\ rx \in Seq(Packet)
        /\ request' = NoRequest /\ made' = made /\ air' = air
    BY <1>4 DEF Receive, Replied, TypeInv, TypeOK
  <2>2. \A i \in DOMAIN Tail(rx) : i + 1 \in DOMAIN rx /\ Tail(rx)[i] = rx[i + 1]
    BY <2>1
  <2> QED BY <2>1, <2>2 DEF InFlight
<1>5. CASE Timeout
  <2>1. rx' = <<>> /\ request' = NoRequest /\ made' = made /\ air' = air
    BY <1>5 DEF Timeout, Unanswered, Replied
  <2> QED BY <2>1 DEF InFlight
<1>6. CASE Arrive
  <2>1. PICK a \in air : air' = air \ {a} /\ rx' = Append(rx, a)
    BY <1>6 DEF Arrive
  <2>2. rx \in Seq(Packet) /\ a \in Packet
    BY DEF TypeInv, TypeOK
  <2>3. \A i \in DOMAIN rx' : rx'[i] = a \/ (i \in DOMAIN rx /\ rx'[i] = rx[i])
    BY <2>1, <2>2
  <2>4. InFlight' \subseteq InFlight
    BY <2>1, <2>3 DEF InFlight
  <2>5. UNCHANGED <<request, made, strays>>
    BY <1>6 DEF Arrive
  <2> QED BY <2>4, <2>5
<1>7. CASE Disturb
  <2>1. PICK a \in air :
          air' = air \ {a} \/ air' = (air \ {a}) \cup {[a EXCEPT !.garbled = TRUE]}
    BY <1>7 DEF Disturb
  <2>2. a \in Packet
    BY DEF TypeInv, TypeOK
  <2>3. [a EXCEPT !.garbled = TRUE].req = a.req
    BY <2>2 DEF Packet
  <2>4. UNCHANGED <<request, made, strays, rx>>
    BY <1>7 DEF Disturb
  <2>5. \A b \in air' : \E c \in air : b.req = c.req
    BY <2>1, <2>3
  <2> QED BY <2>4, <2>5 DEF InFlight
<1> QED BY <1>2, <1>3, <1>4, <1>5, <1>6, <1>7 DEF Next, Driver

(* An answer that is taken answers the request, or was on its way before.  *)
LEMMA AnswerStep ==
  TypeInv /\ AnswerInv /\ [Next]_vars => AnswerInv'
<1> SUFFICES ASSUME TypeInv, AnswerInv, [Next]_vars PROVE AnswerInv'
  OBVIOUS
<1>1. made \in Nat /\ \A a \in InFlight : a.req \in Nat /\ a.req <= made
  BY InFlightType DEF TypeInv, TypeOK, AnswerInv
<1>2. /\ \A a \in InFlight' : a.req <= made'
      /\ request' # NoRequest => \A a \in InFlight' : a.req \in strays' \cup {made'}
  <2>1. CASE Send
    <3>1. made' = made + 1 /\ \A a \in Answers(Head(todo)) : a.req = made + 1
      BY <2>1, SendTakes DEF Answers
    <3>2. \A a \in InFlight' : \/ a \in air /\ a.req \in strays'
                               \/ a \in Answers(Head(todo))
      BY <2>1, InFlightStep
    <3>3. air \subseteq InFlight
      BY DEF InFlight
    <3> QED BY <1>1, <3>1, <3>2, <3>3
  <2>2. CASE ~Send
    <3>1. /\ made' = made
          /\ \A a \in InFlight' : \E b \in InFlight : a.req = b.req
          /\ \/ request' = request /\ strays' = strays
             \/ request' = NoRequest
      BY <2>2, InFlightStep
    <3>2. request # NoRequest => \A a \in InFlight : a.req \in strays \cup {made}
      BY DEF AnswerInv
    <3> QED BY <1>1, <3>1, <3>2
  <2> QED BY <2>1, <2>2
<1>3. AnswerIsExpected'
  <2>1. AnswerIsExpected
    BY DEF AnswerInv
  <2>2. CASE Receive
    <3>1. rx # <<>> /\ rx \in Seq(Packet)
      BY <2>2 DEF Receive, TypeInv, TypeOK
    <3>2. Head(rx) \in InFlight
      BY <3>1 DEF InFlight
    <3>3. Head(rx).req = made \/ Head(rx).req \in strays
      BY <2>2, <3>2 DEF Receive, AnswerInv
    <3>4. Replied(IF Accepted(Head(rx)) THEN Head(rx).req ELSE 0)
      BY <2>2 DEF Receive
    <3> HIDE DEF Accepted
    <3> QED BY <2>1, <3>3, <3>4, RepliedAsExpected
  <2>3. CASE Timeout
    BY <2>1, <2>3, RepliedAsExpected DEF Timeout, Unanswered
  <2>4. CASE Return
    BY <2>4 DEF Return, AnswerIsExpected
  <2>5. CASE Send
    BY <2>1, <2>5, SendTakes DEF AnswerIsExpected
  <2>6. CASE SingleCall \/ ArrayCall
    <3>1. results' = results
      BY <2>6, SingleCallBegins, ArrayCallBegins DEF Begin, ArrayAsks
    <3> QED BY <2>1, <3>1 DEF AnswerIsExpected
  <2>7. CASE Connect \/ Disconnect \/ Unplug \/ Arrive \/ Disturb \/ UNCHANGED vars
    <3>1. results' = results
      BY <2>7 DEF Connect, Disconnect, Unplug, Arrive, Disturb, vars, callVars
    <3> QED BY <2>1, <3>1 DEF AnswerIsExpected
  <2> QED BY <2>2, <2>3, <2>4, <2>5, <2>6, <2>7 DEF Next, Driver
<1> QED BY <1>2, <1>3 DEF AnswerInv

(* While an answer is awaited, what is on the line is that answer or was   *)
(* there when the request was made: rFlush and the timeout, which empties  *)
(* the buffer, leave no other.                                             *)
LEMMA AnswerInvariant == Spec => []AnswerInv
<1>1. Init => AnswerInv
  BY DEF Init, AnswerInv, InFlight, AnswerIsExpected
<1> QED BY <1>1, TypeInvariant, AnswerStep, PTL DEF Spec

(* An answer that counts for a request is its own, or it is the late one   *)
(* of a request given up before, whatever was lost, garbled or late.       *)
THEOREM AnswersExpected == Spec => []AnswerIsExpected
<1>1. AnswerInv => AnswerIsExpected
  BY DEF AnswerInv
<1> QED BY <1>1, AnswerInvariant, PTL

-----------------------------------------------------------------------------
(* Between calls there is nothing left to ask.                             *)
LEMMA IdleStep ==
  TypeInv /\ IdleInv /\ [Next]_vars => IdleInv'
<1> SUFFICES ASSUME TypeInv, IdleInv, [Next]_vars PROVE IdleInv'
  OBVIOUS
<1>1. CASE Connect \/ Disconnect \/ Unplug \/ Arrive \/ Disturb \/ UNCHANGED vars
  BY <1>1 DEF Connect, Disconnect, Unplug, Arrive, Disturb, vars, callVars, busVars, IdleInv
<1>2. CASE SingleCall
  <2>1. api' # "none"
    BY <1>2, SingleCallBegins DEF Begin
  <2> QED BY <2>1 DEF IdleInv
<1>3. CASE ArrayCall
  <2>1. api' # "none"
    BY <1>3, ArrayCallBegins DEF Begin, ArrayAsks
  <2> QED BY <2>1 DEF IdleInv
<1>4. CASE Send
  BY <1>4, SendTakes DEF Send, IdleInv
<1>5. CASE Receive
  BY <1>5 DEF Receive, IdleInv
<1>6. CASE Timeout
  BY <1>6 DEF Timeout, Unanswered, IdleInv
<1>7. CASE Return
  BY <1>7 DEF Return, busVars, IdleInv
<1> QED BY <1>1, <1>2, <1>3, <1>4, <1>5, <1>6, <1>7 DEF Next, Driver

(* The same of all behaviours.                                             *)
LEMMA IdleInvariant == Spec => []IdleInv
<1>1. Init => IdleInv
  BY DEF Init, IdleInv
<1> QED BY <1>1, TypeInvariant, IdleStep, PTL DEF Spec

(* A harmless request leaves ids and locks alone.                          *)
LEMMA HarmlessKeeps ==
  ASSUME NEW servo \in Servo, NEW r \in Harmless
  PROVE  /\ Carried(servo, r).id = servo.id
         /\ Carried(servo, r).locked = servo.locked
<1> USE DEF Servo, Names
<1>1. r.addr # "lock" /\ r.addr # "id"
  BY DEF Harmless, Reads
<1> QED BY <1>1 DEF Carried

(* What the requests of SetMotorId do to a servo.                          *)
LEMMA EpromCarried ==
  ASSUME NEW servo \in Servo, NEW old, NEW id
  PROVE  /\ servo.id # old => Carried(servo, Write(old, "lock", 0)) = servo
         /\ servo.id = old => ~Carried(servo, Write(old, "lock", 0)).locked
         /\ servo.id # old => Carried(servo, Write(old, "id", id)) = servo
         /\ servo.id = old /\ ~servo.locked => Carried(servo, Write(old, "id", id)).id = id
         /\ servo.id # id => Carried(servo, Write(id, "lock", 1)) = servo
         /\ servo.id = id => Carried(servo, Write(id, "lock", 1)).locked
<1>1. /\ servo.id # old => Carried(servo, Write(old, "lock", 0)) = servo
      /\ servo.id # old => Carried(servo, Write(old, "id", id)) = servo
      /\ servo.id # id => Carried(servo, Write(id, "lock", 1)) = servo
  BY DEF Carried, Write
<1>2. /\ servo.id = old => Carried(servo, Write(old, "lock", 0)) = [servo EXCEPT !.locked = (0 = 1)]
      /\ servo.id = id => Carried(servo, Write(id, "lock", 1)) = [servo EXCEPT !.locked = (1 = 1)]
  BY DEF Carried, Write
<1>3. /\ ~[servo EXCEPT !.locked = (0 = 1)].locked
      /\ [servo EXCEPT !.locked = (1 = 1)].locked
  <2>1. \A b : [servo EXCEPT !.locked = b].locked = b
    BY DEF Servo
  <2>2. 0 # 1
    OBVIOUS
  <2> QED BY <2>1, <2>2, Zenon
<1>4. servo.id = old /\ ~servo.locked =>
        Carried(servo, Write(old, "id", id)) = [servo EXCEPT !.id = id]
  BY DEF Carried, Write
<1>5. [servo EXCEPT !.id = id].id = id
  BY DEF Servo
<1> QED BY <1>1, <1>2, <1>3, <1>4, <1>5, Zenon

(* A request reaches every servo, or the call is no longer clean.          *)
LEMMA SendCarries ==
  ASSUME TypeInv, Send
  PROVE  \/ /\ clean' = clean /\ stale' = stale
            /\ \A s \in Ids : servos'[s] = Carried(servos[s], Head(todo))
         \/ /\ ~clean' /\ stale' = (stale \/ Head(todo).kind = "sync")
            /\ servos' = servos
<1>1. DOMAIN servos = Ids
  BY DEF TypeInv, TypeOK
<1> QED BY <1>1 DEF Send, Transmit

(* The servos and their names.                                             *)
LEMMA ServoTypes ==
  ASSUME TypeInv
  PROVE  /\ \A s \in Ids : servos[s] \in Servo
         /\ DOMAIN servos = Ids
BY DEF TypeInv, TypeOK, Servo, Names

(* Only Send changes a servo, and no step the id the driver holds.         *)
LEMMA OtherSteps ==
  ASSUME TypeInv, [Next]_vars, ~Send
  PROVE  UNCHANGED <<servos, id_>>
<1>1. CASE SingleCall \/ ArrayCall
  BY <1>1, SingleCallBegins, ArrayCallBegins DEF Begin, ArrayAsks
<1>2. CASE Connect \/ Disconnect \/ Unplug \/ Arrive \/ Disturb \/ UNCHANGED vars
  BY <1>2 DEF Connect, Disconnect, Unplug, Arrive, Disturb, vars
<1>3. CASE Receive \/ Timeout \/ Return
  BY <1>3 DEF Receive, Timeout, Unanswered, Return
<1> QED BY <1>1, <1>2, <1>3 DEF Next, Driver

(* No request is for another servo's id or lock.                           *)
LEMMA OthersStep ==
  TypeInv /\ EpromInv /\ [Next]_vars => OthersKept'
<1> SUFFICES ASSUME TypeInv, EpromInv, [Next]_vars PROVE OthersKept'
  OBVIOUS
<1>1. CASE ~Send
  BY <1>1, OtherSteps DEF OthersKept, EpromInv
<1>2. CASE Send
  <2>1. id_' = id_
    BY <1>2, SendTakes
  <2> SUFFICES ASSUME NEW s \in Ids, s # id_
               PROVE  servos'[s].id = s /\ servos'[s].locked
    BY <2>1 DEF OthersKept
  <2>2. servos[s].id = s /\ servos[s].locked /\ servos[s] \in Servo
    BY ServoTypes DEF OthersKept, EpromInv
  <2>3. SUFFICES ASSUME servos'[s] = Carried(servos[s], Head(todo))
                 PROVE  servos'[s].id = s /\ servos'[s].locked
    BY <1>2, <2>2, SendCarries
  <2>4. CASE api # "SetMotorId"
    <3>1. Head(todo) \in Harmless
      <4> DEFINE H == Harmless
      <4>1. todo \in Seq(H) /\ todo # <<>>
        BY <1>2, <2>4 DEF EpromInv, Send
      <4> HIDE DEF H
      <4>2. Head(todo) \in H
        BY <4>1
      <4> QED BY <4>2 DEF H
    <3>2. /\ Carried(servos[s], Head(todo)).id = servos[s].id
          /\ Carried(servos[s], Head(todo)).locked = servos[s].locked
      BY <2>2, <3>1, HarmlessKeeps
    <3> QED BY <2>2, <2>3, <3>2, Zenon
  <2>5. CASE api = "SetMotorId"
    <3>1. PICK id \in FreeIds : Asked(id) \/ Unlocked(id) \/ Renamed(id) \/ Relocked
      BY <2>5 DEF EpromInv
    <3>2. Head(todo) \in {Write(id_, "lock", 0), Write(id_, "id", id), Write(id, "lock", 1)}
      BY <1>2, <3>1 DEF Send, Asked, Unlocked, Renamed, Relocked
    <3>3. s # id
      BY ServoAssumption
    <3>4. /\ Carried(servos[s], Write(id_, "lock", 0)) = servos[s]
          /\ Carried(servos[s], Write(id_, "id", id)) = servos[s]
          /\ Carried(servos[s], Write(id, "lock", 1)) = servos[s]
      BY <2>2, <3>3, EpromCarried
    <3>5. Carried(servos[s], Head(todo)) = servos[s]
      BY <3>2, <3>4
    <3> QED BY <2>2, <2>3, <3>5
  <2> QED BY <2>4, <2>5
<1> QED BY <1>1, <1>2

(* Send takes SetMotorId from one of its requests to the next.             *)
LEMMA EpromSend ==
  ASSUME TypeInv, AnswerInv, OthersKept, [Next]_vars, Send, id_ \in Ids, NEW id \in FreeIds,
         Asked(id) \/ Unlocked(id) \/ Renamed(id) \/ Relocked
  PROVE  (Asked(id) \/ Unlocked(id) \/ Renamed(id) \/ Relocked)'
<1>1. servos[id_] \in Servo
  BY ServoTypes
<1>2. /\ request = NoRequest /\ Pending = 0 /\ results' = results /\ id_' = id_
      /\ todo' = Tail(todo)
  BY SendTakes DEF Send, Pending
<1>3. \/ /\ clean' = clean
         /\ servos'[id_] = Carried(servos[id_], Head(todo))
      \/ ~clean' /\ servos' = servos
  BY SendCarries
<1>4. Head(todo).kind = "write" => request' # NoRequest /\ Pending' = 1
  BY DEF Send, Transmit, NoRequest, Pending
<1>5. \A a, b, c : Write(a, b, c).kind = "write"
  BY DEF Write
<1>6. CASE Asked(id)
  <2>1. /\ Head(todo) = Write(id_, "lock", 0) /\ Len(results) = 0
        /\ todo' = <<Write(id_, "id", id), Write(id, "lock", 1)>>
    BY <1>2, <1>6 DEF Asked
  <2>2. clean' /\ servos'[id_].id = id_ => ~servos'[id_].locked
    BY <1>1, <1>3, <2>1, EpromCarried
  <2>3. Len(results') = 1 - Pending'
    BY <1>2, <1>4, <1>5, <2>1
  <2>4. Unlocked(id)'
    BY <1>2, <2>1, <2>2, <2>3 DEF Unlocked, Write
  <2> QED BY <2>4
<1>7. CASE Unlocked(id)
  <2>1. /\ Head(todo) = Write(id_, "id", id) /\ Len(results) = 1
        /\ todo' = <<Write(id, "lock", 1)>>
    BY <1>2, <1>7 DEF Unlocked
  <2>2. ASSUME clean', Answered' PROVE servos'[id_].id = id
    <3>1. clean /\ servos'[id_] = Carried(servos[id_], Head(todo))
      BY <1>3, <2>2
    <3>2. PICK a \in InFlight' : a.req = made'
      BY <1>4, <1>5, <2>1, <2>2 DEF Answered
    <3>3. made' = made + 1 /\ made \in Nat
      BY SendTakes DEF TypeInv, TypeOK
    <3>4. a \in Answers(Head(todo))
      <4>1. air \subseteq InFlight
        BY DEF InFlight
      <4>2. \A b \in air : b.req \in Nat /\ b.req <= made
        BY <4>1, InFlightType DEF AnswerInv
      <4>3. a \in air \/ a \in Answers(Head(todo))
        BY InFlightStep
      <4> QED BY <3>2, <3>3, <4>2, <4>3
    <3>5. PICK s \in Ids : servos[s].id = Head(todo).id
      BY <3>4, ServoTypes DEF Answers
    <3>6. Head(todo).id = id_
      BY <2>1 DEF Write
    <3>7. servos[id_].id = id_
      BY <3>5, <3>6 DEF OthersKept
    <3>8. ~servos[id_].locked
      BY <1>7, <3>1, <3>7 DEF Unlocked
    <3> QED BY <1>1, <2>1, <3>1, <3>7, <3>8, EpromCarried
  <2>3. Len(results') = 2 - Pending'
    BY <1>2, <1>4, <1>5, <2>1
  <2>4. Renamed(id)'
    BY <1>2, <2>1, <2>2, <2>3 DEF Renamed, Write
  <2> QED BY <2>4
<1>8. CASE Renamed(id)
  <2>1. Head(todo) = Write(id, "lock", 1) /\ Len(results) = 2 /\ todo' = <<>>
    BY <1>2, <1>8 DEF Renamed
  <2>2. ASSUME clean', results'[2].got # 0 PROVE servos'[id_].locked
    <3>1. clean /\ servos'[id_] = Carried(servos[id_], Head(todo))
      BY <1>3, <2>2
    <3>2. Answered
      BY <1>2, <2>2 DEF Answered
    <3>3. servos[id_].id = id
      BY <1>8, <3>1, <3>2 DEF Renamed
    <3>4. \A servo \in Servo :
            servo.id = id => Carried(servo, Write(id, "lock", 1)).locked
      BY EpromCarried
    <3>5. Carried(servos[id_], Write(id, "lock", 1)).locked
      BY <1>1, <3>3, <3>4
    <3> QED BY <2>1, <3>1, <3>5
  <2>3. Len(results') = 3 - Pending'
    BY <1>2, <1>4, <1>5, <2>1
  <2>4. Relocked'
    BY <1>2, <2>1, <2>2, <2>3 DEF Relocked
  <2> QED BY <2>4
<1>9. ~Relocked
  BY DEF Send, Relocked
<1> QED BY <1>6, <1>7, <1>8, <1>9

(* A wait that is over: what it gave the call is what it had waited for.   *)
LEMMA EpromWaitOver ==
  ASSUME TypeInv, [Next]_vars, Receive \/ Timeout, NEW id \in FreeIds,
         Asked(id) \/ Unlocked(id) \/ Renamed(id) \/ Relocked
  PROVE  (Asked(id) \/ Unlocked(id) \/ Renamed(id) \/ Relocked)'
<1>1. /\ request # NoRequest /\ request' = NoRequest /\ Pending = 1 /\ Pending' = 0
      /\ UNCHANGED <<todo, made, id_, servos>> /\ (clean' => clean)
  BY DEF Receive, Timeout, Unanswered, Replied, Pending
<1>2. PICK answer \in Nat :
        Replied(answer) /\ (clean' /\ answer # 0 => \E a \in InFlight : a.req = made)
  <2>1. CASE Timeout
    BY <2>1 DEF Timeout, Unanswered
  <2>2. CASE Receive
    <3>1. rx # <<>> /\ rx \in Seq(Packet)
      BY <2>2 DEF Receive, TypeInv, TypeOK
    <3>2. Head(rx) \in InFlight
      BY <3>1 DEF InFlight
    <3>3. Head(rx).req \in Nat
      BY <3>2, InFlightType
    <3>4. /\ Replied(IF Accepted(Head(rx)) THEN Head(rx).req ELSE 0)
          /\ clean' => Head(rx).req = made
      BY <2>2 DEF Receive
    <3>5. (IF Accepted(Head(rx)) THEN Head(rx).req ELSE 0) \in Nat
      BY <3>3
    <3> QED BY <3>2, <3>4, <3>5, Zenon
  <2> QED BY <2>1, <2>2
<1>3. /\ Len(results') = Len(results) + 1
      /\ \A i \in DOMAIN results : results'[i] = results[i]
      /\ results'[Len(results) + 1].got = answer
  <2>1. results \in Seq(Reply)
    BY DEF TypeInv, TypeOK
  <2>2. results' = Append(results, [asked |-> made, got |-> answer,
                                    stray |-> answer \in strays])
    BY <1>2 DEF Replied
  <2> DEFINE reply == [asked |-> made, got |-> answer, stray |-> answer \in strays]
  <2>3. reply.got = answer
    OBVIOUS
  <2> HIDE DEF reply
  <2>4. results' = Append(results, reply)
    BY <2>2 DEF reply
  <2> QED BY <2>1, <2>3, <2>4
<1>4. ~Asked(id)
  BY <1>1 DEF Asked
<1>5. CASE Unlocked(id)
  <2>1. Unlocked(id)'
    BY <1>1, <1>3, <1>5 DEF Unlocked
  <2> QED BY <2>1
<1>6. CASE Renamed(id)
  <2>1. Len(results) = 1 /\ Len(results') = 2 /\ results'[2].got = answer
    BY <1>1, <1>3, <1>6 DEF Renamed
  <2>2. clean' /\ Answered' => clean /\ Answered
    BY <1>1, <1>2, <2>1 DEF Answered
  <2>3. Renamed(id)'
    BY <1>1, <1>6, <2>1, <2>2 DEF Renamed
  <2> QED BY <2>3
<1>7. CASE Relocked
  <2>1. Len(results) = 2 /\ Len(results') = 3
    BY <1>1, <1>3, <1>7 DEF Relocked
  <2>2. results'[2] = results[2]
    BY <1>3, <2>1 DEF TypeInv, TypeOK
  <2>3. Relocked'
    BY <1>1, <1>7, <2>1, <2>2 DEF Relocked
  <2> QED BY <2>3
<1> QED BY <1>4, <1>5, <1>6, <1>7

(* What happens on the line while SetMotorId runs.                         *)
LEMMA EpromLine ==
  ASSUME TypeInv, [Next]_vars, api = "SetMotorId", NEW id \in FreeIds,
         Connect \/ Disconnect \/ Unplug \/ Arrive \/ Disturb \/ UNCHANGED vars,
         Asked(id) \/ Unlocked(id) \/ Renamed(id) \/ Relocked
  PROVE  (Asked(id) \/ Unlocked(id) \/ Renamed(id) \/ Relocked)'
<1>1. /\ UNCHANGED <<todo, request, results, made, id_, servos>> /\ (clean' => clean)
      /\ Pending' = Pending
  <2>1. UNCHANGED <<todo, request, results, made, id_, servos>>
    BY DEF Connect, Disconnect, Unplug, Arrive, Disturb, vars, callVars, busVars
  <2>2. CASE Disturb
    BY <2>1, <2>2 DEF Disturb, Pending
  <2>3. CASE ~Disturb
    <3>1. clean' = clean
      BY <2>3 DEF Connect, Disconnect, Unplug, Arrive, vars, callVars
    <3> QED BY <2>1, <3>1 DEF Pending
  <2> QED BY <2>2, <2>3
<1>2. Answered' => Answered
  <2>1. request = NoRequest \/ \A a \in InFlight' : \E b \in InFlight : a.req = b.req
    <3>1. ~Send
      BY <1>1 DEF Send, Transmit, TypeInv, TypeOK
    <3> QED BY <3>1, InFlightStep
  <2> QED BY <1>1, <2>1 DEF Answered
<1>3. CASE Asked(id)
  BY <1>1, <1>3 DEF Asked
<1>4. CASE Unlocked(id)
  BY <1>1, <1>4 DEF Unlocked
<1>5. CASE Renamed(id)
  BY <1>1, <1>2, <1>5 DEF Renamed
<1>6. CASE Relocked
  BY <1>1, <1>6 DEF Relocked
<1> QED BY <1>3, <1>4, <1>5, <1>6

(* A call begins with its requests.                                        *)
LEMMA EpromBegin ==
  ASSUME TypeInv, IdleInv, SingleCall \/ ArrayCall
  PROVE  IF api' = "SetMotorId"
         THEN id_' \in Ids /\ \E id \in FreeIds : Asked(id)'
         ELSE todo' \in Seq(Harmless)
<1>1. CASE SingleCall
  <2>1. CASE \E call \in {"SetSpeed", "GetWord", "GetState", "SetMode", "SetNeutralPosition",
                          "SetPosition"}, requests \in Seq(Harmless) :
               Begin(call, requests)
    <3>1. api' # "SetMotorId" /\ todo' \in Seq(Harmless)
      BY <2>1 DEF Begin
    <3> QED BY <3>1
  <2>2. CASE \E id \in FreeIds :
               Begin("SetMotorId", <<Write(id_, "lock", 0), Write(id_, "id", id),
                                     Write(id, "lock", 1)>>)
    <3>1. PICK id \in FreeIds :
            Begin("SetMotorId", <<Write(id_, "lock", 0), Write(id_, "id", id),
                                  Write(id, "lock", 1)>>)
      BY <2>2
    <3>2. /\ api = "none" /\ api' = "SetMotorId"
          /\ todo' = <<Write(id_, "lock", 0), Write(id_, "id", id), Write(id, "lock", 1)>>
          /\ UNCHANGED <<request, results, id_>>
      BY <3>1 DEF Begin, busVars
    <3>3. Asked(id)'
      BY <3>2 DEF Asked, IdleInv, Write
    <3>4. id_' \in Ids
      BY <1>1, <3>2, SingleCallBegins DEF TypeInv, TypeOK
    <3> QED BY <3>2, <3>3, <3>4
  <2> QED BY <1>1, <2>1, <2>2, SingleCallBegins, Zenon
<1>2. CASE ArrayCall
  <2>1. CASE \E call \in {"GetPositions", "GetStates", "ArraySetPosition",
                          "ArraySetPositions"}, requests \in Seq(Harmless) :
               ArrayAsks(call, requests)
    <3>1. api' # "SetMotorId" /\ todo' \in Seq(Harmless)
      BY <2>1 DEF ArrayAsks, Begin
    <3> QED BY <3>1
  <2>2. CASE Begin("ArraySetPosition", <<SnycWrite(targets')>>)
    <3>1. api' # "SetMotorId" /\ todo' = <<SnycWrite(targets')>>
      BY <2>2 DEF Begin
    <3>2. SnycWrite(targets') \in Harmless
      BY <1>2, ArrayCallBegins DEF SnycWrite, Harmless
    <3> QED BY <3>1, <3>2
  <2> QED BY <1>2, <2>1, <2>2, ArrayCallBegins, Zenon
<1> QED BY <1>1, <1>2

(* The last step of the call tells how it ended; no request comes later.   *)
LEMMA RelockedStep ==
  TypeInv /\ IdleInv /\ EpromInv /\ [Next]_vars => EpromRelocked'
<1> SUFFICES ASSUME TypeInv, IdleInv, EpromInv, [Next]_vars PROVE EpromRelocked'
  OBVIOUS
<1>1. CASE Return
  <2>1. /\ outcome' = [api |-> api, ok |-> Acknowledged, clean |-> clean]
        /\ todo = <<>> /\ request = NoRequest /\ UNCHANGED <<id_, servos>>
    BY <1>1 DEF Return
  <2>2. /\ outcome'.api = api /\ outcome'.ok = Acknowledged /\ outcome'.clean = clean
    BY <2>1
  <2> SUFFICES ASSUME api = "SetMotorId", Acknowledged, clean
               PROVE  \A s \in DOMAIN servos : servos[s].locked
    BY <2>1, <2>2 DEF EpromRelocked
  <2>3. results[2].got # 0
    BY DEF Acknowledged
  <2>4. Relocked
    BY <2>1 DEF EpromInv, Asked, Unlocked, Renamed
  <2>5. servos[id_].locked
    BY <2>3, <2>4 DEF Relocked
  <2> QED BY <2>5, ServoTypes DEF EpromInv, OthersKept
<1>2. CASE SingleCall \/ ArrayCall
  <2>1. api' # "none"
    BY <1>2, SingleCallBegins, ArrayCallBegins DEF Begin, ArrayAsks
  <2> QED BY <2>1 DEF EpromRelocked
<1>3. CASE Send \/ Receive \/ Timeout
  <2>1. api # "none"
    BY <1>3 DEF Send, Receive, Timeout, IdleInv
  <2>2. api' = api
    BY <1>3, SendTakes DEF Receive, Timeout, Unanswered
  <2> QED BY <2>1, <2>2 DEF EpromRelocked
<1>4. CASE Connect \/ Disconnect \/ Unplug \/ Arrive \/ Disturb \/ UNCHANGED vars
  <2>1. UNCHANGED <<api, outcome, servos>>
    BY <1>4 DEF Connect, Disconnect, Unplug, Arrive, Disturb, vars, callVars
  <2> QED BY <2>1 DEF EpromRelocked, EpromInv
<1> QED BY <1>1, <1>2, <1>3, <1>4 DEF Next, Driver

(* The requests of the call that runs, and what they have done so far.     *)
LEMMA EpromStep ==
  TypeInv /\ AnswerInv /\ IdleInv /\ EpromInv /\ [Next]_vars => EpromInv'
<1> SUFFICES ASSUME TypeInv, AnswerInv, IdleInv, EpromInv, [Next]_vars PROVE EpromInv'
  OBVIOUS
<1> DEFINE SetMotorIdRuns ==
             /\ id_ \in Ids
             /\ \E id \in FreeIds : Asked(id) \/ Unlocked(id) \/ Renamed(id) \/ Relocked
           Requested == IF api = "SetMotorId" THEN SetMotorIdRuns ELSE todo \in Seq(Harmless)
<1>1. OthersKept' /\ EpromRelocked'
  BY OthersStep, RelockedStep
<1>2. CASE SingleCall \/ ArrayCall
  <2>1. Requested'
    BY <1>2, EpromBegin, Zenon
  <2> QED BY <1>1, <2>1 DEF EpromInv
<1>3. ASSUME api = "SetMotorId", ~SingleCall, ~ArrayCall, ~Return
      PROVE  EpromInv'
  <2>1. PICK id \in FreeIds : Asked(id) \/ Unlocked(id) \/ Renamed(id) \/ Relocked
    BY <1>3 DEF EpromInv
  <2>2. id_ \in Ids /\ OthersKept
    BY <1>3 DEF EpromInv
  <2>3. (Asked(id) \/ Unlocked(id) \/ Renamed(id) \/ Relocked)'
    <3>1. CASE Send
      BY <2>1, <2>2, <3>1, EpromSend
    <3>2. CASE Receive \/ Timeout
      BY <2>1, <3>2, EpromWaitOver
    <3>3. CASE Connect \/ Disconnect \/ Unplug \/ Arrive \/ Disturb \/ UNCHANGED vars
      BY <1>3, <2>1, <3>3, EpromLine
    <3> QED BY <1>3, <3>1, <3>2, <3>3 DEF Next, Driver
  <2>4. id_' = id_ /\ api' = api
    BY <1>3, SendTakes DEF Next, Driver, Connect, Disconnect, Unplug, Arrive, Disturb,
       Receive, Timeout, Unanswered, vars, callVars
  <2> QED BY <1>1, <1>3, <2>2, <2>3, <2>4, Zenon DEF EpromInv
<1>4. CASE Return
  <2>1. api' = "none" /\ todo' = <<>>
    BY <1>4 DEF Return
  <2>2. <<>> \in Seq(Harmless)
    OBVIOUS
  <2> QED BY <1>1, <2>1, <2>2 DEF EpromInv
<1>5. ASSUME api # "SetMotorId", ~SingleCall, ~ArrayCall, ~Return
      PROVE  EpromInv'
  <2>1. api' = api
    BY <1>5, SendTakes DEF Next, Driver, Connect, Disconnect, Unplug, Arrive, Disturb,
       Receive, Timeout, Unanswered, vars, callVars
  <2>2. todo' = todo \/ (todo # <<>> /\ todo' = Tail(todo))
    BY <1>5 DEF Next, Driver, Connect, Disconnect, Unplug, Arrive, Disturb, Send,
       Receive, Timeout, Unanswered, vars, callVars
  <2>3. todo' \in Seq(Harmless)
    <3> DEFINE H == Harmless
    <3>1. todo \in Seq(H)
      BY <1>5 DEF EpromInv
    <3> HIDE DEF H
    <3>2. todo' \in Seq(H)
      BY <2>2, <3>1
    <3> QED BY <3>2 DEF H
  <2> QED BY <1>1, <1>5, <2>1, <2>3 DEF EpromInv
<1> QED BY <1>2, <1>3, <1>4, <1>5

(* How far SetMotorId has come and what is known of its servo then.        *)
LEMMA EpromInvariant == Spec => []EpromInv
<1>1. Init => EpromInv
  <2> SUFFICES ASSUME Init PROVE EpromInv
    OBVIOUS
  <2>1. api = "none" /\ outcome.api = "none" /\ todo \in Seq(Harmless)
    BY DEF Init, NoOutcome
  <2>2. OthersKept
    BY DEF Init, OthersKept
  <2> QED BY <2>1, <2>2 DEF EpromInv, EpromRelocked
<1> QED BY <1>1, TypeInvariant, AnswerInvariant, IdleInvariant, EpromStep, PTL DEF Spec

(* When SetMotorId reports success and none of its packets was harmed, no  *)
(* EPROM stays unlocked, for any ids and however late other answers come.  *)
THEOREM LocksRestored == Spec => []EpromRelocked
<1>1. EpromInv => EpromRelocked
  BY DEF EpromInv
<1> QED BY <1>1, EpromInvariant, PTL

-----------------------------------------------------------------------------
(* Every servo of an array takes its place of a synchronous write.         *)
LEMMA SyncCarried ==
  ASSUME NEW servo \in Servo, servo.id \in Ids, NEW positions
  PROVE  Carried(servo, SnycWrite(positions)).goal = positions[servo.id]
<1>1. Carried(servo, SnycWrite(positions)) = [servo EXCEPT !.goal = positions[servo.id]]
  <2>1. /\ SnycWrite(positions).kind = "sync" /\ SnycWrite(positions).value = positions
        /\ SnycWrite(positions).id # servo.id
    BY ServoAssumption DEF SnycWrite
  <2> QED BY <2>1 DEF Carried
<1>2. \A goal : [servo EXCEPT !.goal = goal].goal = goal
  BY DEF Servo
<1> QED BY <1>1, <1>2

(* A call of an array begins: its SetPosition with the positions it moved, *)
(* or with nothing to send.                                                *)
LEMMA TargetsBegin ==
  ASSUME TypeInv, IdleInv, TargetsInv, SingleCall \/ ArrayCall
  PROVE  TargetsInv'
<1>1. CASE SingleCall
  BY <1>1, SingleCallBegins DEF TargetsInv
<1>2. CASE ArrayCall
  <2>1. CASE \E call \in {"GetPositions", "GetStates", "ArraySetPosition",
                          "ArraySetPositions"}, requests \in Seq(Harmless) :
               ArrayAsks(call, requests)
    <3>1. PICK call, requests : ArrayAsks(call, requests)
      BY <2>1
    <3>2. /\ api = "none" /\ todo' = requests /\ UNCHANGED <<id_, targets, servos>>
          /\ (requests \in Seq(Reads) /\ stale' = stale) \/ stale' = TRUE
      BY <3>1 DEF ArrayAsks, Begin
    <3>3. todo = <<>>
      BY <3>2 DEF IdleInv
    <3> QED BY <3>2, <3>3 DEF TargetsInv, AtTargets
  <2>2. CASE Begin("ArraySetPosition", <<SnycWrite(targets')>>) /\ stale' = FALSE
    <3>1. id_' = 0 /\ todo' = <<SnycWrite(targets')>>
      BY <1>2, <2>2, ArrayCallBegins DEF Begin
    <3>2. SnycWrite(targets') = SnycWrite(targets)'
      BY DEF SnycWrite
    <3> QED BY <3>1, <3>2 DEF TargetsInv
  <2> QED BY <1>2, <2>1, <2>2, ArrayCallBegins, Zenon
<1> QED BY <1>1, <1>2

(* Send takes the positions to every servo, or they become stale.          *)
LEMMA TargetsSend ==
  ASSUME TypeInv, OthersKept, TargetsInv, Send
  PROVE  TargetsInv'
<1> SUFFICES ASSUME ~stale' PROVE TargetsInv'
  BY DEF TargetsInv
<1>1. ~stale
  <2>1. stale' = stale \/ stale' = (stale \/ Head(todo).kind = "sync")
    BY SendCarries
  <2>2. stale \in BOOLEAN /\ stale' \in BOOLEAN
    BY TypeStep DEF TypeInv, TypeOK, Next, Driver
  <2> QED BY <2>1, <2>2, Zenon
<1>5. DOMAIN servos' = Ids
  BY TypeStep, ServoTypes DEF Send, Transmit
<1>2. /\ id_ = 0 /\ id_' = 0 /\ targets' = targets /\ todo' = Tail(todo) /\ todo # <<>>
      /\ DOMAIN servos' = Ids
  BY <1>1, <1>5, SendTakes DEF TargetsInv, Send
<1>3. CASE todo = <<SnycWrite(targets)>>
  <2>1. Head(todo) = SnycWrite(targets) /\ Head(todo).kind = "sync" /\ todo' = <<>>
    BY <1>2, <1>3 DEF SnycWrite
  <2>2. ASSUME NEW s \in Ids PROVE servos'[s].goal = targets[s]
    <3>1. servos'[s] = Carried(servos[s], SnycWrite(targets))
      BY <2>1, <2>2, SendCarries
    <3>3. s # id_
      BY <1>2, ServoAssumption
    <3>2. servos[s] \in Servo /\ servos[s].id = s
      BY <3>3, ServoTypes DEF OthersKept
    <3> QED BY <3>1, <3>2, SyncCarried
  <2>3. todo' \in Seq(Reads)
    BY <2>1
  <2> QED BY <1>2, <2>2, <2>3 DEF TargetsInv, AtTargets
<1>4. CASE todo \in Seq(Reads) /\ AtTargets
  <2>1. Head(todo) \in Reads /\ todo' \in Seq(Reads)
    <3> DEFINE R == Reads
    <3>1. todo \in Seq(R) /\ todo # <<>>
      BY <1>2, <1>4
    <3> HIDE DEF R
    <3>2. Head(todo) \in R /\ Tail(todo) \in Seq(R)
      BY <3>1
    <3> QED BY <1>2, <3>2 DEF R
  <2>2. ASSUME NEW s \in Ids PROVE servos'[s].goal = targets[s]
    <3>1. Carried(servos[s], Head(todo)) = servos[s]
      BY <2>1 DEF Reads, Carried
    <3>2. servos'[s] = servos[s]
      BY <3>1, SendCarries
    <3> QED BY <1>4, <3>2, ServoTypes DEF AtTargets
  <2> QED BY <1>2, <2>1, <2>2 DEF TargetsInv, AtTargets
<1> QED BY <1>1, <1>3, <1>4 DEF TargetsInv

(* The remembered positions move only when the call that sends them begins.*)
LEMMA TargetsStep ==
  TypeInv /\ IdleInv /\ EpromInv /\ TargetsInv /\ [Next]_vars => TargetsInv'
<1> SUFFICES ASSUME TypeInv, IdleInv, EpromInv, TargetsInv, [Next]_vars PROVE TargetsInv'
  OBVIOUS
<1>1. CASE SingleCall \/ ArrayCall
  BY <1>1, TargetsBegin
<1>2. CASE Send
  BY <1>2, TargetsSend DEF EpromInv
<1>3. CASE ~(SingleCall \/ ArrayCall \/ Send)
  <2>1. UNCHANGED <<todo, id_, targets, stale, servos>>
    BY <1>3 DEF Next, Driver, Receive, Timeout, Unanswered, Return, Connect, Disconnect,
                Unplug, Arrive, Disturb, vars, callVars, busVars
  <2> QED BY <2>1 DEF TargetsInv, AtTargets, SnycWrite
<1> QED BY <1>1, <1>2, <1>3

(* Where the remembered positions are.                                     *)
LEMMA TargetsInvariant == Spec => []TargetsInv
<1>1. Init => TargetsInv
  BY DEF Init, TargetsInv
<1> QED BY <1>1, TypeInvariant, IdleInvariant, EpromInvariant, TargetsStep, PTL DEF Spec

(* Between calls every servo is where the array remembers it unless        *)
(* SetPositions was called, or a packet with positions harmed, since the   *)
(* last SetPosition that sent one.                                         *)
THEOREM ServosAtTargets == Spec => []TargetsReached
<1>1. IdleInv /\ TargetsInv => TargetsReached
  BY DEF IdleInv, TargetsInv, TargetsReached, AtTargets
<1> QED BY <1>1, IdleInvariant, TargetsInvariant, PTL
=============================================================================
