--------------------------- MODULE VariableValues ---------------------------
(***************************************************************************)
(* The values of the variables of one module: the user (or a script, or a  *)
(* file) sets them, the scheduler polls them, and the interface manager    *)
(* stores the answers, while the module changes some of them itself.       *)
(* Writes and requests go through the handler's queue (a FIFO, see         *)
(* InterfaceHandler), answers come back through the device and the queue   *)
(* of posted events.  The module is as the loopback device simulates it.   *)
(*                                                                         *)
(* lastSet and the field fresh of messages are history, read by no code:   *)
(* the number the user set last (a set of one), while nothing else may     *)
(* have changed it, and whether a request was made after that.             *)
(***************************************************************************)
EXTENDS VariableTypes, Selection

CONSTANTS Variables,    \* in the order of the configuration
          Layout,       \* their type, memory and offset
          MemorySize,   \* bytes of the module's memory
          SelfChanging, \* addresses the module changes itself
          UserValues,   \* values the user sets
          Files,        \* values of the variables in configuration files
          Controls,     \* variables a script makes a slider for
          SliderRange,  \* values of a slider
          MaxInFlight   \* bound: messages on their way, both directions

ASSUME ValuesAssumption ==
    /\ Variables \in Seq(STRING)
    /\ \A v \in Range(Variables) :
        /\ Layout[v].type \in Types
        /\ Layout[v].mem \in {"ram", "eeprom", "script"}
        /\ Layout[v].offset \in Int
    /\ MemorySize \in Nat
    /\ UserValues \subseteq Int
    /\ \A file \in Files :
        /\ file \in [Range(Variables) -> Seq(Int)]
        /\ \A v \in Range(Variables) : Len(file[v]) <= 1
    /\ Controls \subseteq Range(Variables)
    /\ SliderRange \subseteq Int
    /\ \E lo, hi \in SliderRange : SliderRange = lo .. hi
    /\ MaxInFlight \in Nat

VARIABLES
    value,        \* ModuleVariable::m_value
    sliders,      \* the variables that have a slider
    position,     \* QSlider::value() of each slider
    scheduleList, \* m_variableScheduleList
    sendQueue,    \* the handler's queue
    answers,      \* messages on their way back to the manager
    memory,       \* the module's bytes, from address 0
    lastSet,
    quiet         \* history: from now on nothing is set, lost or changed by the module

vars == <<value, sliders, position, scheduleList, sendQueue, answers, memory, lastSet, quiet>>

Vars == Range(Variables)

Addresses(offset, len) == offset .. offset + len - 1
AddressesOf(v) == Addresses(Layout[v].offset, Length(Layout[v].type))
Overlap(v, msg) == AddressesOf(v) \cap Addresses(msg.offset, msg.len) # {}

\* The guard of requestVariable and writeVariable.
OnBus(v) == Layout[v].mem # "script" /\ Layout[v].offset >= 0

\* The guard of addScheduledVariable.
Scheduled == Only(Variables, {v \in Vars : Layout[v].mem # "script"})

ReadRequest(v) ==
    [kind |-> "request", mem |-> Layout[v].mem, offset |-> Layout[v].offset,
     len |-> Length(Layout[v].type), data |-> <<>>, fresh |-> lastSet[v] # {}]

WriteRequest(v, x) ==
    [kind |-> "write", mem |-> Layout[v].mem, offset |-> Layout[v].offset,
     len |-> Length(Layout[v].type), data |-> ToBytes(Layout[v].type, x), fresh |-> FALSE]

\* History: what is on its way was requested before the writes of ws.
Outdated(queue, ws) ==
    [i \in DOMAIN queue |->
        IF \A w \in Range(ws) :
              Addresses(queue[i].offset, queue[i].len) \cap Addresses(w.offset, w.len) = {}
        THEN queue[i] ELSE [queue[i] EXCEPT !.fresh = FALSE]]

InFlight == Len(sendQueue) + Len(answers)

Init ==
    /\ value = [v \in Vars |-> Invalid]
    /\ sliders = {}
    /\ position = [v \in Vars |-> Min(SliderRange)]
    /\ scheduleList = Scheduled
    /\ sendQueue = <<>> /\ answers = <<>>
    /\ memory = [a \in 0 .. MemorySize - 1 |-> 0]
    /\ lastSet = [v \in Vars |-> {}]
    /\ quiet = FALSE
-----------------------------------------------------------------------------
Clamp(x) == Min({Max({x, Min(SliderRange)}), Max(SliderRange)})

\* ModuleVariableSlider::variableValueChanged: the slider follows the variable, and
\* a slider that moves sets the variable.
Moves(v, x) == v \in sliders /\ Clamp(ToInt(x)) # position[v]

\* The value after setValue(x) and the slots it triggers.
Settled(v, x) == IF Moves(v, x) THEN <<Clamp(ToInt(x))>> ELSE x

\* Mutation of Writes: the write is sent before the value is stored.
WritesOld(v, x, userUpdate) ==
    IF ~OnBus(v) THEN <<>>
    ELSE [i \in 1 .. (IF userUpdate THEN 1 ELSE 0) + (IF Moves(v, x) THEN 1 ELSE 0) |->
            WriteRequest(v, value[v])]

\* userChanged -> variableWrite -> writeVariable: once for the slider, once for the
\* user, both when the value is what it is at the end.
Writes(v, x, userUpdate) ==
    IF ~OnBus(v) THEN <<>>
    ELSE [i \in 1 .. (IF userUpdate THEN 1 ELSE 0) + (IF Moves(v, x) THEN 1 ELSE 0) |->
            WriteRequest(v, Settled(v, x))]

\* setValue with all its slots; back are the answers that remain.
SetValue(v, x, userUpdate, back) ==
    \E ws \in {Writes(v, x, userUpdate)} :
        /\ value' = [value EXCEPT ![v] = Settled(v, x)]
        /\ position' = IF Moves(v, x) THEN [position EXCEPT ![v] = Clamp(ToInt(x))] ELSE position
        /\ sendQueue' = Outdated(sendQueue, ws) \o ws
        /\ Len(sendQueue') + Len(back) <= MaxInFlight
        /\ answers' = Outdated(back, ws)
        /\ lastSet' = IF ws = <<>> THEN lastSet
                      ELSE [u \in Vars |-> IF u = v THEN {ToInt(Settled(v, x))}
                                           ELSE IF Overlap(u, ws[1]) THEN {} ELSE lastSet[u]]
-----------------------------------------------------------------------------
(* The user, scripts and files.                                            *)

SetUserValue(v, x) ==
    /\ SetValue(v, <<x>>, TRUE, answers)
    /\ UNCHANGED <<sliders, scheduleList, memory>>

\* addSliderControl
AddSlider(v) ==
    /\ v \notin sliders
    /\ sliders' = sliders \cup {v}
    /\ position' = [position EXCEPT ![v] = Clamp(ToInt(value[v]))]
    /\ UNCHANGED <<value, scheduleList, sendQueue, answers, memory, lastSet>>

\* sliderValueChanged: the slider is where its value is, and does not move again.
DragSlider(v, x) ==
    /\ v \in sliders /\ x # position[v]
    /\ position' = [position EXCEPT ![v] = x]
    /\ LET ws == IF OnBus(v) THEN <<WriteRequest(v, <<x>>)>> ELSE <<>>
       IN  /\ InFlight + Len(ws) <= MaxInFlight
           /\ sendQueue' = Outdated(sendQueue, ws) \o ws
           /\ answers' = Outdated(answers, ws)
           /\ lastSet' = [u \in Vars |-> IF u = v /\ OnBus(v) THEN {x}
                                         ELSE IF ws # <<>> /\ Overlap(u, ws[1]) THEN {}
                                         ELSE lastSet[u]]
    /\ value' = [value EXCEPT ![v] = <<x>>]
    /\ UNCHANGED <<sliders, scheduleList, memory>>

\* loadConfiguration of the view: the variables are made anew with the values of the
\* file, then each value is set once more for the module, also a missing one.
LoadConfiguration(file) ==
    LET written == Only(Variables, {v \in Vars : OnBus(v)})
        ws == [i \in DOMAIN written |-> WriteRequest(written[i], file[written[i]])]
        LaterOverlap(v) == \E i, j \in DOMAIN written :
            i < j /\ written[i] = v /\ Overlap(v, ws[j])
    IN  /\ InFlight + Len(ws) <= MaxInFlight
        /\ value' = file
        /\ sliders' = {}
        /\ position' = [v \in Vars |-> Min(SliderRange)]
        /\ scheduleList' = Scheduled
        /\ sendQueue' = Outdated(sendQueue, ws) \o ws
        /\ answers' = Outdated(answers, ws)
        /\ lastSet' = [v \in Vars |-> IF OnBus(v) /\ ~LaterOverlap(v) THEN {ToInt(file[v])} ELSE {}]
        /\ UNCHANGED memory

User ==
    \/ \E v \in Vars, x \in UserValues : SetUserValue(v, x)
    \/ \E v \in Controls : AddSlider(v)
    \/ \E v \in Controls, x \in SliderRange : DragSlider(v, x)
    \/ \E file \in Files : LoadConfiguration(file)
-----------------------------------------------------------------------------
(* Polling and answers.                                                    *)

\* Mutation of Poll: the variable is put back at the front.
PollFront ==
    /\ scheduleList # <<>>
    /\ InFlight < MaxInFlight
    /\ LET v == Head(scheduleList)
       IN  sendQueue' = IF OnBus(v) THEN Append(sendQueue, ReadRequest(v)) ELSE sendQueue
    /\ UNCHANGED <<value, sliders, position, scheduleList, answers, memory, lastSet>>

\* schedulerUpdate and requestVariable
Poll ==
    /\ scheduleList # <<>>
    /\ InFlight < MaxInFlight
    /\ LET v == Head(scheduleList)
       IN  /\ scheduleList' = Append(Tail(scheduleList), v)
           /\ sendQueue' = IF OnBus(v) THEN Append(sendQueue, ReadRequest(v)) ELSE sendQueue
    /\ UNCHANGED <<value, sliders, position, answers, memory, lastSet>>

Inside(msg) == msg.offset + msg.len <= MemorySize

\* The bytes written, from the address of the message.
Stored(msg) ==
    [a \in DOMAIN memory |-> IF a \in Addresses(msg.offset, msg.len)
                             THEN msg.data[a - msg.offset + 1] ELSE memory[a]]

\* The answer to a request: the bytes in the memory.
AnswerTo(msg) ==
    [kind |-> "answer", mem |-> msg.mem, offset |-> msg.offset, len |-> msg.len,
     data |-> [i \in 1 .. msg.len |-> memory[msg.offset + i - 1]], fresh |-> msg.fresh]

\* sendMessage of the device: a request is answered with the bytes, a write stored.
DeviceSend ==
    /\ sendQueue # <<>>
    /\ sendQueue' = Tail(sendQueue)
    /\ LET msg == Head(sendQueue)
       IN  \/ /\ ~Inside(msg)
              /\ UNCHANGED <<answers, memory>>
           \/ /\ Inside(msg) /\ msg.kind = "request"
              /\ answers' = Append(answers, AnswerTo(msg))
              /\ UNCHANGED memory
           \/ /\ Inside(msg) /\ msg.kind = "write"
              /\ memory' = Stored(msg)
              /\ UNCHANGED answers
    /\ UNCHANGED <<value, sliders, position, scheduleList, lastSet>>

Matches(v, msg) == Layout[v].offset = msg.offset /\ Layout[v].mem = msg.mem

\* The variable an answer is for: the first one of the configuration with its offset
\* and memory, if the length fits.
Target(msg) ==
    LET found == Only(Variables, {v \in Vars : Matches(v, msg)})
    IN  {v \in Vars : found # <<>> /\ v = Head(found) /\ Length(Layout[v].type) = msg.len}

\* processCANMessage
Answer ==
    /\ answers # <<>>
    /\ \/ \E v \in Target(Head(answers)) :
            \E x \in {FromBytes(Layout[v].type, Head(answers).data)} :
                SetValue(v, x, FALSE, Tail(answers))
       \/ /\ Target(Head(answers)) = {}
          /\ answers' = Tail(answers)
          /\ UNCHANGED <<value, position, sendQueue, lastSet>>
    /\ UNCHANGED <<sliders, scheduleList, memory>>

ModuleChanges ==
    /\ \E a \in SelfChanging, b \in 0 .. Byte - 1 :
        /\ memory' = [memory EXCEPT ![a] = b]
        /\ lastSet' = [v \in Vars |-> IF a \in AddressesOf(v) THEN {} ELSE lastSet[v]]
    /\ UNCHANGED <<value, sliders, position, scheduleList, sendQueue, answers>>

\* The bus loses a message, in one direction or the other.
Lose ==
    /\ \/ /\ sendQueue # <<>> /\ sendQueue' = Tail(sendQueue)
          /\ lastSet' = [v \in Vars |-> IF Head(sendQueue).kind = "write"
                                              /\ Overlap(v, Head(sendQueue))
                                        THEN {} ELSE lastSet[v]]
          /\ UNCHANGED answers
       \/ /\ answers # <<>> /\ answers' = Tail(answers)
          /\ UNCHANGED <<sendQueue, lastSet>>
    /\ UNCHANGED <<value, sliders, position, scheduleList, memory>>

Quiet ==
    /\ ~quiet
    /\ quiet' = TRUE
    /\ UNCHANGED <<value, sliders, position, scheduleList, sendQueue, answers, memory, lastSet>>

Disturb == ~quiet /\ UNCHANGED quiet /\ (User \/ ModuleChanges \/ Lose)
Work == UNCHANGED quiet /\ (Poll \/ DeviceSend \/ Answer)

Next == Disturb \/ Work \/ Quiet

Spec == Init /\ [][Next]_vars /\ WF_vars(Poll /\ UNCHANGED quiet)
        /\ WF_vars(DeviceSend /\ UNCHANGED quiet) /\ WF_vars(Answer /\ UNCHANGED quiet)
-----------------------------------------------------------------------------
Polled == {v \in Vars : OnBus(v) /\ Layout[v].offset + Length(Layout[v].type) <= MemorySize}

InMemory(v) ==
    LET type == Layout[v].type
    IN  FromBytes(type, [i \in 1 .. Length(type) |-> memory[Layout[v].offset + i - 1]])

QVariants ==
    {Invalid} \cup {<<x>> : x \in UserValues \cup SliderRange \cup UNION {TypeRange(t) : t \in Types}}
              \cup UNION {Range(file) : file \in Files}

TypeOK ==
    /\ value \in [Vars -> QVariants]
    /\ sliders \subseteq Vars
    /\ position \in [Vars -> SliderRange]
    /\ scheduleList \in Seq(Vars)
    /\ InFlight <= MaxInFlight
    /\ \A msg \in Range(sendQueue) \cup Range(answers) :
          /\ msg.kind \in {"request", "write", "answer"}
          /\ Range(msg.data) \subseteq 0 .. Byte - 1
    /\ memory \in [0 .. MemorySize - 1 -> 0 .. Byte - 1]
    /\ \A v \in Vars : lastSet[v] \subseteq Int /\ Cardinality(lastSet[v]) <= 1

\* Writes and requests are numerous, overlap and cross answers: once the writes have
\* arrived, the module has the value that was set last, as far as the type can hold
\* it (writeVariable, toByteArray).
LastWriteWins ==
    \A v \in Polled :
        (\A msg \in Range(sendQueue) : msg.kind = "write" => ~Overlap(v, msg))
        => \A x \in lastSet[v] : InMemory(v) = <<Wrapped(Layout[v].type, x)>>

\* The module's memory follows the user, in a state that is well typed.
WritesExact == TypeOK /\ LastWriteWins

\* The answer to a request made after the user set a variable shows what was set, not
\* an older or another variable's value, even if others were lost before.
ReadYourWrites ==
    [][\A v \in Polled :
          answers # <<>> /\ answers' = Tail(answers) /\ Head(answers).fresh
              /\ Matches(v, Head(answers)) /\ value'[v] # value[v]
          => \A x \in lastSet[v] :
                LET y == Wrapped(Layout[v].type, x)
                IN  ToInt(value'[v]) \in {y} \cup (IF v \in sliders THEN {Clamp(y)} ELSE {})]_vars

\* When nothing is set, changed or lost any more, and no slider writes back what it
\* shows, each polled variable shows what the module has, for good.
Converges ==
    quiet /\ sliders = {} ~> [](\A v \in Polled : value[v] = InMemory(v))
=============================================================================
