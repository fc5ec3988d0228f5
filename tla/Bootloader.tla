----------------------------- MODULE Bootloader -----------------------------
(***************************************************************************)
(* The dsPICBootloader plugin: it reprograms a module by sending it one    *)
(* message at a time, the next one when the module has sent the last one   *)
(* back, and the same one again on a timer.  Everything runs in the GUI    *)
(* thread: an action is one click, one event, one time out, or a step of   *)
(* the bus.                                                                *)
(*                                                                         *)
(* Messages carry pos, their place in the upload, which no code reads; a   *)
(* message of the plugin has timestamp 0, one a device received has the    *)
(* time (here 1) if the device sets it.  The first combo item of the view  *)
(* is the module found first, and the one at index 0 has the lowest ID.    *)
(***************************************************************************)
EXTENDS Naturals, Selection, SequencesExt, FiniteSetsExt

CONSTANTS Modules,   \* device identifiers, from 1; 0 stands for no module
          Documents, \* hex files: the 8-byte rows of the memory map they define
          Corrupt,   \* those with a checksum error
          Stamped,   \* whether the device sets msg_timestamp
          Lossy,     \* whether the bus loses messages
          MaxWire,   \* bound: messages on the bus
          MaxTimers  \* bound: timers the plugin has forgotten

ASSUME BootloaderAssumption ==
    /\ Modules \subseteq Nat \ {0}
    /\ Documents \subseteq Seq(Nat)
    /\ Corrupt \subseteq Documents
    /\ Stamped \in BOOLEAN /\ Lossy \in BOOLEAN
    /\ MaxWire \in Nat /\ MaxTimers \in Nat

NoModule == 0

VARIABLES
    known,     \* the manager's modules, in the order they were found
    selected,  \* the device of the combo's current item
    module,    \* m_module
    connected, \* m_interface # NULL
    observing, \* the plugin is registered as an observer of the interface
    msgQueue,  \* m_msgQueue
    timer,     \* m_timer # NULL
    forgotten, \* timers still running that m_timer does not point to any more
    elapsed,   \* m_elapsed.elapsed(): "unset" (0), "short", "over100", "over10000"
    document,  \* m_doc
    canUpload, \* the upload button is enabled
    uploading  \* the stop button is enabled, the others are not

pluginVars == <<selected, module, connected, observing, msgQueue, timer, forgotten,
                elapsed, document, canUpload, uploading>>

VARIABLES
    toModule,    \* messages on their way to a module
    feedback,    \* messages on their way back
    bootMode,    \* the modules that run their bootloader
    moduleState, \* the state in the last ALIVE answer, kept by the configuration
    received,    \* pos of the last message of this upload the module got in order
    repeated,    \* the module got a message of this upload again
    resent,      \* the plugin sent a message of this upload again
    done         \* the last upload ended with "Done programming."

historyVars == <<received, repeated, resent, done>>
busVars == <<toModule, feedback, bootMode, moduleState>>
vars == <<known, pluginVars, busVars, historyVars>>

States == {"boot", "normal"}

Message(cmd, row, dest, pos) ==
    [cmd |-> cmd, row |-> row, dest |-> dest, pos |-> pos, timestamp |-> 0]

\* generateMessageQueue for the rows of the document.
UploadQueue(doc, dest) ==
    LET n == Len(doc)
    IN  <<Message("program", 0, dest, 0), Message("setBase", 0, dest, 1)>>
        \o [i \in 1 .. n |-> Message("writeInc", doc[i], dest, i + 1)]
        \o <<Message("setState", 0, dest, n + 2), Message("writeConfig", 0, dest, n + 3),
             Message("reset", 0, dest, n + 4)>>

\* NETV_MESSAGE's operator ==.
Same(m, n) == [m EXCEPT !.pos = 0] = [n EXCEPT !.pos = 0]

Init ==
    /\ known = <<>>
    /\ selected = NoModule /\ module = NoModule
    /\ connected = FALSE /\ observing = FALSE
    /\ msgQueue = <<>>
    /\ timer = FALSE /\ forgotten = 0
    /\ elapsed = "unset"
    /\ document = <<>>
    /\ canUpload = FALSE /\ uploading = FALSE
    /\ toModule = <<>> /\ feedback = <<>>
    /\ bootMode = {}
    /\ moduleState = [m \in Modules |-> "normal"]
    /\ received = 0 /\ repeated = FALSE /\ resent = FALSE /\ done = FALSE
-----------------------------------------------------------------------------
\* stop(): leaves elapsed, document, forgotten, and the combo as they are.
Stop ==
    /\ timer' = FALSE
    /\ connected' = FALSE
    /\ observing' = (observing /\ ~connected)
    /\ canUpload' = (document # <<>>)
    /\ uploading' = FALSE
    /\ msgQueue' = <<>>
    /\ UNCHANGED <<forgotten, elapsed, document>>

\* pushNETVMessage
SendMessage(m) == toModule' = Append(toModule, m)

\* A new QTimer: the former one, if any, is forgotten and goes on.
NewTimer ==
    /\ timer' = TRUE
    /\ forgotten' = IF timer THEN forgotten + 1 ELSE forgotten
    /\ forgotten' <= MaxTimers

\* rebuildCombo: the current item is the one inserted first, m_module the one of
\* the item at index 0.
RebuildCombo(modules, otherwise) ==
    /\ selected' = IF modules = <<>> THEN NoModule ELSE Head(modules)
    /\ module' = IF modules = <<>> THEN otherwise ELSE Min(Range(modules))

\* A new upload forgets what is known of the last one.
NewUpload ==
    /\ received' = 0
    /\ repeated' = FALSE
    /\ resent' = FALSE
    /\ done' = FALSE

\* bound: nothing of an earlier upload is on the bus when a new one starts.
QuietBus == toModule = <<>> /\ feedback = <<>>
-----------------------------------------------------------------------------
(* The user.                                                               *)

\* loadHEX: the document is replaced, valid or not.
LoadHEX ==
    /\ ~uploading
    /\ \E doc \in Documents :
        /\ document' = doc
        /\ canUpload' = (doc \notin Corrupt)
    /\ UNCHANGED <<known, selected, module, connected, observing, msgQueue, timer,
                   forgotten, elapsed, uploading, busVars, historyVars>>

\* comboActivated
SelectModule(m) ==
    /\ ~uploading
    /\ m \in Range(known)
    /\ selected' = m
    /\ module' = m
    /\ UNCHANGED <<known, connected, observing, msgQueue, timer, forgotten, elapsed,
                   document, canUpload, uploading, busVars, historyVars>>

\* upload, when the combo has an item: otherwise there is "Nothing to upload...".
Upload ==
    /\ canUpload /\ ~uploading
    /\ QuietBus
    /\ selected \in Range(known)
    /\ module' = selected
    /\ LET queue == UploadQueue(document, selected)
       IN  msgQueue' = queue /\ SendMessage(Head(queue))
    /\ canUpload' = FALSE /\ uploading' = TRUE
    /\ connected' = TRUE /\ observing' = TRUE
    /\ elapsed' = "short"
    /\ NewTimer
    /\ NewUpload
    /\ UNCHANGED <<known, selected, document, feedback, bootMode, moduleState>>

\* changeModuleID: the plugin does not register itself, nor restart m_elapsed.
ChangeModuleID ==
    /\ ~uploading
    /\ QuietBus
    /\ module # NoModule
    /\ msgQueue' = <<Message("program", 0, module, 0), Message("setAddress", 0, module, 1)>>
    /\ connected' = TRUE
    /\ SendMessage(Message("program", 0, module, 0))
    /\ NewTimer
    /\ NewUpload
    /\ UNCHANGED <<known, selected, module, observing, elapsed, document, canUpload,
                   uploading, feedback, bootMode, moduleState>>

StopClicked ==
    /\ uploading
    /\ Stop
    /\ module' = NoModule
    /\ UNCHANGED <<known, selected, busVars, historyVars>>
-----------------------------------------------------------------------------
(* The manager's modules.                                                  *)

ModuleAdded(m) ==
    /\ m \notin Range(known)
    /\ known' = Append(known, m)
    /\ RebuildCombo(known', module)
    /\ UNCHANGED <<connected, observing, msgQueue, timer, forgotten, elapsed, document,
                   canUpload, uploading, busVars, historyVars>>

\* Mutation of ModuleRemoved: the upload to the removed module is not stopped.
ModuleRemovedGoOn(m) ==
    /\ m \in Range(known)
    /\ known' = Only(known, Modules \ {m})
    /\ RebuildCombo(known', module)
    /\ UNCHANGED <<connected, observing, msgQueue, timer, forgotten, elapsed, document,
                   canUpload, uploading, busVars, historyVars>>

ModuleRemoved(m) ==
    /\ m \in Range(known)
    /\ known' = Only(known, Modules \ {m})
    /\ IF module = m
       THEN Stop /\ RebuildCombo(known', NoModule)
       ELSE /\ RebuildCombo(known', module)
            /\ UNCHANGED <<connected, observing, msgQueue, timer, forgotten, elapsed,
                           document, canUpload, uploading>>
    /\ UNCHANGED <<busVars, historyVars>>
-----------------------------------------------------------------------------
(* event(): a message of type NETV_TYPE_BOOTLOADER.                        *)

\* Mutation of Accepted: the feedback is not compared with the message sent.
AcceptedAny(m) == msgQueue # <<>>

\* m_msgQueue.front() == msg
Accepted(m) == Same(Head(msgQueue), m)

\* Mutation of SendNext: the queue is not popped before its front is sent.
SendSameAgain ==
    /\ SendMessage(Head(msgQueue))
    /\ elapsed' = "short"
    /\ UNCHANGED <<selected, module, connected, observing, msgQueue, timer, forgotten,
                   document, canUpload, uploading, done>>

\* The first message is popped and the next one sent.
SendNext ==
    /\ Len(msgQueue) > 1
    /\ msgQueue' = Tail(msgQueue)
    /\ SendMessage(msgQueue[2])
    /\ elapsed' = "short"
    /\ UNCHANGED <<selected, module, connected, observing, timer, forgotten, document,
                   canUpload, uploading, done>>

\* Mutation of Finish: stop() is not called.
FinishOnly ==
    /\ Len(msgQueue) = 1
    /\ msgQueue' = <<>>
    /\ done' = TRUE
    /\ UNCHANGED <<selected, module, connected, observing, timer, forgotten, elapsed,
                   document, canUpload, uploading, toModule>>

\* The last message is popped: "Done programming."
Finish ==
    /\ Len(msgQueue) = 1
    /\ Stop
    /\ module' = NoModule
    /\ done' = TRUE
    /\ UNCHANGED <<selected, toModule>>

\* "Transfer error, stopping"
TransferError ==
    /\ Stop
    /\ module' = NoModule
    /\ UNCHANGED <<selected, toModule, done>>

\* The feedback of another device than the selected one is ignored, that which
\* comes to no observer is dropped.
Feedback ==
    /\ feedback # <<>>
    /\ feedback' = Tail(feedback)
    /\ LET m == Head(feedback)
       IN  IF observing /\ connected /\ m.dest = selected
           THEN IF Accepted(m) THEN SendNext \/ Finish ELSE TransferError
           ELSE UNCHANGED <<pluginVars, toModule, done>>
    /\ UNCHANGED <<known, bootMode, moduleState, received, repeated, resent>>
-----------------------------------------------------------------------------
(* timeout()                                                               *)

\* Mutation of NotReady: the time is not looked at.
NeverReady ==
    /\ moduleState[module] # "boot"
    /\ UNCHANGED <<pluginVars, toModule, resent>>

\* The module is not in boot mode: abort after 10 s.
NotReady ==
    /\ moduleState[module] # "boot"
    /\ IF elapsed = "over10000"
       THEN Stop /\ module' = NoModule /\ UNCHANGED selected
       ELSE UNCHANGED pluginVars
    /\ UNCHANGED <<toModule, resent>>

\* Nothing is sent in the first 100 ms.
Wait ==
    /\ moduleState[module] = "boot"
    /\ elapsed \notin {"over100", "over10000"}
    /\ UNCHANGED <<pluginVars, toModule, resent>>

\* The first message is (re)sent; the command that started the bootloader is
\* popped and the next one sent.
Resend ==
    /\ moduleState[module] = "boot"
    /\ elapsed \in {"over100", "over10000"}
    /\ Len(toModule) + Len(feedback) < MaxWire
    /\ LET first == Head(msgQueue).cmd = "program"
       IN  /\ msgQueue' = IF first THEN Tail(msgQueue) ELSE msgQueue
           /\ resent' = (resent \/ ~first)
    /\ SendMessage(Head(msgQueue'))
    /\ UNCHANGED <<selected, module, connected, observing, timer, forgotten, elapsed,
                   document, canUpload, uploading>>

Timeout ==
    /\ timer \/ forgotten > 0
    /\ IF module # NoModule /\ connected
       THEN NotReady \/ Wait \/ Resend
       ELSE Stop /\ module' = NoModule /\ UNCHANGED <<selected, toModule, resent>>
    /\ UNCHANGED <<known, feedback, bootMode, moduleState, received, repeated, done>>

\* Time passes.
Elapse ==
    /\ elapsed \in {"short", "over100"}
    /\ elapsed' = IF elapsed = "short" THEN "over100" ELSE "over10000"
    /\ UNCHANGED <<known, selected, module, connected, observing, msgQueue, timer, forgotten,
                   document, canUpload, uploading, busVars, historyVars>>
-----------------------------------------------------------------------------
(* The bus and the modules (as the loopback device simulates them).        *)

\* A module in boot mode sends each command back; a reset ends the boot mode.
ModuleReceives ==
    /\ toModule # <<>>
    /\ toModule' = Tail(toModule)
    /\ LET m == Head(toModule)
       IN  \/ /\ m.cmd = "program"
              /\ bootMode' = bootMode \cup {m.dest}
              /\ UNCHANGED <<feedback, received, repeated>>
           \/ /\ m.cmd # "program" /\ m.dest \in bootMode
              /\ feedback' = Append(feedback, [m EXCEPT !.timestamp = IF Stamped THEN 1 ELSE 0])
              /\ bootMode' = IF m.cmd = "reset" THEN bootMode \ {m.dest} ELSE bootMode
              /\ received' = IF m.pos = received + 1 THEN m.pos ELSE received
              /\ repeated' = (repeated \/ m.pos <= received)
           \/ /\ m.cmd # "program" /\ m.dest \notin bootMode
              /\ UNCHANGED <<feedback, bootMode, received, repeated>>
    /\ UNCHANGED <<known, pluginVars, moduleState, resent, done>>

Lose ==
    /\ Lossy
    /\ \/ toModule # <<>> /\ toModule' = Tail(toModule) /\ UNCHANGED feedback
       \/ feedback # <<>> /\ feedback' = Tail(feedback) /\ UNCHANGED toModule
    /\ UNCHANGED <<known, pluginVars, bootMode, moduleState, historyVars>>

\* The manager handles an ALIVE answer of the module.
Alive(m) ==
    /\ moduleState' = [moduleState EXCEPT ![m] = IF m \in bootMode THEN "boot" ELSE "normal"]
    /\ UNCHANGED <<known, pluginVars, toModule, feedback, bootMode, historyVars>>
-----------------------------------------------------------------------------
User == LoadHEX \/ (\E m \in Modules : SelectModule(m)) \/ Upload \/ ChangeModuleID \/ StopClicked

Next ==
    \/ User
    \/ \E m \in Modules : ModuleAdded(m) \/ ModuleRemoved(m)
    \/ Feedback \/ Timeout \/ Elapse
    \/ ModuleReceives \/ Lose
    \/ \E m \in Modules : Alive(m)

\* Timer and clock go on, modules answer, and a message sent again and again
\* arrives in the end, both ways.
Spec ==
    /\ Init /\ [][Next]_vars
    /\ WF_vars(Timeout) /\ WF_vars(Elapse)
    /\ SF_vars(ModuleReceives) /\ SF_vars(Feedback)
    /\ \A m \in Modules : WF_vars(Alive(m))
-----------------------------------------------------------------------------
Messages ==
    [cmd : {"program", "setBase", "writeInc", "setState", "writeConfig", "reset", "setAddress"},
     row : {0} \cup UNION {Range(doc) : doc \in Documents}, dest : Modules, pos : Nat,
     timestamp : {0, 1}]

TypeOK ==
    /\ known \in Seq(Modules)
    /\ selected \in Range(known) \cup {NoModule}
    /\ module \in Range(known) \cup {NoModule}
    /\ connected \in BOOLEAN /\ observing \in BOOLEAN
    /\ msgQueue \in Seq(Messages)
    /\ timer \in BOOLEAN /\ forgotten \in 0 .. MaxTimers
    /\ elapsed \in {"unset", "short", "over100", "over10000"}
    /\ document \in Documents \cup {<<>>}
    /\ canUpload \in BOOLEAN /\ uploading \in BOOLEAN
    /\ toModule \in Seq(Messages) /\ feedback \in Seq(Messages)
    /\ bootMode \subseteq Modules
    /\ moduleState \in [Modules -> States]
    /\ received \in Nat
    /\ repeated \in BOOLEAN /\ resent \in BOOLEAN /\ done \in BOOLEAN

\* The plugin only goes on when the module has got everything before, and says
\* "Done programming." when it has got everything, in order, whatever the bus loses,
\* however late feedback and ALIVE answers come, and whatever modules appear.
AckedWasReceived ==
    [][/\ uploading' => received' + 1 >= Head(msgQueue').pos
       /\ ~done /\ done' => received = Len(document) + 4]_vars

\* "(Re)Send message": the module gets each message of an upload once, unless the
\* plugin has sent one again after a time out.
OnceUnlessResent == repeated => resent

\* The front of the queue, which timeout() and event() take without a test, exists
\* whenever they do.
QueueReady == connected => msgQueue # <<>>

\* An upload ends, done or aborted, unless a combo rebuilt for another module has
\* made the plugin look at that one.
UploadEnds ==
    uploading ~>
        \/ ~uploading
        \/ module # Head(msgQueue).dest
        \/ selected # Head(msgQueue).dest

\* "Validate feedback": the message that is sent back is the one that was sent,
\* and the transfer goes on.
FeedbackAccepted ==
    [][\A m \in Modules :
          feedback # <<>> /\ feedback' = Tail(feedback) /\ uploading
              /\ Head(feedback).dest = selected /\ Head(feedback).pos = Head(msgQueue).pos
          => uploading' \/ done']_vars

\* The plugin's own state, and the messages of the upload it is in.
UploadSound == TypeOK /\ QueueReady /\ OnceUnlessResent
=============================================================================
