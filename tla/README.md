# NetworkViewer in TLA+

NetworkViewer (`src/NetworkViewer`) is a Qt program that watches and changes the
variables of modules (robot boards) on a CAN-like network. It finds the modules by
their ALIVE answers, polls the variables of each module's configuration, writes the
ones the user edits, and draws, logs, scripts or forwards the values. The network is
reached through a device: a serial or Ethernet bridge, SocketCAN, a TCP client of
another NetworkViewer, an emulator, or a loopback device that simulates modules.
`src/NETVArduino` is the firmware library of one kind of module.

This directory holds TLA+ modules that model the program, the TLC runs that check
them, and proofs checked by TLAPS.

    tlc -config <run>.cfg <module>.tla     # the runs are listed in PROJECT.json
    tlapm <module>_proofs.tla

## 1. Inventory of the system

The core exists twice. The **legacy stack** (global namespace) is what the GUI uses.
The **new stack** (namespace `netcore`) replaces it piece by piece; the loopback driver
and the unit test use it.

### Legacy stack

| Component | State | Operations | Interacts with |
|---|---|---|---|
| `NETVInterfaceHandler` | `m_msgQueue`, `m_listSemaphore`, `m_listMutex`, `m_observers`, `m_observerMutex`, `m_running`, counters, two threads | `pushNETVMessage`, `registerObserver`, `unregisterObserver`, `sendThreadFunction`, `recvThreadFunction`, `notifyCANObservers`, destructor | owns a `NETVDevice`; calls observers from the receive thread |
| `NETVInterfaceManager` | `m_modules`, watchdog timer | `event` / `processCANMessage`, `addModule`, `removeModule`, `watchdogTimeout`, `requestVariable`, `writeVariable`, `sendAliveRequest` | observer of the handler: the receive thread posts an event, the GUI thread handles it |
| `NetworkScheduler` | `m_variableScheduleList`, `m_modules`, Qt connections | `addModule`, `removeModule`, `addScheduledVariable`, `removeScheduledVariable`, `variableActivated`, `schedulerUpdate` | called by the manager, by signals of configurations and variables, by its timer |
| `NetworkModule`, `ModuleConfiguration`, `ModuleVariable` | `m_active`, `m_lastUpdateTime`; list of variables; type, offset, value, `m_activated` | set and get, `addVariable`, `removeVariable`, `loadConfiguration`, `saveConfiguration`, `setValue`, `setActivated`, `setUserValue` | signals to scheduler, manager and views; XML files, which `osc_generator` reads too |
| Devices (`core/drivers`) | sockets, serial port, byte buffers, small queues | `sendMessage`, `recvMessage`, `event` | called from the handler's threads; some deliver events in the GUI thread |
| Remote server and client | sockets, interface list | `addInterface`, `notifyNETVMessage`, `event`, `readyReadSocket` | observers of handlers; push what the clients send |

### New stack

| Component | State | Operations | Interacts with |
|---|---|---|---|
| `CoreDriver` queues | `m_sendQueue`, `m_recvQueue`, each with mutex, semaphore and limit | `sendMessage`, `pushSendMessage`, `pullSendMessage`, `pushRecvMessage`, `pullRecvMessage`, `recvMessage`, `recvAllMessages`, the setters | filled and emptied by the driver's workers and by the manager's reader |
| `CoreDriver` threads | the driver's `QThread`, `CoreDriverSendThread`, `CoreDriverRecvThread`, their `m_running` | `start`, `stop`, destructor, `run`, the workers' `parentStarted` and `parentFinished` | `started()`, `finished()` queued to the creator's event loop |
| `CoreDriverManager`, `NETVDriverManager`, `NETVScheduler` | modules, scheduler, reader thread, one mutex | `startup`, `process`, `shutdown`, `addModule`, `removeModule`, ... | reader thread and manager thread |
| `LoopbackDriver` | virtual modules | `internalThreadSendFunction`, `processMessage` | through its own `CoreDriver` queues |
| `CANMessage`, `NETVMessage` | identifier, flags, payload | getters and setters of each field | every driver packs the same fields |
| `NETVModuleConfiguration`, `NETVVariable` | as in the legacy stack | as there, other XML tags | the same files |

### Around both

| Component | State | Operations |
|---|---|---|
| Preferences (`UserPreferences`, `DeviceSelectorDialog`) | a map and a file | load, save, list of interfaces |
| Main window (`NetworkView`) and its plugins | items, windows, curves, rows, sliders, script objects | signals of managers and modules, user |
| Scope curve, script engine, logger, console | buffers, timers, tables, tabs | values, messages, timers, user |
| dsPIC boot loader plugin | document, message queue, timers | load a HEX file, upload, change an id, feedback, time out |
| Device filters (`NETVDevice`) | masks and filters | `addFilter`, `addMask`, `applyFilters` |
| Arduino firmware (`NETVArduino.h`) | memory table, serial buffer | `setup`, `transceiver`, `updateVariable` |

`PROJECT.json` lists each with its status.

### What is hard, and what makes each component correct

* *Interface handler.* Any number of threads push while the send thread retries,
  fails or stops; the semaphore and the queue are changed in separate steps. Correct:
  first in first out without loss or repetition; a wake-up for each message; one
  call per message for each registration of an observer; the destructor ends, and not
  before the threads.
* *Manager and scheduler.* One thread, but long sequences of messages, timers and user
  requests in any order over lists of raw pointers and signal connections. Correct: no
  pointer to a deleted variable, each activated variable of a module that answers
  polled in turn and once, silence detected and only silence.
* *Core driver queues.* A mutex, a semaphore and a list that must agree whatever mix of
  four ways to take messages runs, and a limit that may change. Correct: order,
  counting, bound, progress of the messages.
* *Core driver threads.* Start and stop cross queued signals and flags each thread sets
  for itself. Correct: the workers run exactly when the driver does, every stop ends,
  no thread survives its driver.
* *Variable values.* A user's write crosses the answer to an earlier poll; types wrap and
  overlap. Correct: the last write wins, a fresh answer shows it, the view converges.
* *Driver manager.* Two threads and one mutex; the shutdown deletes what the reader uses.
  Correct: the schedule matches the modules that exist and answer, in every session.
* *Byte streams.* Framing after a lost byte, reads that end anywhere, two sides that cut
  the same stream. Correct: nothing invented, nothing lost on a clean line, the frames
  found again after a fault.
* *Remote clients.* Two directions, clients that leave in the middle. Correct: a client
  that stays misses nothing and is heard.
* *Files.* Saved by one program and read by another, or by the next session after a
  crash. Correct: what was saved is found, or nothing.
* *Main window and plugins.* Views hold plain pointers to modules and variables that
  others delete. Correct: they follow the signals in every order of the user's acts.
* *Script runs.* Events are handled in the middle of a script. Correct: a script that is
  marked as running will run again, and can be stopped.
* *Boot loader.* Stop-and-wait with timeouts and late acknowledgements, and an image
  assembled from records in any order.

The `hazards` of `PROJECT.json` give the lines.

## 2. Modules

| Module | Models | Source |
|---|---|---|
| `Outbox` | abstract specification of a message queue: a device takes, in order and once, what was accepted | what both queues promise |
| `NumberedSequences` | sequences of consecutive numbers | - |
| `Selection` | the elements of a sequence that belong to a set, as recursive function: a `SelectSeq` one can prove about | - |
| `SequenceLemmas` | lemmas on sequences, folds, selections and finite sets, proved | - |
| `InterfaceHandler` | the interface handler and its three kinds of threads | `NETVInterfaceHandler.cpp` |
| `NetworkScheduler` | the effect of each scheduler method on its state | `NetworkScheduler.cpp` |
| `InterfaceManager` | manager, modules, configurations and variables, composed with `NetworkScheduler` | `NETVInterfaceManager.cpp`, `NetworkModule.cpp`, `ModuleConfiguration.cpp`, `ModuleVariable.cpp` |
| `CoreDriverQueue` | one queue of a `CoreDriver`, for sending or receiving | `CoreDriver.cpp` |
| `DriverThreads` | threads of a `CoreDriver` | `CoreDriver.cpp` |
| `DriverManager` | manager of the new stack with its scheduler, reader and the GUI thread that starts and stops it, composed with `NetworkScheduler`, of which the new scheduler is a copy | `NETVDriverManager.cpp`, `NETVScheduler.cpp`, `CoreDriverManager.cpp` |
| `Loopback` | the loopback driver between its two queues | `drivers_new/Loopback/Loopback.cpp` |
| `VariableTypes` | the integer types and their conversions from and to bytes | `ModuleVariable.cpp` |
| `VariableValues` | the values of the variables of a module, what writes, requests and answers carry, sliders, and the module's memory as the loopback device has it | `NETVInterfaceManager.cpp`, `ModuleVariable.cpp`, `ScriptEngine.h`, `Loopback.cpp` |
| `Configuration` | tables of variables and their XML files, of both stacks | `ModuleConfiguration.cpp`, `NETVModuleConfiguration.cpp`, `ModuleConfigurationView.cpp`, ... |
| `OscGenerator` | the code generated from a file, composed with `Configuration` | `console/src/osc_generator.cpp` |
| `Preferences` | the preferences file between NetworkViewer and netvconsole | `UserPreferences.cpp`, `NETVInterfaceManagerView.cpp`, `DeviceSelectorDialog.cpp`, netvconsole's `main.cpp` |
| `SerialLink` | the three devices on byte streams, and the board at the other end | `SerialEmulator.cpp`, `SerialBridge.cpp`, `EthernetBridge.cpp`, `NETVArduino.h` |
| `RemoteLink` | server, client sockets and client devices on TCP | `NETVRemoteServer.cpp`, `NETVRemoteClient.cpp`, `TcpRemoteClient.cpp`, `main.cpp` |
| `Messages` | the message of the new stack, and how each driver packs one | `CANMessage.cpp`, `NETVMessage.cpp`, drivers |
| `DeviceFilters` | masks and filters | `NETVDevice.cpp` |
| `Desktop` | main window, interfaces, modules, configuration windows, scope, logger, sliders, script objects | `NetworkView.cpp`, `ScopeView.cpp`, `ModuleVariableTableWidget.cpp`, `ScriptEngine.cpp`, ... |
| `ScopeCurve` | the buffer of a curve and its bounds | `ScopeCurve.cpp` |
| `ScriptRun` | starting and stopping a script | `ScriptEngine.cpp` |
| `Console` | observers, events and tabs of the console | `ConsolePlugin.cpp` |
| `Bootloader` | upload to a module, change of its ID, timers and feedback, module list, the bus and the modules | `dsPICBootloader.cpp` |
| `HexFile` | from the records of a HEX file to the rows of an upload | `hexutils.cpp`, `dsPICBootloader.cpp` |
| `MCInterfaceManager`, `MCVariableValues`, `MCSerialLink`, `MCBootloader` | small instances for TLC | - |
| `MCCoreDriver` | `CoreDriverQueue`, `DriverThreads` and `DriverManager` for TLC | - |
| `MCDesktop` | the parts around the core, for TLC | - |
| `InterfaceHandler_proofs`, `InterfaceManager_proofs`, `CoreDriver_proofs`, `Streams_proofs`, `VariableValues_proofs`, `Bootloader_proofs`, `Desktop_proofs` | theorems | - |

### How state and actions correspond to the code

**InterfaceHandler.** Variables keep the names of the members (`msgQueue`,
`listSemaphore`, `observers`, `running`). A message is its number in the order of
`push_back`; `wire` is what the device accepted. Each thread has a program counter. A
step goes from one point where another thread may run to the next: the send thread is
at `loop` (`while (m_handler->isRunning())`), `acquire`, `lock`, `critical`, `device`
(inside `sendMessage`, mutex held), `unlock`. `pushNETVMessage` is two steps, `Push`
under the mutex and `PushRelease` after it. The device is any that returns states of
`SendResults`. `result` is uninitialised in the code when the queue is empty, so
`SendCheck` gives it any value. `notifyCANObservers` calls one observer per step with
`m_observerMutex` held. `calls` runs along `observers`: the calls made through each entry,
counted from the messages handed out before it was registered. An observer registered twice
has two entries and is called twice per message. The caller of the destructor is assumed not to be inside a
`pushNETVMessage` (in `NetworkView` it is the pushing thread).

**InterfaceManager / NetworkScheduler.** Everything runs in the GUI thread, so an
action is the handling of one event with every slot it triggers. `modules`, `active`,
`conf`, `activated`, `scheduleList` are members of the classes. `schedModules` and
`connected` stand for `m_modules` and the Qt connections of the scheduler: modules in
`schedModules` have their `variableAdded` and `variableRemoved` connected, variables in
`connected` their `variableActivated` and `aboutToDestroy`. The time of day `now` wraps
at `DayLength`, as `QTime` does; `silence` is the true number of seconds since a module
was heard, known to no code. The GUI user is `SetActivated`, `LoadConfiguration`,
`AddVariable` and `RemoveModule`. A reload deletes the variables and makes new ones;
the model uses the same names for them, and keeps a reload that makes none, which
shows a pointer left behind.

**CoreDriverQueue.** One instance of the queue code, with `direction` saying which of
the two: `recvMessage`/`pullRecvMessage` and `recvAllMessages` exist for the receive
queue, `pullSendMessage` for the send queue. `recvMessage` waits up to 100 ms for the
semaphore with the mutex locked, which `waiting` shows: no other operation can run.

**DriverThreads.** The creator's thread, the driver's thread and two workers;
`events` is the creator's queue of slot calls. `QThread` is external: `start` clears the
quit flag, `quit` sets it even before `exec`, `wait` returns when the thread has ended,
`started` and `finished` are emitted in the thread itself.

**DriverManager.** Three threads and one mutex: what runs with `m_mutex` held is one
action (`ReaderProcess`, `SchedulerWatchdog`, `Startup`, `Shutdown`), and so is
`schedulerUpdate`, which holds the scheduler's mutex as do the changes of its list.
`managerPc`, `readerPc` and `guiPc` say where the threads are; `events` are the signals
queued to the GUI thread. `QThread` is as in `DriverThreads`. The reader may be given an
ALIVE answer at any time, also one that waited in the driver's queue since before a
stop. `silent` abstracts the clock. `missed` is history: the modules that were found
while `m_scheduler` was NULL.

**VariableValues.** A value is the `QVariant`: `<<x>>` or `Invalid`. `sendQueue` is the
handler's queue, which `InterfaceHandler` shows to be a FIFO; `answers` are the device's
messages and the posted events, in order. `SetValue` is `setValue` with its slots: a
variable that changes moves its slider, a slider that moves sets the variable, and each
of the two writes is built from the value at the end, since the slots are nested. The
module is the loopback device: it answers a request with its bytes and stores a write.
`lastSet` (what the user set last, as long as nothing else can have changed it), `fresh`
(the request was made after that) and `quiet` (from now on nothing is set, lost or
changed by the module) are history. A file that cannot be read or parsed is in
`InterfaceManager`.

**Bootloader.** The plugin runs in the GUI thread; an action is a click, an event or a
time out with every call it makes (`Stop`, `RebuildCombo`, ...). `msgQueue`, `module`,
`document` are the members; `selected` is the current item of the combo, which is not
always the module of index 0 that `rebuildCombo` puts in `m_module`. `timer` says
whether `m_timer` is set, `forgotten` counts the timers that a second start leaves
running (`changeModuleID` may be called again). The document is the list of its 8-byte
rows, which `HexFile` makes. Feedback that no observer takes is dropped. The bus
(`toModule`, `feedback`) and
the modules are as the loopback device simulates them; an ALIVE answer is one step,
and comes whenever it likes, so that the state the plugin reads may be old. A message
carries its place `pos` in the upload, which no code reads and `operator==` does not
compare: with `received`, `repeated`, `resent` and `done` it is history, which the
properties compare with what the plugin believes.

**SerialLink.** `device` says which of the three devices is open; `down` and `up` are the
bytes on the line, `port` and `boardPort` those the two ends have read and not yet used.
A message is three bytes: the fields by which the receiver decides, and one byte of data;
the emulator adds `START_BYTE` and the checksum. `serialReadyRead` and `PeerReads` take any
number of bytes that are there, so that reads end anywhere. The board (`transceiver`,
`process_message`, `updateVariable`) is the Arduino library; the CAN box of the bridges is
external and sends back what it gets. A fault drops, changes or inserts one byte of a read;
the bytes of `Messages` and `NoiseBytes` are chosen so that no damaged frame has a correct
checksum by chance and `START_BYTE` occurs only at the start: with 256 values of a byte
both happen, rarely, and no framing of this kind can exclude it. `tryAcquire` and
`Device_recvMessage` are the two steps of the handler's receive thread; `LineSpec` is the
specification (its names differ from those of `RemoteLink`, so that one module can prove
things about both). `clock` is
`m_openTime.elapsed()`, which starts again from 0 every 24 hours: the emulator discards
messages while it is in the first seconds, also one day later.

**RemoteLink.** One server, several clients. A byte is `<<message, place>>`; `unserialize` takes
a message when all its bytes are there. `observing` counts the registrations of the server as
observer of each handler (`addInterface` registers it before it looks whether it knows the
interface), `posted` and `clientPosted` are the events to the two GUI threads,
`m_socketList` the sockets, `pending` the connections that nobody takes from the
`QTcpServer`, whose `incomingConnection` is overridden. `readyReadSocket` reads all
sockets, as the code does, whichever of them signalled.

**Configuration, OscGenerator.** `config` is the table, `disk` the files; the two programs
differ in the tags they write and accept. A crash while saving leaves a broken file
(`DiesSaving`). `Restart` changes the program, so that a table passes from one to the other.
A value is a number, nothing, or `RawBytes`, which the new stack makes of an answer; bytes that
happen to be the digits of a number are left out. `read_osc` and `sprintf_osc` are what the
generated C functions do, for the table that `osc_generator` loads; a path of no variable
sends an uninitialised message (`osc_generator.cpp:182`), any message in the model.

**Preferences.** `m_file` is the file, `m_map` the preferences in memory, `managers` the list
of interfaces. Saving is two steps, `Truncate` (part of the action that saves) and `Written`;
`Ends` in between is a crash, and `ConsoleStarts` in between another program that reads.
`Install` changes the libraries found, so that a driver is missing when a session starts.

**Desktop.** Everything runs in the GUI thread; an action is an act of the user or a signal
with all the slots it triggers. `m_scopeView` keeps its curves in order, with those whose
`deleteLater` is pending; `posted` are the `addCurve` events. `table` is the logger's table
with its map from variables to rows. Addresses are used again after a delete, as an allocator
does, so a view that kept a pointer would take the new module for the old one. Posted events
and deferred deletes are assumed to be handled before the next act of the user.

**ScopeCurve, ScriptRun, Console, Loopback, Messages, DeviceFilters.** The variables are the
members. In `ScriptRun`, `evaluating` is the stack of evaluations in each other: a script
processes events every so often, and a click or a timer may start it again. In `Console`,
`m_observers` counts how often the handler of each interface would call the console. In
`Loopback`, the send worker answers for one virtual module per step, while the reader takes
answers. In `Messages`, the functions named for a driver are what it makes of a message on
the bus.

**HexFile.** `records` is the file, byte by byte, `source` the lines `hex32doc::load` read from
it, `m_lines` what `parse` made of them after its sort, `m_memoryData` the memory map and
`sent` the rows of the upload. Sizes of byte, page and segment are scaled down. The files have
records at even addresses that do not overlap and do not straddle the boot loader, as linkers
write them; records of equal address are equal, so the order in which `std::sort` leaves them
does not matter. One digit anywhere in the file may be wrong (`spoiled`). The length of a record
says how much of the buffer `hex32line` reads, and where it looks for the checksum; what lies
behind the line there, the line end, an older and longer line or the stack, is any byte of
`Leftover`. When a file has no end record, and a line end behind its last line, `load` reads
one line more from a buffer of which only the first character was cleared (`Unfilled`): its
length is 0xF0 or more, its data the last line and what lies behind it. Both follow the code
into what it does with such files, and what it does is not always right:

* A wrong digit in a length may pass the checksum: one less does when the checksum of the
  record is 0xFF, and drops its last byte. `DamageRefused` says that a wrong digit in any other
  place never passes.
* A file without an end record may be refused or taken, as the stack has it. `ImageFaithful`
  compares the images of files that were read as they were written (`ReadAsWritten`).

## 3. Runs

| Run | Question | Answer |
|---|---|---|
| `handler_reliable` | device that answers OK or OVERFLOW: are all messages sent, does the thread ever sleep on one, does the destructor end? | holds |
| `handler_faulty` | any device: order, permits, observers, lifetime, refinement of `Outbox` | holds |
| `manager` | two modules, all events, one day: does the list match what exists and answers, is the polling fair, is the watchdog exact? | holds |
| `manager_midnight` | "Scan for inactive modules" across midnight | violated |
| `core_driver` | the new stack: both queues (order, counting, bound, refinement, progress); up to three sessions of the threads (do the workers follow the driver, does a stop end?); up to three sessions of the manager (does the schedule match the modules, does the reader follow?) | holds |
| `threads_stop` | does each `stop()` of a worker end? | violated |
| `values` | two overlapping variables, writes, polls and answers crossing, losses: are writes kept, are fresh answers what was written, does the view converge? | holds |
| `serial_link` | three devices, the stream cut anywhere, one fault: is nothing invented, lost on a clean line, and are frames found again? | holds |
| `remote_link` | two clients, up to three connections, two interfaces: is every message carried once and in order both ways, and at all? | holds |
| `desktop` | the parts around the core: views and plugins as modules come and go, curves, scripts, files and generated code, preferences with crashes, HEX files, the loopback driver, the console, messages and filters | holds |
| `bootloader` | bus that loses and delays, modules that come and go: is an upload in order, complete when it says so, and does it end? | holds |
| `bootloader_feedback` | "Validate feedback" with a device that sets timestamps | violated |

`core_driver` and `desktop` check several parts in one run. The parts share no variables: the
variable `part` says which of them moves in a behaviour, the others keep their first state,
and each property is guarded by `part` where it would cost time otherwise. Fairness of an
action is that of the action in its part.

What the violated ones show:

* `manager_midnight`: `secsTo` is negative after midnight, so the module stays active,
  and is polled, until a day has passed.
* `threads_stop`: a worker sets `m_running = true` when its `run()` begins. If `stop()`
  comes first it is overwritten, the worker never leaves its loop and the creator waits
  for ever. `StopEndsOnceEntered` (in `core_driver`) says that this is the only way.
* `bootloader_feedback`: `NETV_MESSAGE::operator==` compares `msg_timestamp`, 0 in the
  message of the upload and the time of reception in the one sent back. The first
  feedback is a "Transfer error". `bootloader` shows that the protocol is right when the
  comparison can succeed.

Five more statements of the code are in the modules and do not hold; put one of them in
place of the properties of a run to see it:

* `NoThreadAtDelete` of `DriverThreads` (in `threads_stop`): `~CoreDriver` waits for the
  driver's thread, whose `finished()` is queued to the creator, which is in the destructor;
  the workers go on while the queues they use are destroyed.
* `EthernetReadsAligned` of `SerialLink` (in `serial_link`): `socketReadyRead` asserts that a
  read ends on a message boundary (`EthernetBridge.cpp:140`), which TCP does not promise.
* `ContainedVariableSent` of `SerialLink` (in `serial_link`): `updateVariable` takes offsets
  by the comment at `NETVArduino.h:106`, but refuses some that are in the table.
* `HitDocumented` of `DeviceFilters` (in `desktop`, as
  `part = "filter" => Filter!HitDocumented` in `MCDesktop`): `applyFilters` reads `m_filters[i]` where it means
  `m_filters[j]`, so the mark is the last filter, whichever was hit. With more masks than
  filters it reads behind the list, and what it finds there may be a hit or not.
  `MarkedOnlyIfHit` says what remains true with no more masks than filters.
* `ValueAsReceived` of `Configuration` (in `desktop`, as
  `Config!ValueAsReceived` in `MCDesktop`): the manager of the new stack calls
  `setValue(const QByteArray &)` for an answer (`NETVDriverManager.cpp:147`), which keeps the
  bytes; as a number they are 0, whatever the module answered, although the comment says
  "UPDATING VALUE". NetworkViewer decodes them.

What the passing runs leave open:

* `handler_faulty`: a state other than OK and OVERFLOW consumes the permit and leaves the
  message. The thread then sleeps with a message in the queue, although it "will block on
  the semaphore until we have something to send"; each later push sends the one before
  it. `PermitsInv` says how far it goes: never more permits than messages.
* `core_driver`: `ActiveScheduled` excepts the modules in `missed`. `startup` makes an
  empty scheduler, and a module that is already active is not added again when it
  answers. So a module found by the reader between `shutdown` and its own end, or before
  `startup`, is not polled in the next session, until it falls silent once.
* `values`: `Converges` speaks of states without sliders. With one, an answer to a poll
  that was sent before a write moves the slider back, which writes the old value; the
  answers to the polls in between move it again, and both values go on chasing each
  other, or the user's one is lost. A write is never acknowledged; `Converges` says that
  the view shows in the end that it was lost. Loading a configuration in the view writes
  0 to each variable the file has no value for (`ToInt(Invalid)`).
* `serial_link`: `FaultContained` is about the line to the board. The bridges have no
  framing: after one lost byte they take every later message apart at the wrong place, for
  ever, and `ExactWhenClean` (in `LinkExact`) and `AllArrives` speak of undisturbed lines
  only. `NothingInvented` and `FaultContained` need the bound of one fault: two damaged bytes
  can make a sum right again.
* `remote_link`: after `MaxPending` (30 in Qt) clients have ever connected the server listens
  to nobody, since the connections stay pending: `Accepted` says so. A message whose length
  field is more than 8 stops a stream for good: `Delivered` speaks of readable messages.
* `desktop`: `TableAsSaved` excepts numbers that do not fit their type. They are sent to
  the module cut to their width, but are not found in a file of a two- or four-byte type.
  NetworkViewer finds no variables in a file of the new stack, which has other tags. Two RAM
  variables at the same offset make `osc_generator` write code that does not compile.
  A missing driver is dropped from the list of interfaces, for ever at the next save. A
  crash in a save loses all preferences. `AnswersExact` excepts an answer that meets a full
  queue: it is lost, and leaks. `DamageRefused` is about whole records: a file cut between
  two records, without a newline at its end, is accepted. An image of at most one word is
  sent as it is, followed by what lies behind it in memory. A record of type 04 with a wrong
  length ends the parsing, and the rest is not uploaded, although the file was accepted.
  The upload of a file that was refused is enabled when a transfer is stopped
  (`dsPICBootloader.cpp:550`). A request received by PCAN on Windows is an empty message.

What `bootloader` leaves open, by its bounds: two equal rows next to each other (a late
second feedback of the first would validate a lost second one), and an upload started
while messages of an earlier one are on the bus. `UploadEnds` excludes an upload whose
module is no longer the one the plugin looks at, after a module that appeared rebuilt
the combo; then `timeout` reads the state of the wrong module. A change of module ID
never ends by itself: the plugin is not registered as an observer and gets no feedback.

### Bounds, and why they are enough

* `MaxPush` 3 with two producers: three messages let one be in the device, one in the
  queue and one be pushed; a permit can be stolen by another message. The proofs cover
  every other value.
* `MaxRecv` 2, `MaxRegs` 3 with two observers: an observer registered twice, another
  once, over consecutive messages.
* `SilenceLimit` 1 for the code's 5: only the comparison with the limit matters. A day of
  `DayLength` 4 has a second before, at and after the limit. `silence` stops at
  `SilenceLimit + 2`, one more than any comparison looks at. `CrossMidnight` FALSE keeps
  the modelled period within a day.
* Four variables, one of them a script variable (never scheduled), two modules, of which
  the first has three configurations.
* `Limits` {0, 1, 3}, five messages: empty, full and lowered below the length.
* `MaxWire` 2: a message sent again while its feedback is on the way, the least that can
  confuse the plugin; more copies only repeat it. `MaxTimers` 1: a forgotten timer and a
  current one. `QuietBus`: an upload starts when nothing is on the bus. Two rows that
  differ: the document's length only lengthens the middle of the upload. Two modules:
  one to program, one that comes and goes.
* `Byte` 2 instead of 256: a word has four values and its signed high byte two, so that a
  value that does not fit, a sign and a carry all occur; nothing in the conversions
  depends on the base. `MaxInFlight` 3: a stale answer, a write and a new request.
* `MaxSessions` 3: a session whose events are handled after the start of the next one,
  and a third to follow that. More sessions only lengthen the queue of events.
* `serial_link`: three frames in both directions together and one fault, which is enough
  for a fault to damage one frame and to swallow the start of the next, and for a third to
  be found again. `Base` 29 has room for sums that differ. `Day` is two ticks, and messages
  are dropped in the first (`Delay` 0).
* `remote_link`: two messages and three connections, for two clients of which one may come
  back; a server that listens to two pending connections, so that the third is refused.
  Lengths 1 and 2 with `MaxData` 1: a message that can be read and one that cannot.
* `desktop`: two interfaces and three addresses, one device that is a module and one that is
  pseudo, one variable each, shown in two places: every pair of views of a variable, with a
  module at the address of a deleted one. Curves of at most three samples out of three times
  and values: growing, full and shrunk. Scripts three evaluations deep. Two names of one and
  two bytes, two files, two edits: a table saved by one program and read by the other. Two
  drivers and interfaces, three changes. HEX files of four records on pages of two words,
  over the two sides of the boot loader and of a segment, with one wrong digit at most; a byte
  has six values, so that there are three types of records, and two digits, of three values
  and of two. Three masks and filters: more of the ones than of the others. Three virtual modules that answer
  three requests into queues of two and four. Two interfaces, two modules with two texts each.

### Fairness

Liveness is checked under weak fairness of each thread (a thread that can run does),
of the two timers of the GUI thread, and of calls under way. No fairness is given to
those who may or may not act: a pusher, a user, a module that answers, `start`, `stop`.
`DeviceDrains` (strong fairness of the device answering OK) is the assumption that an
overflow is temporary. In `CoreDriverQueue` a mutex
that is free is taken by somebody who waits for it (weak fairness of `TakesMutex`), nobody
knows by whom, and a `tryAcquire` ends: a `QMutex` keeps no order, and the reader, which
sleeps up to 100 ms with the mutex locked, may lock it again at once. With that little a push
need not return, in the model as in the code: `\A p \in Pushers : p \in pushing ~> p \notin pushing`
in place of `PushWaitsForTurn` is violated by a reader whose calls time out one after the
other. What `QueueLive` says is what remains: a push that never returns is overtaken by others
infinitely often (`PushWaitsForTurn`), so it waits for its turn and for nothing else; and each
message accepted is taken in the end, unless pushes, refused ones for instance, go on for ever
(`EverythingTaken`). In `VariableValues` the scheduler's timer, the
send thread with the device, and the GUI thread that handles answers go on (weak
fairness); nothing is assumed of the user and of losses. `DriverManager` has no
liveness property. In `Bootloader` the timer, the clock and the ALIVE answers go on
(weak fairness; the manager asks for them every second), and a message sent again and
again arrives in the end (strong fairness of `ModuleReceives` and `Feedback`: the loss
is not malicious). In `SerialLink` events, bytes and answers go on (weak fairness); the user
and the faults do not have to. In `RemoteLink` the event loops, TCP in both directions and
the receive threads go on; clients may leave or stay. The parts of `desktop` are checked for
safety only: what has to happen in them is either immediate or up to the user.

Deadlock is checked in all runs but three. In `serial_link`, `remote_link` and `desktop` the
bounds let the system come to rest: all messages are sent, all changes made.

## 4. Proofs

**InterfaceHandler_proofs**, for every set of producers, every device and every bound.
`FifoInv` is not inductive alone: that the head of the queue may be taken needs the send
thread to be the only consumer and the queue not to be empty at `device`. `SendInv` is
the conjunction of the types of the sending side (`SendTypeOK`), of `ControlInv` (at
`device` the queue is not empty) and of `FifoInv`; `SendInvStep` goes
through the actions one by one, the receiving side being a stutter (`RecvSideSteps`).
From it follow

* `Fifo`: `FifoInv` always holds;
* `ImplementsOutbox`: every step is a step of `Outbox` or a stutter (`Push` is `Accept`,
  `DeviceSend("OK")` is `Deliver`);
* `Permits`: `PermitsInv`, which counts permits released, about to be released and held,
  and uses the lemma on the cardinality of `releasing`;
* `NoStall`: with a device that answers OK or OVERFLOW, `BlockedOnlyWhenIdle`. It adds
  `WakeInv`, which extends the counting to the time after the destructor has started;
* `DeviceLifetime`: `DeviceOutlivesThreads`, from `JoinInv`.

**InterfaceManager_proofs**, for any modules, configurations, delays and timeouts, and as many
timer events and messages as one likes. `Scheduled` is `ScheduleExact`: the scheduler has
exactly the requests the configurations ask for, none of a variable that is gone, none
twice. It rests on what each method of `NetworkScheduler` does to its list
(`SequenceLemmas` on `Only`, `Remove...` and positions), and on ownership: a configuration
belongs to one module, a variable to one configuration. `Detected` (`SilenceDetected`) and
`Watched` assume `~CrossMidnight`: all happens on one day. The hypothesis is needed. With a
night in between the times of the scheduler, which have no date, are wrong, which the run
`manager_midnight` shows.

**CoreDriver_proofs**, for any limits of the queues, any threads that use them, and any number
of starts and stops. Three parts:

* the queue. `QueueInv` is `TypeOK`, `FifoInv` and `PermitsMatchQueue` together: taking the
  head needs the count, and the count needs the guard on the length. `Typing`, `Fifo`,
  `Permits`, `Sound` (queue, semaphore and mutex agree), `Limited` (an action property) and
  `ImplementsOutbox` follow;
* `Followed`, that workers and the threads of the manager do what was asked last
  (`ThreadsFollow`). It only speaks of states without queued calls, so it is far from
  inductive. The calls on their way are the end of one regular sequence: send and recv
  started, send and recv finished, and so on. Counted from its end each call is determined
  by whether the driver is up (`EventsInOrder`); hence the last call each worker has handled
  is known, and `WorkersInOrder` says what the worker must be doing after it. Two steps
  matter: calls are added and the signal changes, or the first call is taken. The reader of
  the manager has a sequence of its own of the same shape;
* `Scheduled`, that the list of the new scheduler is exact (`ScheduleExact`), with the lemmas
  on `NetworkScheduler` of the legacy stack, of which it is a copy.

**Streams_proofs**, about the two links that carry messages as bytes. One idea serves both:
what a reader has of the bytes and what is behind it on the line are together the stream of
some messages; a read takes the first of these messages and leaves the stream of the others,
a write adds messages at the end.

* `Exchanged` is `ClientsExact` of `RemoteLink`, for any clients and messages, those that are
  too long included. `ParseKeeps` shows that the loop of the parser takes whole messages off
  the front, wherever TCP cuts the stream. Per client `Idle`, `Receives` and `Writes` say who
  may have unparsed bytes at all.
* `LinkKeepsMessages` is `LinkExact` of `SerialLink`, for all three devices, any messages and
  any number of faults. `PermitFindsFrame` counts a permit for each frame that joins the
  queue; `ExactWhenClean` follows from `DownClean` and `UpClean`, which say of each direction
  which messages are taken, queued and still on the line (`LineInv` is the whole invariant).
  `CutStream` shows that cutting at a fixed stride takes the frames of a stream and leaves
  the stream of the others, by induction on the frames. That the two readers which look for
  `START_BYTE` do the same on a clean stream is `TakenExactly` for the board, whose scan
  is a recursion over positions (`ScanFunction`, `Backwards`), and `ReadExactly` for
  `SerialEmulator`. After a fault the invariant says only that bytes are bytes and frames are
  frames, which is what the permits need.

**VariableValues_proofs**, for any layout of the variables (also overlapping ones), any memory,
any number of values of a byte, any files and sliders, and any number of messages under way.

* `ValuesExact` is `WritesExact`: when no write is on its way to a variable, its bytes in the
  module make the value that was set last. That only speaks of quiet moments. `ValuesInv` says
  where the value is at any time (`Arrives`): in the memory with no write behind it, or carried
  by a write in the queue after which none touches the variable. Actions are brought down to
  what they do to the queue: writes join (`UntouchedKeeps`, `WrittenBrings`), a request joins
  (`RequestJoins`), the head goes (`HeadGone`) or arrives (`WriteArrives`).
* `ReadsExact` is `ReadYourWrites`, an action property. The invariant has two parts for it: no
  write to the variable is sent after a request that was made since the user set it
  (`AskedLast`), and the answer to such a request has the bytes of what was set (`ToldRight`).
* Both need that a value cut into bytes and put together again is the value as its type can
  hold it (`RoundTrip`, `FromBytes` after `ToBytes` is `Wrapped`). It rests on division in any
  base (`DivisionTwice`, `DivisionUnique`, `OneMorePlace`): a value that is cut to some bytes
  is its remainder (`NumberOfValue`), and no two values of a type have the same
  (`OneOfEach`). Of the base only `ByteAssumption` is used, that it is at least 2, so the
  256 of the code are covered although the run has two.

**Bootloader_proofs**, for any documents, delays and losses.

* `Uploaded` (`UploadSound`): what an upload reports as done the module has, row by row, in
  order. The wire is split into the messages on their way back and those on their way to the
  module; the places they stand for in the document ascend along it (`QueueInOrder`,
  `Commands`). While nothing was sent again there is one message at a time (`OneAtATime`);
  otherwise the upload is in step with the module or one behind it (`InStep`).
* `Acknowledged` (`AckedWasReceived`) assumes `NeighboursDiffer`: no row equals the row before
  it. Messages carry no number, so two equal rows in a row, like erased pages, make a late
  feedback acknowledge a row that was lost; TLC finds this with the document `<<1, 1>>`.
* An upload starts on a quiet bus (`QuietBus`, a bound of the model).

**Desktop_proofs**, for parts of `MCDesktop`. As these share no variable, each invariant is about
one part: outside of it the property holds, or the step is a stutter.

* `Running`: `RunningIsScheduled` for any depth of evaluations and any periods. The property is
  inductive with the types alone (`ScriptInv`); what takes work is that an evaluation that
  begins or ends does not hide one of the kind "once" (`ContainsAppend`).
* `Bounds`: `BoundsExact` for any size of the buffer. `CurveInv` adds to it that samples are in
  the order of their times and that the buffer is within its size, without which the first
  sample need not be the leftmost one. The rectangle is "the one that surrounds the samples"
  (`Surrounds`), which `Extended` keeps sample by sample (`UpdateBoundaries`, by induction on
  their number), and not the minimum of a set, which only `CurveInvImplies` speaks of.
* `Kept`: `PreferencesKept` for any drivers and periods, and any number of interfaces and of
  changes. `PrefsInv` says where the last list is in every state: in the memory of a program
  that runs, and in the file unless it is cut short, which it is exactly during a save and
  after one in which the program died. `SavedIsRead`: a saved list is read back, although the
  keys of interfaces beyond it stay in the file.
* `Follow`: `ViewsFollow` for any interfaces, addresses, devices and variables, any number of
  windows and places in the views, and logs of any length. `ViewsInv` has a part about the
  modules (`ModulesInv`: besides the agreement itself, that an interface which is not there
  lists no module and a pseudo module is in no list, without which the user's cross or the
  destructor would leave a module behind) and one about what is shown (`ShowInv`). Actions are
  brought down to what they do to the modules: some go (`GoneKeeps`), one comes (`NewKeeps`),
  one changes (`ChangedKeeps`), and variables are destroyed while no event is on its way
  (`ShowGone`). `Logged` ties the table to the history: each row is at the place the map says
  (`Placed`), and a log is complete if its variable is connected once, which is why `seen` is
  -1 for a variable that was dropped again. `RemoveKeeps` is the new indexes after a removed
  row, and `DestroyedKeeps` one removal after the other, by induction on the rows.

* `Messages`: `MessagesCarried`, about four more parts with an invariant each.
  * Identifiers (`BusInv`): `m_eid` is at any time the sum of the fields it was last given, each
    cut down to its width, whatever setters were called in which order; division and remainder
    then give each field back (`GetWhole`). An invalid payload marks the message for good.
  * Filters (`FilterInv`): with no more masks than filters every mask has a filter at its own
    index, so that what `applyFilters` finds there is a hit: only a hit marks a message.
  * Virtual modules (`LoopInv`), for any number of them and any limits: `InLine` says which
    requests are answered, which one is being answered and by whom; from it the answers ascend
    (`Ordered`) and are complete unless the queue was full (`Complete`).
  * The console (`TextInv`): no two tabs have the same identifier, the plugin observes each
    interface once at most, and the texts of a module in its tab and on their way are
    consecutive, up to the last one said (`TextsInTurn`).

**InterfaceHandler_proofs** also has `Observed` (`HandlerSound`): through each entry of the list
exactly one call was made for each message since it was registered, and none yet for the one
that is being handed out if its turn is still to come. `RecvInv` adds that the index of the
iteration is within the list while the mutex is held; taking an entry out keeps the rest
(`WithoutEntry`).

**SequenceLemmas** has what these proofs share: `Append`, `Tail`, `Front` and concatenation of
sequences, also of numbered ones; sequences cut in pieces and put together; `Only` on each of them; injective sequences; folds that
add elements. Induction over sequences and sets is done with sets of counterexamples
(`NatSetInduction`, `SeqSetInduction`): the set of the lengths or sequences for which the
claim holds is closed, so it is all of them.

The assumptions are those on the constants that the modules name (`HandlerAssumption`,
`QueueAssumption`, `ThreadsAssumption`, `ScriptRunAssumption`, ...), which TLC evaluates: among
them that users and files set integers, that the values of a slider are an interval, that the configurations of a module differ and are not those of another, and that a
document is a sequence of numbers.

*Only model-checked*: everything about liveness (`EverythingSent`, `DestructorEnds`,
`QueueLive`, `NoStarvation`, `StopEndsOnceEntered`, `Converges`, `UploadEnds`, `AllArrives`,
`Delivered`, `Accepted`), which is outside the prover's reach; what a fault does on the line
to a board (`NothingInvented`, `FaultContained`), which holds for one fault at most, and for
bytes whose damage never leaves the sum of a frame right; the files (`FilesFaithful`) and the image of
a program (`ImageFaithful`), which are about what a parser computes for every input.

## 5. Not modelled

* Values of the types DOUBLE, FLOAT and BYTEARRAY8; the filter of repeated values, their
  times; values in the new stack, whose loopback driver does not answer requests.
* `CoreSerializer` and `CoreDeserializer`, which are stubs; `NETVBroadcaster` and the
  DeclarativeTest plugin, which no program builds or uses; the sample plugin, which keeps no
  state.
* The destructors of `NETVDriverManager` and `CoreDriverManager`: no program of the
  repository deletes one. Deleted while it runs, `removeModule` would assert
  (`NETVScheduler.cpp:120`) and `shutdown` be called on a partly destroyed object. The end of
  netvconsole, and of the main window: the console plugin uses the view in its destructor
  (`ConsolePlugin.cpp:66`) while the view is being destroyed.
* `saveCSV` of the logger, whose keys may be variables that were destroyed
  (`ModuleVariableTableWidget.cpp:351`): rows that were removed keep their logs. Reading and
  writing of the other files the plugins save.
* A HEX file that cannot be opened: `eof()` is not set by an `open` that failed, and
  `hex32doc::load` does not leave its loop.
* That `quit()` on the send and receive threads of the handler does nothing, as their
  `run()` has no event loop: `running` alone stops them, as in the model.
* Widgets, drawing, script interpretation, the text of XML, opening and closing of ports and
  sockets: input and output without control of their own. The sine waves of the loopback
  device.
* The calls of the PCAN library; loading of plugin libraries.

## 6. Plan

All modules above are checked, and the safety properties of the core are proved: handler,
manager, both parts of the new core, values, both links, boot loader, main window, scripts,
curves, preferences and messages. What would come next: a line on which faults are counted
per frame, so that `NothingInvented` and `FaultContained` can be proved for any number of them,
and the values of the types that are not modelled.
