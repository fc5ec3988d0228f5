----------------------------- MODULE MCDesktop -----------------------------
(***************************************************************************)
(* The parts of the programs that share no state with each other: the main *)
(* window with its plugins, a curve of the scope, a script that runs, the  *)
(* configuration files, the preferences, and the two kinds of messages     *)
(* with the filters.  Each behaviour is of one part and leaves the others  *)
(* as they are.                                                            *)
(***************************************************************************)
EXTENDS Integers, TLC

CONSTANTS Managers, Addresses, ShownDevices, Slots, MaxShown, MaxWindows, MaxLog,
          Sizes, DefaultSize, MaxTime, ScriptPeriods, MaxDepth, MaxStops,
          Byte, Names, Projects, Devices, Files, MaxVariables, MaxEdits,
          Drivers, Periods, MaxInterfaces, MaxChanges, PayloadSizes, MaxEntries,
          HexByte, Digit, Leftover, BootAddress, PageWords, Packet, Segments, MaxRecords,
          NbModules, SendLimit, RecvLimit, MaxSends, Handlers, Talkers, MaxTexts

VARIABLES
    part,
    m_interfaceManagerList, listed, modules, items, engine, heard, windows, m_scopeView, posted,
    table, sliders, seen,
    samples, m_boundingRect, m_maxItems, now,
    m_running, period, m_timer, editable, stops, evaluating,
    program, config, disk, found, snapshot, loaded, edits,
    installed, gui, next, m_map, managers, m_file, console, changes, savedList, diedSaving,
    m_eid, m_flags, m_data, last, tooLong,
    m_masks, m_filters,
    records, newline, spoiled, m_lines, validated, m_memoryData, sent, source,
    m_sendQueue, m_recvQueue, message, i, received, accepted, wasFull,
    interfaces, m_observers, consoleOpen, postedTexts, m_tabWidget, said, cleared

\* A file of an early version, without memType, for a project of no module: it is not
\* found by itself, but the user may load it.
Early == [root |-> "ModuleConfiguration", projectID |-> 2, deviceID |-> 7,
          elements |-> <<[tag |-> "ModuleVariable", type |-> "sint16", name |-> "c",
                          memType |-> {}, offset |-> 0, text |-> <<-2>>]>>]
NotThere == [root |-> "absent", projectID |-> -1, deviceID |-> 0, elements |-> <<>>]

Fields(p, t, c, d) == [priority |-> p, type |-> t, cmd |-> c, dest |-> d]

\* What the setters of a message and the filters of a device are given.
GivenFields  == [priority |-> {0, 5, 15}, type |-> {1, 255}, boot |-> {0, 3, 4},
                 cmd |-> {0, 129}, dest |-> {1, 255}]
GivenMasks   == {Fields(0, 0, 0, 0), Fields(0, 0, 0, 255), Fields(3, 255, 0, 0)}
GivenFilters == {Fields(0, 1, 2, 1), Fields(2, 1, 2, 3), Fields(0, 4, 0, 1)}

Views  == INSTANCE Desktop WITH Devices <- ShownDevices
Curve  == INSTANCE ScopeCurve WITH Values <- {-1, 0, 2}
Script == INSTANCE ScriptRun WITH Periods <- ScriptPeriods
Config == INSTANCE OscGenerator
            WITH Kind <- [a |-> [type |-> "sint8", mem |-> "ram"],
                          b |-> [type |-> "uint16", mem |-> "eeprom"]],
                 UserValues <- {-1, 5},
                 OldFiles <- [f1 |-> Early, f2 |-> NotThere]
Prefs  == INSTANCE Preferences
Bus    == INSTANCE Messages WITH Given <- GivenFields, Sizes <- PayloadSizes
Filter == INSTANCE DeviceFilters
            WITH Masks <- GivenMasks, Filters <- GivenFilters,
                 Received <- {Fields(0, 1, 2, 1), Fields(2, 1, 0, 3), Fields(6, 4, 0, 7)}
Hex    == INSTANCE HexFile
            WITH DataRecords <- {<<0, <<1, 4>>>>, <<8, <<2, 5>>>>}
Loop   == INSTANCE Loopback
Texts  == INSTANCE Console

viewVars   == <<m_interfaceManagerList, listed, modules, items, engine, heard, windows,
                m_scopeView, posted, table, sliders, seen>>
curveVars  == <<samples, m_boundingRect, m_maxItems, now>>
scriptVars == <<m_running, period, m_timer, editable, stops, evaluating>>
configVars == <<program, config, disk, found, snapshot, loaded, edits>>
prefsVars  == <<installed, gui, next, m_map, managers, m_file, console, changes, savedList,
                diedSaving>>
busVars    == <<m_eid, m_flags, m_data, last, tooLong>>
filterVars == <<m_masks, m_filters>>
hexVars    == <<records, newline, spoiled, m_lines, validated, m_memoryData, sent, source>>
loopVars   == <<m_sendQueue, m_recvQueue, message, i, received, accepted, wasFull>>
textVars   == <<interfaces, m_observers, consoleOpen, postedTexts, m_tabWidget, said, cleared>>
vars == <<part, viewVars, curveVars, scriptVars, configVars, prefsVars, busVars, filterVars,
          hexVars, loopVars, textVars>>

ASSUME MCAssumption ==
    /\ Views!DesktopAssumption /\ Curve!ScopeCurveAssumption /\ Script!ScriptRunAssumption
    /\ Config!ConfigurationAssumption /\ Prefs!PreferencesAssumption
    /\ Bus!MessagesAssumption /\ Filter!DeviceFiltersAssumption
    /\ Hex!HexFileAssumption /\ Loop!LoopbackAssumption /\ Texts!ConsoleAssumption

Init ==
    /\ part \in {"views", "curve", "script", "config", "prefs", "bus", "filter",
               "hex", "loopback", "console"}
    /\ Views!Init /\ Curve!Init /\ Script!Init /\ Config!Init /\ Prefs!Init /\ Bus!Init
    /\ Filter!Init /\ Hex!Init /\ Loop!Init /\ Texts!Init
    /\ part /= "config" => program = "NetworkViewer"
    /\ part /= "hex" => newline

Next ==
    /\ UNCHANGED part
    /\ IF part = "views"  THEN Views!Next  ELSE UNCHANGED viewVars
    /\ IF part = "curve"  THEN Curve!Next  ELSE UNCHANGED curveVars
    /\ IF part = "script" THEN Script!Next ELSE UNCHANGED scriptVars
    /\ IF part = "config" THEN Config!Next ELSE UNCHANGED configVars
    /\ IF part = "prefs"  THEN Prefs!Next  ELSE UNCHANGED prefsVars
    /\ IF part = "bus"    THEN Bus!Next    ELSE UNCHANGED busVars
    /\ IF part = "filter" THEN Filter!Next ELSE UNCHANGED filterVars
    /\ IF part = "hex"    THEN Hex!Next    ELSE UNCHANGED hexVars
    /\ IF part = "loopback" THEN Loop!Next ELSE UNCHANGED loopVars
    /\ IF part = "console" THEN Texts!Next ELSE UNCHANGED textVars

Spec == Init /\ [][Next]_vars

Symmetry == Permutations(Managers) \cup Permutations(Addresses) \cup Permutations(Handlers)

\* The properties, as they are explained in the modules of the parts.

\* The main window: tables, views, plugins and the logger follow the modules.
ViewsFollow ==
    part = "views" => /\ Views!ModulesAgree /\ Views!CrossWhenSilent
                      /\ Views!ViewsAlive /\ Views!LoggerExact

\* What a curve of the scope draws, and when a script runs.
BoundsExact        == part = "curve"  => Curve!BoundsExact
RunningIsScheduled == part = "script" => Script!RunningIsScheduled

\* Configuration files, and the code generated from them.
FilesFaithful == part = "config" => Config!FilesFaithful /\ Config!OscFaithful

PreferencesKept == Prefs!PreferencesKept

\* Messages of both stacks, the filters, the answers of the virtual modules and the
\* texts on the console.
MessagesCarried ==
    /\ part = "bus" => Bus!MessagesCarried
    /\ part = "filter" => Filter!MarkedOnlyIfHit
    /\ part = "loopback" => Loop!AnswersExact
    /\ part = "console" => Texts!ConsoleExact

\* The image of the program an upload sends.
ImageFaithful == part = "hex" => Hex!ImageFaithful /\ Hex!DamageRefused
=============================================================================
