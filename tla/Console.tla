------------------------------ MODULE Console ------------------------------
(***************************************************************************)
(* The console plugin: it observes the handlers of all interfaces from     *)
(* their receive threads, posts the messages to itself, and shows the text *)
(* of the modules, each in a tab of its own.                               *)
(***************************************************************************)
EXTENDS Integers, Sequences, Selection

CONSTANTS
    Handlers,       \* handlers of the managers
    Talkers,        \* identifiers of modules
    MaxTexts        \* bound on the console texts of a module

ConsoleAssumption == MaxTexts \in Nat

VARIABLES
    interfaces,   \* m_interfaceManagerList of the view
    m_observers,  \* handler -> how often the console is in its list of observers
    consoleOpen,  \* the console is there
    postedTexts,  \* events on their way to it: <<identifier, number>>, 0 when no text
    m_tabWidget,  \* the tabs behind the global one: <<identifier, texts>>
    said,         \* texts of each module since the console is there  (history)
    cleared       \* the last of them that was cleared                (history)

vars == <<interfaces, m_observers, consoleOpen, postedTexts, m_tabWidget, said, cleared>>

NoTexts == [d \in Talkers |-> 0]

Init ==
    /\ interfaces = {} /\ m_observers = [h \in Handlers |-> 0] /\ consoleOpen = FALSE
    /\ postedTexts = <<>> /\ m_tabWidget = <<>> /\ said = NoTexts /\ cleared = NoTexts

\* unregisterObserver: the first entry of the observer goes.
Unregistered(n) == IF n > 0 THEN n - 1 ELSE 0

\* ConsolePlugin: an observer of every interface there is.
ConsolePlugin ==
    /\ ~consoleOpen /\ consoleOpen' = TRUE
    /\ m_observers' = [h \in Handlers |-> m_observers[h] + (IF h \in interfaces THEN 1 ELSE 0)]
    /\ said' = NoTexts /\ cleared' = NoTexts
    /\ UNCHANGED <<interfaces, postedTexts, m_tabWidget>>

\* ~ConsolePlugin; the events posted to it and its tabs go with it.
ConsoleDestroyed ==
    /\ consoleOpen /\ consoleOpen' = FALSE
    /\ m_observers' = [h \in Handlers |->
                         IF h \in interfaces THEN Unregistered(m_observers[h]) ELSE m_observers[h]]
    /\ postedTexts' = <<>> /\ m_tabWidget' = <<>>
    /\ UNCHANGED <<interfaces, said, cleared>>

\* interfaceAdded of the view, with a new handler; the console that is there
\* registers.
interfaceAdded(h) ==
    /\ h \notin interfaces
    /\ interfaces' = interfaces \cup {h}
    /\ m_observers' = [m_observers EXCEPT ![h] = IF consoleOpen THEN 1 ELSE 0]
    /\ UNCHANGED <<consoleOpen, postedTexts, m_tabWidget, said, cleared>>

\* interfaceRemoved of the view, before the handler is deleted.
interfaceRemoved(h) ==
    /\ h \in interfaces
    /\ interfaces' = interfaces \ {h}
    /\ m_observers' = [m_observers EXCEPT ![h] = IF consoleOpen THEN Unregistered(@) ELSE @]
    /\ UNCHANGED <<consoleOpen, postedTexts, m_tabWidget, said, cleared>>

\* notifyNETVMessage, in the receive thread of a handler, once per entry in its
\* list: the message is posted, a console text or another.
notifyNETVMessage(h, d, text) ==
    /\ h \in interfaces /\ m_observers[h] > 0 /\ said[d] < MaxTexts
    /\ said' = IF text THEN [said EXCEPT ![d] = @ + 1] ELSE said
    /\ Len(postedTexts) < 2 * MaxTexts
    /\ postedTexts' = postedTexts \o [k \in 1 .. m_observers[h] |-> <<d, IF text THEN said'[d] ELSE 0>>]
    /\ UNCHANGED <<interfaces, m_observers, consoleOpen, m_tabWidget, cleared>>

HasTab(d) == \E k \in DOMAIN m_tabWidget : m_tabWidget[k][1] = d

\* createTab: the tab of the identifier; when it has none, a new one.
createTab(d) == IF HasTab(d) THEN m_tabWidget ELSE Append(m_tabWidget, <<d, <<>>>>)

\* event, processMessage: a text goes to the end of its tab.
processMessage ==
    /\ postedTexts /= <<>> /\ postedTexts' = Tail(postedTexts)
    /\ LET d == Head(postedTexts)[1]
           n == Head(postedTexts)[2]
       IN m_tabWidget' = IF n = 0 THEN m_tabWidget
                         ELSE [k \in DOMAIN createTab(d) |->
                                LET tab == createTab(d)[k]
                                IN IF tab[1] = d THEN <<d, Append(tab[2], n)>> ELSE tab]
    /\ UNCHANGED <<interfaces, m_observers, consoleOpen, said, cleared>>

\* clearButtonClicked, with a tab of a module in front.  The global text, which
\* nothing fills, is left out.
clearButtonClicked(k) ==
    /\ m_tabWidget[k][2] /= <<>>
    /\ m_tabWidget' = [m_tabWidget EXCEPT ![k][2] = <<>>]
    /\ cleared' = [cleared EXCEPT ![m_tabWidget[k][1]] = m_tabWidget[k][2][Len(m_tabWidget[k][2])]]
    /\ UNCHANGED <<interfaces, m_observers, consoleOpen, postedTexts, said>>

Next ==
    \/ ConsolePlugin \/ ConsoleDestroyed \/ processMessage
    \/ \E h \in Handlers :
         \/ interfaceAdded(h) \/ interfaceRemoved(h)
         \/ \E d \in Talkers, text \in BOOLEAN : notifyNETVMessage(h, d, text)
    \/ \E k \in DOMAIN m_tabWidget : clearButtonClicked(k)

Spec == Init /\ [][Next]_vars

-----------------------------------------------------------------------------
TabText(d) ==
    IF HasTab(d) THEN m_tabWidget[CHOOSE k \in DOMAIN m_tabWidget : m_tabWidget[k][1] = d][2]
                 ELSE <<>>

OnTheWay(d) == Only(postedTexts, {d} \X (Nat \ {0}))

\* Interfaces come and go before and after the console does: it is observer of
\* each handler exactly once while it is there and of none when it is gone; a module
\* has one tab, which ends up with every text it sent since, in order, each once.
ConsoleExact ==
    /\ \A h \in interfaces : m_observers[h] = (IF consoleOpen THEN 1 ELSE 0)
    /\ \A j, k \in DOMAIN m_tabWidget : m_tabWidget[j][1] = m_tabWidget[k][1] => j = k
    /\ consoleOpen => \A d \in Talkers :
         TabText(d) \o [k \in DOMAIN OnTheWay(d) |-> OnTheWay(d)[k][2]]
           = [k \in 1 .. said[d] - cleared[d] |-> cleared[d] + k]
=============================================================================
