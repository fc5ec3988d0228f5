----------------------------- MODULE ScriptRun -----------------------------
(***************************************************************************)
(* Starting and stopping a script.  While a script is evaluated the GUI    *)
(* goes on - setProcessEventsInterval - so the user clicks, the timer      *)
(* fires and events are delivered in the middle of it, and another         *)
(* evaluation may begin before the first one is over.                      *)
(***************************************************************************)
EXTENDS Integers, Sequences

CONSTANTS
    Periods,           \* values of the spin box; 0 is "once"
    MaxDepth, MaxStops \* bounds: evaluations in each other, stop events on their way

ScriptRunAssumption == Periods \subseteq Nat /\ {MaxDepth, MaxStops} \subseteq Nat

VARIABLES
    m_running,
    period,     \* the spin box
    m_timer,    \* is the timer active?
    editable,   \* is the text of the script enabled?
    stops,      \* StopScriptEvents on their way
    evaluating  \* the evaluations going on: "once" or "timed", the inner one last

vars == <<m_running, period, m_timer, editable, stops, evaluating>>

Init ==
    /\ m_running = FALSE /\ period = 0 /\ m_timer = FALSE /\ editable = TRUE
    /\ stops = 0 /\ evaluating = <<>>

Begin(kind) ==
    /\ Len(evaluating) < MaxDepth
    /\ evaluating' = Append(evaluating, kind)

\* runButtonClicked: with period 0 the script runs once, in the click.
Click ==
    /\ IF period = 0
       THEN /\ m_timer' = FALSE /\ m_running' = TRUE
            /\ Begin("once") /\ UNCHANGED editable
       ELSE /\ m_running' = ~m_running
            /\ m_timer' = m_running' /\ editable' = ~m_running'
            /\ UNCHANGED evaluating
    /\ UNCHANGED period

runButtonClicked == Click /\ UNCHANGED stops

\* timerUpdate, when the timer fires.
timerUpdate ==
    /\ m_timer /\ m_running
    /\ Begin("timed")
    /\ UNCHANGED <<m_running, period, m_timer, editable, stops>>

\* Mutation of Returns: a script that ran once is still running.
ReturnsRunning(failed) ==
    /\ evaluating /= <<>>
    /\ evaluating' = SubSeq(evaluating, 1, Len(evaluating) - 1)
    /\ IF failed THEN m_running' = FALSE /\ m_timer' = FALSE /\ editable' = TRUE
                 ELSE UNCHANGED <<m_running, m_timer, editable>>
    /\ UNCHANGED <<period, stops>>

\* The innermost evaluation is over; one that failed stops the script, one that
\* ran once stops it in any case.
Returns(failed) ==
    /\ evaluating /= <<>>
    /\ evaluating' = SubSeq(evaluating, 1, Len(evaluating) - 1)
    /\ IF failed \/ evaluating[Len(evaluating)] = "once"
       THEN m_running' = FALSE /\ editable' = TRUE
       ELSE UNCHANGED <<m_running, editable>>
    /\ m_timer' = (m_timer /\ ~failed)
    /\ UNCHANGED <<period, stops>>

\* The script calls stop().
stop ==
    /\ evaluating /= <<>> /\ m_running /\ period /= 0 /\ stops < MaxStops
    /\ stops' = stops + 1
    /\ UNCHANGED <<m_running, period, m_timer, editable, evaluating>>

\* The StopScriptEvent clicks the button, whatever happened since.
event ==
    /\ stops > 0 /\ stops' = stops - 1
    /\ Click

updatePeriod(value) ==
    /\ value /= period /\ period' = value
    /\ m_timer' = (value > 0)
    /\ IF value > 0 THEN UNCHANGED <<m_running, editable>> ELSE m_running' = FALSE /\ editable' = TRUE
    /\ UNCHANGED <<stops, evaluating>>

Next ==
    \/ runButtonClicked \/ timerUpdate \/ stop \/ event
    \/ \E failed \in BOOLEAN : Returns(failed)
    \/ \E value \in Periods : updatePeriod(value)

Spec == Init /\ [][Next]_vars

-----------------------------------------------------------------------------
RunsOnce == \E k \in DOMAIN evaluating : evaluating[k] = "once"

\* However evaluations, clicks, changes of the period and stop events interleave:
\* unless a script is just run once, it is running exactly if the timer runs it
\* again and its text is closed to the user; nothing is left running that nobody
\* can stop, and no text is edited under a script that runs.
RunningIsScheduled ==
    \/ RunsOnce
    \/ /\ m_running => m_timer /\ period > 0
       /\ m_running = ~editable
=============================================================================
