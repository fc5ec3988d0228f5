----------------------------- MODULE ScopeCurve -----------------------------
(***************************************************************************)
(* The samples of a curve of the scope: a buffer of bounded size and the   *)
(* rectangle around it, which is kept up to date sample by sample while    *)
(* the buffer grows and computed anew when samples go.  The clock does not *)
(* go backwards.                                                           *)
(***************************************************************************)
EXTENDS Integers, Sequences, FiniteSetsExt

CONSTANTS
    Values,    \* values of the variable, as numbers
    Sizes,     \* sizes of the buffer that the spin box offers
    DefaultSize,
    MaxTime    \* bound of the model

ScopeCurveAssumption == Values \subseteq Int /\ Sizes \subseteq Nat \ {0} /\ DefaultSize \in Sizes /\ MaxTime \in Nat

VARIABLES
    samples,         \* m_time and m_values, as pairs
    m_boundingRect,
    m_maxItems,
    now              \* the time of the latest value

vars == <<samples, m_boundingRect, m_maxItems, now>>

\* The rectangle of no samples: its width and height are negative.
IllegalRect == [left |-> 1, right |-> -1, top |-> 1, bottom |-> -1]

IsIllegal(rect) == rect.right < rect.left \/ rect.bottom < rect.top

\* One sample more; top is the lower value.
Extended(rect, value) ==
    [rect EXCEPT !.bottom = IF value > @ THEN value ELSE @, !.top = IF value < @ THEN value ELSE @]

updateBoundaries(buffer) ==
    IF buffer = <<>> THEN IllegalRect
    ELSE LET first == [left |-> Head(buffer)[1], right |-> buffer[Len(buffer)][1],
                       top |-> Head(buffer)[2], bottom |-> Head(buffer)[2]]
             around[n \in 0 .. Len(buffer)] ==
                IF n = 0 THEN first ELSE Extended(around[n - 1], buffer[n][2])
         IN  around[Len(buffer)]

LastOf(buffer, n) == IF Len(buffer) > n THEN SubSeq(buffer, Len(buffer) - n + 1, Len(buffer))
                                        ELSE buffer

Init ==
    /\ samples = <<>> /\ m_boundingRect = IllegalRect
    /\ m_maxItems = DefaultSize /\ now = 0

\* Mutation of append: the rectangle only grows.
appendGrowing(time, value) ==
    /\ samples' = LastOf(Append(samples, <<time, value>>), m_maxItems)
    /\ m_boundingRect' = IF IsIllegal(m_boundingRect)
                         THEN [left |-> time, right |-> time, top |-> value, bottom |-> value]
                         ELSE Extended([m_boundingRect EXCEPT !.right = time], value)
    /\ now' = time
    /\ UNCHANGED m_maxItems

append(time, value) ==
    /\ LET longer == Append(samples, <<time, value>>)
       IN  IF Len(longer) < m_maxItems
           THEN /\ samples' = longer
                /\ m_boundingRect' =
                      IF IsIllegal(m_boundingRect)
                      THEN [left |-> time, right |-> time, top |-> value, bottom |-> value]
                      ELSE Extended([m_boundingRect EXCEPT !.right = time], value)
           ELSE /\ samples' = LastOf(longer, m_maxItems)
                /\ m_boundingRect' = updateBoundaries(samples')
    /\ now' = time
    /\ UNCHANGED m_maxItems

setMaxItems(count) ==
    /\ m_maxItems' = count
    /\ samples' = LastOf(samples, count)
    /\ m_boundingRect' = updateBoundaries(samples')
    /\ UNCHANGED now

clear ==
    /\ samples' = <<>> /\ m_boundingRect' = updateBoundaries(<<>>)
    /\ UNCHANGED <<m_maxItems, now>>

\* updateVariable: the value is appended with the time of the variable.
updateVariable ==
    \E time \in now .. MaxTime, value \in Values : append(time, value)

setMaximumBufferSize == \E count \in Sizes : setMaxItems(count)

Next == updateVariable \/ setMaximumBufferSize \/ clear

Spec == Init /\ [][Next]_vars

-----------------------------------------------------------------------------
\* The buffer never exceeds its size and the rectangle, which the plot scales its
\* axes to, is exactly the one around the samples in the buffer, whatever was
\* appended, dropped or cleared before.
BoundsExact ==
    /\ Len(samples) <= m_maxItems
    /\ IF samples = <<>> THEN m_boundingRect = IllegalRect
       ELSE LET values == {samples[i][2] : i \in DOMAIN samples}
                times  == {samples[i][1] : i \in DOMAIN samples}
            IN  m_boundingRect = [left |-> Min(times), right |-> Max(times),
                                  top |-> Min(values), bottom |-> Max(values)]
=============================================================================
