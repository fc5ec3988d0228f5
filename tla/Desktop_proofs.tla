--------------------------- MODULE Desktop_proofs ---------------------------
(***************************************************************************)
(* Theorems about parts of MCDesktop: a script, a curve of the scope, the  *)
(* preferences, the main window with its plugins, and messages with the    *)
(* filters, virtual modules and console texts they meet.                   *)
(***************************************************************************)
EXTENDS MCDesktop, SequenceLemmas, TLAPS

-----------------------------------------------------------------------------
(* Scripts, for every set of periods and however deep the evaluations are  *)
(* nested.                                                                 *)

ScriptTypeOK ==
    /\ m_running \in BOOLEAN /\ m_timer \in BOOLEAN /\ editable \in BOOLEAN
    /\ period \in Nat /\ evaluating \in Seq({"once", "timed"})

\* What the property says when no evaluation is of the kind "once".
RunsByTimer == (m_running => m_timer /\ period > 0) /\ m_running = ~editable

ScriptInv == ScriptTypeOK /\ Script!RunningIsScheduled

Once(s) == \E k \in DOMAIN s : s[k] = "once"
Shorter(s) == SubSeq(s, 1, Len(s) - 1)

\* An evaluation that begins hides none that goes on.
LEMMA ContainsAppend ==
    ASSUME NEW s \in Seq({"once", "timed"}), NEW e \in {"once", "timed"}
    PROVE  /\ Append(s, e) \in Seq({"once", "timed"})
           /\ Once(s) => Once(Append(s, e))
           /\ e = "once" => Once(Append(s, e))
  <1>1. Len(Append(s, e)) = Len(s) + 1 /\ Len(s) \in Nat
    OBVIOUS
  <1>2. Append(s, e)[Len(s) + 1] = e /\ \A k \in 1 .. Len(s) : Append(s, e)[k] = s[k]
    OBVIOUS
  <1> QED BY <1>1, <1>2 DEF Once

\* One that ends leaves the others.
LEMMA ContainsFront ==
    ASSUME NEW s \in Seq({"once", "timed"}), s /= <<>>
    PROVE  /\ Shorter(s) \in Seq({"once", "timed"})
           /\ Once(s) => Once(Shorter(s)) \/ s[Len(s)] = "once"
  <1>1. Len(s) \in Nat \ {0}
    OBVIOUS
  <1>2. Shorter(s) \in Seq({"once", "timed"}) /\ Len(Shorter(s)) = Len(s) - 1
        /\ \A k \in 1 .. Len(s) - 1 : Shorter(s)[k] = s[k]
    BY <1>1 DEF Shorter
  <1> QED BY <1>1, <1>2 DEF Once

\* A click starts what the timer will run again, or an evaluation in the click.
LEMMA ClickKeeps ==
    ASSUME ScriptInv, Script!Click
    PROVE  ScriptInv'
  <1> USE DEF ScriptInv, ScriptTypeOK
  <1>1. CASE period = 0
    BY <1>1, ContainsAppend DEF Script!Click, Script!Begin, Script!RunningIsScheduled, Script!RunsOnce, Once
  <1>2. CASE period /= 0
    <2>1. ScriptTypeOK'
      BY <1>2 DEF Script!Click
    <2>2. (m_running' => m_timer' /\ period' > 0) /\ m_running' = ~editable'
      BY <1>2 DEF Script!Click
    <2> QED BY <2>1, <2>2 DEF Script!RunningIsScheduled, Script!RunsOnce
  <1> QED BY <1>1, <1>2

\* Every handler keeps the invariant, in whatever evaluation it is called.
LEMMA ScriptInvStep ==
    ASSUME Script!ScriptRunAssumption, ScriptInv, [Script!Next]_(Script!vars)
    PROVE  ScriptInv'
  <1> USE DEF ScriptInv, ScriptTypeOK
  <1>1. CASE Script!runButtonClicked \/ Script!event
    BY <1>1, ClickKeeps DEF Script!runButtonClicked, Script!event
  <1>2. CASE Script!timerUpdate
    <2>1. CASE Script!RunsOnce
      BY <1>2, <2>1, ContainsAppend DEF Script!timerUpdate, Script!Begin, Script!RunningIsScheduled, Script!RunsOnce, Once
    <2>2. CASE RunsByTimer
      BY <1>2, <2>2, ContainsAppend DEF Script!timerUpdate, Script!Begin, Script!RunningIsScheduled, Script!RunsOnce, Once, RunsByTimer
    <2> QED BY <2>1, <2>2 DEF Script!RunningIsScheduled, Script!RunsOnce, RunsByTimer
  <1>3. ASSUME NEW failed \in BOOLEAN, Script!Returns(failed)
        PROVE  ScriptInv'
    <2>1. ScriptTypeOK' /\ (Script!RunsOnce =>
                              Script!RunsOnce' \/ evaluating[Len(evaluating)] = "once")
      BY <1>3, ContainsFront DEF Script!Returns, Script!RunsOnce, Once, Shorter
    <2>2. CASE failed \/ evaluating[Len(evaluating)] = "once"
      BY <1>3, <2>1, <2>2 DEF Script!Returns, Script!RunningIsScheduled, Script!RunsOnce
    <2>3. CASE ~failed /\ evaluating[Len(evaluating)] /= "once"
      <3>1. UNCHANGED <<m_running, editable, m_timer, period>>
        BY <1>3, <2>3 DEF Script!Returns
      <3> QED BY <2>1, <2>3, <3>1 DEF Script!RunningIsScheduled, Script!RunsOnce
    <2> QED BY <2>2, <2>3
  <1>4. CASE Script!stop
    BY <1>4 DEF Script!stop, Script!RunningIsScheduled, Script!RunsOnce
  <1>5. ASSUME NEW value \in ScriptPeriods, Script!updatePeriod(value)
        PROVE  ScriptInv'
    <2>1. value \in Nat
      BY DEF Script!ScriptRunAssumption
    <2>0. /\ m_timer' = (value > 0) /\ period' = value /\ evaluating' = evaluating
          /\ IF value > 0 THEN UNCHANGED <<m_running, editable>>
                          ELSE m_running' = FALSE /\ editable' = TRUE
      BY <1>5 DEF Script!updatePeriod
    <2>5. m_timer' \in BOOLEAN
      <3>1. CASE value > 0
        BY <1>5, <3>1 DEF Script!updatePeriod
      <3>2. CASE ~(value > 0)
        BY <1>5, <3>2 DEF Script!updatePeriod
      <3> QED BY <3>1, <3>2
    <2>6. m_running' \in BOOLEAN /\ editable' \in BOOLEAN
      BY <2>0
    <2>2. ScriptTypeOK'
      BY <2>0, <2>1, <2>5, <2>6
    <2>3. CASE value > 0
      <3>1. m_timer' = TRUE /\ period' > 0 /\ UNCHANGED <<m_running, editable, evaluating>>
        BY <1>5, <2>3 DEF Script!updatePeriod
      <3> QED BY <2>2, <3>1 DEF Script!RunningIsScheduled, Script!RunsOnce
    <2>4. CASE ~(value > 0)
      <3>1. m_running' = FALSE /\ editable' = TRUE
        BY <1>5, <2>4 DEF Script!updatePeriod
      <3> QED BY <2>2, <3>1 DEF Script!RunningIsScheduled, Script!RunsOnce
    <2> QED BY <2>3, <2>4
  <1>6. CASE UNCHANGED Script!vars
    BY <1>6 DEF Script!vars, Script!RunningIsScheduled, Script!RunsOnce
  <1> QED BY <1>1, <1>2, <1>3, <1>4, <1>5, <1>6 DEF Script!Next


LEMMA ScriptInvInit == Script!Init => ScriptInv
  <1> SUFFICES ASSUME Script!Init PROVE ScriptInv
    OBVIOUS
  <1>1. evaluating \in Seq({"once", "timed"}) /\ period \in Nat
    BY DEF Script!Init
  <1>2. m_running = FALSE /\ editable = TRUE /\ m_timer = FALSE
    BY DEF Script!Init
  <1>3. ScriptTypeOK
    BY <1>1, <1>2 DEF ScriptTypeOK
  <1> QED BY <1>2, <1>3 DEF ScriptInv, Script!RunningIsScheduled, Script!RunsOnce

\* A script that is not just run once runs exactly if the timer runs it again and
\* its text is closed, whatever is handled in the middle of its evaluations.
THEOREM Running == Spec => []RunningIsScheduled
  <1> DEFINE Inv == part = "script" => ScriptInv
  <1>1. Init => Inv
    BY ScriptInvInit DEF Init
  <1>2. Inv /\ [Next]_vars => Inv'
    <2> SUFFICES ASSUME Inv, [Next]_vars, part' = "script" PROVE ScriptInv'
      OBVIOUS
    <2>1. part = "script" /\ [Script!Next]_(Script!vars)
      BY DEF Next, vars, scriptVars, Script!vars
    <2> QED BY <2>1, ScriptInvStep, MCAssumption DEF MCAssumption
  <1>3. Inv => RunningIsScheduled
    BY DEF ScriptInv, RunningIsScheduled
  <1> QED BY <1>1, <1>2, <1>3, PTL DEF Spec

-----------------------------------------------------------------------------
(* The curve of the scope, for every size of its buffer and however long   *)
(* it runs.                                                                *)

Samples == Int \X Int
Rects == [left : Int, right : Int, top : Int, bottom : Int]

\* The rectangle touches the first and the last sample and the lowest and the
\* highest one, of those up to n.
Surrounds(rect, buffer, n) ==
    /\ rect.left = buffer[1][1] /\ rect.right = buffer[Len(buffer)][1]
    /\ \E k \in 1 .. n : rect.top = buffer[k][2]
    /\ \E k \in 1 .. n : rect.bottom = buffer[k][2]
    /\ \A k \in 1 .. n : rect.top <= buffer[k][2] /\ buffer[k][2] <= rect.bottom

InTime(buffer) ==
    \A k, l \in 1 .. Len(buffer) : k <= l => buffer[k][1] <= buffer[l][1]

CurveTypeOK ==
    /\ samples \in Seq(Samples) /\ m_boundingRect \in Rects
    /\ m_maxItems \in Nat \ {0} /\ now \in Int

RectExact ==
    IF samples = <<>> THEN m_boundingRect = Curve!IllegalRect
                      ELSE Surrounds(m_boundingRect, samples, Len(samples))

CurveInv ==
    /\ CurveTypeOK
    /\ Len(samples) <= m_maxItems
    /\ InTime(samples) /\ \A k \in 1 .. Len(samples) : samples[k][1] <= now
    /\ RectExact

LEMMA ExtendedSurrounds ==
    ASSUME NEW rect \in Rects, NEW value \in Int
    PROVE  /\ Curve!Extended(rect, value) \in Rects
           /\ Curve!Extended(rect, value).left = rect.left
           /\ Curve!Extended(rect, value).right = rect.right
           /\ Curve!Extended(rect, value).top = (IF value < rect.top THEN value ELSE rect.top)
           /\ Curve!Extended(rect, value).bottom
                = (IF value > rect.bottom THEN value ELSE rect.bottom)
  BY DEF Curve!Extended, Rects

\* updateBoundaries finds the rectangle around a buffer.
LEMMA UpdateBoundaries ==
    ASSUME NEW buffer \in Seq(Samples), buffer # <<>>
    PROVE  /\ Curve!updateBoundaries(buffer) \in Rects
           /\ Surrounds(Curve!updateBoundaries(buffer), buffer, Len(buffer))
  <1> DEFINE first == [left |-> Head(buffer)[1], right |-> buffer[Len(buffer)][1],
                       top |-> Head(buffer)[2], bottom |-> Head(buffer)[2]]
             Follows(f) == f = [n \in 0 .. Len(buffer) |->
                                  IF n = 0 THEN first
                                  ELSE Curve!Extended(f[n - 1], buffer[n][2])]
             step == [n \in 1 .. Len(buffer) |->
                        [rect \in Rects |-> Curve!Extended(rect, buffer[n][2])]]
  <1>1. Len(buffer) \in Nat /\ Len(buffer) >= 1
    BY EmptySeq
  <1>2. \A n \in 1 .. Len(buffer) : buffer[n] \in Samples /\ buffer[n][1] \in Int
                                      /\ buffer[n][2] \in Int
    BY DEF Samples
  <1>3. /\ first \in Rects /\ first.left = buffer[1][1] /\ first.right = buffer[Len(buffer)][1]
        /\ first.top = buffer[1][2] /\ first.bottom = buffer[1][2]
    <2>1. Head(buffer) = buffer[1]
      BY <1>1
    <2> QED BY <1>1, <1>2, <2>1 DEF Rects
  <1>4. step \in [1 .. Len(buffer) -> [Rects -> Rects]]
    BY <1>2, ExtendedSurrounds
  <1> HIDE DEF first
  <1>5. \E f : Follows(f)
    <2>1. PICK f \in [0 .. Len(buffer) -> Rects] :
             Iterates(f, first, step, Len(buffer))
      <3> HIDE DEF step
      <3>1. first \in Rects /\ Len(buffer) \in Nat
        BY <1>1, <1>3
      <3> QED BY <3>1, <1>4, Recursion, Zenon
    <2>2. ASSUME NEW n \in 0 .. Len(buffer)
          PROVE  (IF n = 0 THEN first ELSE step[n][f[n - 1]])
                   = (IF n = 0 THEN first ELSE Curve!Extended(f[n - 1], buffer[n][2]))
      <3>1. CASE n = 0
        BY <3>1
      <3>2. CASE n # 0
        <4>1. n \in 1 .. Len(buffer) /\ n - 1 \in 0 .. Len(buffer)
          BY <3>2, <1>1
        <4>2. f[n - 1] \in Rects
          BY <4>1
        <4> QED BY <3>2, <4>1, <4>2
      <3> QED BY <3>1, <3>2
    <2>3. Follows(f)
      <3> HIDE DEF step
      <3> QED BY <2>1, <2>2, Zenon DEF Iterates
    <2> QED BY <2>3
  <1>6. PICK around : Follows(around) /\ Curve!updateBoundaries(buffer) = around[Len(buffer)]
    <2> DEFINE chosen == CHOOSE f : Follows(f)
    <2>1. Follows(chosen)
      BY <1>5, Zenon
    <2>2. Curve!updateBoundaries(buffer) = chosen[Len(buffer)]
      BY Zenon DEF Curve!updateBoundaries, first
    <2> QED BY <2>1, <2>2, Zenon
  <1> DEFINE Up(n) == IF n = 0 THEN 1 ELSE n
             T == {n \in Nat : n <= Len(buffer) =>
                      around[n] \in Rects /\ Surrounds(around[n], buffer, Up(n))}
  <1>7. 0 \in T
    <2>1. around[0] = first
      BY <1>6, <1>1
    <2>2. Surrounds(first, buffer, 1)
      <3>1. buffer[1][2] \in Int /\ 1 \in 1 .. 1 /\ \A k \in 1 .. 1 : k = 1
        BY <1>1, <1>2
      <3> QED BY <1>3, <3>1 DEF Surrounds
    <2>3. Up(0) = 1
      OBVIOUS
    <2> QED BY <2>1, <2>2, <2>3, <1>3
  <1>8. ASSUME NEW n \in Nat, n \in T
        PROVE  n + 1 \in T
    <2> SUFFICES ASSUME n + 1 <= Len(buffer)
                 PROVE  around[n + 1] \in Rects /\ Surrounds(around[n + 1], buffer, n + 1)
      OBVIOUS
    <2>1. around[n + 1] = Curve!Extended(around[n], buffer[n + 1][2])
      <3>1. n + 1 \in 0 .. Len(buffer) /\ n + 1 # 0 /\ (n + 1) - 1 = n
        BY <1>1
      <3> QED BY <1>6, <3>1, Zenon
    <2>2. around[n] \in Rects /\ Surrounds(around[n], buffer, Up(n))
      BY <1>8, <1>1
    <2> DEFINE old == around[n]
               new == around[n + 1]
               value == buffer[n + 1][2]
    <2>3. value \in Int /\ (n = 0 => value = buffer[1][2])
      BY <1>1, <1>2
    <2>4. /\ new \in Rects /\ new.left = old.left /\ new.right = old.right
          /\ new.top = (IF value < old.top THEN value ELSE old.top)
          /\ new.bottom = (IF value > old.bottom THEN value ELSE old.bottom)
      <3>1. Curve!Extended(old, value) = new /\ old \in Rects
        BY <2>1, <2>2
      <3> HIDE DEF old, new, value
      <3> QED BY <3>1, <2>3, ExtendedSurrounds
    <2>5. old.top \in Int /\ old.bottom \in Int
      BY <2>2 DEF Rects
    <2>6. Up(n) \in 1 .. n + 1 /\ \A k \in 1 .. n + 1 : k \in 1 .. Up(n) \/ k = n + 1
      OBVIOUS
    <2>7. \A k \in 1 .. Up(n) : k \in 1 .. n + 1 /\ k \in 1 .. Len(buffer)
      OBVIOUS
    <2> HIDE DEF old, new, Up
    <2>8. Surrounds(old, buffer, Up(n))
      BY <2>2 DEF old
    <2>9. Surrounds(new, buffer, n + 1)
      <3>1. \E k \in 1 .. n + 1 : new.top = buffer[k][2]
        BY <2>4, <2>6, <2>7, <2>8 DEF Surrounds
      <3>2. \E k \in 1 .. n + 1 : new.bottom = buffer[k][2]
        BY <2>4, <2>6, <2>7, <2>8 DEF Surrounds
      <3>3. ASSUME NEW k \in 1 .. n + 1
            PROVE  new.top <= buffer[k][2] /\ buffer[k][2] <= new.bottom
        <4>1. buffer[k][2] \in Int
          BY <1>2
        <4>2. k \in 1 .. Up(n) => old.top <= buffer[k][2] /\ buffer[k][2] <= old.bottom
          BY <2>8 DEF Surrounds
        <4>3. new.top <= old.top /\ old.bottom <= new.bottom
              /\ new.top <= value /\ value <= new.bottom
              /\ new.top \in Int /\ new.bottom \in Int
          BY <2>3, <2>4, <2>5
        <4>4. CASE k \in 1 .. Up(n)
          BY <4>1, <4>2, <4>3, <4>4, <2>5
        <4>5. CASE k = n + 1
          BY <4>3, <4>5
        <4> QED BY <4>4, <4>5, <2>6
      <3> QED BY <3>1, <3>2, <3>3, <2>4, <2>8 DEF Surrounds
    <2> QED BY <2>4, <2>9 DEF new
  <1> HIDE DEF T
  <1>9. Len(buffer) \in T
    BY <1>1, <1>7, <1>8, NatSetInduction
  <1> USE DEF T
  <1> QED BY <1>1, <1>6, <1>9

\* The samples that stay in a full buffer.
LEMMA LastSamples ==
    ASSUME NEW buffer \in Seq(Samples), NEW n \in Nat \ {0}, InTime(buffer)
    PROVE  /\ Curve!LastOf(buffer, n) \in Seq(Samples) /\ Len(Curve!LastOf(buffer, n)) <= n
           /\ InTime(Curve!LastOf(buffer, n))
           /\ buffer # <<>> => Curve!LastOf(buffer, n) # <<>>
           /\ \A k \in 1 .. Len(Curve!LastOf(buffer, n)) :
                 \E l \in 1 .. Len(buffer) : Curve!LastOf(buffer, n)[k] = buffer[l]
  <1> DEFINE few == Curve!LastOf(buffer, n)
             from == Len(buffer) - n
  <1>1. CASE Len(buffer) > n
    <2>1. few = SubSeq(buffer, from + 1, Len(buffer)) /\ from \in Nat \ {0}
      BY <1>1 DEF Curve!LastOf
    <2>2. /\ few \in Seq(Samples) /\ Len(few) = n
          /\ \A k \in 1 .. n : few[k] = buffer[from + k] /\ from + k \in 1 .. Len(buffer)
      <3>1. /\ from + 1 \in 1 .. Len(buffer) /\ Len(buffer) \in 1 .. Len(buffer)
            /\ Len(buffer) - (from + 1) + 1 = n
        BY <2>1, <1>1
      <3>2. few \in Seq(Samples)
        BY <2>1, <3>1
      <3>3. Len(few) = n /\ \A k \in 1 .. n : few[k] = buffer[(from + 1) + k - 1]
        BY <2>1, <3>1
      <3>4. \A k \in 1 .. n : (from + 1) + k - 1 = from + k /\ from + k \in 1 .. Len(buffer)
        BY <2>1
      <3> HIDE DEF few, from
      <3> QED BY <3>2, <3>3, <3>4
    <2>3. \A k, l \in 1 .. n : k <= l => from + k <= from + l
      BY <2>1
    <2> HIDE DEF few, from
    <2>4. InTime(few)
      <3> SUFFICES ASSUME NEW k \in 1 .. n, NEW l \in 1 .. n, k <= l
                   PROVE  few[k][1] <= few[l][1]
        BY <2>2 DEF InTime
      <3> QED BY <2>2, <2>3 DEF InTime
    <2>5. few # <<>>
      BY <2>2
    <2>6. \A k \in 1 .. Len(few) : \E l \in 1 .. Len(buffer) : few[k] = buffer[l]
      BY <2>2
    <2>7. Len(few) <= n
      BY <2>2
    <2> QED BY <2>2, <2>4, <2>5, <2>6, <2>7 DEF few
  <1>2. CASE ~(Len(buffer) > n)
    <2>1. few = buffer
      BY <1>2 DEF Curve!LastOf
    <2> QED BY <1>2, <2>1
  <1> QED BY <1>1, <1>2

\* A buffer one sample longer.
LEMMA LongerBuffer ==
    ASSUME CurveInv, NEW time \in Int, NEW value \in Int, now <= time
    PROVE  /\ Append(samples, <<time, value>>) \in Seq(Samples)
           /\ InTime(Append(samples, <<time, value>>))
           /\ \A k \in 1 .. Len(Append(samples, <<time, value>>)) :
                 Append(samples, <<time, value>>)[k][1] <= time
  <1> DEFINE longer == Append(samples, <<time, value>>)
  <1>1. /\ samples \in Seq(Samples) /\ now \in Int /\ Len(samples) \in Nat
        /\ <<time, value>> \in Samples
    BY DEF CurveInv, CurveTypeOK, Samples
  <1>2. /\ longer \in Seq(Samples) /\ Len(longer) = Len(samples) + 1
        /\ longer[Len(samples) + 1] = <<time, value>>
        /\ \A k \in 1 .. Len(samples) : longer[k] = samples[k]
    BY <1>1
  <1>3. \A k \in 1 .. Len(samples) : samples[k][1] \in Int /\ samples[k][1] <= now
    BY <1>1 DEF CurveInv, Samples
  <1>4. \A k \in 1 .. Len(samples) + 1 : k \in 1 .. Len(samples) \/ k = Len(samples) + 1
    BY <1>1
  <1> HIDE DEF longer
  <1>5. \A k \in 1 .. Len(longer) : longer[k][1] <= time
    BY <1>1, <1>2, <1>3, <1>4
  <1>6. InTime(longer)
    <2> SUFFICES ASSUME NEW k \in 1 .. Len(longer), NEW l \in 1 .. Len(longer), k <= l
                 PROVE  longer[k][1] <= longer[l][1]
      BY DEF InTime
    <2>1. CASE l \in 1 .. Len(samples)
      <3>1. k \in 1 .. Len(samples)
        BY <2>1, <1>1
      <3>2. samples[k][1] <= samples[l][1]
        BY <2>1, <3>1 DEF CurveInv, InTime
      <3> QED BY <2>1, <3>1, <3>2, <1>2
    <2>2. CASE l = Len(samples) + 1
      <3>1. longer[l][1] = time
        BY <2>2, <1>2
      <3> QED BY <3>1, <1>5
    <2> QED BY <2>1, <2>2, <1>2, <1>4
  <1> QED BY <1>2, <1>5, <1>6 DEF longer

\* The rectangle of a curve that has samples is legal, that of no samples is not.
LEMMA Legal ==
    ASSUME CurveInv
    PROVE  Curve!IsIllegal(m_boundingRect) <=> samples = <<>>
  <1>1. CASE samples = <<>>
    BY <1>1 DEF CurveInv, RectExact, Curve!IllegalRect, Curve!IsIllegal
  <1>2. CASE samples # <<>>
    <2>1. Len(samples) \in Nat /\ Len(samples) >= 1
      BY <1>2, EmptySeq DEF CurveInv, CurveTypeOK
    <2>2. Surrounds(m_boundingRect, samples, Len(samples))
      BY <1>2 DEF CurveInv, RectExact
    <2>3. samples[1] \in Samples /\ samples[Len(samples)] \in Samples
      BY <2>1 DEF CurveInv, CurveTypeOK
    <2>4. samples[1][1] <= samples[Len(samples)][1]
      BY <2>1 DEF CurveInv, InTime
    <2>5. m_boundingRect.left <= m_boundingRect.right
      BY <2>2, <2>4 DEF Surrounds
    <2>6. m_boundingRect.top <= samples[1][2] /\ samples[1][2] <= m_boundingRect.bottom
      BY <2>1, <2>2 DEF Surrounds
    <2>7. /\ m_boundingRect.left \in Int /\ m_boundingRect.right \in Int
          /\ m_boundingRect.top \in Int /\ m_boundingRect.bottom \in Int
      BY DEF CurveInv, CurveTypeOK, Rects
    <2>8. samples[1][2] \in Int
      BY <2>3 DEF Samples
    <2> QED BY <1>2, <2>5, <2>6, <2>7, <2>8 DEF Curve!IsIllegal
  <1> QED BY <1>1, <1>2

\* A buffer that was cut or cleared has its rectangle computed anew.
LEMMA ComputedAnew ==
    ASSUME samples' \in Seq(Samples), m_boundingRect' = Curve!updateBoundaries(samples')
    PROVE  RectExact' /\ m_boundingRect' \in Rects
  <1>1. CASE samples' = <<>>
    BY <1>1 DEF RectExact, Curve!updateBoundaries, Curve!IllegalRect, Rects
  <1>2. CASE samples' # <<>>
    BY <1>2, UpdateBoundaries DEF RectExact
  <1> QED BY <1>1, <1>2

\* A sample that fits extends the rectangle.
LEMMA Grows ==
    ASSUME CurveInv, NEW time \in Int, NEW value \in Int,
           samples' = Append(samples, <<time, value>>),
           m_boundingRect' = IF Curve!IsIllegal(m_boundingRect)
                             THEN [left |-> time, right |-> time, top |-> value, bottom |-> value]
                             ELSE Curve!Extended([m_boundingRect EXCEPT !.right = time], value)
    PROVE  RectExact' /\ m_boundingRect' \in Rects
  <1>1. samples \in Seq(Samples) /\ <<time, value>> \in Samples /\ Len(samples) \in Nat
    BY DEF CurveInv, CurveTypeOK, Samples
  <1>2. /\ samples' # <<>> /\ Len(samples') = Len(samples) + 1
        /\ samples'[Len(samples) + 1] = <<time, value>>
        /\ \A k \in 1 .. Len(samples) : samples'[k] = samples[k]
    BY <1>1
  <1>3. CASE samples = <<>>
    <2>1. m_boundingRect' = [left |-> time, right |-> time, top |-> value, bottom |-> value]
      BY <1>3, Legal
    <2>2. Len(samples') = 1 /\ samples'[1] = <<time, value>>
      BY <1>2, <1>3
    <2>3. Surrounds(m_boundingRect', samples', 1)
      BY <2>1, <2>2 DEF Surrounds
    <2> QED BY <1>2, <2>1, <2>2, <2>3 DEF RectExact, Rects
  <1>4. CASE samples # <<>>
    <2> DEFINE rect == [m_boundingRect EXCEPT !.right = time]
    <2>1. /\ rect \in Rects /\ rect.left = m_boundingRect.left /\ rect.right = time
          /\ rect.top = m_boundingRect.top /\ rect.bottom = m_boundingRect.bottom
          /\ rect.top \in Int /\ rect.bottom \in Int
      BY DEF CurveInv, CurveTypeOK, Rects
    <2>2. m_boundingRect' = Curve!Extended(rect, value)
      BY <1>4, Legal
    <2>3. Surrounds(m_boundingRect, samples, Len(samples)) /\ Len(samples) >= 1
      BY <1>1, <1>4 DEF CurveInv, RectExact
    <2> HIDE DEF rect
    <2>4. /\ m_boundingRect' \in Rects
          /\ m_boundingRect'.left = m_boundingRect.left /\ m_boundingRect'.right = time
          /\ m_boundingRect'.top = (IF value < rect.top THEN value ELSE rect.top)
          /\ m_boundingRect'.bottom = (IF value > rect.bottom THEN value ELSE rect.bottom)
      <3> DEFINE new == Curve!Extended(rect, value)
      <3>1. /\ new \in Rects /\ new.left = rect.left /\ new.right = rect.right
            /\ new.top = (IF value < rect.top THEN value ELSE rect.top)
            /\ new.bottom = (IF value > rect.bottom THEN value ELSE rect.bottom)
        BY <2>1, ExtendedSurrounds
      <3>2. m_boundingRect' = new
        BY <2>2
      <3> HIDE DEF new
      <3> QED BY <2>1, <3>1, <3>2
    <2>5. \A k \in 1 .. Len(samples) : samples[k][2] \in Int
      BY <1>1 DEF Samples
    <2>6. /\ m_boundingRect'.left = samples'[1][1]
          /\ m_boundingRect'.right = samples'[Len(samples')][1]
      BY <1>2, <2>3, <2>4 DEF Surrounds
    <2>7. PICK t \in 1 .. Len(samples) : rect.top = samples[t][2]
      BY <2>1, <2>3 DEF Surrounds
    <2>8. PICK b \in 1 .. Len(samples) : rect.bottom = samples[b][2]
      BY <2>1, <2>3 DEF Surrounds
    <2>9. /\ \A k \in 1 .. Len(samples) : k \in 1 .. Len(samples')
          /\ Len(samples) + 1 \in 1 .. Len(samples')
          /\ \A k \in 1 .. Len(samples') : k \in 1 .. Len(samples) \/ k = Len(samples) + 1
      BY <1>1, <1>2
    <2>10. \E k \in 1 .. Len(samples') : m_boundingRect'.top = samples'[k][2]
      BY <1>2, <2>4, <2>7, <2>9
    <2>11. \E k \in 1 .. Len(samples') : m_boundingRect'.bottom = samples'[k][2]
      BY <1>2, <2>4, <2>8, <2>9
    <2>12. ASSUME NEW k \in 1 .. Len(samples')
           PROVE  m_boundingRect'.top <= samples'[k][2] /\ samples'[k][2] <= m_boundingRect'.bottom
      <3>1. CASE k \in 1 .. Len(samples)
        <4>1. rect.top <= samples[k][2] /\ samples[k][2] <= rect.bottom /\ samples[k][2] \in Int
          BY <3>1, <2>1, <2>3, <2>5 DEF Surrounds
        <4> QED BY <3>1, <4>1, <1>2, <2>1, <2>4
      <3>2. CASE k = Len(samples) + 1
        <4>1. samples'[k][2] = value
          BY <3>2, <1>2
        <4> QED BY <4>1, <2>1, <2>4
      <3> QED BY <3>1, <3>2, <2>9
    <2>13. Surrounds(m_boundingRect', samples', Len(samples'))
      BY <2>6, <2>10, <2>11, <2>12 DEF Surrounds
    <2> QED BY <1>2, <2>4, <2>13 DEF RectExact
  <1> QED BY <1>3, <1>4

LEMMA CurveInvStep ==
    ASSUME Curve!ScopeCurveAssumption, CurveInv, [Curve!Next]_curveVars
    PROVE  CurveInv'
  <1>1. samples \in Seq(Samples) /\ now \in Int /\ m_maxItems \in Nat \ {0} /\ InTime(samples)
    BY DEF CurveInv, CurveTypeOK
  <1>2. ASSUME NEW time \in Int, NEW value \in Int, now <= time, Curve!append(time, value)
        PROVE  CurveInv'
    <2> DEFINE longer == Append(samples, <<time, value>>)
    <2>1. /\ longer \in Seq(Samples) /\ InTime(longer) /\ Len(longer) \in Nat
          /\ \A k \in 1 .. Len(longer) : longer[k][1] <= time
      BY <1>2, LongerBuffer
    <2>2. now' = time /\ m_maxItems' = m_maxItems
      BY <1>2 DEF Curve!append
    <2>3. CASE Len(longer) < m_maxItems
      <3>1. samples' = longer
        BY <1>2, <2>3 DEF Curve!append
      <3>2. RectExact' /\ m_boundingRect' \in Rects
        BY <1>2, <2>3, Grows DEF Curve!append
      <3> HIDE DEF longer
      <3> QED BY <1>1, <1>2, <2>1, <2>2, <2>3, <3>1, <3>2 DEF CurveInv, CurveTypeOK
    <2>4. CASE ~(Len(longer) < m_maxItems)
      <3>1. samples' = Curve!LastOf(longer, m_maxItems)
            /\ m_boundingRect' = Curve!updateBoundaries(samples')
        BY <1>2, <2>4 DEF Curve!append
      <3> HIDE DEF longer
      <3>2. /\ samples' \in Seq(Samples) /\ Len(samples') <= m_maxItems /\ InTime(samples')
            /\ \A k \in 1 .. Len(samples') : \E l \in 1 .. Len(longer) : samples'[k] = longer[l]
        BY <1>1, <2>1, <3>1, LastSamples
      <3>3. \A k \in 1 .. Len(samples') : samples'[k][1] <= time
        BY <2>1, <3>2
      <3>4. RectExact' /\ m_boundingRect' \in Rects
        BY <3>1, <3>2, ComputedAnew
      <3> QED BY <1>1, <1>2, <2>2, <3>2, <3>3, <3>4 DEF CurveInv, CurveTypeOK
    <2> QED BY <2>3, <2>4
  <1>3. ASSUME NEW count \in Sizes, Curve!setMaxItems(count)
        PROVE  CurveInv'
    <2>1. /\ samples' = Curve!LastOf(samples, count) /\ m_maxItems' = count /\ now' = now
          /\ m_boundingRect' = Curve!updateBoundaries(samples') /\ count \in Nat \ {0}
      BY <1>3 DEF Curve!setMaxItems, Curve!ScopeCurveAssumption
    <2>2. /\ samples' \in Seq(Samples) /\ Len(samples') <= count /\ InTime(samples')
          /\ \A k \in 1 .. Len(samples') : \E l \in 1 .. Len(samples) : samples'[k] = samples[l]
      BY <1>1, <2>1, LastSamples
    <2>3. \A k \in 1 .. Len(samples') : samples'[k][1] <= now
      BY <2>2 DEF CurveInv
    <2>4. RectExact' /\ m_boundingRect' \in Rects
      BY <2>1, <2>2, ComputedAnew
    <2> QED BY <1>1, <2>1, <2>2, <2>3, <2>4 DEF CurveInv, CurveTypeOK
  <1>4. CASE Curve!clear
    <2>1. samples' = <<>> /\ m_boundingRect' = Curve!updateBoundaries(samples')
          /\ m_maxItems' = m_maxItems /\ now' = now
      BY <1>4 DEF Curve!clear
    <2>2. samples' \in Seq(Samples) /\ Len(samples') = 0 /\ 1 .. 0 = {}
      BY <2>1
    <2>3. RectExact' /\ m_boundingRect' \in Rects
      BY <2>1, <2>2, ComputedAnew
    <2> QED BY <1>1, <2>1, <2>2, <2>3 DEF CurveInv, CurveTypeOK, InTime
  <1>5. CASE UNCHANGED curveVars
    BY <1>5 DEF curveVars, CurveInv, CurveTypeOK, RectExact, InTime
  <1>6. CASE Curve!updateVariable
    <2>1. PICK time \in now .. MaxTime, value \in {-1, 0, 2} : Curve!append(time, value)
      BY <1>6 DEF Curve!updateVariable
    <2>2. time \in Int /\ value \in Int /\ now <= time
      BY <1>1 DEF Curve!ScopeCurveAssumption
    <2> QED BY <2>1, <2>2, <1>2
  <1> QED BY <1>3, <1>4, <1>5, <1>6 DEF Curve!Next, Curve!setMaximumBufferSize

LEMMA CurveInvInit ==
    ASSUME Curve!ScopeCurveAssumption, Curve!Init
    PROVE  CurveInv
  <1>1. samples = <<>> /\ samples \in Seq(Samples) /\ Len(samples) = 0 /\ 1 .. 0 = {}
    BY DEF Curve!Init
  <1>2. m_maxItems \in Nat \ {0} /\ now \in Int /\ m_boundingRect = Curve!IllegalRect
    BY DEF Curve!Init, Curve!ScopeCurveAssumption
  <1>3. m_boundingRect \in Rects
    BY <1>2 DEF Rects, Curve!IllegalRect
  <1> QED BY <1>1, <1>2, <1>3 DEF CurveInv, CurveTypeOK, InTime, RectExact

\* The least and the greatest of a set of numbers, once they are known.
LEMMA LeastIs ==
    ASSUME NEW S \in SUBSET Int, NEW m \in S, \A x \in S : m <= x
    PROVE  Curve!Min(S) = m
  <1>1. \A x \in S : (\A y \in S : x <= y) => x = m
    OBVIOUS
  <1> QED BY <1>1 DEF Curve!Min

LEMMA GreatestIs ==
    ASSUME NEW S \in SUBSET Int, NEW m \in S, \A x \in S : x <= m
    PROVE  Curve!Max(S) = m
  <1>1. \A x \in S : (\A y \in S : y <= x) => x = m
    OBVIOUS
  <1> QED BY <1>1 DEF Curve!Max

LEMMA CurveInvImplies ==
    ASSUME CurveInv
    PROVE  Curve!BoundsExact
  <1>1. CASE samples = <<>>
    BY <1>1 DEF Curve!BoundsExact, CurveInv, RectExact
  <1>2. CASE samples # <<>>
    <2> DEFINE values == {samples[k][2] : k \in DOMAIN samples}
               times  == {samples[k][1] : k \in DOMAIN samples}
    <2>1. samples \in Seq(Samples) /\ Len(samples) \in Nat /\ Len(samples) >= 1
          /\ DOMAIN samples = 1 .. Len(samples)
      BY <1>2 DEF CurveInv, CurveTypeOK
    <2>2. values \subseteq Int /\ times \subseteq Int
      BY <2>1 DEF Samples
    <2>3. Surrounds(m_boundingRect, samples, Len(samples)) /\ InTime(samples)
      BY <1>2 DEF CurveInv, RectExact
    <2>4. /\ m_boundingRect.left \in times /\ \A x \in times : m_boundingRect.left <= x
          /\ m_boundingRect.right \in times /\ \A x \in times : x <= m_boundingRect.right
      <3>1. 1 \in 1 .. Len(samples) /\ Len(samples) \in 1 .. Len(samples)
        BY <2>1
      <3>2. \A k \in 1 .. Len(samples) :
               samples[1][1] <= samples[k][1] /\ samples[k][1] <= samples[Len(samples)][1]
        BY <2>1, <2>3, <3>1 DEF InTime
      <3> QED BY <2>1, <2>3, <3>1, <3>2 DEF Surrounds
    <2>5. /\ m_boundingRect.top \in values /\ \A x \in values : m_boundingRect.top <= x
          /\ m_boundingRect.bottom \in values /\ \A x \in values : x <= m_boundingRect.bottom
      BY <2>1, <2>3 DEF Surrounds
    <2> HIDE DEF values, times
    <2>6. /\ Curve!Min(times) = m_boundingRect.left /\ Curve!Max(times) = m_boundingRect.right
          /\ Curve!Min(values) = m_boundingRect.top
          /\ Curve!Max(values) = m_boundingRect.bottom
      BY <2>2, <2>4, <2>5, LeastIs, GreatestIs
    <2>7. m_boundingRect = [left |-> Curve!Min(times), right |-> Curve!Max(times),
                            top |-> Curve!Min(values), bottom |-> Curve!Max(values)]
      BY <2>6 DEF CurveInv, CurveTypeOK, Rects
    <2> QED BY <1>2, <2>7 DEF Curve!BoundsExact, CurveInv, values, times
  <1> QED BY <1>1, <1>2

\* The drawn rectangle of a curve is that of its samples, in the number of which
\* the oldest ones go.
THEOREM Bounds == Spec => []BoundsExact
  <1> DEFINE Inv == part = "curve" => CurveInv
  <1>1. Init => Inv
    BY CurveInvInit, MCAssumption DEF Init, MCAssumption
  <1>2. Inv /\ [Next]_vars => Inv'
    <2> SUFFICES ASSUME Inv, [Next]_vars, part' = "curve" PROVE CurveInv'
      OBVIOUS
    <2>1. part = "curve" /\ [Curve!Next]_curveVars
      BY DEF Next, vars
    <2> QED BY <2>1, CurveInvStep, MCAssumption DEF MCAssumption
  <1>3. Inv => BoundsExact
    BY CurveInvImplies DEF BoundsExact
  <1> QED BY <1>1, <1>2, <1>3, PTL DEF Spec

-----------------------------------------------------------------------------
(* The preferences, for all drivers and any number of interfaces.          *)

Entries == Drivers \X Periods
PrefsLists == {list \in Seq(Entries) : Len(list) <= MaxInterfaces}
PrefsMaps ==
    [nb : -1 .. MaxInterfaces, entries : [1 .. MaxInterfaces -> Entries \cup {Prefs!NoEntry}],
     device : Drivers \cup {""}]
ListOf(map) == SubSeq(map.entries, 1, map.nb)

PrefsTypeOK ==
    /\ gui \in {"down", "loading", "saving", "idle"} /\ next \in {"loading", "idle"}
    /\ m_map \in PrefsMaps /\ m_file \in PrefsMaps \cup {Prefs!Absent, Prefs!Broken}
    /\ managers \in PrefsLists /\ savedList \in PrefsLists /\ diedSaving \in BOOLEAN

\* What is saved is in the memory of the program that runs, and in the file unless a
\* save is cut short or goes on.
PrefsInv ==
    /\ PrefsTypeOK
    /\ gui # "down" => ListOf(m_map) = savedList
    /\ gui = "saving" => m_file = Prefs!Broken
    /\ gui \in {"loading", "idle"} => m_file \in PrefsMaps
    /\ diedSaving => gui = "down"
    /\ gui = "down" => (m_file = Prefs!Broken <=> diedSaving)
    /\ m_file \in PrefsMaps => ListOf(m_file) = savedList
    /\ m_file = Prefs!Absent => savedList = <<>>

LEMMA EmptyList == ASSUME Prefs!PreferencesAssumption PROVE <<>> \in PrefsLists
  <1>1. MaxInterfaces \in Nat
    BY DEF Prefs!PreferencesAssumption
  <1>2. <<>> \in Seq(Entries)
    OBVIOUS
  <1>3. Len(<<>>) <= MaxInterfaces
    BY <1>1
  <1> QED BY <1>2, <1>3 DEF PrefsLists

LEMMA NoMapIs ==
    ASSUME Prefs!PreferencesAssumption
    PROVE  /\ Prefs!NoMap \in PrefsMaps /\ ListOf(Prefs!NoMap) = <<>>
           /\ Prefs!Absent \notin PrefsMaps /\ Prefs!Broken \notin PrefsMaps
           /\ Prefs!Absent # Prefs!Broken
  <1>1. MaxInterfaces \in Nat /\ "broken" \notin Drivers \cup {""} /\ "absent" \notin Drivers \cup {""}
    BY DEF Prefs!PreferencesAssumption
  <1> DEFINE none == [k \in 1 .. MaxInterfaces |-> Prefs!NoEntry]
  <1>2. none \in [1 .. MaxInterfaces -> Entries \cup {Prefs!NoEntry}]
    OBVIOUS
  <1>3. none \in Seq(Entries \cup {Prefs!NoEntry}) /\ SubSeq(none, 1, -1) = <<>>
    BY <1>1
  <1> HIDE DEF none
  <1>4. Prefs!NoMap = [nb |-> -1, entries |-> none, device |-> ""]
    BY Zenon DEF Prefs!NoMap, none
  <1>5. Prefs!NoMap \in PrefsMaps /\ ListOf(Prefs!NoMap) = <<>>
    <2>1. -1 \in -1 .. MaxInterfaces /\ "" \in Drivers \cup {""}
      BY <1>1
    <2>2. [nb |-> -1, entries |-> none, device |-> ""] \in PrefsMaps
      BY <1>2, <2>1 DEF PrefsMaps
    <2>3. Prefs!NoMap.nb = -1 /\ Prefs!NoMap.entries = none
      BY <1>4
    <2> QED BY <1>3, <1>4, <2>2, <2>3 DEF ListOf
  <1>6. Prefs!Absent.device = "absent" /\ Prefs!Broken.device = "broken"
    BY <1>4 DEF Prefs!Absent, Prefs!Broken
  <1>7. \A map \in PrefsMaps : map.device \in Drivers \cup {""}
    BY DEF PrefsMaps
  <1> QED BY <1>1, <1>5, <1>6, <1>7

\* What is saved is read again.
LEMMA SavedIsRead ==
    ASSUME Prefs!PreferencesAssumption, NEW map \in PrefsMaps, NEW list \in PrefsLists
    PROVE  Prefs!saveUserPrefs(map, list) \in PrefsMaps
           /\ ListOf(Prefs!saveUserPrefs(map, list)) = list
  <1> DEFINE e == [k \in 1 .. MaxInterfaces |-> IF k <= Len(list) THEN list[k] ELSE map.entries[k]]
  <1>1. MaxInterfaces \in Nat /\ list \in Seq(Entries) /\ Len(list) \in Nat /\ Len(list) <= MaxInterfaces
    <2>1. MaxInterfaces \in Nat
      BY DEF Prefs!PreferencesAssumption
    <2>2. list \in Seq(Entries) /\ Len(list) <= MaxInterfaces
      BY DEF PrefsLists
    <2> QED BY <2>1, <2>2
  <1>2. map.device \in Drivers \cup {""} /\ map.entries \in [1 .. MaxInterfaces -> Entries \cup {Prefs!NoEntry}]
    BY DEF PrefsMaps
  <1>3. \A k \in 1 .. Len(list) : list[k] \in Entries
    BY <1>1
  <1>4. e \in [1 .. MaxInterfaces -> Entries \cup {Prefs!NoEntry}]
    <2> DEFINE E == Entries \cup {Prefs!NoEntry}
    <2>1. \A k \in 1 .. Len(list) : list[k] \in E
      BY <1>3
    <2>2. map.entries \in [1 .. MaxInterfaces -> E]
      BY <1>2
    <2> HIDE DEF E
    <2>3. ASSUME NEW k \in 1 .. MaxInterfaces
          PROVE  (IF k <= Len(list) THEN list[k] ELSE map.entries[k]) \in E
      BY <1>1, <2>1, <2>2
    <2>4. e \in [1 .. MaxInterfaces -> E]
      BY <2>3
    <2> QED BY <2>4 DEF E
  <1>5. e \in Seq(Entries \cup {Prefs!NoEntry}) /\ Len(e) = MaxInterfaces
    BY <1>1, <1>4
  <1>6. \A k \in 1 .. Len(list) : e[k] = list[k]
    BY <1>1
  <1> HIDE DEF e
  <1>7. SubSeq(e, 1, Len(list)) = list
    <2>1. SubSeq(e, 1, Len(list)) = [k \in 1 .. Len(list) |-> e[k]]
      BY <1>1, <1>5
    <2>2. list = [k \in 1 .. Len(list) |-> list[k]]
      BY <1>1
    <2> QED BY <1>6, <2>1, <2>2
  <1>8. Prefs!saveUserPrefs(map, list) = [nb |-> Len(list), entries |-> e, device |-> map.device]
    BY Zenon DEF Prefs!saveUserPrefs, e
  <1>9. [nb |-> Len(list), entries |-> e, device |-> map.device] \in PrefsMaps
    <2>1. Len(list) \in -1 .. MaxInterfaces
      BY <1>1
    <2> QED BY <1>2, <1>4, <2>1 DEF PrefsMaps
  <1>10. Prefs!saveUserPrefs(map, list).nb = Len(list) /\ Prefs!saveUserPrefs(map, list).entries = e
    BY <1>8
  <1> QED BY <1>7, <1>8, <1>9, <1>10 DEF ListOf

LEMMA AvailableIs ==
    ASSUME Prefs!PreferencesAssumption, NEW list \in PrefsLists
    PROVE  Prefs!Available(list) \in PrefsLists
  <1> DEFINE T == {e \in Drivers \X Periods : Prefs!createDevice(e[1]) /= {}}
  <1>0. MaxInterfaces \in Nat
    BY DEF Prefs!PreferencesAssumption
  <1>1. list \in Seq(Entries) /\ Len(list) <= MaxInterfaces /\ Len(list) \in Nat
    BY DEF PrefsLists
  <1>2. Prefs!Available(list) = Only(list, T)
    BY Zenon DEF Prefs!Available, Prefs!Only, Only
  <1> HIDE DEF T
  <1>3. Only(list, T) \in Seq(Entries) /\ Len(Only(list, T)) \in Nat /\ Len(Only(list, T)) <= Len(list)
    BY <1>1, OnlyRange, OnlyLength
  <1>4. PICK o : o = Only(list, T)
    OBVIOUS
  <1>5. o \in PrefsLists
    BY <1>1, <1>3, <1>4, <1>0 DEF PrefsLists
  <1> QED BY <1>2, <1>4, <1>5

LEMMA PrefsInvInit ==
    ASSUME Prefs!PreferencesAssumption, Prefs!Init
    PROVE  PrefsInv
  <1>1. /\ gui = "down" /\ next = "idle" /\ m_map = Prefs!NoMap /\ managers = <<>>
        /\ m_file = Prefs!Absent /\ savedList = <<>> /\ diedSaving = FALSE
    BY DEF Prefs!Init
  <1> QED BY <1>1, EmptyList, NoMapIs DEF PrefsInv, PrefsTypeOK

\* A file that is loaded is the map of what was saved.
LEMMA FileIs ==
    ASSUME Prefs!PreferencesAssumption, PrefsInv
    PROVE  /\ Prefs!Loaded <=> m_file \in PrefsMaps
           /\ m_file \in PrefsMaps => \A map : Prefs!load(map) = m_file
           /\ m_file = Prefs!Absent => \A map : Prefs!load(map) = map
           /\ m_file = Prefs!Broken => \A map : Prefs!load(map) = Prefs!NoMap
           /\ m_file \in PrefsMaps \/ m_file = Prefs!Absent \/ m_file = Prefs!Broken
  <1>1. m_file \in PrefsMaps \cup {Prefs!Absent, Prefs!Broken}
    BY DEF PrefsInv, PrefsTypeOK
  <1> QED BY <1>1, NoMapIs, Zenon DEF Prefs!Loaded, Prefs!load

\* What the user changes is what is saved.
LEMMA ChangeKeeps ==
    ASSUME Prefs!PreferencesAssumption, PrefsInv, NEW list \in PrefsLists, Prefs!Change(list)
    PROVE  PrefsInv'
  <1>1. /\ gui = "idle" /\ managers' = list /\ savedList' = list
        /\ m_map' = Prefs!saveUserPrefs(m_map, list) /\ m_file' = Prefs!Broken
        /\ gui' = "saving" /\ next' = "idle" /\ diedSaving' = diedSaving
    BY DEF Prefs!Change, Prefs!Truncate
  <1>2. m_map \in PrefsMaps /\ diedSaving = FALSE
    BY <1>1 DEF PrefsInv, PrefsTypeOK
  <1>3. m_map' \in PrefsMaps /\ ListOf(m_map') = list
    BY <1>1, <1>2, SavedIsRead
  <1> QED BY <1>1, <1>2, <1>3, NoMapIs DEF PrefsInv, PrefsTypeOK

LEMMA PrefsInvStep ==
    ASSUME Prefs!PreferencesAssumption, PrefsInv, [Prefs!Next]_prefsVars
    PROVE  PrefsInv'
  <1>0. PrefsTypeOK
    BY DEF PrefsInv
  <1>1. CASE Prefs!Written
    <2>1. /\ gui = "saving" /\ m_file' = m_map /\ gui' = next
          /\ UNCHANGED <<next, m_map, managers, savedList, diedSaving>>
      BY <1>1 DEF Prefs!Written
    <2> QED BY <1>0, <2>1, NoMapIs DEF PrefsInv, PrefsTypeOK
  <1>2. CASE Prefs!loadPrefs
    <2>0. /\ gui = "down" /\ managers' = <<>>
          /\ savedList' = (IF diedSaving /\ ~Prefs!Loaded THEN <<>> ELSE savedList)
          /\ diedSaving' = (diedSaving /\ Prefs!Loaded)
      BY <1>2 DEF Prefs!loadPrefs
    <2>1. CASE Prefs!Loaded
      <3>1. m_map' = m_file /\ gui' = "loading" /\ UNCHANGED <<m_file, next>> /\ m_file \in PrefsMaps
        BY <1>2, <2>1, FileIs DEF Prefs!loadPrefs
      <3>2. ~diedSaving
        BY <2>0, <3>1, NoMapIs DEF PrefsInv
      <3> QED BY <1>0, <2>0, <2>1, <3>1, <3>2, NoMapIs, EmptyList DEF PrefsInv, PrefsTypeOK
    <2>2. CASE ~Prefs!Loaded
      <3>1. /\ m_map' = Prefs!NoMap /\ m_file' = Prefs!Broken
            /\ gui' = "saving" /\ next' = "loading"
        BY <1>2, <2>2, FileIs DEF Prefs!loadPrefs, Prefs!Truncate
      <3>2. savedList' = <<>>
        <4>1. CASE diedSaving
          BY <2>0, <2>2, <4>1
        <4>2. CASE ~diedSaving
          BY <2>0, <2>2, <4>2, FileIs DEF PrefsInv
        <4> QED BY <4>1, <4>2
      <3>3. diedSaving' = FALSE
        BY <2>0, <2>2
      <3> QED BY <1>0, <2>0, <3>1, <3>2, <3>3, NoMapIs, EmptyList DEF PrefsInv, PrefsTypeOK
    <2> QED BY <2>1, <2>2
  <1>3. CASE Prefs!loadUserPrefs
    <2>1. /\ gui = "loading" /\ gui' = "idle" /\ m_map' = Prefs!load(m_map)
          /\ managers' = Prefs!Interfaces(m_map')
          /\ UNCHANGED <<next, m_file, savedList, diedSaving>>
      BY <1>3 DEF Prefs!loadUserPrefs
    <2>2. m_map' = m_file /\ m_file \in PrefsMaps /\ ListOf(m_file) = savedList
      BY <2>1, FileIs DEF PrefsInv
    <2>3. managers' \in PrefsLists
      <3>1. Prefs!Interfaces(m_map') = Prefs!Available(savedList)
        BY <2>2 DEF Prefs!Interfaces, ListOf
      <3> QED BY <1>0, <2>1, <3>1, AvailableIs DEF PrefsTypeOK
    <2> QED BY <1>0, <2>1, <2>2, <2>3, NoMapIs DEF PrefsInv, PrefsTypeOK
  <1>4. CASE Prefs!Ends
    <2>1. /\ gui /= "down" /\ gui' = "down" /\ m_map' = Prefs!NoMap /\ managers' = <<>>
          /\ diedSaving' = (diedSaving \/ gui = "saving")
          /\ UNCHANGED <<next, m_file, savedList>>
      BY <1>4 DEF Prefs!Ends
    <2>2. diedSaving' \in BOOLEAN /\ (diedSaving' <=> gui = "saving")
      BY <1>0, <2>1 DEF PrefsInv, PrefsTypeOK
    <2>3. m_file = Prefs!Broken <=> gui = "saving"
      BY <1>0, <2>1, NoMapIs DEF PrefsInv, PrefsTypeOK
    <2> QED BY <1>0, <2>1, <2>2, <2>3, NoMapIs, EmptyList DEF PrefsInv, PrefsTypeOK
  <1>5. ASSUME NEW name \in Drivers, Prefs!comboActivated(name)
        PROVE  PrefsInv'
    <2>1. /\ gui = "idle" /\ m_map' = [m_map EXCEPT !.device = name] /\ m_file' = Prefs!Broken
          /\ gui' = "saving" /\ next' = "idle" /\ UNCHANGED <<managers, savedList, diedSaving>>
      BY <1>5 DEF Prefs!comboActivated, Prefs!Truncate
    <2>2. m_map \in PrefsMaps /\ ListOf(m_map) = savedList /\ diedSaving = FALSE
      BY <1>0, <2>1 DEF PrefsInv, PrefsTypeOK
    <2>3. m_map' \in PrefsMaps /\ m_map'.nb = m_map.nb /\ m_map'.entries = m_map.entries
      BY <2>1, <2>2 DEF PrefsMaps
    <2>4. ListOf(m_map') = savedList
      BY <2>2, <2>3 DEF ListOf
    <2> QED BY <1>0, <2>1, <2>2, <2>3, <2>4, NoMapIs DEF PrefsInv, PrefsTypeOK
  <1>6. ASSUME NEW name \in Drivers, NEW p \in Periods, Prefs!addButtonClicked(name, p)
        PROVE  PrefsInv'
    <2>1. /\ Len(managers) < MaxInterfaces
          /\ Prefs!Change(managers) \/ Prefs!Change(Append(managers, <<name, p>>))
      BY <1>6 DEF Prefs!addButtonClicked
    <2>2. managers \in Seq(Entries) /\ <<name, p>> \in Entries /\ MaxInterfaces \in Nat
      BY <1>0 DEF PrefsTypeOK, PrefsLists, Entries, Prefs!PreferencesAssumption
    <2>3. Append(managers, <<name, p>>) \in Seq(Entries)
          /\ Len(Append(managers, <<name, p>>)) = Len(managers) + 1 /\ Len(managers) \in Nat
      BY <2>2
    <2>4. Append(managers, <<name, p>>) \in PrefsLists
      BY <2>1, <2>2, <2>3 DEF PrefsLists
    <2>5. managers \in PrefsLists
      BY <1>0 DEF PrefsTypeOK
    <2> QED BY <2>1, <2>4, <2>5, ChangeKeeps
  <1>10. ASSUME Prefs!removeButtonClicked(0)
        PROVE  PrefsInv'
    <2>1. Prefs!Change(managers)
      BY <1>10 DEF Prefs!removeButtonClicked
    <2>2. managers \in PrefsLists
      BY <1>0 DEF PrefsTypeOK
    <2> QED BY <2>1, <2>2, ChangeKeeps
  <1>7. ASSUME NEW k \in DOMAIN managers, Prefs!removeButtonClicked(k)
        PROVE  PrefsInv'
    <2>1. PICK s : s = managers
      OBVIOUS
    <2>2. s \in Seq(Entries) /\ MaxInterfaces \in Nat /\ Len(s) <= MaxInterfaces
          /\ k \in 1 .. Len(s) /\ Len(s) \in Nat
      <3>1. MaxInterfaces \in Nat
        BY DEF Prefs!PreferencesAssumption
      <3>2. s \in Seq(Entries) /\ Len(s) <= MaxInterfaces
        BY <1>0, <2>1 DEF PrefsTypeOK, PrefsLists
      <3>3. k \in DOMAIN s
        BY <2>1
      <3> QED BY <3>1, <3>2, <3>3
    <2>3. PICK a, b : a = SubSeq(s, 1, k - 1) /\ b = SubSeq(s, k + 1, Len(s))
      OBVIOUS
    <2>4. /\ a \in Seq(Entries) /\ b \in Seq(Entries)
          /\ Len(a) = k - 1 /\ Len(b) = Len(s) - k
      <3>1. PICK E : E = Entries
        OBVIOUS
      <3>2. s \in Seq(E) /\ k \in 1 .. Len(s) /\ Len(s) \in Nat
        BY <2>2, <3>1
      <3>3. a \in Seq(E) /\ Len(a) = k - 1
        BY <2>3, <3>2
      <3>4. b \in Seq(E) /\ Len(b) = Len(s) - k
        BY <2>3, <3>2
      <3> QED BY <3>1, <3>3, <3>4
    <2>5. a \o b \in Seq(Entries) /\ Len(a \o b) = Len(a) + Len(b)
      BY <2>4
    <2>6. a \o b \in PrefsLists
      <3>1. Len(a \o b) <= MaxInterfaces
        BY <2>2, <2>4, <2>5
      <3> QED BY <2>5, <3>1 DEF PrefsLists
    <2>7. Prefs!Change(a \o b)
      BY <1>7, <2>1, <2>2, <2>3 DEF Prefs!removeButtonClicked
    <2> QED BY <2>6, <2>7, ChangeKeeps
  <1>8. ASSUME NEW k \in DOMAIN managers, NEW p \in Periods, Prefs!itemDoubleClicked(k, p)
        PROVE  PrefsInv'
    <2>1. PICK list : list = [managers EXCEPT ![k] = <<managers[k][1], p>>]
      OBVIOUS
    <2>2. Prefs!Change(list)
      BY <1>8, <2>1 DEF Prefs!itemDoubleClicked
    <2>3. managers \in Seq(Entries) /\ Len(managers) <= MaxInterfaces /\ k \in 1 .. Len(managers)
      BY <1>0 DEF PrefsTypeOK, PrefsLists
    <2>4. managers[k][1] \in Drivers
      BY <2>3 DEF Entries
    <2>5. <<managers[k][1], p>> \in Entries
      BY <2>4 DEF Entries
    <2>6. list \in Seq(Entries) /\ Len(list) = Len(managers)
      BY <2>1, <2>3, <2>5
    <2>7. list \in PrefsLists
      BY <2>3, <2>6 DEF PrefsLists
    <2> QED BY <2>2, <2>7, ChangeKeeps
  <1>9. CASE \/ Prefs!ConsoleStarts \/ Prefs!ConsoleEnds
             \/ \E drivers \in SUBSET Drivers : Prefs!Install(drivers)
             \/ UNCHANGED prefsVars
    <2>1. UNCHANGED <<gui, next, m_map, managers, m_file, savedList, diedSaving>>
      BY <1>9 DEF Prefs!ConsoleStarts, Prefs!ConsoleEnds, Prefs!Install, prefsVars
    <2> QED BY <2>1 DEF PrefsInv, PrefsTypeOK
  <1>11. ASSUME NEW k \in 0 .. Len(managers), Prefs!removeButtonClicked(k)
         PROVE  PrefsInv'
    <2>1. managers \in Seq(Entries)
      BY <1>0 DEF PrefsTypeOK, PrefsLists
    <2>2. k = 0 \/ k \in DOMAIN managers
      BY <2>1
    <2> QED BY <2>2, <1>7, <1>10, <1>11
  <1> QED BY <1>1, <1>2, <1>3, <1>4, <1>5, <1>6, <1>8, <1>9, <1>11 DEF Prefs!Next

\* A session begins with what was saved, and netvconsole with it or with nothing.
LEMMA PrefsInvKeeps ==
    ASSUME Prefs!PreferencesAssumption, PrefsInv
    PROVE  /\ Prefs!loadUserPrefs =>
                managers' = IF diedSaving THEN <<>> ELSE Prefs!Available(savedList)
           /\ console' /= Prefs!Down /\ Prefs!ConsoleStarts =>
                console' = IF gui = "saving" \/ diedSaving THEN <<>> ELSE Prefs!Available(savedList)
  <1>1. ASSUME Prefs!loadUserPrefs
        PROVE  managers' = IF diedSaving THEN <<>> ELSE Prefs!Available(savedList)
    <2>1. gui = "loading" /\ m_map' = Prefs!load(m_map) /\ managers' = Prefs!Interfaces(m_map')
      BY <1>1 DEF Prefs!loadUserPrefs
    <2>2. m_map' = m_file /\ ListOf(m_file) = savedList /\ ~diedSaving
      BY <2>1, FileIs DEF PrefsInv
    <2> QED BY <2>1, <2>2 DEF Prefs!Interfaces, ListOf
  <1>2. Prefs!Available(<<>>) = <<>>
    BY OnlyEmpty, Zenon DEF Prefs!Available, Prefs!Only, Only
  <1>3. ASSUME Prefs!ConsoleStarts
        PROVE  console' = IF gui = "saving" \/ diedSaving THEN <<>> ELSE Prefs!Available(savedList)
    <2>1. console' = Prefs!Available(ListOf(Prefs!load(Prefs!NoMap)))
      BY <1>3, Zenon DEF Prefs!ConsoleStarts, Prefs!Interfaces, ListOf
    <2>2. CASE gui = "saving" \/ diedSaving
      <3>1. m_file = Prefs!Broken
        BY <2>2 DEF PrefsInv
      <3> QED BY <1>2, <2>1, <2>2, <3>1, FileIs, NoMapIs
    <2>3. CASE ~(gui = "saving" \/ diedSaving)
      <3>1. m_file # Prefs!Broken
        BY <2>3, NoMapIs DEF PrefsInv, PrefsTypeOK
      <3>2. CASE m_file = Prefs!Absent
        <4>1. savedList = <<>> /\ Prefs!load(Prefs!NoMap) = Prefs!NoMap
          BY <3>2, FileIs DEF PrefsInv
        <4> QED BY <2>1, <2>3, <4>1, NoMapIs
      <3>3. CASE m_file \in PrefsMaps
        <4>1. ListOf(m_file) = savedList /\ Prefs!load(Prefs!NoMap) = m_file
          BY <3>3, FileIs DEF PrefsInv
        <4> QED BY <2>1, <2>3, <4>1
      <3> QED BY <3>1, <3>2, <3>3, FileIs
    <2> QED BY <2>2, <2>3
  <1> QED BY <1>1, <1>3

\* What a session and netvconsole begin with is what was saved last, whoever reads
\* it, and nothing only after a save that was cut short or in the middle of one.
THEOREM Kept == Spec => PreferencesKept
  <1> DEFINE Inv == part = "prefs" => PrefsInv
             Restored ==
               Prefs!loadUserPrefs =>
                  managers' = IF diedSaving THEN <<>> ELSE Prefs!Available(savedList)
             Agrees ==
               console' /= Prefs!Down /\ Prefs!ConsoleStarts =>
                  console' = IF gui = "saving" \/ diedSaving THEN <<>> ELSE Prefs!Available(savedList)
  <1>1. Init => Inv
    BY PrefsInvInit, MCAssumption DEF Init, MCAssumption
  <1>2. Inv /\ [Next]_vars => Inv'
    <2> SUFFICES ASSUME Inv, [Next]_vars, part' = "prefs" PROVE PrefsInv'
      OBVIOUS
    <2>1. part = "prefs" /\ [Prefs!Next]_prefsVars
      BY DEF Next, vars
    <2> QED BY <2>1, PrefsInvStep, MCAssumption DEF MCAssumption
  <1>3. Inv /\ [Next]_vars => [Restored]_(Prefs!vars) /\ [Agrees]_(Prefs!vars)
    <2> SUFFICES ASSUME Inv, [Next]_vars
                 PROVE  [Restored]_(Prefs!vars) /\ [Agrees]_(Prefs!vars)
      OBVIOUS
    <2>1. CASE part = "prefs"
      <3>1. PrefsInv
        BY <2>1
      <3>2. Restored /\ Agrees
        BY <3>1, PrefsInvKeeps, MCAssumption, Zenon DEF MCAssumption
      <3> HIDE DEF Restored, Agrees
      <3> QED BY <3>2
    <2>2. CASE part # "prefs"
      <3>1. UNCHANGED prefsVars
        BY <2>2 DEF Next, vars
      <3>2. UNCHANGED Prefs!vars
        BY <3>1 DEF prefsVars, Prefs!vars
      <3> HIDE DEF Restored, Agrees
      <3> QED BY <3>2
    <2> QED BY <2>1, <2>2
  <1>4. PreferencesKept <=> [][Restored]_(Prefs!vars) /\ [][Agrees]_(Prefs!vars)
    BY DEF PreferencesKept, Prefs!PreferencesKept, Prefs!SessionRestored, Prefs!ConsoleAgrees
  <1> HIDE DEF Inv, Restored, Agrees
  <1> QED BY <1>1, <1>2, <1>3, <1>4, PTL DEF Spec
-----------------------------------------------------------------------------
(* The main window and its plugins, for any managers, modules and          *)
(* variables.  First the table of the logger.                              *)

AllVariables == Addresses \X Slots
Counts == Nat \cup {-1}
Maps(S) == UNION {[D -> S] : D \in SUBSET AllVariables}
Tables ==
    [rows : Seq(AllVariables), m_variableMap : Maps(Nat), m_logValues : Maps(Nat),
     wired : Maps(Nat), m_logEnabled : BOOLEAN]

LEMMA MapIs ==
    ASSUME NEW S, NEW D \in SUBSET AllVariables, NEW f \in [D -> S]
    PROVE  f \in Maps(S)
  BY DEF Maps

LEMMA MapOf ==
    ASSUME NEW S, NEW f \in Maps(S)
    PROVE  /\ DOMAIN f \subseteq AllVariables /\ f \in [DOMAIN f -> S]
           /\ \A v \in DOMAIN f : f[v] \in S
  <1>1. PICK D \in SUBSET AllVariables : f \in [D -> S]
    BY DEF Maps
  <1> QED BY <1>1

LEMMA WithIs ==
    ASSUME NEW S, NEW f \in Maps(S), NEW v \in AllVariables, NEW y, {y} \subseteq S
    PROVE  Views!With(f, v, y) \in Maps(S)
  <1>1. DOMAIN f \subseteq AllVariables /\ \A w \in DOMAIN f : f[w] \in S
    BY MapOf
  <1> DEFINE D == DOMAIN f \cup {v}
             g == [k \in D |-> IF k = v THEN y ELSE f[k]]
  <1>2. g \in [D -> S] /\ D \in SUBSET AllVariables
    BY <1>1
  <1>3. Views!With(f, v, y) = g
    BY Zenon DEF Views!With
  <1> HIDE DEF g, D
  <1> QED BY <1>2, <1>3, MapIs

LEMMA WithoutIs ==
    ASSUME NEW S, NEW f \in Maps(S), NEW gone
    PROVE  /\ Views!Without(f, gone) \in Maps(S)
           /\ DOMAIN Views!Without(f, gone) = DOMAIN f \ gone
           /\ \A w \in DOMAIN f \ gone : Views!Without(f, gone)[w] = f[w]
  <1>1. DOMAIN f \subseteq AllVariables /\ \A w \in DOMAIN f : f[w] \in S
    BY MapOf
  <1> DEFINE D == DOMAIN f \ gone
             g == [k \in D |-> f[k]]
  <1>2. g \in [D -> S] /\ D \in SUBSET AllVariables
    BY <1>1
  <1>3. Views!Without(f, gone) = g
    BY Zenon DEF Views!Without, Views!Restrict
  <1>4. g \in Maps(S)
    <2> HIDE DEF g, D
    <2> QED BY <1>2, MapIs
  <1> QED BY <1>3, <1>4

\* A sequence without one of its elements.
LEMMA RowsWithoutIs ==
    ASSUME NEW S, NEW s \in Seq(S), NEW j \in 1 .. Len(s)
    PROVE  /\ Views!RowsWithout(s, j) \in Seq(S)
           /\ Len(Views!RowsWithout(s, j)) = Len(s) - 1
           /\ \A k \in 1 .. Len(s) - 1 :
                 Views!RowsWithout(s, j)[k] = IF k < j THEN s[k] ELSE s[k + 1]
  <1>1. Len(s) \in Nat /\ j \in Nat /\ j >= 1 /\ j <= Len(s)
    OBVIOUS
  <1>2. PICK a, b : a = SubSeq(s, 1, j - 1) /\ b = SubSeq(s, j + 1, Len(s))
    OBVIOUS
  <1>3. a \in Seq(S) /\ Len(a) = j - 1 /\ \A k \in 1 .. j - 1 : a[k] = s[k]
    BY <1>1, <1>2
  <1>4. b \in Seq(S) /\ Len(b) = Len(s) - j /\ \A k \in 1 .. Len(s) - j : b[k] = s[j + k]
    BY <1>1, <1>2
  <1>5. /\ a \o b \in Seq(S) /\ Len(a \o b) = Len(a) + Len(b)
        /\ \A k \in 1 .. Len(a) : (a \o b)[k] = a[k]
        /\ \A k \in 1 .. Len(b) : (a \o b)[Len(a) + k] = b[k]
    <2>1. a \in Seq(S) /\ b \in Seq(S)
      BY <1>3, <1>4
    <2> QED BY <2>1, ConcatIndex
  <1>6. Views!RowsWithout(s, j) = a \o b
    BY <1>2 DEF Views!RowsWithout
  <1>7. ASSUME NEW k \in 1 .. Len(s) - 1
        PROVE  (a \o b)[k] = IF k < j THEN s[k] ELSE s[k + 1]
    <2>1. CASE k < j
      <3>1. k \in 1 .. Len(a) /\ k \in 1 .. j - 1
        BY <1>1, <1>3, <2>1
      <3> QED BY <1>3, <1>5, <2>1, <3>1
    <2>2. CASE ~(k < j)
      <3>1. k - (j - 1) \in 1 .. Len(b) /\ k - (j - 1) \in 1 .. Len(s) - j
            /\ Len(a) + (k - (j - 1)) = k /\ j + (k - (j - 1)) = k + 1
        BY <1>1, <1>3, <1>4, <2>2
      <3>2. (a \o b)[Len(a) + (k - (j - 1))] = b[k - (j - 1)]
        BY <1>5, <3>1
      <3>3. b[k - (j - 1)] = s[j + (k - (j - 1))]
        BY <1>4, <3>1
      <3> QED BY <2>2, <3>1, <3>2, <3>3
    <2> QED BY <2>1, <2>2
  <1>8. Len(a \o b) = Len(s) - 1
    BY <1>1, <1>3, <1>4, <1>5
  <1> QED BY <1>5, <1>6, <1>7, <1>8

Placed(t) ==
    /\ DOMAIN t.m_variableMap = Range(t.rows)
    /\ \A k \in 1 .. Len(t.rows) : t.m_variableMap[t.rows[k]] = k

\* A table from its parts.
LEMMA TableIs ==
    ASSUME NEW rows \in Seq(AllVariables), NEW map \in Maps(Nat), NEW logs \in Maps(Nat),
           NEW wired \in Maps(Nat), NEW enabled \in BOOLEAN, NEW t,
           t = Views!Table(rows, map, logs, wired, enabled)
    PROVE  /\ t \in Tables /\ t.rows = rows /\ t.m_variableMap = map /\ t.m_logValues = logs
           /\ t.wired = wired /\ t.m_logEnabled = enabled
  <1> HIDE DEF AllVariables, Maps
  <1> QED BY DEF Views!Table, Tables

LEMMA TableParts ==
    ASSUME NEW t \in Tables
    PROVE  /\ t.rows \in Seq(AllVariables) /\ t.m_variableMap \in Maps(Nat)
           /\ t.m_logValues \in Maps(Nat) /\ t.wired \in Maps(Nat) /\ t.m_logEnabled \in BOOLEAN
  BY DEF Tables

\* Each row has a place of its own.
LEMMA RowsOfMap ==
    ASSUME NEW t \in Tables, Placed(t)
    PROVE  /\ Len(t.rows) \in Nat
           /\ \A v \in Range(t.rows) : /\ v \in AllVariables /\ t.m_variableMap[v] \in 1 .. Len(t.rows)
                                       /\ t.rows[t.m_variableMap[v]] = v
           /\ \A j, k \in 1 .. Len(t.rows) : t.rows[j] = t.rows[k] => j = k
           /\ \A k \in 1 .. Len(t.rows) : t.rows[k] \in Range(t.rows)
  <1>1. t.rows \in Seq(AllVariables) /\ Len(t.rows) \in Nat
    BY TableParts
  <1>2. /\ \A x : x \in Range(t.rows) <=> \E k \in 1 .. Len(t.rows) : t.rows[k] = x
        /\ Range(t.rows) \subseteq AllVariables
    BY <1>1, InRange
  <1>3. ASSUME NEW v \in Range(t.rows)
        PROVE  t.m_variableMap[v] \in 1 .. Len(t.rows) /\ t.rows[t.m_variableMap[v]] = v
    <2>1. PICK k \in 1 .. Len(t.rows) : t.rows[k] = v
      BY <1>2
    <2> QED BY <2>1 DEF Placed
  <1>4. ASSUME NEW j \in 1 .. Len(t.rows), NEW k \in 1 .. Len(t.rows), t.rows[j] = t.rows[k]
        PROVE  j = k
    BY <1>4, Zenon DEF Placed
  <1> QED BY <1>1, <1>2, <1>3, <1>4

\* The delete key, or the end of a variable: its row goes, the others move up.
LEMMA RemoveKeeps ==
    ASSUME NEW t \in Tables, Placed(t), DOMAIN t.m_logValues = Range(t.rows),
           NEW v \in Range(t.rows), NEW u, u = Views!removeVariable(t, v)
    PROVE  /\ u \in Tables /\ Placed(u) /\ Range(u.rows) = Range(t.rows) \ {v}
           /\ DOMAIN u.m_logValues = Range(u.rows)
           /\ \A w \in Range(u.rows) : u.m_logValues[w] = t.m_logValues[w]
           /\ u.wired = t.wired /\ u.m_logEnabled = t.m_logEnabled
  <1> DEFINE index == t.m_variableMap[v]
             rows == Views!RowsWithout(t.rows, index)
             D == DOMAIN t.m_variableMap \ {v}
             map == [w \in D |-> IF t.m_variableMap[w] > index THEN t.m_variableMap[w] - 1
                                                              ELSE t.m_variableMap[w]]
             logs == Views!Without(t.m_logValues, {v})
  <1>1. /\ index \in 1 .. Len(t.rows) /\ t.rows[index] = v /\ Len(t.rows) \in Nat
        /\ t.rows \in Seq(AllVariables)
    BY RowsOfMap, TableParts
  <1>2. /\ rows \in Seq(AllVariables) /\ Len(rows) = Len(t.rows) - 1
        /\ \A k \in 1 .. Len(t.rows) - 1 : rows[k] = IF k < index THEN t.rows[k] ELSE t.rows[k + 1]
    BY <1>1, RowsWithoutIs
  <1>3. DOMAIN t.m_variableMap = Range(t.rows) /\ Range(t.rows) \subseteq AllVariables
    BY <1>1, InRange DEF Placed
  <1>4. map \in Maps(Nat) /\ DOMAIN map = Range(t.rows) \ {v}
    <2>1. \A w \in D : t.m_variableMap[w] \in 1 .. Len(t.rows)
      BY <1>3, RowsOfMap
    <2>2. \A w \in D : (IF t.m_variableMap[w] > index THEN t.m_variableMap[w] - 1
                                                      ELSE t.m_variableMap[w]) \in Nat
      BY <1>1, <2>1
    <2>3. map \in [D -> Nat] /\ D \in SUBSET AllVariables /\ DOMAIN map = D
      BY <1>3, <2>2
    <2>4. map \in Maps(Nat)
      <3> HIDE DEF map, D
      <3> QED BY <2>3, MapIs
    <2> QED BY <1>3, <2>3, <2>4
  <1>5. /\ logs \in Maps(Nat) /\ DOMAIN logs = Range(t.rows) \ {v}
        /\ \A w \in Range(t.rows) \ {v} : logs[w] = t.m_logValues[w]
    <2>1. PICK f \in Maps(Nat) : f = t.m_logValues
      BY TableParts
    <2>2. DOMAIN f = Range(t.rows)
      BY <2>1
    <2>3. /\ Views!Without(f, {v}) \in Maps(Nat) /\ DOMAIN Views!Without(f, {v}) = DOMAIN f \ {v}
          /\ \A w \in DOMAIN f \ {v} : Views!Without(f, {v})[w] = f[w]
      <3>1. PICK g : g = {v}
        OBVIOUS
      <3>2. /\ Views!Without(f, g) \in Maps(Nat) /\ DOMAIN Views!Without(f, g) = DOMAIN f \ g
            /\ \A w \in DOMAIN f \ g : Views!Without(f, g)[w] = f[w]
        BY WithoutIs
      <3> QED BY <3>1, <3>2
    <2>4. logs = Views!Without(f, {v})
      BY <2>1
    <2> HIDE DEF logs
    <2> QED BY <2>1, <2>2, <2>3, <2>4
  <1>6. u = Views!Table(rows, map, logs, t.wired, t.m_logEnabled)
    BY <1>3, Zenon DEF Views!removeVariable
  <1> HIDE DEF map, D, rows, logs, index
  <1>7. /\ u \in Tables /\ u.rows = rows /\ u.m_variableMap = map /\ u.m_logValues = logs
        /\ u.wired = t.wired /\ u.m_logEnabled = t.m_logEnabled
    <2>1. PICK wired, enabled : wired = t.wired /\ enabled = t.m_logEnabled
      OBVIOUS
    <2>2. wired \in Maps(Nat) /\ enabled \in BOOLEAN
      BY <2>1, TableParts
    <2>3. u = Views!Table(rows, map, logs, wired, enabled)
      BY <1>6, <2>1
    <2>4. rows \in Seq(AllVariables) /\ map \in Maps(Nat) /\ logs \in Maps(Nat)
      BY <1>2, <1>4, <1>5
    <2> QED BY <2>1, <2>2, <2>3, <2>4, TableIs
  <1>8. Range(rows) = Range(t.rows) \ {v}
    <2>1. ASSUME NEW k \in 1 .. Len(rows)
          PROVE  rows[k] \in Range(t.rows) \ {v}
      <3>1. k \in 1 .. Len(t.rows) - 1 /\ k \in 1 .. Len(t.rows) /\ k + 1 \in 1 .. Len(t.rows)
        BY <1>1, <1>2
      <3>2. CASE k < index
        BY <1>1, <1>2, <3>1, <3>2, RowsOfMap
      <3>3. CASE ~(k < index)
        BY <1>1, <1>2, <3>1, <3>3, RowsOfMap
      <3> QED BY <3>2, <3>3
    <2>2. ASSUME NEW w \in Range(t.rows) \ {v}
          PROVE  \E k \in 1 .. Len(rows) : rows[k] = w
      <3>1. PICK j \in 1 .. Len(t.rows) : t.rows[j] = w
        BY <1>1, InRange
      <3>2. j # index
        BY <1>1, <3>1
      <3>3. CASE j < index
        <4>1. j \in 1 .. Len(t.rows) - 1
          BY <1>1, <3>3
        <4> QED BY <1>2, <3>1, <3>3, <4>1
      <3>4. CASE j > index
        <4>1. j - 1 \in 1 .. Len(t.rows) - 1 /\ (j - 1) + 1 = j /\ ~(j - 1 < index)
          BY <1>1, <3>4
        <4>2. rows[j - 1] = t.rows[j]
          BY <1>2, <4>1
        <4> QED BY <1>2, <3>1, <4>1, <4>2
      <3> QED BY <1>1, <3>2, <3>3, <3>4
    <2>3. \A x : x \in Range(rows) <=> \E k \in 1 .. Len(rows) : rows[k] = x
      BY <1>2, InRange
    <2> QED BY <2>1, <2>2, <2>3
  <1>9. ASSUME NEW k \in 1 .. Len(rows)
        PROVE  map[rows[k]] = k
    <2>1. k \in 1 .. Len(t.rows) - 1 /\ k \in 1 .. Len(t.rows) /\ k + 1 \in 1 .. Len(t.rows) /\ k \in Nat
      BY <1>1, <1>2
    <2>2. rows[k] \in Range(rows)
      BY <1>2, InRange
    <2>3. rows[k] \in D
      BY <1>3, <1>8, <2>2 DEF D
    <2>4. PICK place : place = t.m_variableMap[rows[k]]
      OBVIOUS
    <2>5. map[rows[k]] = IF place > index THEN place - 1 ELSE place
      BY <2>3, <2>4 DEF map
    <2>6. CASE k < index
      <3>1. rows[k] = t.rows[k]
        BY <1>2, <2>1, <2>6
      <3>2. place = k
        BY <2>1, <2>4, <3>1 DEF Placed
      <3> QED BY <1>1, <2>1, <2>5, <2>6, <3>2
    <2>7. CASE ~(k < index)
      <3>1. rows[k] = t.rows[k + 1]
        BY <1>2, <2>1, <2>7
      <3>2. place = k + 1
        BY <2>1, <2>4, <3>1 DEF Placed
      <3> QED BY <1>1, <2>1, <2>5, <2>7, <3>2
    <2> QED BY <2>6, <2>7
  <1>10. Placed(u)
    BY <1>4, <1>7, <1>8, <1>9 DEF Placed
  <1> QED BY <1>5, <1>7, <1>8, <1>10

\* What variableDestroyed makes of a table.
Follows(left, t, gone) ==
    left = [n \in 0 .. Len(t.rows) |->
              IF n = 0 THEN t
              ELSE IF t.rows[n] \in gone THEN Views!removeVariable(left[n - 1], t.rows[n])
                                         ELSE left[n - 1]]

\* A table with some of the rows of another one.
PartOf(u, t) ==
    /\ Placed(u) /\ DOMAIN u.m_logValues = Range(u.rows) /\ Range(u.rows) \subseteq Range(t.rows)
    /\ \A w \in Range(u.rows) : u.m_logValues[w] = t.m_logValues[w]
    /\ u.wired = t.wired /\ u.m_logEnabled = t.m_logEnabled

LEMMA RemoveStays ==
    ASSUME NEW t \in Tables, NEW u \in Tables, PartOf(u, t), NEW v
    PROVE  /\ Views!removeVariable(u, v) \in Tables /\ PartOf(Views!removeVariable(u, v), t)
           /\ Range(Views!removeVariable(u, v).rows) = Range(u.rows) \ {v}
  <1>1. CASE v \in Range(u.rows)
    <2>1. PICK x : x = Views!removeVariable(u, v)
      OBVIOUS
    <2>2. /\ x \in Tables /\ Placed(x) /\ Range(x.rows) = Range(u.rows) \ {v}
          /\ DOMAIN x.m_logValues = Range(x.rows)
          /\ \A w \in Range(x.rows) : x.m_logValues[w] = u.m_logValues[w]
          /\ x.wired = u.wired /\ x.m_logEnabled = u.m_logEnabled
      <3>1. Placed(u) /\ DOMAIN u.m_logValues = Range(u.rows)
        BY Zenon DEF PartOf
      <3> QED BY <1>1, <2>1, <3>1, RemoveKeeps
    <2>3. PartOf(x, t)
      BY <2>2 DEF PartOf
    <2> QED BY <2>1, <2>2, <2>3
  <1>2. CASE v \notin Range(u.rows)
    <2>1. v \notin DOMAIN u.m_variableMap
      BY <1>2 DEF PartOf, Placed
    <2>2. Views!removeVariable(u, v) = u
      BY <2>1, Zenon DEF Views!removeVariable
    <2> QED BY <1>2, <2>2
  <1> QED BY <1>1, <1>2

LEMMA FollowsExists ==
    ASSUME NEW t \in Tables, PartOf(t, t), NEW gone
    PROVE  \E left : Follows(left, t, gone)
  <1> DEFINE R == {u \in Tables : PartOf(u, t)}
             step == [n \in 1 .. Len(t.rows) |->
                        [u \in R |-> IF t.rows[n] \in gone THEN Views!removeVariable(u, t.rows[n])
                                                           ELSE u]]
  <1>1. \A n \in 1 .. Len(t.rows) : \A u \in R :
           (IF t.rows[n] \in gone THEN Views!removeVariable(u, t.rows[n]) ELSE u) \in R
    BY RemoveStays
  <1>2. step \in [1 .. Len(t.rows) -> [R -> R]] /\ t \in R /\ Len(t.rows) \in Nat
    BY <1>1, TableParts
  <1>3. PICK left \in [0 .. Len(t.rows) -> R] : Iterates(left, t, step, Len(t.rows))
    <2> HIDE DEF step, R
    <2> QED BY <1>2, Recursion, Zenon
  <1>4. ASSUME NEW n \in 0 .. Len(t.rows)
        PROVE  (IF n = 0 THEN t ELSE step[n][left[n - 1]])
                 = (IF n = 0 THEN t
                    ELSE IF t.rows[n] \in gone THEN Views!removeVariable(left[n - 1], t.rows[n])
                                               ELSE left[n - 1])
    <2>1. CASE n = 0
      BY <2>1
    <2>2. CASE n # 0
      <3>1. n \in 1 .. Len(t.rows) /\ n - 1 \in 0 .. Len(t.rows)
        BY <1>2, <2>2
      <3>2. left[n - 1] \in R
        <4> HIDE DEF R
        <4> QED BY <1>3, <3>1
      <3>3. step[n][left[n - 1]] = IF t.rows[n] \in gone
                                   THEN Views!removeVariable(left[n - 1], t.rows[n]) ELSE left[n - 1]
        <4> HIDE DEF R
        <4> QED BY <3>1, <3>2, Zenon
      <3> QED BY <2>2, <3>3, Zenon
    <2> QED BY <2>1, <2>2
  <1>5. Follows(left, t, gone)
    <2> HIDE DEF step
    <2> QED BY <1>3, <1>4, Zenon DEF Iterates, Follows
  <1> QED BY <1>5

\* A table whose variables are destroyed keeps the rows of the others.
LEMMA DestroyedKeeps ==
    ASSUME NEW t \in Tables, PartOf(t, t), NEW gone, NEW u, u = Views!variableDestroyed(t, gone)
    PROVE  /\ u \in Tables /\ Placed(u) /\ Range(u.rows) = Range(t.rows) \ gone
           /\ DOMAIN u.m_logValues = Range(u.rows)
           /\ \A w \in Range(u.rows) : u.m_logValues[w] = t.m_logValues[w]
           /\ DOMAIN u.wired = DOMAIN t.wired \ gone
           /\ \A w \in DOMAIN u.wired : u.wired[w] = t.wired[w]
  <1> DEFINE chosen == CHOOSE left : Follows(left, t, gone)
  <1>1. PICK left : left = chosen
    OBVIOUS
  <1>2. Follows(left, t, gone)
    BY <1>1, FollowsExists, Zenon
  <1>3. PICK final : final = left[Len(t.rows)]
    OBVIOUS
  <1>4. u = Views!Table(final.rows, final.m_variableMap, final.m_logValues,
                        Views!Without(final.wired, gone), final.m_logEnabled)
    BY <1>1, <1>3, Zenon DEF Views!variableDestroyed, Follows
  <1>5. t.rows \in Seq(AllVariables) /\ Len(t.rows) \in Nat
    BY TableParts
  <1> DEFINE Out(n) == {t.rows[k] : k \in {l \in 1 .. n : t.rows[l] \in gone}}
             T == {n \in Nat : n <= Len(t.rows) =>
                     left[n] \in Tables /\ PartOf(left[n], t)
                     /\ Range(left[n].rows) = Range(t.rows) \ Out(n)}
  <1>6. 0 \in T
    <2>1. left[0] = t
      BY <1>2, <1>5 DEF Follows
    <2>2. Out(0) = {}
      OBVIOUS
    <2> QED BY <2>1, <2>2
  <1>7. ASSUME NEW n \in Nat, n \in T
        PROVE  n + 1 \in T
    <2> SUFFICES ASSUME n + 1 <= Len(t.rows)
                 PROVE  /\ left[n + 1] \in Tables /\ PartOf(left[n + 1], t)
                        /\ Range(left[n + 1].rows) = Range(t.rows) \ Out(n + 1)
      OBVIOUS
    <2>1. left[n] \in Tables /\ PartOf(left[n], t) /\ Range(left[n].rows) = Range(t.rows) \ Out(n)
      BY <1>7, <1>5
    <2>2. PICK v : v = t.rows[n + 1]
      OBVIOUS
    <2>3. left[n + 1] = IF v \in gone THEN Views!removeVariable(left[n], v) ELSE left[n]
      <3>1. n + 1 \in 0 .. Len(t.rows) /\ n + 1 # 0 /\ (n + 1) - 1 = n
        BY <1>5
      <3> QED BY <1>2, <2>2, <3>1, Zenon DEF Follows
    <2>4. Out(n + 1) = IF v \in gone THEN Out(n) \cup {v} ELSE Out(n)
      <3>1. 1 .. n + 1 = (1 .. n) \cup {n + 1}
        OBVIOUS
      <3> QED BY <2>2, <3>1
    <2> HIDE DEF Out
    <2>5. CASE v \in gone
      <3>1. PICK x : x = left[n]
        OBVIOUS
      <3>2. /\ Views!removeVariable(x, v) \in Tables /\ PartOf(Views!removeVariable(x, v), t)
            /\ Range(Views!removeVariable(x, v).rows) = Range(x.rows) \ {v}
        BY <2>1, <3>1, RemoveStays
      <3> QED BY <2>1, <2>3, <2>4, <2>5, <3>1, <3>2
    <2>6. CASE v \notin gone
      BY <2>1, <2>3, <2>4, <2>6
    <2> QED BY <2>5, <2>6
  <1>8. Len(t.rows) \in T
    <2> HIDE DEF T
    <2> QED BY <1>5, <1>6, <1>7, NatSetInduction
  <1>9. Out(Len(t.rows)) = Range(t.rows) \cap gone
    <2>1. \A x : x \in Range(t.rows) <=> \E k \in 1 .. Len(t.rows) : t.rows[k] = x
      BY <1>5, InRange
    <2> QED BY <2>1
  <1>10. final \in Tables /\ PartOf(final, t) /\ Range(final.rows) = Range(t.rows) \ gone
    <2> HIDE DEF Out
    <2> QED BY <1>3, <1>5, <1>8, <1>9
  <1>11. PICK rows, map, logs, wired, enabled :
            /\ rows = final.rows /\ map = final.m_variableMap /\ logs = final.m_logValues
            /\ wired = Views!Without(final.wired, gone) /\ enabled = final.m_logEnabled
    OBVIOUS
  <1>12. /\ rows \in Seq(AllVariables) /\ map \in Maps(Nat) /\ logs \in Maps(Nat)
         /\ final.wired \in Maps(Nat) /\ enabled \in BOOLEAN
    BY <1>10, <1>11, TableParts
  <1>13. /\ wired \in Maps(Nat) /\ DOMAIN wired = DOMAIN t.wired \ gone
         /\ \A w \in DOMAIN wired : wired[w] = t.wired[w]
    <2>1. PICK f \in Maps(Nat) : f = final.wired
      BY <1>12
    <2>2. f = t.wired
      BY <1>10, <2>1 DEF PartOf
    <2>3. /\ Views!Without(f, gone) \in Maps(Nat) /\ DOMAIN Views!Without(f, gone) = DOMAIN f \ gone
          /\ \A w \in DOMAIN f \ gone : Views!Without(f, gone)[w] = f[w]
      BY WithoutIs, ZenonT(40)
    <2> QED BY <1>11, <2>1, <2>2, <2>3
  <1>14. /\ u \in Tables /\ u.rows = rows /\ u.m_variableMap = map /\ u.m_logValues = logs
         /\ u.wired = wired
    <2>1. u = Views!Table(rows, map, logs, wired, enabled)
      BY <1>4, <1>11
    <2>2. PICK newTable : newTable = Views!Table(rows, map, logs, wired, enabled)
      OBVIOUS
    <2>3. /\ newTable \in Tables /\ newTable.rows = rows /\ newTable.m_variableMap = map
          /\ newTable.m_logValues = logs /\ newTable.wired = wired
      BY <1>12, <1>13, <2>2, TableIs
    <2> QED BY <2>1, <2>2, <2>3
  <1>15. Placed(u)
    <2>1. /\ DOMAIN final.m_variableMap = Range(final.rows)
          /\ \A k \in 1 .. Len(final.rows) : final.m_variableMap[final.rows[k]] = k
      BY <1>10, Zenon DEF PartOf, Placed
    <2> QED BY <1>11, <1>14, <2>1, Zenon DEF Placed
  <1>16. /\ Range(u.rows) = Range(t.rows) \ gone /\ DOMAIN u.m_logValues = Range(u.rows)
         /\ \A w \in Range(u.rows) : u.m_logValues[w] = t.m_logValues[w]
    BY <1>10, <1>11, <1>14, Zenon DEF PartOf
  <1> QED BY <1>13, <1>14, <1>15, <1>16, Zenon

\* A log has what the row saw, unless the variable is connected more than once.
Logged(t, s) ==
    /\ t \in Tables /\ PartOf(t, t) /\ s \in Maps(Counts) /\ DOMAIN s = Range(t.rows)
    /\ \A v \in Range(t.rows) :
         v \in DOMAIN t.wired /\ (s[v] >= 0 => t.m_logValues[v] = s[v] /\ t.wired[v] = 1)

LEMMA AddKeeps ==
    ASSUME NEW t, NEW s, Logged(t, s), NEW v \in AllVariables, v \notin DOMAIN t.m_variableMap
    PROVE  /\ Logged(Views!addVariable(t, v),
                     Views!With(s, v, IF v \in DOMAIN t.wired THEN -1 ELSE 0))
           /\ Range(Views!addVariable(t, v).rows) = Range(t.rows) \cup {v}
  <1>1. t \in Tables /\ Placed(t) /\ s \in Maps(Counts) /\ DOMAIN s = Range(t.rows)
    BY DEF Logged, PartOf
  <1>2. /\ t.rows \in Seq(AllVariables) /\ Len(t.rows) \in Nat /\ t.m_variableMap \in Maps(Nat)
        /\ t.m_logValues \in Maps(Nat) /\ t.wired \in Maps(Nat) /\ t.m_logEnabled \in BOOLEAN
    BY <1>1, TableParts
  <1>3. v \notin Range(t.rows) /\ DOMAIN t.m_variableMap = Range(t.rows)
    BY <1>1 DEF Placed
  <1>4. PICK times \in Nat : times = 1 + IF v \in DOMAIN t.wired THEN t.wired[v] ELSE 0
    BY <1>2, MapOf
  <1>5. PICK place \in Nat : place = Len(t.rows) + 1
    BY <1>2
  <1>6. PICK map \in Maps(Nat) :
           /\ map = Views!With(t.m_variableMap, v, place) /\ DOMAIN map = DOMAIN t.m_variableMap \cup {v}
           /\ map[v] = place /\ \A w \in DOMAIN t.m_variableMap : w # v => map[w] = t.m_variableMap[w]
    <2>1. PICK f \in Maps(Nat) : f = t.m_variableMap
      BY <1>2
    <2>2. Views!With(f, v, place) \in Maps(Nat)
      BY WithIs
    <2>3. /\ DOMAIN Views!With(f, v, place) = DOMAIN f \cup {v}
          /\ Views!With(f, v, place)[v] = place
          /\ \A w \in DOMAIN f : w # v => Views!With(f, v, place)[w] = f[w]
      BY DEF Views!With
    <2> QED BY <2>1, <2>2, <2>3
  <1>7. PICK logs \in Maps(Nat) :
           /\ logs = Views!With(t.m_logValues, v, 0) /\ DOMAIN logs = DOMAIN t.m_logValues \cup {v}
           /\ logs[v] = 0 /\ \A w \in DOMAIN t.m_logValues : w # v => logs[w] = t.m_logValues[w]
    <2>1. PICK f \in Maps(Nat), zero \in Nat : f = t.m_logValues /\ zero = 0
      BY <1>2
    <2>2. Views!With(f, v, zero) \in Maps(Nat)
      BY WithIs
    <2>3. /\ DOMAIN Views!With(f, v, zero) = DOMAIN f \cup {v}
          /\ Views!With(f, v, zero)[v] = zero
          /\ \A w \in DOMAIN f : w # v => Views!With(f, v, zero)[w] = f[w]
      BY DEF Views!With
    <2> QED BY <2>1, <2>2, <2>3
  <1>8. PICK wired \in Maps(Nat) :
           /\ wired = Views!With(t.wired, v, times) /\ DOMAIN wired = DOMAIN t.wired \cup {v}
           /\ wired[v] = times /\ \A w \in DOMAIN t.wired : w # v => wired[w] = t.wired[w]
    <2>1. PICK f \in Maps(Nat) : f = t.wired
      BY <1>2
    <2>2. Views!With(f, v, times) \in Maps(Nat)
      BY WithIs
    <2>3. /\ DOMAIN Views!With(f, v, times) = DOMAIN f \cup {v}
          /\ Views!With(f, v, times)[v] = times
          /\ \A w \in DOMAIN f : w # v => Views!With(f, v, times)[w] = f[w]
      BY DEF Views!With
    <2> QED BY <2>1, <2>2, <2>3
  <1>9. PICK first \in Counts : first = IF v \in DOMAIN t.wired THEN -1 ELSE 0
    BY DEF Counts
  <1>10. PICK saw \in Maps(Counts) :
           /\ saw = Views!With(s, v, first) /\ DOMAIN saw = DOMAIN s \cup {v}
           /\ saw[v] = first /\ \A w \in DOMAIN s : w # v => saw[w] = s[w]
    <2>1. PICK f \in Maps(Counts) : f = s
      BY <1>1
    <2>2. Views!With(f, v, first) \in Maps(Counts)
      BY WithIs
    <2>3. /\ DOMAIN Views!With(f, v, first) = DOMAIN f \cup {v}
          /\ Views!With(f, v, first)[v] = first
          /\ \A w \in DOMAIN f : w # v => Views!With(f, v, first)[w] = f[w]
      BY DEF Views!With
    <2> QED BY <2>1, <2>2, <2>3
  <1>11. PICK rows \in Seq(AllVariables) :
            /\ rows = Append(t.rows, v) /\ Len(rows) = place /\ rows[place] = v
            /\ \A k \in 1 .. Len(t.rows) : rows[k] = t.rows[k]
            /\ Range(rows) = Range(t.rows) \cup {v}
    <2>1. PICK r \in Seq(AllVariables) : r = t.rows
      BY <1>2
    <2>2. /\ Append(r, v) \in Seq(AllVariables) /\ Len(Append(r, v)) = Len(r) + 1
          /\ Append(r, v)[Len(r) + 1] = v /\ \A k \in 1 .. Len(r) : Append(r, v)[k] = r[k]
      <3> HIDE DEF AllVariables
      <3> QED OBVIOUS
    <2>3. Range(Append(r, v)) = Range(r) \cup {v}
      BY RangeAppend
    <2> QED BY <1>5, <2>1, <2>2, <2>3
  <1>20. PICK enabled \in BOOLEAN : enabled = t.m_logEnabled
    BY <1>2
  <1>12. PICK u : u = Views!addVariable(t, v)
    OBVIOUS
  <1>13. /\ u \in Tables /\ u.rows = rows /\ u.m_variableMap = map /\ u.m_logValues = logs
         /\ u.wired = wired /\ u.m_logEnabled = enabled
    <2>1. u = Views!Table(rows, map, logs, wired, enabled)
      BY <1>4, <1>5, <1>6, <1>7, <1>8, <1>11, <1>12, <1>20, Zenon DEF Views!addVariable
    <2> QED BY <2>1, TableIs
  <1>14. Placed(u)
    <2>1. \A k \in 1 .. Len(rows) : k = place \/ k \in 1 .. Len(t.rows)
      BY <1>2, <1>5, <1>11
    <2>2. ASSUME NEW k \in 1 .. Len(t.rows)
          PROVE  map[t.rows[k]] = k
      <3>1. t.rows[k] \in Range(t.rows)
        BY <1>2, InRange
      <3> QED BY <1>1, <1>3, <1>6, <3>1 DEF Placed
    <2>3. DOMAIN map = Range(rows)
      BY <1>3, <1>6, <1>11
    <2>4. ASSUME NEW k \in 1 .. Len(rows)
          PROVE  map[rows[k]] = k
      <3>1. CASE k = place
        BY <1>6, <1>11, <3>1
      <3>2. CASE k \in 1 .. Len(t.rows)
        BY <1>11, <2>2, <3>2
      <3> QED BY <2>1, <3>1, <3>2
    <2> QED BY <1>13, <2>3, <2>4 DEF Placed
  <1>15. DOMAIN logs = Range(rows)
    BY <1>7, <1>11 DEF Logged, PartOf
  <1>16. PartOf(u, u)
    BY <1>13, <1>14, <1>15 DEF PartOf
  <1>17. ASSUME NEW w \in Range(rows)
         PROVE  w \in DOMAIN wired /\ (saw[w] >= 0 => logs[w] = saw[w] /\ wired[w] = 1)
    <2>1. CASE w = v
      BY <1>4, <1>7, <1>8, <1>9, <1>10, <2>1
    <2>2. CASE w # v
      <3>1. /\ w \in Range(t.rows) /\ w \in DOMAIN t.wired /\ w \in DOMAIN t.m_logValues /\ w \in DOMAIN s
            /\ s[w] >= 0 => t.m_logValues[w] = s[w] /\ t.wired[w] = 1
        BY <1>11, <2>2 DEF Logged, PartOf
      <3> QED BY <1>7, <1>8, <1>10, <2>2, <3>1
    <2> QED BY <2>1, <2>2
  <1>18. DOMAIN saw = Range(rows)
    BY <1>1, <1>10, <1>11
  <1>19. Logged(u, saw)
    BY <1>13, <1>16, <1>17, <1>18 DEF Logged
  <1> QED BY <1>9, <1>10, <1>11, <1>12, <1>13, <1>19

\* A row is deleted by the user.
LEMMA RemovedLogged ==
    ASSUME NEW t, NEW s, Logged(t, s), NEW v \in Range(t.rows)
    PROVE  /\ Logged(Views!removeVariable(t, v), Views!Without(s, {v}))
           /\ Range(Views!removeVariable(t, v).rows) \subseteq Range(t.rows)
  <1>1. t \in Tables /\ PartOf(t, t) /\ DOMAIN s = Range(t.rows)
    BY DEF Logged
  <1>2. PICK u : u = Views!removeVariable(t, v)
    OBVIOUS
  <1>3. u \in Tables /\ PartOf(u, t) /\ Range(u.rows) = Range(t.rows) \ {v}
    BY <1>1, <1>2, RemoveStays, Zenon
  <1>4. PICK g : g = {v}
    OBVIOUS
  <1>5. PICK f \in Maps(Counts) : f = s
    BY DEF Logged
  <1>6. /\ Views!Without(f, g) \in Maps(Counts) /\ DOMAIN Views!Without(f, g) = DOMAIN f \ g
        /\ \A w \in DOMAIN f \ g : Views!Without(f, g)[w] = f[w]
    BY WithoutIs, ZenonT(40)
  <1>7. PICK saw \in Maps(Counts) :
          /\ saw = Views!Without(s, {v}) /\ DOMAIN saw = Range(u.rows)
          /\ \A w \in Range(u.rows) : saw[w] = s[w]
    BY <1>1, <1>3, <1>4, <1>5, <1>6
  <1>8. PartOf(u, u)
    BY <1>3 DEF PartOf
  <1>9. ASSUME NEW w \in Range(u.rows)
        PROVE  w \in DOMAIN u.wired /\ (saw[w] >= 0 => u.m_logValues[w] = saw[w] /\ u.wired[w] = 1)
    BY <1>3, <1>7 DEF PartOf, Logged
  <1>10. Logged(u, saw)
    BY <1>3, <1>7, <1>8, <1>9 DEF Logged
  <1> QED BY <1>2, <1>3, <1>7, <1>10

\* Variables are destroyed.
LEMMA DestroyedLogged ==
    ASSUME NEW t, NEW s, Logged(t, s), NEW gone
    PROVE  /\ Logged(Views!variableDestroyed(t, gone), Views!Without(s, gone))
           /\ Range(Views!variableDestroyed(t, gone).rows) = Range(t.rows) \ gone
  <1>1. t \in Tables /\ PartOf(t, t) /\ DOMAIN s = Range(t.rows)
    BY DEF Logged
  <1>2. PICK u : u = Views!variableDestroyed(t, gone)
    OBVIOUS
  <1>3. /\ u \in Tables /\ Placed(u) /\ Range(u.rows) = Range(t.rows) \ gone
        /\ DOMAIN u.m_logValues = Range(u.rows)
        /\ \A w \in Range(u.rows) : u.m_logValues[w] = t.m_logValues[w]
        /\ DOMAIN u.wired = DOMAIN t.wired \ gone
        /\ \A w \in DOMAIN u.wired : u.wired[w] = t.wired[w]
    BY <1>1, <1>2, DestroyedKeeps
  <1>4. PICK f \in Maps(Counts) : f = s
    BY DEF Logged
  <1>5. /\ Views!Without(f, gone) \in Maps(Counts) /\ DOMAIN Views!Without(f, gone) = DOMAIN f \ gone
        /\ \A w \in DOMAIN f \ gone : Views!Without(f, gone)[w] = f[w]
    BY WithoutIs
  <1>6. PICK saw \in Maps(Counts) :
          /\ saw = Views!Without(s, gone) /\ DOMAIN saw = Range(u.rows)
          /\ \A w \in Range(u.rows) : saw[w] = s[w]
    BY <1>1, <1>3, <1>4, <1>5
  <1>7. PartOf(u, u)
    BY <1>3 DEF PartOf
  <1>8. ASSUME NEW w \in Range(u.rows)
        PROVE  w \in DOMAIN u.wired /\ (saw[w] >= 0 => u.m_logValues[w] = saw[w] /\ u.wired[w] = 1)
    <2>1. w \in Range(t.rows) /\ w \notin gone
      BY <1>3
    <2>2. w \in DOMAIN t.wired /\ (s[w] >= 0 => t.m_logValues[w] = s[w] /\ t.wired[w] = 1)
      BY <2>1 DEF Logged
    <2>3. w \in DOMAIN u.wired
      BY <1>3, <2>1, <2>2
    <2> QED BY <1>3, <1>6, <2>2, <2>3
  <1>9. Logged(u, saw)
    BY <1>3, <1>6, <1>7, <1>8 DEF Logged
  <1> QED BY <1>2, <1>3, <1>6, <1>9

\* A value is logged.
LEMMA ValueLogged ==
    ASSUME NEW t, NEW s, Logged(t, s), NEW v \in DOMAIN t.m_variableMap, t.m_logEnabled = TRUE
    PROVE  /\ Logged(Views!variableValueChanged(t, v),
                     IF s[v] >= 0 THEN Views!With(s, v, s[v] + 1) ELSE s)
           /\ Views!variableValueChanged(t, v).rows = t.rows
  <1>1. /\ t \in Tables /\ PartOf(t, t) /\ s \in Maps(Counts) /\ DOMAIN s = Range(t.rows)
        /\ v \in Range(t.rows)
    BY DEF Logged, PartOf, Placed
  <1>2. /\ t.rows \in Seq(AllVariables) /\ t.m_variableMap \in Maps(Nat)
        /\ t.m_logValues \in Maps(Nat) /\ t.wired \in Maps(Nat) /\ t.m_logEnabled \in BOOLEAN
    BY <1>1, TableParts
  <1>3. /\ v \in AllVariables /\ v \in DOMAIN t.m_logValues /\ v \in DOMAIN t.wired /\ s[v] \in Counts
        /\ t.m_logValues[v] \in Nat /\ t.wired[v] \in Nat
    BY <1>1, <1>2, MapOf DEF Logged, PartOf
  <1>4. PICK y \in Nat : y = t.m_logValues[v] + t.wired[v]
    BY <1>3
  <1>5. PICK logs \in Maps(Nat) :
          /\ logs = Views!With(t.m_logValues, v, y) /\ DOMAIN logs = DOMAIN t.m_logValues
          /\ logs[v] = y /\ \A w \in DOMAIN t.m_logValues : w # v => logs[w] = t.m_logValues[w]
    <2>1. PICK f \in Maps(Nat) : f = t.m_logValues
      BY <1>2
    <2>2. Views!With(f, v, y) \in Maps(Nat)
      BY <1>3, WithIs
    <2>3. /\ DOMAIN Views!With(f, v, y) = DOMAIN f \cup {v} /\ Views!With(f, v, y)[v] = y
          /\ \A w \in DOMAIN f : w # v => Views!With(f, v, y)[w] = f[w]
      BY DEF Views!With
    <2> QED BY <1>3, <2>1, <2>2, <2>3
  <1>6. PICK saw \in Maps(Counts) :
          /\ saw = IF s[v] >= 0 THEN Views!With(s, v, s[v] + 1) ELSE s
          /\ DOMAIN saw = DOMAIN s /\ saw[v] = IF s[v] >= 0 THEN s[v] + 1 ELSE s[v]
          /\ \A w \in DOMAIN s : w # v => saw[w] = s[w]
    <2>1. CASE s[v] >= 0
      <3>1. PICK f \in Maps(Counts), z \in Counts : f = s /\ z = s[v] + 1
        BY <1>1, <1>3, <2>1 DEF Counts
      <3>2. Views!With(f, v, z) \in Maps(Counts)
        BY <1>3, WithIs
      <3>3. /\ DOMAIN Views!With(f, v, z) = DOMAIN f \cup {v} /\ Views!With(f, v, z)[v] = z
            /\ \A w \in DOMAIN f : w # v => Views!With(f, v, z)[w] = f[w]
        BY DEF Views!With
      <3> QED BY <1>1, <2>1, <3>1, <3>2, <3>3
    <2>2. CASE ~(s[v] >= 0)
      BY <1>1, <2>2
    <2> QED BY <2>1, <2>2
  <1>7. PICK u : u = Views!variableValueChanged(t, v)
    OBVIOUS
  <1>8. u = Views!Table(t.rows, t.m_variableMap, logs, t.wired, t.m_logEnabled)
    <2>1. u = [t EXCEPT !.m_logValues = logs]
      BY <1>4, <1>5, <1>7 DEF Views!variableValueChanged
    <2> HIDE DEF Maps, AllVariables
    <2> QED BY <1>1, <2>1 DEF Tables, Views!Table
  <1>9. /\ u \in Tables /\ u.rows = t.rows /\ u.m_variableMap = t.m_variableMap
        /\ u.m_logValues = logs /\ u.wired = t.wired /\ u.m_logEnabled = t.m_logEnabled
    <2>1. PICK rows \in Seq(AllVariables), map \in Maps(Nat), wired \in Maps(Nat), enabled \in BOOLEAN :
             rows = t.rows /\ map = t.m_variableMap /\ wired = t.wired /\ enabled = t.m_logEnabled
      BY <1>2
    <2>2. u = Views!Table(rows, map, logs, wired, enabled)
      BY <1>8, <2>1
    <2> QED BY <2>1, <2>2, TableIs
  <1>10. PartOf(u, u)
    BY <1>1, <1>5, <1>9 DEF PartOf, Placed
  <1>11. ASSUME NEW w \in Range(t.rows)
         PROVE  w \in DOMAIN t.wired /\ (saw[w] >= 0 => logs[w] = saw[w] /\ t.wired[w] = 1)
    <2>1. /\ w \in DOMAIN t.wired /\ w \in DOMAIN t.m_logValues
          /\ s[w] >= 0 => t.m_logValues[w] = s[w] /\ t.wired[w] = 1
      BY <1>1 DEF Logged, PartOf
    <2>2. CASE w = v
      BY <1>3, <1>4, <1>5, <1>6, <2>1, <2>2 DEF Counts
    <2>3. CASE w # v
      BY <1>1, <1>5, <1>6, <2>1, <2>3
    <2> QED BY <2>2, <2>3
  <1>12. Logged(u, saw)
    BY <1>1, <1>6, <1>9, <1>10, <1>11 DEF Logged
  <1> QED BY <1>6, <1>7, <1>9, <1>12

\* The logs are cleared.
LEMMA ClearLogged ==
    ASSUME NEW t, NEW s, Logged(t, s)
    PROVE  LET u == [t EXCEPT !.m_logValues = [v \in DOMAIN @ |-> 0]]
           IN  /\ Logged(u, [v \in DOMAIN s |-> IF s[v] = -1 THEN -1 ELSE 0])
               /\ u.rows = t.rows
  <1>1. /\ t \in Tables /\ PartOf(t, t) /\ s \in Maps(Counts) /\ DOMAIN s = Range(t.rows)
        /\ DOMAIN t.m_logValues = Range(t.rows)
    BY DEF Logged, PartOf
  <1>2. /\ t.rows \in Seq(AllVariables) /\ t.m_variableMap \in Maps(Nat)
        /\ t.m_logValues \in Maps(Nat) /\ t.wired \in Maps(Nat) /\ t.m_logEnabled \in BOOLEAN
    BY <1>1, TableParts
  <1>3. PICK D \in SUBSET AllVariables : D = Range(t.rows)
    BY <1>2, InRange
  <1>4. PICK logs \in Maps(Nat) : logs = [v \in D |-> 0]
    <2>1. PICK f : f = [v \in D |-> 0]
      OBVIOUS
    <2>2. f \in [D -> Nat]
      BY <2>1
    <2>3. f \in Maps(Nat)
      BY <2>2, MapIs
    <2> QED BY <2>1, <2>3
  <1>5. PICK saw \in Maps(Counts) : saw = [v \in D |-> IF s[v] = -1 THEN -1 ELSE 0]
    <2>1. PICK f : f = [v \in D |-> IF s[v] = -1 THEN -1 ELSE 0]
      OBVIOUS
    <2>2. f \in [D -> Counts]
      BY <2>1 DEF Counts
    <2>3. f \in Maps(Counts)
      BY <2>2, MapIs
    <2> QED BY <2>1, <2>3
  <1>6. PICK u : u = [t EXCEPT !.m_logValues = logs]
    OBVIOUS
  <1>8. u = Views!Table(t.rows, t.m_variableMap, logs, t.wired, t.m_logEnabled)
    <2> HIDE DEF Maps, AllVariables
    <2> QED BY <1>1, <1>6 DEF Tables, Views!Table
  <1>9. /\ u \in Tables /\ u.rows = t.rows /\ u.m_variableMap = t.m_variableMap
        /\ u.m_logValues = logs /\ u.wired = t.wired /\ u.m_logEnabled = t.m_logEnabled
    <2>1. PICK rows \in Seq(AllVariables), map \in Maps(Nat), wired \in Maps(Nat), enabled \in BOOLEAN :
             rows = t.rows /\ map = t.m_variableMap /\ wired = t.wired /\ enabled = t.m_logEnabled
      BY <1>2
    <2>2. u = Views!Table(rows, map, logs, wired, enabled)
      BY <1>8, <2>1
    <2> QED BY <2>1, <2>2, TableIs
  <1>10. PartOf(u, u)
    BY <1>1, <1>3, <1>4, <1>9 DEF PartOf, Placed
  <1>11. ASSUME NEW w \in Range(t.rows)
         PROVE  w \in DOMAIN t.wired /\ (saw[w] >= 0 => logs[w] = saw[w] /\ t.wired[w] = 1)
    <2>1. /\ w \in DOMAIN t.wired /\ s[w] \in Counts
          /\ s[w] >= 0 => t.m_logValues[w] = s[w] /\ t.wired[w] = 1
      BY <1>1, MapOf DEF Logged
    <2>2. saw[w] = (IF s[w] = -1 THEN -1 ELSE 0) /\ logs[w] = 0
      BY <1>3, <1>4, <1>5
    <2> QED BY <2>1, <2>2 DEF Counts
  <1>12. DOMAIN saw = Range(t.rows)
    BY <1>3, <1>5
  <1>13. Logged(u, saw)
    BY <1>9, <1>10, <1>11, <1>12 DEF Logged
  <1> QED BY <1>1, <1>3, <1>4, <1>5, <1>6, <1>9, <1>13

\* Nothing else of the table is in the logs.
LEMMA EnabledLogged ==
    ASSUME NEW t, NEW s, Logged(t, s), NEW state \in BOOLEAN
    PROVE  LET u == [t EXCEPT !.m_logEnabled = state]
           IN  Logged(u, s) /\ u.rows = t.rows
  <1>1. t \in Tables
    BY DEF Logged
  <1>2. /\ t.rows \in Seq(AllVariables) /\ t.m_variableMap \in Maps(Nat)
        /\ t.m_logValues \in Maps(Nat) /\ t.wired \in Maps(Nat)
    BY <1>1, TableParts
  <1>3. PICK u : u = [t EXCEPT !.m_logEnabled = state]
    OBVIOUS
  <1>4. /\ u \in Tables /\ u.rows = t.rows /\ u.m_variableMap = t.m_variableMap
        /\ u.m_logValues = t.m_logValues /\ u.wired = t.wired
    <2> HIDE DEF Maps, AllVariables
    <2> QED BY <1>1, <1>3 DEF Tables
  <1>5. Logged(u, s)
    BY <1>4 DEF Logged, PartOf, Placed
  <1> QED BY <1>3, <1>4, <1>5

-----------------------------------------------------------------------------
(* The modules, their items and the plugins.                               *)

Known == [device : ShownDevices, active : BOOLEAN, variables : SUBSET Slots]

\* Views!ModulesAgree and Views!CrossWhenSilent with the types, and with what an
\* interface that is not there keeps: nothing.
ModulesInv ==
    /\ DOMAIN modules \subseteq Addresses /\ modules \in [DOMAIN modules -> Known]
    /\ items \in [DOMAIN modules -> BOOLEAN]
    /\ \A a \in DOMAIN modules : items[a] <=> ~modules[a].active
    /\ engine = DOMAIN modules /\ windows \subseteq DOMAIN modules
    /\ m_interfaceManagerList \subseteq Managers /\ heard = m_interfaceManagerList
    /\ listed \in [Managers -> SUBSET DOMAIN modules]
    /\ \A mgr \in Managers \ m_interfaceManagerList : listed[mgr] = {}
    /\ \A mgr \in Managers : \A a \in listed[mgr] : ~Views!IsPseudo(modules[a].device)
    /\ \A a \in DOMAIN modules :
         Views!IsPseudo(modules[a].device) \/ \E mgr \in m_interfaceManagerList : a \in listed[mgr]
    /\ \A mgr1, mgr2 \in Managers : \A a \in listed[mgr1] : a \in listed[mgr2] => mgr1 = mgr2

\* What the views show is there.
ShowInv ==
    /\ m_scopeView \in [open : BOOLEAN, curves : Seq(AllVariables), dying : SUBSET AllVariables]
    /\ posted \in Seq(AllVariables)
    /\ Logged(table, seen)
    /\ Range(m_scopeView.curves) \subseteq Views!Living
    /\ Range(posted) \subseteq Views!Living
    /\ Range(table.rows) \subseteq Views!Living
    /\ sliders \subseteq Views!Living

LEMMA WithAt ==
    ASSUME NEW f, NEW key, NEW value
    PROVE  /\ DOMAIN Views!With(f, key, value) = DOMAIN f \cup {key}
           /\ Views!With(f, key, value) = [k \in DOMAIN f \cup {key} |-> IF k = key THEN value ELSE f[k]]
  BY DEF Views!With

LEMMA WithoutAt ==
    ASSUME NEW f, NEW gone
    PROVE  /\ DOMAIN Views!Without(f, gone) = DOMAIN f \ gone
           /\ Views!Without(f, gone) = [k \in DOMAIN f \ gone |-> f[k]]
  BY DEF Views!Without, Views!Restrict

LEMMA VariablesAre ==
    ASSUME NEW mods, NEW these
    PROVE  \A x : x \in Views!VariablesOf(mods, these)
                    <=> \E a \in these : \E slot \in mods[a].variables : x = <<a, slot>>
  BY DEF Views!VariablesOf

LEMMA LivingAre ==
    ASSUME ModulesInv
    PROVE  /\ \A x : x \in Views!Living
                       <=> \E a \in DOMAIN modules : \E slot \in modules[a].variables : x = <<a, slot>>
           /\ Views!Living \subseteq AllVariables
  <1>1. \A x : x \in Views!Living
                 <=> \E a \in DOMAIN modules : \E slot \in modules[a].variables : x = <<a, slot>>
    BY VariablesAre DEF Views!Living
  <1>2. \A a \in DOMAIN modules : a \in Addresses /\ modules[a].variables \subseteq Slots
    BY DEF ModulesInv, Known
  <1> QED BY <1>1, <1>2 DEF AllVariables

\* Nothing that the views show changes, and what is there stays.
LEMMA ShowStays ==
    ASSUME ShowInv, UNCHANGED <<m_scopeView, posted, table, sliders, seen>>,
           Views!Living \subseteq Views!Living'
    PROVE  ShowInv'
  BY DEF ShowInv

\* Variables are destroyed when no event is on its way.
LEMMA ShowGone ==
    ASSUME ShowInv, NEW gone, Views!VariablesGone(gone), posted = <<>>, posted' = posted,
           Views!Living \ gone \subseteq Views!Living'
    PROVE  ShowInv'
  <1>1. PICK curves, rest :
           /\ curves = m_scopeView.curves
           /\ rest = Views!Only(curves, Range(curves) \ gone)
    OBVIOUS
  <1>2. curves \in Seq(AllVariables) /\ Range(curves) \subseteq Views!Living
        /\ m_scopeView.open \in BOOLEAN /\ m_scopeView.dying \in SUBSET AllVariables
    BY <1>1 DEF ShowInv
  <1>3. rest \in Seq(AllVariables) /\ Range(rest) = Range(curves) \ gone
    <2>1. Views!Only(curves, Range(curves) \ gone) = Only(curves, Range(curves) \ gone)
      BY Zenon DEF Views!Only, Only
    <2>2. PICK T : T = Range(curves) \ gone
      OBVIOUS
    <2>3. Only(curves, T) \in Seq(AllVariables) /\ Range(Only(curves, T)) = Range(curves) \cap T
      BY <1>2, OnlyRange
    <2> QED BY <1>1, <2>1, <2>2, <2>3
  <1>4. m_scopeView' = [open |-> m_scopeView.open, curves |-> rest, dying |-> m_scopeView.dying \ gone]
    <2>1. Views!Range(curves) = Range(curves)
      BY DEF Views!Range, Range
    <2>2. m_scopeView' = [open |-> m_scopeView.open,
                          curves |-> Views!Only(curves, Views!Range(curves) \ gone),
                          dying |-> m_scopeView.dying \ gone]
      BY <1>1, Zenon DEF Views!VariablesGone, Views!removeCurve
    <2> QED BY <1>1, <2>1, <2>2, Zenon
  <1>5. /\ Logged(table', seen') /\ Range(table.rows)' = Range(table.rows) \ gone
    <2>1. table' = Views!variableDestroyed(table, gone) /\ seen' = Views!Without(seen, gone)
      BY DEF Views!VariablesGone
    <2> QED BY <2>1, DestroyedLogged DEF ShowInv
  <1>6. sliders' = sliders \ gone
    BY DEF Views!VariablesGone
  <1>7. /\ m_scopeView' \in [open : BOOLEAN, curves : Seq(AllVariables), dying : SUBSET AllVariables]
        /\ m_scopeView'.curves = rest
    <2>1. m_scopeView.dying \ gone \in SUBSET AllVariables
      BY <1>2
    <2> HIDE DEF AllVariables
    <2> QED BY <1>2, <1>3, <1>4, <2>1
  <1>8. Range(m_scopeView.curves)' \subseteq Views!Living'
    BY <1>2, <1>3, <1>7
  <1>9. posted' \in Seq(AllVariables) /\ Range(posted)' \subseteq Views!Living'
    <2>1. posted' \in Seq(AllVariables) /\ posted' = <<>>
      BY DEF ShowInv
    <2>2. Range(posted)' = {}
      BY <2>1, RangeEmpty
    <2> QED BY <2>1, <2>2
  <1>10. Range(table.rows)' \subseteq Views!Living' /\ sliders' \subseteq Views!Living'
    BY <1>5, <1>6 DEF ShowInv
  <1> HIDE DEF AllVariables
  <1> QED BY <1>5, <1>7, <1>8, <1>9, <1>10 DEF ShowInv

\* Modules go, with their items, windows and places in the managers.
LEMMA GoneKeeps ==
    ASSUME ModulesInv, NEW gone,
           modules' = Views!Without(modules, gone), items' = Views!Without(items, gone),
           windows' = windows \ gone, engine' = DOMAIN items',
           listed' = [mgr \in Managers |-> listed[mgr] \ gone],
           m_interfaceManagerList' \subseteq m_interfaceManagerList, heard' = m_interfaceManagerList',
           \A mgr \in m_interfaceManagerList \ m_interfaceManagerList' : listed[mgr] \subseteq gone
    PROVE  /\ ModulesInv'
           /\ Views!Living \ Views!VariablesOf(modules, gone) \subseteq Views!Living'
  <1>1. PICK D : D = DOMAIN modules \ gone
    OBVIOUS
  <1>2. /\ modules' = [a \in D |-> modules[a]] /\ DOMAIN modules' = D
        /\ items' = [a \in D |-> items[a]] /\ DOMAIN items' = D
    <2>1. DOMAIN items = DOMAIN modules
      BY DEF ModulesInv
    <2>2. modules' = [a \in DOMAIN modules \ gone |-> modules[a]]
      BY WithoutAt, Zenon
    <2>3. items' = [a \in DOMAIN items \ gone |-> items[a]]
      BY WithoutAt, Zenon
    <2> QED BY <1>1, <2>1, <2>2, <2>3
  <1>3. D \subseteq DOMAIN modules /\ \A a \in D : modules'[a] = modules[a] /\ items'[a] = items[a]
    BY <1>1, <1>2
  <1>4. D \subseteq Addresses /\ modules' \in [D -> Known] /\ items' \in [D -> BOOLEAN]
    BY <1>2, <1>3 DEF ModulesInv
  <1>5. \A a \in D : items'[a] <=> ~modules'[a].active
    BY <1>3, Zenon DEF ModulesInv
  <1>6. engine' = D /\ windows' \subseteq D
    BY <1>1, <1>2 DEF ModulesInv
  <1>7. listed' \in [Managers -> SUBSET D]
    BY <1>1 DEF ModulesInv
  <1>8. /\ \A mgr \in Managers \ m_interfaceManagerList' : listed'[mgr] = {}
        /\ \A mgr \in Managers : \A a \in listed'[mgr] : a \in listed[mgr] /\ a \in D
    BY <1>1 DEF ModulesInv
  <1>9. \A mgr \in Managers : \A a \in listed'[mgr] : ~Views!IsPseudo(modules'[a].device)
    <2> SUFFICES ASSUME NEW mgr \in Managers, NEW a \in listed'[mgr]
                 PROVE  ~Views!IsPseudo(modules'[a].device)
      OBVIOUS
    <2>1. modules'[a] = modules[a] /\ a \in listed[mgr]
      BY <1>3, <1>8
    <2>2. ~Views!IsPseudo(modules[a].device)
      BY <2>1, Zenon DEF ModulesInv
    <2> QED BY <2>1, <2>2
  <1>10. ASSUME NEW a \in D
         PROVE  \/ Views!IsPseudo(modules'[a].device)
                \/ \E mgr \in m_interfaceManagerList' : a \in listed'[mgr]
    <2>1. a \in DOMAIN modules /\ a \notin gone /\ modules'[a] = modules[a]
      BY <1>1, <1>3
    <2>2. CASE Views!IsPseudo(modules[a].device)
      BY <2>1, <2>2
    <2>3. ASSUME NEW mgr \in m_interfaceManagerList, a \in listed[mgr]
          PROVE  mgr \in m_interfaceManagerList' /\ a \in listed'[mgr]
      BY <2>1, <2>3 DEF ModulesInv
    <2> QED BY <2>1, <2>2, <2>3, Zenon DEF ModulesInv
  <1>11. \A mgr1, mgr2 \in Managers : \A a \in listed'[mgr1] : a \in listed'[mgr2] => mgr1 = mgr2
    BY <1>8, Zenon DEF ModulesInv
  <1>12. ModulesInv'
    <2>1. m_interfaceManagerList' \subseteq Managers
      BY DEF ModulesInv
    <2> HIDE DEF Known
    <2> QED BY <1>2, <1>4, <1>5, <1>6, <1>7, <1>8, <1>9, <1>10, <1>11, <2>1, Zenon DEF ModulesInv
  <1>13. ASSUME NEW x \in Views!Living, x \notin Views!VariablesOf(modules, gone)
         PROVE  x \in Views!Living'
    <2>1. PICK a \in DOMAIN modules : \E slot \in modules[a].variables : x = <<a, slot>>
      BY LivingAre
    <2>2. a \notin gone
      BY <1>13, <2>1, VariablesAre, Zenon
    <2>3. a \in D /\ modules'[a] = modules[a]
      BY <1>1, <1>3, <2>2
    <2>4. \E slot \in modules'[a].variables : x = <<a, slot>>
      BY <2>1, <2>3
    <2>5. PICK mods : mods = modules'
      OBVIOUS
    <2>6. x \in Views!VariablesOf(mods, DOMAIN mods)
      BY <1>2, <2>3, <2>4, <2>5, VariablesAre, Zenon
    <2> QED BY <2>5, <2>6 DEF Views!Living
  <1> QED BY <1>12, <1>13

\* One module is there that was not.
LEMMA NewKeeps ==
    ASSUME ModulesInv, ShowInv, NEW a \in Addresses, NEW device \in ShownDevices,
           NEW active \in BOOLEAN, NEW variables \in SUBSET Slots,
           Views!New(a, device, active, variables),
           \/ /\ active = FALSE /\ Views!IsPseudo(device) /\ listed' = listed
           \/ /\ active = TRUE /\ ~Views!IsPseudo(device)
              /\ \E mgr \in m_interfaceManagerList :
                    listed' = [listed EXCEPT ![mgr] = @ \cup {a}]
    PROVE  ModulesInv' /\ ShowInv'
  <1> USE DEF ModulesInv
  <1>1. PICK m \in Known : m = Views!Module(device, active, variables)
    BY DEF Known, Views!Module
  <1>2. m.device = device /\ m.active = active
    BY <1>1 DEF Views!Module
  <1>3. PICK cross \in BOOLEAN : cross = ~active
    OBVIOUS
  <1>4. PICK D : D = DOMAIN modules \cup {a}
    OBVIOUS
  <1>5. /\ a \notin DOMAIN modules
        /\ modules' = [k \in D |-> IF k = a THEN m ELSE modules[k]] /\ DOMAIN modules' = D
        /\ items' = [k \in D |-> IF k = a THEN cross ELSE items[k]] /\ DOMAIN items' = D
    <2>1. /\ a \notin DOMAIN modules /\ DOMAIN items = DOMAIN modules
          /\ modules' = Views!With(modules, a, m)
      BY <1>1 DEF Views!New
    <2>2. items' = Views!With(items, a, cross)
      BY <1>3, Zenon DEF Views!New
    <2>3. modules' = [k \in DOMAIN modules \cup {a} |-> IF k = a THEN m ELSE modules[k]]
      BY <2>1, Zenon DEF Views!With
    <2>4. items' = [k \in DOMAIN items \cup {a} |-> IF k = a THEN cross ELSE items[k]]
      BY <2>2, Zenon DEF Views!With
    <2> QED BY <1>4, <2>1, <2>3, <2>4
  <1>6. /\ modules'[a] = m /\ \A k \in DOMAIN modules : modules'[k] = modules[k] /\ k # a /\ k \in D
        /\ items'[a] = cross /\ \A k \in DOMAIN modules : items'[k] = items[k]
    BY <1>4, <1>5
  <1>7. D \subseteq Addresses /\ modules' \in [D -> Known] /\ items' \in [D -> BOOLEAN]
    BY <1>4, <1>5
  <1>8. \A k \in D : items'[k] <=> ~modules'[k].active
    <2>1. items'[a] <=> ~modules'[a].active
      BY <1>2, <1>3, <1>6
    <2>2. \A k \in DOMAIN modules : items'[k] <=> ~modules'[k].active
      BY <1>6, Zenon
    <2> QED BY <1>4, <2>1, <2>2
  <1>9. engine' = D /\ windows' \subseteq D /\ heard' = heard
        /\ m_interfaceManagerList' = m_interfaceManagerList
    BY <1>4, <1>5 DEF Views!New, Views!updateEngineVariables
  <1>10. \A mgr \in Managers : a \notin listed[mgr]
    BY <1>5
  <1>11. /\ listed' \in [Managers -> SUBSET D]
         /\ \A mgr \in Managers \ m_interfaceManagerList : listed'[mgr] = {}
         /\ \A mgr \in Managers : listed[mgr] \subseteq listed'[mgr]
         /\ \A mgr \in Managers : \A k \in listed'[mgr] :
               k \in listed[mgr] \/ (k = a /\ ~Views!IsPseudo(device))
         /\ Views!IsPseudo(device) \/ \E mgr \in m_interfaceManagerList : a \in listed'[mgr]
         /\ \A mgr1, mgr2 \in Managers : a \in listed'[mgr1] /\ a \in listed'[mgr2] => mgr1 = mgr2
    <2>1. CASE Views!IsPseudo(device)
      <3>1. listed' = listed
        BY <2>1
      <3>2. listed \in [Managers -> SUBSET D]
        BY <1>4
      <3>3. \A mgr \in Managers \ m_interfaceManagerList : listed[mgr] = {}
        OBVIOUS
      <3>4. listed' \in [Managers -> SUBSET D]
        BY <3>1, <3>2
      <3>5. /\ \A mgr \in Managers \ m_interfaceManagerList : listed'[mgr] = {}
            /\ \A mgr \in Managers : listed[mgr] \subseteq listed'[mgr]
            /\ \A mgr \in Managers : \A k \in listed'[mgr] : k \in listed[mgr]
            /\ \A mgr \in Managers : a \notin listed'[mgr]
        BY <1>10, <3>1, <3>3
      <3> QED BY <2>1, <3>4, <3>5, Zenon
    <2>2. ASSUME NEW mgr \in m_interfaceManagerList, listed' = [listed EXCEPT ![mgr] = @ \cup {a}],
                 ~Views!IsPseudo(device)
          PROVE  <1>11!:
      BY <1>4, <1>10, <2>2
    <2> QED BY <2>1, <2>2
  <1>12. \A mgr \in Managers : \A k \in listed'[mgr] : ~Views!IsPseudo(modules'[k].device)
    <2>1. \A mgr \in Managers : \A k \in listed[mgr] :
             ~Views!IsPseudo(modules[k].device) /\ modules'[k] = modules[k]
      BY <1>6
    <2> QED BY <1>2, <1>6, <1>11, <2>1
  <1>13. \A k \in D : \/ Views!IsPseudo(modules'[k].device)
                      \/ \E mgr \in m_interfaceManagerList : k \in listed'[mgr]
    <2>1. \A k \in DOMAIN modules : \/ Views!IsPseudo(modules'[k].device)
                                    \/ \E mgr \in m_interfaceManagerList : k \in listed'[mgr]
      BY <1>6, <1>11, Zenon
    <2> QED BY <1>2, <1>4, <1>6, <1>11, <2>1
  <1>14. \A mgr1, mgr2 \in Managers : \A k \in listed'[mgr1] : k \in listed'[mgr2] => mgr1 = mgr2
    <2> SUFFICES ASSUME NEW mgr1 \in Managers, NEW mgr2 \in Managers, NEW k \in listed'[mgr1],
                        k \in listed'[mgr2]
                 PROVE  mgr1 = mgr2
      OBVIOUS
    <2>1. CASE k = a
      BY <1>11, <2>1
    <2>2. CASE k # a
      <3>1. k \in listed[mgr1] /\ k \in listed[mgr2]
        BY <1>11, <2>2
      <3> QED BY <3>1
    <2> QED BY <2>1, <2>2
  <1>15. ModulesInv'
    BY <1>5, <1>7, <1>8, <1>9, <1>11, <1>12, <1>13, <1>14, Zenon
  <1>16. Views!Living \subseteq Views!Living'
    <2>1. ASSUME NEW x \in Views!Living
          PROVE  x \in Views!Living'
      <3>1. PICK k \in DOMAIN modules : \E slot \in modules[k].variables : x = <<k, slot>>
        BY LivingAre
      <3>2. PICK mods : mods = modules'
        OBVIOUS
      <3>3. x \in Views!VariablesOf(mods, DOMAIN mods)
        BY <1>5, <1>6, <3>1, <3>2, VariablesAre
      <3> QED BY <3>2, <3>3 DEF Views!Living
    <2> QED BY <2>1
  <1>17. ShowInv'
    BY <1>16, ShowStays DEF Views!New
  <1> QED BY <1>15, <1>17

\* One module is active or silent, or has other variables.
LEMMA ChangedKeeps ==
    ASSUME ModulesInv, NEW a \in DOMAIN modules, NEW m \in Known, m.device = modules[a].device,
           modules' = [modules EXCEPT ![a] = m],
           items' \in [DOMAIN modules -> BOOLEAN], items'[a] <=> ~m.active,
           \A k \in DOMAIN modules : k # a => (items'[k] <=> items[k]),
           UNCHANGED <<m_interfaceManagerList, listed, heard, windows>>, engine' = DOMAIN modules
    PROVE  /\ ModulesInv'
           /\ Views!Living \ Views!VariablesOf(modules, {a}) \subseteq Views!Living'
           /\ modules[a].variables \subseteq m.variables => Views!Living \subseteq Views!Living'
  <1>1. /\ modules' \in [DOMAIN modules -> Known] /\ DOMAIN modules' = DOMAIN modules
        /\ modules'[a] = m /\ \A k \in DOMAIN modules : k # a => modules'[k] = modules[k]
    BY DEF ModulesInv
  <1>2. \A k \in DOMAIN modules : modules'[k].device = modules[k].device
    BY <1>1
  <1>3. \A k \in DOMAIN modules : items'[k] <=> ~modules'[k].active
    <2> SUFFICES ASSUME NEW k \in DOMAIN modules
                 PROVE  items'[k] <=> ~modules'[k].active
      OBVIOUS
    <2>1. CASE k = a
      BY <1>1, <2>1
    <2>2. CASE k # a
      <3>1. (items'[k] <=> items[k]) /\ modules'[k] = modules[k]
        BY <1>1, <2>2, Zenon
      <3>2. items[k] <=> ~modules[k].active
        BY DEF ModulesInv
      <3> QED BY <3>1, <3>2, Zenon
    <2> QED BY <2>1, <2>2
  <1>4. /\ \A mgr \in Managers : \A k \in listed[mgr] : ~Views!IsPseudo(modules'[k].device)
        /\ \A k \in DOMAIN modules :
             Views!IsPseudo(modules'[k].device) \/ \E mgr \in m_interfaceManagerList : k \in listed[mgr]
    <2>1. ASSUME NEW mgr \in Managers, NEW k \in listed[mgr]
          PROVE  ~Views!IsPseudo(modules'[k].device)
      <3>1. k \in DOMAIN modules
        BY DEF ModulesInv
      <3>2. ~Views!IsPseudo(modules[k].device)
        BY DEF ModulesInv
      <3> QED BY <1>2, <3>1, <3>2
    <2>2. ASSUME NEW k \in DOMAIN modules
          PROVE  \/ Views!IsPseudo(modules'[k].device)
                 \/ \E mgr \in m_interfaceManagerList : k \in listed[mgr]
      BY <1>2, Zenon DEF ModulesInv
    <2> QED BY <2>1, <2>2, Zenon
  <1>5. ModulesInv'
    <2> HIDE DEF Known
    <2>1. /\ m_interfaceManagerList' = m_interfaceManagerList /\ listed' = listed
          /\ heard' = heard /\ windows' = windows /\ DOMAIN items' = DOMAIN modules
      OBVIOUS
    <2> QED BY <1>1, <1>3, <1>4, <2>1 DEF ModulesInv
  <1>6. PICK mods : mods = modules'
    OBVIOUS
  <1>7. \A x : x \in Views!Living'
                 <=> \E k \in DOMAIN modules : \E slot \in mods[k].variables : x = <<k, slot>>
    <2>1. Views!Living' = Views!VariablesOf(mods, DOMAIN modules)
      BY <1>1, <1>6 DEF Views!Living
    <2>2. \A x : x \in Views!VariablesOf(mods, DOMAIN modules)
                   <=> \E k \in DOMAIN modules : \E slot \in mods[k].variables : x = <<k, slot>>
      BY VariablesAre
    <2> QED BY <2>1, <2>2
  <1>8. ASSUME NEW x \in Views!Living, x \notin Views!VariablesOf(modules, {a})
        PROVE  x \in Views!Living'
    <2>1. PICK k \in DOMAIN modules : \E slot \in modules[k].variables : x = <<k, slot>>
      BY LivingAre
    <2>2. PICK these : these = {a}
      OBVIOUS
    <2>3. k \notin these
      BY <1>8, <2>1, <2>2, VariablesAre, Zenon
    <2> QED BY <1>1, <1>6, <1>7, <2>1, <2>2, <2>3
  <1>9. ASSUME modules[a].variables \subseteq m.variables, NEW x \in Views!Living
        PROVE  x \in Views!Living'
    <2>1. PICK k \in DOMAIN modules : \E slot \in modules[k].variables : x = <<k, slot>>
      BY LivingAre
    <2> QED BY <1>1, <1>6, <1>7, <1>9, <2>1
  <1> QED BY <1>5, <1>8, <1>9

ViewsInv == ModulesInv /\ ShowInv

\* Nothing that says which modules and variables are there changes.
LEMMA ModulesStay ==
    ASSUME ModulesInv, UNCHANGED <<m_interfaceManagerList, listed, modules, items, engine, heard>>,
           windows' \subseteq DOMAIN modules
    PROVE  ModulesInv' /\ Views!Living' = Views!Living
  BY DEF ModulesInv, Views!Living

\* What a user can point at is there.
LEMMA PointedLives ==
    ASSUME ViewsInv, NEW v \in Views!Pointed
    PROVE  v \in Views!Living /\ v \in AllVariables
  <1>1. ASSUME NEW these, these \subseteq DOMAIN modules, v \in Views!VariablesOf(modules, these)
        PROVE  v \in Views!Living
    <2>1. PICK a \in these : \E slot \in modules[a].variables : v = <<a, slot>>
      BY <1>1, VariablesAre
    <2> QED BY <1>1, <2>1, LivingAre DEF ViewsInv
  <1>2. windows \subseteq DOMAIN modules /\ DOMAIN items = DOMAIN modules
        /\ Range(table.rows) \subseteq Views!Living /\ Views!Range(table.rows) = Range(table.rows)
    BY DEF ViewsInv, ModulesInv, ShowInv, Views!Range, Range
  <1>3. v \in Views!Living
    BY <1>1, <1>2 DEF Views!Pointed
  <1> QED BY <1>3, LivingAre DEF ViewsInv

\* Interfaces come and go, with their modules.
LEMMA InterfacesKeep ==
    ASSUME ViewsInv, NEW mgr \in Managers,
           Views!addNETVInterfaceManager(mgr) \/ Views!removeNETVInterfaceManager(mgr)
    PROVE  ViewsInv'
  <1>1. CASE Views!addNETVInterfaceManager(mgr)
    <2>1. ModulesInv' /\ Views!Living' = Views!Living
      BY <1>1 DEF Views!addNETVInterfaceManager, ViewsInv, ModulesInv, Views!Living
    <2>2. ShowInv'
      BY <1>1, <2>1, ShowStays DEF Views!addNETVInterfaceManager, ViewsInv
    <2> QED BY <2>1, <2>2 DEF ViewsInv
  <1>2. CASE Views!removeNETVInterfaceManager(mgr)
    <2>1. PICK gone : gone = listed[mgr]
      OBVIOUS
    <2>2. /\ modules' = Views!Without(modules, gone) /\ items' = Views!Without(items, gone)
          /\ windows' = windows \ gone /\ engine' = DOMAIN items'
          /\ m_interfaceManagerList' = m_interfaceManagerList \ {mgr}
          /\ heard' = heard \ {mgr} /\ posted = <<>> /\ posted' = posted
          /\ listed' = [listed EXCEPT ![mgr] = {}]
          /\ Views!VariablesGone(Views!VariablesOf(modules, gone))
      BY <1>2, <2>1 DEF Views!removeNETVInterfaceManager, Views!Deleted, Views!updateEngineVariables,
                        Views!Idle
    <2>3. listed' = [m \in Managers |-> listed[m] \ gone]
      <3>1. listed \in [Managers -> SUBSET DOMAIN modules]
        BY DEF ViewsInv, ModulesInv
      <3>2. ASSUME NEW m \in Managers, m # mgr
            PROVE  listed[m] \ gone = listed[m]
        BY <2>1, <3>2 DEF ViewsInv, ModulesInv
      <3> QED BY <2>1, <2>2, <3>1, <3>2
    <2>4. /\ ModulesInv'
          /\ Views!Living \ Views!VariablesOf(modules, gone) \subseteq Views!Living'
      <3>1. ModulesInv
        BY DEF ViewsInv
      <3>2. heard' = m_interfaceManagerList' /\ m_interfaceManagerList' \subseteq m_interfaceManagerList
        BY <2>2 DEF ViewsInv, ModulesInv
      <3>3. \A m \in m_interfaceManagerList \ m_interfaceManagerList' : listed[m] \subseteq gone
        BY <2>1, <2>2
      <3> QED BY <2>2, <2>3, <3>1, <3>2, <3>3, GoneKeeps
    <2>5. PICK lost : lost = Views!VariablesOf(modules, gone)
      OBVIOUS
    <2>6. ShowInv'
      BY <2>2, <2>4, <2>5, ShowGone DEF ViewsInv
    <2> QED BY <2>4, <2>6 DEF ViewsInv
  <1> QED BY <1>1, <1>2

\* A module comes, of an interface or of a script.
LEMMA AddedKeep ==
    ASSUME ViewsInv, NEW a \in Addresses, NEW device \in ShownDevices,
           \/ \E mgr \in Managers, variables \in SUBSET Slots :
                 Views!addModule(mgr, a, device, variables)
           \/ Views!createPseudoModule(a, device)
    PROVE  ViewsInv'
  <1>1. ASSUME NEW mgr \in Managers, NEW variables \in SUBSET Slots,
               Views!addModule(mgr, a, device, variables)
        PROVE  ViewsInv'
    <2>1. /\ Views!New(a, device, TRUE, variables) /\ ~Views!IsPseudo(device)
          /\ mgr \in m_interfaceManagerList /\ listed' = [listed EXCEPT ![mgr] = @ \cup {a}]
      BY <1>1 DEF Views!addModule
    <2>2. PICK active \in BOOLEAN : active = TRUE
      OBVIOUS
    <2> QED BY <2>1, <2>2, NewKeeps DEF ViewsInv
  <1>2. CASE Views!createPseudoModule(a, device)
    <2>1. Views!New(a, device, FALSE, {}) /\ Views!IsPseudo(device) /\ listed' = listed
      BY <1>2 DEF Views!createPseudoModule
    <2>2. PICK active \in BOOLEAN, variables \in SUBSET Slots : active = FALSE /\ variables = {}
      OBVIOUS
    <2> QED BY <2>1, <2>2, NewKeeps DEF ViewsInv
  <1> QED BY <1>1, <1>2

\* The user removes a module that does not answer.
LEMMA RemovedKeep ==
    ASSUME ViewsInv, NEW a \in DOMAIN items, Views!removeModule(a)
    PROVE  ViewsInv'
  <1>1. PICK gone : gone = {a}
    OBVIOUS
  <1>2. /\ modules' = Views!Without(modules, gone) /\ items' = Views!Without(items, gone)
        /\ windows' = windows \ gone /\ engine' = DOMAIN items'
        /\ m_interfaceManagerList' = m_interfaceManagerList
        /\ heard' = heard /\ posted = <<>> /\ posted' = posted
        /\ listed' = [mgr \in Managers |->
                         IF mgr \in m_interfaceManagerList /\ ~Views!IsPseudo(modules[a].device)
                         THEN listed[mgr] \ gone ELSE listed[mgr]]
        /\ Views!VariablesGone(Views!VariablesOf(modules, gone))
    BY <1>1 DEF Views!removeModule, Views!Deleted, Views!updateEngineVariables, Views!Idle
  <1>3. listed' = [mgr \in Managers |-> listed[mgr] \ gone]
    <2>1. ASSUME NEW mgr \in Managers,
                 ~(mgr \in m_interfaceManagerList /\ ~Views!IsPseudo(modules[a].device))
          PROVE  listed[mgr] = listed[mgr] \ gone
      <3>1. a \notin listed[mgr]
        <4>1. CASE mgr \notin m_interfaceManagerList
          BY <4>1 DEF ViewsInv, ModulesInv
        <4>2. CASE Views!IsPseudo(modules[a].device)
          BY <4>2 DEF ViewsInv, ModulesInv
        <4> QED BY <2>1, <4>1, <4>2
      <3> QED BY <1>1, <3>1
    <2> QED BY <1>2, <2>1
  <1>4. /\ ModulesInv'
        /\ Views!Living \ Views!VariablesOf(modules, gone) \subseteq Views!Living'
    <2>1. ModulesInv
      BY DEF ViewsInv
    <2>2. heard' = m_interfaceManagerList' /\ m_interfaceManagerList' \subseteq m_interfaceManagerList
          /\ m_interfaceManagerList \ m_interfaceManagerList' = {}
      BY <1>2 DEF ViewsInv, ModulesInv
    <2> QED BY <1>2, <1>3, <2>1, <2>2, GoneKeeps
  <1>5. ShowInv'
    BY <1>2, <1>4, ShowGone DEF ViewsInv
  <1> QED BY <1>4, <1>5 DEF ViewsInv

\* A module answers again or falls silent.
LEMMA ActiveKeeps ==
    ASSUME ViewsInv, NEW mgr \in Managers, NEW a \in listed[mgr],
           Views!moduleActive(a, ~modules[a].active)
    PROVE  ViewsInv'
  <1>1. a \in DOMAIN modules
    BY DEF ViewsInv, ModulesInv
  <1>2. PICK active \in BOOLEAN : active = ~modules[a].active
    OBVIOUS
  <1>3. Views!moduleActive(a, active)
    BY <1>2
  <1>4. /\ modules[a].device \in ShownDevices /\ modules[a].variables \in SUBSET Slots
        /\ DOMAIN items = DOMAIN modules /\ items \in [DOMAIN modules -> BOOLEAN]
    BY <1>1 DEF ViewsInv, ModulesInv, Known
  <1>5. PICK m \in Known : m = Views!Module(modules[a].device, active, modules[a].variables)
    BY <1>4 DEF Known, Views!Module
  <1>6. m.device = modules[a].device /\ m.active = active /\ m.variables = modules[a].variables
    BY <1>5 DEF Views!Module
  <1>7. PICK cross \in BOOLEAN : cross = ~active
    OBVIOUS
  <1>8. modules' = [modules EXCEPT ![a] = m] /\ items' = [items EXCEPT ![a] = cross]
        /\ UNCHANGED <<m_interfaceManagerList, listed, Views!plugins>>
    BY <1>3, <1>5, <1>7 DEF Views!moduleActive
  <1>9. /\ items' \in [DOMAIN modules -> BOOLEAN] /\ (items'[a] <=> ~m.active)
        /\ \A k \in DOMAIN modules : k # a => (items'[k] <=> items[k])
    BY <1>1, <1>4, <1>6, <1>7, <1>8
  <1>10. ModulesInv' /\ Views!Living \subseteq Views!Living'
    <2>1. ModulesInv /\ engine' = DOMAIN modules
          /\ UNCHANGED <<m_interfaceManagerList, listed, heard, windows>>
      BY <1>8 DEF ViewsInv, ModulesInv, Views!plugins
    <2>2. modules[a].variables \subseteq m.variables
      BY <1>6
    <2> QED BY <1>1, <1>6, <1>8, <1>9, <2>1, <2>2, ChangedKeeps
  <1>11. ShowInv'
    BY <1>8, <1>10, ShowStays DEF ViewsInv, Views!plugins
  <1> QED BY <1>10, <1>11 DEF ViewsInv

\* A module gets one more variable.
LEMMA VariableKeeps ==
    ASSUME ViewsInv, NEW a \in DOMAIN modules, NEW slot \in Slots, Views!AddVariable(a, slot),
           engine' = engine \/ engine' = DOMAIN items'
    PROVE  ViewsInv'
  <1>1. /\ modules[a].device \in ShownDevices /\ modules[a].variables \in SUBSET Slots
        /\ modules[a].active \in BOOLEAN /\ (items[a] <=> ~modules[a].active)
        /\ DOMAIN items = DOMAIN modules /\ items \in [DOMAIN modules -> BOOLEAN]
        /\ engine = DOMAIN modules /\ ModulesInv /\ ShowInv
    BY DEF ViewsInv, ModulesInv, Known
  <1>2. PICK m \in Known :
          m = Views!Module(modules[a].device, modules[a].active, modules[a].variables \cup {slot})
    BY <1>1 DEF Known, Views!Module
  <1>3. /\ m.device = modules[a].device /\ m.active = modules[a].active
        /\ modules[a].variables \subseteq m.variables
    BY <1>2 DEF Views!Module
  <1>4. /\ modules' = [modules EXCEPT ![a] = m] /\ items' = items
        /\ UNCHANGED <<m_interfaceManagerList, listed, heard, windows, m_scopeView, posted, table,
                       sliders, seen>>
    BY <1>2 DEF Views!AddVariable
  <1>5. engine' = DOMAIN modules
    BY <1>1, <1>4
  <1>6. /\ items' \in [DOMAIN modules -> BOOLEAN] /\ (items'[a] <=> ~m.active)
        /\ \A k \in DOMAIN modules : k # a => (items'[k] <=> items[k])
    BY <1>1, <1>3, <1>4
  <1>7. ModulesInv' /\ Views!Living \subseteq Views!Living'
    BY <1>1, <1>3, <1>4, <1>5, <1>6, ChangedKeeps
  <1>8. ShowInv'
    BY <1>1, <1>4, <1>7, ShowStays
  <1> QED BY <1>7, <1>8 DEF ViewsInv

\* A module gets the variables of a file for its own.
LEMMA LoadKeeps ==
    ASSUME ViewsInv, NEW a \in DOMAIN modules, NEW variables \in SUBSET Slots,
           Views!loadConfiguration(a, variables)
    PROVE  ViewsInv'
  <1>1. /\ modules[a].device \in ShownDevices
        /\ modules[a].active \in BOOLEAN /\ (items[a] <=> ~modules[a].active)
        /\ DOMAIN items = DOMAIN modules /\ items \in [DOMAIN modules -> BOOLEAN]
        /\ engine = DOMAIN modules /\ ModulesInv /\ ShowInv
    BY DEF ViewsInv, ModulesInv, Known
  <1>2. PICK m \in Known : m = Views!Module(modules[a].device, modules[a].active, variables)
    BY <1>1 DEF Known, Views!Module
  <1>3. m.device = modules[a].device /\ m.active = modules[a].active
    BY <1>2 DEF Views!Module
  <1>4. PICK lost : lost = Views!VariablesOf(modules, {a})
    OBVIOUS
  <1>5. /\ modules' = [modules EXCEPT ![a] = m] /\ items' = items
        /\ UNCHANGED <<m_interfaceManagerList, listed, heard, windows>> /\ engine' = DOMAIN modules
        /\ posted = <<>> /\ posted' = posted /\ Views!VariablesGone(lost)
    BY <1>1, <1>2, <1>4 DEF Views!loadConfiguration, Views!Idle
  <1>6. /\ items' \in [DOMAIN modules -> BOOLEAN] /\ (items'[a] <=> ~m.active)
        /\ \A k \in DOMAIN modules : k # a => (items'[k] <=> items[k])
    BY <1>1, <1>3, <1>5
  <1>7. ModulesInv' /\ Views!Living \ lost \subseteq Views!Living'
    BY <1>1, <1>3, <1>4, <1>5, <1>6, ChangedKeeps
  <1>8. ShowInv'
    BY <1>1, <1>5, <1>7, ShowGone
  <1> QED BY <1>7, <1>8 DEF ViewsInv

\* A step of the logger alone.
LEMMA TableKeeps ==
    ASSUME ViewsInv, Logged(table', seen'), Range(table.rows)' \subseteq Views!Living,
           UNCHANGED <<m_interfaceManagerList, listed, modules, items, engine, heard, windows,
                       m_scopeView, posted, sliders>>
    PROVE  ViewsInv'
  <1>1. ModulesInv' /\ Views!Living' = Views!Living
    BY ModulesStay DEF ViewsInv, ModulesInv
  <1>2. ShowInv'
    BY <1>1 DEF ViewsInv, ShowInv
  <1> QED BY <1>1, <1>2 DEF ViewsInv

\* What happens to the table: values, drops, deletes, the switch and the clearing.
LEMMA LoggerKeeps ==
    ASSUME ViewsInv,
           \/ \E v \in Views!Living : Views!ValueChanged(v)
           \/ \E v \in Views!Pointed : Views!dropEvent(v)
           \/ \E v \in Range(table.rows) : Views!keyPressEvent(v)
           \/ \E state \in BOOLEAN : Views!setLogging(state)
           \/ Views!clearLogs
    PROVE  ViewsInv'
  <1>1. Logged(table, seen) /\ Range(table.rows) \subseteq Views!Living
    BY DEF ViewsInv, ShowInv
  <1>2. ASSUME NEW v \in Views!Living, Views!ValueChanged(v)
        PROVE  ViewsInv'
    <2>1. UNCHANGED <<m_interfaceManagerList, listed, modules, items, engine, heard, windows,
                      m_scopeView, posted, sliders>>
      BY <1>2 DEF Views!ValueChanged, Views!core
    <2>2. CASE v \in DOMAIN table.m_variableMap /\ table.m_logEnabled
      <3>1. /\ table' = Views!variableValueChanged(table, v)
            /\ seen' = IF seen[v] >= 0 THEN Views!With(seen, v, seen[v] + 1) ELSE seen
        BY <1>2, <2>2 DEF Views!ValueChanged
      <3>2. table.m_logEnabled = TRUE
        BY <2>2
      <3>3. Logged(table', seen') /\ table'.rows = table.rows
        BY <1>1, <2>2, <3>1, <3>2, ValueLogged
      <3> QED BY <1>1, <2>1, <3>3, TableKeeps
    <2>3. CASE ~(v \in DOMAIN table.m_variableMap /\ table.m_logEnabled)
      <3>1. table' = table /\ seen' = seen
        BY <1>2, <2>3, Zenon DEF Views!ValueChanged, Views!variableValueChanged
      <3> QED BY <1>1, <2>1, <3>1, TableKeeps
    <2> QED BY <2>2, <2>3
  <1>3. ASSUME NEW v \in Views!Pointed, Views!dropEvent(v)
        PROVE  ViewsInv'
    <2>1. /\ UNCHANGED <<m_interfaceManagerList, listed, modules, items, engine, heard, windows,
                         m_scopeView, posted, sliders>>
          /\ table' = Views!addVariable(table, v)
      BY <1>3 DEF Views!dropEvent, Views!core
    <2>2. v \in Views!Living /\ v \in AllVariables
      BY PointedLives
    <2>3. CASE v \in DOMAIN table.m_variableMap
      <3>1. table' = table /\ seen' = seen
        BY <1>3, <2>3, Zenon DEF Views!dropEvent, Views!addVariable
      <3> QED BY <1>1, <2>1, <3>1, TableKeeps
    <2>4. CASE v \notin DOMAIN table.m_variableMap
      <3>1. seen' = Views!With(seen, v, IF v \in DOMAIN table.wired THEN -1 ELSE 0)
        BY <1>3, <2>4 DEF Views!dropEvent
      <3>2. Logged(table', seen') /\ Range(table.rows)' = Range(table.rows) \cup {v}
        BY <1>1, <2>1, <2>2, <2>4, <3>1, AddKeeps
      <3> QED BY <1>1, <2>1, <2>2, <3>2, TableKeeps
    <2> QED BY <2>3, <2>4
  <1>4. ASSUME NEW v \in Range(table.rows), Views!keyPressEvent(v)
        PROVE  ViewsInv'
    <2>1. /\ UNCHANGED <<m_interfaceManagerList, listed, modules, items, engine, heard, windows,
                         m_scopeView, posted, sliders>>
          /\ table' = Views!removeVariable(table, v) /\ seen' = Views!Without(seen, {v})
      BY <1>4 DEF Views!keyPressEvent, Views!core
    <2>2. Logged(table', seen') /\ Range(table.rows)' \subseteq Range(table.rows)
      BY <1>1, <2>1, RemovedLogged
    <2> QED BY <1>1, <2>1, <2>2, TableKeeps
  <1>5. ASSUME NEW state \in BOOLEAN, Views!setLogging(state)
        PROVE  ViewsInv'
    <2>1. /\ UNCHANGED <<m_interfaceManagerList, listed, modules, items, engine, heard, windows,
                         m_scopeView, posted, sliders>>
          /\ table' = [table EXCEPT !.m_logEnabled = state] /\ seen' = seen
      BY <1>5 DEF Views!setLogging, Views!core
    <2>2. Logged(table', seen') /\ table'.rows = table.rows
      BY <1>1, <2>1, EnabledLogged
    <2> QED BY <1>1, <2>1, <2>2, TableKeeps
  <1>6. CASE Views!clearLogs
    <2>1. /\ UNCHANGED <<m_interfaceManagerList, listed, modules, items, engine, heard, windows,
                         m_scopeView, posted, sliders>>
          /\ table' = [table EXCEPT !.m_logValues = [v \in DOMAIN @ |-> 0]]
          /\ seen' = [v \in DOMAIN seen |-> IF seen[v] = -1 THEN -1 ELSE 0]
      BY <1>6 DEF Views!clearLogs, Views!core
    <2>2. Logged(table', seen') /\ table'.rows = table.rows
      BY <1>1, <2>1, ClearLogged
    <2> QED BY <1>1, <2>1, <2>2, TableKeeps
  <1> QED BY <1>2, <1>3, <1>4, <1>5, <1>6

\* The windows of the configuration are opened and closed.
LEMMA WindowsKeep ==
    ASSUME ViewsInv, NEW a \in DOMAIN modules, Views!moduleDoubleClicked(a) \/ Views!CloseWindow(a)
    PROVE  ViewsInv'
  <1>1. UNCHANGED <<m_interfaceManagerList, listed, modules, items, engine, heard, m_scopeView,
                    posted, table, sliders, seen>>
    BY DEF Views!moduleDoubleClicked, Views!CloseWindow, Views!core
  <1>2. windows' \subseteq windows \cup {a}
    BY DEF Views!moduleDoubleClicked, Views!CloseWindow
  <1>3. windows' \subseteq DOMAIN modules
    BY <1>2 DEF ViewsInv, ModulesInv
  <1>4. ModulesInv' /\ Views!Living' = Views!Living
    BY <1>1, <1>3, ModulesStay DEF ViewsInv
  <1>5. ShowInv'
    BY <1>1, <1>4, ShowStays DEF ViewsInv
  <1> QED BY <1>4, <1>5 DEF ViewsInv

\* A step of the scope and the sliders alone.
LEMMA ScopeStep ==
    ASSUME ViewsInv, NEW curves \in Seq(AllVariables), NEW open \in BOOLEAN,
           NEW dying \in SUBSET AllVariables, Range(curves) \subseteq Views!Living,
           m_scopeView' = [open |-> open, curves |-> curves, dying |-> dying],
           posted' \in Seq(AllVariables), Range(posted)' \subseteq Views!Living,
           sliders' \subseteq Views!Living,
           UNCHANGED <<m_interfaceManagerList, listed, modules, items, engine, heard, windows,
                       table, seen>>
    PROVE  ViewsInv'
  <1>1. ModulesInv' /\ Views!Living' = Views!Living
    BY ModulesStay DEF ViewsInv, ModulesInv
  <1>2. /\ m_scopeView' \in [open : BOOLEAN, curves : Seq(AllVariables), dying : SUBSET AllVariables]
        /\ m_scopeView'.curves = curves
    <2> HIDE DEF AllVariables
    <2> QED OBVIOUS
  <1>3. ShowInv'
    BY <1>1, <1>2 DEF ViewsInv, ShowInv
  <1> QED BY <1>1, <1>3 DEF ViewsInv

\* What happens to the curves of the scope, to the events for it and to sliders.
LEMMA ScopeKeeps ==
    ASSUME ViewsInv,
           \/ \E v \in Views!Pointed : Views!scopeRequest(v) \/ Views!addSliderControl(v)
           \/ Views!Deliver
           \/ \E v \in Range(m_scopeView.curves) : Views!removeVariableClicked(v)
           \/ \E v \in m_scopeView.dying : Views!destroyCurve(v)
           \/ Views!scopeDestroyed
           \/ \E v \in sliders : Views!CloseSlider(v)
    PROVE  ViewsInv'
  <1>1. PICK curves \in Seq(AllVariables), open \in BOOLEAN, dying \in SUBSET AllVariables :
           curves = m_scopeView.curves /\ open = m_scopeView.open /\ dying = m_scopeView.dying
    <2> HIDE DEF AllVariables
    <2> QED BY DEF ViewsInv, ShowInv
  <1>2. /\ m_scopeView = [open |-> open, curves |-> curves, dying |-> dying]
        /\ Range(curves) \subseteq Views!Living /\ Range(curves) \subseteq AllVariables
        /\ posted \in Seq(AllVariables) /\ Range(posted) \subseteq Views!Living
        /\ sliders \subseteq Views!Living
    <2>1. m_scopeView \in [open : BOOLEAN, curves : Seq(AllVariables), dying : SUBSET AllVariables]
      BY DEF ViewsInv, ShowInv
    <2>2. m_scopeView = [open |-> open, curves |-> curves, dying |-> dying]
      <3> HIDE DEF AllVariables
      <3> QED BY <1>1, <2>1
    <2>3. Range(curves) \subseteq AllVariables
      BY InRange
    <2> QED BY <1>1, <2>2, <2>3 DEF ViewsInv, ShowInv
  <1>3. ASSUME NEW v \in Views!Pointed, Views!scopeRequest(v)
        PROVE  ViewsInv'
    <2>1. v \in Views!Living /\ v \in AllVariables
      BY PointedLives
    <2>2. /\ UNCHANGED <<m_interfaceManagerList, listed, modules, items, engine, heard, windows,
                         table, sliders, seen>>
          /\ posted' = Append(posted, v) /\ m_scopeView' = [m_scopeView EXCEPT !.open = TRUE]
      BY <1>3 DEF Views!scopeRequest, Views!core
    <2>3. PICK shown \in BOOLEAN : shown = TRUE
      OBVIOUS
    <2>4. m_scopeView' = [open |-> shown, curves |-> curves, dying |-> dying]
      BY <1>2, <2>2, <2>3
    <2>5. posted' \in Seq(AllVariables) /\ Range(posted)' = Range(posted) \cup {v}
      <3>1. Range(Append(posted, v)) = Range(posted) \cup {v}
        BY <1>2, <2>1, RangeAppend
      <3> HIDE DEF AllVariables
      <3> QED BY <1>2, <2>1, <2>2, <3>1
    <2>6. Range(posted)' \subseteq Views!Living /\ sliders' \subseteq Views!Living
      BY <1>2, <2>1, <2>2, <2>5
    <2> QED BY <1>2, <2>2, <2>4, <2>5, <2>6, ScopeStep
  <1>4. CASE Views!Deliver
    <2>1. /\ UNCHANGED <<m_interfaceManagerList, listed, modules, items, engine, heard, windows,
                         table, sliders, seen>>
          /\ posted # <<>> /\ posted' = Tail(posted)
          /\ m_scopeView' = Views!addCurve(m_scopeView, Head(posted))
      BY <1>4 DEF Views!Deliver, Views!core
    <2>2. PICK v : v = Head(posted)
      OBVIOUS
    <2>3. /\ v \in AllVariables /\ posted' \in Seq(AllVariables)
          /\ Range(posted) = {v} \cup Range(posted)'
      BY <1>2, <2>1, <2>2, HeadAndTail
    <2>4. PICK new \in Seq(AllVariables) :
             new = (IF v \in Range(curves) THEN curves ELSE Append(curves, v))
      <3> HIDE DEF AllVariables
      <3>1. Append(curves, v) \in Seq(AllVariables)
        BY <2>3
      <3> QED BY <3>1
    <2>5. Range(new) \subseteq Views!Living
      <3>1. Range(Append(curves, v)) = Range(curves) \cup {v}
        BY <2>3, RangeAppend
      <3> QED BY <1>2, <2>3, <2>4, <3>1
    <2>6. m_scopeView' = [open |-> open, curves |-> new, dying |-> dying]
      <3>1. Views!Range(m_scopeView.curves) = Range(curves)
        BY <1>1 DEF Views!Range, Range
      <3>2. m_scopeView' = IF v \in Range(curves) THEN m_scopeView
                           ELSE [m_scopeView EXCEPT !.curves = Append(@, v)]
        BY <2>1, <2>2, <3>1, Zenon DEF Views!addCurve
      <3> QED BY <1>2, <2>4, <3>2
    <2>7. Range(posted)' \subseteq Views!Living /\ sliders' \subseteq Views!Living
      BY <1>2, <2>1, <2>3
    <2> QED BY <2>1, <2>3, <2>5, <2>6, <2>7, ScopeStep
  <1>5. ASSUME NEW v \in Range(m_scopeView.curves), Views!removeVariableClicked(v)
        PROVE  ViewsInv'
    <2>1. /\ UNCHANGED <<m_interfaceManagerList, listed, modules, items, engine, heard, windows,
                         table, sliders, seen, posted>>
          /\ m_scopeView' = [m_scopeView EXCEPT !.dying = {v}]
      BY <1>5 DEF Views!removeVariableClicked, Views!core
    <2>2. PICK new \in SUBSET AllVariables : new = {v}
      BY <1>1, <1>2
    <2>3. m_scopeView' = [open |-> open, curves |-> curves, dying |-> new]
      BY <1>2, <2>1, <2>2
    <2>4. posted' \in Seq(AllVariables) /\ Range(posted)' \subseteq Views!Living
          /\ sliders' \subseteq Views!Living
      BY <1>2, <2>1
    <2> QED BY <1>2, <2>1, <2>3, <2>4, ScopeStep
  <1>6. ASSUME NEW v \in m_scopeView.dying, Views!destroyCurve(v)
        PROVE  ViewsInv'
    <2>1. /\ UNCHANGED <<m_interfaceManagerList, listed, modules, items, engine, heard, windows,
                         table, sliders, seen, posted>>
          /\ m_scopeView' = Views!removeCurve(m_scopeView, {v})
      BY <1>6 DEF Views!destroyCurve, Views!core
    <2>2. PICK T : T = Range(curves) \ {v}
      OBVIOUS
    <2>3. PICK new \in Seq(AllVariables) : new = Only(curves, T) /\ Range(new) = Range(curves) \cap T
      BY OnlyRange
    <2>4. PICK rest \in SUBSET AllVariables : rest = dying \ {v}
      OBVIOUS
    <2>5. m_scopeView' = [open |-> open, curves |-> new, dying |-> rest]
      <3>1. Views!Range(curves) = Range(curves)
        BY DEF Views!Range, Range
      <3>2. Views!Only(curves, T) = Only(curves, T)
        BY Zenon DEF Views!Only, Only
      <3>3. m_scopeView' = [open |-> m_scopeView.open,
                            curves |-> Views!Only(curves, Views!Range(curves) \ {v}),
                            dying |-> dying \ {v}]
        BY <1>1, <2>1, Zenon DEF Views!removeCurve
      <3> QED BY <1>1, <2>2, <2>3, <2>4, <3>1, <3>2, <3>3, Zenon
    <2>6. posted' \in Seq(AllVariables) /\ Range(posted)' \subseteq Views!Living
          /\ sliders' \subseteq Views!Living /\ Range(new) \subseteq Views!Living
      BY <1>2, <2>1, <2>3
    <2> QED BY <2>1, <2>5, <2>6, ScopeStep
  <1>7. CASE Views!scopeDestroyed
    <2>1. /\ UNCHANGED <<m_interfaceManagerList, listed, modules, items, engine, heard, windows,
                         table, sliders, seen, posted>>
          /\ m_scopeView' = Views!NoScope
      BY <1>7 DEF Views!scopeDestroyed, Views!core
    <2>2. PICK none \in Seq(AllVariables), shown \in BOOLEAN, new \in SUBSET AllVariables :
             none = <<>> /\ shown = FALSE /\ new = {}
      <3>1. <<>> \in Seq(AllVariables)
        OBVIOUS
      <3> HIDE DEF AllVariables
      <3> QED BY <3>1
    <2>3. Range(none) = {}
      BY <2>2, RangeEmpty
    <2>4. m_scopeView' = [open |-> shown, curves |-> none, dying |-> new]
      BY <2>1, <2>2 DEF Views!NoScope
    <2>5. posted' \in Seq(AllVariables) /\ Range(posted)' \subseteq Views!Living
          /\ sliders' \subseteq Views!Living /\ Range(none) \subseteq Views!Living
      BY <1>2, <2>1, <2>3
    <2> QED BY <2>1, <2>4, <2>5, ScopeStep
  <1>8. ASSUME UNCHANGED <<m_interfaceManagerList, listed, modules, items, engine, heard, windows,
                           m_scopeView, posted, table, seen>>,
               sliders' \subseteq Views!Living
        PROVE  ViewsInv'
    <2>1. m_scopeView' = [open |-> open, curves |-> curves, dying |-> dying]
      BY <1>2, <1>8
    <2>2. posted' \in Seq(AllVariables) /\ Range(posted)' \subseteq Views!Living
      BY <1>2, <1>8
    <2> QED BY <1>2, <1>8, <2>1, <2>2, ScopeStep
  <1>9. ASSUME NEW v \in Views!Pointed, Views!addSliderControl(v)
        PROVE  ViewsInv'
    <2>1. v \in Views!Living
      BY PointedLives
    <2> QED BY <1>2, <1>8, <1>9, <2>1 DEF Views!addSliderControl, Views!core
  <1>10. ASSUME NEW v \in sliders, Views!CloseSlider(v)
         PROVE  ViewsInv'
    BY <1>2, <1>8, <1>10 DEF Views!CloseSlider, Views!core
  <1> QED BY <1>3, <1>4, <1>5, <1>6, <1>7, <1>9, <1>10

\* Whatever happens in the window, the views follow.
LEMMA ViewsInvStep ==
    ASSUME ViewsInv, [Views!Next]_viewVars
    PROVE  ViewsInv'
  <1>1. DOMAIN items = DOMAIN modules /\ windows \subseteq DOMAIN modules
    BY DEF ViewsInv, ModulesInv
  <1>2. CASE UNCHANGED viewVars
    <2>1. UNCHANGED <<m_interfaceManagerList, listed, modules, items, engine, heard, windows,
                      m_scopeView, posted, table, sliders, seen>>
      BY <1>2 DEF viewVars
    <2> QED BY <2>1, TableKeeps DEF ViewsInv, ShowInv
  <1>3. ASSUME NEW a \in DOMAIN items,
               \/ Views!removeModule(a) \/ Views!moduleDoubleClicked(a)
               \/ \E slot \in Slots : Views!createScriptVariable(a, slot)
        PROVE  ViewsInv'
    <2>1. ASSUME NEW slot \in Slots, Views!createScriptVariable(a, slot)
          PROVE  ViewsInv'
      BY <1>1, <2>1, VariableKeeps DEF Views!createScriptVariable, Views!updateEngineVariables
    <2> QED BY <1>1, <1>3, <2>1, RemovedKeep, WindowsKeep
  <1>4. ASSUME NEW a \in windows,
               \/ Views!CloseWindow(a)
               \/ \E slot \in Slots : Views!newVariableClicked(a, slot)
               \/ \E variables \in SUBSET Slots : Views!loadConfiguration(a, variables)
        PROVE  ViewsInv'
    <2>1. ASSUME NEW slot \in Slots, Views!newVariableClicked(a, slot)
          PROVE  ViewsInv'
      BY <1>1, <2>1, VariableKeeps DEF Views!newVariableClicked
    <2> QED BY <1>1, <1>4, <2>1, LoadKeeps, WindowsKeep
  <1>5. \A row : row \in Views!Range(table.rows) <=> row \in Range(table.rows)
    BY DEF Views!Range, Range
  <1>6. \A v : v \in Views!Range(m_scopeView.curves) <=> v \in Range(m_scopeView.curves)
    BY DEF Views!Range, Range
  <1> QED BY <1>2, <1>3, <1>4, <1>5, <1>6, InterfacesKeep, AddedKeep, ActiveKeeps, LoggerKeeps,
             ScopeKeeps DEF Views!Next

LEMMA ViewsInvInit == Views!Init => ViewsInv
  <1> SUFFICES ASSUME Views!Init PROVE ViewsInv
    OBVIOUS
  <1>0. /\ m_interfaceManagerList = {} /\ listed = [mgr \in Managers |-> {}]
        /\ modules = Views!EmptyMap /\ items = Views!EmptyMap /\ engine = {}
        /\ heard = {} /\ windows = {} /\ sliders = {} /\ posted = <<>> /\ seen = Views!EmptyMap
        /\ m_scopeView = [Views!NoScope EXCEPT !.open = TRUE]
        /\ table = Views!Table(<<>>, Views!EmptyMap, Views!EmptyMap, Views!EmptyMap, FALSE)
    BY DEF Views!Init
  <1>1. DOMAIN Views!EmptyMap = {} /\ \A S : Views!EmptyMap \in [{} -> S]
    BY DEF Views!EmptyMap
  <1>2. ModulesInv
    BY <1>0, <1>1 DEF ModulesInv
  <1>3. PICK none \in Seq(AllVariables) : none = <<>>
    <2>1. <<>> \in Seq(AllVariables)
      OBVIOUS
    <2> HIDE DEF AllVariables
    <2> QED BY <2>1
  <1>4. PICK map \in Maps(Nat) : map = Views!EmptyMap
    BY <1>1 DEF Maps
  <1>5. Range(none) = {} /\ DOMAIN none = {} /\ Len(none) = 0
    BY <1>3, RangeEmpty
  <1>6. PICK off \in BOOLEAN : off = FALSE
    OBVIOUS
  <1>7. /\ table \in Tables /\ table.rows = none /\ table.m_variableMap = map
        /\ table.m_logValues = map /\ table.wired = map /\ table.m_logEnabled = off
    <2>1. PICK t : t = table
      OBVIOUS
    <2>2. t = Views!Table(none, map, map, map, off)
      BY <1>0, <1>3, <1>4, <1>6, <2>1
    <2>3. /\ t \in Tables /\ t.rows = none /\ t.m_variableMap = map
          /\ t.m_logValues = map /\ t.wired = map /\ t.m_logEnabled = off
      BY <2>2, TableIs
    <2> QED BY <2>1, <2>3
  <1>8. seen \in Maps(Counts) /\ DOMAIN seen = {}
    BY <1>0, <1>1 DEF Maps
  <1>9. Logged(table, seen)
    <2>1. PICK t : t = table
      OBVIOUS
    <2>2. DOMAIN map = {} /\ Len(t.rows) = 0 /\ Range(t.rows) = {}
      BY <1>1, <1>4, <1>5, <1>7, <2>1
    <2>3. PartOf(t, t)
      <3>1. DOMAIN t.m_variableMap = {} /\ DOMAIN t.m_logValues = {} /\ 1 .. Len(t.rows) = {}
        BY <1>7, <2>1, <2>2
      <3> QED BY <2>2, <3>1 DEF PartOf, Placed
    <2> QED BY <1>7, <1>8, <2>1, <2>2, <2>3 DEF Logged
  <1>10. m_scopeView \in [open : BOOLEAN, curves : Seq(AllVariables), dying : SUBSET AllVariables]
         /\ m_scopeView.curves = none
    <2>1. m_scopeView = [open |-> TRUE, curves |-> none, dying |-> {}]
      BY <1>0, <1>3 DEF Views!NoScope
    <2> HIDE DEF AllVariables
    <2> QED BY <2>1
  <1>11. ShowInv
    <2>1. Range(m_scopeView.curves) = {} /\ Range(posted) = {} /\ Range(table.rows) = {}
      BY <1>0, <1>3, <1>5, <1>7, <1>10
    <2>2. posted \in Seq(AllVariables)
      BY <1>0, <1>3
    <2> HIDE DEF AllVariables
    <2> QED BY <1>0, <1>9, <1>10, <2>1, <2>2 DEF ShowInv
  <1> QED BY <1>2, <1>11 DEF ViewsInv

LEMMA ViewsInvImplies ==
    ASSUME ViewsInv
    PROVE  /\ Views!ModulesAgree /\ Views!CrossWhenSilent /\ Views!ViewsAlive /\ Views!LoggerExact
  <1> USE DEF ViewsInv, ModulesInv
  <1>1. Views!ModulesAgree
    <2>1. DOMAIN items = DOMAIN modules /\ engine = DOMAIN modules /\ heard = m_interfaceManagerList
      OBVIOUS
    <2>2. UNION {listed[mgr] : mgr \in m_interfaceManagerList}
            = {a \in DOMAIN modules : ~Views!IsPseudo(modules[a].device)}
      <3>1. ASSUME NEW mgr \in m_interfaceManagerList, NEW a \in listed[mgr]
            PROVE  a \in DOMAIN modules /\ ~Views!IsPseudo(modules[a].device)
        OBVIOUS
      <3>2. ASSUME NEW a \in DOMAIN modules, ~Views!IsPseudo(modules[a].device)
            PROVE  \E mgr \in m_interfaceManagerList : a \in listed[mgr]
        BY <3>2
      <3> QED BY <3>1, <3>2
    <2>3. \A mgr1, mgr2 \in Managers : mgr1 # mgr2 => listed[mgr1] \cap listed[mgr2] = {}
      OBVIOUS
    <2> QED BY <2>1, <2>2, <2>3 DEF Views!ModulesAgree
  <1>2. Views!CrossWhenSilent
    <2>1. ASSUME NEW a \in DOMAIN items
          PROVE  items[a] = ~modules[a].active
      <3>1. a \in DOMAIN modules /\ items[a] \in BOOLEAN /\ (items[a] <=> ~modules[a].active)
        OBVIOUS
      <3> QED BY <3>1
    <2> QED BY <2>1 DEF Views!CrossWhenSilent
  <1>3. /\ Views!Range(m_scopeView.curves) = Range(m_scopeView.curves)
        /\ Views!Range(posted) = Range(posted) /\ Views!Range(table.rows) = Range(table.rows)
    BY DEF Views!Range, Range
  <1>4. Views!ViewsAlive
    BY <1>3 DEF Views!ViewsAlive, ShowInv
  <1>5. Views!LoggerExact
    <2>1. table \in Tables /\ Placed(table) /\ Logged(table, seen)
      BY DEF ShowInv, Logged, PartOf
    <2>2. DOMAIN table.m_variableMap = Range(table.rows)
      BY <2>1 DEF Placed
    <2>3. \A v \in Range(table.rows) : /\ table.m_variableMap[v] \in 1 .. Len(table.rows)
                                       /\ table.rows[table.m_variableMap[v]] = v
      BY <2>1, RowsOfMap
    <2>4. DOMAIN table.rows = 1 .. Len(table.rows)
      BY <2>1, TableParts, LenProperties
    <2>5. \A v \in Range(table.rows) : seen[v] >= 0 => table.m_logValues[v] = seen[v]
      BY <2>1 DEF Logged
    <2> QED BY <1>3, <2>2, <2>3, <2>4, <2>5 DEF Views!LoggerExact
  <1> QED BY <1>1, <1>2, <1>4, <1>5

\* Whoever removes a module, variable, interface or window, and in whatever order:
\* the tables agree, no view shows what was deleted, and the logger's rows and logs
\* are those of the variables.
THEOREM Follow == Spec => []ViewsFollow
  <1> DEFINE Inv == part = "views" => ViewsInv
  <1>1. Init => Inv
    BY ViewsInvInit DEF Init
  <1>2. Inv /\ [Next]_vars => Inv'
    <2> SUFFICES ASSUME Inv, [Next]_vars, part' = "views" PROVE ViewsInv'
      OBVIOUS
    <2>1. part = "views" /\ [Views!Next]_viewVars
      BY DEF Next, vars
    <2> QED BY <2>1, ViewsInvStep
  <1>3. Inv => ViewsFollow
    BY ViewsInvImplies DEF ViewsFollow
  <1> QED BY <1>1, <1>2, <1>3, PTL DEF Spec
-----------------------------------------------------------------------------
(* Messages, for whatever is set in whatever order.                        *)

FieldNames == {"priority", "type", "boot", "cmd", "dest"}

\* Values of the fields that fit their masks.
Digits == [priority : 0 .. 7, type : 0 .. 255, boot : 0 .. 3, cmd : 0 .. 255, dest : 0 .. 255]

\* The identifier that has them.
Whole(d) == d.priority * 67108864 + d.type * 262144 + d.boot * 65536 + d.cmd * 256 + d.dest

\* Whatever the fields are set to, cut to the masks.
CutDown(v) == [priority |-> v.priority % 8, type |-> v.type % 256, boot |-> v.boot % 4,
               cmd |-> v.cmd % 256, dest |-> v.dest % 256]

BusInv ==
    /\ last \in [FieldNames -> Nat] /\ m_eid = Whole(CutDown(last))
    /\ tooLong => "Invalid" \in m_flags

LEMMA CutDownFits ==
    ASSUME NEW v, v.priority \in Nat, v.type \in Nat, v.boot \in Nat, v.cmd \in Nat, v.dest \in Nat
    PROVE  CutDown(v) \in Digits
  BY SMTT(40) DEF CutDown, Digits

LEMMA Masks == 
    ASSUME NEW v \in Nat
    PROVE  /\ Bus!Masked("priority", v) = (v % 8) * 67108864
           /\ Bus!Masked("type", v) = (v % 256) * 262144
           /\ Bus!Masked("boot", v) = (v % 4) * 65536
           /\ Bus!Masked("cmd", v) = (v % 256) * 256
           /\ Bus!Masked("dest", v) = v % 256
  BY SMT DEF Bus!Masked, Bus!Fields

\* The getters find the fields in the identifier.
LEMMA GetWhole ==
    ASSUME NEW d \in Digits
    PROVE  /\ Bus!Get(Whole(d), "priority") = d.priority
           /\ Bus!Get(Whole(d), "type") = d.type
           /\ Bus!Get(Whole(d), "boot") = d.boot
           /\ Bus!Get(Whole(d), "cmd") = d.cmd
           /\ Bus!Get(Whole(d), "dest") = d.dest
  <1> DEFINE w == Whole(d)
             p == d.priority
             t == d.type
             b == d.boot
             c == d.cmd
             e == d.dest
  <1>1. p \in 0 .. 7 /\ t \in 0 .. 255 /\ b \in 0 .. 3 /\ c \in 0 .. 255 /\ e \in 0 .. 255
    BY SMT DEF Digits
  <1>2. w = p * 67108864 + t * 262144 + b * 65536 + c * 256 + e
    BY SMT DEF Whole
  <1> HIDE DEF w, p, t, b, c, e
  <1>3. w \in Nat
    BY <1>1, <1>2, SMT
  <1>4. /\ w \div 67108864 = p
        /\ w \div 262144 = p * 256 + t
        /\ w \div 65536 = (p * 256 + t) * 4 + b
        /\ w \div 256 = ((p * 256 + t) * 4 + b) * 256 + c
        /\ w % 256 = e
    <2>1. w \div 67108864 = p
      BY <1>1, <1>2, SMT
    <2>2. w \div 262144 = p * 256 + t
      BY <1>1, <1>2, SMT
    <2>3. w \div 65536 = (p * 256 + t) * 4 + b
      BY <1>1, <1>2, SMT
    <2>4. w \div 256 = ((p * 256 + t) * 4 + b) * 256 + c
      BY <1>1, <1>2, SMT
    <2>5. w % 256 = e
      BY <1>1, <1>2, SMT
    <2> QED BY <2>1, <2>2, <2>3, <2>4, <2>5, SMT
  <1>5. /\ p % 8 = p
        /\ (p * 256 + t) % 256 = t
        /\ ((p * 256 + t) * 4 + b) % 4 = b
        /\ (((p * 256 + t) * 4 + b) * 256 + c) % 256 = c
    <2>1. p % 8 = p
      BY <1>1, SMT
    <2>2. (p * 256 + t) % 256 = t
      BY <1>1, SMT
    <2>3. ((p * 256 + t) * 4 + b) % 4 = b
      BY <1>1, SMT
    <2>4. (((p * 256 + t) * 4 + b) * 256 + c) % 256 = c
      BY <1>1, SMT
    <2> QED BY <2>1, <2>2, <2>3, <2>4, SMT
  <1>6. /\ Bus!Get(w, "priority") = (w \div 67108864) % 8
        /\ Bus!Get(w, "type") = (w \div 262144) % 256
        /\ Bus!Get(w, "boot") = (w \div 65536) % 4
        /\ Bus!Get(w, "cmd") = (w \div 256) % 256
        /\ Bus!Get(w, "dest") = w % 256
    BY <1>3, SMT DEF Bus!Get, Bus!Fields
  <1>7. /\ Bus!Get(w, "priority") = p /\ Bus!Get(w, "type") = t /\ Bus!Get(w, "boot") = b
        /\ Bus!Get(w, "cmd") = c /\ Bus!Get(w, "dest") = e
    BY <1>4, <1>5, <1>6, SMT
  <1> QED BY <1>7 DEF w, p, t, b, c, e

\* A setter changes its field and no other.
LEMMA SetWhole ==
    ASSUME NEW v \in [FieldNames -> Nat], NEW f \in FieldNames, NEW n \in Nat
    PROVE  Bus!Set(Whole(CutDown(v)), f, n) = Whole(CutDown([v EXCEPT ![f] = n]))
  <1> DEFINE d == CutDown(v)
             e == CutDown([v EXCEPT ![f] = n])
  <1>1. d \in Digits /\ v.priority \in Nat /\ v.type \in Nat /\ v.boot \in Nat /\ v.cmd \in Nat
        /\ v.dest \in Nat
    BY CutDownFits DEF FieldNames
  <1>2. /\ d.priority \in 0 .. 7 /\ d.type \in 0 .. 255 /\ d.boot \in 0 .. 3
        /\ d.cmd \in 0 .. 255 /\ d.dest \in 0 .. 255
    BY <1>1, SMT DEF Digits
  <1>3. Bus!Set(Whole(d), f, n)
          = Whole(d) - Bus!Masked(f, Bus!Get(Whole(d), f)) + Bus!Masked(f, n)
    BY SMT DEF Bus!Set
  <1>4. Bus!Get(Whole(d), f) = d[f]
    BY <1>1, GetWhole DEF FieldNames
  <1>5. Bus!Masked(f, d[f]) = Bus!Masked(f, v[f])
    <2>1. /\ d.priority = v.priority % 8 /\ d.type = v.type % 256
          /\ d.boot = v.boot % 4 /\ d.cmd = v.cmd % 256 /\ d.dest = v.dest % 256
      BY SMT DEF CutDown
    <2> HIDE DEF d
    <2>2. d.priority % 8 = d.priority /\ d.type % 256 = d.type /\ d.boot % 4 = d.boot
          /\ d.cmd % 256 = d.cmd /\ d.dest % 256 = d.dest
      BY <1>2, SMT
    <2>3. d.priority \in Nat /\ d.type \in Nat /\ d.boot \in Nat /\ d.cmd \in Nat /\ d.dest \in Nat
      BY <1>2, SMT
    <2>4. Bus!Masked("priority", d.priority) = Bus!Masked("priority", v.priority)
      BY <2>1, <2>2, <2>3, <1>1, Masks, SMT
    <2>5. Bus!Masked("type", d.type) = Bus!Masked("type", v.type)
      BY <2>1, <2>2, <2>3, <1>1, Masks, SMT
    <2>6. Bus!Masked("boot", d.boot) = Bus!Masked("boot", v.boot)
      BY <2>1, <2>2, <2>3, <1>1, Masks, SMT
    <2>7. Bus!Masked("cmd", d.cmd) = Bus!Masked("cmd", v.cmd)
      BY <2>1, <2>2, <2>3, <1>1, Masks, SMT
    <2>8. Bus!Masked("dest", d.dest) = Bus!Masked("dest", v.dest)
      BY <2>1, <2>2, <2>3, <1>1, Masks, SMT
    <2> QED BY <2>4, <2>5, <2>6, <2>7, <2>8, SMT DEF FieldNames
  <1>6. \A g \in FieldNames : [v EXCEPT ![f] = n][g] = IF g = f THEN n ELSE v[g]
    BY DEF FieldNames
  <1>7. Whole(e) = Whole(d) - Bus!Masked(f, v[f]) + Bus!Masked(f, n)
    <2>1. CASE f = "priority"
      BY <2>1, <1>1, <1>6, Masks, SMT DEF CutDown, Whole, FieldNames
    <2>2. CASE f = "type"
      BY <2>2, <1>1, <1>6, Masks, SMT DEF CutDown, Whole, FieldNames
    <2>3. CASE f = "boot"
      BY <2>3, <1>1, <1>6, Masks, SMT DEF CutDown, Whole, FieldNames
    <2>4. CASE f = "cmd"
      BY <2>4, <1>1, <1>6, Masks, SMT DEF CutDown, Whole, FieldNames
    <2>5. CASE f = "dest"
      <3>1. /\ Bus!Masked(f, v[f]) = v.dest % 256 /\ Bus!Masked(f, n) = n % 256
            /\ n % 256 \in Nat /\ v.dest % 256 \in Nat
        BY <2>5, <1>1, Masks, SMT
      <3>2. /\ e.priority = d.priority /\ e.type = d.type /\ e.boot = d.boot
            /\ e.cmd = d.cmd /\ e.dest = n % 256 /\ d.dest = v.dest % 256
        BY <2>5, <1>6, SMT DEF CutDown, FieldNames
      <3> HIDE DEF d, e
      <3> DEFINE rest == d.priority * 67108864 + d.type * 262144 + d.boot * 65536 + d.cmd * 256
      <3>3. rest \in Nat /\ Whole(d) = rest + d.dest
        <4>1. rest \in Nat
          <5> DEFINE p == d.priority
                     t == d.type
                     b == d.boot
                     c == d.cmd
          <5>1. p \in 0 .. 7 /\ t \in 0 .. 255 /\ b \in 0 .. 3 /\ c \in 0 .. 255
            BY <1>2, SMT
          <5> HIDE DEF p, t, b, c
          <5>2. p * 67108864 + t * 262144 + b * 65536 + c * 256 \in Nat
            BY <5>1, SMT
          <5> QED BY <5>2 DEF p, t, b, c
        <4>2. Whole(d) = rest + d.dest
          BY SMT DEF Whole
        <4> QED BY <4>1, <4>2
      <3>4. Whole(e) = rest + e.dest
        BY <3>2, SMT DEF Whole
      <3> HIDE DEF rest
      <3> QED BY <3>1, <3>2, <3>3, <3>4, SMT
    <2> QED BY <2>1, <2>2, <2>3, <2>4, <2>5 DEF FieldNames
  <1> HIDE DEF d, e
  <1> QED BY <1>3, <1>4, <1>5, <1>7 DEF d, e

\* All fields at once.
LEMMA SetEID ==
    ASSUME NEW v, v.priority \in Nat, v.type \in Nat, v.boot \in Nat, v.cmd \in Nat, v.dest \in Nat
    PROVE  Bus!setEID(v) = Whole(CutDown(v))
  BY Masks, SMT DEF Bus!setEID, Whole, CutDown

LEMMA BusInvInit ==
    ASSUME Bus!Init
    PROVE  BusInv
  <1>1. last \in [FieldNames -> Nat] /\ \A f \in FieldNames : last[f] = 0
    BY SMT DEF Bus!Init, Bus!Fields, FieldNames
  <1>2. Whole(CutDown(last)) = 0
    BY <1>1, SMT DEF Whole, CutDown, FieldNames
  <1> QED BY <1>1, <1>2 DEF Bus!Init, BusInv

LEMMA BusInvStep ==
    ASSUME BusInv, [Bus!Next]_busVars
    PROVE  BusInv'
  <1>1. DOMAIN Bus!Fields = FieldNames
    BY SMT DEF Bus!Fields, FieldNames
  <1>2. last \in [FieldNames -> Nat] /\ m_eid = Whole(CutDown(last))
    BY DEF BusInv
  <1>3. ASSUME NEW f \in FieldNames, NEW n \in Nat, Bus!SetField(f, n)
        PROVE  BusInv'
    <2>1. m_eid' = Bus!Set(m_eid, f, n) /\ last' = [last EXCEPT ![f] = n]
          /\ UNCHANGED <<m_flags, tooLong>>
      BY <1>3 DEF Bus!SetField
    <2>2. m_eid' = Whole(CutDown(last')) /\ last' \in [FieldNames -> Nat]
      BY <2>1, <1>2, SetWhole
    <2> QED BY <2>1, <2>2 DEF BusInv
  <1>4. ASSUME NEW n \in Nat, NEW size, Bus!NETVMessage([last EXCEPT !.type = n], {"RTR"}, size)
        PROVE  BusInv'
    <2> DEFINE w == [last EXCEPT !.type = n]
    <2>1. w \in [FieldNames -> Nat]
      BY <1>2 DEF FieldNames
    <2>2. /\ m_eid' = Bus!setEID(w) /\ last' = w /\ tooLong' = (size > Bus!MaxPayloadSize)
          /\ m_flags' = Bus!validityCheck({"RTR"} \cup {"Extended"}, size)
      BY <1>4 DEF Bus!NETVMessage
    <2> HIDE DEF w
    <2>3. m_eid' = Whole(CutDown(w))
      BY <2>1, <2>2, SetEID DEF FieldNames
    <2>4. tooLong' => "Invalid" \in m_flags'
      BY <2>2 DEF Bus!validityCheck
    <2> QED BY <2>1, <2>2, <2>3, <2>4 DEF BusInv
  <1>5. ASSUME UNCHANGED <<m_eid, last>>, tooLong' => "Invalid" \in m_flags'
        PROVE  BusInv'
    BY <1>5, <1>2 DEF BusInv
  <1>6. CASE Bus!Copy
    BY <1>6, <1>5 DEF Bus!Copy, Bus!validityCheck, BusInv
  <1>7. ASSUME NEW flags, Bus!setFlags(flags) \/ Bus!clearFlags(flags)
        PROVE  BusInv'
    BY <1>7, <1>5 DEF Bus!setFlags, Bus!clearFlags, BusInv
  <1>8. ASSUME NEW size, Bus!setPayload(size)
        PROVE  BusInv'
    BY <1>8, <1>5 DEF Bus!setPayload, Bus!validityCheck, BusInv
  <1>9. CASE UNCHANGED busVars
    <2>1. UNCHANGED <<m_eid, last, m_flags, tooLong>>
      BY <1>9 DEF busVars
    <2> QED BY <2>1, <1>5 DEF BusInv
  <1>10. CASE Bus!Next
    <2>1. \A f \in FieldNames : GivenFields[f] \subseteq Nat
      BY SMT DEF FieldNames, GivenFields
    <2>2. \/ \E f \in FieldNames : \E n \in GivenFields[f] : Bus!SetField(f, n)
          \/ \E n \in GivenFields["type"], size \in PayloadSizes :
                Bus!NETVMessage([last EXCEPT !.type = n], {"RTR"}, size)
          \/ Bus!Copy
          \/ \E flags \in SUBSET {"RTR", "Invalid"} : Bus!setFlags(flags) \/ Bus!clearFlags(flags)
          \/ \E size \in PayloadSizes : Bus!setPayload(size)
      BY <1>10, <1>1, Zenon DEF Bus!Next
    <2>3. "type" \in FieldNames
      BY DEF FieldNames
    <2> QED BY <2>1, <2>2, <2>3, <1>3, <1>4, <1>6, <1>7, <1>8
  <1> QED BY <1>9, <1>10

\* The registers of the bridges' box hold the same fields.
LEMMA SplitWhole ==
    ASSUME NEW d \in Digits
    PROVE  /\ ((Whole(d) \div 262144) \div 256) % 8 = d.priority
           /\ (Whole(d) \div 262144) % 256 = d.type
           /\ ((Whole(d) % 262144) \div 65536) % 4 = d.boot
           /\ ((Whole(d) % 262144) \div 256) % 256 = d.cmd
           /\ (Whole(d) % 262144) % 256 = d.dest
           /\ (Whole(d) \div 262144) * 262144 + (Whole(d) % 262144) = Whole(d)
  <1> DEFINE w == Whole(d)
             p == d.priority
             t == d.type
             b == d.boot
             c == d.cmd
             e == d.dest
  <1>1. p \in 0 .. 7 /\ t \in 0 .. 255 /\ b \in 0 .. 3 /\ c \in 0 .. 255 /\ e \in 0 .. 255
    BY SMT DEF Digits
  <1>2. w = p * 67108864 + t * 262144 + b * 65536 + c * 256 + e
    BY SMT DEF Whole
  <1> HIDE DEF w, p, t, b, c, e
  <1>3. w \div 262144 = p * 256 + t /\ w % 262144 = b * 65536 + c * 256 + e
    <2>1. w \div 262144 = p * 256 + t
      BY <1>1, <1>2, SMT
    <2>2. w % 262144 = b * 65536 + c * 256 + e
      BY <1>1, <1>2, SMT
    <2> QED BY <2>1, <2>2, SMT
  <1>4. /\ p % 8 = p /\ b % 4 = b
        /\ (p * 256 + t) % 256 = t
        /\ (p * 256 + t) \div 256 = p
        /\ (b * 65536 + c * 256 + e) \div 65536 = b
        /\ ((b * 65536 + c * 256 + e) \div 256) % 256 = c
        /\ (b * 65536 + c * 256 + e) % 256 = e
        /\ (p * 256 + t) * 262144 + (b * 65536 + c * 256 + e) = w
    <2>1. p % 8 = p /\ b % 4 = b
      BY <1>1, SMT
    <2>2. (p * 256 + t) % 256 = t
      BY <1>1, SMT
    <2>3. (p * 256 + t) \div 256 = p
      BY <1>1, SMT
    <2>4. (b * 65536 + c * 256 + e) \div 65536 = b
      BY <1>1, SMT
    <2>5. ((b * 65536 + c * 256 + e) \div 256) % 256 = c
      <3>1. (b * 65536 + c * 256 + e) \div 256 = b * 256 + c
        BY <1>1, SMT
      <3>2. (b * 256 + c) % 256 = c
        BY <1>1, SMT
      <3> QED BY <3>1, <3>2, SMT
    <2>6. (b * 65536 + c * 256 + e) % 256 = e
      BY <1>1, SMT
    <2>7. (p * 256 + t) * 262144 + (b * 65536 + c * 256 + e) = w
      BY <1>1, <1>2, SMT
    <2> QED BY <2>1, <2>2, <2>3, <2>4, <2>5, <2>6, <2>7, SMT
  <1>5. /\ ((w \div 262144) \div 256) % 8 = p
        /\ (w \div 262144) % 256 = t
        /\ ((w % 262144) \div 65536) % 4 = b
        /\ ((w % 262144) \div 256) % 256 = c
        /\ (w % 262144) % 256 = e
        /\ (w \div 262144) * 262144 + (w % 262144) = w
    BY <1>3, <1>4, SMT
  <1> QED BY <1>5 DEF w, p, t, b, c, e

\* Digits are not cut.
LEMMA DigitsStay ==
    ASSUME NEW d \in Digits, NEW v,
           v.priority = d.priority, v.type = d.type, v.boot = d.boot, v.cmd = d.cmd,
           v.dest = d.dest
    PROVE  CutDown(v) = d
  <1>1. /\ d.priority \in 0 .. 7 /\ d.type \in 0 .. 255 /\ d.boot \in 0 .. 3
        /\ d.cmd \in 0 .. 255 /\ d.dest \in 0 .. 255
        /\ d = [priority |-> d.priority, type |-> d.type, boot |-> d.boot, cmd |-> d.cmd,
                dest |-> d.dest]
    BY SMT DEF Digits
  <1>2. d.priority % 8 = d.priority /\ d.type % 256 = d.type /\ d.boot % 4 = d.boot
        /\ d.cmd % 256 = d.cmd /\ d.dest % 256 = d.dest
    BY <1>1, SMT
  <1>3. CutDown(v) = [priority |-> d.priority, type |-> d.type, boot |-> d.boot, cmd |-> d.cmd,
                      dest |-> d.dest]
    BY <1>2, SMT DEF CutDown
  <1> QED BY <1>1, <1>3, SMT

\* The frame of a message, whichever driver sends it, and what each driver makes of it.
LEMMA Carried ==
    ASSUME NEW d \in Digits, NEW remote, NEW size
    PROVE  LET message1 == Bus!Message(Bus!FieldsOf(Whole(d)), remote, size)
               frame == [id |-> Whole(d), rtr |-> remote, dlc |-> size]
           IN  /\ Bus!Sent(message1) = {frame}
               /\ Bus!SocketCAN_recvMessage(frame) = message1
               /\ Bus!SerialBridge_recvMessage(frame) = message1
               /\ Bus!EthernetBridge_recvMessage(frame) = message1
  <1> DEFINE m == Bus!Message(Bus!FieldsOf(Whole(d)), remote, size)
             frame == [id |-> Whole(d), rtr |-> remote, dlc |-> size]
  <1>1. DOMAIN Bus!Fields = FieldNames
    BY SMT DEF Bus!Fields, FieldNames
  <1>2. /\ Bus!Get(Whole(d), "priority") = d.priority /\ Bus!Get(Whole(d), "type") = d.type
        /\ Bus!Get(Whole(d), "boot") = d.boot /\ Bus!Get(Whole(d), "cmd") = d.cmd
        /\ Bus!Get(Whole(d), "dest") = d.dest
    BY GetWhole
  <1>3. m = [priority |-> d.priority, type |-> d.type, boot |-> d.boot, cmd |-> d.cmd,
             dest |-> d.dest, remote |-> remote, data_length |-> size]
    BY <1>1, <1>2, SMT DEF Bus!Message, Bus!FieldsOf, FieldNames
  <1> HIDE DEF m
  <1>4. Bus!Identity(m) = Whole(d)
    <2>1. /\ m.priority = d.priority /\ m.type = d.type /\ m.boot = d.boot /\ m.cmd = d.cmd
          /\ m.dest = d.dest
      BY <1>3, SMT
    <2>2. /\ d.priority \in Nat /\ d.type \in Nat /\ d.boot \in Nat /\ d.cmd \in Nat
          /\ d.dest \in Nat
      BY SMT DEF Digits
    <2>3. Bus!setEID(m) = Whole(CutDown(m))
      BY <2>1, <2>2, SetEID, SMT
    <2>4. CutDown(m) = d
      BY <2>1, DigitsStay, SMT
    <2> QED BY <2>3, <2>4, SMT DEF Bus!Identity
  <1>5. m.remote = remote /\ m.data_length = size
    BY <1>3, SMT
  <1>6. Bus!SocketCAN_sendMessage(m) = frame /\ Bus!PCANDevice_sendMessage(m) = frame
    BY <1>4, <1>5, SMT DEF Bus!SocketCAN_sendMessage, Bus!PCANDevice_sendMessage
  <1> DEFINE w == Whole(d)
  <1>7. /\ ((w \div 262144) \div 256) % 8 = d.priority
        /\ (w \div 262144) % 256 = d.type
        /\ ((w % 262144) \div 65536) % 4 = d.boot
        /\ ((w % 262144) \div 256) % 256 = d.cmd
        /\ (w % 262144) % 256 = d.dest
        /\ (w \div 262144) * 262144 + (w % 262144) = w
    BY SplitWhole, SMT
  <1>0. 2^18 = 262144 /\ 2^16 = 65536 /\ 2^8 = 256
    BY SMT
  <1>8. Bus!SerialBridge_event(m) = frame /\ Bus!EthernetBridge_event(m) = frame
    <2> HIDE DEF w
    <2>1. Bus!Identity(m) = w
      BY <1>4, SMT DEF w
    <2>2. Bus!SerialBridge_event(m) = [id |-> w, rtr |-> remote, dlc |-> size]
      BY <1>0, <2>1, <1>5, <1>7, SMT DEF Bus!SerialBridge_event
    <2> QED BY <2>2, SMT DEF w, Bus!EthernetBridge_event
  <1>9. Bus!Sent(m) = {frame}
    BY <1>6, <1>8, SMT DEF Bus!Sent
  <1>10. Bus!SocketCAN_recvMessage(frame) = m
    BY <1>1, <1>2, <1>3, SMT DEF Bus!SocketCAN_recvMessage, Bus!Message, Bus!FieldsOf, FieldNames
  <1>11. Bus!SerialBridge_recvMessage(frame) = m
    <2>1. frame.id = w /\ frame.rtr = remote /\ frame.dlc = size
      BY SMT
    <2> HIDE DEF w, frame
    <2>2. Bus!SerialBridge_recvMessage(frame)
            = [priority |-> d.priority, type |-> d.type, boot |-> d.boot, cmd |-> d.cmd,
               dest |-> d.dest, remote |-> remote, data_length |-> size]
      BY <1>0, <2>1, <1>7, SMT DEF Bus!SerialBridge_recvMessage
    <2> QED BY <2>2, <1>3, SMT
  <1>12. Bus!EthernetBridge_recvMessage(frame) = m
    BY <1>11, SMT DEF Bus!EthernetBridge_recvMessage
  <1> QED BY <1>9, <1>10, <1>11, <1>12, SMT DEF m

LEMMA BusInvImplies ==
    ASSUME BusInv
    PROVE  Bus!MessagesCarried
  <1> DEFINE d == CutDown(last)
             remote == "RTR" \in m_flags
             m == Bus!NETV_MESSAGE
             frame == [id |-> m_eid, rtr |-> remote, dlc |-> m_data]
  <1>1. d \in Digits /\ m_eid = Whole(d)
    BY CutDownFits DEF BusInv, FieldNames
  <1>2. Bus!FieldsKept
    <2> SUFFICES ASSUME NEW f \in FieldNames
                 PROVE  Bus!Get(m_eid, f) = last[f] % (CASE f = "priority" -> 8
                                                         [] f = "boot" -> 4 [] OTHER -> 256)
      BY SMT DEF Bus!FieldsKept, Bus!Fields, FieldNames
    <2>1. d[f] = last[f] % (CASE f = "priority" -> 8 [] f = "boot" -> 4 [] OTHER -> 256)
      BY SMT DEF CutDown, FieldNames
    <2> HIDE DEF d
    <2> QED BY <1>1, <2>1, GetWhole, SMT DEF FieldNames
  <1>3. Bus!InvalidSticks
    BY DEF BusInv, Bus!InvalidSticks, Bus!isValid
  <1> HIDE DEF d, remote
  <1>4. m = Bus!Message(Bus!FieldsOf(Whole(d)), remote, m_data)
    BY <1>1 DEF Bus!NETV_MESSAGE, remote
  <1>5. /\ Bus!Sent(m) = {frame}
        /\ Bus!SocketCAN_recvMessage(frame) = m
        /\ Bus!SerialBridge_recvMessage(frame) = m
        /\ Bus!EthernetBridge_recvMessage(frame) = m
    BY <1>1, <1>4, Carried
  <1>6. m.remote = remote /\ frame.id = m_eid /\ frame.rtr = remote /\ frame.dlc = m_data
    BY <1>4 DEF Bus!Message
  <1>7. CASE remote
    <2>1. Bus!PCANDevice_recvMessage(frame) = Bus!NoMessage
      BY <1>6, <1>7 DEF Bus!PCANDevice_recvMessage
    <2>2. Bus!PCANDeviceLinux_recvMessage(frame) = [m EXCEPT !.data_length = 0]
      <3> DEFINE fields == Bus!FieldsOf(Whole(d))
      <3> HIDE DEF frame, fields, m
      <3>1. Bus!PCANDeviceLinux_recvMessage(frame) = Bus!Message(fields, remote, 0)
        BY <1>1, <1>6, <1>7 DEF Bus!PCANDeviceLinux_recvMessage, fields
      <3>2. m = Bus!Message(fields, remote, m_data)
        BY <1>4 DEF fields
      <3>3. [m EXCEPT !.data_length = 0] = Bus!Message(fields, remote, 0)
        BY <3>2 DEF Bus!Message
      <3> QED BY <3>1, <3>3
    <2>3. m.remote
      BY <1>6, <1>7
    <2> HIDE DEF m, frame
    <2>4. \A x \in Bus!Sent(m) :
            /\ x.id = m_eid
            /\ Bus!SocketCAN_recvMessage(x) = m
            /\ Bus!SerialBridge_recvMessage(x) = m
            /\ Bus!EthernetBridge_recvMessage(x) = m
            /\ IF m.remote
               THEN /\ Bus!PCANDevice_recvMessage(x) = Bus!NoMessage
                    /\ Bus!PCANDeviceLinux_recvMessage(x) = [m EXCEPT !.data_length = 0]
               ELSE /\ Bus!PCANDevice_recvMessage(x) = m
                    /\ Bus!PCANDeviceLinux_recvMessage(x) = m
      BY <1>5, <1>6, <2>1, <2>2, <2>3
    <2>5. Bus!SameOnEveryDriver
      BY <2>4, Zenon DEF Bus!SameOnEveryDriver, m
    <2> QED BY <1>2, <1>3, <2>5 DEF Bus!MessagesCarried
  <1>8. CASE ~remote
    <2>1. Bus!PCANDeviceLinux_recvMessage(frame) = m
      BY <1>1, <1>4, <1>6, <1>8 DEF Bus!PCANDeviceLinux_recvMessage, Bus!Message
    <2>2. Bus!PCANDevice_recvMessage(frame) = m
      BY <1>6, <1>8, <2>1 DEF Bus!PCANDevice_recvMessage
    <2>3. ~m.remote
      BY <1>6, <1>8
    <2> HIDE DEF m, frame
    <2>4. \A x \in Bus!Sent(m) :
            /\ x.id = m_eid
            /\ Bus!SocketCAN_recvMessage(x) = m
            /\ Bus!SerialBridge_recvMessage(x) = m
            /\ Bus!EthernetBridge_recvMessage(x) = m
            /\ IF m.remote
               THEN /\ Bus!PCANDevice_recvMessage(x) = Bus!NoMessage
                    /\ Bus!PCANDeviceLinux_recvMessage(x) = [m EXCEPT !.data_length = 0]
               ELSE /\ Bus!PCANDevice_recvMessage(x) = m
                    /\ Bus!PCANDeviceLinux_recvMessage(x) = m
      BY <1>5, <1>6, <2>1, <2>2, <2>3
    <2>5. Bus!SameOnEveryDriver
      BY <2>4, Zenon DEF Bus!SameOnEveryDriver, m
    <2> QED BY <1>2, <1>3, <2>5 DEF Bus!MessagesCarried
  <1> QED BY <1>7, <1>8

-----------------------------------------------------------------------------
(* Filters of a device, for any number of them.                            *)

FilterInv ==
    m_masks \in Seq(GivenMasks) /\ m_filters \in Seq(GivenFilters)

LEMMA FilterInvInit ==
    ASSUME Filter!Init
    PROVE  FilterInv
  <1>1. <<>> \in Seq(GivenMasks) /\ <<>> \in Seq(GivenFilters)
    OBVIOUS
  <1> QED BY <1>1 DEF Filter!Init, FilterInv

LEMMA FilterInvStep ==
    ASSUME FilterInv, [Filter!Next]_filterVars
    PROVE  FilterInv'
  <1>1. ASSUME NEW filter \in GivenFilters, Filter!addFilter(filter)
        PROVE  FilterInv'
    <2>1. m_filters' = Append(m_filters, filter) /\ m_masks' = m_masks
      BY <1>1 DEF Filter!addFilter
    <2> QED BY <2>1 DEF FilterInv
  <1>2. ASSUME NEW mask \in GivenMasks, Filter!addMask(mask)
        PROVE  FilterInv'
    <2>1. m_masks' = Append(m_masks, mask) /\ m_filters' = m_filters
      BY <1>2 DEF Filter!addMask
    <2> QED BY <2>1 DEF FilterInv
  <1>3. CASE UNCHANGED filterVars
    BY <1>3 DEF filterVars, FilterInv
  <1> QED BY <1>1, <1>2, <1>3 DEF Filter!Next

\* With no more masks than filters a mask has a filter of its own index: a mark means
\* a hit, and a single filter is the one that is marked.
LEMMA FilterInvImplies ==
    ASSUME FilterInv
    PROVE  Filter!MarkedOnlyIfHit
  <1> SUFFICES ASSUME Len(m_masks) <= Len(m_filters)
               PROVE  \A m \in {Fields(0, 1, 2, 1), Fields(2, 1, 0, 3), Fields(6, 4, 0, 7)} :
                         /\ Filter!Hits(m) = {} => Filter!applyFilters(m) = {-1}
                         /\ Len(m_filters) = 1 /\ Filter!Hits(m) /= {}
                              => Filter!applyFilters(m) = {0}
    BY Zenon DEF Filter!MarkedOnlyIfHit
  <1>1. /\ DOMAIN m_masks = 1 .. Len(m_masks) /\ DOMAIN m_filters = 1 .. Len(m_filters)
        /\ Len(m_masks) \in Nat /\ Len(m_filters) \in Nat /\ Len(m_masks) <= Len(m_filters)
    BY DEF FilterInv
  <1>2. ASSUME NEW m
        PROVE  /\ Filter!Hits(m) = {} => Filter!applyFilters(m) = {-1}
               /\ Len(m_filters) = 1 /\ Filter!Hits(m) /= {} => Filter!applyFilters(m) = {0}
    <2> DEFINE Own == \E k \in DOMAIN m_masks : Filter!NoDifference(m, m_masks[k], m_filters[k])
    <2>0. \A k \in DOMAIN m_masks : k \in DOMAIN m_filters
      BY <1>1
    <2>7. (\E k \in DOMAIN m_masks : Filter!Hit(m, k)) <=> Own
      BY <2>0, Zenon DEF Filter!Hit
    <2>8. m_filters = <<>> => ~Own
      BY <1>1
    <2>1. Filter!applyFilters(m) = IF Own THEN {Len(m_filters) - 1} ELSE {-1}
      BY <2>0, <2>7, <2>8, Zenon DEF Filter!applyFilters
    <2>2. ASSUME NEW k \in DOMAIN m_masks, Filter!NoDifference(m, m_masks[k], m_filters[k])
          PROVE  k \in Filter!Hits(m)
      <3>1. k \in DOMAIN m_filters
        BY <1>1
      <3> QED BY <2>2, <3>1, Zenon DEF Filter!Hits
    <2>3. ASSUME Len(m_filters) = 1, NEW j \in Filter!Hits(m)
          PROVE  Own
      <3>1. PICK k \in DOMAIN m_masks : Filter!NoDifference(m, m_masks[k], m_filters[j])
        BY Zenon DEF Filter!Hits
      <3>2. j \in DOMAIN m_filters
        BY Zenon DEF Filter!Hits
      <3>3. j = 1 /\ k = 1
        BY <1>1, <2>3, <3>2
      <3> QED BY <3>1, <3>3, Zenon
    <2> HIDE DEF Own
    <2>4. Own => Filter!Hits(m) # {}
      BY <2>2, Zenon DEF Own
    <2>5. Filter!Hits(m) = {} => Filter!applyFilters(m) = {-1}
      BY <2>1, <2>4
    <2>6. ASSUME Len(m_filters) = 1, Filter!Hits(m) # {}
          PROVE  Filter!applyFilters(m) = {0}
      <3>1. Own
        BY <2>3, <2>6
      <3> QED BY <3>1, <2>1, <2>6
    <2> QED BY <2>5, <2>6
  <1> QED BY <1>2, Zenon

-----------------------------------------------------------------------------
(* The loopback driver, for any number of modules and any limits.          *)

LoopRequests == [number : Nat, type : Loop!Types, cmd : {"alive", "other"}, dest : {255},
                 remote : {TRUE}, data : {<<>>}]
LoopAnswers == [number : Nat, type : Loop!Types, cmd : {"alive", "other"}, dest : Nat,
                remote : {FALSE}, data : Seq(Nat)]

\* The number of requests that are processed, and whether the module d has been
\* asked for its answer to the request n.
Done == Len(accepted) - Len(m_sendQueue) - Len(message)
Asked(n, d) == n <= Done \/ (message # <<>> /\ n = Done + 1 /\ d < i)

LoopTypeOK ==
    /\ accepted \in Seq(LoopRequests) /\ m_sendQueue \in Seq(LoopRequests)
    /\ received \in Seq(LoopAnswers) /\ m_recvQueue \in Seq(LoopAnswers)
    /\ i \in Nat /\ Len(message) \in {0, 1}

\* What was accepted is processed, then in hand, then in the queue.
InLine ==
    /\ \A n \in 1 .. Len(accepted) : accepted[n].number = n
    /\ Done >= 0
    /\ message = <<>> \/ (message = <<accepted[Done + 1]>> /\ Loop!AliveRequest(accepted[Done + 1]))
    /\ \A k \in 1 .. Len(m_sendQueue) :
         m_sendQueue[k] = accepted[Len(accepted) - Len(m_sendQueue) + k]

Genuine(a) ==
    /\ ~a.remote /\ a.number \in 1 .. Len(accepted) /\ Loop!AliveRequest(accepted[a.number])
    /\ a.dest \in Loop!VirtualModules /\ a.data = <<a.dest>>
    /\ Asked(a.number, a.dest)

Ordered == \A k \in 1 .. Len(Loop!Answers) : k > 1 => Loop!Before(Loop!Answers[k - 1], Loop!Answers[k])

\* Unless the queue was full, who was asked has answered.
Complete ==
    wasFull \/ \A n \in 1 .. Len(accepted) : \A d \in Loop!VirtualModules :
      Loop!AliveRequest(accepted[n]) /\ Asked(n, d) =>
        \E k \in 1 .. Len(Loop!Answers) : Loop!Answers[k].number = n /\ Loop!Answers[k].dest = d

LoopInv ==
    /\ LoopTypeOK /\ InLine
    /\ \A k \in 1 .. Len(Loop!Answers) : Genuine(Loop!Answers[k])
    /\ Ordered /\ Complete

LEMMA LoopInvInit ==
    ASSUME Loop!Init
    PROVE  LoopInv
  <1>1. /\ m_sendQueue = <<>> /\ m_recvQueue = <<>> /\ message = <<>> /\ i = 0
        /\ received = <<>> /\ accepted = <<>>
    BY DEF Loop!Init
  <1>2. Len(<<>>) = 0 /\ 1 .. 0 = {} /\ <<>> \o <<>> = <<>>
    OBVIOUS
  <1>3. Loop!Answers = <<>>
    BY <1>1, <1>2 DEF Loop!Answers
  <1>4. LoopTypeOK
    BY <1>1 DEF LoopTypeOK
  <1>5. InLine
    BY <1>1, <1>2 DEF InLine, Done
  <1> QED BY <1>1, <1>2, <1>3, <1>4, <1>5 DEF LoopInv, Ordered, Complete

\* The answers and their number.
LEMMA AnswersType ==
    ASSUME LoopTypeOK
    PROVE  Loop!Answers \in Seq(LoopAnswers) /\ Len(Loop!Answers) \in Nat
           /\ DOMAIN Loop!Answers = 1 .. Len(Loop!Answers)
  BY DEF LoopTypeOK, Loop!Answers

\* While the answers and who was asked stay, so does what is said of them.
LEMMA AnswersStay ==
    ASSUME LoopInv, LoopTypeOK', InLine', Loop!Answers' = Loop!Answers, wasFull' = wasFull,
           Len(accepted) <= Len(accepted)',
           \A n \in 1 .. Len(accepted) : accepted'[n] = accepted[n],
           \A n \in 1 .. Len(accepted)' : \A d \in Loop!VirtualModules :
              /\ Asked(n, d) => Asked(n, d)'
              /\ Asked(n, d)' /\ Loop!AliveRequest(accepted'[n]) =>
                   n \in 1 .. Len(accepted) /\ Asked(n, d)
    PROVE  LoopInv'
  <1> DEFINE A == Loop!Answers
  <1>1. Len(accepted) \in Nat /\ Len(accepted)' \in Nat
    BY DEF LoopInv, LoopTypeOK
  <1>2. ASSUME NEW k \in 1 .. Len(A)
        PROVE  Genuine(A[k])'
    <2>1. Genuine(A[k])
      BY <1>2 DEF LoopInv
    <2>2. A'[k] = A[k]
      OBVIOUS
    <2> DEFINE a == A[k]
    <2>3. /\ ~a.remote /\ a.number \in 1 .. Len(accepted)
          /\ Loop!AliveRequest(accepted[a.number])
          /\ a.dest \in Loop!VirtualModules /\ a.data = <<a.dest>> /\ Asked(a.number, a.dest)
      BY <2>1 DEF Genuine
    <2>4. a.number \in 1 .. Len(accepted)' /\ accepted'[a.number] = accepted[a.number]
      BY <2>3, <1>1
    <2>5. Loop!VirtualModules' = Loop!VirtualModules
      BY DEF Loop!VirtualModules
    <2>6. Asked(a.number, a.dest)'
      BY <2>2, <2>3, <2>4
    <2> HIDE DEF a
    <2>7. a' = a
      BY <2>2 DEF a
    <2>8. Genuine(a)'
      BY <2>3, <2>4, <2>5, <2>6, <2>7 DEF Genuine, Loop!AliveRequest
    <2> QED BY <2>8 DEF a
  <1>3. Ordered'
    BY DEF LoopInv, Ordered, Loop!Before
  <1>4. Complete'
    <2>1. CASE wasFull
      BY <2>1 DEF Complete
    <2>2. CASE ~wasFull
      <3> SUFFICES ASSUME NEW n \in 1 .. Len(accepted)', NEW d \in Loop!VirtualModules,
                          Loop!AliveRequest(accepted'[n]), Asked(n, d)'
                   PROVE  \E k \in 1 .. Len(A)' : A'[k].number = n /\ A'[k].dest = d
        BY DEF Complete, Loop!AliveRequest, Loop!VirtualModules
      <3>1. n \in 1 .. Len(accepted) /\ Asked(n, d) /\ Loop!AliveRequest(accepted[n])
        OBVIOUS
      <3>2. \E k \in 1 .. Len(A) : A[k].number = n /\ A[k].dest = d
        BY <2>2, <3>1 DEF LoopInv, Complete
      <3> QED BY <3>2
    <2> QED BY <2>1, <2>2
  <1> QED BY <1>2, <1>3, <1>4 DEF LoopInv

LEMMA SendKeeps ==
    ASSUME LoopInv, NEW type \in Loop!Types, NEW cmd \in {"alive", "other"},
           Loop!sendMessage(type, cmd)
    PROVE  LoopInv'
  <1> DEFINE m == [number |-> Len(accepted) + 1, type |-> type, cmd |-> cmd,
                   dest |-> 255, remote |-> TRUE, data |-> <<>>]
  <1>1. /\ m_sendQueue' = Append(m_sendQueue, m) /\ accepted' = Append(accepted, m)
        /\ m_recvQueue' = m_recvQueue /\ message' = message /\ i' = i /\ received' = received
        /\ wasFull' = wasFull
    BY DEF Loop!sendMessage
  <1>2. /\ accepted \in Seq(LoopRequests) /\ m_sendQueue \in Seq(LoopRequests)
        /\ Len(accepted) \in Nat /\ Len(m_sendQueue) \in Nat /\ Len(message) \in {0, 1}
    BY DEF LoopInv, LoopTypeOK
  <1>3. m \in LoopRequests /\ m.number = Len(accepted) + 1
    BY <1>2 DEF LoopRequests
  <1> HIDE DEF m
  <1>4. /\ accepted' \in Seq(LoopRequests) /\ Len(accepted') = Len(accepted) + 1
        /\ accepted'[Len(accepted) + 1] = m
        /\ \A n \in 1 .. Len(accepted) : accepted'[n] = accepted[n]
    BY <1>1, <1>2, <1>3
  <1>5. /\ m_sendQueue' \in Seq(LoopRequests) /\ Len(m_sendQueue') = Len(m_sendQueue) + 1
        /\ m_sendQueue'[Len(m_sendQueue) + 1] = m
        /\ \A n \in 1 .. Len(m_sendQueue) : m_sendQueue'[n] = m_sendQueue[n]
    BY <1>1, <1>2, <1>3
  <1>6. LoopTypeOK'
    BY <1>1, <1>4, <1>5 DEF LoopInv, LoopTypeOK
  <1>7. Done' = Done /\ Done \in Int /\ Done <= Len(accepted)
    BY <1>1, <1>2, <1>4, <1>5 DEF Done
  <1>8. \A n, d : Asked(n, d)' <=> Asked(n, d)
    BY <1>1, <1>7 DEF Asked
  <1>9. InLine'
    <2>1. \A n \in 1 .. Len(accepted)' : accepted'[n].number = n
      BY <1>2, <1>3, <1>4 DEF LoopInv, InLine
    <2>2. message # <<>> => Done + 1 \in 1 .. Len(accepted)
      <3>1. message # <<>> => Len(message) = 1
        BY <1>2 DEF LoopInv, InLine
      <3> QED BY <3>1, <1>2 DEF LoopInv, InLine, Done
    <2>3. message' = <<>> \/ (message' = <<accepted'[Done' + 1]>>
                                /\ Loop!AliveRequest(accepted'[Done' + 1]))
      BY <1>1, <1>4, <1>7, <2>2 DEF LoopInv, InLine
    <2>4. ASSUME NEW k \in 1 .. Len(m_sendQueue)'
          PROVE  m_sendQueue'[k] = accepted'[Len(accepted)' - Len(m_sendQueue)' + k]
      <3>1. Len(accepted)' - Len(m_sendQueue)' + k = Len(accepted) - Len(m_sendQueue) + k
        BY <1>2, <1>4, <1>5
      <3>2. CASE k \in 1 .. Len(m_sendQueue)
        <4>1. Len(accepted) - Len(m_sendQueue) + k \in 1 .. Len(accepted)
          BY <3>2, <1>2 DEF LoopInv, InLine, Done
        <4> QED BY <3>1, <3>2, <4>1, <1>4, <1>5 DEF LoopInv, InLine
      <3>3. CASE k = Len(m_sendQueue) + 1
        <4>1. Len(accepted) - Len(m_sendQueue) + k = Len(accepted) + 1
          BY <3>3, <1>2
        <4> QED BY <3>1, <3>3, <4>1, <1>4, <1>5
      <3> QED BY <3>2, <3>3, <1>2, <1>5
    <2>5. Done' >= 0
      BY <1>7 DEF LoopInv, InLine
    <2> QED BY <2>1, <2>3, <2>4, <2>5, Zenon DEF InLine, Loop!AliveRequest
  <1>10. \A n \in 1 .. Len(accepted)' : \A d \in Loop!VirtualModules :
            Asked(n, d)' => n \in 1 .. Len(accepted)
    <2> SUFFICES ASSUME NEW n \in 1 .. Len(accepted)', NEW d, Asked(n, d)
                 PROVE  n \in 1 .. Len(accepted)
      BY <1>8
    <2>1. n <= Done \/ (message # <<>> /\ n = Done + 1)
      BY DEF Asked
    <2>2. message # <<>> => Len(message) = 1
      BY <1>2 DEF LoopInv, InLine
    <2>3. n \in Nat /\ n >= 1
      BY <1>4, <1>2
    <2> QED BY <2>1, <2>2, <2>3, <1>2 DEF Done
  <1>11. Loop!Answers' = Loop!Answers
    BY <1>1 DEF Loop!Answers
  <1>12. Len(accepted) <= Len(accepted)'
    BY <1>2, <1>4
  <1> QED BY <1>1, <1>4, <1>6, <1>8, <1>9, <1>10, <1>11, <1>12, AnswersStay

LEMMA TakeKeeps ==
    ASSUME LoopInv, Loop!internalThreadSendFunction
    PROVE  LoopInv'
  <1> DEFINE h == Head(m_sendQueue)
  <1>1. /\ message = <<>> /\ m_sendQueue # <<>> /\ m_sendQueue' = Tail(m_sendQueue)
        /\ message' = IF Loop!AliveRequest(h) THEN <<h>> ELSE <<>>
        /\ i' = 0 /\ m_recvQueue' = m_recvQueue /\ received' = received /\ accepted' = accepted
        /\ wasFull' = wasFull
    BY DEF Loop!internalThreadSendFunction
  <1>2. /\ accepted \in Seq(LoopRequests) /\ m_sendQueue \in Seq(LoopRequests)
        /\ Len(accepted) \in Nat /\ Len(m_sendQueue) \in Nat /\ Len(message) = 0
    BY <1>1 DEF LoopInv, LoopTypeOK
  <1>3. /\ Len(m_sendQueue) >= 1 /\ Len(m_sendQueue') = Len(m_sendQueue) - 1
        /\ m_sendQueue' \in Seq(LoopRequests) /\ h = m_sendQueue[1]
        /\ \A k \in 1 .. Len(m_sendQueue) - 1 : m_sendQueue'[k] = m_sendQueue[k + 1]
    <2>1. Len(m_sendQueue) # 0
      BY <1>1, <1>2, EmptySeq
    <2> QED BY <1>1, <1>2, <2>1
  <1>4. Done = Len(accepted) - Len(m_sendQueue) /\ Done \in Nat
    BY <1>2 DEF Done, LoopInv, InLine
  <1>5. h = accepted[Done + 1]
    <2>1. 1 \in 1 .. Len(m_sendQueue)
      BY <1>2, <1>3
    <2> QED BY <2>1, <1>3, <1>4 DEF LoopInv, InLine
  <1> HIDE DEF h
  <1>6. LoopTypeOK'
    <2>1. Len(message') \in {0, 1}
      BY <1>1
    <2> QED BY <1>1, <1>3, <2>1 DEF LoopInv, LoopTypeOK
  <1>7. CASE Loop!AliveRequest(h)
    <2>1. message' = <<h>> /\ Len(message') = 1
      BY <1>1, <1>7
    <2>2. Done' = Done
      BY <1>1, <1>2, <1>3, <1>4, <2>1 DEF Done
    <2>3. ASSUME NEW n \in 1 .. Len(accepted), NEW d \in Loop!VirtualModules
          PROVE  Asked(n, d)' <=> Asked(n, d)
      <3>1. ~(d < 0)
        BY DEF Loop!VirtualModules
      <3> QED BY <1>1, <2>2, <3>1 DEF Asked
    <2>4. InLine'
      <3>1. \A n \in 1 .. Len(accepted)' : accepted'[n].number = n
        BY <1>1 DEF LoopInv, InLine
      <3>2. Done' >= 0
        BY <1>4, <2>2
      <3>3. message' = <<accepted'[Done' + 1]>> /\ Loop!AliveRequest(accepted'[Done' + 1])
        BY <1>1, <1>5, <1>7, <2>1, <2>2
      <3>4. \A k \in 1 .. Len(m_sendQueue)' :
               m_sendQueue'[k] = accepted'[Len(accepted)' - Len(m_sendQueue)' + k]
        <4> SUFFICES ASSUME NEW k \in 1 .. Len(m_sendQueue) - 1
                     PROVE  m_sendQueue[k + 1] = accepted[Len(accepted) - Len(m_sendQueue) + (k + 1)]
          <5>1. \A k \in 1 .. Len(m_sendQueue) - 1 :
                   Len(accepted) - (Len(m_sendQueue) - 1) + k
                     = Len(accepted) - Len(m_sendQueue) + (k + 1)
            BY <1>2
          <5> QED BY <1>1, <1>3, <5>1
        <4>1. k + 1 \in 1 .. Len(m_sendQueue)
          BY <1>2
        <4> QED BY <4>1 DEF LoopInv, InLine
      <3> QED BY <3>1, <3>2, <3>3, <3>4, Zenon DEF InLine, Loop!AliveRequest
    <2> QED BY <1>1, <1>2, <1>6, <2>3, <2>4, AnswersStay DEF Loop!Answers
  <1>8. CASE ~Loop!AliveRequest(h)
    <2>1. message' = <<>> /\ Len(message') = 0
      BY <1>1, <1>8
    <2>2. Done' = Done + 1
      BY <1>1, <1>2, <1>3, <1>4, <2>1 DEF Done
    <2>3. ASSUME NEW n \in 1 .. Len(accepted), NEW d
          PROVE  /\ Asked(n, d) => Asked(n, d)'
                 /\ Asked(n, d)' => Asked(n, d) \/ n = Done + 1
      BY <1>1, <1>4, <2>1, <2>2 DEF Asked
    <2>4. InLine'
      <3>1. \A n \in 1 .. Len(accepted)' : accepted'[n].number = n
        BY <1>1 DEF LoopInv, InLine
      <3>2. Done' >= 0
        BY <1>4, <2>2
      <3>4. \A k \in 1 .. Len(m_sendQueue)' :
               m_sendQueue'[k] = accepted'[Len(accepted)' - Len(m_sendQueue)' + k]
        <4> SUFFICES ASSUME NEW k \in 1 .. Len(m_sendQueue) - 1
                     PROVE  m_sendQueue[k + 1] = accepted[Len(accepted) - Len(m_sendQueue) + (k + 1)]
          <5>1. \A k \in 1 .. Len(m_sendQueue) - 1 :
                   Len(accepted) - (Len(m_sendQueue) - 1) + k
                     = Len(accepted) - Len(m_sendQueue) + (k + 1)
            BY <1>2
          <5> QED BY <1>1, <1>3, <5>1
        <4>1. k + 1 \in 1 .. Len(m_sendQueue)
          BY <1>2
        <4> QED BY <4>1 DEF LoopInv, InLine
      <3> QED BY <2>1, <3>1, <3>2, <3>4, Zenon DEF InLine
    <2>5. \A n \in 1 .. Len(accepted)' : \A d \in Loop!VirtualModules :
              /\ Asked(n, d) => Asked(n, d)'
              /\ Asked(n, d)' /\ Loop!AliveRequest(accepted'[n]) =>
                   n \in 1 .. Len(accepted) /\ Asked(n, d)
      BY <1>1, <1>5, <1>8, <2>3
    <2> QED BY <1>1, <1>2, <1>6, <2>4, <2>5, AnswersStay DEF Loop!Answers
  <1> QED BY <1>7, <1>8

LEMMA RecvKeeps ==
    ASSUME LoopInv, Loop!recvMessage
    PROVE  LoopInv'
  <1>1. /\ m_recvQueue # <<>> /\ received' = Append(received, Head(m_recvQueue))
        /\ m_recvQueue' = Tail(m_recvQueue) /\ m_sendQueue' = m_sendQueue
        /\ message' = message /\ i' = i /\ accepted' = accepted /\ wasFull' = wasFull
    BY DEF Loop!recvMessage
  <1>2. received \in Seq(LoopAnswers) /\ m_recvQueue \in Seq(LoopAnswers)
    BY DEF LoopInv, LoopTypeOK
  <1>3. /\ received' \in Seq(LoopAnswers) /\ m_recvQueue' \in Seq(LoopAnswers)
        /\ received' \o m_recvQueue' = received \o m_recvQueue
    BY <1>1, <1>2, MoveHead
  <1>4. Loop!Answers' = Loop!Answers
    BY <1>3 DEF Loop!Answers
  <1>5. LoopTypeOK'
    BY <1>1, <1>3 DEF LoopInv, LoopTypeOK
  <1>6. Done' = Done /\ \A n, d : Asked(n, d)' <=> Asked(n, d)
    BY <1>1 DEF Done, Asked
  <1>7. InLine'
    BY <1>1, <1>6 DEF LoopInv, InLine, Done
  <1>8. Len(accepted) <= Len(accepted)'
    BY <1>1 DEF LoopInv, LoopTypeOK
  <1> QED BY <1>1, <1>4, <1>5, <1>6, <1>7, <1>8, AnswersStay

LEMMA ProcessKeeps ==
    ASSUME LoopInv, Loop!processMessage, Loop!LoopbackAssumption
    PROVE  LoopInv'
  <1> DEFINE m == message[1]
             A == Loop!Answers
             VM == Loop!VirtualModules
  <1>1. /\ message # <<>> /\ i \in VM /\ i' = i + 1
        /\ message' = IF i' = NbModules THEN <<>> ELSE message
        /\ m_sendQueue' = m_sendQueue /\ received' = received /\ accepted' = accepted
        /\ IF Len(m_recvQueue) < RecvLimit
           THEN m_recvQueue' = Append(m_recvQueue, Loop!Answer(m, i)) /\ wasFull' = wasFull
           ELSE wasFull' = TRUE /\ m_recvQueue' = m_recvQueue
    BY DEF Loop!processMessage
  <1>2. /\ accepted \in Seq(LoopRequests) /\ m_sendQueue \in Seq(LoopRequests)
        /\ received \in Seq(LoopAnswers) /\ m_recvQueue \in Seq(LoopAnswers)
        /\ Len(accepted) \in Nat /\ Len(m_sendQueue) \in Nat /\ Len(message) = 1 /\ i \in Nat
    BY <1>1 DEF LoopInv, LoopTypeOK, InLine
  <1>3. /\ Done \in Nat /\ Done + 1 \in 1 .. Len(accepted) /\ m = accepted[Done + 1]
        /\ Loop!AliveRequest(m) /\ m \in LoopRequests /\ m.number = Done + 1
    <2>1. Done \in Nat /\ Done + 1 \in 1 .. Len(accepted)
      BY <1>2 DEF LoopInv, InLine, Done
    <2>2. message = <<accepted[Done + 1]>> /\ Loop!AliveRequest(accepted[Done + 1])
      BY <1>1 DEF LoopInv, InLine
    <2>3. m = accepted[Done + 1]
      BY <2>2
    <2>4. m \in LoopRequests
      BY <1>2, <2>1, <2>3
    <2>5. m.number = Done + 1
      BY <2>1, <2>3 DEF LoopInv, InLine
    <2> QED BY <2>1, <2>2, <2>3, <2>4, <2>5
  <1> HIDE DEF m
  <1>4. PICK ans \in LoopAnswers :
           /\ ans = Loop!Answer(m, i) /\ ans.number = Done + 1 /\ ans.dest = i
           /\ ans.data = <<i>> /\ ans.remote = FALSE
    <2>1. <<i>> \in Seq(Nat)
      BY <1>2
    <2>2. PICK nr \in Nat, ty \in Loop!Types, cm \in {"alive", "other"}, de \in {255}, re \in {TRUE},
             da \in {<<>>} :
             m = [number |-> nr, type |-> ty, cmd |-> cm, dest |-> de, remote |-> re,
                  data |-> da]
      <3>1. m \in [number : Nat, type : Loop!Types, cmd : {"alive", "other"}, dest : {255},
                   remote : {TRUE}, data : {<<>>}]
        BY <1>3 DEF LoopRequests
      <3>2. /\ m = [number |-> m.number, type |-> m.type, cmd |-> m.cmd, dest |-> m.dest,
                    remote |-> m.remote, data |-> m.data]
            /\ m.number \in Nat /\ m.type \in Loop!Types /\ m.cmd \in {"alive", "other"}
            /\ m.dest \in {255} /\ m.remote \in {TRUE} /\ m.data \in {<<>>}
        BY <3>1
      <3> QED BY <3>2, Zenon
    <2>3. Loop!Answer(m, i) = [number |-> nr, type |-> ty, cmd |-> cm, dest |-> i,
                               remote |-> FALSE, data |-> <<i>>]
      BY <2>2, SMT DEF Loop!Answer
    <2>4. nr = Done + 1
      BY <1>3, <2>2
    <2> DEFINE e == [number |-> nr, type |-> ty, cmd |-> cm, dest |-> i, remote |-> FALSE,
                     data |-> <<i>>]
    <2>5. /\ e \in [number : Nat, type : Loop!Types, cmd : {"alive", "other"}, dest : Nat,
                    remote : {FALSE}, data : Seq(Nat)]
          /\ e.number = nr /\ e.dest = i /\ e.data = <<i>> /\ e.remote = FALSE
      BY <1>2, <2>1
    <2> HIDE DEF e
    <2> QED BY <2>3, <2>4, <2>5 DEF LoopAnswers, e
  <1>5. \A n \in 1 .. Len(accepted), d \in VM :
           Asked(n, d)' <=> Asked(n, d) \/ (n = Done + 1 /\ d = i)
    <2> SUFFICES ASSUME NEW n \in 1 .. Len(accepted), NEW d \in VM
                 PROVE  Asked(n, d)' <=> Asked(n, d) \/ (n = Done + 1 /\ d = i)
      OBVIOUS
    <2>1. d \in Int /\ d < NbModules /\ i < NbModules /\ d \in Nat
      BY <1>1 DEF Loop!VirtualModules, Loop!LoopbackAssumption
    <2>2. CASE i + 1 = NbModules
      <3>1. message' = <<>> /\ Len(message') = 0
        BY <1>1, <2>2
      <3>2. Done' = Done + 1
        BY <1>1, <1>2, <3>1 DEF Done
      <3>3. d < i \/ d = i
        BY <1>2, <2>1, <2>2
      <3> QED BY <1>1, <1>3, <3>1, <3>2, <3>3 DEF Asked
    <2>3. CASE i + 1 # NbModules
      <3>1. message' = message
        BY <1>1, <2>3
      <3>2. Done' = Done
        BY <1>1, <3>1 DEF Done
      <3>3. d < i + 1 <=> d < i \/ d = i
        BY <1>2, <2>1
      <3> QED BY <1>1, <3>1, <3>2, <3>3 DEF Asked
    <2> QED BY <2>2, <2>3
  <1>6. Done' >= 0 /\ Len(message)' \in {0, 1}
        /\ (message' = <<>> \/ (message' = <<accepted[Done' + 1]>>
                                  /\ Loop!AliveRequest(accepted[Done' + 1])))
    <2>1. CASE i + 1 = NbModules
      <3>1. message' = <<>> /\ Len(message') = 0
        BY <1>1, <2>1
      <3>2. Done' = Done + 1
        BY <1>1, <1>2, <3>1 DEF Done
      <3> QED BY <1>3, <3>1, <3>2
    <2>2. CASE i + 1 # NbModules
      <3>1. message' = message
        BY <1>1, <2>2
      <3>2. Done' = Done
        BY <1>1, <3>1 DEF Done
      <3> QED BY <1>1, <1>2, <1>3, <3>1, <3>2 DEF LoopInv, InLine
    <2> QED BY <2>1, <2>2
  <1>7. InLine'
    BY <1>1, <1>6, Zenon DEF LoopInv, InLine, Loop!AliveRequest
  <1>8. LoopTypeOK'
    <2>1. m_recvQueue' \in Seq(LoopAnswers)
      <3>1. CASE Len(m_recvQueue) < RecvLimit
        <4>1. m_recvQueue' = Append(m_recvQueue, ans)
          BY <1>1, <1>4, <3>1
        <4> QED BY <4>1, <1>2
      <3>2. CASE ~(Len(m_recvQueue) < RecvLimit)
        BY <1>1, <1>2, <3>2
      <3> QED BY <3>1, <3>2
    <2> QED BY <1>1, <1>2, <1>6, <2>1 DEF LoopTypeOK
  <1>9. A \in Seq(LoopAnswers) /\ Len(A) \in Nat
    BY AnswersType DEF LoopInv
  <1>10. VM' = VM
    BY DEF Loop!VirtualModules
  <1>11. ASSUME NEW a, Genuine(a)
         PROVE  Genuine(a)'
    <2>1. /\ ~a.remote /\ a.number \in 1 .. Len(accepted) /\ Loop!AliveRequest(accepted[a.number])
          /\ a.dest \in VM /\ a.data = <<a.dest>> /\ Asked(a.number, a.dest)
      BY <1>11 DEF Genuine
    <2>2. Asked(a.number, a.dest)'
      BY <1>5, <2>1
    <2> QED BY <1>1, <1>10, <2>1, <2>2 DEF Genuine, Loop!AliveRequest
  <1>12. CASE Len(m_recvQueue) < RecvLimit
    <2>1. A' = Append(A, ans) /\ wasFull' = wasFull
      <3>1. m_recvQueue' = Append(m_recvQueue, ans) /\ received' = received
            /\ wasFull' = wasFull
        BY <1>1, <1>4, <1>12
      <3>2. received \o Append(m_recvQueue, ans) = Append(received \o m_recvQueue, ans)
        BY <1>2, <1>4
      <3> QED BY <3>1, <3>2 DEF Loop!Answers
    <2>2. /\ Len(A') = Len(A) + 1 /\ A'[Len(A) + 1] = ans
          /\ \A k \in 1 .. Len(A) : A'[k] = A[k]
      BY <1>4, <1>9, <2>1
    <2>3. \A k \in 1 .. Len(A') : k \in 1 .. Len(A) \/ k = Len(A) + 1
      BY <1>9, <2>2
    <2>4. Genuine(ans)'
      <3>1. Asked(ans.number, ans.dest)'
        BY <1>1, <1>3, <1>4, <1>5
      <3>2. ~ans.remote
        BY <1>4
      <3>3. ans.number \in 1 .. Len(accepted)' /\ Loop!AliveRequest(accepted'[ans.number])
        BY <1>1, <1>3, <1>4
      <3>4. ans.dest \in VM /\ ans.data = <<ans.dest>>
        BY <1>1, <1>4
      <3> QED BY <1>10, <3>1, <3>2, <3>3, <3>4 DEF Genuine, Loop!AliveRequest
    <2>5. ASSUME NEW k \in 1 .. Len(A')
          PROVE  Genuine(A[k])'
      <3>1. CASE k \in 1 .. Len(A)
        <4>1. PICK a : a = A[k]
          OBVIOUS
        <4>2. Genuine(a)
          BY <3>1, <4>1 DEF LoopInv
        <4>3. Genuine(a)'
          BY <1>11, <4>2
        <4>4. (A[k])' = a
          BY <2>2, <3>1, <4>1
        <4> HIDE DEF A
        <4> QED BY <4>3, <4>4 DEF Genuine
      <3>2. CASE k = Len(A) + 1
        <4>1. (A[k])' = ans
          BY <2>2, <3>2
        <4> HIDE DEF A
        <4> QED BY <2>4, <4>1 DEF Genuine
      <3> QED BY <2>3, <3>1, <3>2
    <2>6. Ordered'
      <3> SUFFICES ASSUME NEW k \in 1 .. Len(A'), k > 1
                   PROVE  Loop!Before(A'[k - 1], A'[k])
        BY DEF Ordered, Loop!Before
      <3>1. CASE k \in 1 .. Len(A)
        <4>1. k - 1 \in 1 .. Len(A)
          BY <1>9, <3>1
        <4>2. Loop!Before(A[k - 1], A[k])
          BY <3>1 DEF LoopInv, Ordered
        <4> QED BY <2>2, <3>1, <4>1, <4>2
      <3>2. CASE k = Len(A) + 1
        <4>1. k - 1 = Len(A) /\ Len(A) \in 1 .. Len(A)
          BY <1>9, <3>2
        <4> DEFINE a == A[Len(A)]
        <4>2. Genuine(a) /\ a \in LoopAnswers
          BY <4>1, <1>9 DEF LoopInv
        <4>3. a.number <= Done \/ (a.number = Done + 1 /\ a.dest < i)
          BY <4>2 DEF Genuine, Asked
        <4>4. a.number \in Nat
          BY <4>2 DEF LoopAnswers
        <4> HIDE DEF a
        <4>5. Loop!Before(a, ans)
          BY <1>3, <1>4, <4>3, <4>4 DEF Loop!Before
        <4> QED BY <2>2, <3>2, <4>1, <4>5 DEF a
      <3> QED BY <2>3, <3>1, <3>2
    <2>7. Complete'
      <3>1. CASE wasFull
        BY <2>1, <3>1 DEF Complete
      <3>2. CASE ~wasFull
        <4> SUFFICES ASSUME NEW n \in 1 .. Len(accepted), NEW d \in VM,
                            Loop!AliveRequest(accepted[n]), Asked(n, d)'
                     PROVE  \E k \in 1 .. Len(A') : A'[k].number = n /\ A'[k].dest = d
          BY <1>1, <1>10 DEF Complete, Loop!AliveRequest
        <4>1. CASE Asked(n, d)
          <5>1. \E k \in 1 .. Len(A) : A[k].number = n /\ A[k].dest = d
            BY <3>2, <4>1 DEF LoopInv, Complete
          <5>2. \A k \in 1 .. Len(A) : k \in 1 .. Len(A')
            BY <1>9, <2>2
          <5> QED BY <5>1, <5>2, <2>2
        <4>2. CASE n = Done + 1 /\ d = i
          <5>1. Len(A) + 1 \in 1 .. Len(A')
            BY <1>9, <2>2
          <5> QED BY <1>4, <2>2, <4>2, <5>1
        <4> QED BY <1>5, <4>1, <4>2
      <3> QED BY <3>1, <3>2
    <2> QED BY <1>7, <1>8, <2>5, <2>6, <2>7 DEF LoopInv
  <1>13. CASE ~(Len(m_recvQueue) < RecvLimit)
    <2>1. wasFull' = TRUE /\ m_recvQueue' = m_recvQueue
      BY <1>1, <1>13
    <2>2. A' = A
      BY <1>1, <2>1 DEF Loop!Answers
    <2>3. ASSUME NEW k \in 1 .. Len(A')
          PROVE  Genuine(A[k])'
      <3>1. PICK a : a = A[k]
        OBVIOUS
      <3>2. Genuine(a)
        BY <2>2, <3>1 DEF LoopInv
      <3>3. Genuine(a)'
        BY <1>11, <3>2
      <3>4. (A[k])' = a
        BY <2>2, <3>1
      <3> HIDE DEF A
      <3> QED BY <3>3, <3>4 DEF Genuine
    <2>4. Ordered'
      BY <2>2 DEF LoopInv, Ordered, Loop!Before
    <2>5. Complete'
      BY <2>1 DEF Complete
    <2> QED BY <1>7, <1>8, <2>3, <2>4, <2>5 DEF LoopInv
  <1> QED BY <1>12, <1>13

LEMMA LoopInvStep ==
    ASSUME Loop!LoopbackAssumption, LoopInv, [Loop!Next]_loopVars
    PROVE  LoopInv'
  <1>1. CASE UNCHANGED loopVars
    <2>1. /\ m_sendQueue' = m_sendQueue /\ m_recvQueue' = m_recvQueue /\ message' = message
          /\ i' = i /\ received' = received /\ accepted' = accepted /\ wasFull' = wasFull
      BY <1>1 DEF loopVars
    <2>2. Done' = Done /\ Loop!Answers' = Loop!Answers
      BY <2>1 DEF Done, Loop!Answers
    <2>3. LoopTypeOK'
      BY <2>1 DEF LoopInv, LoopTypeOK
    <2>4. InLine'
      BY <2>1, <2>2 DEF LoopInv, InLine, Loop!AliveRequest
    <2>5. \A k \in 1 .. Len(Loop!Answers') : Genuine(Loop!Answers[k])'
      BY <2>1, <2>2 DEF LoopInv, Genuine, Asked
    <2>6. Ordered' /\ Complete'
      BY <2>1, <2>2 DEF LoopInv, Ordered, Complete, Asked, Loop!Before, Loop!AliveRequest, Loop!VirtualModules
    <2> QED BY <2>2, <2>3, <2>4, <2>5, <2>6 DEF LoopInv
  <1> QED BY <1>1, SendKeeps, TakeKeeps, ProcessKeeps, RecvKeeps DEF Loop!Next

LEMMA LoopInvImplies ==
    ASSUME LoopInv, Loop!LoopbackAssumption
    PROVE  Loop!AnswersExact
  <1> DEFINE A == Loop!Answers
  <1>1. A \in Seq(LoopAnswers) /\ Len(A) \in Nat /\ DOMAIN A = 1 .. Len(A)
    BY AnswersType DEF LoopInv
  <1>2. \A k \in DOMAIN A :
           /\ ~A[k].remote /\ Loop!AliveRequest(accepted[A[k].number])
           /\ A[k].dest \in Loop!VirtualModules /\ A[k].data = <<A[k].dest>>
           /\ k > 1 => Loop!Before(A[k - 1], A[k])
    BY <1>1 DEF LoopInv, Genuine, Ordered
  <1>3. ASSUME ~wasFull, NEW n \in Loop!Processed, Loop!AliveRequest(accepted[n])
        PROVE  {A[k].dest : k \in {x \in DOMAIN A : A[x].number = n}} = Loop!VirtualModules
    <2>1. n \in 1 .. Len(accepted) /\ n <= Done
      <3>1. PICK l \in 1 .. Len(accepted) - Len(m_sendQueue) - Len(message) :
               n = accepted[l].number
        BY DEF Loop!Processed
      <3>2. l \in 1 .. Len(accepted) /\ l <= Done
        BY DEF LoopInv, LoopTypeOK, Done
      <3> QED BY <3>1, <3>2 DEF LoopInv, InLine
    <2>2. \A d \in Loop!VirtualModules : \E k \in 1 .. Len(A) : A[k].number = n /\ A[k].dest = d
      BY <1>3, <2>1 DEF LoopInv, Complete, Asked
    <2>3. \A k \in DOMAIN A : A[k].dest \in Loop!VirtualModules
      BY <1>2
    <2> HIDE DEF A
    <2> QED BY <1>1, <2>2, <2>3
  <1> QED BY <1>2, <1>3, Zenon DEF Loop!AnswersExact

-----------------------------------------------------------------------------
(* The console, for any number of interfaces, modules and texts.           *)

Posts == Talkers \X Nat
Tabs == Seq(Talkers \X Seq(Nat))

TextTypeOK ==
    /\ interfaces \subseteq Handlers /\ m_observers \in [Handlers -> Nat]
    /\ consoleOpen \in BOOLEAN /\ postedTexts \in Seq(Posts)
    /\ m_tabWidget \in Tabs
    /\ said \in [Talkers -> Nat] /\ cleared \in [Talkers -> Nat]

ObserverOnce ==
    \A h \in interfaces : m_observers[h] = (IF consoleOpen THEN 1 ELSE 0)

Differ(tabs) == \A j, k \in 1 .. Len(tabs) : tabs[j][1] = tabs[k][1] => j = k

\* The text a list of tabs has for a module, and the texts of it in a list of posts.
TextAmong(tabs, d) ==
    IF \E k \in DOMAIN tabs : tabs[k][1] = d
    THEN tabs[CHOOSE k \in DOMAIN tabs : tabs[k][1] = d][2] ELSE <<>>
PostsOf(posts, d) == Only(posts, {d} \X (Nat \ {0}))

\* What is in the tab t of a module and what is on its way, w, are the texts after
\* the one that was cleared, up to the last that was said.
InTurn(t, w, c, n) ==
    /\ Len(t) + Len(w) = n - c
    /\ \A k \in 1 .. Len(t) : t[k] = c + k
    /\ \A k \in 1 .. Len(w) : w[k][2] = c + Len(t) + k

TextsInTurn ==
    \A d \in Talkers :
      InTurn(TextAmong(m_tabWidget, d), PostsOf(postedTexts, d), cleared[d], said[d])

TextInv ==
    /\ TextTypeOK /\ ObserverOnce /\ Differ(m_tabWidget)
    /\ consoleOpen => TextsInTurn
    /\ ~consoleOpen => postedTexts = <<>> /\ m_tabWidget = <<>>

\* What is posted of a module.
LEMMA PostsType ==
    ASSUME NEW posts \in Seq(Posts), NEW d \in Talkers
    PROVE  /\ PostsOf(posts, d) \in Seq(Posts)
           /\ \A k \in 1 .. Len(PostsOf(posts, d)) :
                PostsOf(posts, d)[k][1] = d /\ PostsOf(posts, d)[k][2] \in Nat
  <1>1. PICK w : w = PostsOf(posts, d)
    OBVIOUS
  <1>2. w \in Seq(Posts) /\ Range(w) = Range(posts) \cap ({d} \X (Nat \ {0}))
    BY <1>1, OnlyRange DEF PostsOf
  <1>3. ASSUME NEW k \in 1 .. Len(w)
        PROVE  w[k][1] = d /\ w[k][2] \in Nat
    <2>1. w[k] \in Range(w)
      BY <1>2, InRange
    <2>2. w[k] \in {d} \X (Nat \ {0})
      BY <1>2, <2>1
    <2> QED BY <2>2
  <1> QED BY <1>1, <1>2, <1>3

\* The text of a module that has a tab, and of one that has none.
LEMMA TextIs ==
    ASSUME NEW tabs \in Tabs, Differ(tabs)
    PROVE  /\ \A k \in 1 .. Len(tabs) : TextAmong(tabs, tabs[k][1]) = tabs[k][2]
           /\ \A d : (\A k \in 1 .. Len(tabs) : tabs[k][1] # d) => TextAmong(tabs, d) = <<>>
           /\ \A d : TextAmong(tabs, d) \in Seq(Nat)
  <1>1. DOMAIN tabs = 1 .. Len(tabs) /\ \A k \in 1 .. Len(tabs) : tabs[k][2] \in Seq(Nat)
    BY DEF Tabs
  <1>2. ASSUME NEW k \in 1 .. Len(tabs)
        PROVE  TextAmong(tabs, tabs[k][1]) = tabs[k][2]
    <2>1. PICK d : d = tabs[k][1]
      OBVIOUS
    <2> DEFINE x == CHOOSE j \in DOMAIN tabs : tabs[j][1] = d
    <2>2. \E j \in DOMAIN tabs : tabs[j][1] = d
      BY <1>1, <2>1
    <2>3. x \in DOMAIN tabs /\ tabs[x][1] = d
      BY <2>2, Zenon
    <2>4. TextAmong(tabs, d) = tabs[x][2]
      BY <2>2, Zenon DEF TextAmong
    <2> HIDE DEF x
    <2>5. x = k
      BY <1>1, <2>1, <2>3 DEF Differ
    <2> QED BY <2>1, <2>4, <2>5
  <1>3. ASSUME NEW d, \A k \in 1 .. Len(tabs) : tabs[k][1] # d
        PROVE  TextAmong(tabs, d) = <<>>
    BY <1>1, <1>3 DEF TextAmong
  <1>4. ASSUME NEW d
        PROVE  TextAmong(tabs, d) \in Seq(Nat)
    <2>1. CASE \E k \in 1 .. Len(tabs) : tabs[k][1] = d
      BY <1>1, <1>2, <2>1
    <2>2. CASE ~\E k \in 1 .. Len(tabs) : tabs[k][1] = d
      <3>1. <<>> \in Seq(Nat)
        OBVIOUS
      <3> QED BY <1>3, <2>2, <3>1
    <2> QED BY <2>1, <2>2
  <1> QED BY <1>2, <1>3, <1>4

LEMMA TextInvInit ==
    ASSUME Texts!Init
    PROVE  TextInv
  <1>1. /\ interfaces = {} /\ m_observers = [h \in Handlers |-> 0] /\ consoleOpen = FALSE
        /\ postedTexts = <<>> /\ m_tabWidget = <<>>
        /\ said = [d \in Talkers |-> 0] /\ cleared = [d \in Talkers |-> 0]
    BY DEF Texts!Init, Texts!NoTexts
  <1>2. [h \in Handlers |-> 0] \in [Handlers -> Nat] /\ [d \in Talkers |-> 0] \in [Talkers -> Nat]
    OBVIOUS
  <1>3. TextTypeOK
    <2>1. interfaces \subseteq Handlers /\ m_observers \in [Handlers -> Nat] /\ consoleOpen \in BOOLEAN
      BY <1>1, <1>2
    <2>2. postedTexts \in Seq(Posts) /\ m_tabWidget \in Tabs
      BY <1>1 DEF Tabs
    <2>3. said \in [Talkers -> Nat] /\ cleared \in [Talkers -> Nat]
      BY <1>1, <1>2
    <2> QED BY <2>1, <2>2, <2>3 DEF TextTypeOK
  <1>4. ObserverOnce /\ Differ(m_tabWidget)
    BY <1>1 DEF ObserverOnce, Differ
  <1> QED BY <1>1, <1>3, <1>4 DEF TextInv

LEMMA TextInvImplies ==
    ASSUME TextInv
    PROVE  Texts!ConsoleExact
  <1>1. TextTypeOK /\ ObserverOnce /\ Differ(m_tabWidget)
    BY DEF TextInv
  <1>2. \A j, k \in DOMAIN m_tabWidget : m_tabWidget[j][1] = m_tabWidget[k][1] => j = k
    <2>1. DOMAIN m_tabWidget = 1 .. Len(m_tabWidget)
      BY <1>1 DEF TextTypeOK, Tabs
    <2> QED BY <1>1, <2>1, Zenon DEF Differ
  <1>3. ASSUME consoleOpen, NEW d \in Talkers
        PROVE  Texts!TabText(d) \o [k \in DOMAIN Texts!OnTheWay(d) |-> Texts!OnTheWay(d)[k][2]]
                 = [k \in 1 .. said[d] - cleared[d] |-> cleared[d] + k]
    <2>0. /\ Texts!TabText(d) = TextAmong(m_tabWidget, d)
          /\ Texts!OnTheWay(d) = PostsOf(postedTexts, d)
      BY Zenon DEF Texts!TabText, Texts!HasTab, TextAmong, Texts!OnTheWay, PostsOf, Texts!Only, Only
    <2>1. PICK t, w, c, n : /\ t = TextAmong(m_tabWidget, d) /\ w = PostsOf(postedTexts, d)
                            /\ c = cleared[d] /\ n = said[d]
      OBVIOUS
    <2>2. InTurn(t, w, c, n)
      BY <1>3, <2>1 DEF TextInv, TextsInTurn
    <2>3. t \in Seq(Nat) /\ w \in Seq(Posts) /\ c \in Nat /\ n \in Nat
      <3>1. m_tabWidget \in Tabs /\ postedTexts \in Seq(Posts)
            /\ cleared[d] \in Nat /\ said[d] \in Nat
        BY <1>1 DEF TextTypeOK
      <3> QED BY <1>1, <2>1, <3>1, TextIs, PostsType
    <2>4. \A k \in 1 .. Len(w) : w[k][2] \in Nat
      <3>1. postedTexts \in Seq(Posts)
        BY <1>1 DEF TextTypeOK
      <3> QED BY <2>1, <3>1, PostsType
    <2> DEFINE v == [k \in DOMAIN w |-> w[k][2]]
    <2>5. v \in Seq(Nat) /\ Len(v) = Len(w) /\ \A k \in 1 .. Len(v) : v[k] = w[k][2]
      <3>1. DOMAIN w = 1 .. Len(w) /\ Len(w) \in Nat
        BY <2>3
      <3>2. DOMAIN v = 1 .. Len(w) /\ \A k \in 1 .. Len(w) : v[k] = w[k][2]
        BY <3>1
      <3>3. v \in [1 .. Len(w) -> Nat]
        BY <2>4, <3>1
      <3> HIDE DEF v
      <3> QED BY <3>1, <3>2, <3>3
    <2> HIDE DEF v
    <2>6. /\ t \o v \in Seq(Nat) /\ Len(t \o v) = Len(t) + Len(v)
          /\ \A k \in 1 .. Len(t) : (t \o v)[k] = t[k]
          /\ \A k \in 1 .. Len(v) : (t \o v)[Len(t) + k] = v[k]
      <3>1. PICK S : S = Nat /\ t \in Seq(S) /\ v \in Seq(S)
        BY <2>3, <2>5
      <3>2. /\ t \o v \in Seq(S) /\ Len(t \o v) = Len(t) + Len(v)
            /\ \A k \in 1 .. Len(t) : (t \o v)[k] = t[k]
            /\ \A k \in 1 .. Len(v) : (t \o v)[Len(t) + k] = v[k]
        <4>1. t \in Seq(S) /\ v \in Seq(S)
          BY <3>1
        <4> QED BY <4>1, ConcatIndex
      <3> QED BY <3>1, <3>2
    <2> DEFINE u == t \o v
    <2>7. u \in Seq(Nat) /\ Len(u) = n - c /\ Len(t) \in Nat /\ Len(v) \in Nat
      BY <2>2, <2>3, <2>5, <2>6 DEF InTurn
    <2>8. \A k \in 1 .. Len(u) : u[k] = c + k
      <3> SUFFICES ASSUME NEW k \in 1 .. Len(u) PROVE u[k] = c + k
        OBVIOUS
      <3>1. CASE k <= Len(t)
        BY <2>2, <2>6, <2>7, <3>1 DEF InTurn
      <3>2. CASE k > Len(t)
        <4>1. k - Len(t) \in 1 .. Len(v) /\ k = Len(t) + (k - Len(t))
          BY <2>6, <2>7, <3>2
        <4>2. u[k] = v[k - Len(t)]
          BY <2>6, <4>1
        <4>3. v[k - Len(t)] = c + Len(t) + (k - Len(t))
          BY <2>2, <2>5, <4>1 DEF InTurn
        <4> HIDE DEF u
        <4> QED BY <2>3, <2>7, <4>1, <4>2, <4>3
      <3> QED BY <2>7, <3>1, <3>2
    <2> HIDE DEF u
    <2>9. u = [k \in 1 .. n - c |-> c + k]
      BY <2>7, <2>8
    <2> QED BY <2>0, <2>1, <2>9 DEF u, v
  <1> QED BY <1>1, <1>2, <1>3 DEF Texts!ConsoleExact, ObserverOnce
\* One more text is said and posted.
LEMMA InTurnSaid ==
    ASSUME NEW t \in Seq(Nat), NEW w \in Seq(Posts), NEW c \in Nat, NEW n \in Nat,
           NEW d \in Talkers, InTurn(t, w, c, n)
    PROVE  InTurn(t, Append(w, <<d, n + 1>>), c, n + 1)
  <1> DEFINE v == Append(w, <<d, n + 1>>)
  <1>1. /\ Len(v) = Len(w) + 1 /\ Len(w) \in Nat /\ Len(t) \in Nat
        /\ v[Len(w) + 1] = <<d, n + 1>> /\ \A k \in 1 .. Len(w) : v[k] = w[k]
    OBVIOUS
  <1>2. v[Len(w) + 1][2] = n + 1
    BY <1>1
  <1> HIDE DEF v
  <1>3. Len(t) + Len(w) = n - c /\ \A k \in 1 .. Len(w) : w[k][2] = c + Len(t) + k
    BY DEF InTurn
  <1>4. Len(t) + Len(v) = (n + 1) - c
    BY <1>1, <1>3
  <1>5. \A k \in 1 .. Len(v) : v[k][2] = c + Len(t) + k
    <2> SUFFICES ASSUME NEW k \in 1 .. Len(v) PROVE v[k][2] = c + Len(t) + k
      OBVIOUS
    <2>1. CASE k \in 1 .. Len(w)
      BY <1>1, <1>3, <2>1
    <2>2. CASE k = Len(w) + 1
      <3>1. v[k][2] = n + 1
        BY <1>2, <2>2
      <3>2. Len(t) \in Nat /\ Len(w) \in Nat /\ Len(t) + Len(w) = n - c
        BY <1>1, <1>3
      <3>3. c + Len(t) + k = n + 1
        BY <2>2, <3>2
      <3> QED BY <3>1, <3>3
    <2> QED BY <1>1, <2>1, <2>2
  <1> QED BY <1>4, <1>5 DEF InTurn, v

\* The text that is first on its way moves to the end of the tab.
LEMMA InTurnShown ==
    ASSUME NEW t \in Seq(Nat), NEW w \in Seq(Posts), NEW c \in Nat, NEW n \in Nat,
           w # <<>>, InTurn(t, w, c, n)
    PROVE  InTurn(Append(t, Head(w)[2]), Tail(w), c, n)
  <1> DEFINE u == Append(t, Head(w)[2])
             v == Tail(w)
  <1>1. Len(v) = Len(w) - 1 /\ Len(w) \in Nat \ {0} /\ Len(t) \in Nat
        /\ Head(w) = w[1] /\ \A k \in 1 .. Len(v) : v[k] = w[k + 1]
    OBVIOUS
  <1>2. Len(t) + Len(w) = n - c /\ \A k \in 1 .. Len(w) : w[k][2] = c + Len(t) + k
    BY DEF InTurn
  <1>3. Head(w)[2] = c + Len(t) + 1
    BY <1>1, <1>2
  <1>4. Len(u) = Len(t) + 1 /\ u[Len(t) + 1] = Head(w)[2] /\ \A k \in 1 .. Len(t) : u[k] = t[k]
    BY <1>1
  <1> HIDE DEF u, v
  <1>5. \A k \in 1 .. Len(u) : u[k] = c + k
    <2> SUFFICES ASSUME NEW k \in 1 .. Len(u) PROVE u[k] = c + k
      OBVIOUS
    <2>1. CASE k \in 1 .. Len(t)
      BY <1>4, <2>1 DEF InTurn
    <2>2. CASE k = Len(t) + 1
      BY <1>1, <1>3, <1>4, <2>2
    <2>3. k \in 1 .. Len(t) \/ k = Len(t) + 1
      <3>1. Len(u) = Len(t) + 1 /\ Len(t) \in Nat
        BY <1>1, <1>4
      <3> QED BY <3>1
    <2> QED BY <2>1, <2>2, <2>3
  <1>6. \A k \in 1 .. Len(v) : v[k][2] = c + Len(u) + k
    <2> SUFFICES ASSUME NEW k \in 1 .. Len(v) PROVE v[k][2] = c + Len(u) + k
      OBVIOUS
    <2>1. k + 1 \in 1 .. Len(w) /\ v[k] = w[k + 1]
      BY <1>1
    <2>2. w[k + 1][2] = c + Len(t) + (k + 1)
      BY <1>2, <2>1
    <2>3. c + Len(u) + k = c + Len(t) + (k + 1)
      BY <1>1, <1>4
    <2> QED BY <2>1, <2>2, <2>3
  <1>7. Len(u) + Len(v) = n - c
    <2>1. Len(u) = Len(t) + 1 /\ Len(v) = Len(w) - 1 /\ Len(t) + Len(w) = n - c
          /\ Len(t) \in Nat /\ Len(w) \in Nat
      BY <1>1, <1>2, <1>4
    <2> QED BY <2>1
  <1> QED BY <1>5, <1>6, <1>7 DEF InTurn, u, v

\* The tab is cleared.
LEMMA InTurnCleared ==
    ASSUME NEW t \in Seq(Nat), NEW w \in Seq(Posts), NEW c \in Nat, NEW n \in Nat,
           t # <<>>, InTurn(t, w, c, n)
    PROVE  t[Len(t)] \in Nat /\ InTurn(<<>>, w, t[Len(t)], n)
  <1>1. Len(t) \in 1 .. Len(t) /\ Len(w) \in Nat /\ Len(<<>>) = 0
    OBVIOUS
  <1>2. t[Len(t)] = c + Len(t)
    BY <1>1 DEF InTurn
  <1>3. Len(t) + Len(w) = n - c /\ \A k \in 1 .. Len(w) : w[k][2] = c + Len(t) + k
    BY DEF InTurn
  <1>4. 0 + Len(w) = n - (c + Len(t))
    BY <1>1, <1>3
  <1>5. \A k \in 1 .. Len(w) : w[k][2] = (c + Len(t)) + 0 + k
    BY <1>1, <1>3
  <1>6. InTurn(<<>>, w, c + Len(t), n)
    BY <1>1, <1>4, <1>5 DEF InTurn
  <1> QED BY <1>1, <1>2, <1>6

\* The console opens or closes, or an interface comes or goes.
LEMMA ObserversKeep ==
    ASSUME TextInv,
           \/ Texts!ConsolePlugin \/ Texts!ConsoleDestroyed
           \/ \E h \in Handlers : Texts!interfaceAdded(h) \/ Texts!interfaceRemoved(h)
    PROVE  TextInv'
  <1>1. TextTypeOK /\ ObserverOnce /\ Differ(m_tabWidget)
    BY DEF TextInv
  <1>2. CASE Texts!ConsolePlugin
    <2>1. /\ ~consoleOpen /\ consoleOpen' = TRUE
          /\ m_observers' = [h \in Handlers |-> m_observers[h] + (IF h \in interfaces THEN 1 ELSE 0)]
          /\ said' = [d \in Talkers |-> 0] /\ cleared' = [d \in Talkers |-> 0]
          /\ UNCHANGED <<interfaces, postedTexts, m_tabWidget>>
      BY <1>2 DEF Texts!ConsolePlugin, Texts!NoTexts
    <2>2. postedTexts = <<>> /\ m_tabWidget = <<>>
      BY <2>1 DEF TextInv
    <2>3. m_observers' \in [Handlers -> Nat] /\ said' \in [Talkers -> Nat] /\ cleared' \in [Talkers -> Nat]
      <3>1. \A h \in Handlers : m_observers[h] + (IF h \in interfaces THEN 1 ELSE 0) \in Nat
        BY <1>1 DEF TextTypeOK
      <3>2. m_observers' \in [Handlers -> Nat]
        BY <2>1, <3>1
      <3> QED BY <2>1, <3>2
    <2>4. TextTypeOK'
      BY <1>1, <2>1, <2>3 DEF TextTypeOK
    <2>5. ObserverOnce'
      BY <1>1, <2>1 DEF ObserverOnce, TextTypeOK
    <2>6. ASSUME NEW d \in Talkers
          PROVE  InTurn(TextAmong(<<>>, d), PostsOf(<<>>, d), cleared'[d], said'[d])
      <3>1. TextAmong(<<>>, d) = <<>> /\ PostsOf(<<>>, d) = <<>>
        BY OnlyEmpty DEF TextAmong, PostsOf
      <3>2. cleared'[d] = 0 /\ said'[d] = 0
        BY <2>1
      <3>3. InTurn(<<>>, <<>>, 0, 0)
        BY DEF InTurn
      <3> QED BY <3>1, <3>2, <3>3
    <2>7. TextsInTurn'
      BY <2>1, <2>2, <2>6 DEF TextsInTurn
    <2> QED BY <1>1, <2>1, <2>4, <2>5, <2>7 DEF TextInv
  <1>3. CASE Texts!ConsoleDestroyed
    <2>1. /\ consoleOpen /\ consoleOpen' = FALSE
          /\ m_observers' = [h \in Handlers |->
                               IF h \in interfaces THEN Texts!Unregistered(m_observers[h])
                                                   ELSE m_observers[h]]
          /\ postedTexts' = <<>> /\ m_tabWidget' = <<>>
          /\ UNCHANGED <<interfaces, said, cleared>>
      BY <1>3 DEF Texts!ConsoleDestroyed
    <2>2. \A h \in Handlers : Texts!Unregistered(m_observers[h]) \in Nat
      BY <1>1 DEF TextTypeOK, Texts!Unregistered
    <2>3. m_observers' \in [Handlers -> Nat]
      BY <1>1, <2>1, <2>2 DEF TextTypeOK
    <2>4. TextTypeOK'
      <3>1. <<>> \in Seq(Posts) /\ <<>> \in Tabs
        BY DEF Tabs
      <3> QED BY <1>1, <2>1, <2>3, <3>1 DEF TextTypeOK
    <2>5. ASSUME NEW h \in interfaces
          PROVE  m_observers'[h] = 0
      <3>1. h \in Handlers /\ m_observers[h] = 1
        BY <1>1, <2>1 DEF ObserverOnce, TextTypeOK
      <3> QED BY <2>1, <3>1 DEF Texts!Unregistered
    <2>6. Differ(<<>>)
      BY DEF Differ
    <2> QED BY <2>1, <2>4, <2>5, <2>6 DEF TextInv, ObserverOnce
  <1>4. ASSUME NEW h \in Handlers, Texts!interfaceAdded(h) \/ Texts!interfaceRemoved(h)
        PROVE  TextInv'
    <2>1. UNCHANGED <<consoleOpen, postedTexts, m_tabWidget, said, cleared>>
      BY <1>4 DEF Texts!interfaceAdded, Texts!interfaceRemoved
    <2>2. interfaces' \subseteq Handlers /\ m_observers' \in [Handlers -> Nat] /\ ObserverOnce'
      <3>1. CASE Texts!interfaceAdded(h)
        BY <1>1, <3>1 DEF TextTypeOK, ObserverOnce, Texts!interfaceAdded
      <3>2. CASE Texts!interfaceRemoved(h)
        BY <1>1, <3>2 DEF TextTypeOK, ObserverOnce, Texts!interfaceRemoved, Texts!Unregistered
      <3> QED BY <1>4, <3>1, <3>2
    <2>3. TextTypeOK'
      BY <1>1, <2>1, <2>2 DEF TextTypeOK
    <2>4. consoleOpen => TextsInTurn'
      BY <2>1 DEF TextInv, TextsInTurn
    <2> QED BY <1>1, <2>1, <2>2, <2>3, <2>4 DEF TextInv
  <1> QED BY <1>2, <1>3, <1>4

\* A message is posted, once for the one entry in the list of the handler.
LEMMA NotifyKeeps ==
    ASSUME TextInv, NEW h \in Handlers, NEW d \in Talkers, NEW text \in BOOLEAN,
           Texts!notifyNETVMessage(h, d, text)
    PROVE  TextInv'
  <1>1. TextTypeOK /\ ObserverOnce /\ Differ(m_tabWidget)
    BY DEF TextInv
  <1>2. /\ h \in interfaces /\ m_observers[h] > 0
        /\ said' = IF text THEN [said EXCEPT ![d] = @ + 1] ELSE said
        /\ postedTexts' = postedTexts \o [k \in 1 .. m_observers[h] |-> <<d, IF text THEN said'[d] ELSE 0>>]
        /\ UNCHANGED <<interfaces, m_observers, consoleOpen, m_tabWidget, cleared>>
    BY DEF Texts!notifyNETVMessage
  <1>3. consoleOpen /\ m_observers[h] = 1
    BY <1>1, <1>2 DEF ObserverOnce
  <1>4. said[d] \in Nat /\ cleared[d] \in Nat
    BY <1>1 DEF TextTypeOK
  <1>5. PICK x \in Nat : x = IF text THEN said'[d] ELSE 0
    BY <1>1, <1>2, <1>4 DEF TextTypeOK
  <1>6. postedTexts' = Append(postedTexts, <<d, x>>)
    <2>1. [k \in 1 .. 1 |-> <<d, x>>] = << <<d, x>> >>
      OBVIOUS
    <2>2. postedTexts' = postedTexts \o << <<d, x>> >>
      BY <1>2, <1>3, <1>5, <2>1
    <2>3. postedTexts \in Seq(Posts) /\ <<d, x>> \in Posts
      BY <1>1 DEF TextTypeOK, Posts
    <2> QED BY <2>2, <2>3
  <1>7. postedTexts \in Seq(Posts) /\ <<d, x>> \in Posts
    BY <1>1 DEF TextTypeOK, Posts
  <1>8. TextTypeOK'
    <2>1. postedTexts' \in Seq(Posts)
      BY <1>6, <1>7
    <2>2. said' \in [Talkers -> Nat]
      BY <1>1, <1>2 DEF TextTypeOK
    <2> QED BY <1>1, <1>2, <2>1, <2>2 DEF TextTypeOK
  <1>9. ASSUME NEW e \in Talkers
        PROVE  InTurn(TextAmong(m_tabWidget, e), PostsOf(postedTexts', e), cleared[e], said'[e])
    <2>1. PICK t, w, c, n : /\ t = TextAmong(m_tabWidget, e) /\ w = PostsOf(postedTexts, e)
                            /\ c = cleared[e] /\ n = said[e]
      OBVIOUS
    <2>2. InTurn(t, w, c, n)
      BY <1>3, <2>1 DEF TextInv, TextsInTurn
    <2>3. t \in Seq(Nat) /\ w \in Seq(Posts) /\ c \in Nat /\ n \in Nat
      <3>1. m_tabWidget \in Tabs /\ cleared[e] \in Nat /\ said[e] \in Nat
        BY <1>1 DEF TextTypeOK
      <3> QED BY <1>1, <1>7, <2>1, <3>1, TextIs, PostsType
    <2> DEFINE T == {e} \X (Nat \ {0})
    <2>4. PostsOf(postedTexts', e) = IF <<d, x>> \in T THEN Append(w, <<d, x>>) ELSE w
      <3> HIDE DEF T
      <3>1. Only(Append(postedTexts, <<d, x>>), T)
              = IF <<d, x>> \in T THEN Append(Only(postedTexts, T), <<d, x>>) ELSE Only(postedTexts, T)
        BY <1>7, OnlyAppend
      <3> QED BY <1>6, <2>1, <3>1, Zenon DEF PostsOf, T
    <2>5. <<d, x>> \in T <=> d = e /\ x # 0
      BY <1>5
    <2> HIDE DEF T
    <2>6. CASE text /\ d = e
      <3>1. said'[e] = n + 1
        BY <1>1, <1>2, <2>1, <2>6 DEF TextTypeOK
      <3>2. x = n + 1
        BY <1>5, <2>6, <3>1
      <3>3. PostsOf(postedTexts', e) = Append(w, <<d, n + 1>>)
        <4>1. <<d, x>> \in T
          BY <1>5, <2>3, <2>5, <2>6, <3>2
        <4> QED BY <2>4, <3>2, <4>1
      <3>4. InTurn(t, Append(w, <<d, n + 1>>), c, n + 1)
        BY <2>2, <2>3, InTurnSaid
      <3> QED BY <2>1, <3>1, <3>3, <3>4
    <2>7. CASE ~(text /\ d = e)
      <3>1. said'[e] = n
        BY <1>1, <1>2, <2>1, <2>7 DEF TextTypeOK
      <3>2. <<d, x>> \notin T
        BY <1>5, <2>5, <2>7
      <3> QED BY <2>1, <2>2, <2>4, <3>1, <3>2
    <2> QED BY <2>6, <2>7
  <1>10. TextsInTurn'
    BY <1>2, <1>9 DEF TextsInTurn
  <1> QED BY <1>1, <1>2, <1>3, <1>8, <1>10 DEF TextInv, ObserverOnce

\* The tab of the module is there, and the others have the same text.
LEMMA CreateTab ==
    ASSUME m_tabWidget \in Tabs, Differ(m_tabWidget), NEW d \in Talkers
    PROVE  /\ Texts!createTab(d) \in Tabs /\ Differ(Texts!createTab(d))
           /\ \E k \in 1 .. Len(Texts!createTab(d)) : Texts!createTab(d)[k][1] = d
           /\ \A e \in Talkers : TextAmong(Texts!createTab(d), e) = TextAmong(m_tabWidget, e)
  <1>1. DOMAIN m_tabWidget = 1 .. Len(m_tabWidget) /\ Len(m_tabWidget) \in Nat
    BY DEF Tabs
  <1>2. CASE Texts!HasTab(d)
    BY <1>1, <1>2 DEF Texts!HasTab, Texts!createTab
  <1>3. CASE ~Texts!HasTab(d)
    <2>1. PICK c : c = Append(m_tabWidget, <<d, <<>>>>)
      OBVIOUS
    <2>2. Texts!createTab(d) = c
      BY <1>3, <2>1 DEF Texts!createTab
    <2>3. <<d, <<>>>> \in Talkers \X Seq(Nat)
      <3>1. <<>> \in Seq(Nat)
        OBVIOUS
      <3> QED BY <3>1
    <2>4. /\ c \in Tabs /\ Len(c) = Len(m_tabWidget) + 1
          /\ c[Len(m_tabWidget) + 1] = <<d, <<>>>>
          /\ \A k \in 1 .. Len(m_tabWidget) : c[k] = m_tabWidget[k]
      BY <2>1, <2>3 DEF Tabs
    <2>5. c[Len(m_tabWidget) + 1][1] = d /\ c[Len(m_tabWidget) + 1][2] = <<>>
      BY <2>4
    <2>6. \A k \in 1 .. Len(m_tabWidget) : m_tabWidget[k][1] # d
      BY <1>1, <1>3 DEF Texts!HasTab
    <2>7. \A k : k \in 1 .. Len(c) <=> k \in 1 .. Len(m_tabWidget) \/ k = Len(m_tabWidget) + 1
      BY <1>1, <2>4
    <2>8. Differ(c)
      <3> SUFFICES ASSUME NEW j \in 1 .. Len(c), NEW k \in 1 .. Len(c), c[j][1] = c[k][1]
                   PROVE  j = k
        BY DEF Differ
      <3>1. CASE j \in 1 .. Len(m_tabWidget) /\ k \in 1 .. Len(m_tabWidget)
        BY <2>4, <3>1 DEF Differ
      <3>2. CASE ~(j \in 1 .. Len(m_tabWidget) /\ k \in 1 .. Len(m_tabWidget))
        BY <2>4, <2>5, <2>6, <2>7, <3>2
      <3> QED BY <3>1, <3>2
    <2>9. ASSUME NEW e \in Talkers
          PROVE  TextAmong(c, e) = TextAmong(m_tabWidget, e)
      <3>1. CASE \E k \in 1 .. Len(m_tabWidget) : m_tabWidget[k][1] = e
        <4>1. PICK k \in 1 .. Len(m_tabWidget) : m_tabWidget[k][1] = e
          BY <3>1
        <4>2. TextAmong(m_tabWidget, e) = m_tabWidget[k][2]
          BY <4>1, TextIs
        <4>3. TextAmong(c, e) = c[k][2]
          BY <2>4, <2>7, <2>8, <4>1, TextIs
        <4> QED BY <2>4, <4>1, <4>2, <4>3
      <3>2. CASE \A k \in 1 .. Len(m_tabWidget) : m_tabWidget[k][1] # e
        <4>1. TextAmong(m_tabWidget, e) = <<>>
          BY <3>2, TextIs
        <4>2. CASE e = d
          BY <2>4, <2>5, <2>7, <2>8, <4>1, <4>2, TextIs
        <4>3. CASE e # d
          <5>1. \A k \in 1 .. Len(c) : c[k][1] # e
            BY <2>4, <2>5, <2>7, <3>2, <4>3
          <5> QED BY <2>4, <2>8, <4>1, <5>1, TextIs
        <4> QED BY <4>2, <4>3
      <3> QED BY <3>1, <3>2
    <2> QED BY <2>2, <2>4, <2>5, <2>7, <2>8, <2>9
  <1> QED BY <1>2, <1>3

\* The text that is first on its way goes to the end of the tab of its module.
LEMMA ShowKeeps ==
    ASSUME TextInv, Texts!processMessage
    PROVE  TextInv'
  <1>1. TextTypeOK /\ ObserverOnce /\ Differ(m_tabWidget)
    BY DEF TextInv
  <1>2. PICK d, x : d = Head(postedTexts)[1] /\ x = Head(postedTexts)[2]
    OBVIOUS
  <1>3. PICK tabs : tabs = Texts!createTab(d)
    OBVIOUS
  <1>4. /\ postedTexts # <<>> /\ postedTexts' = Tail(postedTexts)
        /\ m_tabWidget' = IF x = 0 THEN m_tabWidget
                          ELSE [k \in DOMAIN tabs |->
                                  IF tabs[k][1] = d THEN <<d, Append(tabs[k][2], x)>> ELSE tabs[k]]
        /\ UNCHANGED <<interfaces, m_observers, consoleOpen, said, cleared>>
    BY <1>2, <1>3, Zenon DEF Texts!processMessage
  <1>5. /\ postedTexts \in Seq(Posts) /\ Tail(postedTexts) \in Seq(Posts)
        /\ d \in Talkers /\ x \in Nat /\ Head(postedTexts) = <<d, x>>
    <2>1. postedTexts \in Seq(Posts) /\ postedTexts # <<>>
      BY <1>1, <1>4 DEF TextTypeOK
    <2>2. Head(postedTexts) \in Talkers \X Nat /\ Tail(postedTexts) \in Seq(Posts)
      BY <2>1 DEF Posts
    <2> QED BY <1>2, <2>1, <2>2
  <1>6. m_tabWidget \in Tabs /\ Differ(m_tabWidget)
    BY <1>1 DEF TextTypeOK
  <1>7. /\ tabs \in Tabs /\ Differ(tabs) /\ (\E k \in 1 .. Len(tabs) : tabs[k][1] = d)
        /\ \A e \in Talkers : TextAmong(tabs, e) = TextAmong(m_tabWidget, e)
    BY <1>3, <1>5, <1>6, CreateTab
  <1>8. /\ m_tabWidget' \in Tabs /\ Differ(m_tabWidget')
        /\ \A e \in Talkers : TextAmong(m_tabWidget', e)
             = IF e = d /\ x # 0 THEN Append(TextAmong(m_tabWidget, e), x) ELSE TextAmong(m_tabWidget, e)
    <2>1. CASE x = 0
      BY <1>4, <1>6, <2>1
    <2>2. CASE x # 0
      <3>1. PICK new : new = [k \in DOMAIN tabs |->
                               IF tabs[k][1] = d THEN <<d, Append(tabs[k][2], x)>> ELSE tabs[k]]
        OBVIOUS
      <3>2. m_tabWidget' = new
        BY <1>4, <2>2, <3>1
      <3>3. /\ DOMAIN tabs = 1 .. Len(tabs) /\ Len(tabs) \in Nat
            /\ \A k \in 1 .. Len(tabs) : tabs[k] \in Talkers \X Seq(Nat)
        BY <1>7 DEF Tabs
      <3>4. ASSUME NEW k \in 1 .. Len(tabs)
            PROVE  /\ new[k] \in Talkers \X Seq(Nat) /\ new[k][1] = tabs[k][1]
                   /\ new[k][2] = IF tabs[k][1] = d THEN Append(tabs[k][2], x) ELSE tabs[k][2]
        <4>1. CASE tabs[k][1] = d
          <5>1. new[k] = <<d, Append(tabs[k][2], x)>>
            BY <3>1, <3>3, <4>1
          <5>2. Append(tabs[k][2], x) \in Seq(Nat)
            BY <1>5, <3>3
          <5>3. PICK ap \in Seq(Nat) : ap = Append(tabs[k][2], x) /\ new[k] = <<d, ap>>
            BY <5>1, <5>2
          <5>4. new[k] \in Talkers \X Seq(Nat) /\ new[k][1] = d /\ new[k][2] = ap
            <6>1. d \in Talkers
              BY <1>5
            <6>2. <<d, ap>> \in Talkers \X Seq(Nat) /\ <<d, ap>>[1] = d /\ <<d, ap>>[2] = ap
              BY <6>1
            <6>3. new[k] = <<d, ap>>
              BY <5>3
            <6> QED BY <6>2, <6>3, Zenon
          <5> QED BY <4>1, <5>3, <5>4
        <4>2. CASE tabs[k][1] # d
          BY <3>1, <3>3, <4>2
        <4> QED BY <4>1, <4>2
      <3>5. new \in Tabs /\ Len(new) = Len(tabs)
        <4>1. new \in [1 .. Len(tabs) -> Talkers \X Seq(Nat)]
          BY <3>1, <3>3, <3>4
        <4> QED BY <3>3, <4>1 DEF Tabs
      <3>6. Differ(new)
        BY <1>7, <3>4, <3>5 DEF Differ
      <3>7. ASSUME NEW e \in Talkers
            PROVE  TextAmong(new, e) = IF e = d THEN Append(TextAmong(tabs, e), x) ELSE TextAmong(tabs, e)
        <4>1. CASE \E k \in 1 .. Len(tabs) : tabs[k][1] = e
          <5>1. PICK k \in 1 .. Len(tabs) : tabs[k][1] = e
            BY <4>1
          <5>2. TextAmong(tabs, e) = tabs[k][2]
            BY <1>7, <5>1, TextIs
          <5>3. TextAmong(new, e) = new[k][2]
            BY <3>4, <3>5, <3>6, <5>1, TextIs
          <5> QED BY <3>4, <5>1, <5>2, <5>3
        <4>2. CASE \A k \in 1 .. Len(tabs) : tabs[k][1] # e
          <5>1. TextAmong(tabs, e) = <<>>
            BY <1>7, <4>2, TextIs
          <5>2. TextAmong(new, e) = <<>>
            <6>1. \A k \in 1 .. Len(new) : new[k][1] # e
              BY <3>4, <3>5, <4>2
            <6> QED BY <3>5, <3>6, <6>1, TextIs
          <5>3. e # d
            BY <1>7, <4>2
          <5> QED BY <5>1, <5>2, <5>3
        <4> QED BY <4>1, <4>2
      <3> QED BY <1>7, <2>2, <3>2, <3>5, <3>6, <3>7
    <2> QED BY <2>1, <2>2
  <1>9. TextTypeOK'
    BY <1>1, <1>4, <1>5, <1>8 DEF TextTypeOK
  <1>10. consoleOpen
    BY <1>4 DEF TextInv, TextTypeOK
  <1>11. ASSUME NEW e \in Talkers
         PROVE  InTurn(TextAmong(m_tabWidget', e), PostsOf(postedTexts', e), cleared[e], said[e])
    <2>1. PICK t, w, c, n : /\ t = TextAmong(m_tabWidget, e) /\ w = PostsOf(postedTexts, e)
                            /\ c = cleared[e] /\ n = said[e]
      OBVIOUS
    <2>2. InTurn(t, w, c, n)
      BY <1>10, <2>1 DEF TextInv, TextsInTurn
    <2>3. t \in Seq(Nat) /\ w \in Seq(Posts) /\ c \in Nat /\ n \in Nat
      <3>1. cleared[e] \in Nat /\ said[e] \in Nat
        BY <1>1 DEF TextTypeOK
      <3> QED BY <1>5, <1>6, <2>1, <3>1, TextIs, PostsType
    <2> DEFINE T == {e} \X (Nat \ {0})
    <2>4. IF <<d, x>> \in T
          THEN w # <<>> /\ Head(w) = <<d, x>> /\ PostsOf(postedTexts', e) = Tail(w)
          ELSE PostsOf(postedTexts', e) = w
      <3> HIDE DEF T
      <3>1. PICK p : p = postedTexts
        OBVIOUS
      <3>2. p \in Seq(Posts) /\ p # <<>> /\ Head(p) = <<d, x>>
        BY <1>4, <1>5, <3>1
      <3>3. IF Head(p) \in T
            THEN /\ Only(p, T) # <<>> /\ Head(Only(p, T)) = Head(p)
                 /\ Only(Tail(p), T) = Tail(Only(p, T))
            ELSE Only(Tail(p), T) = Only(p, T)
        BY <3>2, OnlyTail
      <3>4. w = Only(p, T) /\ PostsOf(postedTexts', e) = Only(Tail(p), T)
        BY <1>4, <2>1, <3>1, Zenon DEF PostsOf, T
      <3> QED BY <3>2, <3>3, <3>4
    <2>5. <<d, x>> \in T <=> d = e /\ x # 0
      BY <1>5
    <2> HIDE DEF T
    <2>6. CASE d = e /\ x # 0
      <3>1. TextAmong(m_tabWidget', e) = Append(t, Head(w)[2])
        BY <1>8, <2>1, <2>4, <2>5, <2>6
      <3>2. w # <<>> /\ PostsOf(postedTexts', e) = Tail(w)
        BY <2>4, <2>5, <2>6
      <3> QED BY <2>1, <2>2, <2>3, <3>1, <3>2, InTurnShown
    <2>7. CASE ~(d = e /\ x # 0)
      <3>1. TextAmong(m_tabWidget', e) = t /\ PostsOf(postedTexts', e) = w
        BY <1>8, <2>1, <2>4, <2>5, <2>7
      <3> QED BY <2>1, <2>2, <3>1
    <2> QED BY <2>6, <2>7
  <1>12. TextsInTurn'
    BY <1>4, <1>11 DEF TextsInTurn
  <1> QED BY <1>1, <1>4, <1>8, <1>9, <1>10, <1>12 DEF TextInv, ObserverOnce

\* A tab is cleared of what it shows.
LEMMA ClearKeeps ==
    ASSUME TextInv, NEW k \in DOMAIN m_tabWidget, Texts!clearButtonClicked(k)
    PROVE  TextInv'
  <1>1. TextTypeOK /\ ObserverOnce /\ Differ(m_tabWidget)
    BY DEF TextInv
  <1>2. PICK d, t : d = m_tabWidget[k][1] /\ t = m_tabWidget[k][2]
    OBVIOUS
  <1>3. /\ t # <<>>
        /\ m_tabWidget' = [m_tabWidget EXCEPT ![k][2] = <<>>]
        /\ cleared' = [cleared EXCEPT ![d] = t[Len(t)]]
        /\ UNCHANGED <<interfaces, m_observers, consoleOpen, postedTexts, said>>
    BY <1>2 DEF Texts!clearButtonClicked
  <1>4. /\ m_tabWidget \in Tabs /\ Len(m_tabWidget) \in Nat
        /\ DOMAIN m_tabWidget = 1 .. Len(m_tabWidget) /\ k \in 1 .. Len(m_tabWidget)
        /\ \A j \in 1 .. Len(m_tabWidget) : m_tabWidget[j] \in Talkers \X Seq(Nat)
    BY <1>1, SMTT(30) DEF TextTypeOK, Tabs
  <1>5. d \in Talkers /\ t \in Seq(Nat) /\ t = TextAmong(m_tabWidget, d)
    BY <1>1, <1>2, <1>4, TextIs
  <1>6. consoleOpen
    BY <1>4 DEF TextInv, TextTypeOK
  <1>7. ASSUME NEW j \in 1 .. Len(m_tabWidget)
        PROVE  /\ m_tabWidget'[j] \in Talkers \X Seq(Nat) /\ m_tabWidget'[j][1] = m_tabWidget[j][1]
               /\ m_tabWidget'[j][2] = IF j = k THEN <<>> ELSE m_tabWidget[j][2]
    <2>1. CASE j = k
      <3>1. PICK a \in Talkers, b \in Seq(Nat) : m_tabWidget[k] = <<a, b>>
        BY <1>4
      <3>2. m_tabWidget'[j] = [m_tabWidget[k] EXCEPT ![2] = <<>>]
        BY <1>3, <1>4, <2>1
      <3>3. m_tabWidget'[j] = <<a, <<>>>>
        BY <3>1, <3>2
      <3>4. PICK no \in Seq(Nat) : no = <<>>
        <4>1. <<>> \in Seq(Nat)
          OBVIOUS
        <4> QED BY <4>1
      <3>5. m_tabWidget'[j] = <<a, no>>
        BY <3>3, <3>4
      <3>6. m_tabWidget'[j] \in Talkers \X Seq(Nat) /\ m_tabWidget'[j][1] = a /\ m_tabWidget'[j][2] = no
        BY <3>5
      <3> QED BY <2>1, <3>1, <3>4, <3>6
    <2>2. CASE j # k
      <3>1. m_tabWidget'[j] = m_tabWidget[j]
        BY <1>3, <1>4, <2>2
      <3> QED BY <1>4, <2>2, <3>1
    <2> QED BY <2>1, <2>2
  <1>8. m_tabWidget' \in Tabs /\ Len(m_tabWidget') = Len(m_tabWidget)
    <2>1. DOMAIN m_tabWidget' = 1 .. Len(m_tabWidget)
      BY <1>3, <1>4
    <2>2. m_tabWidget' = [j \in 1 .. Len(m_tabWidget) |-> m_tabWidget'[j]]
      BY <1>3, <1>4
    <2>3. m_tabWidget' \in [1 .. Len(m_tabWidget) -> Talkers \X Seq(Nat)]
      BY <1>7, <2>2
    <2> QED BY <1>4, <2>1, <2>3 DEF Tabs
  <1>9. Differ(m_tabWidget')
    BY <1>1, <1>7, <1>8 DEF Differ
  <1>10. ASSUME NEW e \in Talkers
         PROVE  TextAmong(m_tabWidget', e) = IF e = d THEN <<>> ELSE TextAmong(m_tabWidget, e)
    <2>1. CASE \E j \in 1 .. Len(m_tabWidget) : m_tabWidget[j][1] = e
      <3>1. PICK j \in 1 .. Len(m_tabWidget) : m_tabWidget[j][1] = e
        BY <2>1
      <3>2. TextAmong(m_tabWidget, e) = m_tabWidget[j][2]
        BY <1>1, <1>4, <3>1, TextIs
      <3>3. TextAmong(m_tabWidget', e) = m_tabWidget'[j][2]
        BY <1>7, <1>8, <1>9, <3>1, TextIs
      <3>4. j = k <=> e = d
        BY <1>1, <1>2, <1>4, <3>1 DEF Differ
      <3> QED BY <1>7, <3>2, <3>3, <3>4
    <2>2. CASE \A j \in 1 .. Len(m_tabWidget) : m_tabWidget[j][1] # e
      <3>1. TextAmong(m_tabWidget, e) = <<>> /\ e # d
        BY <1>1, <1>2, <1>4, <2>2, TextIs
      <3>2. TextAmong(m_tabWidget', e) = <<>>
        <4>1. \A j \in 1 .. Len(m_tabWidget') : m_tabWidget'[j][1] # e
          BY <1>7, <1>8, <2>2
        <4> QED BY <1>8, <1>9, <4>1, TextIs
      <3> QED BY <3>1, <3>2
    <2> QED BY <2>1, <2>2
  <1>11. t[Len(t)] \in Nat
    BY <1>3, <1>5
  <1>12. TextTypeOK'
    <2>1. cleared' \in [Talkers -> Nat]
      BY <1>1, <1>3, <1>5, <1>11 DEF TextTypeOK
    <2> QED BY <1>1, <1>3, <1>8, <2>1 DEF TextTypeOK
  <1>13. ASSUME NEW e \in Talkers
         PROVE  InTurn(TextAmong(m_tabWidget', e), PostsOf(postedTexts, e), cleared'[e], said[e])
    <2>1. PICK s, w, c, n : /\ s = TextAmong(m_tabWidget, e) /\ w = PostsOf(postedTexts, e)
                            /\ c = cleared[e] /\ n = said[e]
      OBVIOUS
    <2>2. InTurn(s, w, c, n)
      BY <1>6, <2>1 DEF TextInv, TextsInTurn
    <2>3. s \in Seq(Nat) /\ w \in Seq(Posts) /\ c \in Nat /\ n \in Nat
      <3>1. cleared[e] \in Nat /\ said[e] \in Nat /\ postedTexts \in Seq(Posts)
        BY <1>1 DEF TextTypeOK
      <3> QED BY <1>1, <1>4, <2>1, <3>1, TextIs, PostsType
    <2>4. CASE e = d
      <3>1. s = t /\ cleared'[e] = t[Len(t)] /\ TextAmong(m_tabWidget', e) = <<>>
        BY <1>1, <1>3, <1>5, <1>10, <2>1, <2>4 DEF TextTypeOK
      <3>2. InTurn(<<>>, w, t[Len(t)], n)
        BY <1>3, <1>5, <2>2, <2>3, <3>1, InTurnCleared
      <3> QED BY <2>1, <3>1, <3>2
    <2>5. CASE e # d
      <3>1. cleared'[e] = c /\ TextAmong(m_tabWidget', e) = s
        BY <1>1, <1>3, <1>10, <2>1, <2>5 DEF TextTypeOK
      <3> QED BY <2>1, <2>2, <3>1
    <2> QED BY <2>4, <2>5
  <1>14. TextsInTurn'
    BY <1>3, <1>13 DEF TextsInTurn
  <1> QED BY <1>1, <1>3, <1>6, <1>9, <1>12, <1>14 DEF TextInv, ObserverOnce

LEMMA TextInvStep ==
    ASSUME TextInv, [Texts!Next]_textVars
    PROVE  TextInv'
  <1>1. CASE UNCHANGED textVars
    BY <1>1 DEF textVars, TextInv, TextTypeOK, ObserverOnce, TextsInTurn
  <1>2. CASE Texts!Next
    <2>1. CASE \/ Texts!ConsolePlugin \/ Texts!ConsoleDestroyed
               \/ \E h \in Handlers : Texts!interfaceAdded(h) \/ Texts!interfaceRemoved(h)
      BY <2>1, ObserversKeep
    <2>2. CASE Texts!processMessage
      BY <2>2, ShowKeeps
    <2>3. ASSUME NEW h \in Handlers, NEW d \in Talkers, NEW text \in BOOLEAN,
                 Texts!notifyNETVMessage(h, d, text)
          PROVE  TextInv'
      BY <2>3, NotifyKeeps
    <2>4. ASSUME NEW k \in DOMAIN m_tabWidget, Texts!clearButtonClicked(k)
          PROVE  TextInv'
      BY <2>4, ClearKeeps
    <2> QED BY <1>2, <2>1, <2>2, <2>3, <2>4 DEF Texts!Next
  <1> QED BY <1>1, <1>2

-----------------------------------------------------------------------------
(* The messages, in all four parts.                                        *)

\* A message keeps its fields in both identifiers, is marked only when it hits a
\* filter, is answered by each virtual module once, and its text is shown in turn.
THEOREM Messages == Spec => []MessagesCarried
  <1> DEFINE Inv == /\ part = "bus" => BusInv
                    /\ part = "filter" => FilterInv
                    /\ part = "loopback" => LoopInv
                    /\ part = "console" => TextInv
  <1>1. Init => Inv
    BY BusInvInit, FilterInvInit, LoopInvInit, TextInvInit DEF Init
  <1>2. Inv /\ [Next]_vars => Inv'
    <2> SUFFICES ASSUME Inv, [Next]_vars PROVE Inv'
      OBVIOUS
    <2>1. part' = part
      BY DEF Next, vars
    <2>2. ASSUME part = "bus" PROVE BusInv'
      <3>1. [Bus!Next]_busVars
        BY <2>2 DEF Next, vars
      <3> QED BY <2>2, <3>1, BusInvStep
    <2>3. ASSUME part = "filter" PROVE FilterInv'
      <3>1. [Filter!Next]_filterVars
        BY <2>3 DEF Next, vars
      <3> QED BY <2>3, <3>1, FilterInvStep
    <2>4. ASSUME part = "loopback" PROVE LoopInv'
      <3>1. [Loop!Next]_loopVars
        BY <2>4 DEF Next, vars
      <3> QED BY <2>4, <3>1, LoopInvStep, MCAssumption DEF MCAssumption
    <2>5. ASSUME part = "console" PROVE TextInv'
      <3>1. [Texts!Next]_textVars
        BY <2>5 DEF Next, vars
      <3> QED BY <2>5, <3>1, TextInvStep
    <2> QED BY <2>1, <2>2, <2>3, <2>4, <2>5
  <1>3. Inv => MessagesCarried
    BY BusInvImplies, FilterInvImplies, LoopInvImplies, TextInvImplies, MCAssumption
       DEF MCAssumption, MessagesCarried
  <1> QED BY <1>1, <1>2, <1>3, PTL DEF Spec
=============================================================================
