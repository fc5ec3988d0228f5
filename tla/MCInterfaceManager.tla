------------------------- MODULE MCInterfaceManager -------------------------
EXTENDS InterfaceManager

\* Two modules.  The first may be found with no configuration, two variables in
\* either order, or one of them with a script variable; the second has one.
CONSTANTS m1, m2, a, b, s, c

TwoModules ==
    [m \in Modules |-> IF m = m1 THEN {<<>>, <<a, b>>, <<b, s, a>>} ELSE {<<>>, <<c>>}]

OneModule == [m \in Modules |-> {<<a, b, s>>, <<b, a, c>>}]
=============================================================================
