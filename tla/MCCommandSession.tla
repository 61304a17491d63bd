-------------------------- MODULE MCCommandSession --------------------------
(* Model-checking instances of CommandSession: two sessions s1, s2.        *)
EXTENDS CommandSession

CONSTANTS s1, s2

MCSess == {s1, s2}

\* Two sessions whose idle bounds differ: s1 below the global maximum,
\* s2 above it (so min() picks the global maximum).
MCIdleTimeout == [s \in MCSess |-> IF s = s1 THEN 1 ELSE 3]

\* Open timeouts shorter than the max-lifetime bound.
MCOpenTimeout == [s \in MCSess |-> 2]

\* s2 was opened without idle_timeout and without open_timeout.
MCIdleTimeoutUnset == [s \in MCSess |-> IF s = s1 THEN 1 ELSE NoTimeout]
MCOpenTimeoutUnset == [s \in MCSess |-> IF s = s1 THEN 2 ELSE NoTimeout]
=============================================================================
