-------------------------------- MODULE Glob --------------------------------
(***************************************************************************)
(* What a wildcard pattern means, position by position: '*' stands for any *)
(* bytes, '?' for one byte, everything else for itself.  Patterns and      *)
(* names are sequences of symbols.  The algorithm of wildcard/match.go is  *)
(* in Wildcard, which is checked against these definitions; the policy     *)
(* modules use them.                                                       *)
(***************************************************************************)
EXTENDS Naturals, Sequences

\* from[n]: the places of the name from which its rest is matched by the last n
\* symbols of the pattern.  Where the name has ended, a lenient symbol accepts
\* with all that comes after it.
From(pattern, name, lenient) ==
    LET P == Len(pattern)
        N == Len(name)
        from[n \in 0..P] ==
            IF n = 0 THEN {N}
            ELSE LET c == pattern[P - n + 1]
                 IN  IF c = "*" THEN {j \in 0..N : \E k \in from[n - 1] : j <= k}
                     ELSE {j \in 0..N : IF j = N THEN c \in lenient
                                        ELSE c \in {"?", name[j + 1]} /\ j + 1 \in from[n - 1]}
    IN  from

Accepts(pattern, name, lenient) == 0 \in From(pattern, name, lenient)[Len(pattern)]

Matches(pattern, name) == Accepts(pattern, name, {})

\* MatchSimple differs in one thing: a '?' reached with the name exhausted
\* accepts the rest of the pattern.
MatchesSimple(pattern, name) == Accepts(pattern, name, {"?"})

\* The text can be continued to a name that the pattern matches: it may end
\* before any symbol.
Begins(pattern, text) == Accepts(pattern, text, {pattern[i] : i \in DOMAIN pattern})
=============================================================================
