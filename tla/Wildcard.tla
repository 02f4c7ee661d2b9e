------------------------------ MODULE Wildcard ------------------------------
(***************************************************************************)
(* wildcard/match.go: the loop of deepMatchRune, which keeps one           *)
(* backtracking point, with its two callers Match and MatchSimple, and     *)
(* MatchAsPatternPrefix.  Positions count from zero as in the code.        *)
(***************************************************************************)
EXTENDS Glob, Integers, FiniteSetsExt

CONSTANTS Letters,     \* bytes other than '*' and '?'
          MaxPattern,  \* bound: length of a pattern
          MaxName      \* bound: length of a name

VARIABLES pattern, name,
          simple,      \* called by MatchSimple
          s, p,        \* how much of the name and of the pattern is matched
          star, mark,  \* the last '*' and how much of the name it has taken
          result,      \* "call", "run", then "yes" or "no"
          steps        \* history: iterations of the loop

input == <<pattern, name, simple>>
vars == <<input, s, p, star, mark, result, steps>>

Words(alphabet, n) == UNION {[1..k -> alphabet] : k \in 0..n}

TypeOK ==
    /\ s \in 0..Len(name) /\ p \in 0..Len(pattern)
    /\ star \in -1..Len(pattern) - 1 /\ mark \in 0..Len(name)
    /\ result \in {"call", "run", "yes", "no"}
    /\ steps \in Nat

Init ==
    /\ pattern \in Words(Letters \cup {"*", "?"}, MaxPattern)
    /\ name \in Words(Letters, MaxName)
    /\ simple \in BOOLEAN
    /\ s = 0 /\ p = 0 /\ star = -1 /\ mark = 0
    /\ result = "call"
    /\ steps = 0

Return(yes) == result' = IF yes THEN "yes" ELSE "no"

\* Match and MatchSimple answer for the empty pattern and for "*" themselves.
Call ==
    /\ result = "call"
    /\ IF pattern = <<>> THEN Return(name = <<>>)
       ELSE IF pattern = <<"*">> THEN Return(TRUE)
       ELSE result' = "run"
    /\ UNCHANGED <<input, s, p, star, mark, steps>>

\* matchFixedSuffix on the rest of the name and pattern[from..to-1]: the end
\* of the name has that form.
matchFixedSuffix(from, to) ==
    \A i \in 1..to - from : pattern[from + i] \in {"?", name[Len(name) - (to - from) + i]}

\* Mutant: the look-ahead is forgotten.
FallsOffEndNever(from) == FALSE

\* MatchSimple, at a '*': a '?' of the star-free segment that begins at from
\* can be reached with the name exhausted.
FallsOffEnd(from) ==
    \E end \in from..Len(pattern) - 1 :
        /\ \A i \in from + 1..end + 1 : pattern[i] # "*"
        /\ end - from <= Len(name) - s
        /\ pattern[end + 1] = "?"
        /\ matchFixedSuffix(from, end)

\* One iteration that finds a '*'.
Star ==
    /\ result = "run"
    /\ p < Len(pattern) /\ pattern[p + 1] = "*"
    /\ star' = p /\ mark' = s /\ p' = p + 1
    /\ IF p + 1 = Len(pattern) \/ (simple /\ FallsOffEnd(p + 1)) THEN Return(TRUE) ELSE UNCHANGED result
    /\ steps' = steps + 1
    /\ UNCHANGED <<input, s>>

\* '?' with the name exhausted, in MatchSimple.
QuestionAtEnd ==
    /\ result = "run"
    /\ simple
    /\ p < Len(pattern) /\ pattern[p + 1] = "?" /\ s = Len(name)
    /\ Return(TRUE)
    /\ steps' = steps + 1
    /\ UNCHANGED <<input, s, p, star, mark>>

\* The next byte of the name fits the next symbol of the pattern.
Fits ==
    /\ p < Len(pattern) /\ s < Len(name)
    /\ pattern[p + 1] # "*"
    /\ pattern[p + 1] \in {"?", name[s + 1]}

Advance ==
    /\ result = "run"
    /\ Fits
    /\ s' = s + 1 /\ p' = p + 1
    /\ steps' = steps + 1
    /\ UNCHANGED <<input, star, mark, result>>

\* Mutant: the name is taken up again where it was.
BacktrackStays ==
    /\ result = "run"
    /\ s < Len(name) \/ p < Len(pattern)
    /\ ~Fits /\ (p < Len(pattern) => pattern[p + 1] # "*")
    /\ ~(simple /\ p < Len(pattern) /\ pattern[p + 1] = "?" /\ s = Len(name))
    /\ IF star < 0
       THEN Return(FALSE) /\ UNCHANGED <<s, p>>
       ELSE s' = mark /\ p' = star + 1 /\ UNCHANGED result
    /\ steps' = IF steps < 100 THEN steps + 1 ELSE steps
    /\ UNCHANGED <<input, star, mark>>

\* No fit: the last '*' swallows one more byte, if there is one.
Backtrack ==
    /\ result = "run"
    /\ s < Len(name) \/ p < Len(pattern)
    /\ ~Fits /\ (p < Len(pattern) => pattern[p + 1] # "*")
    /\ ~(simple /\ p < Len(pattern) /\ pattern[p + 1] = "?" /\ s = Len(name))
    /\ IF star < 0 \/ mark + 1 > Len(name)
       THEN Return(FALSE) /\ UNCHANGED <<s, p, mark>>
       ELSE mark' = mark + 1 /\ s' = mark + 1 /\ p' = star + 1 /\ UNCHANGED result
    /\ steps' = steps + 1
    /\ UNCHANGED <<input, star>>

\* Both are used up.
LoopEnd ==
    /\ result = "run"
    /\ s = Len(name) /\ p = Len(pattern)
    /\ Return(TRUE)
    /\ UNCHANGED <<input, s, p, star, mark, steps>>

Iterate == Call \/ Star \/ QuestionAtEnd \/ Advance \/ Backtrack \/ LoopEnd

Finished == result \in {"yes", "no"} /\ UNCHANGED vars

Next == Iterate \/ Finished

Spec == Init /\ [][Next]_vars

\* The loop ends at the first '*', which accepts, or at the first byte that
\* does not fit.
MatchAsPatternPrefix(pat, text) ==
    LET stop == {i \in 1..Len(pat) : i <= Len(text) /\ (pat[i] = "*" \/ pat[i] \notin {"?", text[i]})}
    IN IF stop = {} THEN Len(text) <= Len(pat) ELSE pat[Min(stop)] = "*"

-----------------------------------------------------------------------------
\* One backtracking point is enough: the loop answers what the definition by
\* all alternatives answers, for Match and, with its look-ahead before a
\* later '*' replaces the point, for MatchSimple.  MatchAsPatternPrefix accepts
\* exactly the texts that some name matched by the pattern begins with.
Correct ==
    /\ result = "call" => (MatchAsPatternPrefix(pattern, name) <=> Begins(pattern, name))
    /\ result \in {"yes", "no"} =>
        (result = "yes" <=> IF simple THEN MatchesSimple(pattern, name) ELSE Matches(pattern, name))

\* "Keep one backtracking point instead of recursively exploring both
\* alternatives": the work is bounded by the product of the two lengths, so the
\* loop ends, and neither position runs past the end of its text meanwhile.
QuadraticWork == TypeOK /\ steps <= (Len(name) + 2) * (Len(pattern) + 1)
=============================================================================
