----------------------------- MODULE Libraries -----------------------------
(***************************************************************************)
(* The sequential packages in one run: files (quick and safe), wildcard,   *)
(* ellipses, ilm and rng.  They share no state, so each behaviour is one   *)
(* of them, chosen at the start, while the others rest.                    *)
(***************************************************************************)
EXTENDS Quick, Integers

CONSTANTS Letters, MaxPattern, MaxName                                                      \* wildcard
CONSTANT  Args                                                                              \* ellipses
CONSTANTS Creations, Edits, Today, MaxEdits                                                 \* ilm
CONSTANTS Callers, Async, Lanes, BufferSize, Sizes, MaxOffset, MaxLen, MaxResets            \* rng

VARIABLE unit   \* the package this behaviour is of

VARIABLES pattern, name, simple, s, p, star, mark, result, steps                  \* wildcard
VARIABLES arg, rest, patterns, epc, out                                           \* ellipses
VARIABLES rule, edits, asked                                                      \* ilm
VARIABLES offset, size, fullReset, seed, subxor, tmp, call, strayed               \* rng

wVars == <<pattern, name, simple, s, p, star, mark, result, steps>>
eVars == <<arg, rest, patterns, epc, out>>
iVars == <<rule, edits, asked>>
rVars == <<offset, size, fullReset, seed, subxor, tmp, call, strayed>>

W == INSTANCE Wildcard
E == INSTANCE Ellipses WITH pc <- epc
I == INSTANCE Ilm
R == INSTANCE RngReader

-----------------------------------------------------------------------------
(* What the packages are while they rest *)

WRests ==
    /\ pattern = <<>> /\ name = <<>> /\ simple = FALSE
    /\ s = 0 /\ p = 0 /\ star = -1 /\ mark = 0 /\ result = "yes" /\ steps = 0

ERests == arg = [list |-> TRUE, text |-> <<>>] /\ rest = <<>> /\ patterns = <<>> /\ epc = "rests" /\ out = <<>>

RRests == R!Init /\ size = -1 /\ ~fullReset

QRests == QInit /\ named = NoFile /\ client = "any"

LibrariesInit ==
    /\ unit \in {"quick", "wildcard", "ellipses", "ilm", "rng"}
    /\ IF unit = "quick" THEN QInit ELSE QRests
    /\ IF unit = "wildcard" THEN W!Init ELSE WRests
    /\ IF unit = "ellipses" THEN E!Init ELSE ERests
    /\ I!Init
    /\ IF unit = "rng" THEN R!Init ELSE RRests

LibrariesNext ==
    \/ unit = "quick"    /\ QNext     /\ UNCHANGED <<unit, wVars, eVars, iVars, rVars>>
    \/ unit = "wildcard" /\ W!Iterate /\ UNCHANGED <<unit, allVars, eVars, iVars, rVars>>
    \/ unit = "ellipses" /\ E!Next    /\ UNCHANGED <<unit, allVars, wVars, iVars, rVars>>
    \/ unit = "ilm"      /\ I!Next    /\ UNCHANGED <<unit, allVars, wVars, eVars, rVars>>
    \/ unit = "rng"      /\ R!Next    /\ UNCHANGED <<unit, allVars, wVars, eVars, iVars>>

\* The matcher and the expansion go on until they have an answer; the others
\* may stop anywhere.
Rest ==
    /\ unit = "wildcard" => result \in {"yes", "no"}
    /\ unit = "ellipses" => epc \in {"done", "error"}
    /\ UNCHANGED <<unit, allVars, wVars, eVars, iVars, rVars>>

LibrariesSpec == LibrariesInit /\ [][LibrariesNext \/ Rest]_<<unit, allVars, wVars, eVars, iVars, rVars>>

-----------------------------------------------------------------------------
\* wildcard.Match, MatchSimple and MatchAsPatternPrefix answer what their
\* definitions by all alternatives answer.
Correct == W!Correct

\* The matching loop does no more work than the product of the two lengths.
QuadraticWork == W!QuadraticWork

\* ellipses: what an argument is expanded to is what it means, and exactly the
\* arguments without a meaning are refused.
ExpandsToMeaning == E!ExpandsToMeaning

\* ilm: an edited rule has the prefix last asked for, the tags last asked for
\* beside a single tag it was made with, the sizes it was made with, and no date
\* beside another timer.
RuleAsAsked == I!RuleAsAsked

\* rng: every read delivers the bytes of the stream at its offset.
StreamExact == R!StreamExact
============================================================================
