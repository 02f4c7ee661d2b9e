------------------------------ MODULE Ellipses ------------------------------
(***************************************************************************)
(* ellipses/ellipses.go and list.go: patterns {N...M} and {a,b,...} in an  *)
(* argument are found from the right, each with the text around it, and    *)
(* expanded to every combination.                                          *)
(*                                                                         *)
(* A text is a sequence of symbols: digits, letters, braces, ",", and the  *)
(* ellipsis as one symbol.  Numbers stay below 2^64 - 1: up to that number *)
(* itself the loop of parseEllipsesRange would not end.                    *)
(***************************************************************************)
EXTENDS Integers, Sequences, SequencesExt, FiniteSetsExt

CONSTANT Args     \* [list, text]: calls of FindEllipsesPatterns and FindListPatterns

VARIABLES arg,       \* the argument
          rest,      \* the part in which the next pattern is looked for
          patterns,  \* ArgPattern: the patterns found
          pc,        \* "find", "check", "expand", then "done" or "error"
          out        \* result of Expand

vars == <<arg, rest, patterns, pc, out>>

Init ==
    /\ arg \in Args
    /\ rest = arg.text
    /\ patterns = <<>>
    /\ pc = "find"
    /\ out = <<>>

-----------------------------------------------------------------------------
(* Numbers *)

Symbols == <<"0", "1", "2", "3", "4", "5", "6", "7", "8", "9", "a", "b", "c", "d", "e", "f">>
Hex == ToSet(Symbols)
Decimal == ToSet(SubSeq(Symbols, 1, 10))
Alnum == Hex \cup {"z"}

DigitValue(d) == (CHOOSE i \in DOMAIN Symbols : Symbols[i] = d) - 1

\* strconv.ParseUint of a text that consists of digits of the base.
ParseUint(text, base) == FoldLeft(LAMBDA n, d : n * base + DigitValue(d), 0, text)
Reads(text, digits) == text # <<>> /\ ToSet(text) \subseteq digits

\* Decimal first, then hexadecimal.
Number(text) == ParseUint(text, IF Reads(text, Decimal) THEN 10 ELSE 16)

\* %d or %x.
Digits[n \in Nat, base \in {10, 16}] ==
    IF n < base THEN <<Symbols[n + 1]>> ELSE Digits[n \div base, base] \o <<Symbols[(n % base) + 1]>>

\* %0wd or %0wx.
Padded(text, width) ==
    IF Len(text) >= width THEN text ELSE [i \in 1..width - Len(text) |-> "0"] \o text

-----------------------------------------------------------------------------
(* Patterns *)

\* Where the symbol of a set ends a run of others from i on.
Span(text, i, set) == LET stops == {j \in i..Len(text) : text[j] \notin set}
                      IN IF stops = {} THEN Len(text) + 1 ELSE Min(stops)
Symbol(text, i) == IF i \in DOMAIN text THEN text[i] ELSE ""

\* regexpEllipses, regexpList: the place after the pattern that begins at i,
\* 0 if none does.
EllipsesEnd(text, i) ==
    LET dots == Span(text, i + 1, Alnum)
        last == Span(text, dots + 1, Alnum)
    IN IF Symbol(text, dots) = "..." /\ Symbol(text, last) = "}" THEN last + 1 ELSE 0

\* "[" and "]", which the expression also admits, are not in the texts.
ListEnd(text, i) ==
    LET last == Span(text, i + 1, Alnum \cup {","})
    IN IF Symbol(text, i + 1) \in Alnum /\ last >= i + 3 /\ Symbol(text, last) = "}" THEN last + 1 ELSE 0

PatternEnd(text, i) ==
    IF text[i] # "{" THEN 0 ELSE IF arg.list THEN ListEnd(text, i) ELSE EllipsesEnd(text, i)

\* The first group of the expression is greedy: the last pattern is found.
Starts(text) == {i \in DOMAIN text : PatternEnd(text, i) # 0}

\* Mutant: the width is that of the smaller number.
parseEllipsesRangeNarrow(from, to) ==
    LET base == IF Reads(from, Decimal) /\ Reads(to, Decimal) THEN 10 ELSE 16
        zero == (from[1] = "0" /\ Len(from) > 1) \/ to[1] = "0"
        text(n) == IF zero THEN Padded(Digits[n, base], Len(from)) ELSE Digits[n, base]
    IN IF Number(from) > Number(to) THEN <<>>
       ELSE [k \in 1..Number(to) - Number(from) + 1 |-> text(Number(from) + k - 1)]

\* A range that begins after its end is an error, given as the empty
\* sequence; padded with zeroes to the width of the second number if either
\* begins with one.
parseEllipsesRange(from, to) ==
    LET base == IF Reads(from, Decimal) /\ Reads(to, Decimal) THEN 10 ELSE 16
        zero == (from[1] = "0" /\ Len(from) > 1) \/ to[1] = "0"
        text(n) == IF zero THEN Padded(Digits[n, base], Len(to)) ELSE Digits[n, base]
    IN IF Number(from) > Number(to) THEN <<>>
       ELSE [k \in 1..Number(to) - Number(from) + 1 |-> text(Number(from) + k - 1)]

\* strings.Split, of the text between the braces.
Split(text, separator) ==
    LET cuts == SetToSortSeq({0, Len(text) + 1} \cup {i \in DOMAIN text : text[i] = separator}, <)
    IN [k \in 1..Len(cuts) - 1 |-> SubSeq(text, cuts[k] + 1, cuts[k + 1] - 1)]

\* At least two, none of them empty.
parseListRange(parts) == IF Len(parts) < 2 \/ <<>> \in ToSet(parts) THEN <<>> ELSE parts

\* What a pattern stands for; the empty sequence is an error.
Parse(inner) ==
    IF arg.list THEN parseListRange(Split(inner, ","))
    ELSE LET ends == Split(inner, "...")
         IN IF Reads(ends[1], Hex) /\ Reads(ends[2], Hex) THEN parseEllipsesRange(ends[1], ends[2]) ELSE <<>>

-----------------------------------------------------------------------------
(* findPatterns *)

\* One round: the last pattern of rest, with the text after it and, if no
\* other pattern comes before it, the text before it.
FindPattern ==
    /\ pc = "find"
    /\ Starts(rest) # {}
    /\ LET i      == Max(Starts(rest))
           stop   == PatternEnd(rest, i)
           before == SubSeq(rest, 1, i - 1)
           seq    == Parse(SubSeq(rest, i + 1, stop - 2))
           more   == Starts(before) # {}
       IN  IF seq = <<>> THEN pc' = "error" /\ UNCHANGED <<patterns, rest>>
           ELSE /\ patterns' = Append(patterns, [prefix |-> IF more THEN <<>> ELSE before,
                                                 suffix |-> SubSeq(rest, stop, Len(rest)), seq |-> seq])
                /\ rest' = before
                /\ pc' = IF more THEN "find" ELSE "check"
    /\ UNCHANGED <<arg, out>>

\* errFormat.
NoPattern ==
    /\ pc = "find"
    /\ Starts(rest) = {}
    /\ pc' = "error"
    /\ UNCHANGED <<arg, rest, patterns, out>>

Braces(text) == \E i \in DOMAIN text : text[i] \in {"{", "}"}

\* Left over braces are taken for a typing error.
CheckBraces ==
    /\ pc = "check"
    /\ pc' = IF \E k \in DOMAIN patterns : Braces(patterns[k].prefix) \/ Braces(patterns[k].suffix)
             THEN "error" ELSE "expand"
    /\ UNCHANGED <<arg, rest, patterns, out>>

\* Pattern.Expand.
PatternExpand(p) == [k \in DOMAIN p.seq |-> p.prefix \o p.seq[k] \o p.suffix]

\* For each label of the first list, the expansions of the others with the
\* label appended.
argExpander(labels) ==
    FoldRight(LAMBDA first, lists : FlattenSeq([k \in DOMAIN first |->
                  [j \in DOMAIN lists |-> Append(lists[j], first[k])]]), labels, <<<<>>>>)

\* ArgPattern.Expand.
Expand ==
    /\ pc = "expand"
    /\ out' = argExpander([k \in DOMAIN patterns |-> PatternExpand(patterns[k])])
    /\ pc' = "done"
    /\ UNCHANGED <<arg, rest, patterns>>

Next == FindPattern \/ NoPattern \/ CheckBraces \/ Expand

Spec == Init /\ [][Next]_vars

-----------------------------------------------------------------------------
(* The meaning of an argument, read from left to right *)

\* The texts a pattern stands for.  A range: every number of it once,
\* with no more zeroes in front than the width asks for; the order is not part
\* of the meaning.
Stands(inner, texts) ==
    IF arg.list THEN texts = ToSet(Split(inner, ","))
    ELSE LET ends == Split(inner, "...")
             base == IF ToSet(ends[1]) \cup ToSet(ends[2]) \subseteq Decimal THEN 10 ELSE 16
             wide == \E e \in {ends[1], ends[2]} : e[1] = "0" /\ (Len(e) > 1 \/ e = ends[2])
         IN  /\ {ParseUint(t, base) : t \in texts} = Number(ends[1])..Number(ends[2])
             /\ \A t, u \in texts : ParseUint(t, base) = ParseUint(u, base) => t = u
             /\ \A t \in texts : IF wide THEN Len(t) >= Len(ends[2]) /\ (Len(t) > Len(ends[2]) => t[1] # "0")
                                 ELSE t[1] # "0" \/ t = <<"0">>

\* The texts that arg.text from i on stands for, given those of its patterns.
Meaning(values) ==
    LET text == arg.text
        M[i \in 1..Len(text) + 1] ==
            IF i = Len(text) + 1 THEN {<<>>}
            ELSE IF i \in DOMAIN values THEN {v \o t : v \in values[i], t \in M[PatternEnd(text, i)]}
            ELSE {<<text[i]>> \o t : t \in M[i + 1]}
    IN M[1]

\* No pattern, one that cannot be read, or a brace outside of the patterns.
Inner(i) == SubSeq(arg.text, i + 1, PatternEnd(arg.text, i) - 2)
Refused ==
    LET starts == Starts(arg.text)
    IN  \/ starts = {}
        \/ \E i \in starts : Parse(Inner(i)) = <<>>
        \/ \E j \in DOMAIN arg.text : /\ arg.text[j] \in {"{", "}"}
                                      /\ \A i \in starts : j \notin i..PatternEnd(arg.text, i) - 1

\* Although patterns are looked for in what is left of the argument and braces
\* in the texts around the patterns, exactly the arguments without a reading
\* are refused.
RefusesExactly ==
    /\ pc = "error" => Refused
    /\ pc = "done" => ~Refused

\* Finding patterns from the right, keeping the text around them and
\* appending labels backwards amounts to replacing every pattern where it
\* stands: the expansions are the readings of the argument, each of them once.
ExpandsToMeaning ==
    /\ RefusesExactly
    /\ pc = "done" =>
        LET values == [i \in Starts(arg.text) |-> ToSet(Parse(Inner(i)))]
        IN  /\ \A i \in DOMAIN values : Stands(Inner(i), values[i])
            /\ {FlattenSeq(out[k]) : k \in DOMAIN out} = Meaning(values)
            /\ Len(out) = FoldSet(LAMBDA i, n : n * Len(Parse(Inner(i))), 1, DOMAIN values)
=============================================================================
