---------------------------- MODULE PolicyProofs ----------------------------
(***************************************************************************)
(* policy.Policy and policy.BucketPolicy for any documents, any requests   *)
(* and any number of policies.  The index of actions stays sound over      *)
(* loading, merging and reloading; the hardened matching of sensitive      *)
(* writes takes grants away and does nothing else, and honours no pattern  *)
(* with a slash for a bucket.  Where the text of a condition says all that *)
(* it compares (Clear, BucketClear), dropping duplicates, merging, storing *)
(* and reading again change no decision and lose no policy.                *)
(*                                                                         *)
(* The argument: a condition that has been read is of one of a few forms   *)
(* (Func), comes back from its text comparing the same (RoundTrip), and    *)
(* two with the same text compare the same (TextTells).  Statements whose  *)
(* conditions correspond apply to the same requests (ApplyAlike), so lists *)
(* that mirror each other decide alike (MirrorsApply).                     *)
(***************************************************************************)
EXTENDS BucketPolicy, GlobProofs, SequenceTheorems, FiniteSetTheorems, TLAPS

-----------------------------------------------------------------------------
(* Conditions as they are kept *)

\* A condition as the code keeps it: what each constructor has checked, with
\* dates in whole seconds.
Func(f) ==
    /\ DOMAIN f = {"qualifier", "name", "key", "values"}
    /\ f.qualifier \in Qualifiers /\ f.name \in Names /\ f.key.name \in AllSupportedKeys
    /\ f.values # {} /\ IsFiniteSet(f.values) /\ \A t \in f.values : IsSequence(t)
    /\ f.name \notin StringNames => f.qualifier = ""
    /\ f.name \in StringNames => \A t \in f.values : ValidString(f.name, f.key, t)
    /\ f.name \in IPNames => f.key.name = "SourceIp" /\ \A t \in f.values : IsCIDR(t)
    /\ f.name \in NumericNames => \E t : f.values = {t} /\ Reads(Numbers, t)
    /\ f.name \in DateNames => \E t : f.values = {t} /\ Reads(Times, t) /\ Format(t) = t
    /\ f.name = "Null" => f.values \in {{<<"true">>}, {<<"false">>}}
    /\ f.name = "Bool" => f.key.name = "SecureTransport" /\ \E t \in TrueTexts \cup FalseTexts : f.values = {t}

\* One condition of UnmarshalConditions.
Made(c) ==
    [qualifier |-> IF c.name \in StringNames THEN c.qualifier ELSE "",
     name |-> c.name, key |-> c.key, values |-> {Read(c.name, v) : v \in c.values}]

\* The kinds of conditions have no name in common.
LEMMA Kinds ==
    /\ \A n \in Names : \/ n = "BinaryEquals" \/ n \in StringNames \ {"BinaryEquals"} \/ n \in IPNames
                        \/ n \in NumericNames \/ n \in DateNames \/ n = "Null" \/ n = "Bool"
    /\ "BinaryEquals" \in StringNames \ LikeNames /\ LikeNames \subseteq StringNames
    /\ {"BinaryEquals", "Null", "Bool"} \cap (IPNames \cup NumericNames \cup DateNames) = {}
    /\ {"Null", "Bool"} \cap StringNames = {} /\ StringNames \cap (IPNames \cup NumericNames \cup DateNames) = {}
    /\ IPNames \cap (NumericNames \cup DateNames) = {} /\ NumericNames \cap DateNames = {}
    BY DEF Names, StringNames, LikeNames, IPNames, NumericNames, DateNames

\* A set with one element.
LEMMA OneElement ==
    ASSUME NEW S, IsFiniteSet(S), Cardinality(S) = 1 PROVE \E x : S = {x}
    BY FS_Singleton

\* Sequences of one or of two symbols, and what is left of a sequence.
LEMMA SequenceForms ==
    /\ \A x, y : IsSequence(<<x>>) /\ IsSequence(<<x, y>>)
    /\ \A t : IsSequence(t) /\ t # <<>> => IsSequence(Tail(t))
<1>1. \A S, q : q \in Seq(S) => IsSequence(q)
    BY SeqOfRange DEF IsSequence
<1>2. \A x, y : <<x>> \in Seq({x, y}) /\ <<x, y>> \in Seq({x, y})
    OBVIOUS
<1>3. \A S : \A q \in Seq(S) : q # <<>> => Tail(q) \in Seq(S)
    BY HeadTailProperties
<1>4. QED
    BY <1>1, <1>2, <1>3 DEF IsSequence

\* The image of a finite set is finite.
LEMMA ImageFinite ==
    ASSUME NEW S, NEW T, IsFiniteSet(S), NEW g \in [S -> T], \A y \in T : \E x \in S : g[x] = y
    PROVE  IsFiniteSet(T)
<1>1. g \in Surjection(S, T)
    BY DEF Surjection
<1>2. QED
    BY <1>1, FS_Surjection

\* What the constructors make of a condition of a document.
LEMMA MadeIsFunc ==
    ASSUME NEW c, IsCondition(c), Parses(c),
           c.name \in DateNames => \A t \in Made(c).values : Format(t) = t
    PROVE  Func(Made(c))
<1> DEFINE f == Made(c)
<1>1. /\ c.name \in Names /\ c.qualifier \in Qualifiers /\ c.key.name \in AllSupportedKeys
      /\ c.values # {} /\ IsFiniteSet(c.values)
      /\ \A v \in c.values : IsSequence(v.s)
    BY DEF Parses, IsCondition
<1>2. /\ f.name = c.name /\ f.key = c.key /\ f.values = {Read(c.name, v) : v \in c.values}
      /\ f.qualifier = IF c.name \in StringNames THEN c.qualifier ELSE ""
      /\ DOMAIN f = {"qualifier", "name", "key", "values"}
    BY DEF Made
<1> HIDE DEF f
<1>3. f.qualifier \in Qualifiers /\ (f.name \notin StringNames => f.qualifier = "")
    BY <1>1, <1>2 DEF Qualifiers
<1>4. f.values # {} /\ IsFiniteSet(f.values)
  <2>1. IsFiniteSet({Read(c.name, v) : v \in c.values})
    <3> DEFINE g == [v \in c.values |-> Read(c.name, v)]
               T == {Read(c.name, v) : v \in c.values}
    <3>1. g \in [c.values -> T] /\ \A y \in T : \E v \in c.values : g[v] = y
        OBVIOUS
    <3> HIDE DEF g, T
    <3>2. IsFiniteSet(T)
        BY <1>1, <3>1, ImageFinite
    <3>3. QED
        BY <3>2 DEF T
  <2>2. PICK v \in c.values : TRUE
    BY <1>1
  <2>3. Read(c.name, v) \in f.values
    BY <1>2
  <2>4. QED
    BY <1>2, <2>1, <2>3
<1>5. CASE c.name = "BinaryEquals"
  <2>1. \A v \in c.values : IsSequence(v.s) /\ v.s # <<>> /\ ValidString(c.name, c.key, Tail(v.s))
    BY <1>1, <1>5, Kinds DEF Parses, BinaryAccepts
  <2>2. \A v \in c.values : Read(c.name, v) = Tail(v.s) /\ IsSequence(Tail(v.s))
    BY <1>5, <2>1, SequenceForms DEF Read
  <2>3. \A t \in f.values : IsSequence(t) /\ ValidString(f.name, f.key, t)
    BY <1>2, <2>1, <2>2
  <2>4. QED
    BY <1>1, <1>2, <1>3, <1>4, <1>5, <2>3, Kinds DEF Func, f, Made
<1>6. CASE c.name \in StringNames \ {"BinaryEquals"}
  <2>1. \A v \in c.values : IsSequence(v.s) /\ ValidString(c.name, c.key, v.s)
    BY <1>1, <1>6, Kinds DEF Parses, StringAccepts
  <2>2. \A v \in c.values : Read(c.name, v) = v.s
    BY <1>6, Kinds DEF Read
  <2>3. \A t \in f.values : IsSequence(t) /\ ValidString(f.name, f.key, t)
    BY <1>2, <2>1, <2>2
  <2>4. QED
    BY <1>1, <1>2, <1>3, <1>4, <1>6, <2>3, Kinds DEF Func, f, Made
<1>7. CASE c.name \in IPNames
  <2>1. c.key.name = "SourceIp" /\ \A v \in c.values : IsSequence(v.s) /\ IsCIDR(v.s)
    BY <1>1, <1>7, Kinds DEF Parses, IPAccepts
  <2>2. \A v \in c.values : Read(c.name, v) = v.s
    BY <1>7, Kinds DEF Read
  <2>3. \A t \in f.values : IsSequence(t) /\ IsCIDR(t)
    BY <1>2, <2>1, <2>2
  <2>4. QED
    BY <1>1, <1>2, <1>3, <1>4, <1>7, <2>1, <2>3, Kinds DEF Func, f, Made
<1>8. CASE c.name \in NumericNames
  <2>1. Cardinality(c.values) = 1 /\ \A v \in c.values : IsSequence(v.s) /\ Reads(Numbers, v.s)
    BY <1>1, <1>8, Kinds DEF Parses, NumericAccepts
  <2>2. PICK w : c.values = {w}
    BY <1>1, <2>1, OneElement
  <2>3. Read(c.name, w) = w.s
    BY <1>8, Kinds DEF Read
  <2>4. f.values = {w.s} /\ IsSequence(w.s) /\ Reads(Numbers, w.s)
    <3>1. w \in c.values /\ f.values = {Read(c.name, w)}
        BY <1>2, <2>2
    <3>2. QED
        BY <2>1, <2>3, <3>1
  <2>5. QED
    BY <1>1, <1>2, <1>3, <1>4, <1>8, <2>4, Kinds DEF Func, f, Made
<1>9. CASE c.name \in DateNames
  <2>1. Cardinality(c.values) = 1 /\ \A v \in c.values : IsSequence(v.s) /\ Reads(Times, v.s)
    BY <1>1, <1>9, Kinds DEF Parses, DateAccepts
  <2>2. PICK w : c.values = {w}
    BY <1>1, <2>1, OneElement
  <2>3. Read(c.name, w) = w.s
    BY <1>9, Kinds DEF Read
  <2>4. f.values = {w.s} /\ IsSequence(w.s) /\ Reads(Times, w.s) /\ Format(w.s) = w.s
    <3>1. w \in c.values /\ f.values = {Read(c.name, w)}
        BY <1>2, <2>2
    <3>2. \A t \in f.values : Format(t) = t
        BY <1>9 DEF f
    <3>3. QED
        BY <2>1, <2>3, <3>1, <3>2
  <2>5. QED
    BY <1>1, <1>2, <1>3, <1>4, <1>9, <2>4, Kinds DEF Func, f, Made
<1>10. CASE c.name = "Null"
  <2>1. Cardinality(c.values) = 1
    BY <1>1, <1>10, Kinds DEF Parses, NullAccepts
  <2>2. PICK w : c.values = {w}
    BY <1>1, <2>1, OneElement
  <2>3. Read(c.name, w) \in {<<"true">>, <<"false">>}
    BY <1>10 DEF Read
  <2>4. f.values = {Read(c.name, w)} /\ IsSequence(Read(c.name, w))
    BY <1>2, <2>2, <2>3, SequenceForms
  <2>5. QED
    BY <1>1, <1>2, <1>3, <1>4, <1>10, <2>3, <2>4, Kinds DEF Func, f, Made
<1>11. CASE c.name = "Bool"
  <2>1. c.key.name = "SecureTransport" /\ Cardinality(c.values) = 1
    BY <1>1, <1>11, Kinds DEF Parses, BoolAccepts, NullAccepts
  <2>2. \A v \in c.values : v.s \in TrueTexts \cup FalseTexts /\ IsSequence(v.s)
    BY <1>1, <1>11, Kinds DEF Parses, BoolAccepts, NullAccepts, IsCondition, TrueTexts, FalseTexts
  <2>3. PICK w : c.values = {w}
    BY <1>1, <2>1, OneElement
  <2>4. Read(c.name, w) = w.s
    BY <1>11 DEF Read
  <2>5. f.values = {w.s} /\ IsSequence(w.s) /\ w.s \in TrueTexts \cup FalseTexts
    BY <1>2, <2>2, <2>3, <2>4
  <2>6. QED
    BY <1>1, <1>2, <1>3, <1>4, <1>11, <2>1, <2>5, Kinds DEF Func, f, Made
<1>12. QED
    BY <1>1, <1>5, <1>6, <1>7, <1>8, <1>9, <1>10, <1>11, Kinds DEF f

-----------------------------------------------------------------------------
(* Conditions that compare the same *)

ShownValues(f) == {Shown(f.name, t) : t \in f.values}

SameFunc(f, g) ==
    /\ f.qualifier = g.qualifier /\ f.name = g.name /\ f.key = g.key
    /\ ShownValues(f) = ShownValues(g)

\* But for networks a value is shown as it is.
LEMMA ShownAsIs ==
    ASSUME NEW f, Func(f), f.name \notin IPNames PROVE ShownValues(f) = f.values
<1>1. \A t \in f.values : Shown(f.name, t) = t
  <2>1. CASE f.name \in DateNames
    <3>1. \A t \in f.values : Format(t) = t
        BY <2>1 DEF Func
    <3>2. QED
        BY <2>1, <3>1 DEF Shown
  <2>2. CASE f.name \notin DateNames
    BY <2>2 DEF Shown
  <2>3. QED
    BY <2>1, <2>2
<1>2. QED
    BY <1>1 DEF ShownValues

\* Conditions that are shown alike are evaluated alike, on all values.
LEMMA EvaluatedAlike ==
    ASSUME NEW f, NEW g, Func(f), Func(g), SameFunc(f, g), NEW values
    PROVE  evaluate(f, values) = evaluate(g, values)
<1>1. f.qualifier = g.qualifier /\ f.name = g.name /\ f.key = g.key /\ f.name \in Names
    BY DEF SameFunc, Func
<1>2. CASE f.name \notin IPNames
  <2>1. f.values = g.values
    BY <1>1, <1>2, ShownAsIs DEF SameFunc
  <2>2. /\ LikeEval(f, values) = LikeEval(g, values) /\ StringEval(f, values) = StringEval(g, values)
        /\ NumericEval(f, values) = NumericEval(g, values) /\ DateEval(f, values) = DateEval(g, values)
        /\ NullEval(f, values) = NullEval(g, values) /\ BoolEval(f, values) = BoolEval(g, values)
        /\ IPEval(f, values) = IPEval(g, values)
    BY <1>1, <2>1, Zenon DEF LikeEval, StringEval, NumericEval, DateEval, NullEval, BoolEval, IPEval
  <2>3. QED
    BY <1>1, <2>2, Zenon DEF evaluate
<1>3. CASE f.name \in IPNames
  <2>1. {Network(t) : t \in f.values} = {Network(t) : t \in g.values}
    BY <1>1, <1>3, Kinds DEF SameFunc, ShownValues, Shown
  <2>2. ASSUME NEW v
        PROVE  (\E t \in f.values : InNetwork(Network(t), v)) <=> \E t \in g.values : InNetwork(Network(t), v)
    BY <2>1, Zenon
  <2>3. IPEval(f, values) = IPEval(g, values)
    BY <1>1, <2>2, Zenon DEF IPEval
  <2>4. evaluate(f, values) = (IPEval(f, values) # Negated(f.name)) /\ evaluate(g, values) = (IPEval(g, values) # Negated(g.name))
    BY <1>1, <1>3, Kinds, Zenon DEF evaluate
  <2>5. QED
    BY <1>1, <2>3, <2>4
<1>4. QED
    BY <1>2, <1>3

-----------------------------------------------------------------------------
(* Conditions that are stored and read again *)

\* A network is shown as a network, and that as itself.
LEMMA NetworkOnce ==
    ASSUME NEW t, IsCIDR(t) PROVE IsCIDR(Network(t)) /\ Network(Network(t)) = Network(t) /\ IsSequence(Network(t))
<1> DEFINE ip == Base(t[1])
<1>1. Contains(Addresses, t[1]) /\ t[1] \in {"10.0.0.0", "10.0.0.1", "10.0.1.0"}
    BY DEF IsCIDR, Contains, Addresses
<1>2. \A a \in {"10.0.0.0", "10.0.0.1", "10.0.1.0"} :
         Contains(Addresses, a) /\ Base(a) \in {"10.0.0.0", "10.0.0.1", "10.0.1.0"} /\ Base(Base(a)) = Base(a)
    BY DEF Contains, Addresses, Base
<1>3. Network(t) = <<Base(t[1]), "/24">> \/ Network(t) = <<t[1], "/32">>
    BY DEF Network
<1>4. ASSUME NEW a \in {"10.0.0.0", "10.0.0.1", "10.0.1.0"}, NEW n \in {"/24", "/32"}
      PROVE  IsCIDR(<<a, n>>) /\ IsSequence(<<a, n>>)
  <2>1. Tail(<<a, n>>) = <<n>>
    OBVIOUS
  <2>2. IsSequence(<<a, n>>)
    BY SequenceForms
  <2>3. <<a, n>> # <<>> /\ <<a, n>>[1] = a
    OBVIOUS
  <2>4. QED
    BY <1>2, <2>1, <2>2, <2>3 DEF IsCIDR
<1>5. CASE Network(t) = <<Base(t[1]), "/24">>
    BY <1>1, <1>2, <1>4, <1>5 DEF Network
<1>6. CASE Network(t) = <<t[1], "/32">>
    BY <1>1, <1>2, <1>4, <1>6 DEF Network
<1>7. QED
    BY <1>3, <1>5, <1>6

\* The value of a condition as toMap writes it, and as it is read again.
Stored(f, t) == IF f.name = "BinaryEquals" THEN Encode(t) ELSE Shown(f.name, t)
Reread(f, t) == Read(f.name, [t |-> StoredType(f.name), s |-> Stored(f, t)])

\* toMap field by field.
LEMMA StoredFields ==
    ASSUME NEW f, Func(f)
    PROVE  /\ toMap(f).qualifier = f.qualifier /\ toMap(f).name = f.name /\ toMap(f).key = f.key
           /\ toMap(f).values = {[t |-> StoredType(f.name), s |-> Stored(f, t)] : t \in f.values}
           /\ Made(toMap(f)).values = {Reread(f, t) : t \in f.values}
           /\ Made(toMap(f)).qualifier = f.qualifier /\ Made(toMap(f)).name = f.name /\ Made(toMap(f)).key = f.key
<1>1. DOMAIN f = {"qualifier", "name", "key", "values"} /\ (f.name \notin StringNames => f.qualifier = "")
    BY DEF Func
<1>2. /\ toMap(f).qualifier = f.qualifier /\ toMap(f).name = f.name /\ toMap(f).key = f.key
      /\ toMap(f).values = {[t |-> StoredType(f.name), s |-> Stored(f, t)] : t \in f.values}
    BY <1>1 DEF toMap, Stored
<1>3. {Read(f.name, v) : v \in {[t |-> StoredType(f.name), s |-> Stored(f, t)] : t \in f.values}} = {Reread(f, t) : t \in f.values}
    BY Zenon DEF Reread
<1>4. QED
    BY <1>1, <1>2, <1>3 DEF Made

\* Each value comes back as itself, a network as it is shown.
LEMMA ComesBack ==
    ASSUME NEW f, Func(f), NEW t \in f.values
    PROVE  Reread(f, t) = Shown(f.name, t) /\ IsSequence(Stored(f, t)) /\ IsSequence(Shown(f.name, t))
<1>1. f.name \in Names /\ IsSequence(t)
    BY DEF Func
<1>2. CASE f.name = "BinaryEquals"
  <2>1. \A S : \A q \in Seq(S) : <<"base64">> \o q \in Seq(S \cup {"base64"}) /\ Tail(<<"base64">> \o q) = q
    OBVIOUS
  <2>2. Tail(Encode(t)) = t /\ IsSequence(Encode(t))
    BY <1>1, <2>1, SeqOfRange DEF Encode, IsSequence
  <2>3. Shown(f.name, t) = t
    BY <1>2, Kinds DEF Shown
  <2>4. QED
    BY <1>1, <1>2, <2>2, <2>3 DEF Reread, Stored, Read
<1>3. CASE f.name = "Null"
  <2>1. t \in {<<"true">>, <<"false">>}
    BY <1>3 DEF Func
  <2>2. Shown(f.name, t) = t /\ Stored(f, t) = t
    BY <1>3, Kinds DEF Shown, Stored
  <2>3. Reread(f, t) = IF t \in TrueTexts THEN <<"true">> ELSE <<"false">>
    BY <1>3, <2>2 DEF Reread, Read
  <2>4. <<"true">> \in TrueTexts /\ <<"false">> \notin TrueTexts
    BY DEF TrueTexts
  <2>5. QED
    BY <1>1, <2>1, <2>2, <2>3, <2>4
<1>4. CASE f.name \notin {"BinaryEquals", "Null"}
  <2>1. Stored(f, t) = Shown(f.name, t) /\ Reread(f, t) = Stored(f, t)
    BY <1>4 DEF Stored, Reread, Read
  <2>2. IsSequence(Shown(f.name, t))
    <3>1. CASE f.name \in IPNames
      <4>1. IsCIDR(t)
        BY <3>1 DEF Func
      <4>2. QED
        BY <3>1, <4>1, NetworkOnce, Kinds DEF Shown
    <3>2. CASE f.name \in DateNames
      <4>1. Format(t) = t
        BY <3>2 DEF Func
      <4>2. QED
        BY <1>1, <3>2, <4>1, Kinds DEF Shown
    <3>3. CASE f.name \notin IPNames \cup DateNames
        BY <1>1, <3>3 DEF Shown
    <3>4. QED
        BY <3>1, <3>2, <3>3
  <2>3. QED
    BY <2>1, <2>2
<1>5. QED
    BY <1>2, <1>3, <1>4

\* What is stored can be read: toMap writes what Parses accepts.
LEMMA StoredParses == ASSUME NEW f, Func(f) PROVE IsCondition(toMap(f)) /\ Parses(toMap(f))
<1> DEFINE c == toMap(f)
           pair(t) == [t |-> StoredType(f.name), s |-> Stored(f, t)]
<1>1. /\ c.qualifier = f.qualifier /\ c.name = f.name /\ c.key = f.key
      /\ c.values = {pair(t) : t \in f.values}
    BY StoredFields
<1> HIDE DEF c
<1>2. /\ f.qualifier \in Qualifiers /\ f.name \in Names /\ f.key.name \in AllSupportedKeys
      /\ f.values # {} /\ IsFiniteSet(f.values) /\ \A t \in f.values : IsSequence(t)
    BY DEF Func
<1>3. \A v \in c.values : \E t \in f.values : v.t = StoredType(f.name) /\ v.s = Stored(f, t)
    BY <1>1
<1>4. c.values # {} /\ IsFiniteSet(c.values)
  <2> DEFINE g == [t \in f.values |-> pair(t)]
  <2>1. g \in [f.values -> c.values] /\ \A y \in c.values : \E t \in f.values : g[t] = y
    BY <1>1
  <2>2. PICK t \in f.values : TRUE
    BY <1>2
  <2>3. pair(t) \in c.values
    BY <1>1
  <2> HIDE DEF g, pair
  <2>4. IsFiniteSet(c.values)
    BY <1>2, <2>1, ImageFinite
  <2>5. QED
    BY <2>3, <2>4
<1>5. \A v \in c.values : IsSequence(v.s)
    BY <1>3, ComesBack
<1>6. \A v \in c.values : v.t = "bool" => v.s \in {<<"true">>, <<"false">>}
  <2> SUFFICES ASSUME NEW v \in c.values, v.t = "bool" PROVE v.s \in {<<"true">>, <<"false">>}
    OBVIOUS
  <2>1. PICK t \in f.values : v.t = StoredType(f.name) /\ v.s = Stored(f, t)
    BY <1>3
  <2>2. f.name = "Null"
    BY <2>1, Kinds DEF StoredType
  <2>3. t \in {<<"true">>, <<"false">>}
    BY <2>2 DEF Func
  <2>4. QED
    BY <2>1, <2>2, <2>3, Kinds DEF Stored, Shown
<1>7. IsCondition(c)
    BY <1>4, <1>5, <1>6 DEF IsCondition
<1>8. ASSUME \E t : f.values = {t} PROVE Cardinality(c.values) = 1
  <2>1. PICK t : f.values = {t}
    BY <1>8
  <2>2. c.values = {pair(t)}
    BY <1>1, <2>1
  <2>3. QED
    BY <2>2, FS_Singleton
<1> HIDE DEF pair
<1>9. CASE f.name = "BinaryEquals"
  <2>1. \A t \in f.values : ValidString(f.name, f.key, t)
    BY <1>9, Kinds DEF Func
  <2>2. \A S : \A q \in Seq(S) : <<"base64">> \o q # <<>> /\ (<<"base64">> \o q)[1] = "base64" /\ Tail(<<"base64">> \o q) = q
    OBVIOUS
  <2>3. \A t \in f.values : Encode(t) # <<>> /\ Encode(t)[1] = "base64" /\ Tail(Encode(t)) = t
    BY <1>2, <2>2 DEF Encode, IsSequence
  <2>4. \A v \in c.values : v.t = "string" /\ \E t \in f.values : v.s = Encode(t)
    BY <1>3, <1>9, Kinds DEF StoredType, Stored
  <2>5. BinaryAccepts(c)
    BY <1>1, <2>1, <2>3, <2>4 DEF BinaryAccepts
  <2>6. QED
    BY <1>1, <1>2, <1>4, <1>7, <1>9, <2>5, Kinds DEF Parses, c
<1>10. CASE f.name \in StringNames \ {"BinaryEquals"}
  <2>1. \A t \in f.values : ValidString(f.name, f.key, t)
    BY <1>10, Kinds DEF Func
  <2>2. \A v \in c.values : v.t = "string" /\ v.s \in f.values
    BY <1>3, <1>10, Kinds DEF StoredType, Stored, Shown
  <2>3. StringAccepts(c)
    BY <1>1, <2>1, <2>2 DEF StringAccepts
  <2>4. QED
    BY <1>1, <1>2, <1>4, <1>7, <1>10, <2>3, Kinds DEF Parses, c
<1>11. CASE f.name \in IPNames
  <2>1. f.key.name = "SourceIp" /\ \A t \in f.values : IsCIDR(Network(t))
    BY <1>11, NetworkOnce DEF Func
  <2>2. \A v \in c.values : v.t = "string" /\ \E t \in f.values : v.s = Network(t)
    BY <1>3, <1>11, Kinds DEF StoredType, Stored, Shown
  <2>3. IPAccepts(c)
    BY <1>1, <2>1, <2>2 DEF IPAccepts
  <2>4. QED
    BY <1>1, <1>2, <1>4, <1>7, <1>11, <2>3, Kinds DEF Parses, c
<1>12. CASE f.name \in NumericNames
  <2>1. Cardinality(c.values) = 1 /\ \A t \in f.values : Reads(Numbers, t)
    BY <1>8, <1>12 DEF Func
  <2>2. \A v \in c.values : v.t = "int" /\ v.s \in f.values
    BY <1>3, <1>12, Kinds DEF StoredType, Stored, Shown
  <2>3. NumericAccepts(c)
    BY <2>1, <2>2 DEF NumericAccepts
  <2>4. QED
    BY <1>1, <1>2, <1>4, <1>7, <1>12, <2>3, Kinds DEF Parses, c
<1>13. CASE f.name \in DateNames
  <2>1. Cardinality(c.values) = 1 /\ \A t \in f.values : Reads(Times, t) /\ Format(t) = t
    BY <1>8, <1>13 DEF Func
  <2>2. \A v \in c.values : v.t = "string" /\ v.s \in f.values
    BY <1>3, <1>13, <2>1, Kinds DEF StoredType, Stored, Shown
  <2>3. DateAccepts(c)
    BY <2>1, <2>2 DEF DateAccepts
  <2>4. QED
    BY <1>1, <1>2, <1>4, <1>7, <1>13, <2>3, Kinds DEF Parses, c
<1>14. CASE f.name = "Null"
  <2>1. Cardinality(c.values) = 1
    BY <1>8, <1>14 DEF Func
  <2>2. \A v \in c.values : v.t = "bool"
    BY <1>3, <1>14, Kinds DEF StoredType
  <2>3. NullAccepts(c)
    BY <2>1, <2>2 DEF NullAccepts
  <2>4. QED
    BY <1>1, <1>2, <1>4, <1>7, <1>14, <2>3, Kinds DEF Parses, c
<1>15. CASE f.name = "Bool"
  <2>1. f.key.name = "SecureTransport" /\ Cardinality(c.values) = 1 /\ f.values \subseteq TrueTexts \cup FalseTexts
    BY <1>8, <1>15 DEF Func
  <2>2. \A v \in c.values : v.t = "string" /\ v.s \in f.values
    BY <1>3, <1>15, Kinds DEF StoredType, Stored, Shown
  <2>3. BoolAccepts(c)
    BY <1>1, <2>1, <2>2 DEF BoolAccepts, NullAccepts
  <2>4. QED
    BY <1>1, <1>2, <1>4, <1>7, <1>15, <2>3, Kinds DEF Parses, c
<1>16. QED
    BY <1>2, <1>9, <1>10, <1>11, <1>12, <1>13, <1>14, <1>15, Kinds DEF c

\* Showing twice is showing once.
LEMMA ShownOnce ==
    ASSUME NEW f, Func(f), NEW t \in f.values PROVE Shown(f.name, Shown(f.name, t)) = Shown(f.name, t)
<1>1. CASE f.name \in IPNames
    BY <1>1, NetworkOnce, Kinds DEF Func, Shown
<1>2. CASE f.name \in DateNames
  <2>1. Format(t) = t
    BY <1>2 DEF Func
  <2>2. QED
    BY <1>2, <2>1, Kinds DEF Shown
<1>3. CASE f.name \notin IPNames \cup DateNames
    BY <1>3 DEF Shown
<1>4. QED
    BY <1>1, <1>2, <1>3

\* A condition that was stored and read again compares the same.
LEMMA RoundTrip ==
    ASSUME NEW f, Func(f) PROVE Func(Made(toMap(f))) /\ SameFunc(f, Made(toMap(f)))
<1> DEFINE g == Made(toMap(f))
<1>1. /\ g.qualifier = f.qualifier /\ g.name = f.name /\ g.key = f.key /\ g.values = {Reread(f, t) : t \in f.values}
      /\ toMap(f).name = f.name
    BY StoredFields
<1> HIDE DEF g
<1>2. g.values = {Shown(f.name, t) : t \in f.values}
    BY <1>1, ComesBack
<1>3. {Shown(f.name, u) : u \in g.values} = {Shown(f.name, t) : t \in f.values}
  <2>1. {Shown(f.name, u) : u \in {Shown(f.name, t) : t \in f.values}} = {Shown(f.name, Shown(f.name, t)) : t \in f.values}
    BY Zenon
  <2>2. QED
    BY <1>2, <2>1, ShownOnce
<1>4. SameFunc(f, g)
    BY <1>1, <1>3 DEF SameFunc, ShownValues
<1>5. f.name \in DateNames => \A t \in g.values : Format(t) = t
  <2>1. f.name \in DateNames => \A t \in f.values : Format(t) = t /\ Shown(f.name, t) = t
    <3> SUFFICES ASSUME f.name \in DateNames, NEW t \in f.values PROVE Format(t) = t /\ Shown(f.name, t) = t
        OBVIOUS
    <3>1. Format(t) = t
        BY DEF Func
    <3>2. QED
        BY <3>1, Kinds DEF Shown
  <2>2. QED
    BY <1>2, <2>1
<1>6. QED
    BY <1>1, <1>4, <1>5, StoredParses, MadeIsFunc DEF g

-----------------------------------------------------------------------------
(* The conditions of a statement *)

Triple(f) == <<f.qualifier, f.name, f.key>>

\* The conditions of a statement as UnmarshalJSON leaves them.
WellMade(functions) ==
    /\ IsSequence(functions)
    /\ \A i \in DOMAIN functions : Func(functions[i])
    /\ \A i, j \in DOMAIN functions : i # j => Triple(functions[i]) # Triple(functions[j])

\* For every condition of the one there is one of the other that compares the
\* same.
SameFunctions(one, other) ==
    /\ \A i \in DOMAIN one : \E j \in DOMAIN other : SameFunc(one[i], other[j])
    /\ \A j \in DOMAIN other : \E i \in DOMAIN one : SameFunc(one[i], other[j])

\* Such conditions hold for the same requests.
LEMMA SameAnswers ==
    ASSUME NEW one, NEW other, WellMade(one), WellMade(other), SameFunctions(one, other), NEW values
    PROVE  Evaluate(one, values) = Evaluate(other, values)
<1>1. ASSUME NEW i \in DOMAIN one, NEW j \in DOMAIN other, SameFunc(one[i], other[j])
      PROVE  evaluate(one[i], values) = evaluate(other[j], values)
    BY <1>1, EvaluatedAlike DEF WellMade
<1>2. (\A i \in DOMAIN one : evaluate(one[i], values)) <=> \A j \in DOMAIN other : evaluate(other[j], values)
    BY <1>1, Zenon DEF SameFunctions
<1>3. QED
    BY <1>2, Zenon DEF Evaluate

\* What a condition is compared and hashed by tells what it compares.
LEMMA TextTells ==
    ASSUME NEW f, NEW g, String(f) = String(g) PROVE SameFunc(f, g) /\ Triple(f) = Triple(g)
<1>1. f.qualifier = g.qualifier /\ f.name = g.name /\ f.key = g.key
    BY DEF String
<1>2. ShownValues(f) = ShownValues(g)
  <2> DEFINE count(h) == [u \in ShownValues(h) |-> Cardinality({t \in h.values : Shown(h.name, t) = u})]
  <2>1. String(f) = <<f.qualifier, f.name, f.key, count(f)>> /\ String(g) = <<g.qualifier, g.name, g.key, count(g)>>
    BY DEF String, ShownValues
  <2>2. DOMAIN count(f) = ShownValues(f) /\ DOMAIN count(g) = ShownValues(g)
    OBVIOUS
  <2> HIDE DEF count
  <2>3. <<f.qualifier, f.name, f.key, count(f)>> = <<g.qualifier, g.name, g.key, count(g)>>
    BY <2>1, Zenon
  <2>4. count(f) = count(g)
    <3>1. \A a, b, c, x, y : <<a, b, c, x>> = <<a, b, c, y>> => x = y
        OBVIOUS
    <3>2. QED
        BY <1>1, <2>3, <3>1, Zenon
  <2>5. QED
    BY <2>2, <2>4
<1>3. QED
    BY <1>1, <1>2 DEF SameFunc, Triple

\* The conditions of a statement have different texts.
LEMMA TextsDiffer ==
    ASSUME NEW one, WellMade(one)
    PROVE  /\ Len(one) \in Nat /\ DOMAIN one = 1..Len(one)
           /\ Strings(one) \in Bijection(DOMAIN one, Range(Strings(one)))
           /\ \A i \in DOMAIN one : Strings(one)[i] = String(one[i])
<1>1. Len(one) \in Nat /\ DOMAIN one = 1..Len(one)
    BY LenProperties DEF WellMade, IsSequence
<1>2. DOMAIN Strings(one) = DOMAIN one /\ \A i \in DOMAIN one : Strings(one)[i] = String(one[i])
    BY DEF Strings
<1>3. \A i, j \in DOMAIN one : Strings(one)[i] = Strings(one)[j] => i = j
    BY <1>2, TextTells DEF WellMade
<1>4. Strings(one) \in [DOMAIN one -> Range(Strings(one))]
    BY <1>2 DEF Range, Strings
<1>5. \A y \in Range(Strings(one)) : \E i \in DOMAIN one : Strings(one)[i] = y
    BY <1>2 DEF Range
<1>6. QED
    BY <1>1, <1>2, <1>3, <1>4, <1>5 DEF Bijection, Injection, Surjection, IsInjective

\* As many conditions as there are texts.
LEMMA TextsCounted ==
    ASSUME NEW one, WellMade(one)
    PROVE  IsFiniteSet(Range(Strings(one))) /\ Cardinality(Range(Strings(one))) = Len(one)
<1>1. Len(one) \in Nat /\ Strings(one) \in Bijection(1..Len(one), Range(Strings(one)))
    BY TextsDiffer
<1>2. IsFiniteSet(1..Len(one)) /\ Cardinality(1..Len(one)) = Len(one)
    BY <1>1, FS_Interval
<1>3. ExistsBijection(1..Len(one), Range(Strings(one)))
    BY <1>1 DEF ExistsBijection
<1>4. QED
    BY <1>2, <1>3, FS_Bijection

\* With the same texts the conditions compare the same.
LEMMA SameTexts ==
    ASSUME NEW one, NEW other, WellMade(one), WellMade(other), Range(Strings(one)) = Range(Strings(other))
    PROVE  SameFunctions(one, other)
<1>1. ASSUME NEW a, NEW b, WellMade(a), WellMade(b), Range(Strings(a)) = Range(Strings(b)), NEW i \in DOMAIN a
      PROVE  \E j \in DOMAIN b : String(a[i]) = String(b[j])
    BY <1>1 DEF Strings, Range
<1>2. QED
    BY <1>1, TextTells DEF SameFunctions

\* Statement.Equals compares one way and counts: that is enough.
LEMMA EqualsIsSame ==
    ASSUME NEW one, NEW other, WellMade(one), WellMade(other), Len(one) = Len(other),
           Range(Strings(one)) \subseteq Range(Strings(other))
    PROVE  SameFunctions(one, other)
<1>1. Range(Strings(one)) = Range(Strings(other))
    BY TextsCounted, FS_Subset
<1>2. QED
    BY <1>1, SameTexts

\* No condition is cancelled in the hash.
LEMMA NoneCancelled == ASSUME NEW one, WellMade(one) PROVE Odd(one) = Range(Strings(one))
<1>1. ASSUME NEW c \in Range(Strings(one))
      PROVE  Cardinality({i \in DOMAIN one : String(one[i]) = c}) % 2 = 1
  <2>1. PICK j \in DOMAIN one : String(one[j]) = c
    BY <1>1 DEF Range, Strings
  <2>2. \A i \in DOMAIN one : String(one[i]) = c => i = j
    BY <2>1, TextTells DEF WellMade
  <2>3. {i \in DOMAIN one : String(one[i]) = c} = {j}
    BY <2>1, <2>2
  <2>4. Cardinality({j}) = 1 /\ 1 % 2 = 1
    BY FS_Singleton
  <2>5. QED
    BY <2>3, <2>4
<1>2. QED
    BY <1>1, Zenon DEF Odd

-----------------------------------------------------------------------------
(* The conditions of a statement, stored and read again *)

\* SetToSeq lists a finite set, each element once.
LEMMA Listed ==
    ASSUME NEW S, IsFiniteSet(S)
    PROVE  /\ IsSequence(SetToSeq(S))
           /\ \A i \in DOMAIN SetToSeq(S) : SetToSeq(S)[i] \in S
           /\ \A x \in S : \E i \in DOMAIN SetToSeq(S) : SetToSeq(S)[i] = x
           /\ \A i, j \in DOMAIN SetToSeq(S) : i # j => SetToSeq(S)[i] # SetToSeq(S)[j]
<1> DEFINE n == Cardinality(S)
<1>1. n \in Nat /\ ExistsBijection(1..n, S)
    BY FS_CardinalityType
<1>2. PICK g : g \in Bijection(1..n, S)
    BY <1>1 DEF ExistsBijection
<1>3. g \in [1..n -> S] /\ IsInjective(g)
    BY <1>2 DEF Bijection, Injection, IsInjective
<1>4. SetToSeq(S) \in [1..n -> S] /\ IsInjective(SetToSeq(S))
    BY <1>3 DEF SetToSeq
<1> DEFINE q == SetToSeq(S)
<1> HIDE DEF q
<1>5. q \in [1..n -> S] /\ \A i, j \in 1..n : q[i] = q[j] => i = j
    BY <1>4 DEF IsInjective, q
<1>6. q \in Injection(1..n, S)
    BY <1>5 DEF Injection, IsInjective
<1>7. IsFiniteSet(1..n) /\ Cardinality(1..n) = n
    BY <1>1, FS_Interval
<1>8. q \in Surjection(1..n, S)
    BY <1>6, <1>7, FS_Injection
<1>9. \A x \in S : \E i \in 1..n : q[i] = x
    BY <1>8 DEF Surjection
<1>10. q \in Seq(S)
    BY <1>1, <1>5, SeqDef
<1>11. IsSequence(q)
    BY <1>10, SeqOfRange DEF IsSequence
<1>12. QED
    BY <1>5, <1>9, <1>11 DEF q

\* Every condition is written, can be read, and compares the same then.
LEMMA ConditionsComeBack ==
    ASSUME NEW functions, WellMade(functions)
    PROVE  LET text == MarshalConditions(functions) back == UnmarshalConditions(text)
           IN  /\ \A j \in DOMAIN text : Parses(text[j])
               /\ WellMade(back) /\ SameFunctions(functions, back) /\ Keys(back) = Keys(functions)
<1> DEFINE S == {toMap(functions[i]) : i \in DOMAIN functions}
           text == SetToSeq(S)
           back == UnmarshalConditions(text)
<1>1. Len(functions) \in Nat /\ DOMAIN functions = 1..Len(functions) /\ \A i \in DOMAIN functions : Func(functions[i])
    BY LenProperties DEF WellMade, IsSequence
<1>2. MarshalConditions(functions) = text
  <2> DEFINE kept == {i \in DOMAIN functions : \A j \in i + 1..Len(functions) :
                         LET f == functions[i] g == functions[j]
                         IN <<f.qualifier, f.name, f.key>> # <<g.qualifier, g.name, g.key>>}
  <2>1. ASSUME NEW i \in DOMAIN functions, NEW j \in i + 1..Len(functions) PROVE j \in DOMAIN functions /\ i # j
    BY <1>1
  <2>2. kept = DOMAIN functions
    BY <2>1, Zenon DEF WellMade, Triple
  <2>3. MarshalConditions(functions) = SetToSeq({toMap(functions[i]) : i \in kept})
    BY DEF MarshalConditions
  <2> HIDE DEF kept
  <2>4. QED
    BY <2>2, <2>3
<1>3. IsFiniteSet(S)
  <2> DEFINE g == [i \in DOMAIN functions |-> toMap(functions[i])]
  <2>1. g \in [DOMAIN functions -> S] /\ \A y \in S : \E i \in DOMAIN functions : g[i] = y
    OBVIOUS
  <2>2. IsFiniteSet(DOMAIN functions)
    BY <1>1, FS_Interval
  <2> HIDE DEF g, S
  <2>3. QED
    BY <2>1, <2>2, ImageFinite
<1> HIDE DEF text
<1>4. /\ IsSequence(text)
      /\ \A j \in DOMAIN text : \E i \in DOMAIN functions : text[j] = toMap(functions[i])
      /\ \A i \in DOMAIN functions : \E j \in DOMAIN text : text[j] = toMap(functions[i])
      /\ \A j, k \in DOMAIN text : j # k => text[j] # text[k]
  <2> HIDE DEF S
  <2>1. /\ IsSequence(text)
        /\ \A j \in DOMAIN text : text[j] \in S
        /\ \A x \in S : \E j \in DOMAIN text : text[j] = x
        /\ \A j, k \in DOMAIN text : j # k => text[j] # text[k]
    BY <1>3, Listed DEF text
  <2>2. \A x : x \in S <=> \E i \in DOMAIN functions : x = toMap(functions[i])
    BY DEF S
  <2>3. QED
    BY <2>1, <2>2, Zenon
<1>5. DOMAIN back = DOMAIN text /\ \A j \in DOMAIN text : back[j] = Made(text[j])
    BY DEF UnmarshalConditions, Made
<1>6. \A j \in DOMAIN text : Parses(text[j])
    BY <1>1, <1>4, StoredParses
<1>7. /\ \A j \in DOMAIN back : \E i \in DOMAIN functions : text[j] = toMap(functions[i]) /\ back[j] = Made(toMap(functions[i]))
      /\ \A i \in DOMAIN functions : \E j \in DOMAIN back : back[j] = Made(toMap(functions[i]))
  <2> HIDE DEF back
  <2>1. QED
    BY <1>4, <1>5
<1> HIDE DEF back
<1>8. \A i \in DOMAIN functions :
         LET f == functions[i] g == Made(toMap(functions[i]))
         IN Func(g) /\ SameFunc(f, g) /\ Triple(g) = Triple(f) /\ g.key = f.key
    BY <1>1, RoundTrip, StoredFields DEF Triple
<1>9. SameFunctions(functions, back)
    BY <1>7, <1>8 DEF SameFunctions
<1>10. Keys(back) = Keys(functions)
    BY <1>7, <1>8 DEF Keys
<1>11. IsSequence(back)
  <2>1. Len(text) \in Nat /\ DOMAIN text = 1..Len(text)
    BY <1>4, LenProperties DEF IsSequence
  <2>2. back \in [1..Len(text) -> Range(back)]
    BY <1>5, <2>1 DEF Range, back, UnmarshalConditions
  <2>3. QED
    BY <2>1, <2>2, SeqDef DEF IsSequence
<1>12. ASSUME NEW j \in DOMAIN back, NEW k \in DOMAIN back, j # k PROVE Triple(back[j]) # Triple(back[k])
  <2>1. PICK i \in DOMAIN functions : text[j] = toMap(functions[i]) /\ back[j] = Made(toMap(functions[i]))
    BY <1>7
  <2>2. PICK l \in DOMAIN functions : text[k] = toMap(functions[l]) /\ back[k] = Made(toMap(functions[l]))
    BY <1>7
  <2>3. i # l
    BY <1>4, <1>5, <1>12, <2>1, <2>2
  <2>4. Triple(functions[i]) # Triple(functions[l])
    BY <2>3 DEF WellMade
  <2>5. QED
    BY <1>8, <2>1, <2>2, <2>4
<1>13. WellMade(back)
    BY <1>7, <1>8, <1>11, <1>12 DEF WellMade
<1>14. QED
    BY <1>2, <1>6, <1>9, <1>10, <1>13 DEF back

-----------------------------------------------------------------------------
(* Duplicates *)

\* What the places that stay leave out is the same as one of them.
LEMMA StayingCovers ==
    ASSUME NEW n \in Nat, NEW same
    PROVE  LET stay == Staying(n, same)
           IN  /\ stay \in Seq(1..n)
               /\ \A m \in 1..n : \E i \in DOMAIN stay : stay[i] = m \/ <<stay[i], m>> \in same
<1> DEFINE S == Seq(1..n)
           Step(m, before) ==
               IF \E i \in DOMAIN before : <<before[i], m>> \in same THEN before ELSE Append(before, m)
           F == [m \in 1..n |-> [before \in S |-> Step(m, before)]]
           Rec(f) == [m \in 0..n |-> IF m = 0 THEN <<>> ELSE Step(m, f[m - 1])]
<1>1. <<>> \in S /\ F \in [1..n -> [S -> S]]
  <2>1. \A m \in 1..n : \A before \in S : Step(m, before) \in S
    <3>1. \A m \in 1..n : \A before \in S : Append(before, m) \in S
        BY AppendProperties
    <3> HIDE DEF S
    <3>2. QED
        BY <3>1
  <2> HIDE DEF Step, S
  <2>2. F \in [1..n -> [S -> S]]
    BY <2>1
  <2>3. <<>> \in S
    BY DEF S
  <2>4. QED
    BY <2>2, <2>3
<1>2. PICK g : Iteration(g, n, S, <<>>, F)
  <2> HIDE DEF S, F
  <2>1. QED
    BY <1>1, Iterates
<1>3. g \in [0..n -> S] /\ g[0] = <<>> /\ \A m \in 1..n : g[m] = F[m][g[m - 1]]
    BY <1>2 DEF Iteration
<1>4. \A m \in 1..n : g[m - 1] \in S /\ g[m] = Step(m, g[m - 1])
  <2> TAKE m \in 1..n
  <2>1. m - 1 \in 0..n
    OBVIOUS
  <2>2. g[m - 1] \in S
    BY <1>3, <2>1
  <2>3. QED
    BY <1>3, <2>2
<1>5. g = Rec(g)
  <2> HIDE DEF F, S, Step
  <2>1. \A m \in 0..n : g[m] = Rec(g)[m]
    BY <1>3, <1>4
  <2>2. QED
    BY <1>3, <2>1
<1> DEFINE stay == CHOOSE f : f = Rec(f)
<1>6. stay = Rec(stay)
  <2> HIDE DEF Rec
  <2>1. QED
    BY <1>5
<1>7. Staying(n, same) = stay[n]
    BY DEF Staying
<1> HIDE DEF stay
<1>8. stay[0] = <<>> /\ \A m \in 1..n : stay[m] = Step(m, stay[m - 1])
  <2> HIDE DEF Step
  <2>1. \A m \in 0..n : stay[m] = IF m = 0 THEN <<>> ELSE Step(m, stay[m - 1])
    BY <1>6
  <2>2. QED
    BY <2>1
<1> DEFINE Covered(k) == \A m \in 1..k : \E i \in DOMAIN stay[k] : stay[k][i] = m \/ <<stay[k][i], m>> \in same
           T == {k \in 0..n : stay[k] \in S /\ Covered(k)}
<1>9. 0 \in T
  <2>1. stay[0] \in S /\ 0 \in 0..n
    BY <1>8
  <2>2. Covered(0)
    OBVIOUS
  <2>3. QED
    BY <2>1, <2>2
<1>10. ASSUME NEW k \in 0..n - 1, k \in T PROVE k + 1 \in T
  <2>1. stay[k + 1] = Step(k + 1, stay[k]) /\ stay[k] \in S /\ Covered(k) /\ k + 1 \in 1..n
    <3>1. k + 1 \in 1..n /\ (k + 1) - 1 = k
        OBVIOUS
    <3>2. QED
        BY <1>8, <1>10, <3>1
  <2>2. CASE \E i \in DOMAIN stay[k] : <<stay[k][i], k + 1>> \in same
    <3>1. stay[k + 1] = stay[k]
        BY <2>1, <2>2
    <3>2. Covered(k + 1)
      <4>1. \A m \in 1..k + 1 : m = k + 1 \/ m \in 1..k
        OBVIOUS
      <4> HIDE DEF Step, S
      <4>2. QED
        BY <2>1, <2>2, <3>1, <4>1
    <3> HIDE DEF S, Covered, Step
    <3>3. QED
        BY <2>1, <3>1, <3>2
  <2>3. CASE ~\E i \in DOMAIN stay[k] : <<stay[k][i], k + 1>> \in same
    <3>1. stay[k + 1] = Append(stay[k], k + 1)
        BY <2>1, <2>3
    <3>2. /\ stay[k + 1] \in S
          /\ DOMAIN stay[k + 1] = 1..Len(stay[k]) + 1 /\ DOMAIN stay[k] = 1..Len(stay[k]) /\ Len(stay[k]) \in Nat
          /\ \A i \in 1..Len(stay[k]) : stay[k + 1][i] = stay[k][i]
          /\ stay[k + 1][Len(stay[k]) + 1] = k + 1
      <4>1. stay[k] \in Seq(1..n) /\ k + 1 \in 1..n
        BY <2>1
      <4> HIDE DEF S, Covered, Step
      <4>2. \A q \in Seq(1..n) : \A x \in 1..n :
                /\ Append(q, x) \in Seq(1..n)
                /\ DOMAIN Append(q, x) = 1..Len(q) + 1 /\ DOMAIN q = 1..Len(q) /\ Len(q) \in Nat
                /\ \A i \in 1..Len(q) : Append(q, x)[i] = q[i]
                /\ Append(q, x)[Len(q) + 1] = x
        BY AppendProperties, LenProperties
      <4>3. QED
        BY <3>1, <4>1, <4>2 DEF S
    <3>3. /\ \A i \in DOMAIN stay[k] : i \in DOMAIN stay[k + 1] /\ stay[k + 1][i] = stay[k][i]
          /\ \E i \in DOMAIN stay[k + 1] : stay[k + 1][i] = k + 1
      <4> HIDE DEF S, Covered, Step
      <4>1. Len(stay[k]) + 1 \in 1..Len(stay[k]) + 1 /\ \A i \in 1..Len(stay[k]) : i \in 1..Len(stay[k]) + 1
        BY <3>2
      <4>2. QED
        BY <3>2, <4>1
    <3>4. Covered(k + 1)
      <4> SUFFICES ASSUME NEW m \in 1..k + 1
                   PROVE  \E i \in DOMAIN stay[k + 1] : stay[k + 1][i] = m \/ <<stay[k + 1][i], m>> \in same
        OBVIOUS
      <4>1. CASE m = k + 1
        BY <3>3, <4>1
      <4>2. CASE m # k + 1
        <5>1. m \in 1..k
            BY <4>2
        <5>2. QED
            BY <2>1, <3>3, <5>1
      <4>3. QED
        BY <4>1, <4>2
    <3> HIDE DEF S, Covered, Step
    <3>5. QED
        BY <2>1, <3>2, <3>4
  <2>4. QED
    BY <2>2, <2>3
<1>11. n \in T
  <2> HIDE DEF T
  <2>1. \A k \in 0..n : k \in T
    BY <1>9, <1>10, UpTo
  <2>2. QED
    BY <2>1
<1>12. QED
    BY <1>7, <1>11

-----------------------------------------------------------------------------
(* Statements that say the same *)

\* Statements that differ in nothing but conditions that compare the same;
\* for bucket policies they have the same principals.
Alike(s, t, who) ==
    /\ s.effect = t.effect
    /\ s.actions = t.actions /\ s.notActions = t.notActions
    /\ s.resources = t.resources /\ s.notResources = t.notResources
    /\ SameFunctions(s.conditions, t.conditions)
    /\ who => s.principal = t.principal

\* A statement as the code keeps it.
Sane(st) == IsStatement(st) /\ WellMade(st.conditions)

\* Comparing the same is symmetric and transitive.
LEMMA SameFuncs ==
    ASSUME NEW a, NEW b, NEW c
    PROVE  /\ SameFunctions(a, a)
           /\ SameFunctions(a, b) => SameFunctions(b, a)
           /\ SameFunctions(a, b) /\ SameFunctions(b, c) => SameFunctions(a, c)
<1>1. /\ \A f : SameFunc(f, f)
      /\ \A f, g : SameFunc(f, g) => SameFunc(g, f)
      /\ \A f, g, h : SameFunc(f, g) /\ SameFunc(g, h) => SameFunc(f, h)
    BY Zenon DEF SameFunc
<1>2. SameFunctions(a, a)
    BY <1>1, Zenon DEF SameFunctions
<1>3. SameFunctions(a, b) => SameFunctions(b, a)
    BY <1>1, Zenon DEF SameFunctions
<1>4. SameFunctions(a, b) /\ SameFunctions(b, c) => SameFunctions(a, c)
  <2> SUFFICES ASSUME SameFunctions(a, b), SameFunctions(b, c) PROVE SameFunctions(a, c)
    OBVIOUS
  <2>1. \A i \in DOMAIN a : \E k \in DOMAIN c : SameFunc(a[i], c[k])
    <3> TAKE i \in DOMAIN a
    <3>1. PICK j \in DOMAIN b : SameFunc(a[i], b[j])
        BY DEF SameFunctions
    <3>2. PICK k \in DOMAIN c : SameFunc(b[j], c[k])
        BY DEF SameFunctions
    <3>3. QED
        BY <1>1, <3>1, <3>2, Zenon
  <2>2. \A k \in DOMAIN c : \E i \in DOMAIN a : SameFunc(a[i], c[k])
    <3> TAKE k \in DOMAIN c
    <3>1. PICK j \in DOMAIN b : SameFunc(b[j], c[k])
        BY DEF SameFunctions
    <3>2. PICK i \in DOMAIN a : SameFunc(a[i], b[j])
        BY DEF SameFunctions
    <3>3. QED
        BY <1>1, <3>1, <3>2, Zenon
  <2>3. QED
    BY <2>1, <2>2 DEF SameFunctions
<1>5. QED
    BY <1>2, <1>3, <1>4

\* Alike is an equivalence.
LEMMA AlikeEquivalence ==
    ASSUME NEW a, NEW b, NEW c, NEW who
    PROVE  /\ Alike(a, a, who)
           /\ Alike(a, b, who) => Alike(b, a, who)
           /\ Alike(a, b, who) /\ Alike(b, c, who) => Alike(a, c, who)
<1>1. Alike(a, a, who)
    BY SameFuncs, Zenon DEF Alike
<1>2. Alike(a, b, who) => Alike(b, a, who)
    BY SameFuncs, Zenon DEF Alike
<1>3. Alike(a, b, who) /\ Alike(b, c, who) => Alike(a, c, who)
    BY SameFuncs, Zenon DEF Alike
<1>4. QED
    BY <1>1, <1>2, <1>3

\* Statements that are alike apply to the same requests.
LEMMA ApplyAlike ==
    ASSUME NEW s, NEW t, Sane(s), Sane(t), Alike(s, t, FALSE), NEW args, NEW flag
    PROVE  Applies(s, args, flag) = Applies(t, args, flag)
<1>1. /\ s.effect = t.effect /\ s.actions = t.actions /\ s.notActions = t.notActions
      /\ s.resources = t.resources /\ s.notResources = t.notResources
    BY DEF Alike
<1>2. Evaluate(s.conditions, args.values) = Evaluate(t.conditions, args.values)
    BY SameAnswers DEF Alike, Sane
<1>3. Withheld(s, args, flag) = Withheld(t, args, flag)
    BY <1>1, Zenon DEF Withheld
<1>4. PlainResource(s, args, flag) = PlainResource(t, args, flag)
    BY <1>3, Zenon DEF PlainResource
<1>5. /\ isTable(s) = isTable(t) /\ isSTS(s) = isSTS(t) /\ isAdmin(s) = isAdmin(t) /\ isKMS(s) = isKMS(t)
      /\ hasAdminResource(s) = hasAdminResource(t)
    BY <1>1, Zenon DEF isTable, isSTS, isAdmin, isKMS, hasAdminResource
<1>6. QED
    BY <1>1, <1>2, <1>3, <1>4, <1>5, Zenon DEF Applies

\* So do the statements of bucket policies.
LEMMA BPApplyAlike ==
    ASSUME NEW s, NEW t, Sane(s), Sane(t), Alike(s, t, TRUE), NEW args
    PROVE  BPApplies(s, args) = BPApplies(t, args)
<1>1. /\ s.principal = t.principal /\ s.actions = t.actions /\ s.notActions = t.notActions
      /\ s.resources = t.resources /\ s.notResources = t.notResources
    BY DEF Alike
<1>2. Evaluate(s.conditions, args.values) = Evaluate(t.conditions, args.values)
    BY SameAnswers DEF Alike, Sane
<1>3. QED
    BY <1>1, <1>2, Zenon DEF BPApplies

\* Statement.Equals, BPStatement.Equals and equal hashes relate only
\* statements that are alike.
LEMMA SameIsAlike ==
    ASSUME NEW s, NEW t, Sane(s), Sane(t)
    PROVE  /\ Equals(s, t) => Alike(s, t, FALSE)
           /\ SameHash(s, t) => Alike(s, t, FALSE)
           /\ BPEquals(s, t) => Alike(s, t, TRUE)
<1>1. Equals(s, t) => SameFunctions(s.conditions, t.conditions)
    BY EqualsIsSame DEF Equals, SameParts, Sane
<1>2. SameHash(s, t) => SameFunctions(s.conditions, t.conditions)
    BY NoneCancelled, SameTexts DEF SameHash, Sane
<1>3. QED
    BY <1>1, <1>2 DEF Alike, Equals, SameHash, SameParts, BPEquals

-----------------------------------------------------------------------------
(* Lists of statements that say the same *)

AllSane(statements) == IsSequence(statements) /\ \A i \in DOMAIN statements : Sane(statements[i])

\* Each statement of the one list is like one of the other.
Mirrors(one, other, who) ==
    /\ \A i \in DOMAIN one : \E j \in DOMAIN other : Alike(one[i], other[j], who)
    /\ \A j \in DOMAIN other : \E i \in DOMAIN one : Alike(one[i], other[j], who)

\* Mirroring can be chained.
LEMMA MirrorsChain ==
    ASSUME NEW a, NEW b, NEW c, NEW who, Mirrors(a, b, who), Mirrors(b, c, who) PROVE Mirrors(a, c, who)
<1>1. \A i \in DOMAIN a : \E k \in DOMAIN c : Alike(a[i], c[k], who)
  <2> TAKE i \in DOMAIN a
  <2>1. PICK j \in DOMAIN b : Alike(a[i], b[j], who)
    BY DEF Mirrors
  <2>2. PICK k \in DOMAIN c : Alike(b[j], c[k], who)
    BY DEF Mirrors
  <2>3. QED
    BY <2>1, <2>2, AlikeEquivalence, Zenon
<1>2. \A k \in DOMAIN c : \E i \in DOMAIN a : Alike(a[i], c[k], who)
  <2> TAKE k \in DOMAIN c
  <2>1. PICK j \in DOMAIN b : Alike(b[j], c[k], who)
    BY DEF Mirrors
  <2>2. PICK i \in DOMAIN a : Alike(a[i], b[j], who)
    BY DEF Mirrors
  <2>3. QED
    BY <2>1, <2>2, AlikeEquivalence, Zenon
<1>3. QED
    BY <1>1, <1>2 DEF Mirrors

\* What stays are statements of the list.
LEMMA KeptMembers ==
    ASSUME NEW statements, IsSequence(statements), NEW same
    PROVE  LET stay == Staying(Len(statements), same)
               kept == [i \in DOMAIN stay |-> statements[stay[i]]]
           IN  /\ IsSequence(kept)
               /\ DOMAIN kept = DOMAIN stay
               /\ \A i \in DOMAIN kept : stay[i] \in DOMAIN statements /\ kept[i] = statements[stay[i]]
               /\ \A m \in DOMAIN statements : \E i \in DOMAIN stay : stay[i] = m \/ <<stay[i], m>> \in same
<1> DEFINE n == Len(statements)
           stay == Staying(n, same)
           kept == [i \in DOMAIN stay |-> statements[stay[i]]]
<1>1. n \in Nat /\ DOMAIN statements = 1..n
    BY LenProperties DEF IsSequence
<1>2. stay \in Seq(1..n) /\ \A m \in 1..n : \E i \in DOMAIN stay : stay[i] = m \/ <<stay[i], m>> \in same
    BY <1>1, StayingCovers
<1> HIDE DEF stay
<1>3. Len(stay) \in Nat /\ DOMAIN stay = 1..Len(stay) /\ \A i \in DOMAIN stay : stay[i] \in 1..n
    BY <1>2, LenProperties
<1>4. DOMAIN kept = 1..Len(stay) /\ \A i \in DOMAIN kept : stay[i] \in DOMAIN statements /\ kept[i] = statements[stay[i]]
    BY <1>1, <1>3
<1>5. IsSequence(kept)
  <2>1. kept \in [1..Len(stay) -> Range(kept)]
    BY <1>3 DEF Range
  <2> HIDE DEF kept
  <2>2. QED
    BY <1>3, <2>1, SeqDef DEF IsSequence
<1>6. QED
    BY <1>1, <1>2, <1>3, <1>4, <1>5 DEF stay

\* Without duplicates, each taken for one only if it is alike, a list says the
\* same.
LEMMA KeptMirror ==
    ASSUME NEW statements, AllSane(statements), NEW same, NEW who,
           \A i, j \in DOMAIN statements : <<i, j>> \in same => Alike(statements[i], statements[j], who)
    PROVE  LET stay == Staying(Len(statements), same)
               kept == [i \in DOMAIN stay |-> statements[stay[i]]]
           IN  AllSane(kept) /\ Mirrors(kept, statements, who)
<1> DEFINE stay == Staying(Len(statements), same)
           kept == [i \in DOMAIN stay |-> statements[stay[i]]]
<1>1. /\ IsSequence(kept)
      /\ DOMAIN kept = DOMAIN stay
      /\ \A i \in DOMAIN kept : stay[i] \in DOMAIN statements /\ kept[i] = statements[stay[i]]
      /\ \A m \in DOMAIN statements : \E i \in DOMAIN stay : stay[i] = m \/ <<stay[i], m>> \in same
    BY KeptMembers DEF AllSane
<1> HIDE DEF kept, stay
<1>2. AllSane(kept)
    BY <1>1 DEF AllSane
<1>3. ASSUME NEW m \in DOMAIN statements PROVE \E i \in DOMAIN kept : Alike(kept[i], statements[m], who)
  <2>1. PICK i \in DOMAIN stay : stay[i] = m \/ <<stay[i], m>> \in same
    BY <1>1
  <2>2. i \in DOMAIN kept /\ kept[i] = statements[stay[i]] /\ stay[i] \in DOMAIN statements
    BY <1>1, <2>1
  <2>3. Alike(statements[stay[i]], statements[m], who)
    BY <2>1, <2>2, AlikeEquivalence
  <2>4. QED
    BY <2>2, <2>3
<1>4. \A i \in DOMAIN kept : \E j \in DOMAIN statements : Alike(kept[i], statements[j], who)
    BY <1>1, AlikeEquivalence
<1>5. QED
    BY <1>2, <1>3, <1>4 DEF Mirrors, kept, stay

\* Whichever way duplicates are found.
LEMMA DroppedMirror ==
    ASSUME NEW statements, AllSane(statements)
    PROVE  /\ AllSane(DropDuplicates(statements, Equals)) /\ Mirrors(DropDuplicates(statements, Equals), statements, FALSE)
           /\ AllSane(DropDuplicates(statements, SameHash)) /\ Mirrors(DropDuplicates(statements, SameHash), statements, FALSE)
           /\ AllSane(DropDuplicates(statements, BPEquals)) /\ Mirrors(DropDuplicates(statements, BPEquals), statements, TRUE)
<1> DEFINE places == DOMAIN statements
           equal  == {pair \in places \X places : Equals(statements[pair[1]], statements[pair[2]])}
           hashed == {pair \in places \X places : SameHash(statements[pair[1]], statements[pair[2]])}
           bequal == {pair \in places \X places : BPEquals(statements[pair[1]], statements[pair[2]])}
           kept(same) == LET stay == Staying(Len(statements), same) IN [i \in DOMAIN stay |-> statements[stay[i]]]
<1>1. /\ DropDuplicates(statements, Equals) = kept(equal)
      /\ DropDuplicates(statements, SameHash) = kept(hashed)
      /\ DropDuplicates(statements, BPEquals) = kept(bequal)
    BY DEF DropDuplicates
<1>2. \A i, j \in places :
         /\ <<i, j>> \in equal => Alike(statements[i], statements[j], FALSE)
         /\ <<i, j>> \in hashed => Alike(statements[i], statements[j], FALSE)
         /\ <<i, j>> \in bequal => Alike(statements[i], statements[j], TRUE)
    BY SameIsAlike DEF AllSane
<1> HIDE DEF equal, hashed, bequal
<1>3. /\ AllSane(kept(equal)) /\ Mirrors(kept(equal), statements, FALSE)
      /\ AllSane(kept(hashed)) /\ Mirrors(kept(hashed), statements, FALSE)
      /\ AllSane(kept(bequal)) /\ Mirrors(kept(bequal), statements, TRUE)
    BY <1>2, KeptMirror
<1>4. QED
    BY <1>1, <1>3

\* Dropping duplicates adds no statement.
LEMMA DroppedMembers ==
    ASSUME NEW statements, IsSequence(statements)
    PROVE  \A kept \in {DropDuplicates(statements, Equals), DropDuplicates(statements, SameHash), DropDuplicates(statements, BPEquals)} :
               IsSequence(kept) /\ \A i \in DOMAIN kept : \E j \in DOMAIN statements : kept[i] = statements[j]
<1> DEFINE places == DOMAIN statements
           equal  == {pair \in places \X places : Equals(statements[pair[1]], statements[pair[2]])}
           hashed == {pair \in places \X places : SameHash(statements[pair[1]], statements[pair[2]])}
           bequal == {pair \in places \X places : BPEquals(statements[pair[1]], statements[pair[2]])}
           kept(same) == LET stay == Staying(Len(statements), same) IN [i \in DOMAIN stay |-> statements[stay[i]]]
<1>1. /\ DropDuplicates(statements, Equals) = kept(equal)
      /\ DropDuplicates(statements, SameHash) = kept(hashed)
      /\ DropDuplicates(statements, BPEquals) = kept(bequal)
    BY DEF DropDuplicates
<1>2. \A same : IsSequence(kept(same)) /\ \A i \in DOMAIN kept(same) : \E j \in DOMAIN statements : kept(same)[i] = statements[j]
  <2> TAKE same
  <2>1. /\ IsSequence(kept(same))
        /\ \A i \in DOMAIN kept(same) : Staying(Len(statements), same)[i] \in DOMAIN statements
                                        /\ kept(same)[i] = statements[Staying(Len(statements), same)[i]]
    BY KeptMembers
  <2> HIDE DEF kept
  <2>2. QED
    BY <2>1
<1> HIDE DEF equal, hashed, bequal, kept
<1>3. QED
    BY <1>1, <1>2

-----------------------------------------------------------------------------
(* Lists one behind the other *)

\* FlattenSeq has the elements of all the lists.
LEMMA Flattened ==
    ASSUME NEW A, NEW seqs \in Seq(Seq(A))
    PROVE  /\ FlattenSeq(seqs) \in Seq(A)
           /\ \A i \in DOMAIN FlattenSeq(seqs) : \E j \in DOMAIN seqs : \E k \in DOMAIN seqs[j] : FlattenSeq(seqs)[i] = seqs[j][k]
           /\ \A j \in DOMAIN seqs : \A k \in DOMAIN seqs[j] : \E i \in DOMAIN FlattenSeq(seqs) : FlattenSeq(seqs)[i] = seqs[j][k]
<1> DEFINE n == Len(seqs)
           S == Seq(A)
           F == [m \in 1..n |-> [before \in S |-> before \o seqs[m]]]
           Rec(f) == [i \in 1..n |-> IF i = 1 THEN seqs[i] ELSE f[i - 1] \o seqs[i]]
           \* What the first m lists have.
           Has(f, m) == /\ f \in S
                        /\ \A i \in DOMAIN f : \E j \in 1..m : \E k \in DOMAIN seqs[j] : f[i] = seqs[j][k]
                        /\ \A j \in 1..m : \A k \in DOMAIN seqs[j] : \E i \in DOMAIN f : f[i] = seqs[j][k]
<1>1. n \in Nat /\ DOMAIN seqs = 1..n /\ \A m \in 1..n : seqs[m] \in S
    BY LenProperties
<1>2. \A a, b \in S : /\ a \o b \in S
                      /\ DOMAIN a = 1..Len(a) /\ DOMAIN b = 1..Len(b) /\ DOMAIN (a \o b) = 1..Len(a) + Len(b)
                      /\ Len(a) \in Nat /\ Len(b) \in Nat
                      /\ \A i \in 1..Len(a) : (a \o b)[i] = a[i]
                      /\ \A i \in 1..Len(b) : (a \o b)[Len(a) + i] = b[i]
    BY ConcatProperties, LenProperties
<1>3. \A a \in S : <<>> \o a = a
    BY ConcatEmptySeq
<1>4. <<>> \in S
    OBVIOUS
<1> HIDE DEF S
<1>5. F \in [1..n -> [S -> S]]
    BY <1>1, <1>2
<1>6. PICK g : Iteration(g, n, S, <<>>, F)
  <2> HIDE DEF F, n
  <2>1. QED
    BY <1>1, <1>4, <1>5, Iterates
<1>7. g \in [0..n -> S] /\ g[0] = <<>> /\ \A m \in 1..n : g[m - 1] \in S /\ g[m] = g[m - 1] \o seqs[m]
  <2>1. g \in [0..n -> S] /\ g[0] = <<>> /\ \A m \in 1..n : g[m] = F[m][g[m - 1]]
    BY <1>6 DEF Iteration
  <2>2. \A m \in 1..n : g[m - 1] \in S
    BY <1>1, <2>1
  <2>3. QED
    BY <2>1, <2>2
<1> DEFINE h == [i \in 1..n |-> g[i]]
<1>8. h = Rec(h)
  <2>1. \A i \in 1..n : h[i] = Rec(h)[i]
    <3> TAKE i \in 1..n
    <3>1. CASE i = 1
      <4> HIDE DEF F, Rec, n
      <4>1. 1 \in 1..n /\ 1 - 1 = 0
        BY <3>1
      <4>2. g[1] = g[0] \o seqs[1]
        BY <1>7, <4>1
      <4>3. g[1] = seqs[1]
        BY <1>1, <1>3, <1>7, <4>1, <4>2
      <4>4. QED
        BY <3>1, <4>3 DEF Rec
    <3>2. CASE i # 1
      <4>1. i - 1 \in 1..n /\ h[i - 1] = g[i - 1]
        BY <1>1, <3>2
      <4>2. QED
        BY <1>7, <3>2, <4>1
    <3>3. QED
        BY <3>1, <3>2
  <2>2. QED
    BY <2>1
<1> HIDE DEF h
<1> DEFINE flatten == CHOOSE f : f = Rec(f)
<1>9. flatten = Rec(flatten)
  <2> HIDE DEF Rec
  <2>1. QED
    BY <1>8
<1>10. FlattenSeq(seqs) = IF n = 0 THEN seqs ELSE flatten[n]
    BY DEF FlattenSeq
<1> HIDE DEF flatten
<1>11. \A i \in 1..n : flatten[i] = IF i = 1 THEN seqs[i] ELSE flatten[i - 1] \o seqs[i]
    BY <1>9
<1>12. CASE n = 0
  <2>1. seqs = <<>> /\ FlattenSeq(seqs) = <<>>
    BY <1>1, <1>10, <1>12
  <2>2. DOMAIN seqs = {} /\ \A i : i \notin DOMAIN FlattenSeq(seqs)
    BY <2>1
  <2>3. QED
    BY <1>4, <2>1, <2>2 DEF S
<1>13. CASE n # 0
  <2> DEFINE T == {m \in 0..n - 1 : Has(flatten[m + 1], m + 1)}
  <2>1. 0 \in T
    <3>1. flatten[1] = seqs[1] /\ seqs[1] \in S /\ 0 \in 0..n - 1
        BY <1>1, <1>11, <1>13
    <3>2. \A j \in 1..1 : j = 1
        OBVIOUS
    <3>3. Has(flatten[1], 1)
        BY <3>1, <3>2
    <3> HIDE DEF Has
    <3>4. QED
        BY <3>1, <3>3
  <2>2. ASSUME NEW k \in 0..n - 1 - 1, k \in T PROVE k + 1 \in T
    <3> DEFINE m == k + 1
               a == flatten[m]
               b == seqs[m + 1]
    <3>1. m \in 1..n - 1 /\ m + 1 \in 1..n /\ m + 1 # 1 /\ (m + 1) - 1 = m /\ m + 1 \in Nat /\ m \in Nat
        BY <1>1, <2>2
    <3>2. flatten[m + 1] = a \o b /\ b \in S
        BY <1>1, <1>11, <3>1
    <3>3. Has(a, m)
        BY <2>2
    <3> HIDE DEF m, a, b
    <3>4. a \in S
        BY <3>3
    <3>5. /\ a \o b \in S /\ Len(a) \in Nat /\ Len(b) \in Nat
          /\ DOMAIN a = 1..Len(a) /\ DOMAIN b = 1..Len(b) /\ DOMAIN (a \o b) = 1..Len(a) + Len(b)
          /\ \A i \in 1..Len(a) : (a \o b)[i] = a[i]
          /\ \A i \in 1..Len(b) : (a \o b)[Len(a) + i] = b[i]
        BY <1>2, <3>2, <3>4
    <3>6. /\ \A i \in DOMAIN a : i \in DOMAIN (a \o b) /\ (a \o b)[i] = a[i]
          /\ \A i \in DOMAIN b : Len(a) + i \in DOMAIN (a \o b) /\ (a \o b)[Len(a) + i] = b[i]
        BY <3>5
    <3>7. \A i \in DOMAIN (a \o b) : i \in DOMAIN a \/ \E l \in DOMAIN b : i = Len(a) + l
      <4> TAKE i \in DOMAIN (a \o b)
      <4>1. i \notin DOMAIN a => i - Len(a) \in DOMAIN b /\ i = Len(a) + (i - Len(a))
        BY <3>5
      <4>2. QED
        BY <4>1
    <3>8. \A j \in 1..m + 1 : j \in 1..m \/ j = m + 1
        BY <3>1
    <3>9. 1..m \subseteq 1..m + 1 /\ m + 1 \in 1..m + 1
        BY <3>1
    <3>10. \A i \in DOMAIN (a \o b) : \E j \in 1..m + 1 : \E l \in DOMAIN seqs[j] : (a \o b)[i] = seqs[j][l]
      <4> TAKE i \in DOMAIN (a \o b)
      <4>1. CASE i \in DOMAIN a
        <5>1. PICK j \in 1..m : \E l \in DOMAIN seqs[j] : a[i] = seqs[j][l]
            BY <3>3, <4>1
        <5>2. j \in 1..m + 1 /\ (a \o b)[i] = a[i]
            BY <3>6, <3>9, <4>1
        <5>3. QED
            BY <5>1, <5>2
      <4>2. CASE i \notin DOMAIN a
        <5>1. PICK l \in DOMAIN b : i = Len(a) + l
            BY <3>7, <4>2
        <5>2. (a \o b)[i] = seqs[m + 1][l] /\ l \in DOMAIN seqs[m + 1]
            BY <3>6, <5>1 DEF b
        <5>3. QED
            BY <3>9, <5>2
      <4>3. QED
        BY <4>1, <4>2
    <3>11. \A j \in 1..m + 1 : \A l \in DOMAIN seqs[j] : \E i \in DOMAIN (a \o b) : (a \o b)[i] = seqs[j][l]
      <4> TAKE j \in 1..m + 1
      <4> TAKE l \in DOMAIN seqs[j]
      <4>1. CASE j \in 1..m
        BY <3>3, <3>6, <4>1
      <4>2. CASE j = m + 1
        BY <3>6, <4>2 DEF b
      <4>3. QED
        BY <3>8, <4>1, <4>2
    <3>12. Has(a \o b, m + 1)
        BY <3>5, <3>10, <3>11, Zenon
    <3> HIDE DEF Has
    <3>13. Has(flatten[m + 1], m + 1)
        BY <3>2, <3>12
    <3>14. m \in 0..n - 1
        BY <3>1
    <3>15. QED
        BY <3>13, <3>14 DEF m
  <2>3. n - 1 \in T
    <3>1. n - 1 \in Nat
        BY <1>1, <1>13
    <3> HIDE DEF T
    <3>2. \A k \in 0..n - 1 : k \in T
        BY <2>1, <2>2, <3>1, UpTo
    <3>3. QED
        BY <3>1, <3>2
  <2>4. Has(flatten[n], n)
    <3>1. n - 1 + 1 = n
        BY <1>1
    <3> HIDE DEF Has
    <3>2. QED
        BY <2>3, <3>1
  <2>5. FlattenSeq(seqs) = flatten[n]
    BY <1>10, <1>13
  <2>6. Has(FlattenSeq(seqs), n)
    <3> HIDE DEF Has
    <3>1. QED
        BY <2>4, <2>5
  <2> HIDE DEF n
  <2>7. QED
    BY <1>1, <2>6, Zenon DEF S
<1>14. QED
    BY <1>12, <1>13

-----------------------------------------------------------------------------
(* Statements read from documents *)

\* Decoded changes the conditions and nothing else.
LEMMA DecodedFields ==
    ASSUME NEW doc, IsSequence(doc), \A i \in DOMAIN doc : IsStatement(doc[i])
    PROVE  /\ IsSequence(Decoded(doc)) /\ DOMAIN Decoded(doc) = DOMAIN doc
           /\ \A i \in DOMAIN doc :
                 LET st == Decoded(doc)[i]
                 IN  /\ IsStatement(st) /\ DOMAIN st = DOMAIN doc[i]
                     /\ st.effect = doc[i].effect /\ st.actions = doc[i].actions /\ st.notActions = doc[i].notActions
                     /\ st.resources = doc[i].resources /\ st.notResources = doc[i].notResources
                     /\ st.conditions = UnmarshalConditions(doc[i].conditions)
                     /\ "principal" \in DOMAIN doc[i] => st.principal = doc[i].principal
<1>1. Len(doc) \in Nat /\ DOMAIN doc = 1..Len(doc)
    BY LenProperties DEF IsSequence
<1>2. DOMAIN Decoded(doc) = DOMAIN doc
    BY DEF Decoded
<1>3. IsSequence(Decoded(doc))
  <2>1. Decoded(doc) \in [1..Len(doc) -> Range(Decoded(doc))]
    BY <1>1, <1>2 DEF Range, Decoded
  <2>2. QED
    BY <1>1, <2>1, SeqDef DEF IsSequence
<1>4. ASSUME NEW i \in DOMAIN doc
      PROVE  LET st == Decoded(doc)[i]
             IN  /\ IsStatement(st) /\ DOMAIN st = DOMAIN doc[i]
                 /\ st.effect = doc[i].effect /\ st.actions = doc[i].actions /\ st.notActions = doc[i].notActions
                 /\ st.resources = doc[i].resources /\ st.notResources = doc[i].notResources
                 /\ st.conditions = UnmarshalConditions(doc[i].conditions)
                 /\ "principal" \in DOMAIN doc[i] => st.principal = doc[i].principal
  <2> DEFINE st == Decoded(doc)[i]
  <2>1. st = [doc[i] EXCEPT !.conditions = UnmarshalConditions(@)]
    BY DEF Decoded
  <2>2. {"effect", "actions", "notActions", "resources", "notResources", "conditions"} \subseteq DOMAIN doc[i]
    BY DEF IsStatement
  <2> HIDE DEF st
  <2>3. /\ DOMAIN st = DOMAIN doc[i]
        /\ st.effect = doc[i].effect /\ st.actions = doc[i].actions /\ st.notActions = doc[i].notActions
        /\ st.resources = doc[i].resources /\ st.notResources = doc[i].notResources
        /\ st.conditions = UnmarshalConditions(doc[i].conditions)
        /\ "principal" \in DOMAIN doc[i] => st.principal = doc[i].principal
    BY <2>1, <2>2
  <2>4. IsStatement(st)
    BY <2>2, <2>3 DEF IsStatement, AllResources
  <2>5. QED
    BY <2>3, <2>4 DEF st
<1>5. QED
    BY <1>2, <1>3, <1>4

\* The conditions of an unambiguous statement.
LEMMA UnmarshalledWellMade ==
    ASSUME NEW conditions, IsSequence(conditions),
           \A j \in DOMAIN conditions : IsCondition(conditions[j]) /\ Parses(conditions[j]),
           NEW functions, functions = UnmarshalConditions(conditions),
           \A j, k \in DOMAIN functions : j # k => Triple(functions[j]) # Triple(functions[k]),
           \A j \in DOMAIN functions : functions[j].name \in DateNames => \A t \in functions[j].values : Format(t) = t
    PROVE  WellMade(functions)
<1>1. Len(conditions) \in Nat /\ DOMAIN conditions = 1..Len(conditions)
    BY LenProperties DEF IsSequence
<1>2. DOMAIN functions = DOMAIN conditions /\ \A j \in DOMAIN conditions : functions[j] = Made(conditions[j])
    BY DEF UnmarshalConditions, Made
<1>3. functions \in [1..Len(conditions) -> Range(functions)]
    BY <1>1, <1>2 DEF UnmarshalConditions, Range
<1>4. IsSequence(functions)
    BY <1>1, <1>3, SeqDef DEF IsSequence
<1>5. \A j \in DOMAIN conditions : Made(conditions[j]).name = conditions[j].name
    BY DEF Made
<1>6. \A j \in DOMAIN functions : Func(functions[j])
    BY <1>2, <1>5, MadeIsFunc
<1>7. QED
    BY <1>4, <1>6 DEF WellMade

\* A document that can be read and is unambiguous.
LEMMA DecodedSane ==
    ASSUME NEW doc, IsDocument(doc), Decodes(doc), Unambiguous(doc) PROVE AllSane(Decoded(doc))
<1>1. /\ IsSequence(Decoded(doc)) /\ DOMAIN Decoded(doc) = DOMAIN doc
      /\ \A i \in DOMAIN doc : IsStatement(Decoded(doc)[i]) /\ Decoded(doc)[i].conditions = UnmarshalConditions(doc[i].conditions)
    BY DecodedFields DEF IsDocument
<1>2. ASSUME NEW i \in DOMAIN doc PROVE WellMade(UnmarshalConditions(doc[i].conditions))
  <2> DEFINE conditions == doc[i].conditions
             functions == UnmarshalConditions(conditions)
  <2>1. IsSequence(conditions) /\ \A j \in DOMAIN conditions : IsCondition(conditions[j]) /\ Parses(conditions[j])
    BY DEF IsDocument, Decodes
  <2>2. /\ \A j, k \in DOMAIN functions : j # k => Triple(functions[j]) # Triple(functions[k])
        /\ \A j \in DOMAIN functions : functions[j].name \in DateNames => \A t \in functions[j].values : Format(t) = t
    BY Zenon DEF Unambiguous, Triple
  <2> HIDE DEF conditions, functions
  <2>3. WellMade(functions)
    BY <2>1, <2>2, UnmarshalledWellMade DEF functions
  <2>4. QED
    BY <2>3 DEF functions, conditions
<1>3. QED
    BY <1>1, <1>2 DEF AllSane, Sane

-----------------------------------------------------------------------------
(* Statements stored and read again *)

\* A valid resource is read as it was.
LEMMA ResourcesComeBack ==
    ASSUME NEW resources, \A r \in resources : IsResource(r) /\ ResourceValid(r)
    PROVE  {ParseResource(r.type, r.pattern) : r \in resources} = resources
<1>1. \A r \in resources : ParseResource(r.type, r.pattern) = r
    BY DEF ParseResource, IsResource, ResourceValid
<1>2. QED
    BY <1>1

\* MarshalJSON writes the conditions, and everything else as it is.
LEMMA WrittenFields ==
    ASSUME NEW policy, IsSequence(policy.statements), \A i \in DOMAIN policy.statements : IsStatement(policy.statements[i]),
           Marshals(policy)
    PROVE  LET old == policy.statements text == MarshalJSON(policy)
           IN  /\ IsSequence(text) /\ DOMAIN text = DOMAIN old
               /\ \A i \in DOMAIN old :
                     LET st == text[i]
                     IN  /\ IsStatement(st) /\ DOMAIN st = DOMAIN old[i]
                         /\ st.effect = old[i].effect /\ st.actions = old[i].actions /\ st.notActions = old[i].notActions
                         /\ st.resources = old[i].resources /\ st.notResources = old[i].notResources
                         /\ st.conditions = MarshalConditions(old[i].conditions)
                         /\ "principal" \in DOMAIN old[i] => st.principal = old[i].principal
<1> DEFINE old == policy.statements
           text == MarshalJSON(policy)
<1>1. Len(old) \in Nat /\ DOMAIN old = 1..Len(old)
    BY LenProperties DEF IsSequence
<1>2. ASSUME NEW i \in DOMAIN old
      PROVE  LET st == text[i]
             IN  /\ IsStatement(st) /\ DOMAIN st = DOMAIN old[i]
                 /\ st.effect = old[i].effect /\ st.actions = old[i].actions /\ st.notActions = old[i].notActions
                 /\ st.resources = old[i].resources /\ st.notResources = old[i].notResources
                 /\ st.conditions = MarshalConditions(old[i].conditions)
                 /\ "principal" \in DOMAIN old[i] => st.principal = old[i].principal
  <2> DEFINE st == text[i]
             write(resources) == {ParseResource(r.type, r.pattern) : r \in resources}
  <2>1. st = [old[i] EXCEPT !.conditions = MarshalConditions(@), !.resources = write(@), !.notResources = write(@)]
    BY DEF MarshalJSON
  <2>2. write(old[i].resources) = old[i].resources /\ write(old[i].notResources) = old[i].notResources
    <3>1. \A r \in old[i].resources \cup old[i].notResources : IsResource(r) /\ ResourceValid(r)
        BY <1>2 DEF IsStatement, Marshals, AllResources
    <3>2. QED
        BY <3>1, ResourcesComeBack
  <2>3. {"effect", "actions", "notActions", "resources", "notResources", "conditions"} \subseteq DOMAIN old[i]
    BY <1>2 DEF IsStatement
  <2>4. \A r \in AllResources(old[i]) : IsResource(r)
    BY <1>2 DEF IsStatement
  <2> HIDE DEF st, write, old
  <2>5. /\ DOMAIN st = DOMAIN old[i]
        /\ st.effect = old[i].effect /\ st.actions = old[i].actions /\ st.notActions = old[i].notActions
        /\ st.resources = write(old[i].resources) /\ st.notResources = write(old[i].notResources)
        /\ st.conditions = MarshalConditions(old[i].conditions)
        /\ "principal" \in DOMAIN old[i] => st.principal = old[i].principal
    BY <2>1, <2>3
  <2>6. IsStatement(st)
    BY <2>2, <2>3, <2>4, <2>5 DEF IsStatement, AllResources
  <2>7. QED
    BY <2>2, <2>5, <2>6 DEF st
<1>3. DOMAIN text = DOMAIN old /\ IsSequence(text)
  <2>1. DOMAIN text = DOMAIN old
    BY DEF MarshalJSON
  <2>2. text \in [1..Len(old) -> Range(text)]
    BY <1>1, <2>1 DEF MarshalJSON, Range
  <2> HIDE DEF text, old
  <2>3. QED
    BY <1>1, <2>1, <2>2, SeqDef DEF IsSequence
<1>4. QED
    BY <1>2, <1>3

\* Storing a list of statements and reading it again: everything can be read,
\* and each statement is alike, with the same keys.
LEMMA StatementsComeBack ==
    ASSUME NEW policy, AllSane(policy.statements), Marshals(policy)
    PROVE  LET old == policy.statements text == MarshalJSON(policy) new == Decoded(text)
           IN  /\ Decodes(text) /\ AllSane(new) /\ DOMAIN new = DOMAIN old /\ DOMAIN text = DOMAIN old
               /\ \A i \in DOMAIN old :
                     /\ Alike(old[i], new[i], "principal" \in DOMAIN old[i])
                     /\ Keys(new[i].conditions) = Keys(old[i].conditions)
                     /\ AllResources(text[i]) = AllResources(old[i])
                     /\ DOMAIN new[i] = DOMAIN old[i]
<1> DEFINE old == policy.statements
           text == MarshalJSON(policy)
           new == Decoded(text)
<1>1. IsSequence(old) /\ \A i \in DOMAIN old : IsStatement(old[i]) /\ WellMade(old[i].conditions)
    BY DEF AllSane, Sane
<1>2. /\ IsSequence(text) /\ DOMAIN text = DOMAIN old
      /\ \A i \in DOMAIN old :
            LET st == text[i]
            IN  /\ IsStatement(st) /\ DOMAIN st = DOMAIN old[i]
                /\ st.effect = old[i].effect /\ st.actions = old[i].actions /\ st.notActions = old[i].notActions
                /\ st.resources = old[i].resources /\ st.notResources = old[i].notResources
                /\ st.conditions = MarshalConditions(old[i].conditions)
                /\ "principal" \in DOMAIN old[i] => st.principal = old[i].principal
    BY <1>1, WrittenFields
<1> HIDE DEF old, text
<1>3. /\ IsSequence(new) /\ DOMAIN new = DOMAIN text
      /\ \A i \in DOMAIN text :
            LET st == new[i]
            IN  /\ IsStatement(st) /\ DOMAIN st = DOMAIN text[i]
                /\ st.effect = text[i].effect /\ st.actions = text[i].actions /\ st.notActions = text[i].notActions
                /\ st.resources = text[i].resources /\ st.notResources = text[i].notResources
                /\ st.conditions = UnmarshalConditions(text[i].conditions)
                /\ "principal" \in DOMAIN text[i] => st.principal = text[i].principal
    BY <1>2, DecodedFields
<1> HIDE DEF new
<1>4. ASSUME NEW i \in DOMAIN old
      PROVE  /\ \A j \in DOMAIN text[i].conditions : Parses(text[i].conditions[j])
             /\ WellMade(new[i].conditions) /\ SameFunctions(old[i].conditions, new[i].conditions)
             /\ Keys(new[i].conditions) = Keys(old[i].conditions)
  <2>1. text[i].conditions = MarshalConditions(old[i].conditions) /\ WellMade(old[i].conditions)
    BY <1>1, <1>2
  <2>2. new[i].conditions = UnmarshalConditions(text[i].conditions)
    BY <1>2, <1>3
  <2>3. QED
    BY <2>1, <2>2, ConditionsComeBack
<1>5. Decodes(text)
    BY <1>2, <1>4 DEF Decodes
<1>6. AllSane(new)
    BY <1>2, <1>3, <1>4 DEF AllSane, Sane
<1>7. ASSUME NEW i \in DOMAIN old
      PROVE  /\ Alike(old[i], new[i], "principal" \in DOMAIN old[i])
             /\ AllResources(text[i]) = AllResources(old[i])
             /\ DOMAIN new[i] = DOMAIN old[i]
  <2>1. i \in DOMAIN text
    BY <1>2
  <2>2. AllResources(text[i]) = AllResources(old[i]) /\ DOMAIN new[i] = DOMAIN old[i]
    BY <1>2, <1>3, <2>1 DEF AllResources
  <2>3. Alike(old[i], new[i], "principal" \in DOMAIN old[i])
    BY <1>2, <1>3, <1>4, <2>1, Zenon DEF Alike
  <2>4. QED
    BY <2>2, <2>3
<1>8. QED
    BY <1>2, <1>3, <1>4, <1>5, <1>6, <1>7 DEF old, text, new

-----------------------------------------------------------------------------
(* The statements of several policies *)

\* What FlattenSeq makes of the statements of policies.
LEMMA AllStatements ==
    ASSUME NEW policies, IsSequence(policies), \A i \in DOMAIN policies : IsSequence(policies[i].statements)
    PROVE  LET all == FlattenSeq([i \in DOMAIN policies |-> policies[i].statements])
           IN  /\ IsSequence(all)
               /\ \A i \in DOMAIN all : \E j \in DOMAIN policies : \E k \in DOMAIN policies[j].statements :
                     all[i] = policies[j].statements[k]
               /\ \A j \in DOMAIN policies : \A k \in DOMAIN policies[j].statements : \E i \in DOMAIN all :
                     all[i] = policies[j].statements[k]
<1> DEFINE seqs == [i \in DOMAIN policies |-> policies[i].statements]
           A == UNION {Range(policies[i].statements) : i \in DOMAIN policies}
<1>1. Len(policies) \in Nat /\ DOMAIN policies = 1..Len(policies)
    BY LenProperties DEF IsSequence
<1>2. \A S, T : S \subseteq T => Seq(S) \subseteq Seq(T)
    BY SeqDef
<1>3. \A i \in DOMAIN policies : policies[i].statements \in Seq(A)
  <2> TAKE i \in DOMAIN policies
  <2>1. Range(policies[i].statements) \subseteq A
    OBVIOUS
  <2> HIDE DEF A
  <2>2. QED
    BY <1>2, <2>1 DEF IsSequence
<1> HIDE DEF A
<1>4. seqs \in [1..Len(policies) -> Seq(A)]
    BY <1>1, <1>3
<1>5. seqs \in Seq(Seq(A))
  <2> HIDE DEF seqs
  <2>1. QED
    BY <1>1, <1>4, SeqDef
<1>6. DOMAIN seqs = DOMAIN policies /\ \A i \in DOMAIN policies : seqs[i] = policies[i].statements
    OBVIOUS
<1> HIDE DEF seqs
<1>7. /\ FlattenSeq(seqs) \in Seq(A)
      /\ \A i \in DOMAIN FlattenSeq(seqs) : \E j \in DOMAIN seqs : \E k \in DOMAIN seqs[j] : FlattenSeq(seqs)[i] = seqs[j][k]
      /\ \A j \in DOMAIN seqs : \A k \in DOMAIN seqs[j] : \E i \in DOMAIN FlattenSeq(seqs) : FlattenSeq(seqs)[i] = seqs[j][k]
    BY <1>5, Flattened
<1>8. IsSequence(FlattenSeq(seqs))
    BY <1>7, SeqOfRange DEF IsSequence
<1> DEFINE all == FlattenSeq(seqs)
<1> HIDE DEF all
<1>9. /\ \A i \in DOMAIN all : \E j \in DOMAIN policies : \E k \in DOMAIN policies[j].statements : all[i] = policies[j].statements[k]
      /\ \A j \in DOMAIN policies : \A k \in DOMAIN policies[j].statements : \E i \in DOMAIN all : all[i] = policies[j].statements[k]
  <2>1. ASSUME NEW i \in DOMAIN all
        PROVE  \E j \in DOMAIN policies : \E k \in DOMAIN policies[j].statements : all[i] = policies[j].statements[k]
    <3>1. PICK j \in DOMAIN seqs : \E k \in DOMAIN seqs[j] : all[i] = seqs[j][k]
        BY <1>7, <2>1 DEF all
    <3>2. QED
        BY <1>6, <3>1
  <2>2. ASSUME NEW j \in DOMAIN policies, NEW k \in DOMAIN policies[j].statements
        PROVE  \E i \in DOMAIN all : all[i] = policies[j].statements[k]
    <3>1. j \in DOMAIN seqs /\ k \in DOMAIN seqs[j] /\ seqs[j] = policies[j].statements
        BY <1>6
    <3>2. QED
        BY <1>7, <3>1 DEF all
  <2>3. QED
    BY <2>1, <2>2
<1>10. QED
    BY <1>8, <1>9, Zenon DEF all, seqs

-----------------------------------------------------------------------------
(* The inductive invariant *)

\* What IndexSound says of one policy.
Sound(policy) ==
    /\ \A a \in DOMAIN policy.index : \A i \in policy.index[a] :
          /\ i \in DOMAIN policy.statements
          /\ policy.statements[i].effect = "Allow" /\ a \in policy.statements[i].actions
    /\ HasDenyStatement(policy) = policy.hasDeny

SoundEntry(entry) == "policy" \in DOMAIN entry /\ Sound(entry.policy)

IInv ==
    /\ loaded \in Seq(Range(loaded))
    /\ \A i \in DOMAIN loaded : SoundEntry(loaded[i])
    /\ Sound(merged.policy)

-----------------------------------------------------------------------------
(* Lemmas: sequences *)

\* What is left after one entry has gone was there before.
LEMMA RemoveAtKeeps ==
    ASSUME NEW S, NEW q \in Seq(S), NEW i \in DOMAIN q
    PROVE  RemoveAt(q, i) \in Seq(S)
<1>1. i \in 1..Len(q) /\ Len(q) \in Nat
    BY LenProperties
<1>2. \A j \in 1..Len(q) : q[j] \in S
    BY ElementOfSeq
<1>3. SubSeq(q, 1, i - 1) \in Seq(S)
    BY <1>1, <1>2, SubSeqProperties
<1>4. SubSeq(q, i + 1, Len(q)) \in Seq(S)
    BY <1>1, <1>2, SubSeqProperties
<1>5. QED
    BY <1>3, <1>4, ConcatProperties DEF RemoveAt

-----------------------------------------------------------------------------
(* Lemmas: the index *)

\* updateActionIndex builds a sound index, whatever the statements are.
LEMMA IndexBuilt == ASSUME NEW statements PROVE Sound(updateActionIndex(statements))
    BY Zenon DEF Sound, updateActionIndex, HasDenyStatement, IndexedActions

\* A canned policy has no index, and no statement of its denies.
LEMMA CannedSound ==
    ASSUME NEW statements \in DefaultPolicies
    PROVE  Sound([statements |-> statements, index |-> [a \in {} |-> {}], hasDeny |-> FALSE])
<1>1. \A i \in DOMAIN statements : statements[i].effect # "Deny"
    BY DEF DefaultPolicies, readwrite, readonly, consolereadonly, writeonly, diagnostics, tablesAdmin, iamAdmin,
           infraAdmin, tablesReadWrite, tablesReadOnly, consoleAdmin, Grant
<1>2. QED
    BY <1>1 DEF Sound, HasDenyStatement

\* MergePolicies returns an only policy as it is, or builds the index anew.
LEMMA MergedSound ==
    ASSUME IInv, loaded # <<>> PROVE Sound(MergePolicies(Policies))
<1>1. CASE Len(Policies) = 1
  <2>1. 1 \in DOMAIN loaded
    BY <1>1 DEF IInv, Policies
  <2>2. MergePolicies(Policies) = loaded[1].policy
    BY <1>1, <2>1 DEF MergePolicies, Policies
  <2>3. QED
    BY <2>1, <2>2 DEF IInv, SoundEntry
<1>2. CASE Len(Policies) # 1
  <2>1. PICK statements : MergePolicies(Policies) = updateActionIndex(statements)
    BY <1>2 DEF MergePolicies
  <2>2. QED
    BY <2>1, IndexBuilt
<1>3. QED
    BY <1>1, <1>2

-----------------------------------------------------------------------------
\* Before anything is loaded there is nothing to be wrong.
LEMMA InitSound == Init => IInv
<1> SUFFICES ASSUME Init PROVE IInv
    OBVIOUS
<1>1. loaded \in Seq(Range(loaded)) /\ DOMAIN loaded = {}
    BY DEF Init, Range
<1>2. merged.policy = updateActionIndex(<<>>)
    BY DEF Init, Unmerged
<1>3. QED
    BY <1>1, <1>2, IndexBuilt DEF IInv

\* A sound entry behind the others keeps the invariant.
LEMMA Appended ==
    ASSUME IInv, NEW entry, SoundEntry(entry), loaded' = Append(loaded, entry), merged' = merged
    PROVE  IInv'
<1>1. loaded \in Seq(Range(loaded) \cup {entry})
    BY DEF IInv
<1>2. /\ loaded' \in Seq(Range(loaded) \cup {entry})
      /\ \A i \in DOMAIN loaded' : loaded'[i] \in Range(loaded) \cup {entry}
    BY <1>1
<1>3. loaded' \in Seq(Range(loaded'))
    BY <1>2, SeqOfRange
<1>4. \A i \in DOMAIN loaded' : SoundEntry(loaded'[i])
    BY <1>2 DEF IInv, Range
<1>5. QED
    BY <1>3, <1>4 DEF IInv

\* Loading, merging and reloading keep every stored policy sound.
LEMMA NextSound == IInv /\ [Next]_vars => IInv'
<1> SUFFICES ASSUME IInv, [Next]_vars PROVE IInv'
    OBVIOUS
<1>1. ASSUME NEW doc, NEW strict, Load(doc, strict) PROVE IInv'
  <2> DEFINE entry == [doc |-> doc, strict |-> strict, policy |-> UnmarshalJSON(doc)]
  <2>1. loaded' = Append(loaded, entry) /\ merged' = merged
    BY <1>1 DEF Load
  <2>2. SoundEntry(entry)
    BY IndexBuilt DEF SoundEntry, UnmarshalJSON
  <2>3. QED
    BY <2>1, <2>2, Appended
<1>2. ASSUME NEW statements \in DefaultPolicies, UseDefault(statements) PROVE IInv'
  <2> DEFINE policy == [statements |-> statements, index |-> [a \in {} |-> {}], hasDeny |-> FALSE]
             entry  == [doc |-> statements, strict |-> TRUE, policy |-> policy]
  <2>1. loaded' = <<entry>> /\ merged' = merged /\ loaded = <<>>
    BY <1>2 DEF UseDefault
  <2>2. SoundEntry(entry)
    BY CannedSound DEF SoundEntry
  <2>3. loaded' = Append(loaded, entry)
    BY <2>1
  <2>4. QED
    BY <2>1, <2>2, <2>3, Appended
<1>3. CASE Merge
  <2>1. loaded # <<>> /\ loaded' = loaded /\ merged'.policy = MergePolicies(Policies)
    BY <1>3 DEF Merge
  <2>2. QED
    BY <2>1, MergedSound DEF IInv
<1>4. CASE SetLegacyBucketResourceMatch
    BY <1>4 DEF SetLegacyBucketResourceMatch, IInv
<1>5. ASSUME NEW i \in DOMAIN loaded, Reload(i) PROVE IInv'
  <2> DEFINE policy == UnmarshalJSON(MarshalJSON(loaded[i].policy))
  <2>1. Sound(merged'.policy)
    BY <1>5, IndexBuilt DEF Reload, Unmerged
  <2>2. Sound(policy)
    BY IndexBuilt DEF UnmarshalJSON
  <2>3. loaded' = [loaded EXCEPT ![i].policy = policy] \/ loaded' = RemoveAt(loaded, i)
    BY <1>5 DEF Reload
  <2>4. CASE loaded' = [loaded EXCEPT ![i].policy = policy]
    <3> HIDE DEF policy
    <3>1. \A j \in DOMAIN loaded : SoundEntry(loaded'[j])
        BY <2>2, <2>4 DEF IInv, SoundEntry
    <3>2. loaded' \in Seq(Range(loaded'))
      <4>1. PICK n \in Nat : loaded \in [1..n -> Range(loaded)]
        BY SeqDef DEF IInv
      <4>2. loaded' \in [1..n -> Range(loaded')]
        BY <2>4, <4>1 DEF Range
      <4>3. QED
        BY <4>2, SeqDef
    <3>3. DOMAIN loaded' = DOMAIN loaded
        BY <2>4
    <3>4. QED
        BY <2>1, <3>1, <3>2, <3>3 DEF IInv
  <2>5. CASE loaded' = RemoveAt(loaded, i)
    <3>1. loaded' \in Seq(Range(loaded))
        BY <2>5, RemoveAtKeeps DEF IInv
    <3>2. loaded' \in Seq(Range(loaded')) /\ Range(loaded') \subseteq Range(loaded)
        BY <3>1, SeqOfRange, RangeOfSeq
    <3>3. \A j \in DOMAIN loaded' : SoundEntry(loaded'[j])
        BY <3>2 DEF IInv, Range
    <3>4. QED
        BY <2>1, <3>2, <3>3 DEF IInv
  <2>6. QED
    BY <2>3, <2>4, <2>5
<1>6. CASE UNCHANGED vars
    BY <1>6 DEF vars, IInv
<1>7. QED
    BY <1>1, <1>2, <1>3, <1>4, <1>5, <1>6 DEF Next, ParseConfig, ParseConfigStrict

\* The canned policies and merges are sound as well as the stored ones.
LEMMA SoundOfAll == IInv => \A policy \in AllPolicies : Sound(policy)
    BY DEF IInv, AllPolicies, SoundEntry

\* The invariant holds throughout.
LEMMA Inductive == Spec => []IInv
    BY InitSound, NextSound, PTL DEF Spec

\* The index of every policy, loaded, canned, merged or reloaded, points to
\* Allow statements that name the action, and the flag for Deny is exact, for
\* any documents.
THEOREM IndexesSound == Spec => []IndexSound
<1>1. IInv => IndexSound
    BY SoundOfAll DEF IndexSound, Sound
<1>2. QED
    BY <1>1, Inductive, PTL

-----------------------------------------------------------------------------
(* Lemmas: the hardening *)

\* Where nothing is withheld the flag makes no difference.
LEMMA FlagIgnored ==
    ASSUME NEW st, NEW args, ~Withheld(st, args, FALSE)
    PROVE  Applies(st, args, FALSE) = Applies(st, args, TRUE)
<1>1. Withheld(st, args, FALSE) = FALSE /\ Withheld(st, args, TRUE) = FALSE
    BY DEF Withheld
<1>2. PlainResource(st, args, FALSE) = PlainResource(st, args, TRUE)
    BY <1>1, Zenon DEF PlainResource
<1>3. QED
    BY <1>1, <1>2, Zenon DEF Applies

\* A request whose trailing slash is withheld: both forms are matched, and one
\* of them is the form the legacy matching looks at.
LEMMA FormsWithheld ==
    ASSUME NEW st, NEW args \in Requests, Withheld(st, args, FALSE)
    PROVE  /\ PlainResource(st, args, FALSE) = args.bucket
           /\ PlainResource(st, args, TRUE) = args.bucket \o Slash
           /\ ~IsTableResource(args.bucket)
           /\ args.bucket # Slash
           /\ args.object = <<>>
<1>1. args.bucket \in Seq(STRING) /\ (\A i \in DOMAIN args.bucket : args.bucket[i] # "/") /\ args.object = <<>>
    BY RequestsAssumption DEF Withheld
<1>2. PlainResource(st, args, FALSE) = args.bucket \o <<>>
    BY <1>1 DEF PlainResource
<1>3. args.bucket \o <<>> = args.bucket
    BY <1>1, ConcatEmptySeq
<1>4. ~Withheld(st, args, TRUE)
    BY DEF Withheld
<1>5. PlainResource(st, args, TRUE) = args.bucket \o Slash
    BY <1>1, <1>4, Zenon DEF PlainResource
<1>6. ~IsTableResource(args.bucket)
    BY <1>1 DEF IsTableResource
<1>7. args.bucket # Slash
    BY <1>1 DEF Slash
<1>8. QED
    BY <1>1, <1>2, <1>3, <1>5, <1>6, <1>7

\* A statement that applies by the hardened matching applies by the legacy one.
LEMMA HardenedApplies ==
    ASSUME NEW st, NEW args \in Requests, Applies(st, args, FALSE)
    PROVE  Applies(st, args, TRUE)
<1>1. CASE ~Withheld(st, args, FALSE)
    BY <1>1, FlagIgnored
<1>2. CASE Withheld(st, args, FALSE)
  <2> DEFINE tabled == isTable(st) /\ ~TableValid(args.action)
             ignore == isSTS(st) \/ (isAdmin(st) /\ ~hasAdminResource(st))
             long   == args.bucket \o Slash
  <2>1. /\ PlainResource(st, args, FALSE) = args.bucket
        /\ PlainResource(st, args, TRUE) = long
        /\ ~IsTableResource(args.bucket)
        /\ args.bucket # Slash
        /\ args.object = <<>>
    BY <1>2, FormsWithheld
  <2>2. Withheld(st, args, FALSE) = TRUE /\ Withheld(st, args, TRUE) = FALSE
    BY <1>2 DEF Withheld
  <2>3. ~tabled
    BY <2>1, Zenon DEF Applies
  <2>4. /\ st.actions = {} \/ ActionsMatch(st.actions, args.action)
        /\ ~ActionsMatch(st.notActions, args.action)
        /\ \/ isKMS(st) /\ (args.bucket = Slash \/ st.resources = {})
           \/ ignore
           \/ /\ st.resources = {} \/ \A form \in ResourceForms(args.bucket, TRUE) :
                                          ResourcesMatch(st.resources, form, args.values)
              /\ ~ResourcesMatch(st.notResources, ExclusionForm(args.bucket, TRUE), args.values)
        /\ Evaluate(st.conditions, args.values)
    BY <2>1, <2>2, <2>3, Zenon DEF Applies
  <2>5. long \in ResourceForms(args.bucket, TRUE) /\ ResourceForms(long, FALSE) = {long}
    BY DEF ResourceForms
  <2>6. ExclusionForm(args.bucket, TRUE) = ExclusionForm(long, FALSE)
    BY DEF ExclusionForm
  <2>7. \/ isKMS(st) /\ (long = Slash \/ st.resources = {})
        \/ ignore
        \/ /\ st.resources = {} \/ \A form \in ResourceForms(long, FALSE) :
                                       ResourcesMatch(st.resources, form, args.values)
           /\ ~ResourcesMatch(st.notResources, ExclusionForm(long, FALSE), args.values)
    BY <2>1, <2>4, <2>5, <2>6, Zenon
  <2>8. QED
    BY <2>1, <2>2, <2>3, <2>4, <2>7, Zenon DEF Applies
<1>3. QED
    BY <1>1, <1>2

\* With a sound index a policy allows what one of its Allow statements allows.
LEMMA DecidedByAllow ==
    ASSUME NEW policy, NEW args, NEW flag, Sound(policy)
    PROVE  LET st == policy.statements
           IN  Decide(policy, args, flag) =
                 IF \E i \in DOMAIN st : st[i].effect = "Deny" /\ Applies(st[i], args, flag) THEN "deny"
                 ELSE IF \/ args.denyOnly \/ args.isOwner
                         \/ \E i \in DOMAIN st : st[i].effect = "Allow" /\ Applies(st[i], args, flag)
                 THEN "allow" ELSE "none"
<1> DEFINE st == policy.statements
<1>1. ASSUME NEW i \in DOMAIN st, st[i].effect = "Deny"
      PROVE  ~IsAllowedPtr(st[i], args, flag) <=> Applies(st[i], args, flag)
  <2>1. (st[i].effect = "Allow") = FALSE
    BY <1>1
  <2>2. Applies(st[i], args, flag) \in BOOLEAN
    BY Zenon DEF Applies
  <2>3. QED
    BY <2>1, <2>2, Zenon DEF IsAllowedPtr
<1>2. ASSUME NEW i \in DOMAIN st, st[i].effect = "Allow"
      PROVE  IsAllowedPtr(st[i], args, flag) <=> Applies(st[i], args, flag)
  <2>1. (st[i].effect = "Allow") = TRUE
    BY <1>2
  <2>2. Applies(st[i], args, flag) \in BOOLEAN
    BY Zenon DEF Applies
  <2>3. QED
    BY <2>1, <2>2, Zenon DEF IsAllowedPtr
<1>3. ASSUME NEW a \in DOMAIN policy.index, NEW i \in policy.index[a]
      PROVE  i \in DOMAIN st
    BY DEF Sound
<1>4. (\E i \in DOMAIN st : st[i].effect = "Deny" /\ ~IsAllowedPtr(st[i], args, flag))
        <=> \E i \in DOMAIN st : st[i].effect = "Deny" /\ Applies(st[i], args, flag)
    BY <1>1, Zenon
<1>5. (\/ /\ args.action \in DOMAIN policy.index
          /\ \E i \in policy.index[args.action] : st[i].effect = "Allow" /\ IsAllowedPtr(st[i], args, flag)
       \/ \E i \in DOMAIN st : st[i].effect = "Allow" /\ IsAllowedPtr(st[i], args, flag))
        <=> \E i \in DOMAIN st : st[i].effect = "Allow" /\ Applies(st[i], args, flag)
    BY <1>2, <1>3, Zenon
<1>6. QED
    BY <1>4, <1>5, Zenon DEF Decide

\* "this hardening must only ever remove a grant, never create one", and "no
\* Deny is ever weakened", for any policy that can be loaded or merged and any
\* request for a bucket whose name has no slash.
THEOREM HardeningRemoves == Spec => []HardeningOnlyRemoves
<1>1. ASSUME IInv, NEW policy \in AllPolicies, NEW args \in Requests
      PROVE  LET now == Decide(policy, args, FALSE) before == Decide(policy, args, TRUE)
             IN now = before \/ (now = "none" /\ before = "allow")
  <2> DEFINE st == policy.statements
             applies(effect, flag) == \E i \in DOMAIN st : st[i].effect = effect /\ Applies(st[i], args, flag)
             answer(flag) == IF applies("Deny", flag) THEN "deny"
                             ELSE IF args.denyOnly \/ args.isOwner \/ applies("Allow", flag) THEN "allow" ELSE "none"
  <2>1. Sound(policy)
    BY <1>1, SoundOfAll
  <2>2. Decide(policy, args, FALSE) = answer(FALSE) /\ Decide(policy, args, TRUE) = answer(TRUE)
    BY <2>1, DecidedByAllow, Zenon
  <2>3. applies("Deny", FALSE) <=> applies("Deny", TRUE)
    <3>1. ASSUME NEW i \in DOMAIN st, st[i].effect = "Deny"
          PROVE  Applies(st[i], args, FALSE) = Applies(st[i], args, TRUE)
      <4>1. ~Withheld(st[i], args, FALSE)
        BY <3>1 DEF Withheld
      <4>2. QED
        BY <4>1, FlagIgnored
    <3>2. QED
        BY <3>1, Zenon
  <2>4. applies("Allow", FALSE) => applies("Allow", TRUE)
    BY HardenedApplies, Zenon
  <2> HIDE DEF applies
  <2>5. QED
    BY <2>2, <2>3, <2>4, Zenon
<1>2. IInv => HardeningOnlyRemoves
    BY <1>1, Zenon DEF HardeningOnlyRemoves
<1>3. QED
    BY <1>2, Inductive, PTL

-----------------------------------------------------------------------------
(* Kinds of actions *)

\* Each action is of one kind.
LEMMA KindsOfActions ==
    /\ \A a \in AdminActions \cup {"admin:*"} :
          AdminValid(a) /\ ~STSValid(a) /\ ~KMSValid(a) /\ ~TableValid(a) /\ ~VectorsValid(a)
    /\ \A a \in S3Actions \cup {"s3:*"} :
          ~AdminValid(a) /\ ~STSValid(a) /\ ~KMSValid(a) /\ ~TableValid(a) /\ ~VectorsValid(a) /\ S3Valid(a)
    /\ \A a \in KMSActions \cup {"kms:*"} :
          ~AdminValid(a) /\ ~STSValid(a) /\ KMSValid(a) /\ ~TableValid(a) /\ ~VectorsValid(a)
    /\ \A a \in TableActions \cup {"s3tables:*"} :
          ~AdminValid(a) /\ ~STSValid(a) /\ ~KMSValid(a) /\ TableValid(a) /\ ~VectorsValid(a)
    /\ \A a \in STSActions \cup {"sts:*"} :
          ~AdminValid(a) /\ STSValid(a) /\ ~KMSValid(a) /\ ~TableValid(a) /\ ~VectorsValid(a)
    /\ \A a \in VectorsActions \cup {"s3vectors:*"} :
          ~AdminValid(a) /\ ~STSValid(a) /\ ~KMSValid(a) /\ ~TableValid(a) /\ VectorsValid(a)
<1> USE DEF AdminActions, S3Actions, S3ObjectActions, S3BucketActions, KMSActions, TableActions, STSActions, VectorsActions
<1>1. \A a \in AdminActions \cup {"admin:*"} :
          AdminValid(a) /\ ~STSValid(a) /\ ~KMSValid(a) /\ ~TableValid(a) /\ ~VectorsValid(a)
    BY DEF AdminValid, STSValid, KMSValid, TableValid, VectorsValid, Covers
<1>2. \A a \in S3Actions \cup {"s3:*"} :
          ~AdminValid(a) /\ ~STSValid(a) /\ ~KMSValid(a) /\ ~TableValid(a) /\ ~VectorsValid(a) /\ S3Valid(a)
    BY DEF AdminValid, STSValid, KMSValid, TableValid, VectorsValid, S3Valid, Covers
<1>3. \A a \in KMSActions \cup {"kms:*"} :
          ~AdminValid(a) /\ ~STSValid(a) /\ KMSValid(a) /\ ~TableValid(a) /\ ~VectorsValid(a)
    BY DEF AdminValid, STSValid, KMSValid, TableValid, VectorsValid, Covers
<1>4. \A a \in TableActions \cup {"s3tables:*"} :
          ~AdminValid(a) /\ ~STSValid(a) /\ ~KMSValid(a) /\ TableValid(a) /\ ~VectorsValid(a)
    BY DEF AdminValid, STSValid, KMSValid, TableValid, VectorsValid, Covers
<1>5. \A a \in STSActions \cup {"sts:*"} :
          ~AdminValid(a) /\ STSValid(a) /\ ~KMSValid(a) /\ ~TableValid(a) /\ ~VectorsValid(a)
    BY DEF AdminValid, STSValid, KMSValid, TableValid, VectorsValid, Covers
<1>6. \A a \in VectorsActions \cup {"s3vectors:*"} :
          ~AdminValid(a) /\ ~STSValid(a) /\ ~KMSValid(a) /\ ~TableValid(a) /\ VectorsValid(a)
    BY DEF AdminValid, STSValid, KMSValid, TableValid, VectorsValid, Covers
<1>7. QED
    BY <1>1, <1>2, <1>3, <1>4, <1>5, <1>6

\* Actions of one kind.
LEMMA OfOneKind ==
    ASSUME NEW st, NEW kind, st.actions # {}, st.notActions = {}, \A a \in st.actions : Kind(a) = kind
    PROVE  ActionsValid(st)
<1>1. {Kind(a) : a \in st.actions} \subseteq {kind}
    OBVIOUS
<1>2. IsFiniteSet({kind}) /\ Cardinality({kind}) = 1
    BY FS_Singleton
<1>3. Cardinality({Kind(a) : a \in st.actions}) <= 1
    BY <1>1, <1>2, FS_Subset
<1>4. QED
    BY <1>3 DEF ActionsValid, OneKind

\* A statement has no actions of two kinds.
LEMMA NotTwoKinds ==
    ASSUME NEW st, ActionsValid(st), NEW a \in st.actions, NEW b \in st.actions
    PROVE  Kind(a) = Kind(b)
<1> DEFINE K == {Kind(c) : c \in st.actions}
<1>1. K \subseteq {"admin", "sts", "kms", "table", "vectors", "s3"}
    BY DEF Kind
<1>2. IsFiniteSet({"admin", "sts", "kms", "table", "vectors", "s3"})
  <2>1. \A S, x : IsFiniteSet(S) => IsFiniteSet(S \cup {x})
    BY FS_AddElement
  <2>2. IsFiniteSet({} \cup {"admin"} \cup {"sts"} \cup {"kms"} \cup {"table"} \cup {"vectors"} \cup {"s3"})
    BY <2>1, FS_EmptySet, Zenon
  <2>3. {"admin", "sts", "kms", "table", "vectors", "s3"}
            = {} \cup {"admin"} \cup {"sts"} \cup {"kms"} \cup {"table"} \cup {"vectors"} \cup {"s3"}
    OBVIOUS
  <2>4. QED
    BY <2>2, <2>3
<1>3. IsFiniteSet(K)
    BY <1>1, <1>2, FS_Subset
<1>4. Cardinality(K) <= 1
  <2>1. st.actions # {}
    OBVIOUS
  <2>2. QED
    BY <2>1 DEF ActionsValid, OneKind
<1>5. Kind(a) \in K /\ Kind(b) \in K
    OBVIOUS
<1> HIDE DEF K
<1>6. Cardinality(K) \in Nat /\ (Cardinality(K) = 0 <=> K = {})
    BY <1>3, FS_CardinalityType, FS_EmptySet
<1>7. Cardinality(K) = 1
    BY <1>4, <1>5, <1>6
<1>8. PICK x : K = {x}
    BY <1>3, <1>7, FS_Singleton
<1>9. QED
    BY <1>5, <1>8

-----------------------------------------------------------------------------
(* The canned policies *)

\* Of one pattern, a star.
LEMMA StarPattern ==
    ASSUME NEW type \in {"s3", "s3tables"}
    PROVE  LET r == [type |-> type, pattern |-> <<"*">>]
           IN  /\ IsResource(r) /\ ResourceValid(r) /\ IsObjectPattern(r)
               /\ type = "s3" => IsS3(r)
               /\ type = "s3tables" => IsTable(r)
<1> DEFINE r == [type |-> type, pattern |-> <<"*">>]
<1>1. r.type = type /\ r.pattern = <<"*">> /\ r = [type |-> r.type, pattern |-> r.pattern]
    OBVIOUS
<1>2. <<"*">> # <<>> /\ Head(<<"*">>) = "*" /\ "*" # "/"
    OBVIOUS
<1>3. Contains(<<"*">>, "*")
    BY DEF Contains
<1> HIDE DEF r
<1>4. ResourceValid(r) /\ IsObjectPattern(r)
    BY <1>1, <1>2, <1>3 DEF ResourceValid, IsKMS, IsObjectPattern
<1>5. IsResource(r)
    BY <1>1, SequenceForms DEF IsResource
<1>6. QED
    BY <1>1, <1>4, <1>5 DEF IsS3, IsTable, r

\* A grant without conditions is a statement by its types.
LEMMA GrantFields ==
    ASSUME NEW actions, NEW resources, \A r \in resources : IsResource(r), NEW st, st = Grant(actions, resources)
    PROVE  /\ IsStatement(st)
           /\ st.actions = actions /\ st.notActions = {} /\ st.resources = resources /\ st.notResources = {}
           /\ st.conditions = <<>> /\ KeysSupported(st) /\ WellMade(st.conditions)
<1>1. /\ DOMAIN st = {"effect", "actions", "notActions", "resources", "notResources", "conditions"}
      /\ st.actions = actions /\ st.notActions = {} /\ st.resources = resources /\ st.notResources = {}
      /\ st.conditions = <<>>
    BY DEF Grant
<1>2. IsStatement(st)
    BY <1>1 DEF IsStatement, AllResources
<1>3. Keys(<<>>) = {}
    BY DEF Keys
<1>4. KeysSupported(st)
    BY <1>1, <1>3 DEF KeysSupported
<1>5. WellMade(<<>>)
  <2>1. <<>> \in Seq(Range(<<>>)) /\ DOMAIN <<>> = {}
    BY DEF Range
  <2>2. QED
    BY <2>1 DEF WellMade, IsSequence
<1>6. QED
    BY <1>1, <1>2, <1>4, <1>5

\* Grants of one namespace are valid.
LEMMA GrantValid ==
    ASSUME NEW actions, actions # {}, NEW resources, NEW st, st = Grant(actions, resources),
           \/ actions \subseteq AdminActions \cup {"admin:*"} /\ resources \in {{}, AnyResource}
           \/ actions \subseteq S3Actions \cup {"s3:*"} /\ resources = AnyResource
           \/ actions \subseteq KMSActions \cup {"kms:*"} /\ resources = {}
           \/ actions \subseteq TableActions \cup {"s3tables:*"} /\ resources = AnyTable
    PROVE  IsStatement(st) /\ st.conditions = <<>> /\ WellMade(st.conditions) /\ isValid(st)
<1>1. \A r \in resources : /\ IsResource(r) /\ ResourceValid(r) /\ IsObjectPattern(r)
                           /\ resources = AnyResource => IsS3(r)
                           /\ resources = AnyTable => IsTable(r)
    BY StarPattern DEF AnyResource, AnyTable
<1>2. /\ IsStatement(st) /\ KeysSupported(st) /\ st.conditions = <<>> /\ WellMade(st.conditions)
      /\ st.actions = actions /\ st.notActions = {} /\ st.resources = resources /\ st.notResources = {}
    BY <1>1, GrantFields
<1>3. AllResources(st) = resources
    BY <1>2 DEF AllResources
<1>4. AnyResource # {} /\ AnyTable # {}
    BY DEF AnyResource, AnyTable
<1>5. CASE actions \subseteq AdminActions \cup {"admin:*"}
  <2>1. \A a \in actions : AdminValid(a) /\ ~STSValid(a) /\ ~KMSValid(a) /\ ~TableValid(a) /\ ~VectorsValid(a)
    BY <1>5, KindsOfActions
  <2>2. ActionsValid(st)
    BY <1>2, <2>1, OfOneKind DEF Kind
  <2>3. isAdmin(st) /\ ~isSTS(st) /\ ~isKMS(st) /\ ~isTable(st) /\ ~isVectors(st)
    BY <1>2, <2>1 DEF isAdmin, isSTS, isKMS, isTable, isVectors
  <2>4. validateAdmin(st, FALSE)
    BY <1>2, <2>1 DEF validateAdmin
  <2>5. QED
    BY <1>2, <2>2, <2>3, <2>4, Zenon DEF isValid
<1>6. CASE actions \subseteq S3Actions \cup {"s3:*"} /\ resources = AnyResource
  <2>1. \A a \in actions : ~AdminValid(a) /\ ~STSValid(a) /\ ~KMSValid(a) /\ ~TableValid(a) /\ ~VectorsValid(a) /\ S3Valid(a)
    BY <1>6, KindsOfActions
  <2>2. ActionsValid(st)
    BY <1>2, <2>1, OfOneKind DEF Kind
  <2>3. ~isAdmin(st) /\ ~isSTS(st) /\ ~isKMS(st) /\ ~isTable(st) /\ ~isVectors(st)
    BY <1>2, <2>1 DEF isAdmin, isSTS, isKMS, isTable, isVectors
  <2>4. ResourcesValid(st, IsS3)
    BY <1>1, <1>2, <1>3, <1>4, <1>6 DEF ResourcesValid
  <2>5. QED
    BY <1>2, <2>1, <2>2, <2>3, <2>4, Zenon DEF isValid
<1>7. CASE actions \subseteq KMSActions \cup {"kms:*"} /\ resources = {}
  <2>1. \A a \in actions : ~AdminValid(a) /\ ~STSValid(a) /\ KMSValid(a) /\ ~TableValid(a) /\ ~VectorsValid(a)
    BY <1>7, KindsOfActions
  <2>2. ActionsValid(st)
    BY <1>2, <2>1, OfOneKind DEF Kind
  <2>3. ~isAdmin(st) /\ ~isSTS(st) /\ isKMS(st) /\ ~isTable(st) /\ ~isVectors(st)
    BY <1>2, <2>1 DEF isAdmin, isSTS, isKMS, isTable, isVectors
  <2>4. \A r \in AllResources(st) : IsKMS(r) /\ ResourceValid(r)
    BY <1>3, <1>7
  <2>5. QED
    BY <1>2, <2>2, <2>3, <2>4, Zenon DEF isValid
<1>8. CASE actions \subseteq TableActions \cup {"s3tables:*"} /\ resources = AnyTable
  <2>1. \A a \in actions : ~AdminValid(a) /\ ~STSValid(a) /\ ~KMSValid(a) /\ TableValid(a) /\ ~VectorsValid(a)
    BY <1>8, KindsOfActions
  <2>2. ActionsValid(st)
    BY <1>2, <2>1, OfOneKind DEF Kind
  <2>3. ~isAdmin(st) /\ ~isSTS(st) /\ ~isKMS(st) /\ isTable(st) /\ ~isVectors(st)
    BY <1>2, <2>1 DEF isAdmin, isSTS, isKMS, isTable, isVectors
  <2>4. ResourcesValid(st, IsTable)
    BY <1>1, <1>2, <1>3, <1>4, <1>8 DEF ResourcesValid
  <2>5. QED
    BY <1>2, <2>2, <2>3, <2>4, Zenon DEF isValid
<1>9. QED
    BY <1>5, <1>6, <1>7, <1>8

\* Every canned policy is valid, though nothing checks it.
LEMMA CannedValid ==
    ASSUME NEW statements \in DefaultPolicies
    PROVE  /\ IsSequence(statements)
           /\ \A i \in DOMAIN statements :
                 /\ IsStatement(statements[i]) /\ isValid(statements[i])
                 /\ statements[i].conditions = <<>> /\ WellMade(statements[i].conditions)
<1> DEFINE Fine(st) == IsStatement(st) /\ st.conditions = <<>> /\ WellMade(st.conditions) /\ isValid(st)
<1>1. /\ \A actions : actions # {} /\ actions \subseteq AdminActions \cup {"admin:*"} =>
            Fine(Grant(actions, {})) /\ Fine(Grant(actions, AnyResource))
      /\ \A actions : actions # {} /\ actions \subseteq S3Actions \cup {"s3:*"} => Fine(Grant(actions, AnyResource))
      /\ \A actions : actions # {} /\ actions \subseteq KMSActions \cup {"kms:*"} => Fine(Grant(actions, {}))
      /\ \A actions : actions # {} /\ actions \subseteq TableActions \cup {"s3tables:*"} => Fine(Grant(actions, AnyTable))
    BY GrantValid
<1> HIDE DEF Fine
<1>2. \/ \E st : statements = <<st>> /\ Fine(st)
      \/ \E a, b, c, d : statements = <<a, b, c, d>> /\ Fine(a) /\ Fine(b) /\ Fine(c) /\ Fine(d)
  <2> USE DEF AdminActions, S3Actions, S3ObjectActions, S3BucketActions, KMSActions, TableActions
  <2>1. CASE statements \in {readwrite, readonly, consolereadonly, writeonly}
    BY <1>1, <2>1 DEF readwrite, readonly, consolereadonly, writeonly
  <2>2. CASE statements \in {diagnostics, iamAdmin, infraAdmin}
    BY <1>1, <2>2 DEF diagnostics, iamAdmin, infraAdmin
  <2>3. CASE statements \in {tablesAdmin, tablesReadWrite, tablesReadOnly}
    BY <1>1, <2>3 DEF tablesAdmin, tablesReadWrite, tablesReadOnly
  <2>4. CASE statements = consoleAdmin
    BY <1>1, <2>4 DEF consoleAdmin
  <2>5. QED
    BY <2>1, <2>2, <2>3, <2>4 DEF DefaultPolicies
<1>3. CASE \E st : statements = <<st>> /\ Fine(st)
  <2>1. PICK st : statements = <<st>> /\ Fine(st)
    BY <1>3
  <2>2. IsSequence(statements)
    BY <2>1, SequenceForms
  <2>3. DOMAIN statements = 1..1 /\ statements[1] = st
    BY <2>1
  <2>4. \A i \in DOMAIN statements : Fine(statements[i])
    BY <2>1, <2>3
  <2>5. QED
    BY <2>2, <2>4 DEF Fine
<1>4. CASE \E a, b, c, d : statements = <<a, b, c, d>> /\ Fine(a) /\ Fine(b) /\ Fine(c) /\ Fine(d)
  <2>1. PICK a, b, c, d : statements = <<a, b, c, d>> /\ Fine(a) /\ Fine(b) /\ Fine(c) /\ Fine(d)
    BY <1>4
  <2>2. statements \in Seq({a, b, c, d}) /\ DOMAIN statements = 1..4
    BY <2>1
  <2>3. IsSequence(statements)
    BY <2>2, SeqOfRange DEF IsSequence
  <2>4. \A i \in DOMAIN statements : Fine(statements[i])
    BY <2>1, <2>2
  <2>5. QED
    BY <2>3, <2>4 DEF Fine
<1>5. QED
    BY <1>2, <1>3, <1>4

-----------------------------------------------------------------------------
(* Validity *)

\* What an action is valid as determines its kind.
LEMMA KindTold ==
    ASSUME NEW a
    PROVE  /\ AdminValid(a) <=> Kind(a) = "admin"
           /\ STSValid(a) <=> Kind(a) = "sts"
           /\ KMSValid(a) <=> Kind(a) = "kms"
           /\ TableValid(a) <=> Kind(a) = "table"
           /\ VectorsValid(a) <=> Kind(a) = "vectors"
<1>1. /\ STSValid(a) => ~AdminValid(a) /\ ~KMSValid(a) /\ ~TableValid(a) /\ ~VectorsValid(a)
      /\ KMSValid(a) => ~AdminValid(a) /\ ~STSValid(a) /\ ~TableValid(a) /\ ~VectorsValid(a)
      /\ TableValid(a) => ~AdminValid(a) /\ ~STSValid(a) /\ ~KMSValid(a) /\ ~VectorsValid(a)
      /\ VectorsValid(a) => ~AdminValid(a) /\ ~STSValid(a) /\ ~KMSValid(a) /\ ~TableValid(a)
  <2>1. /\ STSValid(a) => a \in STSActions \cup {"sts:*"}
        /\ KMSValid(a) => a \in KMSActions \cup {"kms:*"}
        /\ TableValid(a) => a \in TableActions \cup {"s3tables:*"}
        /\ VectorsValid(a) => a \in VectorsActions \cup {"s3vectors:*"}
    BY DEF STSValid, KMSValid, TableValid, VectorsValid
  <2>2. QED
    BY <2>1, KindsOfActions
<1>2. QED
    BY <1>1 DEF Kind

\* A statement with actions of valid kinds is of one of them.
LEMMA OneNamespace ==
    ASSUME NEW st, ActionsValid(st)
    PROVE  /\ isAdmin(st) => ~isSTS(st) /\ ~isKMS(st) /\ ~isTable(st) /\ ~isVectors(st)
           /\ isSTS(st) => ~isAdmin(st) /\ ~isKMS(st) /\ ~isTable(st) /\ ~isVectors(st)
<1>1. \A a, b \in st.actions : Kind(a) = Kind(b)
    BY NotTwoKinds
<1>2. QED
    BY <1>1, KindTold DEF isAdmin, isSTS, isKMS, isTable, isVectors

\* What the strict rules accept, the permissive rules accept.
LEMMA StrictIsValid ==
    ASSUME NEW st, isValidStrict(st) PROVE isValid(st)
<1>1. ActionsValid(st)
    BY DEF isValidStrict
<1>2. CASE isAdmin(st)
  <2>1. validateAdmin(st, FALSE)
    BY <1>2 DEF isValidStrict, validateAdmin
  <2>2. ~isSTS(st) /\ ~isKMS(st) /\ ~isTable(st) /\ ~isVectors(st)
    BY <1>1, <1>2, OneNamespace
  <2>3. QED
    BY <1>1, <1>2, <2>1, <2>2, Zenon DEF isValid
<1>3. CASE ~isAdmin(st)
    BY <1>3 DEF isValidStrict
<1>4. QED
    BY <1>2, <1>3

\* Conditions that compare the same look at the same keys.
LEMMA SameKeys ==
    ASSUME NEW one, NEW other, SameFunctions(one, other) PROVE Keys(one) = Keys(other)
<1>1. \A i \in DOMAIN one : \E j \in DOMAIN other : one[i].key = other[j].key
    BY DEF SameFunctions, SameFunc
<1>2. \A j \in DOMAIN other : \E i \in DOMAIN one : one[i].key = other[j].key
    BY DEF SameFunctions, SameFunc
<1>3. QED
    BY <1>1, <1>2 DEF Keys

\* Validity goes by what such statements have in common.
LEMMA ValidAlike ==
    ASSUME NEW s, NEW t, Alike(s, t, FALSE), isValid(s) PROVE isValid(t)
<1>1. /\ s.actions = t.actions /\ s.notActions = t.notActions
      /\ s.resources = t.resources /\ s.notResources = t.notResources
      /\ Keys(s.conditions) = Keys(t.conditions)
    BY SameKeys DEF Alike
<1>2. ActionsValid(s) = ActionsValid(t)
    BY <1>1, Zenon DEF ActionsValid, OneKind
<1>3. /\ isAdmin(s) = isAdmin(t) /\ isSTS(s) = isSTS(t) /\ isKMS(s) = isKMS(t) /\ isTable(s) = isTable(t)
      /\ isVectors(s) = isVectors(t) /\ AllResources(s) = AllResources(t)
    BY <1>1, Zenon DEF isAdmin, isSTS, isKMS, isTable, isVectors, AllResources
<1>4. KeysSupported(s) = KeysSupported(t)
    BY <1>1, Zenon DEF KeysSupported
<1>5. validateAdmin(s, FALSE) = validateAdmin(t, FALSE)
    BY <1>1, <1>4, Zenon DEF validateAdmin
<1>6. ResourcesValid(s, IsS3) = ResourcesValid(t, IsS3) /\ ResourcesValid(s, IsTable) = ResourcesValid(t, IsTable)
    BY <1>1, <1>3, Zenon DEF ResourcesValid
<1>7. isValid(s) = isValid(t)
    BY <1>1, <1>2, <1>3, <1>4, <1>5, <1>6, Zenon DEF isValid
<1>8. QED
    BY <1>7

-----------------------------------------------------------------------------
(* What a step does to the policies *)

\* A policy read from a document, by either path.
FromDocument(entry) ==
    \E doc \in Docs, strict \in BOOLEAN :
        /\ Decodes(doc)
        /\ \A k \in DOMAIN UnmarshalJSON(doc).statements : isValid(UnmarshalJSON(doc).statements[k])
        /\ entry = [doc |-> doc, strict |-> strict, policy |-> UnmarshalJSON(doc)]

\* A canned policy.
IsCanned(entry) ==
    \E statements \in DefaultPolicies :
        entry = [doc |-> statements, strict |-> TRUE,
                 policy |-> [statements |-> statements, index |-> [a \in {} |-> {}], hasDeny |-> FALSE]]

\* A policy that has been stored and read.
IsReread(entry, old) ==
    LET text == MarshalJSON(old.policy) policy == UnmarshalJSON(text)
    IN  /\ Marshals(old.policy) /\ Decodes(text)
        /\ \A k \in DOMAIN policy.statements : isValid(policy.statements[k])
        /\ entry = [old EXCEPT !.policy = policy]

\* Where a policy that is loaded after a step comes from.
LEMMA EntriesStep ==
    ASSUME IInv, [Next]_vars, NEW j \in DOMAIN loaded'
    PROVE  \/ \E i \in DOMAIN loaded : loaded'[j] = loaded[i]
           \/ FromDocument(loaded'[j])
           \/ IsCanned(loaded'[j])
           \/ \E i \in DOMAIN loaded : IsReread(loaded'[j], loaded[i])
<1>1. ASSUME NEW doc \in Docs, NEW strict \in BOOLEAN, Load(doc, strict)
      PROVE  (\E i \in DOMAIN loaded : loaded'[j] = loaded[i]) \/ FromDocument(loaded'[j])
  <2> DEFINE policy == UnmarshalJSON(doc)
             entry  == [doc |-> doc, strict |-> strict, policy |-> policy]
  <2>1. /\ Decodes(doc) /\ loaded' = Append(loaded, entry)
        /\ \A k \in DOMAIN policy.statements : IF strict THEN isValidStrict(policy.statements[k]) ELSE isValid(policy.statements[k])
    BY <1>1, Zenon DEF Load
  <2>2. \A k \in DOMAIN policy.statements : isValid(policy.statements[k])
    BY <2>1, StrictIsValid, Zenon
  <2>3. FromDocument(entry)
    BY <2>1, <2>2, Zenon DEF FromDocument
  <2> HIDE DEF policy, entry
  <2>4. loaded'[j] = entry \/ \E i \in DOMAIN loaded : loaded'[j] = loaded[i]
    BY <2>1 DEF IInv
  <2>5. QED
    BY <2>3, <2>4, Zenon
<1>2. ASSUME NEW statements \in DefaultPolicies, UseDefault(statements) PROVE IsCanned(loaded'[j])
  <2> DEFINE entry == [doc |-> statements, strict |-> TRUE,
                       policy |-> [statements |-> statements, index |-> [a \in {} |-> {}], hasDeny |-> FALSE]]
  <2>1. loaded' = <<entry>>
    BY <1>2, Zenon DEF UseDefault
  <2>2. IsCanned(entry)
    BY Zenon DEF IsCanned
  <2> HIDE DEF entry
  <2>3. loaded'[j] = entry
    BY <2>1
  <2>4. QED
    BY <2>2, <2>3, Zenon
<1>3. CASE Merge \/ SetLegacyBucketResourceMatch \/ UNCHANGED vars
  <2>1. loaded' = loaded
    BY <1>3 DEF Merge, SetLegacyBucketResourceMatch, vars
  <2>2. QED
    BY <2>1
<1>4. ASSUME NEW i \in DOMAIN loaded, Reload(i)
      PROVE  (\E m \in DOMAIN loaded : loaded'[j] = loaded[m]) \/ IsReread(loaded'[j], loaded[i])
  <2> DEFINE text   == MarshalJSON(loaded[i].policy)
             policy == UnmarshalJSON(text)
             ok     == Decodes(text) /\ \A k \in DOMAIN policy.statements : isValid(policy.statements[k])
  <2>1. Marshals(loaded[i].policy) /\ loaded' = IF ok THEN [loaded EXCEPT ![i].policy = policy] ELSE RemoveAt(loaded, i)
    BY <1>4, Zenon DEF Reload
  <2>2. ok => IsReread([loaded[i] EXCEPT !.policy = policy], loaded[i])
    BY <2>1, Zenon DEF IsReread
  <2> HIDE DEF policy, ok
  <2>3. CASE ok
    <3>1. loaded' = [loaded EXCEPT ![i].policy = policy]
        BY <2>1, <2>3
    <3>2. CASE j = i
      <4>1. loaded'[j] = [loaded[i] EXCEPT !.policy = policy]
        BY <3>1, <3>2
      <4>2. QED
        BY <2>2, <2>3, <4>1, Zenon
    <3>3. CASE j # i
        BY <3>1, <3>3
    <3>4. QED
        BY <3>2, <3>3
  <2>4. CASE ~ok
    <3>1. loaded' = RemoveAt(loaded, i)
        BY <2>1, <2>4
    <3>2. loaded' \in Seq(Range(loaded))
        BY <3>1, RemoveAtKeeps DEF IInv
    <3>3. loaded'[j] \in Range(loaded)
        BY <3>2
    <3>4. QED
        BY <3>3 DEF Range
  <2>5. QED
    BY <2>3, <2>4
<1>5. QED
    BY <1>1, <1>2, <1>3, <1>4, Zenon DEF Next, ParseConfig, ParseConfigStrict

\* What is merged after a step.
LEMMA MergedStep ==
    ASSUME [Next]_vars
    PROVE  \/ merged' = merged
           \/ merged' = Unmerged
           \/ loaded # <<>> /\ loaded' = loaded /\ merged' = [of |-> Len(loaded), policy |-> MergePolicies(Policies)]
    BY Zenon DEF Next, vars, ParseConfig, ParseConfigStrict, Load, UseDefault, Merge, SetLegacyBucketResourceMatch, Reload

-----------------------------------------------------------------------------
(* Sensitive writes *)

\* A list of statements whose actions are of one kind.
Kept(statements) ==
    IsSequence(statements) /\ \A i \in DOMAIN statements : IsStatement(statements[i]) /\ ActionsValid(statements[i])

\* The index is sound, and such statements are all that is held.
VInv ==
    /\ IInv
    /\ \A i \in DOMAIN loaded : Kept(loaded[i].policy.statements)
    /\ Kept(merged.policy.statements)

\* What is left when a document has been read are statements of it.
LEMMA Unmarshalled ==
    ASSUME NEW doc, IsSequence(doc), \A i \in DOMAIN doc : IsStatement(doc[i])
    PROVE  LET statements == UnmarshalJSON(doc).statements
           IN  /\ IsSequence(statements)
               /\ \A i \in DOMAIN statements :
                     IsStatement(statements[i]) /\ \E j \in DOMAIN doc : statements[i] = Decoded(doc)[j]
<1> DEFINE all == Decoded(doc)
           statements == UnmarshalJSON(doc).statements
<1>1. /\ IsSequence(all) /\ DOMAIN all = DOMAIN doc
      /\ \A i \in DOMAIN doc : IsStatement(all[i])
    BY DecodedFields
<1>2. statements \in {DropDuplicates(all, Equals), DropDuplicates(all, SameHash)}
  <2>1. statements = dropDuplicateStatements(all)
    BY DEF UnmarshalJSON, updateActionIndex
  <2>2. QED
    BY <2>1, Zenon DEF dropDuplicateStatements
<1> HIDE DEF all, statements
<1>3. IsSequence(statements) /\ \A i \in DOMAIN statements : \E j \in DOMAIN all : statements[i] = all[j]
  <2>1. \A kept \in {DropDuplicates(all, Equals), DropDuplicates(all, SameHash), DropDuplicates(all, BPEquals)} :
            IsSequence(kept) /\ \A i \in DOMAIN kept : \E j \in DOMAIN all : kept[i] = all[j]
    BY <1>1, DroppedMembers
  <2>2. CASE statements = DropDuplicates(all, Equals)
    BY <2>1, <2>2, Zenon
  <2>3. CASE statements = DropDuplicates(all, SameHash)
    BY <2>1, <2>3, Zenon
  <2>4. QED
    BY <1>2, <2>2, <2>3, Zenon
<1>4. \A i \in DOMAIN statements : IsStatement(statements[i]) /\ \E j \in DOMAIN doc : statements[i] = all[j]
    BY <1>1, <1>3, Zenon
<1>5. QED
    BY <1>3, <1>4, Zenon DEF all, statements

\* The canned policies, what is read from a document and what is read again
\* have such statements.
LEMMA EntriesKept ==
    ASSUME VInv, [Next]_vars, NEW j \in DOMAIN loaded' PROVE Kept(loaded'[j].policy.statements)
<1>1. IInv
    BY DEF VInv
<1>2. CASE \E i \in DOMAIN loaded : loaded'[j] = loaded[i]
    BY <1>2 DEF VInv
<1>3. CASE FromDocument(loaded'[j])
  <2>1. PICK doc \in Docs, strict \in BOOLEAN :
            /\ \A k \in DOMAIN UnmarshalJSON(doc).statements : isValid(UnmarshalJSON(doc).statements[k])
            /\ loaded'[j] = [doc |-> doc, strict |-> strict, policy |-> UnmarshalJSON(doc)]
    BY <1>3, Zenon DEF FromDocument
  <2>2. IsSequence(doc) /\ \A i \in DOMAIN doc : IsStatement(doc[i])
    BY DocsAssumption DEF IsDocument
  <2> DEFINE statements == UnmarshalJSON(doc).statements
  <2>3. IsSequence(statements) /\ \A i \in DOMAIN statements : IsStatement(statements[i])
    BY <2>2, Unmarshalled
  <2>4. loaded'[j].policy.statements = statements
    BY <2>1
  <2>5. \A i \in DOMAIN statements : ActionsValid(statements[i])
    BY <2>1 DEF isValid
  <2> HIDE DEF statements
  <2>6. QED
    BY <2>3, <2>4, <2>5 DEF Kept
<1>4. CASE IsCanned(loaded'[j])
  <2>1. PICK statements \in DefaultPolicies : loaded'[j].policy.statements = statements
    BY <1>4 DEF IsCanned
  <2>2. IsSequence(statements) /\ \A i \in DOMAIN statements : IsStatement(statements[i]) /\ isValid(statements[i])
    BY CannedValid
  <2>3. QED
    BY <2>1, <2>2 DEF Kept, isValid
<1>5. CASE \E i \in DOMAIN loaded : IsReread(loaded'[j], loaded[i])
  <2>1. PICK i \in DOMAIN loaded : IsReread(loaded'[j], loaded[i])
    BY <1>5
  <2> DEFINE text == MarshalJSON(loaded[i].policy)
             statements == UnmarshalJSON(text).statements
  <2>2. /\ Marshals(loaded[i].policy)
        /\ \A k \in DOMAIN statements : isValid(statements[k])
        /\ loaded'[j] = [loaded[i] EXCEPT !.policy = UnmarshalJSON(text)]
    BY <2>1, Zenon DEF IsReread
  <2>3. Kept(loaded[i].policy.statements) /\ "policy" \in DOMAIN loaded[i]
    BY <1>1 DEF VInv, IInv, SoundEntry
  <2>4. IsSequence(text) /\ \A k \in DOMAIN text : IsStatement(text[k])
    BY <2>2, <2>3, WrittenFields DEF Kept
  <2>5. IsSequence(statements) /\ \A k \in DOMAIN statements : IsStatement(statements[k])
    BY <2>4, Unmarshalled
  <2>6. loaded'[j].policy.statements = statements
    BY <2>2, <2>3
  <2>7. \A k \in DOMAIN statements : ActionsValid(statements[k])
    BY <2>2 DEF isValid
  <2> HIDE DEF statements
  <2>8. QED
    BY <2>5, <2>6, <2>7 DEF Kept
<1>6. QED
    BY <1>1, <1>2, <1>3, <1>4, <1>5, EntriesStep

\* What has been merged are statements of the policies.
LEMMA MergedMembers ==
    ASSUME NEW policies, IsSequence(policies), policies # <<>>, \A i \in DOMAIN policies : IsSequence(policies[i].statements)
    PROVE  LET statements == MergePolicies(policies).statements
           IN  /\ IsSequence(statements)
               /\ \A i \in DOMAIN statements :
                     \E j \in DOMAIN policies : \E k \in DOMAIN policies[j].statements : statements[i] = policies[j].statements[k]
<1> DEFINE statements == MergePolicies(policies).statements
           all == FlattenSeq([i \in DOMAIN policies |-> policies[i].statements])
<1>1. CASE Len(policies) = 1
  <2>1. 1 \in DOMAIN policies /\ statements = policies[1].statements
    BY <1>1 DEF MergePolicies, IsSequence
  <2>2. IsSequence(policies[1].statements)
    BY <2>1
  <2> HIDE DEF statements
  <2>3. QED
    BY <2>1, <2>2, Zenon DEF statements
<1>2. CASE Len(policies) # 1
  <2>1. statements = DropDuplicates(all, SameHash)
    BY <1>2 DEF MergePolicies, updateActionIndex
  <2>2. /\ IsSequence(all)
        /\ \A i \in DOMAIN all : \E j \in DOMAIN policies : \E k \in DOMAIN policies[j].statements : all[i] = policies[j].statements[k]
    BY AllStatements
  <2> HIDE DEF statements, all
  <2>3. IsSequence(statements) /\ \A i \in DOMAIN statements : \E j \in DOMAIN all : statements[i] = all[j]
    <3>1. \A kept \in {DropDuplicates(all, Equals), DropDuplicates(all, SameHash), DropDuplicates(all, BPEquals)} :
              IsSequence(kept) /\ \A i \in DOMAIN kept : \E j \in DOMAIN all : kept[i] = all[j]
        BY <2>2, DroppedMembers
    <3>2. QED
        BY <2>1, <3>1, Zenon
  <2>4. \A i \in DOMAIN statements :
            \E j \in DOMAIN policies : \E k \in DOMAIN policies[j].statements : statements[i] = policies[j].statements[k]
    <3>1. TAKE i \in DOMAIN statements
    <3>2. PICK m \in DOMAIN all : statements[i] = all[m]
        BY <2>3
    <3>3. QED
        BY <2>2, <3>2, Zenon
  <2>5. QED
    BY <2>3, <2>4, Zenon DEF statements
<1>3. QED
    BY <1>1, <1>2

\* The policies are a list.
LEMMA PoliciesListed ==
    ASSUME IInv
    PROVE  /\ IsSequence(Policies) /\ DOMAIN Policies = DOMAIN loaded /\ Len(Policies) = Len(loaded) /\ Len(loaded) \in Nat
           /\ DOMAIN loaded = 1..Len(loaded) /\ \A i \in DOMAIN loaded : Policies[i] = loaded[i].policy
<1>1. loaded \in Seq(Range(loaded))
    BY DEF IInv
<1>2. Len(loaded) \in Nat /\ DOMAIN loaded = 1..Len(loaded)
    BY <1>1
<1>3. DOMAIN Policies = DOMAIN loaded /\ \A i \in DOMAIN loaded : Policies[i] = loaded[i].policy
    BY DEF Policies
<1>4. Policies \in [1..Len(loaded) -> Range(Policies)]
    BY <1>2, <1>3 DEF Policies, Range
<1>5. Policies \in Seq(Range(Policies))
    BY <1>2, <1>4, SeqDef
<1>6. QED
    BY <1>2, <1>3, <1>5 DEF IsSequence

\* Nothing but such statements is ever held.
LEMMA AlwaysKept == Spec => []VInv
<1>1. Init => VInv
  <2> SUFFICES ASSUME Init PROVE VInv
    OBVIOUS
  <2>1. DOMAIN loaded = {} /\ merged.policy.statements = <<>>
    BY DEF Init, Unmerged, updateActionIndex
  <2>2. Kept(<<>>)
    BY DEF Kept, IsSequence, Range
  <2>3. QED
    BY <2>1, <2>2, InitSound DEF VInv
<1>2. VInv /\ [Next]_vars => VInv'
  <2> SUFFICES ASSUME VInv, [Next]_vars PROVE VInv'
    OBVIOUS
  <2>1. IInv /\ IInv'
    BY NextSound DEF VInv
  <2>2. Kept(merged'.policy.statements)
    <3>1. CASE merged' = merged
        BY <3>1 DEF VInv
    <3>2. CASE merged' = Unmerged
      <4>1. merged'.policy.statements = <<>>
        BY <3>2 DEF Unmerged, updateActionIndex
      <4>2. QED
        BY <4>1 DEF Kept, IsSequence, Range
    <3>3. CASE loaded # <<>> /\ merged' = [of |-> Len(loaded), policy |-> MergePolicies(Policies)]
      <4> DEFINE statements == MergePolicies(Policies).statements
      <4>1. merged'.policy.statements = statements
        BY <3>3
      <4>2. /\ IsSequence(Policies) /\ DOMAIN Policies = DOMAIN loaded /\ Policies # <<>>
            /\ \A i \in DOMAIN Policies : Policies[i] = loaded[i].policy
        BY <2>1, <3>3, PoliciesListed DEF IInv
      <4>3. \A i \in DOMAIN Policies : Kept(Policies[i].statements)
        BY <4>2 DEF VInv
      <4>4. \A i \in DOMAIN Policies : IsSequence(Policies[i].statements)
        BY <4>3 DEF Kept
      <4>5. /\ IsSequence(statements)
            /\ \A i \in DOMAIN statements :
                  \E j \in DOMAIN Policies : \E k \in DOMAIN Policies[j].statements : statements[i] = Policies[j].statements[k]
        BY <4>2, <4>4, MergedMembers
      <4> HIDE DEF statements
      <4>6. QED
        BY <4>1, <4>3, <4>5, Zenon DEF Kept
    <3>4. QED
        BY <3>1, <3>2, <3>3, MergedStep
  <2>3. \A j \in DOMAIN loaded' : Kept(loaded'[j].policy.statements)
    BY EntriesKept
  <2>4. QED
    BY <2>1, <2>2, <2>3 DEF VInv
<1>3. QED
    BY <1>1, <1>2, PTL DEF Spec

\* A slash of a pattern is still there when variables have been replaced.
LEMMA SlashKept ==
    ASSUME NEW text, IsSequence(text), Contains(text, "/"), NEW args \in Requests,
           NEW pattern, pattern = substitute(text, args.values)
    PROVE  IsSequence(pattern) /\ \E h \in 1..Len(pattern) : pattern[h] = "/"
<1> DEFINE user     == Key("username")
           values   == args.values
           known    == user \in DOMAIN values /\ values[user][1] # <<>>
           piece(c) == IF c = "${aws:username}" /\ known THEN values[user][1] ELSE <<c>>
           pieces   == [i \in DOMAIN text |-> piece(text[i])]
<1>1. PICK k \in DOMAIN text : text[k] = "/"
    BY DEF Contains
<1>2. Len(text) \in Nat /\ DOMAIN text = 1..Len(text) /\ text \in Seq(Range(text))
    BY DEF IsSequence
<1>3. CASE ~Contains(text, "${aws:username}")
  <2>1. pattern = text
    BY <1>3, Zenon DEF substitute
  <2>2. QED
    BY <1>1, <1>2, <2>1
<1>4. CASE Contains(text, "${aws:username}")
  <2> DEFINE A == Range(text) \cup STRING
  <2>1. pattern = FlattenSeq(pieces)
    BY <1>4, Zenon DEF substitute
  <2>2. known => values[user][1] \in Seq(STRING)
    <3>1. SUFFICES ASSUME known PROVE values[user][1] \in Seq(STRING)
        OBVIOUS
    <3>2. values[user] \in Seq(Seq(STRING)) \ {<<>>}
        BY <3>1, ValuesAssumption
    <3>3. QED
        BY <3>2
  <2> HIDE DEF known, user, values
  <2>3. \A i \in DOMAIN text : piece(text[i]) \in Seq(A)
    <3>1. TAKE i \in DOMAIN text
    <3>2. text[i] \in A
        BY DEF Range
    <3>3. <<text[i]>> \in Seq(A)
        BY <3>2
    <3>4. known => values[user][1] \in Seq(A)
        BY <2>2
    <3> HIDE DEF A
    <3>5. QED
        BY <3>3, <3>4
  <2> HIDE DEF A
  <2>4. pieces \in [1..Len(text) -> Seq(A)]
    BY <1>2, <2>3
  <2>5. DOMAIN pieces = DOMAIN text
    OBVIOUS
  <2>6. pieces[k] = <<"/">>
    BY <1>1
  <2> HIDE DEF pieces
  <2> DEFINE B == Seq(A)
  <2>12. pieces \in Seq(Seq(A))
    <3>1. pieces \in [1..Len(text) -> B] /\ Len(text) \in Nat
        BY <1>2, <2>4
    <3> HIDE DEF B
    <3>2. pieces \in Seq(B)
        BY <3>1, SeqDef
    <3>3. QED
        BY <3>2 DEF B
  <2>7. /\ FlattenSeq(pieces) \in Seq(A)
        /\ \A m \in DOMAIN pieces[k] : \E i \in DOMAIN FlattenSeq(pieces) : FlattenSeq(pieces)[i] = pieces[k][m]
    BY <2>5, <2>12, Flattened
  <2>8. 1 \in DOMAIN pieces[k] /\ pieces[k][1] = "/"
    BY <2>6
  <2>9. \E i \in DOMAIN pattern : pattern[i] = "/"
    BY <2>1, <2>7, <2>8, Zenon
  <2>10. IsSequence(pattern) /\ DOMAIN pattern = 1..Len(pattern)
    BY <2>1, <2>7, SeqOfRange DEF IsSequence
  <2>11. QED
    BY <2>9, <2>10
<1>5. QED
    BY <1>3, <1>4

\* A pattern with a slash matches no name of a bucket.
LEMMA NoBucketMatched ==
    ASSUME NEW r, IsResource(r), Contains(r.pattern, "/"), NEW args \in Requests
    PROVE  ~ResourceMatch(r, args.bucket, args.values)
<1> DEFINE pattern == substitute(r.pattern, args.values)
           bucket  == args.bucket
<1>1. IsSequence(r.pattern)
    BY DEF IsResource
<1>2. IsSequence(pattern) /\ \E h \in 1..Len(pattern) : pattern[h] = "/"
    BY <1>1, SlashKept
<1>3. bucket \in Seq(STRING) /\ \A i \in DOMAIN bucket : bucket[i] # "/"
    BY RequestsAssumption
<1>4. ResourceMatch(r, bucket, args.values) <=> (bucket # <<>> /\ Clean(bucket) = pattern) \/ Matches(pattern, bucket)
    BY Zenon DEF ResourceMatch
<1> HIDE DEF pattern, bucket
<1>5. Clean(bucket) = bucket
    BY <1>3 DEF Clean, Last
<1>6. bucket # pattern
    BY <1>2, <1>3 DEF IsSequence
<1>7. ~Matches(pattern, bucket)
  <2>1. PICK h \in 1..Len(pattern) : pattern[h] = "/"
    BY <1>2
  <2>2. pattern \in Seq(Range(pattern))
    BY <1>2 DEF IsSequence
  <2>3. "/" \notin {"*", "?"}
    OBVIOUS
  <2>4. ASSUME Matches(pattern, bucket) PROVE \E i \in 1..Len(bucket) : bucket[i] = "/"
    <3> DEFINE c == "/"
    <3>1. c \notin {"*", "?"} /\ pattern[h] = c
        BY <2>1, <2>3
    <3> HIDE DEF c
    <3>2. \E i \in 1..Len(bucket) : bucket[i] = c
        BY <1>3, <2>2, <2>4, <3>1, SymbolNeeded
    <3>3. QED
        BY <3>2 DEF c
  <2>5. QED
    BY <1>3, <2>4
<1>8. QED
    BY <1>4, <1>5, <1>6, <1>7 DEF bucket

\* No action of the token service covers a write.
LEMMA NoTokenWrites ==
    ASSUME NEW st, ActionsValid(st), isSTS(st) PROVE ~ActionsMatch(st.actions, "s3:DeleteBucket")
<1>1. \A a \in st.actions : STSValid(a)
  <2>1. PICK b \in st.actions : STSValid(b)
    BY DEF isSTS
  <2>2. \A a \in st.actions : Kind(a) = Kind(b)
    BY NotTwoKinds
  <2>3. QED
    BY <2>1, <2>2, KindTold
<1>2. \A a : STSValid(a) => "s3:DeleteBucket" \notin Covers(a) \cup Implicit(a)
    BY DEF STSValid, STSActions, Covers, Implicit
<1>3. QED
    BY <1>1, <1>2 DEF ActionsMatch

\* "an object-only resource pattern must not be honored as a bucket-level
\* grant", for any documents, any requests and the canned policies: the one
\* statement that honors it is one whose granting pattern covers an admin action
\* as well.
THEOREM SensitiveWrites == Spec => []SensitiveNeedsBucketPattern
<1>1. ASSUME VInv, NEW policy \in AllPolicies, NEW args \in Requests,
             Sensitive(args.action), args.bucket # <<>>, args.object = <<>>, ~args.isOwner, ~args.denyOnly,
             IsAllowed(policy, args, FALSE)
      PROVE  \E i \in DOMAIN policy.statements :
                LET st == policy.statements[i]
                IN  /\ st.effect = "Allow" /\ Applies(st, args, FALSE)
                    /\ \/ \E r \in st.resources : ~Contains(r.pattern, "/") /\ ResourceMatch(r, args.bucket, args.values)
                       \/ st.resources = {}
                       \/ CountsAsAdmin(st, args.action)
  <2>1. Sound(policy) /\ Kept(policy.statements)
    BY <1>1, SoundOfAll DEF VInv, AllPolicies
  <2>2. \E i \in DOMAIN policy.statements : policy.statements[i].effect = "Allow" /\ Applies(policy.statements[i], args, FALSE)
    <3>1. Decide(policy, args, FALSE) = "allow"
        BY <1>1 DEF IsAllowed
    <3> DEFINE applies(effect) == \E i \in DOMAIN policy.statements :
                   policy.statements[i].effect = effect /\ Applies(policy.statements[i], args, FALSE)
    <3>2. Decide(policy, args, FALSE) = IF applies("Deny") THEN "deny"
              ELSE IF args.denyOnly \/ args.isOwner \/ applies("Allow") THEN "allow" ELSE "none"
        BY <2>1, DecidedByAllow, Zenon
    <3> HIDE DEF applies
    <3>3. applies("Allow")
        BY <1>1, <3>1, <3>2
    <3>4. QED
        BY <3>3 DEF applies
  <2>3. PICK i \in DOMAIN policy.statements : policy.statements[i].effect = "Allow" /\ Applies(policy.statements[i], args, FALSE)
    BY <2>2
  <2> DEFINE st == policy.statements[i]
  <2>4. IsStatement(st) /\ ActionsValid(st) /\ st.effect = "Allow" /\ Applies(st, args, FALSE)
    BY <2>1, <2>3 DEF Kept
  <2> HIDE DEF st
  <2>5. Withheld(st, args, FALSE) = TRUE
    BY <1>1, <2>4 DEF Withheld
  <2>6. PlainResource(st, args, FALSE) = args.bucket /\ ~IsTableResource(args.bucket) /\ args.bucket # Slash
    BY <2>5, FormsWithheld
  <2>7. ~(isTable(st) /\ ~TableValid(args.action))
    BY <1>1, <2>4, <2>6, Zenon DEF Applies
  <2>8. /\ st.actions = {} \/ ActionsMatch(st.actions, args.action)
        /\ \/ isKMS(st) /\ (args.bucket = Slash \/ st.resources = {})
           \/ isSTS(st) \/ (isAdmin(st) /\ ~hasAdminResource(st))
           \/ st.resources = {} \/ \A form \in ResourceForms(args.bucket, TRUE) :
                                       ResourcesMatch(st.resources, form, args.values)
    BY <2>4, <2>5, <2>6, <2>7, Zenon DEF Applies
  <2>9. ~isSTS(st)
    <3>1. st.actions = {} => ~isSTS(st)
        BY DEF isSTS
    <3>2. QED
        BY <1>1, <2>4, <2>8, <3>1, NoTokenWrites DEF Sensitive
  <2>10. isAdmin(st) /\ ~hasAdminResource(st) => CountsAsAdmin(st, args.action)
    <3> SUFFICES ASSUME isAdmin(st), ~hasAdminResource(st) PROVE CountsAsAdmin(st, args.action)
        OBVIOUS
    <3>1. args.action = "s3:DeleteBucket"
        BY <1>1 DEF Sensitive
    <3>2. PICK b \in st.actions : AdminValid(b)
        BY DEF isAdmin
    <3>3. PICK a \in st.actions : args.action \in Covers(a) \cup Implicit(a)
        BY <2>8, <3>2 DEF ActionsMatch
    <3>4. args.action \notin Implicit(a)
        BY <3>1 DEF Implicit
    <3>5. AdminValid(a)
      <4>1. Kind(a) = Kind(b)
        BY <2>4, <3>2, <3>3, NotTwoKinds
      <4>2. QED
        BY <3>2, <4>1, KindTold
    <3>6. QED
        BY <3>3, <3>4, <3>5 DEF CountsAsAdmin
  <2>11. \/ \E r \in st.resources : ~Contains(r.pattern, "/") /\ ResourceMatch(r, args.bucket, args.values)
         \/ st.resources = {}
         \/ CountsAsAdmin(st, args.action)
    <3>1. args.bucket \in ResourceForms(args.bucket, TRUE)
        BY DEF ResourceForms
    <3>2. CASE ResourcesMatch(st.resources, args.bucket, args.values)
      <4>1. PICK r \in st.resources : ResourceMatch(r, args.bucket, args.values)
        BY <3>2 DEF ResourcesMatch
      <4>2. IsResource(r)
        BY <2>4 DEF IsStatement, AllResources
      <4>3. ~Contains(r.pattern, "/")
        BY <4>1, <4>2, NoBucketMatched
      <4>4. QED
        BY <4>1, <4>3
    <3>3. QED
        BY <2>6, <2>8, <2>9, <2>10, <3>1, <3>2, Zenon
  <2>12. QED
    BY <2>4, <2>11, Zenon DEF st
<1>2. VInv => SensitiveNeedsBucketPattern
    BY <1>1, Zenon DEF SensitiveNeedsBucketPattern
<1>3. QED
    BY <1>2, AlwaysKept, PTL

-----------------------------------------------------------------------------
(* Decisions are kept *)

\* Every document that can be read says in the text of its conditions all that
\* they compare.
Clear == \A doc \in Docs : Decodes(doc) => Unambiguous(doc)

\* A policy that decides as its document says.
Faithful(entry) ==
    /\ DOMAIN entry = {"doc", "strict", "policy"}
    /\ IsSequence(entry.doc) /\ \A i \in DOMAIN entry.doc : IsStatement(entry.doc[i])
    /\ AllSane(Decoded(entry.doc)) /\ AllSane(entry.policy.statements)
    /\ Mirrors(entry.policy.statements, Decoded(entry.doc), FALSE)
    /\ \A i \in DOMAIN entry.policy.statements : isValid(entry.policy.statements[i])

\* Every policy is, and what is merged is the merge of the first so many.
FInv ==
    /\ IInv
    /\ \A i \in DOMAIN loaded : Faithful(loaded[i])
    /\ merged.of \in 0..Len(loaded)
    /\ merged.of > 0 => merged.policy = MergePolicies(SubSeq(Policies, 1, merged.of))

\* Some statement with this effect applies.
Applying(statements, effect, args, flag) ==
    \E i \in DOMAIN statements : statements[i].effect = effect /\ Applies(statements[i], args, flag)

\* A policy with a sound index decides by what applies.
LEMMA DecidedByApplying ==
    ASSUME NEW policy, NEW args, NEW flag, Sound(policy)
    PROVE  Decide(policy, args, flag) =
              IF Applying(policy.statements, "Deny", args, flag) THEN "deny"
              ELSE IF args.denyOnly \/ args.isOwner \/ Applying(policy.statements, "Allow", args, flag) THEN "allow"
              ELSE "none"
    BY DecidedByAllow, Zenon DEF Applying

\* Where lists mirror each other, the same effects apply.
LEMMA MirrorsApply ==
    ASSUME NEW one, NEW other, AllSane(one), AllSane(other), Mirrors(one, other, FALSE), NEW effect, NEW args, NEW flag
    PROVE  Applying(one, effect, args, flag) <=> Applying(other, effect, args, flag)
<1>1. ASSUME NEW i \in DOMAIN one, NEW j \in DOMAIN other, Alike(one[i], other[j], FALSE)
      PROVE  one[i].effect = other[j].effect /\ Applies(one[i], args, flag) = Applies(other[j], args, flag)
  <2>1. Sane(one[i]) /\ Sane(other[j])
    BY DEF AllSane
  <2>2. QED
    BY <1>1, <2>1, ApplyAlike DEF Alike
<1>2. ASSUME NEW i \in DOMAIN one, one[i].effect = effect, Applies(one[i], args, flag)
      PROVE  \E j \in DOMAIN other : other[j].effect = effect /\ Applies(other[j], args, flag)
  <2>1. PICK j \in DOMAIN other : Alike(one[i], other[j], FALSE)
    BY DEF Mirrors
  <2>2. QED
    BY <1>1, <1>2, <2>1, Zenon
<1>3. ASSUME NEW j \in DOMAIN other, other[j].effect = effect, Applies(other[j], args, flag)
      PROVE  \E i \in DOMAIN one : one[i].effect = effect /\ Applies(one[i], args, flag)
  <2>1. PICK i \in DOMAIN one : Alike(one[i], other[j], FALSE)
    BY DEF Mirrors
  <2>2. QED
    BY <1>1, <1>3, <2>1, Zenon
<1>4. QED
    BY <1>2, <1>3, Zenon DEF Applying

\* What is left when a document has been read mirrors it.
LEMMA ReadMirrors ==
    ASSUME NEW doc, AllSane(Decoded(doc)), NEW statements, statements = UnmarshalJSON(doc).statements
    PROVE  AllSane(statements) /\ Mirrors(statements, Decoded(doc), FALSE)
<1> DEFINE all == Decoded(doc)
<1>1. statements = DropDuplicates(all, Equals) \/ statements = DropDuplicates(all, SameHash)
  <2>1. statements = dropDuplicateStatements(all)
    BY DEF UnmarshalJSON, updateActionIndex
  <2>2. QED
    BY <2>1, Zenon DEF dropDuplicateStatements
<1> HIDE DEF all
<1>2. /\ AllSane(DropDuplicates(all, Equals)) /\ Mirrors(DropDuplicates(all, Equals), all, FALSE)
      /\ AllSane(DropDuplicates(all, SameHash)) /\ Mirrors(DropDuplicates(all, SameHash), all, FALSE)
  <2>1. AllSane(all)
    BY DEF all
  <2>2. QED
    BY <2>1, DroppedMirror
<1>3. QED
    BY <1>1, <1>2, Zenon DEF all

\* A valid policy that has been stored can be read, is valid and says the same.
LEMMA RereadMirrors ==
    ASSUME NEW policy, AllSane(policy.statements), Marshals(policy),
           \A i \in DOMAIN policy.statements : isValid(policy.statements[i]),
           NEW text, text = MarshalJSON(policy), NEW statements, statements = UnmarshalJSON(text).statements
    PROVE  /\ Decodes(text) /\ AllSane(statements) /\ Mirrors(statements, policy.statements, FALSE)
           /\ \A i \in DOMAIN statements : isValid(statements[i])
<1> DEFINE old == policy.statements
           new == Decoded(text)
<1>1. /\ Decodes(text) /\ AllSane(new) /\ DOMAIN new = DOMAIN old /\ DOMAIN text = DOMAIN old
      /\ \A i \in DOMAIN old : Alike(old[i], new[i], "principal" \in DOMAIN old[i])
    BY StatementsComeBack
<1>2. \A i \in DOMAIN old : Alike(old[i], new[i], FALSE)
    BY <1>1 DEF Alike
<1>3. Mirrors(new, old, FALSE)
  <2>1. \A i \in DOMAIN old : Alike(new[i], old[i], FALSE)
    BY <1>2, AlikeEquivalence
  <2> HIDE DEF new, old
  <2>2. QED
    BY <1>1, <2>1 DEF Mirrors
<1>4. AllSane(statements) /\ Mirrors(statements, new, FALSE)
    BY <1>1, ReadMirrors
<1>5. Mirrors(statements, old, FALSE)
  <2> HIDE DEF new, old
  <2>1. QED
    BY <1>3, <1>4, MirrorsChain
<1>6. \A i \in DOMAIN new : isValid(new[i])
    BY <1>1, <1>2, ValidAlike
<1>7. \A i \in DOMAIN statements : isValid(statements[i])
  <2>1. \A i \in DOMAIN statements : \E j \in DOMAIN new : Alike(statements[i], new[j], FALSE)
    BY <1>4 DEF Mirrors
  <2>2. \A i \in DOMAIN statements : \E j \in DOMAIN new : Alike(new[j], statements[i], FALSE)
    BY <2>1, AlikeEquivalence
  <2> HIDE DEF new
  <2>3. QED
    BY <1>6, <2>2, ValidAlike
<1>8. QED
    BY <1>1, <1>4, <1>5, <1>7

\* A canned policy is its document.
LEMMA CannedMirrors ==
    ASSUME NEW statements \in DefaultPolicies
    PROVE  AllSane(statements) /\ AllSane(Decoded(statements)) /\ Mirrors(statements, Decoded(statements), FALSE)
<1> DEFINE all == Decoded(statements)
<1>1. /\ IsSequence(statements)
      /\ \A i \in DOMAIN statements :
            IsStatement(statements[i]) /\ statements[i].conditions = <<>> /\ WellMade(statements[i].conditions)
    BY CannedValid
<1>2. UnmarshalConditions(<<>>) = <<>>
    BY DEF UnmarshalConditions
<1>3. /\ IsSequence(all) /\ DOMAIN all = DOMAIN statements
      /\ \A i \in DOMAIN statements :
            /\ IsStatement(all[i])
            /\ all[i].effect = statements[i].effect /\ all[i].actions = statements[i].actions
            /\ all[i].notActions = statements[i].notActions
            /\ all[i].resources = statements[i].resources /\ all[i].notResources = statements[i].notResources
            /\ all[i].conditions = UnmarshalConditions(statements[i].conditions)
    BY <1>1, DecodedFields
<1> HIDE DEF all
<1>4. \A i \in DOMAIN statements : all[i].conditions = statements[i].conditions
    BY <1>1, <1>2, <1>3
<1>5. \A i \in DOMAIN statements : Alike(statements[i], all[i], FALSE)
    BY <1>3, <1>4, SameFuncs DEF Alike
<1>6. QED
    BY <1>1, <1>3, <1>4, <1>5 DEF AllSane, Sane, Mirrors, all

\* Every policy that is loaded decides as its document says.
LEMMA EntriesFaithful ==
    ASSUME Clear, FInv, [Next]_vars, NEW j \in DOMAIN loaded' PROVE Faithful(loaded'[j])
<1>1. IInv
    BY DEF FInv
<1>2. CASE \E i \in DOMAIN loaded : loaded'[j] = loaded[i]
    BY <1>2 DEF FInv
<1>3. CASE FromDocument(loaded'[j])
  <2>1. PICK doc \in Docs, strict \in BOOLEAN :
            /\ Decodes(doc)
            /\ \A k \in DOMAIN UnmarshalJSON(doc).statements : isValid(UnmarshalJSON(doc).statements[k])
            /\ loaded'[j] = [doc |-> doc, strict |-> strict, policy |-> UnmarshalJSON(doc)]
    BY <1>3, Zenon DEF FromDocument
  <2>2. IsDocument(doc) /\ Unambiguous(doc)
    BY <2>1, DocsAssumption DEF Clear
  <2>3. IsSequence(doc) /\ \A i \in DOMAIN doc : IsStatement(doc[i])
    BY <2>2 DEF IsDocument
  <2>4. AllSane(Decoded(doc))
    BY <2>1, <2>2, DecodedSane
  <2> DEFINE policy == UnmarshalJSON(doc)
  <2>5. AllSane(policy.statements) /\ Mirrors(policy.statements, Decoded(doc), FALSE)
    BY <2>4, ReadMirrors
  <2>6. /\ DOMAIN loaded'[j] = {"doc", "strict", "policy"} /\ loaded'[j].doc = doc /\ loaded'[j].policy = policy
    BY <2>1
  <2>7. \A k \in DOMAIN policy.statements : isValid(policy.statements[k])
    BY <2>1
  <2> HIDE DEF policy
  <2>8. QED
    BY <2>3, <2>4, <2>5, <2>6, <2>7 DEF Faithful
<1>4. CASE IsCanned(loaded'[j])
  <2>1. PICK statements \in DefaultPolicies :
            /\ DOMAIN loaded'[j] = {"doc", "strict", "policy"}
            /\ loaded'[j].doc = statements /\ loaded'[j].policy.statements = statements
    BY <1>4 DEF IsCanned
  <2>2. IsSequence(statements) /\ \A i \in DOMAIN statements : IsStatement(statements[i]) /\ isValid(statements[i])
    BY CannedValid
  <2>3. AllSane(statements) /\ AllSane(Decoded(statements)) /\ Mirrors(statements, Decoded(statements), FALSE)
    BY CannedMirrors
  <2>4. QED
    BY <2>1, <2>2, <2>3 DEF Faithful
<1>5. CASE \E i \in DOMAIN loaded : IsReread(loaded'[j], loaded[i])
  <2>1. PICK i \in DOMAIN loaded : IsReread(loaded'[j], loaded[i])
    BY <1>5
  <2> DEFINE old == loaded[i]
             policy == UnmarshalJSON(MarshalJSON(old.policy))
  <2>2. Marshals(old.policy) /\ loaded'[j] = [old EXCEPT !.policy = policy]
    BY <2>1, Zenon DEF IsReread
  <2>3. Faithful(old)
    BY DEF FInv
  <2>4. AllSane(old.policy.statements) /\ \A k \in DOMAIN old.policy.statements : isValid(old.policy.statements[k])
    BY <2>3 DEF Faithful
  <2>5. /\ AllSane(policy.statements) /\ Mirrors(policy.statements, old.policy.statements, FALSE)
        /\ \A k \in DOMAIN policy.statements : isValid(policy.statements[k])
    BY <2>2, <2>4, RereadMirrors
  <2> HIDE DEF policy, old
  <2>6. DOMAIN loaded'[j] = DOMAIN old /\ loaded'[j].doc = old.doc /\ loaded'[j].policy = policy
    BY <2>2, <2>3 DEF Faithful
  <2>7. Mirrors(policy.statements, Decoded(old.doc), FALSE)
    BY <2>3, <2>5, MirrorsChain DEF Faithful
  <2>8. QED
    BY <2>3, <2>5, <2>6, <2>7 DEF Faithful
<1>6. QED
    BY <1>1, <1>2, <1>3, <1>4, <1>5, EntriesStep

\* Lists that begin alike have the same beginning.
LEMMA SamePrefix ==
    ASSUME NEW s, NEW t, NEW n \in Nat, \A i \in 1..n : s[i] = t[i] PROVE SubSeq(s, 1, n) = SubSeq(t, 1, n)
<1> DEFINE S == {s[i] : i \in 1..n}
<1>1. (\A i \in 1..n : s[i] \in S) /\ (\A i \in 1..n : t[i] \in S)
    OBVIOUS
<1> HIDE DEF S
<1>2. /\ SubSeq(s, 1, n) \in Seq(S) /\ Len(SubSeq(s, 1, n)) = n /\ \A i \in 1..n : SubSeq(s, 1, n)[i] = s[i]
    BY <1>1, SubSeqProperties
<1>3. /\ SubSeq(t, 1, n) \in Seq(S) /\ Len(SubSeq(t, 1, n)) = n /\ \A i \in 1..n : SubSeq(t, 1, n)[i] = t[i]
    BY <1>1, SubSeqProperties
<1>4. QED
    BY <1>2, <1>3, SeqEqual

\* What has been merged stays the merge of the first so many.
LEMMA MergedKept ==
    ASSUME FInv, [Next]_vars
    PROVE  /\ merged'.of \in 0..Len(loaded')
           /\ merged'.of > 0 => merged'.policy = MergePolicies(SubSeq(Policies', 1, merged'.of))
<1>1. /\ loaded \in Seq(Range(loaded)) /\ Len(loaded) \in Nat /\ DOMAIN loaded = 1..Len(loaded)
      /\ IsSequence(Policies) /\ Len(Policies) = Len(loaded)
    BY PoliciesListed DEF FInv, IInv
<1>2. CASE merged' = merged /\ loaded' = loaded
    BY <1>2 DEF FInv, Policies
<1>3. CASE merged' = Unmerged
  <2>1. merged'.of = 0 /\ Len(loaded') \in Nat
    BY <1>3, NextSound DEF Unmerged, FInv, IInv
  <2>2. QED
    BY <2>1
<1>4. CASE loaded # <<>> /\ loaded' = loaded /\ merged' = [of |-> Len(loaded), policy |-> MergePolicies(Policies)]
  <2>1. merged'.of = Len(loaded) /\ merged'.policy = MergePolicies(Policies) /\ Policies' = Policies
    BY <1>4 DEF Policies
  <2>2. SubSeq(Policies, 1, Len(Policies)) = Policies
    BY <1>1, SubSeqFull DEF IsSequence
  <2>3. SubSeq(Policies', 1, merged'.of) = Policies
    BY <1>1, <2>1, <2>2, Zenon
  <2>4. merged'.of \in 0..Len(loaded')
    BY <1>1, <1>4, <2>1
  <2>5. QED
    BY <2>1, <2>3, <2>4, Zenon
<1>5. ASSUME merged' = merged, NEW entry, loaded' = Append(loaded, entry)
      PROVE  /\ merged'.of \in 0..Len(loaded')
             /\ merged'.of > 0 => merged'.policy = MergePolicies(SubSeq(Policies', 1, merged'.of))
  <2>1. /\ Len(loaded') = Len(loaded) + 1 /\ DOMAIN loaded' = 1..Len(loaded) + 1
        /\ \A i \in 1..Len(loaded) : loaded'[i] = loaded[i]
    BY <1>1, <1>5
  <2>2. \A i \in 1..Len(loaded) : Policies'[i] = Policies[i]
    BY <1>1, <2>1 DEF Policies
  <2>3. merged.of \in 0..Len(loaded)
    BY DEF FInv
  <2>4. merged.of > 0 => SubSeq(Policies', 1, merged.of) = SubSeq(Policies, 1, merged.of)
    BY <1>1, <2>2, <2>3, SamePrefix
  <2>5. merged'.of \in 0..Len(loaded')
    BY <1>1, <1>5, <2>1, <2>3
  <2>6. merged.of > 0 => merged.policy = MergePolicies(SubSeq(Policies, 1, merged.of))
    BY DEF FInv
  <2>7. QED
    BY <1>5, <2>4, <2>5, <2>6, Zenon
<1>6. \/ merged' = Unmerged
      \/ loaded # <<>> /\ loaded' = loaded /\ merged' = [of |-> Len(loaded), policy |-> MergePolicies(Policies)]
      \/ merged' = merged /\ loaded' = loaded
      \/ merged' = merged /\ \E entry : loaded' = Append(loaded, entry)
  <2>1. ASSUME NEW doc, NEW strict, Load(doc, strict) PROVE merged' = merged /\ \E entry : loaded' = Append(loaded, entry)
    BY <2>1, Zenon DEF Load
  <2>2. ASSUME NEW statements, UseDefault(statements) PROVE merged' = merged /\ \E entry : loaded' = Append(loaded, entry)
    <3>1. merged' = merged /\ loaded = <<>> /\ \E entry : loaded' = <<entry>>
        BY <2>2, Zenon DEF UseDefault
    <3>2. QED
        BY <3>1
  <2>3. CASE Merge \/ SetLegacyBucketResourceMatch \/ UNCHANGED vars
    BY <2>3, Zenon DEF Merge, SetLegacyBucketResourceMatch, vars
  <2>4. ASSUME NEW i, Reload(i) PROVE merged' = Unmerged
    BY <2>4 DEF Reload
  <2>5. QED
    BY <2>1, <2>2, <2>3, <2>4, Zenon DEF Next, ParseConfig, ParseConfigStrict
<1>7. QED
    BY <1>2, <1>3, <1>4, <1>5, <1>6

\* It holds before anything is loaded.
LEMMA FaithfulInit == Init => FInv
<1> SUFFICES ASSUME Init PROVE FInv
    OBVIOUS
<1>1. loaded = <<>> /\ merged.of = 0
    BY DEF Init, Unmerged
<1>2. QED
    BY <1>1, InitSound DEF FInv

\* Every step keeps it.
LEMMA FaithfulNext == ASSUME Clear PROVE FInv /\ [Next]_vars => FInv'
<1> SUFFICES ASSUME FInv, [Next]_vars PROVE FInv'
    OBVIOUS
<1>1. IInv'
    BY NextSound DEF FInv
<1>2. \A j \in DOMAIN loaded' : Faithful(loaded'[j])
    BY EntriesFaithful
<1>3. QED
    BY <1>1, <1>2, MergedKept DEF FInv

\* So it holds throughout.
LEMMA AlwaysFaithful == ASSUME Clear PROVE Spec => []FInv
    BY FaithfulInit, FaithfulNext, PTL DEF Spec

\* Dropping duplicates, the index and a reload from storage change no decision,
\* for any documents whose conditions say all that they compare.
THEOREM LoadsKeepDecisions == ASSUME Clear PROVE Spec => []LoadKeepsDecisions
<1>1. ASSUME FInv, NEW i \in DOMAIN loaded, NEW args \in Requests
      PROVE  Decide(loaded[i].policy, args, legacy) = DocDecides(loaded[i].doc, args, legacy)
  <2> DEFINE doc    == loaded[i].doc
             policy == loaded[i].policy
             all    == Decoded(doc)
  <2>1. Sound(policy) /\ Faithful(loaded[i])
    BY <1>1 DEF FInv, IInv, SoundEntry
  <2>2. DOMAIN all = DOMAIN doc /\ \A k \in DOMAIN doc : all[k].effect = doc[k].effect
    BY <2>1, DecodedFields DEF Faithful
  <2>3. AllSane(policy.statements) /\ AllSane(all) /\ Mirrors(policy.statements, all, FALSE)
    BY <2>1 DEF Faithful
  <2> HIDE DEF doc, policy
  <2>4. ASSUME NEW effect
        PROVE  Applying(all, effect, args, legacy) <=>
                  \E k \in DOMAIN doc : doc[k].effect = effect /\ Applies(all[k], args, legacy)
    <3> HIDE DEF all
    <3>1. QED
        BY <2>2, Zenon DEF Applying
  <2>5. DocDecides(doc, args, legacy) =
            IF Applying(all, "Deny", args, legacy) THEN "deny"
            ELSE IF args.denyOnly \/ args.isOwner \/ Applying(all, "Allow", args, legacy) THEN "allow" ELSE "none"
    BY <2>4, Zenon DEF DocDecides
  <2> HIDE DEF all
  <2>6. ASSUME NEW effect
        PROVE  Applying(policy.statements, effect, args, legacy) <=> Applying(all, effect, args, legacy)
    BY <2>3, MirrorsApply
  <2>7. Decide(policy, args, legacy) =
            IF Applying(policy.statements, "Deny", args, legacy) THEN "deny"
            ELSE IF args.denyOnly \/ args.isOwner \/ Applying(policy.statements, "Allow", args, legacy) THEN "allow"
            ELSE "none"
    BY <2>1, DecidedByApplying
  <2>8. Decide(policy, args, legacy) = DocDecides(doc, args, legacy)
    BY <2>5, <2>6, <2>7
  <2>9. QED
    BY <2>8 DEF policy, doc
<1>2. FInv => LoadKeepsDecisions
    BY <1>1, Zenon DEF LoadKeepsDecisions
<1>3. QED
    BY <1>2, AlwaysFaithful, PTL

\* The effects that apply in a merge are those that apply in one of the
\* policies.
LEMMA MergedApplies ==
    ASSUME NEW policies, IsSequence(policies), policies # <<>>, \A i \in DOMAIN policies : AllSane(policies[i].statements),
           NEW effect, NEW args, NEW flag, NEW merge, merge = MergePolicies(policies).statements
    PROVE  Applying(merge, effect, args, flag)
              <=> \E j \in DOMAIN policies : Applying(policies[j].statements, effect, args, flag)
<1>1. CASE Len(policies) = 1
  <2>1. DOMAIN policies = {1} /\ merge = policies[1].statements
    BY <1>1 DEF MergePolicies, IsSequence
  <2>2. QED
    BY <2>1, Zenon
<1>2. CASE Len(policies) # 1
  <2> DEFINE all == FlattenSeq([i \in DOMAIN policies |-> policies[i].statements])
  <2>1. merge = DropDuplicates(all, SameHash)
    BY <1>2 DEF MergePolicies, updateActionIndex
  <2>2. \A i \in DOMAIN policies : IsSequence(policies[i].statements)
    BY DEF AllSane
  <2>3. /\ IsSequence(all)
        /\ \A i \in DOMAIN all : \E j \in DOMAIN policies : \E k \in DOMAIN policies[j].statements : all[i] = policies[j].statements[k]
        /\ \A j \in DOMAIN policies : \A k \in DOMAIN policies[j].statements : \E i \in DOMAIN all : all[i] = policies[j].statements[k]
    BY <2>2, AllStatements
  <2> HIDE DEF all
  <2>4. AllSane(all)
    <3>1. \A i \in DOMAIN all : Sane(all[i])
      <4>1. TAKE i \in DOMAIN all
      <4>2. PICK j \in DOMAIN policies : \E k \in DOMAIN policies[j].statements : all[i] = policies[j].statements[k]
        BY <2>3
      <4>3. AllSane(policies[j].statements)
        OBVIOUS
      <4>4. QED
        BY <4>2, <4>3 DEF AllSane
    <3>2. QED
        BY <2>3, <3>1 DEF AllSane
  <2>5. AllSane(merge) /\ Mirrors(merge, all, FALSE)
    <3>1. AllSane(DropDuplicates(all, SameHash)) /\ Mirrors(DropDuplicates(all, SameHash), all, FALSE)
        BY <2>4, DroppedMirror
    <3>2. QED
        BY <2>1, <3>1, Zenon
  <2>6. Applying(merge, effect, args, flag) <=> Applying(all, effect, args, flag)
    BY <2>4, <2>5, MirrorsApply
  <2>7. Applying(all, effect, args, flag) => \E j \in DOMAIN policies : Applying(policies[j].statements, effect, args, flag)
    <3>1. SUFFICES ASSUME Applying(all, effect, args, flag)
                   PROVE  \E j \in DOMAIN policies : Applying(policies[j].statements, effect, args, flag)
        OBVIOUS
    <3>2. PICK i \in DOMAIN all : all[i].effect = effect /\ Applies(all[i], args, flag)
        BY <3>1, Zenon DEF Applying
    <3>3. PICK j \in DOMAIN policies : \E k \in DOMAIN policies[j].statements : all[i] = policies[j].statements[k]
        BY <2>3
    <3>4. Applying(policies[j].statements, effect, args, flag)
        BY <3>2, <3>3, Zenon DEF Applying
    <3>5. QED
        BY <3>4
  <2>8. ASSUME NEW j \in DOMAIN policies, Applying(policies[j].statements, effect, args, flag)
        PROVE  Applying(all, effect, args, flag)
    <3>1. PICK k \in DOMAIN policies[j].statements :
              policies[j].statements[k].effect = effect /\ Applies(policies[j].statements[k], args, flag)
        BY <2>8, Zenon DEF Applying
    <3>2. PICK i \in DOMAIN all : all[i] = policies[j].statements[k]
        BY <2>3
    <3>3. QED
        BY <3>1, <3>2, Zenon DEF Applying
  <2>9. QED
    BY <2>6, <2>7, <2>8
<1>3. QED
    BY <1>1, <1>2

\* MergePolicies allows what the loop over the policies allows.
LEMMA MergedAnswers ==
    ASSUME NEW policies, IsSequence(policies), policies # <<>>,
           \A i \in DOMAIN policies : AllSane(policies[i].statements) /\ Sound(policies[i]),
           NEW args, NEW flag
    PROVE  IsAllowed(MergePolicies(policies), args, flag) <=> IsAllowedSerial(policies, args, flag)
<1> DEFINE merge == MergePolicies(policies)
           owner == args.denyOnly \/ args.isOwner
           one(i, effect) == Applying(policies[i].statements, effect, args, flag)
           all(effect)    == Applying(merge.statements, effect, args, flag)
<1>1. 1 \in DOMAIN policies
    BY DEF IsSequence
<1>2. Sound(merge)
  <2>1. CASE Len(policies) = 1
    BY <1>1, <2>1 DEF MergePolicies
  <2>2. CASE Len(policies) # 1
    <3>1. PICK statements : merge = updateActionIndex(statements)
        BY <2>2 DEF MergePolicies
    <3>2. QED
        BY <3>1, IndexBuilt
  <2>3. QED
    BY <2>1, <2>2
<1>3. ASSUME NEW effect PROVE all(effect) <=> \E j \in DOMAIN policies : one(j, effect)
  <2>1. \A i \in DOMAIN policies : AllSane(policies[i].statements)
    OBVIOUS
  <2>2. QED
    BY <2>1, MergedApplies
<1>4. Decide(merge, args, flag) = IF all("Deny") THEN "deny" ELSE IF owner \/ all("Allow") THEN "allow" ELSE "none"
  <2> HIDE DEF merge
  <2>1. QED
    BY <1>2, DecidedByApplying
<1>5. \A i \in DOMAIN policies : Decide(policies[i], args, flag) =
          IF one(i, "Deny") THEN "deny" ELSE IF owner \/ one(i, "Allow") THEN "allow" ELSE "none"
    BY DecidedByApplying
<1>6. IsAllowedSerial(policies, args, flag) <=>
          /\ \A i \in DOMAIN policies : Decide(policies[i], args, flag) # "deny"
          /\ \E i \in DOMAIN policies : Decide(policies[i], args, flag) = "allow"
    BY Zenon DEF IsAllowedSerial
<1> HIDE DEF one, all, merge, owner
<1>7. IsAllowed(merge, args, flag) <=> ~all("Deny") /\ (owner \/ all("Allow"))
    BY <1>4 DEF IsAllowed
<1>8. ASSUME NEW i \in DOMAIN policies
      PROVE  /\ Decide(policies[i], args, flag) # "deny" <=> ~one(i, "Deny")
             /\ Decide(policies[i], args, flag) = "allow" <=> ~one(i, "Deny") /\ (owner \/ one(i, "Allow"))
  <2> DEFINE answer == Decide(policies[i], args, flag)
  <2>1. answer = IF one(i, "Deny") THEN "deny" ELSE IF owner \/ one(i, "Allow") THEN "allow" ELSE "none"
    BY <1>5
  <2>2. QED
    BY <2>1, Zenon
<1>9. IsAllowedSerial(policies, args, flag) <=>
          /\ \A i \in DOMAIN policies : ~one(i, "Deny")
          /\ \E i \in DOMAIN policies : owner \/ one(i, "Allow")
  <2>1. CASE \E i \in DOMAIN policies : one(i, "Deny")
    BY <1>6, <1>8, <2>1, Zenon
  <2>2. CASE \A i \in DOMAIN policies : ~one(i, "Deny")
    <3>1. \A i \in DOMAIN policies : /\ Decide(policies[i], args, flag) # "deny"
                                     /\ Decide(policies[i], args, flag) = "allow" <=> (owner \/ one(i, "Allow"))
        BY <1>8, <2>2, Zenon
    <3>2. QED
        BY <1>6, <2>2, <3>1, Zenon
  <2>3. QED
    BY <2>1, <2>2
<1>10. QED
    BY <1>1, <1>3, <1>7, <1>9, Zenon DEF merge

\* MergePolicies changes no answer, neither of a decision nor of the actions
\* listed for a console, for any documents whose conditions say all that they
\* compare and for any number of policies.
THEOREM MergesKeepAnswers == ASSUME Clear PROVE Spec => []MergeKeepsAnswers
<1>1. ASSUME FInv, merged.of > 0, NEW args
      PROVE  IsAllowed(merged.policy, args, legacy) <=> IsAllowedSerial(SubSeq(Policies, 1, merged.of), args, legacy)
  <2> DEFINE policies == SubSeq(Policies, 1, merged.of)
  <2>1. /\ Len(loaded) \in Nat /\ DOMAIN loaded = 1..Len(loaded) /\ merged.of \in 1..Len(loaded)
        /\ \A i \in DOMAIN loaded : Policies[i] = loaded[i].policy
    BY <1>1, PoliciesListed DEF FInv
  <2> DEFINE S == {loaded[i].policy : i \in DOMAIN loaded}
  <2>2. \A i \in 1..merged.of : Policies[i] \in S
    BY <2>1
  <2>3. policies \in Seq(S) /\ Len(policies) = merged.of
    <3> HIDE DEF S
    <3>1. QED
        BY <2>1, <2>2, SubSeqProperties
  <2>4. merged.policy = MergePolicies(policies)
    BY <1>1 DEF FInv
  <2>5. \A policy \in S : AllSane(policy.statements) /\ Sound(policy)
    BY <1>1 DEF FInv, IInv, Faithful, SoundEntry
  <2> HIDE DEF policies, S
  <2>6. IsSequence(policies) /\ policies # <<>> /\ \A i \in DOMAIN policies : policies[i] \in S
    BY <2>1, <2>3, SeqOfRange DEF IsSequence
  <2>7. \A i \in DOMAIN policies : AllSane(policies[i].statements) /\ Sound(policies[i])
    BY <2>5, <2>6
  <2>8. IsAllowed(MergePolicies(policies), args, legacy) <=> IsAllowedSerial(policies, args, legacy)
    BY <2>6, <2>7, MergedAnswers
  <2>9. QED
    BY <2>4, <2>8, Zenon DEF policies
<1>2. FInv => MergeKeepsAnswers
  <2> SUFFICES ASSUME FInv, merged.of > 0, NEW args \in Requests
               PROVE  LET single == SubSeq(Policies, 1, merged.of)
                      IN  /\ IsAllowed(merged.policy, args, legacy) <=> IsAllowedSerial(single, args, legacy)
                          /\ args.action = "s3:ListBucket" =>
                                IsAllowedActions(merged.policy, args, legacy)
                                    = {a \in S3Actions \cup AdminActions \cup KMSActions :
                                          IsAllowedSerial(single, ListedArgs(a, args), legacy)}
    BY Zenon DEF MergeKeepsAnswers
  <2>1. \A a : IsAllowed(merged.policy, ListedArgs(a, args), legacy)
                <=> IsAllowedSerial(SubSeq(Policies, 1, merged.of), ListedArgs(a, args), legacy)
    BY <1>1
  <2>2. IsAllowedActions(merged.policy, args, legacy)
            = {a \in S3Actions \cup AdminActions \cup KMSActions :
                  IsAllowedSerial(SubSeq(Policies, 1, merged.of), ListedArgs(a, args), legacy)}
    BY <2>1, Zenon DEF IsAllowedActions
  <2>3. QED
    BY <1>1, <2>2, Zenon
<1>3. QED
    BY <1>2, AlwaysFaithful, PTL

\* No reload loses a policy that the strict rules accepted, for any documents
\* whose conditions say all that they compare.
THEOREM StrictPoliciesSurvive == ASSUME Clear PROVE Spec => StrictSurvives
<1>1. ASSUME FInv, [Next]_vars, NEW i \in DOMAIN loaded
      PROVE  \E j \in DOMAIN loaded' : loaded'[j].doc = loaded[i].doc
  <2>1. loaded \in Seq(Range(loaded)) /\ Len(loaded) \in Nat /\ DOMAIN loaded = 1..Len(loaded)
    BY <1>1 DEF FInv, IInv
  <2>2. ASSUME NEW doc, NEW strict, Load(doc, strict) PROVE i \in DOMAIN loaded' /\ loaded'[i].doc = loaded[i].doc
    <3>1. PICK entry : loaded' = Append(loaded, entry)
        BY <2>2, Zenon DEF Load
    <3>2. QED
        BY <2>1, <3>1
  <2>3. ASSUME NEW statements, UseDefault(statements) PROVE FALSE
    BY <2>3 DEF UseDefault
  <2>4. CASE Merge \/ SetLegacyBucketResourceMatch \/ UNCHANGED vars
    BY <2>4 DEF Merge, SetLegacyBucketResourceMatch, vars
  <2>5. ASSUME NEW k \in DOMAIN loaded, Reload(k) PROVE i \in DOMAIN loaded' /\ loaded'[i].doc = loaded[i].doc
    <3> DEFINE old    == loaded[k].policy
               text   == MarshalJSON(old)
               policy == UnmarshalJSON(text)
               ok     == Decodes(text) /\ \A m \in DOMAIN policy.statements : isValid(policy.statements[m])
    <3>1. Marshals(old) /\ loaded' = IF ok THEN [loaded EXCEPT ![k].policy = policy] ELSE RemoveAt(loaded, k)
        BY <2>5, Zenon DEF Reload
    <3>2. AllSane(old.statements) /\ \A m \in DOMAIN old.statements : isValid(old.statements[m])
        BY <1>1 DEF FInv, Faithful
    <3>3. ok
        BY <3>1, <3>2, RereadMirrors
    <3> HIDE DEF ok, policy
    <3>4. loaded' = [loaded EXCEPT ![k].policy = policy]
        BY <3>1, <3>3
    <3>5. DOMAIN loaded[k] = {"doc", "strict", "policy"}
        BY <1>1 DEF FInv, Faithful
    <3>6. QED
        BY <3>4, <3>5
  <2>6. QED
    BY <1>1, <2>2, <2>3, <2>4, <2>5, Zenon DEF Next, ParseConfig, ParseConfigStrict
<1>2. FInv /\ [Next]_vars => [\A i \in DOMAIN loaded : loaded[i].strict =>
                                 \E j \in DOMAIN loaded' : loaded'[j].doc = loaded[i].doc]_vars
    BY <1>1, Zenon
<1>3. QED
    BY <1>2, AlwaysFaithful, PTL DEF Spec, StrictSurvives

-----------------------------------------------------------------------------
(* Bucket policies *)

\* Parsing and storing a bucket policy leaves the other policies alone: all
\* that holds of them holds on a server with both.
THEOREM BucketPoliciesApart == BSpec => Spec
<1>1. BInit => Init
    BY DEF BInit
<1>2. [BNext]_bucketVars => [Next]_vars
    BY DEF BNext, bucketVars, ParseBucketPolicyConfig, ReloadBucketPolicy
<1>3. QED
    BY <1>1, <1>2, PTL DEF BSpec, Spec

\* Every bucket policy that can be read says in the text of its conditions all
\* that they compare.
BucketClear == \A doc \in BucketDocs : Decodes(doc) => Unambiguous(doc)

\* A statement as it is kept for the bucket.
ForBucket(st) ==
    /\ "principal" \in DOMAIN st
    /\ BPisValid(st)
    /\ \A r \in AllResources(st) : ValidateBucket(r)

\* The bucket's policy answers as its document says.
BInv ==
    /\ DOMAIN attached = {"doc", "statements"}
    /\ attached.doc # <<>> =>
          /\ IsSequence(attached.doc) /\ \A i \in DOMAIN attached.doc : IsStatement(attached.doc[i])
          /\ AllSane(Decoded(attached.doc)) /\ AllSane(attached.statements)
          /\ Mirrors(attached.statements, Decoded(attached.doc), TRUE)
          /\ \A i \in DOMAIN attached.statements : ForBucket(attached.statements[i])

\* Validity goes by what such statements have in common.
LEMMA BPValidAlike ==
    ASSUME NEW s, NEW t, Alike(s, t, TRUE) PROVE BPisValid(s) = BPisValid(t)
<1>1. /\ s.actions = t.actions /\ s.notActions = t.notActions /\ s.principal = t.principal
      /\ s.resources = t.resources /\ s.notResources = t.notResources
      /\ Keys(s.conditions) = Keys(t.conditions)
    BY SameKeys DEF Alike
<1>2. AllResources(s) = AllResources(t)
    BY <1>1, Zenon DEF AllResources
<1>3. QED
    BY <1>1, <1>2, Zenon DEF BPisValid

\* What is left of statements for the bucket mirrors them.
LEMMA DroppedForBucket ==
    ASSUME NEW statements, AllSane(statements), \A i \in DOMAIN statements : ForBucket(statements[i]),
           NEW kept, kept = dropDuplicateBPStatements(statements)
    PROVE  /\ AllSane(kept) /\ Mirrors(kept, statements, TRUE)
           /\ \A i \in DOMAIN kept : ForBucket(kept[i])
<1>1. kept = DropDuplicates(statements, BPEquals)
    BY Zenon DEF dropDuplicateBPStatements
<1>2. AllSane(kept) /\ Mirrors(kept, statements, TRUE)
  <2>1. AllSane(DropDuplicates(statements, BPEquals)) /\ Mirrors(DropDuplicates(statements, BPEquals), statements, TRUE)
    BY DroppedMirror
  <2>2. QED
    BY <1>1, <2>1, Zenon
<1>3. \A i \in DOMAIN kept : \E j \in DOMAIN statements : kept[i] = statements[j]
  <2>1. IsSequence(statements)
    BY DEF AllSane
  <2>2. \A k \in {DropDuplicates(statements, Equals), DropDuplicates(statements, SameHash), DropDuplicates(statements, BPEquals)} :
            IsSequence(k) /\ \A i \in DOMAIN k : \E j \in DOMAIN statements : k[i] = statements[j]
    BY <2>1, DroppedMembers
  <2>3. QED
    BY <1>1, <2>2, Zenon
<1>4. QED
    BY <1>2, <1>3, Zenon

\* A document that parses for the bucket has such statements.
LEMMA ParsedForBucket ==
    ASSUME NEW doc, IsSequence(doc), \A i \in DOMAIN doc : IsStatement(doc[i]) /\ "principal" \in DOMAIN doc[i],
           ParsesFor(doc), NEW i \in DOMAIN Decoded(doc)
    PROVE  ForBucket(Decoded(doc)[i])
<1> DEFINE all == Decoded(doc)
<1>1. /\ DOMAIN all = DOMAIN doc
      /\ \A k \in DOMAIN doc : /\ DOMAIN all[k] = DOMAIN doc[k]
                               /\ all[k].resources = doc[k].resources /\ all[k].notResources = doc[k].notResources
    BY DecodedFields
<1>2. BPisValid(all[i]) /\ \A r \in AllResources(doc[i]) : ValidateBucket(r)
    BY <1>1 DEF ParsesFor
<1> HIDE DEF all
<1>3. AllResources(all[i]) = AllResources(doc[i])
    BY <1>1 DEF all, AllResources
<1>4. "principal" \in DOMAIN all[i]
    BY <1>1 DEF all
<1>5. QED
    BY <1>2, <1>3, <1>4 DEF ForBucket, all

\* The invariant of the bucket's policy is inductive.
LEMMA BucketNext == ASSUME BucketClear PROVE BInv /\ [BNext]_bucketVars => BInv'
<1> SUFFICES ASSUME BInv, [BNext]_bucketVars PROVE BInv'
    OBVIOUS
<1>1. CASE attached' = attached
    BY <1>1 DEF BInv
<1>2. ASSUME NEW doc \in BucketDocs, ParseBucketPolicyConfig(doc) PROVE BInv'
  <2> DEFINE statements == dropDuplicateBPStatements(Decoded(doc))
  <2>1. ParsesFor(doc) /\ attached' = [doc |-> doc, statements |-> statements]
    BY <1>2, Zenon DEF ParseBucketPolicyConfig
  <2>2. IsDocument(doc) /\ (\A i \in DOMAIN doc : "principal" \in DOMAIN doc[i]) /\ Decodes(doc) /\ Unambiguous(doc)
    BY <2>1, BucketDocsAssumption DEF BucketClear, ParsesFor
  <2>3. IsSequence(doc) /\ \A i \in DOMAIN doc : IsStatement(doc[i])
    BY <2>2 DEF IsDocument
  <2>4. AllSane(Decoded(doc))
    BY <2>2, DecodedSane
  <2>5. \A i \in DOMAIN Decoded(doc) : ForBucket(Decoded(doc)[i])
    BY <2>1, <2>2, <2>3, ParsedForBucket
  <2>6. /\ AllSane(statements) /\ Mirrors(statements, Decoded(doc), TRUE)
        /\ \A i \in DOMAIN statements : ForBucket(statements[i])
    BY <2>4, <2>5, DroppedForBucket
  <2> HIDE DEF statements
  <2>7. DOMAIN attached' = {"doc", "statements"} /\ attached'.doc = doc /\ attached'.statements = statements
    BY <2>1
  <2>8. QED
    BY <2>3, <2>4, <2>6, <2>7 DEF BInv
<1>3. CASE ReloadBucketPolicy
  <2> DEFINE old == attached.statements
             text == MarshalJSON(attached)
             new == Decoded(text)
             kept == dropDuplicateBPStatements(new)
  <2>1. /\ attached.doc # <<>> /\ BPMarshals(old)
        /\ attached' = [attached EXCEPT !.statements = IF ParsesFor(text) THEN kept ELSE <<>>]
    BY <1>3, Zenon DEF ReloadBucketPolicy
  <2>2. /\ AllSane(old) /\ (\A i \in DOMAIN old : ForBucket(old[i])) /\ Mirrors(old, Decoded(attached.doc), TRUE)
    BY <2>1 DEF BInv
  <2>3. Marshals(attached)
    BY <2>1 DEF BPMarshals, Marshals
  <2>4. /\ Decodes(text) /\ AllSane(new) /\ DOMAIN new = DOMAIN old /\ DOMAIN text = DOMAIN old
        /\ \A i \in DOMAIN old :
              /\ Alike(old[i], new[i], "principal" \in DOMAIN old[i])
              /\ AllResources(text[i]) = AllResources(old[i])
              /\ DOMAIN new[i] = DOMAIN old[i]
    BY <2>2, <2>3, StatementsComeBack
  <2> HIDE DEF old, text, new, kept
  <2>5. \A i \in DOMAIN old : Alike(old[i], new[i], TRUE)
    BY <2>2, <2>4 DEF ForBucket, Alike
  <2>6. \A i \in DOMAIN old : BPisValid(new[i])
    BY <2>2, <2>5, BPValidAlike DEF ForBucket
  <2>7. \A i \in DOMAIN text : \A r \in AllResources(text[i]) : ValidateBucket(r)
    BY <2>2, <2>4 DEF ForBucket
  <2>8. ParsesFor(text)
    BY <2>4, <2>6, <2>7 DEF ParsesFor, new
  <2>9. \A i \in DOMAIN new : ForBucket(new[i])
    <3>1. TAKE i \in DOMAIN new
    <3>2. AllResources(new[i]) = AllResources(old[i])
        BY <2>4, <2>5 DEF Alike, AllResources
    <3>3. QED
        BY <2>2, <2>4, <2>6, <3>2 DEF ForBucket
  <2>10. AllSane(kept) /\ Mirrors(kept, new, TRUE) /\ \A i \in DOMAIN kept : ForBucket(kept[i])
    BY <2>4, <2>9, DroppedForBucket DEF kept
  <2>11. Mirrors(new, old, TRUE)
    <3>1. \A i \in DOMAIN old : Alike(new[i], old[i], TRUE)
        BY <2>5, AlikeEquivalence
    <3>2. QED
        BY <2>4, <3>1 DEF Mirrors
  <2>12. Mirrors(kept, Decoded(attached.doc), TRUE)
    <3>1. Mirrors(kept, old, TRUE)
        BY <2>10, <2>11, MirrorsChain
    <3>2. QED
        BY <2>2, <3>1, MirrorsChain
  <2>13. DOMAIN attached' = DOMAIN attached /\ attached'.doc = attached.doc /\ attached'.statements = kept
    BY <2>1, <2>8 DEF BInv
  <2>14. QED
    BY <2>1, <2>10, <2>12, <2>13 DEF BInv
<1>4. QED
    BY <1>1, <1>2, <1>3 DEF BNext, bucketVars

\* A bucket policy answers every request as its document says, for every
\* account, after duplicates have gone and after any number of reloads, for
\* documents whose conditions say all that they compare.
THEOREM BucketsKeepDecisions == ASSUME BucketClear PROVE BSpec => []BucketKeepsDecisions
<1>1. BInit => BInv
    BY DEF BInit, BInv
<1>2. ASSUME BInv, attached.doc # <<>>, NEW args, NEW effect
      PROVE  (\E i \in DOMAIN attached.statements : attached.statements[i].effect = effect /\ BPApplies(attached.statements[i], args))
                <=> \E i \in DOMAIN attached.doc : attached.doc[i].effect = effect /\ BPApplies(Decoded(attached.doc)[i], args)
  <2> DEFINE st  == attached.statements
             doc == attached.doc
             all == Decoded(doc)
  <2>1. AllSane(st) /\ AllSane(all) /\ Mirrors(st, all, TRUE)
    BY <1>2 DEF BInv
  <2>2. DOMAIN all = DOMAIN doc /\ \A k \in DOMAIN doc : all[k].effect = doc[k].effect
    BY <1>2, DecodedFields DEF BInv
  <2> HIDE DEF st, doc, all
  <2>3. ASSUME NEW i \in DOMAIN st, NEW j \in DOMAIN doc, Alike(st[i], all[j], TRUE)
        PROVE  st[i].effect = doc[j].effect /\ BPApplies(st[i], args) = BPApplies(all[j], args)
    <3>1. Sane(st[i]) /\ Sane(all[j])
        BY <2>1, <2>2 DEF AllSane
    <3>2. st[i].effect = all[j].effect
        BY <2>3 DEF Alike
    <3>3. QED
        BY <2>2, <2>3, <3>1, <3>2, BPApplyAlike
  <2>4. ASSUME NEW i \in DOMAIN st, st[i].effect = effect, BPApplies(st[i], args)
        PROVE  \E j \in DOMAIN doc : doc[j].effect = effect /\ BPApplies(all[j], args)
    <3>1. PICK j \in DOMAIN doc : Alike(st[i], all[j], TRUE)
        BY <2>1, <2>2 DEF Mirrors
    <3>2. QED
        BY <2>3, <2>4, <3>1, Zenon
  <2>5. ASSUME NEW j \in DOMAIN doc, doc[j].effect = effect, BPApplies(all[j], args)
        PROVE  \E i \in DOMAIN st : st[i].effect = effect /\ BPApplies(st[i], args)
    <3>1. PICK i \in DOMAIN st : Alike(st[i], all[j], TRUE)
        BY <2>1, <2>2 DEF Mirrors
    <3>2. QED
        BY <2>3, <2>5, <3>1, Zenon
  <2>6. QED
    BY <2>4, <2>5, Zenon DEF st, doc, all
<1>3. BInv => BucketKeepsDecisions
    BY <1>2, Zenon DEF BucketKeepsDecisions, BPIsAllowed
<1>4. QED
    BY <1>1, <1>3, BucketNext, PTL DEF BSpec
=============================================================================
