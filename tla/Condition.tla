----------------------------- MODULE Condition -----------------------------
(***************************************************************************)
(* policy/condition: the conditions of a statement.  A document holds      *)
(* conditions [qualifier, name, key, values]; loading makes functions of   *)
(* them, which are evaluated on the values of a request, are compared by   *)
(* what they print, and are written back to documents.                     *)
(*                                                                         *)
(* Texts are sequences of symbols.  A number, a time, an address and the   *)
(* length of a network prefix are one symbol each; times are half seconds  *)
(* apart.  A key name stands for all names the code treats alike.          *)
(***************************************************************************)
EXTENDS Glob, SequencesExt, FiniteSets

-----------------------------------------------------------------------------
(* Keys and the values of a request *)

CommonKeys       == {"username", "groups", "SourceIp", "SecureTransport", "CurrentTime"}
AllSupportedKeys == CommonKeys \cup {"prefix", "max-keys", "DurationSeconds", "ExistingObjectTag", "x-amz-server-side-encryption"}

Key(name) == [name |-> name, variable |-> ""]

\* http.CanonicalHeaderKey leaves a name with a slash in it alone.
CanonicalHeaderKey(key) ==
    IF key.name = "prefix" /\ key.variable = "" THEN Key("Prefix")
    ELSE IF key.name = "username" /\ key.variable = "" THEN Key("Username")
    ELSE key

\* The values of a request: a function from keys to sequences of texts.  A
\* key that is missing is looked up as a header.
getValuesByKey(values, key) ==
    IF key \in DOMAIN values THEN values[key]
    ELSE IF CanonicalHeaderKey(key) \in DOMAIN values THEN values[CanonicalHeaderKey(key)]
    ELSE <<>>

\* A variable is replaced by the first value of its key, unless that is empty.
substitute(text, values) ==
    LET user     == Key("username")
        known    == user \in DOMAIN values /\ values[user][1] # <<>>
        piece(c) == IF c = "${aws:username}" /\ known THEN values[user][1] ELSE <<c>>
    IN  IF Contains(text, "${aws:username}") THEN FlattenSeq([i \in DOMAIN text |-> piece(text[i])]) ELSE text

-----------------------------------------------------------------------------
(* Reading and writing of texts *)

ToLower(text) == [i \in DOMAIN text |-> IF text[i] = "B" THEN "b" ELSE text[i]]

\* base64.
Encode(text) == <<"base64">> \o text

\* strconv.ParseBool, strconv.Atoi and time.Parse, each with the texts it reads.
TrueTexts  == {<<"true">>, <<"1">>, <<"T">>}
FalseTexts == {<<"false">>, <<"0">>, <<"F">>}
Numbers    == <<"0", "1", "2">>
Times      == <<"12:00:00", "12:00:00.5", "12:00:01", "12:00:01.5">>

Reads(symbols, text) == Len(text) = 1 /\ Contains(symbols, text[1])
Index(symbols, text) == SelectInSeq(symbols, LAMBDA c : c = text[1])

\* dateFunc prints and stores RFC 3339 without the fraction.
Format(time) == LET i == Index(Times, time) IN <<Times[i - ((i - 1) % 2)]>>

\* Addresses: the first two share a network of 24 bits.
Addresses == <<"10.0.0.0", "10.0.0.1", "10.0.1.0">>
Base(ip)  == IF ip = "10.0.0.1" THEN "10.0.0.0" ELSE ip

\* net.ParseCIDR masks the address; 32 bits when no prefix is given.
IsCIDR(text)  == text # <<>> /\ Contains(Addresses, text[1]) /\ Tail(text) \in {<<>>, <<"/24">>, <<"/32">>}
Network(text) == IF text[Len(text)] = "/24" THEN <<Base(text[1]), "/24">> ELSE <<text[1], "/32">>
InNetwork(network, ip) == network[1] = IF network[2] = "/24" THEN Base(ip) ELSE ip

-----------------------------------------------------------------------------
(* Functions: [qualifier, name, key, values], the values a set of texts *)

LikeNames    == {"StringLike", "StringNotLike"}
StringNames  == {"StringEquals", "StringNotEquals", "StringEqualsIgnoreCase",
                 "StringNotEqualsIgnoreCase", "BinaryEquals"} \cup LikeNames
IPNames      == {"IpAddress", "NotIpAddress"}
NumericNames == {"NumericEquals", "NumericNotEquals", "NumericLessThan", "NumericLessThanEquals",
                 "NumericGreaterThan", "NumericGreaterThanIfExists", "NumericGreaterThanEquals"}
DateNames    == {"DateEquals", "DateNotEquals", "DateLessThan", "DateLessThanEquals",
                 "DateGreaterThan", "DateGreaterThanEquals"}

Names      == StringNames \cup IPNames \cup NumericNames \cup DateNames \cup {"Null", "Bool"}
Qualifiers == {"", "ForAllValues", "ForAnyValue"}

Negated(name)    == name \in {"StringNotEquals", "StringNotEqualsIgnoreCase", "StringNotLike", "NotIpAddress"}
IgnoreCase(name) == name \in {"StringEqualsIgnoreCase", "StringNotEqualsIgnoreCase"}

Compare(name, rv, v) ==
    CASE name \in {"NumericEquals", "DateEquals"}                       -> rv = v
      [] name \in {"NumericNotEquals", "DateNotEquals"}                 -> rv # v
      [] name \in {"NumericLessThan", "DateLessThan"}                   -> rv < v
      [] name \in {"NumericLessThanEquals", "DateLessThanEquals"}       -> rv <= v
      [] name \in {"NumericGreaterThanEquals", "DateGreaterThanEquals"} -> rv >= v
      [] OTHER                                                          -> rv > v

\* stringFunc.eval.
StringEval(f, values) ==
    LET fold(t) == IF IgnoreCase(f.name) THEN ToLower(t) ELSE t
        rvalues == {fold(t) : t \in Range(getValuesByKey(values, f.key))}
        fvalues == {fold(substitute(t, values)) : t \in f.values}
    IN  IF f.qualifier = "ForAllValues" THEN rvalues \subseteq fvalues ELSE rvalues \cap fvalues # {}

\* stringLikeFunc.eval.
LikeEval(f, values) ==
    LET rvalues    == Range(getValuesByKey(values, f.key))
        matched(v) == \E t \in f.values : Matches(substitute(t, values), v)
    IN  IF f.qualifier = "ForAllValues" THEN \A v \in rvalues : matched(v) ELSE \E v \in rvalues : matched(v)

\* ipaddrFunc.eval: one value that is no address fails all.
IPEval(f, values) ==
    LET rvalues == Range(getValuesByKey(values, f.key))
    IN  /\ \A v \in rvalues : Reads(Addresses, v)
        /\ \E v \in rvalues, t \in f.values : InNetwork(Network(t), v[1])

\* numericFunc.evaluate and dateFunc.evaluate look at the first value.
NumericEval(f, values) ==
    LET rvalues == getValuesByKey(values, f.key)
    IN  IF rvalues = <<>> THEN f.name = "NumericGreaterThanIfExists"
        ELSE /\ Reads(Numbers, rvalues[1])
             /\ \A v \in f.values : Compare(f.name, Index(Numbers, rvalues[1]), Index(Numbers, v))

DateEval(f, values) ==
    LET rvalues == getValuesByKey(values, f.key)
    IN  /\ rvalues # <<>>
        /\ Reads(Times, rvalues[1])
        /\ \A v \in f.values : Compare(f.name, Index(Times, rvalues[1]), Index(Times, v))

NullEval(f, values) == (getValuesByKey(values, f.key) = <<>>) = (f.values = {<<"true">>})

\* booleanFunc.evaluate compares texts.
BoolEval(f, values) ==
    LET rvalues == getValuesByKey(values, f.key) IN rvalues # <<>> /\ f.values = {rvalues[1]}

\* Function.evaluate.
evaluate(f, values) ==
    CASE f.name \in LikeNames               -> LikeEval(f, values) # Negated(f.name)
      [] f.name \in StringNames \ LikeNames -> StringEval(f, values) # Negated(f.name)
      [] f.name \in IPNames                 -> IPEval(f, values) # Negated(f.name)
      [] f.name \in NumericNames            -> NumericEval(f, values)
      [] f.name \in DateNames               -> DateEval(f, values)
      [] f.name = "Null"                    -> NullEval(f, values)
      [] f.name = "Bool"                    -> BoolEval(f, values)

\* Functions.Evaluate.
Evaluate(functions, values) == \A i \in DOMAIN functions : evaluate(functions[i], values)

Keys(functions) == {functions[i].key : i \in DOMAIN functions}

\* What a value is printed as: dates lose their fraction, networks are masked.
Shown(name, text) ==
    CASE name \in DateNames -> Format(text) [] name \in IPNames -> Network(text) [] OTHER -> text

\* Function.String, by which conditions are compared and hashed: the values
\* as often as they are printed.
String(f) ==
    <<f.qualifier, f.name, f.key,
      [s \in {Shown(f.name, t) : t \in f.values} |-> Cardinality({t \in f.values : Shown(f.name, t) = s})]>>

-----------------------------------------------------------------------------
(* Documents: the values are typed, [t, s] *)

\* validateStringValues.
ValidString(name, key, text) ==
    key.name = "x-amz-server-side-encryption" /\ name \notin LikeNames => text \in {<<"AES256">>, <<"aws:kms">>}

\* Which conditions the constructors of each kind accept.
StringAccepts(c) == \A v \in c.values : v.t = "string" /\ ValidString(c.name, c.key, v.s)
BinaryAccepts(c) ==
    \A v \in c.values :
        v.t = "string" /\ v.s # <<>> /\ v.s[1] = "base64" /\ ValidString(c.name, c.key, Tail(v.s))
IPAccepts(c)      == c.key.name = "SourceIp" /\ \A v \in c.values : v.t = "string" /\ IsCIDR(v.s)
NumericAccepts(c) == Cardinality(c.values) = 1 /\ \A v \in c.values : v.t \in {"int", "string"} /\ Reads(Numbers, v.s)
DateAccepts(c)    == Cardinality(c.values) = 1 /\ \A v \in c.values : v.t = "string" /\ Reads(Times, v.s)
NullAccepts(c)    ==
    Cardinality(c.values) = 1 /\ \A v \in c.values : v.t = "bool" \/ (v.t = "string" /\ v.s \in TrueTexts \cup FalseTexts)
BoolAccepts(c)    == c.key.name = "SecureTransport" /\ NullAccepts(c)

\* Which conditions of a document become functions.  A document that gives a
\* key no values at all cannot be read.
Parses(c) ==
    /\ c.key.name \in AllSupportedKeys
    /\ c.qualifier \in Qualifiers /\ c.name \in Names
    /\ c.values # {}
    /\ CASE c.name = "BinaryEquals"   -> BinaryAccepts(c)
         [] c.name \in StringNames \ {"BinaryEquals"} -> StringAccepts(c)
         [] c.name \in IPNames        -> IPAccepts(c)
         [] c.name \in NumericNames   -> NumericAccepts(c)
         [] c.name \in DateNames      -> DateAccepts(c)
         [] c.name = "Null"           -> NullAccepts(c)
         [] c.name = "Bool"           -> BoolAccepts(c)

\* The value as the function keeps it.
Read(name, v) ==
    CASE name = "BinaryEquals" -> Tail(v.s)
      [] name = "Null"         -> IF v.s \in TrueTexts THEN <<"true">> ELSE <<"false">>
      [] OTHER                 -> v.s

\* Functions.UnmarshalJSON.  Only the string functions keep the qualifier.
\* The order is that of a Go map; it matters only where two functions have
\* come to share their name and key.
UnmarshalConditions(conditions) ==
    [i \in DOMAIN conditions |->
        LET c == conditions[i]
        IN  [qualifier |-> IF c.name \in StringNames THEN c.qualifier ELSE "",
             name |-> c.name, key |-> c.key, values |-> {Read(c.name, v) : v \in c.values}]]

\* toMap: Null stores a truth value, the numeric functions an integer.
StoredType(name) == CASE name = "Null" -> "bool" [] name \in NumericNames -> "int" [] OTHER -> "string"

toMap(f) ==
    LET text(t) == IF f.name = "BinaryEquals" THEN Encode(t) ELSE Shown(f.name, t)
    IN  [f EXCEPT !.values = {[t |-> StoredType(f.name), s |-> text(t)] : t \in @}]

\* Functions.MarshalJSON: per name and key the last function is written.
MarshalConditions(functions) ==
    LET kept == {i \in DOMAIN functions : \A j \in i + 1..Len(functions) :
                    LET f == functions[i] g == functions[j]
                    IN <<f.qualifier, f.name, f.key>> # <<g.qualifier, g.name, g.key>>}
    IN SetToSeq({toMap(functions[i]) : i \in kept})
=============================================================================
