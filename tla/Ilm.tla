-------------------------------- MODULE Ilm --------------------------------
(***************************************************************************)
(* ilm/ilm.go and ilm/parse.go: a lifecycle rule is made of options by     *)
(* ToILMRule, which validates it, and is edited afterwards by              *)
(* ApplyRuleFields, which does not.                                        *)
(*                                                                         *)
(* Options are a function on the names that are given (a pointer that is   *)
(* nil is a name outside the domain).  A text that is to be read as a      *)
(* number or a date is <<n>>, or <<>> when it cannot be read.  A date is a *)
(* day number, 0 the zero time; an empty string is "".                     *)
(***************************************************************************)
EXTENDS Integers, Sequences, SequencesExt

CONSTANTS Creations,  \* options ToILMRule is called with
          Edits,      \* options ApplyRuleFields is called with
          Today,      \* the day validateTranExpCurdate compares with
          MaxEdits    \* bound: edits of one rule

VARIABLES rule,       \* the rule, NoRule before one is made
          edits,      \* number of edits
          asked       \* history: the prefix and the tags last asked for; the
                      \* tag the rule was made with if that was all its filter
                      \* had; the sizes it was made with

vars == <<rule, edits, asked>>

\* lifecycle.Filter without a predicate.
EmptyFilter ==
    [prefix |-> "", tag |-> "", lt |-> 0, gt |-> 0,
     and |-> [prefix |-> "", tags |-> <<>>, lt |-> 0, gt |-> 0]]

\* The zero lifecycle.Rule.
NoRule ==
    [filter |-> EmptyFilter, status |-> "",
     expiration |-> [days |-> 0, date |-> 0, marker |-> FALSE],
     allVersions |-> [days |-> 0, marker |-> FALSE],
     transition |-> [days |-> 0, date |-> 0, class |-> ""],
     noncurrentExpiry |-> [days |-> 0, newer |-> 0],
     noncurrentTransition |-> [days |-> 0, newer |-> 0, class |-> ""]]

Init ==
    /\ rule = NoRule
    /\ edits = 0
    /\ asked = [prefix |-> "", tags |-> <<>>, alone |-> <<>>, lt |-> 0, gt |-> 0]

Has(opts, name) == name \in DOMAIN opts
Get(opts, name, default) == IF Has(opts, name) THEN opts[name] ELSE default
Num(opts, name) == IF Has(opts, name) THEN opts[name][1] ELSE 0

-----------------------------------------------------------------------------
(* Parsing *)

\* The parts between separators; an empty one is skipped, as is all of an empty
\* text.
extractILMTags(text) == IF text = <<>> THEN <<>> ELSE SelectSeq(text, LAMBDA tag : tag # "")

\* An expiration is neither unreadable nor zero, be it a date or days.
ExpiryReads(opts, name) == Has(opts, name) => opts[name] \notin {<<>>, <<0>>}
\* A transition may be zero.
TransitionReads(opts, name) == Has(opts, name) => opts[name] # <<>>

parseExpiry(opts) ==
    [days |-> Num(opts, "ExpiryDays"), date |-> Num(opts, "ExpiryDate"), marker |-> Get(opts, "ExpiredMarker", FALSE)]

parseAllVersionsExpiry(opts) ==
    [days |-> Num(opts, "PurgeDays"), marker |-> Get(opts, "PurgeMarker", FALSE)]

parseTransition(opts) ==
    [days |-> Num(opts, "TransitionDays"), date |-> Num(opts, "TransitionDate"), class |-> Get(opts, "StorageClass", "")]

\* A tag text counts once for every tag in it, a given prefix counts even if
\* empty.
predCount(opts) ==
    Len(extractILMTags(Get(opts, "Tags", <<>>))) + Cardinality({n \in {"Prefix", "SizeLess", "SizeGreater"} : Has(opts, n)})

\* One predicate has a field of its own, several are under And.
Filter(opts) ==
    LET tags   == extractILMTags(Get(opts, "Tags", <<>>))
        prefix == Get(opts, "Prefix", "")
        lt     == Get(opts, "SizeLess", 0)
        gt     == Get(opts, "SizeGreater", 0)
    IN  IF predCount(opts) >= 2
        THEN [prefix |-> "", tag |-> "", lt |-> 0, gt |-> 0,
              and |-> [prefix |-> prefix, tags |-> tags, lt |-> lt, gt |-> gt]]
        ELSE [prefix |-> prefix, tag |-> IF tags = <<>> THEN "" ELSE tags[1], lt |-> lt, gt |-> gt,
              and |-> [prefix |-> "", tags |-> <<>>, lt |-> 0, gt |-> 0]]

-----------------------------------------------------------------------------
(* Validation *)

\* A transition without a storage class is none.
TransitionSet(r) == r.transition.class # ""
TransitionDateSet(r) == TransitionSet(r) /\ r.transition.date # 0

validateRuleAction(r) ==
    \/ r.expiration.days # 0 \/ r.expiration.date # 0 \/ r.expiration.marker
    \/ r.allVersions.days # 0
    \/ TransitionSet(r)
    \/ r.noncurrentExpiry.days # 0 \/ r.noncurrentExpiry.newer > 0
    \/ r.noncurrentTransition.class # "" \/ r.noncurrentTransition.newer > 0

\* At most one of the three is given.
validateExpiration(r) ==
    LET given == {c \in {1, 2, 3} : \/ c = 1 /\ r.expiration.days # 0
                                    \/ c = 2 /\ r.expiration.date # 0
                                    \/ c = 3 /\ r.expiration.marker}
    IN  \A c, d \in given : c = d

validateTransition(r) == r.transition.days = 0 \/ r.transition.date = 0

validateTranExpCurdate(r) ==
    /\ ~(r.expiration.date # 0 /\ r.expiration.date < Today)
    /\ ~(TransitionDateSet(r) /\ r.transition.date < Today)

validateTranExpDate(r) ==
    TransitionDateSet(r) /\ r.expiration.date # 0 => r.expiration.date >= r.transition.date

validateTranDays(r) ==
    /\ r.transition.days >= 0
    /\ ~(r.transition.days < 30 /\ r.transition.class = "standard_ia")

validateAllVersionsExpiration(r) == r.allVersions.days >= 0

validateNoncurrentExpiration(r) == r.noncurrentExpiry.days >= 0

validateNoncurrentTransition(r) ==
    /\ r.noncurrentTransition.days >= 0
    /\ ~(r.noncurrentTransition.days > 0 /\ r.noncurrentTransition.class = "")

validateILMRule(r) ==
    /\ validateRuleAction(r) /\ validateExpiration(r) /\ validateTransition(r)
    /\ validateAllVersionsExpiration(r)
    /\ validateTranExpCurdate(r) /\ validateTranExpDate(r) /\ validateTranDays(r)
    /\ validateNoncurrentExpiration(r) /\ validateNoncurrentTransition(r)

-----------------------------------------------------------------------------
(* Operations *)

MadeAs(opts) ==
    LET tags == extractILMTags(Get(opts, "Tags", <<>>))
    IN  asked' = [prefix |-> Get(opts, "Prefix", ""), tags |-> tags,
                  alone |-> IF predCount(opts) >= 2 THEN <<>> ELSE tags,
                  lt |-> Get(opts, "SizeLess", 0), gt |-> Get(opts, "SizeGreater", 0)]

EditedTo(opts) ==
    asked' = [prefix |-> Get(opts, "Prefix", asked.prefix),
              tags   |-> IF Has(opts, "Tags") THEN extractILMTags(opts["Tags"]) ELSE asked.tags,
              alone  |-> asked.alone, lt |-> asked.lt, gt |-> asked.gt]

\* Anything unreadable or not valid gives an error and no rule.
ToILMRule(opts) ==
    /\ rule = NoRule
    /\ ExpiryReads(opts, "ExpiryDate") /\ ExpiryReads(opts, "ExpiryDays") /\ ExpiryReads(opts, "PurgeDays")
    /\ TransitionReads(opts, "TransitionDate") /\ TransitionReads(opts, "TransitionDays")
    /\ LET new == [filter |-> Filter(opts),
                   status |-> IF Get(opts, "Status", TRUE) THEN "Enabled" ELSE "Disabled",
                   expiration |-> parseExpiry(opts),
                   allVersions |-> parseAllVersionsExpiry(opts),
                   transition |-> parseTransition(opts),
                   noncurrentExpiry |-> [days |-> Get(opts, "NoncurrentExpiryDays", 0), newer |-> Get(opts, "NewerExpiry", 0)],
                   noncurrentTransition |-> [days |-> Get(opts, "NoncurrentTransitionDays", 0),
                                             newer |-> Get(opts, "NewerTransition", 0),
                                             class |-> Get(opts, "NoncurrentClass", "")]]
       IN  validateILMRule(new) /\ rule' = new
    /\ MadeAs(opts)
    /\ UNCHANGED edits

\* Mutant: the prefix stays where it is when the tags change.
FilterTagsKeepPrefix(f, opts) ==
    IF Has(opts, "Tags") THEN [f EXCEPT !.and.tags = extractILMTags(opts["Tags"])] ELSE f

\* A filter with other predicates where edits put them.
With(f, prefix, andPrefix, tags) ==
    [prefix |-> prefix, tag |-> f.tag, lt |-> f.lt, gt |-> f.gt,
     and |-> [prefix |-> andPrefix, tags |-> tags, lt |-> f.and.lt, gt |-> f.and.gt]]

\* Tags go under And; the prefix, wherever it was, follows them there, or
\* leaves it when the text of the tags is empty.
FilterTags(f, opts) ==
    IF ~Has(opts, "Tags") THEN f
    ELSE LET p    == IF f.prefix # "" THEN f.prefix ELSE f.and.prefix
             tags == extractILMTags(opts["Tags"])
         IN  IF p = "" THEN With(f, f.prefix, f.and.prefix, tags)
             ELSE IF opts["Tags"] # <<>> THEN With(f, "", p, tags)
             ELSE With(f, p, "", tags)

\* A prefix goes where the tags are.
FilterPrefix(f, opts) ==
    IF ~Has(opts, "Prefix") THEN f
    ELSE IF f.and.tags # <<>> THEN With(f, "", opts["Prefix"], f.and.tags)
    ELSE With(f, opts["Prefix"], "", f.and.tags)

\* The first of date, days and delete marker that is given counts.  Days do
\* not reset the delete marker.
ApplyExpiration(e, opts) ==
    IF Has(opts, "ExpiryDate") THEN [days |-> 0, date |-> Num(opts, "ExpiryDate"), marker |-> FALSE]
    ELSE IF Has(opts, "ExpiryDays") THEN [e EXCEPT !.days = Num(opts, "ExpiryDays"), !.date = 0]
    ELSE IF Has(opts, "ExpiredMarker") THEN [days |-> 0, date |-> 0, marker |-> opts["ExpiredMarker"]]
    ELSE e

ApplyTransition(t, opts) ==
    IF Has(opts, "TransitionDate") THEN [t EXCEPT !.date = Num(opts, "TransitionDate"), !.days = 0]
    ELSE IF Has(opts, "TransitionDays") THEN [t EXCEPT !.days = Num(opts, "TransitionDays"), !.date = 0]
    ELSE t

\* The fields that need no parsing.
ApplyPlain(r, opts) ==
    [filter |-> r.filter, expiration |-> r.expiration, allVersions |-> r.allVersions,
     transition |-> [r.transition EXCEPT !.class = Get(opts, "StorageClass", @)],
     noncurrentExpiry |-> [days |-> Get(opts, "NoncurrentExpiryDays", r.noncurrentExpiry.days),
                           newer |-> Get(opts, "NewerExpiry", r.noncurrentExpiry.newer)],
     noncurrentTransition |-> [days |-> Get(opts, "NoncurrentTransitionDays", r.noncurrentTransition.days),
                               newer |-> Get(opts, "NewerTransition", r.noncurrentTransition.newer),
                               class |-> Get(opts, "NoncurrentClass", r.noncurrentTransition.class)],
     status |-> IF Has(opts, "Status") THEN (IF opts["Status"] THEN "Enabled" ELSE "Disabled") ELSE r.status]

\* The option of a group that is read: later ones are not looked at.
Read(opts, first, second) == IF Has(opts, first) THEN first ELSE second

\* The rule is changed in place, part by part: the parts before one that
\* cannot be read stay changed although an error is returned.
ApplyRuleFields(opts) ==
    LET r1 == [rule EXCEPT !.filter = FilterPrefix(FilterTags(@, opts), opts)]
        r2 == [r1 EXCEPT !.expiration = ApplyExpiration(@, opts)]
        r3 == [r2 EXCEPT !.allVersions = [days |-> IF Has(opts, "PurgeDays") THEN Num(opts, "PurgeDays") ELSE @.days,
                                          marker |-> Get(opts, "PurgeMarker", @.marker)]]
        r4 == [r3 EXCEPT !.transition = ApplyTransition(@, opts)]
    IN  /\ rule # NoRule
        /\ edits < MaxEdits
        /\ edits' = edits + 1
        /\ rule' = IF ~ExpiryReads(opts, Read(opts, "ExpiryDate", "ExpiryDays")) THEN r1
                   ELSE IF ~ExpiryReads(opts, "PurgeDays") THEN r2
                   ELSE IF ~TransitionReads(opts, Read(opts, "TransitionDate", "TransitionDays")) THEN r3
                   ELSE ApplyPlain(r4, opts)
        /\ EditedTo(opts)

Next ==
    \/ \E opts \in Creations : ToILMRule(opts)
    \/ \E opts \in Edits : ApplyRuleFields(opts)

Spec == Init /\ [][Next]_vars

-----------------------------------------------------------------------------
\* "if there are tags, the prefix must go into the And field, and the Prefix
\* field must be empty": with tags under And the Prefix field is empty, and the
\* prefix is in one of the two places and is the one last asked for.  The code
\* means the tags under And: a tag in its own field does not move the prefix.
PrefixAsAsked ==
    LET f == rule.filter
    IN  /\ f.prefix = "" \/ (f.and.prefix = "" /\ f.and.tags = <<>>)
        /\ asked.prefix \in {f.prefix, f.and.prefix}
        /\ asked.prefix # "" \/ (f.prefix = "" /\ f.and.prefix = "")

\* The other predicates.  The tags under And are those last asked for, unless
\* the rule was made with a single tag and no edit has asked for others.  That
\* single tag has a field of its own, and there it stays beside the tags of any
\* edit (against "If src has tags, it should override the destination").  The
\* sizes are those the rule was made with, where they were put: an edit does
\* not look at its sizes.
OthersAsAsked ==
    LET f == rule.filter
    IN  /\ f.and.tags = asked.tags \/ (f.and.tags = <<>> /\ asked.tags = asked.alone)
        /\ f.tag = IF asked.alone = <<>> THEN "" ELSE asked.alone[1]
        /\ <<f.lt, f.and.lt, f.gt, f.and.gt>> \in {<<asked.lt, 0, asked.gt, 0>>, <<0, asked.lt, 0, asked.gt>>}

\* "only one of expiration day, date or transition day, date is expected": a
\* date excludes days and, for an expiration, the delete marker.  Days do not
\* exclude the marker: an edit by days keeps one that was there, although its
\* comment says "reset everything else".
DateAlone ==
    /\ rule.expiration.date = 0 \/ (rule.expiration.days = 0 /\ ~rule.expiration.marker)
    /\ rule.transition.date = 0 \/ rule.transition.days = 0

\* However a rule is edited after ToILMRule has validated it, in one call of
\* ApplyRuleFields or several, with errors that leave an edit half applied or
\* not: every predicate of its filter is accounted for by what was asked last or,
\* for a single tag and the sizes, at first; and a date stands alone.
RuleAsAsked == PrefixAsAsked /\ OthersAsAsked /\ DateAlone
============================================================================
