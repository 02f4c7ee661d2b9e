---------------------------- MODULE MCLibraries ----------------------------
(***************************************************************************)
(* The inputs of the sequential packages for TLC.  wildcard gets patterns  *)
(* that hold two stars with a segment between them and a '?' behind        *)
(* either; rng a stream that ends inside a lane of its second block.       *)
(***************************************************************************)
EXTENDS Libraries, TLC

MCSizes == {-1, 7}   \* rng: endless, or the end inside a lane

-----------------------------------------------------------------------------
(* ellipses: up to three pieces, among them stray braces, ranges whose     *)
(* numbers have different widths and bases, empty ranges and lists         *)

Between(a, b) == <<"{">> \o a \o <<"...">> \o b \o <<"}">>

Pieces ==
    {<<"-">>, <<"{">>, <<"}">>, <<"...">>}
    \cup {Between(a, b) : a \in {<<"1">>, <<"0", "9">>, <<"0", "f">>, <<>>},
                          b \in {<<"2">>, <<"1", "0">>, <<"0">>, <<"z">>, <<"0", "1", "1">>}}

Lists ==
    {<<"-">>, <<"{">>, <<"}">>, <<"{", "1", ",", "a", "}">>, <<"{", "1", "0", "}">>, <<"{", "1", "}">>,
     <<"{", "a", ",", ",", "b", "}">>, <<"{", "a", ",", "b", ",", "1", "}">>}

UpToThree(parts) ==
    parts \cup {a \o b : a, b \in parts} \cup {a \o b \o c : a, b, c \in parts}

MCArgs == {[list |-> FALSE, text |-> t] : t \in UpToThree(Pieces)}
          \cup {[list |-> TRUE, text |-> t] : t \in UpToThree(Lists)}

-----------------------------------------------------------------------------
(* ilm: rules of one, two or three options, edited twice by one or two *)

Option(field, values) == {field :> v : v \in values}

FilterOptions ==
    Option("Prefix", {"", "p", "q"}) \cup Option("Tags", {<<>>, <<"", "">>, <<"t">>, <<"t", "u">>})
    \cup Option("SizeLess", {1}) \cup Option("SizeGreater", {1})

TimeOptions ==
    Option("ExpiryDate", {<<>>, <<0>>, <<1>>, <<3>>}) \cup Option("ExpiryDays", {<<0>>, <<1>>, <<-1>>})
    \cup Option("ExpiredMarker", {TRUE})
    \cup Option("TransitionDate", {<<>>, <<1>>, <<3>>}) \cup Option("TransitionDays", {<<-1>>, <<29>>})

OtherOptions ==
    Option("PurgeDays", {<<0>>, <<-1>>, <<1>>}) \cup Option("PurgeMarker", {TRUE})
    \cup Option("StorageClass", {"warm", "standard_ia"}) \cup Option("Status", {FALSE})
    \cup Option("NoncurrentExpiryDays", {-1, 1}) \cup Option("NewerExpiry", {1})
    \cup Option("NoncurrentTransitionDays", {1}) \cup Option("NewerTransition", {1}) \cup Option("NoncurrentClass", {"warm"})

MCCreations ==
    {a @@ b : a, b \in FilterOptions \cup TimeOptions \cup OtherOptions}
    \cup {a @@ b @@ c : a \in Option("StorageClass", {"warm", "standard_ia"}), b \in TimeOptions, c \in TimeOptions}
    \cup {a @@ b @@ c : a \in FilterOptions, b \in FilterOptions, c \in Option("ExpiryDays", {<<1>>})}

MCEdits ==
    FilterOptions \cup TimeOptions \cup {a @@ b : a \in FilterOptions, b \in FilterOptions}
    \cup {a @@ b : a \in Option("Tags", {<<"t">>}), b \in TimeOptions}
    \cup Option("PurgeDays", {<<0>>, <<1>>}) \cup Option("StorageClass", {"warm"}) \cup Option("Status", {FALSE})
============================================================================
