---------------------------------- MODULE Text ---------------------------------
(***************************************************************************)
(* The values that the syntax of a template lists (configuration.cc), with *)
(* trim (common.cc) and StrProc::get (rl_str_proc.cc) on top of Strings.   *)
(***************************************************************************)
EXTENDS Strings, SequencesExt

Blank == {" ", "\t"}

trim(s) ==
    LET kept == {i \in 1 .. Len(s) : s[i] \notin Blank}
    IN  IF kept = {} THEN <<>> ELSE SubSeq(s, Min(kept), Max(kept))

\* Pieces from the i-th on with a space between.
getFrom(p, i) ==
    IF i > Len(p) THEN <<>>
    ELSE Tail(FlattenSeq([k \in 1 .. Len(p) - i + 1 |-> <<" ">> \o p[k + i - 1]]))

-----------------------------------------------------------------------------
(***************************************************************************)
(* The values of a template's syntax, "... in "a", "b"; ...".              *)
(***************************************************************************)
\* Mutant: what follows the semicolon is looked at as well.
BeforeSemicolon_all(p) == p

\* The pieces up to the one with a semicolon, without the rest of that.
BeforeSemicolon(p) ==
    LET at == {i \in DOMAIN p : Contains(p[i], ";")}
        last == Min(at)
    IN  IF at = {} THEN p
        ELSE Append(SubSeq(p, 1, last - 1), SubSeq(p[last], 1, Find(p[last], <<";">>, 1) - 1))

Unquoted(s) ==
    LET p == Max({i \in DOMAIN s : s[i] = "\""})
    IN  IF s # <<>> /\ s[1] = "\"" /\ p # 1 THEN SubSeq(s, 2, p - 1) ELSE s

syntax_enum(value) ==
    LET p == StrProc(value, <<" ">>)
        list == BeforeSemicolon(StrProc(getFrom(p, 4), <<",">>))
    IN  IF Len(p) > 3 /\ get(p, 3) = <<"i", "n">>
        THEN {Unquoted(trim(list[i])) : i \in DOMAIN list} \ {<<>>}
        ELSE {}

-----------------------------------------------------------------------------
(***************************************************************************)
(* Reference definitions.                                                  *)
(***************************************************************************)
\* A list of values as templates write it, with the message that follows.
Syntax(values) ==
    <<"v", " ", "v", " ", "i", "n", " ">>
        \o Tail(FlattenSeq([i \in DOMAIN values |-> <<",", "\"">> \o values[i] \o <<"\"">>]))
        \o <<";", " ", "m", ",", " ", "m">>

-----------------------------------------------------------------------------
\* The values that a template lists are the ones that are offered
\* (configuration.cc:301-342), with the spaces inside them.
EnumRight ==
    LET values == Split(text, ",")
    IN  /\ text # <<>> /\ Free(text, {"~", "\t", "\n", "\""})
        /\ \A i \in 1 .. Len(text) - 1 : ~(text[i] = " " /\ text[i + 1] = " ")
        => syntax_enum(Syntax(values)) = ToSet(NonEmpty(values))
=============================================================================
