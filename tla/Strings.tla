-------------------------------- MODULE Strings --------------------------------
(***************************************************************************)
(* The text conversions of the server, on sequences of characters: StrProc *)
(* (rl_str_proc.cc), mass_replace (common.cc), and what the handlers do    *)
(* with output and messages.  The variable is a text from outside, which   *)
(* grows by a character at a time, so that every text up to MaxText is     *)
(* looked at.                                                              *)
(***************************************************************************)
EXTENDS Integers, Sequences, FiniteSetsExt

CONSTANTS
    Chars,      \* characters; "%2F" and "%20" are a character of a URL each
    MaxText     \* bound: length of a text

VARIABLE text

TextInit == text = <<>>

Grow(c) == Len(text) < MaxText /\ text' = Append(text, c)

TextSpec == TextInit /\ [][\E c \in Chars : Grow(c)]_text

-----------------------------------------------------------------------------
Find(s, v, from) ==
    LET at == {j \in from .. Len(s) - Len(v) + 1 : SubSeq(s, j, j + Len(v) - 1) = v}
    IN  IF at = {} THEN 0 ELSE Min(at)

\* The search goes on behind the replacement: rest[n] is what becomes of the last
\* n characters.
mass_replace(s, v, r) ==
    LET rest[n \in 0 .. Len(s)] ==
          LET from == Len(s) - n + 1
              j == Find(s, v, from)
          IN  IF j = 0 THEN SubSeq(s, from, Len(s))
              ELSE SubSeq(s, from, j - 1) \o r \o rest[Len(s) - j - Len(v) + 1]
    IN  rest[Len(s)]

-----------------------------------------------------------------------------
(***************************************************************************)
(* StrProc: tabs are four spaces, a newline that is the only one goes, the *)
(* token becomes ~, and the pieces between are kept unless they are empty. *)
(***************************************************************************)
\* pieces[n]: those of the last n characters.
Pieces(s) ==
    LET pieces[n \in 0 .. Len(s)] ==
          LET start == {i \in Len(s) - n + 1 .. Len(s) : s[i] # "~"}
              end == Find(s, <<"~">>, Min(start))
          IN  IF start = {} THEN <<>>
              ELSE IF end = 0 THEN <<SubSeq(s, Min(start), Len(s))>>
              ELSE <<SubSeq(s, Min(start), end - 1)>> \o pieces[Len(s) - end]
    IN  pieces[Len(s)]

Newlines(s) == {i \in DOMAIN s : s[i] = "\n"}

Without(s, n) == SubSeq(s, 1, n - 1) \o SubSeq(s, n + 1, Len(s))

\* Mutant: the first newline goes, whether there are more or not.
OnlyNewline_first(s) == IF Newlines(s) # {} THEN Without(s, Min(Newlines(s))) ELSE s

OnlyNewline(s) ==
    IF \E n \in Newlines(s) : Newlines(s) = {n} THEN Without(s, Min(Newlines(s))) ELSE s

\* Mutant: the newline at the end of a line is not taken off.
StrProc_line(s, token) ==
    Pieces(mass_replace(mass_replace(s, <<"\t">>, <<" ", " ", " ", " ">>), token, <<"~">>))

StrProc(s, token) ==
    Pieces(mass_replace(OnlyNewline(mass_replace(s, <<"\t">>, <<" ", " ", " ", " ">>)),
                        token, <<"~">>))

get(p, i) == IF i <= Len(p) THEN p[i] ELSE <<>>

\* Mode::handle_cmd_output: what a program prints has headers if there is the
\* end of them.
handle_cmd_output(out) ==
    LET pos == Find(out, <<"\r", "\n", "\n">>, 1)
    IN  IF pos = 0 THEN [headers |-> <<>>, body |-> out]
        ELSE [headers |-> StrProc(SubSeq(out, 1, pos - 1), <<"\n">>),
              body |-> SubSeq(out, pos + 3, Len(out))]

-----------------------------------------------------------------------------
(***************************************************************************)
(* Output becomes the value of a JSON answer in ConfMode::process.         *)
(***************************************************************************)
Escape(s, c, e) == mass_replace(s, <<c>>, <<"\\", e>>)

\* Mutant: backslashes are escaped after the quotes.
execute_message_late(s) ==
    Escape(Escape(Escape(Escape(Escape(s, "\"", "\""), "\\", "\\"), "\r", "r"), "\n", "n"), "\t", "t")

\* What load, merge, save to a file and show print.
execute_message(s) ==
    Escape(Escape(Escape(Escape(Escape(s, "\\", "\\"), "\"", "\""), "\r", "r"), "\n", "n"), "\t", "t")

\* What commit and save, and a command that fails, print.
commit_message(s) == Escape(Escape(s, "\"", "\""), "\n", "n")

\* A JSON reader takes a character of a string, perhaps behind a backslash; "bad"
\* is for what is no JSON string.
JsonStep(a, c) ==
    IF a.esc THEN
      [esc |-> FALSE,
       out |-> Append(a.out, CASE c = "n" -> "\n" [] c = "r" -> "\r"
                               [] c = "t" -> "\t" [] c \in {"\\", "\""} -> c
                               [] OTHER -> "bad")]
    ELSE IF c = "\\" THEN [esc |-> TRUE, out |-> a.out]
    ELSE [esc |-> FALSE,
          out |-> Append(a.out, IF c \in {"\"", "\n", "\r", "\t"} THEN "bad" ELSE c)]

JsonStart == [esc |-> FALSE, out |-> <<>>]

JsonEnd(s) ==
    LET after[i \in 0 .. Len(s)] == IF i = 0 THEN JsonStart ELSE JsonStep(after[i - 1], s[i])
    IN  after[Len(s)]

\* What it makes of the characters between two quotes.
JsonValue(s) ==
    IF JsonEnd(s).esc THEN Append(JsonEnd(s).out, "bad") ELSE JsonEnd(s).out

-----------------------------------------------------------------------------
(***************************************************************************)
(* Reference definitions.                                                  *)
(***************************************************************************)
\* A character more in the last field.
Extend(f, c) == Append(SubSeq(f, 1, Len(f) - 1), Append(f[Len(f)], c))

SplitStep(f, c, sep) == IF c = sep THEN Append(f, <<>>) ELSE Extend(f, c)

\* All the fields of s, the empty ones, too.
Split(s, sep) ==
    LET fields[i \in 0 .. Len(s)] ==
          IF i = 0 THEN << <<>> >> ELSE SplitStep(fields[i - 1], s[i], sep)
    IN  fields[Len(s)]

Keep(g, f) == IF f = <<>> THEN g ELSE Append(g, f)

NonEmpty(fields) ==
    LET kept[i \in 0 .. Len(fields)] == IF i = 0 THEN <<>> ELSE Keep(kept[i - 1], fields[i])
    IN  kept[Len(fields)]

Free(s, cs) == \A i \in DOMAIN s : s[i] \notin cs

-----------------------------------------------------------------------------
\* The fields of a session record are read back from its line at their places
\* (authsession.cc:224-309), the last one also when it is empty; the newline of
\* the line is no part of it.  An empty field before that moves the others.
FieldsKept ==
    LET f == Split(text, ",")
        p == StrProc(Append(text, "\n"), <<",">>)
    IN  Free(text, {"~", "\t", "\n"}) /\ (\A i \in 1 .. Len(f) - 1 : f[i] # <<>>)
        => \A i \in 1 .. Len(f) + 1 : get(p, i) = IF i <= Len(f) THEN f[i] ELSE <<>>

\* The headers that a program prints are read line by line and its body is what
\* follows them (mode.cc:117-158), but for exactly two lines of headers, whose
\* newline is taken for the end of one.
LinesKept ==
    /\ Free(text, {"~", "\t"}) /\ Find(text, <<"\r", "\n", "\n">>, 1) = 0
    /\ \A n \in Newlines(text) : Newlines(text) # {n}
    => handle_cmd_output(text \o <<"\r", "\n", "\n">> \o text)
         = [headers |-> NonEmpty(Split(text, "\n")), body |-> text]

\* What the client reads in the message is what the program printed
\* (confmode.cc:715-722); commit and save need output without backslashes,
\* returns and tabs for that (confmode.cc:637-638).
MessageExact ==
    /\ JsonValue(execute_message(text)) = text
    /\ Free(text, {"\\", "\r", "\t"}) => JsonValue(commit_message(text)) = text
=============================================================================
