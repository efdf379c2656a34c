------------------------------- MODULE MCReading -------------------------------
(***************************************************************************)
(* Every text and every template, one after the other.                     *)
(***************************************************************************)
EXTENDS Template, CommandLine, Text

AllChars == {"a", " ", "\t", "\n", "\r", "\\", "\"", "'", ",", "~", "/", "%2F", "%20"}

Init == TextInit /\ TmplInit

Next ==
    \/ /\ stage = "idle"
       /\ \E c \in Chars : Grow(c)
       /\ UNCHANGED tmplVars
    \/ /\ text = <<>>
       /\ TmplNext
       /\ UNCHANGED text

Spec == Init /\ [][Next]_<<text, tmplVars>>
=============================================================================
