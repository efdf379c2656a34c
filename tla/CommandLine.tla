------------------------------ MODULE CommandLine ------------------------------
(***************************************************************************)
(* The path of a URL becomes a command line, and this the arguments of     *)
(* opc: translate_rest_to_cli (common.cc) in the worker, tokenizeOpCmd     *)
(* (chunker2_processor.cc) in the daemon.                                  *)
(***************************************************************************)
EXTENDS Strings

\* curl_easy_unescape
unescape(s) == [i \in DOMAIN s |-> CASE s[i] = "%2F" -> "/"
                                     [] s[i] = "%20" -> " "
                                     [] OTHER -> s[i]]

Enclosed(t, q) == t # <<>> /\ t[1] = q /\ t[Len(t)] = q

\* A component that is not the first, in single quotes.
Quoted(t) ==
    IF Enclosed(t, "'") THEN t
    ELSE IF Enclosed(t, "\"") THEN <<"'">> \o SubSeq(t, 2, Len(t) - 1) \o <<"'">>
    ELSE <<"'">> \o t \o <<"'">>

\* The last n characters.
Behind(s, n) == SubSeq(s, Len(s) - n + 1, Len(s))

\* The components of a path behind its first slash; words[n] is what becomes of
\* the last n characters.
Words(s) ==
    LET words[n \in 0 .. Len(s)] ==
          LET path == Behind(s, n)
              next == Find(path, <<"/">>, 1)
              word(t) == <<" ">> \o Quoted(unescape(t))
          IN  IF next = 0 THEN word(path)
              ELSE word(SubSeq(path, 1, next - 1)) \o words[n - next]
    IN  words[Len(s)]

\* Mutant: the whole is unescaped first.
translate_rest_to_cli_early(s) ==
    LET u == unescape(s)
        first == Find(u, <<"/">>, 2)
    IN  IF first = 0 THEN <<>>
        ELSE SubSeq(u, 1, first - 1) \o Words(SubSeq(u, first + 1, Len(u)))

\* The first component is left as it is; a path without a slash gives nothing.
translate_rest_to_cli(s) ==
    LET first == Find(s, <<"/">>, 2)
    IN  IF first = 0 THEN <<>>
        ELSE SubSeq(s, 1, first - 1) \o Words(SubSeq(s, first + 1, Len(s)))

\* A quote at the start of a word takes it up to the next quote, spaces included.
\* Without a next one the loop starts again with the first word.
tokenizeOpCmd(s) ==
    LET words[n \in 0 .. Len(s)] ==
          LET cmd == Behind(s, n)
              space == Find(cmd, <<" ">>, 1)
              close == Find(cmd, <<"'">>, 2)
              quoted == cmd # <<>> /\ cmd[1] = "'"
              upto(i) == IF i = 0 THEN n ELSE i - 1
              word == IF quoted THEN SubSeq(cmd, 2, upto(close))
                      ELSE SubSeq(cmd, 1, upto(space))
          IN  IF space = 0 THEN IF word \in {<<>>, <<"'", "'">>} THEN <<>> ELSE <<word>>
              ELSE IF quoted THEN <<word>> \o words[IF close = 0 THEN Len(s) ELSE n - close]
              ELSE (IF word = <<>> THEN <<>> ELSE <<word>>) \o words[n - space]
    IN  words[Len(s)]

\* writer gives opc the words in a JSON array, which takes no empty one; they
\* are put between quotes as they are.
OpcArgs(cmd) ==
    LET words == NonEmpty(tokenizeOpCmd(cmd))
    IN  [i \in DOMAIN words |-> JsonValue(words[i])]

-----------------------------------------------------------------------------
\* A component as the user meant it: a pair of double quotes is not part of it.
Meant(t) ==
    LET u == unescape(t)
    IN  IF Enclosed(u, "\"") THEN SubSeq(u, 2, Len(u) - 1) ELSE u

\* The arguments that opc gets are the components of the URL: what the worker
\* quotes (common.cc:421-464) the daemon takes apart again
\* (chunker2_processor.cc:181-218), encoded slashes and spaces included.  Left
\* out are components with single quotes or with what JSON would escape, and
\* paths of one component.
ArgumentsArrive ==
    LET c == Split(text, "/")
    IN  /\ Len(c) > 1 /\ c[1] # <<>>
        /\ Free(text, {"'", " "}) /\ Free(c[1], {"\""})
        /\ \A i \in DOMAIN c : Free(Meant(c[i]), {"\"", "\\", "\n", "\r", "\t"})
        => OpcArgs(translate_rest_to_cli(text))
             = NonEmpty(<<c[1]>> \o [i \in 1 .. Len(c) - 1 |-> Meant(c[i + 1])])
=============================================================================
