------------------------------ MODULE ConfProofs -------------------------------
(***************************************************************************)
(* Proofs about configuration mode: the sessions of ConfSession, for any   *)
(* users, sessions, descriptions, values and faults, and the templates of  *)
(* Template, for any set of keys.                                          *)
(***************************************************************************)
EXTENDS ConfSession, Template, TLAPS

-----------------------------------------------------------------------------
(***************************************************************************)
(* Templates.  While the map is read, whatever the order in which its      *)
(* entries come, the parameters are a function of the set of entries that  *)
(* have been read; the corrections behind the loop work on that.           *)
(***************************************************************************)
ParamSet ==
    [multi : BOOLEAN, end : BOOLEAN, mandatory : BOOLEAN, type : {None, "ipv4", "ipv4net"},
     enum : SUBSET {"syntax", "allowed"}, help : BOOLEAN, val_help : BOOLEAN,
     secret : BOOLEAN, action : BOOLEAN]

\* The longer name comes first in the order in which names are looked for.
LEMMA TypeFound == TypeOf("ipv4net") = "ipv4net" /\ TypeOf("ipv4") = "ipv4"
<1>1. DOMAIN TypeOrder = 1 .. 8 /\ TypeOrder[2] = "ipv4net" /\ TypeOrder[3] = "ipv4"
  BY DEF TypeOrder
<1>2. \A i \in 1 .. 8 : TypeOrder[i] = "ipv4net" => i = 2
  BY DEF TypeOrder
<1>3. \A i \in 1 .. 8 : TypeOrder[i] = "ipv4" => i = 3
  BY DEF TypeOrder
<1>4. {i \in DOMAIN TypeOrder : Has("ipv4net", TypeOrder[i])} = {2, 3}
  BY <1>1, <1>2, <1>3 DEF Has
<1>5. {i \in DOMAIN TypeOrder : Has("ipv4", TypeOrder[i])} = {3}
  BY <1>1, <1>2, <1>3 DEF Has
<1>6. /\ (CHOOSE i \in {2, 3} : \A j \in {2, 3} : i <= j) = 2
      /\ (CHOOSE i \in {3} : \A j \in {3} : i <= j) = 3
  OBVIOUS
<1>7. QED
  BY <1>1, <1>4, <1>5, <1>6 DEF TypeOf

\* What an entry adds.
LEMMA EntryAdds ==
    ASSUME tmpl \in Templates, NEW p \in ParamSet, NEW k \in tmpl.keys
    PROVE  LET q == Entry(k, p) IN
           /\ q \in ParamSet
           /\ q.multi <=> p.multi \/ k \in {"tag", "multi"}
           /\ q.end <=> p.end \/ k = "multi"
           /\ q.mandatory <=> p.mandatory \/ (k = "help" /\ tmpl.required)
           /\ q.type = IF k = "type" THEN tmpl.type ELSE p.type
           /\ q.enum = p.enum \cup (IF k = "syntax" THEN {"syntax"} ELSE {})
           /\ q.help <=> p.help \/ k = "help"
           /\ q.val_help <=> p.val_help \/ k = "val_help"
           /\ q.secret <=> p.secret \/ k = "secret"
           /\ q.action <=> p.action \/ k = "run"
<1> DEFINE q == Entry(k, p)
<1>0. /\ tmpl.required \in BOOLEAN
      /\ k = "type" => tmpl.type \in {"ipv4", "ipv4net"}
  BY DEF Templates, None
<1>1. CASE k = "tag"
  <2>1. q = [p EXCEPT !.multi = TRUE]
    BY <1>1 DEF Entry
  <2>2. QED
    BY <1>1, <2>1, Zenon DEF ParamSet
<1>2. CASE k = "multi"
  <2>1. q = [p EXCEPT !.multi = TRUE, !.end = TRUE]
    BY <1>2 DEF Entry
  <2>2. QED
    BY <1>2, <2>1, Zenon DEF ParamSet
<1>3. CASE k = "type"
  <2>1. q = [p EXCEPT !.type = tmpl.type]
    BY <1>0, <1>3, TypeFound DEF Entry
  <2>2. QED
    BY <1>0, <1>3, <2>1 DEF ParamSet
<1>4. CASE k = "help"
  <2>1. q = [p EXCEPT !.help = TRUE, !.mandatory = p.mandatory \/ tmpl.required]
    BY <1>4 DEF Entry
  <2>2. QED
    BY <1>0, <1>4, <2>1, ZenonT(40) DEF ParamSet
<1>5. CASE k = "val_help"
  <2>1. q = [p EXCEPT !.val_help = TRUE]
    BY <1>5 DEF Entry
  <2>2. QED
    BY <1>5, <2>1, Zenon DEF ParamSet
<1>6. CASE k = "syntax"
  <2>1. q = [p EXCEPT !.enum = p.enum \cup {"syntax"}]
    BY <1>6 DEF Entry
  <2>2. QED
    BY <1>6, <2>1 DEF ParamSet
<1>7. CASE k = "secret"
  <2>1. q = [p EXCEPT !.secret = TRUE]
    BY <1>7 DEF Entry
  <2>2. QED
    BY <1>7, <2>1, Zenon DEF ParamSet
<1>8. CASE k = "run"
  <2>1. q = [p EXCEPT !.action = TRUE]
    BY <1>8 DEF Entry
  <2>2. QED
    BY <1>8, <2>1, Zenon DEF ParamSet
<1>9. CASE k \notin {"tag", "multi", "type", "help", "val_help", "syntax", "secret", "run"}
  <2>1. q = p
    BY <1>9 DEF Entry
  <2>2. QED
    BY <1>9, <2>1
<1>10. QED
  BY <1>1, <1>2, <1>3, <1>4, <1>5, <1>6, <1>7, <1>8, <1>9

\* The parameters after the entries of R.
Reads(R) ==
    /\ params.multi <=> {"tag", "multi"} \cap R # {}
    /\ params.end <=> "multi" \in R \/ (~tmpl.children /\ Known \cap R # {})
    /\ params.mandatory <=> "help" \in R /\ tmpl.required
    /\ params.type = IF "type" \in R THEN tmpl.type ELSE None
    /\ params.enum = IF "syntax" \in R THEN {"syntax"} ELSE {}
    /\ params.help <=> "help" \in R
    /\ params.val_help <=> "val_help" \in R
    /\ params.secret <=> "secret" \in R
    /\ params.action <=> "run" \in R

\* A value of a tag that is not the last node: the correction applies.
HasMany == {"tag", "multi"} \cap tmpl.keys # {}
Ends == "multi" \in tmpl.keys \/ (~tmpl.children /\ Known \cap tmpl.keys # {})
Container == "is_value" \in tmpl.keys /\ HasMany /\ ~Ends
Says(key) == key \in tmpl.keys /\ ~Container

\* The parameters in the end.
Told ==
    /\ params.multi <=> HasMany /\ ~Container
    /\ params.end <=> Ends \/ (Says("type") /\ ~HasMany)
    /\ params.mandatory <=> "help" \in tmpl.keys /\ tmpl.required
    /\ params.type = IF Says("type") THEN tmpl.type ELSE None
    /\ params.enum = (IF Says("syntax") THEN {"syntax"} ELSE {})
                        \cup (IF tmpl.offers /\ ~Container THEN {"allowed"} ELSE {})
    /\ params.help <=> Says("help")
    /\ params.val_help <=> Says("val_help")
    /\ params.secret <=> "secret" \in tmpl.keys
    /\ params.action <=> "run" \in tmpl.keys

TmplInv ==
    /\ tmpl \in Templates
    /\ left \subseteq tmpl.keys
    /\ params \in ParamSet
    /\ stage = "idle" => params = NoParams
    /\ stage = "read" /\ tmpl.kind = "conf" => Reads(tmpl.keys \ left)
    /\ stage = "done" /\ tmpl.kind = "conf" => Told
    /\ stage = "done" /\ tmpl.kind = "op" => params.end = ~tmpl.children

LEMMA NoTmplIsTemplate == NoTmpl \in Templates /\ NoParams \in ParamSet
BY DEF NoTmpl, Templates, NoParams, ParamSet

LEMMA ReadKept ==
    ASSUME TmplInv, NEW k \in Keys, ReadEntry(k)
    PROVE  TmplInv'
<1> DEFINE q == Entry(k, params)
           R == tmpl.keys \ left
           S == tmpl.keys \ left'
<1>0. /\ stage = "read" /\ tmpl.kind = "conf" /\ k \in left
      /\ left' = left \ {k} /\ UNCHANGED <<stage, tmpl>>
      /\ params' = IF k \in Known /\ ~tmpl.children THEN [q EXCEPT !.end = TRUE] ELSE q
  BY DEF ReadEntry
<1>1. /\ tmpl \in Templates /\ params \in ParamSet /\ k \in tmpl.keys /\ Reads(R)
  BY <1>0 DEF TmplInv
<1>2. /\ q \in ParamSet
      /\ q.multi <=> params.multi \/ k \in {"tag", "multi"}
      /\ q.end <=> params.end \/ k = "multi"
      /\ q.mandatory <=> params.mandatory \/ (k = "help" /\ tmpl.required)
      /\ q.type = IF k = "type" THEN tmpl.type ELSE params.type
      /\ q.enum = params.enum \cup (IF k = "syntax" THEN {"syntax"} ELSE {})
      /\ q.help <=> params.help \/ k = "help"
      /\ q.val_help <=> params.val_help \/ k = "val_help"
      /\ q.secret <=> params.secret \/ k = "secret"
      /\ q.action <=> params.action \/ k = "run"
  BY <1>1, EntryAdds
<1> HIDE DEF q
<1>3. /\ params' \in ParamSet
      /\ params'.multi <=> q.multi
      /\ params'.end <=> q.end \/ (k \in Known /\ ~tmpl.children)
      /\ params'.mandatory <=> q.mandatory
      /\ params'.type = q.type /\ params'.enum = q.enum
      /\ params'.help <=> q.help
      /\ params'.val_help <=> q.val_help
      /\ params'.secret <=> q.secret
      /\ params'.action <=> q.action
  <2>1. CASE k \in Known /\ ~tmpl.children
    <3>1. params' = [q EXCEPT !.end = TRUE]
      BY <1>0, <2>1
    <3>2. QED
      BY <1>2, <2>1, <3>1, Zenon DEF ParamSet
  <2>2. CASE ~(k \in Known /\ ~tmpl.children)
    BY <1>0, <1>2, <2>2
  <2>3. QED
    BY <2>1, <2>2
<1>4. S = R \cup {k}
  BY <1>0, <1>1
<1> HIDE DEF R, S
<1>5. /\ params'.multi <=> {"tag", "multi"} \cap S # {}
      /\ params'.end <=> "multi" \in S \/ (~tmpl.children /\ Known \cap S # {})
  BY <1>1, <1>2, <1>3, <1>4 DEF Reads
<1>6. /\ params'.mandatory <=> "help" \in S /\ tmpl.required
      /\ params'.help <=> "help" \in S
      /\ params'.val_help <=> "val_help" \in S
      /\ params'.secret <=> "secret" \in S
      /\ params'.action <=> "run" \in S
  BY <1>1, <1>2, <1>3, <1>4 DEF Reads
<1>7. /\ params'.type = IF "type" \in S THEN tmpl.type ELSE None
      /\ params'.enum = IF "syntax" \in S THEN {"syntax"} ELSE {}
  BY <1>1, <1>2, <1>3, <1>4 DEF Reads
<1>8. S = (tmpl.keys \ left)'
  BY <1>0 DEF S
<1>9. Reads(tmpl.keys \ left)'
  BY <1>0, <1>5, <1>6, <1>7, <1>8 DEF Reads
<1>10. QED
  BY <1>0, <1>1, <1>3, <1>9 DEF TmplInv

\* The corrections behind the loop.
LEMMA Finished ==
    ASSUME TmplInv, Finish
    PROVE  TmplInv'
<1> DEFINE a == [params EXCEPT !.enum = @ \cup (IF tmpl.offers THEN {"allowed"} ELSE {})]
           p == Workaround(a)
<1>0. /\ stage = "read" /\ tmpl.kind = "conf" /\ left = {}
      /\ stage' = "done" /\ UNCHANGED <<tmpl, left>>
      /\ params' = [p EXCEPT !.end = @ \/ (tmpl.keys # {} /\ p.type # None /\ ~p.multi)]
  BY DEF Finish
<1>1. /\ tmpl \in Templates /\ params \in ParamSet /\ Reads(tmpl.keys)
      /\ tmpl.offers \in BOOLEAN /\ (tmpl.type # None <=> "type" \in tmpl.keys)
  BY <1>0 DEF TmplInv, Templates
<1>2. /\ a \in ParamSet
      /\ a.multi <=> params.multi
      /\ a.end <=> params.end
      /\ a.mandatory <=> params.mandatory
      /\ a.type = params.type
      /\ a.enum = params.enum \cup (IF tmpl.offers THEN {"allowed"} ELSE {})
      /\ a.help <=> params.help
      /\ a.val_help <=> params.val_help
      /\ a.secret <=> params.secret
      /\ a.action <=> params.action
  BY <1>1 DEF ParamSet
<1> HIDE DEF a
<1>3. Container <=> "is_value" \in tmpl.keys /\ a.multi /\ ~a.end
  BY <1>1, <1>2 DEF Container, HasMany, Ends, Reads
<1>4. /\ p \in ParamSet
      /\ p.multi <=> a.multi /\ ~Container
      /\ p.end <=> a.end
      /\ p.mandatory <=> a.mandatory
      /\ p.type = IF Container THEN None ELSE a.type
      /\ p.enum = IF Container THEN {} ELSE a.enum
      /\ p.help <=> a.help /\ ~Container
      /\ p.val_help <=> a.val_help /\ ~Container
      /\ p.secret <=> a.secret
      /\ p.action <=> a.action
  <2>1. CASE Container
    <3>1. p = [a EXCEPT !.type = None, !.enum = {}, !.val_help = FALSE, !.help = FALSE,
                        !.multi = FALSE]
      BY <1>3, <2>1 DEF Workaround
    <3>2. QED
      BY <1>2, <2>1, <3>1, ZenonT(40) DEF ParamSet
  <2>2. CASE ~Container
    <3>1. p = a
      BY <1>3, <2>2 DEF Workaround
    <3>2. QED
      BY <1>2, <2>2, <3>1
  <2>3. QED
    BY <2>1, <2>2
<1> HIDE DEF p
<1>5. /\ params' \in ParamSet
      /\ params'.multi <=> p.multi
      /\ params'.end <=> p.end \/ (tmpl.keys # {} /\ p.type # None /\ ~p.multi)
      /\ params'.mandatory <=> p.mandatory
      /\ params'.type = p.type /\ params'.enum = p.enum
      /\ params'.help <=> p.help
      /\ params'.val_help <=> p.val_help
      /\ params'.secret <=> p.secret
      /\ params'.action <=> p.action
  <2>1. PICK e \in BOOLEAN : e <=> p.end \/ (tmpl.keys # {} /\ p.type # None /\ ~p.multi)
    BY Zenon
  <2>2. params' = [p EXCEPT !.end = e]
    BY <1>0, <1>4, <2>1
  <2>3. QED
    BY <1>4, <2>1, <2>2 DEF ParamSet
<1>6. p.type = IF Says("type") THEN tmpl.type ELSE None
  BY <1>1, <1>2, <1>4 DEF Reads, Says
<1>7. p.type # None <=> Says("type")
  BY <1>1, <1>6 DEF Says
<1>8. /\ params'.multi <=> HasMany /\ ~Container
      /\ params'.end <=> Ends \/ (Says("type") /\ ~HasMany)
  BY <1>1, <1>2, <1>4, <1>5, <1>7 DEF Reads, HasMany, Ends, Says
<1>9. /\ params'.mandatory <=> "help" \in tmpl.keys /\ tmpl.required
      /\ params'.help <=> Says("help")
      /\ params'.val_help <=> Says("val_help")
      /\ params'.secret <=> "secret" \in tmpl.keys
      /\ params'.action <=> "run" \in tmpl.keys
  BY <1>1, <1>2, <1>4, <1>5 DEF Reads, Says
<1>10. /\ params'.type = IF Says("type") THEN tmpl.type ELSE None
       /\ params'.enum = (IF Says("syntax") THEN {"syntax"} ELSE {})
                        \cup (IF tmpl.offers /\ ~Container THEN {"allowed"} ELSE {})
  BY <1>1, <1>2, <1>4, <1>5, <1>6 DEF Reads, Says
<1>11. Told'
  BY <1>0, <1>8, <1>9, <1>10 DEF Told, Says, Container, HasMany, Ends
<1>12. QED
  BY <1>0, <1>1, <1>5, <1>11 DEF TmplInv

LEMMA OpKept ==
    ASSUME TmplInv, FinishOp \/ \E k \in Keys : ReadOpEntry(k)
    PROVE  TmplInv'
<1>0. tmpl.kind = "op" /\ stage = "read" /\ UNCHANGED tmpl /\ left' \subseteq left
  BY DEF FinishOp, ReadOpEntry
<1>1. /\ tmpl \in Templates /\ params \in ParamSet /\ left \subseteq tmpl.keys
      /\ tmpl.required \in BOOLEAN /\ tmpl.children \in BOOLEAN
  BY DEF TmplInv, Templates
<1>2. CASE FinishOp
  <2>1. stage' = "done" /\ params' = [params EXCEPT !.end = ~tmpl.children]
    BY <1>2 DEF FinishOp
  <2>2. params' \in ParamSet /\ params'.end = ~tmpl.children
    BY <1>1, <2>1, Zenon DEF ParamSet
  <2>3. QED
    BY <1>0, <1>1, <2>1, <2>2 DEF TmplInv
<1>3. ASSUME NEW k \in Keys, ReadOpEntry(k)
      PROVE  TmplInv'
  <2>1. stage' = "read"
    BY <1>0, <1>3 DEF ReadOpEntry
  <2>2. PICK e \in SUBSET {"syntax", "allowed"}, m \in BOOLEAN :
            \/ params' = [params EXCEPT !.help = TRUE, !.mandatory = m]
            \/ params' = [params EXCEPT !.enum = e]
            \/ params' = [params EXCEPT !.action = TRUE]
            \/ params' = params
    <3>1. (params.mandatory \/ tmpl.required) \in BOOLEAN
      OBVIOUS
    <3>2. QED
      BY <1>3, <3>1, Zenon DEF ReadOpEntry
  <2>3. params' \in ParamSet
    <3>1. CASE params' = [params EXCEPT !.help = TRUE, !.mandatory = m]
      BY <1>1, <3>1, Zenon DEF ParamSet
    <3>2. CASE params' = [params EXCEPT !.enum = e]
      BY <1>1, <3>2 DEF ParamSet
    <3>3. CASE params' = [params EXCEPT !.action = TRUE]
      BY <1>1, <3>3, Zenon DEF ParamSet
    <3>4. QED
      BY <1>1, <2>2, <3>1, <3>2, <3>3
  <2>4. QED
    BY <1>0, <1>1, <2>1, <2>3 DEF TmplInv
<1>4. QED
  BY <1>2, <1>3

LEMMA TmplStep == TmplInv /\ [TmplNext]_tmplVars => TmplInv'
<1> SUFFICES ASSUME TmplInv, [TmplNext]_tmplVars
             PROVE  TmplInv'
  OBVIOUS
<1>1. ASSUME NEW t \in Templates, Ask(t)
      PROVE  TmplInv'
  <2>1. params = NoParams /\ params' = NoParams
    BY <1>1 DEF Ask, TmplInv
  <2>2. CASE stage' = "read" /\ tmpl' = t /\ left' = t.keys
    <3>1. (tmpl.keys \ left)' = {}
      BY <2>2
    <3>2. Reads(tmpl.keys \ left)'
      BY <2>1, <3>1 DEF Reads, NoParams
    <3>3. QED
      BY <2>1, <2>2, <3>2, NoTmplIsTemplate DEF TmplInv
  <2>3. CASE stage' = "false" /\ UNCHANGED <<tmpl, left>>
    BY <2>1, <2>3 DEF TmplInv
  <2>4. QED
    BY <1>1, <2>2, <2>3 DEF Ask
<1>2. CASE Again
  BY <1>2, NoTmplIsTemplate DEF Again, TmplInv
<1>3. CASE UNCHANGED tmplVars
  <2>1. stage' = stage /\ tmpl' = tmpl /\ left' = left /\ params' = params
    BY <1>3 DEF tmplVars
  <2>2. Reads(tmpl.keys \ left)' <=> Reads(tmpl.keys \ left)
    BY <2>1 DEF Reads
  <2>3. HasMany' = HasMany /\ Ends' = Ends
    BY <2>1, Zenon DEF HasMany, Ends
  <2>4. Container' = Container
    BY <2>1, <2>3, Zenon DEF Container
  <2>5. Told' <=> Told
    BY <2>1, <2>3, <2>4 DEF Told, Says
  <2>6. QED
    BY <2>1, <2>2, <2>5, Zenon DEF TmplInv
<1>4. QED
  BY <1>1, <1>2, <1>3, ReadKept, Finished, OpKept DEF TmplNext

LEMMA Templated == TmplSpec => []TmplInv
<1>1. TmplInit => TmplInv
  BY NoTmplIsTemplate DEF TmplInit, TmplInv
<1>2. QED
  BY <1>1, TmplStep, PTL DEF TmplSpec

\* A record of parameters is what its fields say.
LEMMA SameParams ==
    ASSUME NEW p \in ParamSet, NEW q \in ParamSet,
           p.multi <=> q.multi, p.end <=> q.end, p.mandatory <=> q.mandatory,
           p.type = q.type, p.enum = q.enum, p.help <=> q.help,
           p.val_help <=> q.val_help, p.secret <=> q.secret, p.action <=> q.action
    PROVE  p = q
BY DEF ParamSet

\* What the server makes of a template does not depend on the order in which
\* configd gives the entries, for any set of keys: the entries and the two
\* corrections behind them write the same fields, but they commute.
THEOREM EntriesCommute == TmplSpec => []OrderFree
<1>1. ASSUME TmplInv
      PROVE  OrderFree
  <2> SUFFICES ASSUME stage = "done", tmpl.kind = "conf"
               PROVE  OrderFree
    BY DEF OrderFree
  <2> DEFINE q == [multi |-> HasMany /\ ~Container,
           end |-> Ends \/ (Says("type") /\ ~HasMany),
           mandatory |-> "help" \in tmpl.keys /\ tmpl.required,
           type |-> IF Says("type") THEN tmpl.type ELSE None,
           enum |-> (IF Says("syntax") THEN {"syntax"} ELSE {})
                      \cup (IF tmpl.offers /\ ~Container THEN {"allowed"} ELSE {}),
           help |-> Says("help"), val_help |-> Says("val_help"),
           secret |-> "secret" \in tmpl.keys, action |-> "run" \in tmpl.keys]
  <2>1. params \in ParamSet /\ Told /\ tmpl \in Templates
    BY <1>1 DEF TmplInv
  <2>2. q \in ParamSet
    BY <2>1 DEF ParamSet, Templates, HasMany, Container, Ends, Says
  <2>3. /\ q.multi <=> params.multi
        /\ q.end <=> params.end
        /\ q.mandatory <=> params.mandatory
        /\ q.type = params.type /\ q.enum = params.enum
        /\ q.help <=> params.help
        /\ q.val_help <=> params.val_help
        /\ q.secret <=> params.secret
        /\ q.action <=> params.action
    BY <2>1, Zenon DEF Told
  <2> HIDE DEF q
  <2>4. params = q
    BY <2>1, <2>2, <2>3, SameParams
  <2>5. QED
    BY <2>4 DEF OrderFree, q, HasMany, Ends, Container, Says
<1>2. QED
  BY <1>1, Templated, PTL

\* A node is shown as an end exactly when there is nothing below it, for every
\* template that obeys the rules of the system's templates.
THEOREM EndsAreLeaves == TmplSpec => []EndIsLeaf
<1>1. ASSUME TmplInv
      PROVE  EndIsLeaf
  <2> SUFFICES ASSUME stage = "done", Sensible,
                      tmpl.keys \cap Known # {} \/ tmpl.kind = "op"
               PROVE  params.end = ~tmpl.children
    BY DEF EndIsLeaf
  <2>1. /\ tmpl.kind \in {"conf", "op"} /\ tmpl.children \in BOOLEAN
        /\ params.end \in BOOLEAN
    BY <1>1 DEF TmplInv, Templates, ParamSet
  <2>2. CASE tmpl.kind = "op"
    BY <1>1, <2>2 DEF TmplInv
  <2>3. CASE tmpl.kind = "conf"
    <3>1. params.end <=> Ends \/ (Says("type") /\ ~HasMany)
      BY <1>1, <2>3 DEF TmplInv, Told
    <3>2. tmpl.keys \cap Known # {}
      BY <2>3
    <3>3. params.end <=> ~tmpl.children
      BY <3>1, <3>2 DEF Ends, Says, HasMany, Sensible
    <3>4. QED
      BY <2>1, <3>3
  <2>4. QED
    BY <2>1, <2>2, <2>3
<1>2. QED
  BY <1>1, Templated, PTL

-----------------------------------------------------------------------------
(***************************************************************************)
(* Sessions.  What a request may do to the server is first brought down to *)
(* a few moves (RequestMoves); the invariants and the refinement follow    *)
(* from the moves.                                                         *)
(***************************************************************************)
EditSet == [add : SUBSET Values, del : SUBSET Values]

(***************************************************************************)
(* Moves.                                                                  *)
(***************************************************************************)
\* A session is made, in configd, as a modify file, or both; fine: both.
Opened(u, d, i, fine) ==
    /\ owner[i] = Closed /\ i \notin live
    /\ \A c \in Users : loc[c] # i
    /\ Tags \cap Ids = {} => Tagged(u, d) = {}
    /\ \/ /\ owner' = [owner EXCEPT ![i] = u]
          /\ tag' = [tag EXCEPT ![i] = d]
          /\ live' = live \cup {i}
       \/ /\ ~fine
          /\ \/ owner' = [owner EXCEPT ![i] = u] /\ tag' = [tag EXCEPT ![i] = d]
             \/ \E o \in {Nobody, Closed} :
                   owner' = [owner EXCEPT ![i] = o] /\ tag' = [tag EXCEPT ![i] = NoTag]
          /\ live' \in {live, live \cup {i}}
    /\ UNCHANGED <<edits, running>>

Edited(i) ==
    /\ i \in live
    /\ \E e \in EditSet : edits' = [edits EXCEPT ![i] = e]
    /\ UNCHANGED <<owner, tag, live, running>>

Emptied(i) ==
    /\ edits' = [edits EXCEPT ![i] = NoEdits]
    /\ UNCHANGED <<owner, tag, live, running>>

Committed(i) ==
    /\ commit(i)
    /\ UNCHANGED <<owner, tag, live>>

Ended(i) ==
    /\ edits' = [edits EXCEPT ![i] = NoEdits]
    /\ live' = live \ {i}
    /\ owner' = [owner EXCEPT ![i] = Closed]
    /\ tag' = [tag EXCEPT ![i] = NoTag]
    /\ UNCHANGED running

Changed(i) == Edited(i) \/ Emptied(i) \/ Committed(i) \/ Ended(i)

Move(u, fine) ==
    \/ UNCHANGED serverVars
    \/ \E d \in Tags \cup {NoTag}, i \in Ids : Opened(u, d, i, fine)
    \/ \E i \in Ids :
          /\ owner[i] \in {u, Nobody}
          /\ Changed(i)

\* A session that is open to u is one of its own, or one without a name.
LEMMA OwnIsOpen ==
    ASSUME TypeOK, NEW u \in Users, NEW x, NEW i \in Own(u, x)
    PROVE  /\ i \in Ids
           /\ owner[i] \in {u, Nobody}
           /\ i # x => tag[i] = x /\ x # NoTag
           /\ x \in Ids /\ owner[x] # Closed => i = x
BY ConfSessionAssumption DEF TypeOK, Own, Found, Tagged

LEMMA CreateMoves ==
    ASSUME TypeOK, NEW u \in Users, NEW d \in Tags \cup {NoTag}, NEW i \in Ids,
           NEW ok \in BOOLEAN, NEW fine \in BOOLEAN,
           Create(u, d, i, ok, fine)
    PROVE  (~ok /\ UNCHANGED serverVars) \/ Opened(u, d, i, fine)
<1>1. PICK token \in Works("token"), setup \in Works("setup"),
           create \in Works("create"), write \in Works("write") :
          /\ ok = (~DupDescription(u, d) /\ token /\ create)
          /\ IF DupDescription(u, d) \/ ~token
             THEN UNCHANGED serverVars
             ELSE /\ live' = IF setup THEN live \cup {i} ELSE live
                  /\ owner' = [owner EXCEPT ![i] = CASE ~create -> Closed
                                                     [] create /\ ~write -> Nobody
                                                     [] OTHER -> u]
                  /\ tag' = [tag EXCEPT ![i] = IF create /\ write THEN d ELSE NoTag]
                  /\ UNCHANGED <<edits, running>>
          /\ fine = (token /\ setup /\ create /\ write)
  BY Zenon DEF Create
<1>. {token, setup, create, write} \subseteq BOOLEAN
  BY Zenon DEF Works
<1>2. CASE DupDescription(u, d) \/ ~token
  BY <1>1, <1>2, Zenon
<1>3. CASE ~DupDescription(u, d) /\ token
  <2>1. owner[i] = Closed /\ i \notin live /\ \A c \in Users : loc[c] # i
    BY DEF Create
  <2>2. Tags \cap Ids = {} => Tagged(u, d) = {}
    BY <1>3, ConfSessionAssumption DEF DupDescription
  <2>3. UNCHANGED <<edits, running>>
    BY <1>1, <1>3
  <2>4. CASE setup /\ create /\ write
    BY <1>1, <1>3, <2>1, <2>2, <2>3, <2>4 DEF Opened
  <2>5. CASE ~(setup /\ create /\ write)
    <3>1. ~fine
      BY <1>1, <2>5
    <3>2. live' \in {live, live \cup {i}}
      BY <1>1, <1>3
    <3>3. \/ owner' = [owner EXCEPT ![i] = u] /\ tag' = [tag EXCEPT ![i] = d]
          \/ \E o \in {Nobody, Closed} :
                owner' = [owner EXCEPT ![i] = o] /\ tag' = [tag EXCEPT ![i] = NoTag]
      <4>1. CASE create /\ write
        BY <1>1, <1>3, <4>1
      <4>2. CASE create /\ ~write
        BY <1>1, <1>3, <4>2
      <4>3. CASE ~create
        BY <1>1, <1>3, <4>3
      <4> QED BY <4>1, <4>2, <4>3
    <3> QED BY <2>1, <2>2, <2>3, <3>1, <3>2, <3>3 DEF Opened
  <2> QED BY <2>4, <2>5
<1> QED BY <1>2, <1>3

LEMMA PutMoves ==
    ASSUME TypeOK, NEW i \in Ids, NEW verb, NEW v \in Values, NEW ok \in BOOLEAN,
           NEW fine \in BOOLEAN, Put(i, verb, v, ok, fine)
    PROVE  UNCHANGED serverVars \/ (ok /\ Edited(i))
<1>1. UNCHANGED <<owner, tag, live, running>>
  BY DEF Put
<1>2. edits' = edits \/ Cfgcli(i, verb, v, ok)
  BY DEF Put
<1>3. CASE edits' = edits
  BY <1>1, <1>3 DEF serverVars
<1>4. CASE Cfgcli(i, verb, v, ok) /\ edits' # edits
  <2>1. ok /\ i \in live
    BY <1>4 DEF Cfgcli
  <2>2. edits[i] \in EditSet
    BY DEF TypeOK, EditSet
  <2>3. edits' \in {[edits EXCEPT ![i] = [add |-> @.add \cup {v}, del |-> @.del \ {v}]],
                   [edits EXCEPT ![i] = [add |-> @.add \ {v}, del |-> @.del \cup {v}]]}
    BY <1>4 DEF Cfgcli
  <2>4. /\ [add |-> edits[i].add \cup {v}, del |-> edits[i].del \ {v}] \in EditSet
        /\ [add |-> edits[i].add \ {v}, del |-> edits[i].del \cup {v}] \in EditSet
    BY <2>2 DEF EditSet
  <2>5. \E e \in EditSet : edits' = [edits EXCEPT ![i] = e]
    BY <2>3, <2>4, Zenon
  <2> QED BY <1>1, <2>1, <2>5, Zenon DEF Edited
<1> QED BY <1>2, <1>3, <1>4

LEMMA DiscardMoves ==
    ASSUME NEW i \in Ids, NEW exit \in BOOLEAN, NEW fine \in BOOLEAN,
           discard_session(i, exit, fine), UNCHANGED running
    PROVE  UNCHANGED serverVars \/ Emptied(i) \/ Ended(i)
BY DEF discard_session, serverVars, Emptied, Ended

LEMMA CommitMoves ==
    ASSUME NEW i \in Ids, NEW ok \in BOOLEAN, NEW fine \in BOOLEAN, Commit(i, ok, fine)
    PROVE  (UNCHANGED serverVars /\ (fine => ~ok)) \/ Committed(i)
BY DEF Commit, serverVars, Committed

LEMMA LoadMoves ==
    ASSUME TypeOK, NEW i \in Ids, NEW conf \in SUBSET Values, NEW merge \in BOOLEAN,
           NEW ok \in BOOLEAN, NEW fine \in BOOLEAN, Load(i, conf, merge, ok, fine)
    PROVE  UNCHANGED serverVars \/ Edited(i)
<1>. DEFINE to == IF merge THEN Candidate(i) \cup conf ELSE conf
<1>1. UNCHANGED <<owner, tag, live, running>>
  BY DEF Load
<1>2. edits' = edits \/ (i \in live /\ edits' = [edits EXCEPT ![i] = EditsTo(to)])
  BY Zenon DEF Load
<1>3. EditsTo(to) \in EditSet
  BY DEF EditsTo, EditSet, Candidate, TypeOK
<1> QED BY <1>1, <1>2, <1>3 DEF Edited, serverVars

(***************************************************************************)
(* Steps of a user.                                                        *)
(***************************************************************************)
LEMMA SessionMoves ==
    ASSUME TypeOK, NEW u \in Users, NEW x, NEW i \in Own(u, x),
           NEW ok \in BOOLEAN, NEW fine \in BOOLEAN,
           \/ \E verb \in {"set", "delete", "comment", "unknown"}, v \in Values :
                 Put(i, verb, v, ok, fine)
           \/ Delete(i, ok, fine)
           \/ Commit(i, ok, fine)
           \/ Discard(i, ok, fine)
           \/ \E conf \in SUBSET Values, merge \in BOOLEAN : Load(i, conf, merge, ok, fine)
    PROVE  UNCHANGED serverVars \/ Changed(i)
<1>. i \in Ids
  BY OwnIsOpen
<1>1. CASE \E verb \in {"set", "delete", "comment", "unknown"}, v \in Values :
               Put(i, verb, v, ok, fine)
  BY <1>1, PutMoves DEF Changed
<1>2. CASE Delete(i, ok, fine)
  BY <1>2, DiscardMoves, Zenon DEF Delete, Changed
<1>3. CASE Commit(i, ok, fine)
  BY <1>3, CommitMoves DEF Changed
<1>4. CASE Discard(i, ok, fine)
  BY <1>4, DiscardMoves, Zenon DEF Discard, Changed
<1>5. CASE \E conf \in SUBSET Values, merge \in BOOLEAN : Load(i, conf, merge, ok, fine)
  BY <1>5, LoadMoves DEF Changed
<1> QED BY <1>1, <1>2, <1>3, <1>4, <1>5

\* A plain request: what it changes is not the session of the user's client.
LEMMA RequestMoves ==
    ASSUME TypeOK, NEW u \in Users, Request(u)
    PROVE  /\ UNCHANGED clientVars
           /\ \E fine \in BOOLEAN :
                 /\ orderly' = (orderly /\ fine)
                 /\ \/ UNCHANGED serverVars
                    \/ \E d \in Tags \cup {NoTag}, i \in Ids : Opened(u, d, i, fine)
                    \/ \E x \in Target(u) : \E i \in Own(u, x) : Changed(i)
<1>1. UNCHANGED clientVars
  BY DEF Request
<1>2. PICK ok \in BOOLEAN, fine \in BOOLEAN :
          /\ \/ \E d \in Tags \cup {NoTag}, i \in Ids : Create(u, d, i, ok, fine)
             \/ \E x \in Target(u) : Refuse(u, x, ok, fine)
             \/ \E x \in Target(u) : \E i \in Own(u, x) :
                   \/ \E verb \in {"set", "delete", "comment", "unknown"}, v \in Values :
                         Put(i, verb, v, ok, fine)
                   \/ Delete(i, ok, fine)
                   \/ Commit(i, ok, fine)
                   \/ Discard(i, ok, fine)
                   \/ \E conf \in SUBSET Values, merge \in BOOLEAN :
                         Load(i, conf, merge, ok, fine)
          /\ orderly' = (orderly /\ fine)
  BY Zenon DEF Request
<1>3. CASE \E d \in Tags \cup {NoTag}, i \in Ids : Create(u, d, i, ok, fine)
  <2>1. PICK d \in Tags \cup {NoTag}, i \in Ids : Create(u, d, i, ok, fine)
    BY <1>3
  <2>2. UNCHANGED serverVars \/ Opened(u, d, i, fine)
    BY <2>1, CreateMoves
  <2> QED BY <1>1, <1>2, <2>2, Zenon
<1>4. CASE \E x \in Target(u) : Refuse(u, x, ok, fine)
  <2>1. UNCHANGED serverVars
    BY <1>4 DEF Refuse
  <2> QED BY <1>1, <1>2, <2>1, Zenon
<1>5. CASE \E x \in Target(u) : \E i \in Own(u, x) :
                   \/ \E verb \in {"set", "delete", "comment", "unknown"}, v \in Values :
                         Put(i, verb, v, ok, fine)
                   \/ Delete(i, ok, fine)
                   \/ Commit(i, ok, fine)
                   \/ Discard(i, ok, fine)
                   \/ \E conf \in SUBSET Values, merge \in BOOLEAN :
                         Load(i, conf, merge, ok, fine)
  <2>1. \E x \in Target(u) : \E i \in Own(u, x) : UNCHANGED serverVars \/ Changed(i)
    BY <1>5, SessionMoves, Zenon
  <2> QED BY <1>1, <1>2, <2>1, Zenon
<1> QED BY <1>2, <1>3, <1>4, <1>5

\* The steps of a client.  While nothing fails it sees what the server did.
LEMMA ConfigureMoves ==
    ASSUME TypeOK, NEW u \in Users, NEW i \in Ids, configure(u, i)
    PROVE  \E fine, seen \in BOOLEAN :
              /\ orderly' => orderly /\ fine /\ (seen => Opened(u, NoTag, i, fine))
              /\ UNCHANGED serverVars \/ Opened(u, NoTag, i, fine)
              /\ SetClient(u, IF seen THEN i ELSE NoLoc, ~seen /\ unc[u])
<1>1. PICK ok, fine, seen \in BOOLEAN :
          /\ Create(u, NoTag, i, ok, fine)
          /\ Answer(ok, fine, seen)
          /\ SetClient(u, IF seen THEN i ELSE NoLoc, ~seen /\ unc[u])
  BY Zenon DEF configure
<1>2. (~ok /\ UNCHANGED serverVars) \/ Opened(u, NoTag, i, fine)
  BY <1>1, CreateMoves
<1>3. orderly' => orderly /\ fine /\ seen = ok
  BY <1>1, Zenon DEF Answer
<1> QED BY <1>1, <1>2, <1>3, Zenon

LEMMA SetMoves ==
    ASSUME TypeOK, NEW u \in Users, NEW verb \in {"set", "delete"}, NEW v \in Values,
           set(u, verb, v)
    PROVE  \E seen \in BOOLEAN :
              /\ orderly' => orderly
              /\ \/ UNCHANGED serverVars
                 \/ \E i \in Own(u, loc[u]) : Edited(i) /\ (orderly' => seen)
              /\ SetClient(u, loc[u], unc[u] \/ seen)
<1>1. PICK ok, fine, seen \in BOOLEAN :
          /\ \/ Refuse(u, loc[u], ok, fine)
             \/ \E i \in Own(u, loc[u]) : Put(i, verb, v, ok, fine)
          /\ Answer(ok, fine, seen)
          /\ SetClient(u, loc[u], unc[u] \/ seen)
  BY Zenon DEF set
<1>2. orderly' => orderly /\ seen = ok
  BY <1>1, Zenon DEF Answer
<1>3. CASE Refuse(u, loc[u], ok, fine)
  BY <1>1, <1>2, <1>3, Zenon DEF Refuse
<1>4. CASE \E i \in Own(u, loc[u]) : Put(i, verb, v, ok, fine)
  <2>1. PICK i \in Own(u, loc[u]) : Put(i, verb, v, ok, fine)
    BY <1>4
  <2>2. i \in Ids
    BY OwnIsOpen
  <2>3. UNCHANGED serverVars \/ (ok /\ Edited(i))
    BY <2>1, <2>2, PutMoves
  <2> QED BY <1>1, <1>2, <2>3, Zenon
<1> QED BY <1>1, <1>3, <1>4

LEMMA CommitSessionMoves ==
    ASSUME TypeOK, NEW u \in Users, commit_session(u)
    PROVE  \E seen \in BOOLEAN :
              /\ orderly' => orderly
              /\ \/ UNCHANGED serverVars /\ (orderly' => ~seen)
                 \/ \E i \in Own(u, loc[u]) : Committed(i)
              /\ SetClient(u, loc[u], unc[u] /\ ~seen)
<1>1. PICK ok, fine, seen \in BOOLEAN :
          /\ \/ Refuse(u, loc[u], ok, fine)
             \/ \E i \in Own(u, loc[u]) : Commit(i, ok, fine)
          /\ Answer(ok, fine, seen)
          /\ SetClient(u, loc[u], unc[u] /\ ~seen)
  BY Zenon DEF commit_session
<1>2. orderly' => orderly /\ fine /\ seen = ok
  BY <1>1, Zenon DEF Answer
<1>3. CASE Refuse(u, loc[u], ok, fine)
  <2>1. UNCHANGED serverVars /\ ~ok
    BY <1>3 DEF Refuse
  <2> QED BY <1>1, <1>2, <2>1, Zenon
<1>4. CASE \E i \in Own(u, loc[u]) : Commit(i, ok, fine)
  <2>1. PICK i \in Own(u, loc[u]) : Commit(i, ok, fine)
    BY <1>4
  <2>2. i \in Ids
    BY OwnIsOpen
  <2>3. (UNCHANGED serverVars /\ (fine => ~ok)) \/ Committed(i)
    BY <2>1, <2>2, CommitMoves
  <2> QED BY <1>1, <1>2, <2>3, Zenon
<1> QED BY <1>1, <1>3, <1>4

LEMMA ExitMoves ==
    ASSUME TypeOK, NEW u \in Users, NEW discard \in BOOLEAN, configure_exit(u, discard)
    PROVE  /\ orderly' => orderly
           /\ UNCHANGED serverVars \/ \E i \in Own(u, loc[u]) : Changed(i)
           /\ SetClient(u, NoLoc, FALSE)
<1>1. PICK ok, fine, seen \in BOOLEAN :
          /\ \/ Refuse(u, loc[u], ok, fine)
             \/ \E i \in Own(u, loc[u]) : Delete(i, ok, fine)
          /\ Answer(ok, fine, seen)
  BY Zenon DEF configure_exit
<1>2. SetClient(u, NoLoc, FALSE) /\ (orderly' => orderly)
  BY <1>1, Zenon DEF configure_exit, Answer
<1>3. CASE Refuse(u, loc[u], ok, fine)
  BY <1>2, <1>3, Zenon DEF Refuse
<1>4. CASE \E i \in Own(u, loc[u]) : Delete(i, ok, fine)
  BY <1>2, <1>4, SessionMoves, Zenon
<1> QED BY <1>1, <1>3, <1>4, Zenon

LEMMA StepMoves ==
    ASSUME TypeOK, NEW u \in Users, Request(u) \/ Client(u)
    PROVE  /\ \E fine \in BOOLEAN : Move(u, fine) /\ (orderly' => orderly /\ fine)
           /\ loc' \in [Users -> Ids \cup {NoLoc}]
           /\ unc' \in [Users -> BOOLEAN]
           /\ orderly' \in BOOLEAN
<1>1. CASE Request(u)
  <2>1. UNCHANGED clientVars
    BY <1>1, RequestMoves
  <2>2. PICK fine \in BOOLEAN :
          /\ orderly' = (orderly /\ fine)
          /\ \/ UNCHANGED serverVars
             \/ \E d \in Tags \cup {NoTag}, i \in Ids : Opened(u, d, i, fine)
             \/ \E x \in Target(u) : \E i \in Own(u, x) : Changed(i)
    BY <1>1, RequestMoves
  <2>3. Move(u, fine)
    BY <2>2, OwnIsOpen DEF Move
  <2>4. (orderly' => orderly /\ fine) /\ orderly' \in BOOLEAN
    BY <2>2, Zenon
  <2>5. loc' \in [Users -> Ids \cup {NoLoc}] /\ unc' \in [Users -> BOOLEAN]
    BY <2>1 DEF clientVars, TypeOK
  <2> QED BY <2>3, <2>4, <2>5, Zenon
<1>2. ASSUME NEW i \in Ids, configure(u, i)
      PROVE  /\ \E fine \in BOOLEAN : Move(u, fine) /\ (orderly' => orderly /\ fine)
             /\ \E l \in Ids \cup {NoLoc}, n \in BOOLEAN : SetClient(u, l, n)
  <2>1. PICK fine, seen \in BOOLEAN :
              /\ orderly' => orderly /\ fine /\ (seen => Opened(u, NoTag, i, fine))
              /\ UNCHANGED serverVars \/ Opened(u, NoTag, i, fine)
              /\ SetClient(u, IF seen THEN i ELSE NoLoc, ~seen /\ unc[u])
    BY <1>2, ConfigureMoves
  <2>2. Move(u, fine)
    BY <2>1 DEF Move
  <2>3. (IF seen THEN i ELSE NoLoc) \in Ids \cup {NoLoc} /\ (~seen /\ unc[u]) \in BOOLEAN
    OBVIOUS
  <2> QED BY <2>1, <2>2, <2>3, Zenon
<1>3. ASSUME NEW verb \in {"set", "delete"}, NEW v \in Values, set(u, verb, v)
      PROVE  /\ \E fine \in BOOLEAN : Move(u, fine) /\ (orderly' => orderly /\ fine)
             /\ \E l \in Ids \cup {NoLoc}, n \in BOOLEAN : SetClient(u, l, n)
  <2>1. PICK seen \in BOOLEAN :
              /\ orderly' => orderly
              /\ \/ UNCHANGED serverVars
                 \/ \E i \in Own(u, loc[u]) : Edited(i) /\ (orderly' => seen)
              /\ SetClient(u, loc[u], unc[u] \/ seen)
    BY <1>3, SetMoves
  <2>2. Move(u, TRUE)
    BY <2>1, OwnIsOpen, Zenon DEF Move, Changed
  <2>3. loc[u] \in Ids \cup {NoLoc} /\ (unc[u] \/ seen) \in BOOLEAN
    BY DEF TypeOK
  <2> QED BY <2>1, <2>2, <2>3, Zenon
<1>4. ASSUME commit_session(u)
      PROVE  /\ \E fine \in BOOLEAN : Move(u, fine) /\ (orderly' => orderly /\ fine)
             /\ \E l \in Ids \cup {NoLoc}, n \in BOOLEAN : SetClient(u, l, n)
  <2>1. PICK seen \in BOOLEAN :
              /\ orderly' => orderly
              /\ \/ UNCHANGED serverVars /\ (orderly' => ~seen)
                 \/ \E i \in Own(u, loc[u]) : Committed(i)
              /\ SetClient(u, loc[u], unc[u] /\ ~seen)
    BY <1>4, CommitSessionMoves
  <2>2. Move(u, TRUE)
    BY <2>1, OwnIsOpen, Zenon DEF Move, Changed
  <2>3. loc[u] \in Ids \cup {NoLoc} /\ (unc[u] /\ ~seen) \in BOOLEAN
    BY DEF TypeOK
  <2> QED BY <2>1, <2>2, <2>3, Zenon
<1>5. ASSUME NEW discard \in BOOLEAN, configure_exit(u, discard)
      PROVE  /\ \E fine \in BOOLEAN : Move(u, fine) /\ (orderly' => orderly /\ fine)
             /\ \E l \in Ids \cup {NoLoc}, n \in BOOLEAN : SetClient(u, l, n)
  <2>1. /\ orderly' => orderly
        /\ UNCHANGED serverVars \/ \E i \in Own(u, loc[u]) : Changed(i)
        /\ SetClient(u, NoLoc, FALSE)
    BY <1>5, ExitMoves, Zenon
  <2>2. Move(u, TRUE)
    BY <2>1, OwnIsOpen, Zenon DEF Move
  <2> QED BY <2>1, <2>2, Zenon
<1>6. CASE Client(u)
  <2>1. /\ \E fine \in BOOLEAN : Move(u, fine) /\ (orderly' => orderly /\ fine)
        /\ \E l \in Ids \cup {NoLoc}, n \in BOOLEAN : SetClient(u, l, n)
    BY <1>2, <1>3, <1>4, <1>5, <1>6, Zenon DEF Client
  <2>2. loc' \in [Users -> Ids \cup {NoLoc}] /\ unc' \in [Users -> BOOLEAN]
    BY <2>1 DEF SetClient, TypeOK
  <2>3. orderly' \in BOOLEAN
    BY <1>6, Zenon DEF Client, configure, set, commit_session, configure_exit, Answer
  <2> QED BY <2>1, <2>2, <2>3
<1> QED BY <1>1, <1>6

(***************************************************************************)
(* Type correctness.                                                       *)
(***************************************************************************)
LEMMA ChangedType ==
    ASSUME TypeOK, NEW i \in Ids, owner[i] # Closed, Changed(i)
    PROVE  /\ owner' \in [Ids -> Users \cup {Nobody, Closed}]
           /\ tag' \in [Ids -> Tags \cup {NoTag}]
           /\ live' \subseteq Ids
           /\ edits' \in [Ids -> EditSet]
           /\ running' \subseteq Values
           /\ \A j \in Ids : owner'[j] \in {Nobody, Closed} => tag'[j] = NoTag
           /\ \A j \in Ids : j \notin live' \/ owner'[j] = Closed => edits'[j] = NoEdits
<1>0. NoEdits \in EditSet
  BY DEF NoEdits, EditSet
<1>1. CASE Edited(i)
  BY <1>1 DEF Edited, TypeOK, EditSet
<1>2. CASE Emptied(i)
  BY <1>0, <1>2 DEF Emptied, TypeOK, EditSet
<1>3. CASE Committed(i)
  BY <1>0, <1>3 DEF Committed, commit, Candidate, TypeOK, EditSet
<1>4. CASE Ended(i)
  BY <1>0, <1>4 DEF Ended, TypeOK, EditSet
<1> QED BY <1>1, <1>2, <1>3, <1>4 DEF Changed

LEMMA TypeInit == Init => TypeOK
BY DEF Init, TypeOK, NoEdits

LEMMA TypeStep == TypeOK /\ [Next]_vars => TypeOK'
<1>. SUFFICES ASSUME TypeOK, [Next]_vars PROVE TypeOK'
  OBVIOUS
<1>1. ASSUME NEW u \in Users, by' = u, Request(u) \/ Client(u)
      PROVE  TypeOK'
  <2>1. PICK fine \in BOOLEAN : Move(u, fine)
    BY <1>1, StepMoves
  <2>2. /\ loc' \in [Users -> Ids \cup {NoLoc}]
        /\ unc' \in [Users -> BOOLEAN]
        /\ orderly' \in BOOLEAN
        /\ by' \in Users \cup {Nobody}
    BY <1>1, StepMoves
  <2>3. CASE UNCHANGED serverVars
    BY <2>2, <2>3 DEF serverVars, TypeOK
  <2>4. ASSUME NEW d \in Tags \cup {NoTag}, NEW i \in Ids, Opened(u, d, i, fine)
        PROVE  TypeOK'
    <3>1. \E o \in Users \cup {Nobody, Closed}, t \in Tags \cup {NoTag} :
            /\ owner' = [owner EXCEPT ![i] = o]
            /\ tag' = [tag EXCEPT ![i] = t]
            /\ o \in {Nobody, Closed} => t = NoTag
      BY <2>4, ConfSessionAssumption DEF Opened
    <3>2. live' \in {live, live \cup {i}} /\ UNCHANGED <<edits, running>>
      BY <2>4 DEF Opened
    <3>3. edits[i] = NoEdits
      BY <2>4 DEF Opened, TypeOK
    <3> QED BY <2>2, <3>1, <3>2, <3>3 DEF TypeOK
  <2>5. ASSUME NEW i \in Ids, owner[i] \in {u, Nobody}, Changed(i)
        PROVE  TypeOK'
    <3>1. owner[i] # Closed
      BY <2>5, ConfSessionAssumption
    <3> QED BY <2>2, <2>5, <3>1, ChangedType DEF TypeOK, EditSet
  <2> QED BY <2>1, <2>3, <2>4, <2>5 DEF Move
<1>2. CASE Restart
  BY <1>2, Zenon DEF Restart, TypeOK, clientVars, NoEdits
<1>3. CASE UNCHANGED vars
  BY <1>3 DEF vars, serverVars, clientVars, TypeOK
<1> QED BY <1>1, <1>2, <1>3 DEF Next

\* Every variable keeps its type; a modify file without a user has no
\* description, and a session that is not in configd, or has no modify file, has
\* no edits.
THEOREM ConfTypeCorrect == Spec => []TypeOK
BY TypeInit, TypeStep, PTL DEF Spec

(***************************************************************************)
(* The resource implements ConfStore.                                      *)
(***************************************************************************)
LEMMA StoreInit == Init => Store!Init
BY DEF Init, Store!Init, NoEdits, Store!NoEdits

LEMMA StoreStep == TypeOK /\ [Next]_vars => [Store!Next]_(Store!vars)
<1>. SUFFICES ASSUME TypeOK, [Next]_vars PROVE [Store!Next]_(Store!vars)
  OBVIOUS
<1>1. ASSUME NEW u \in Users, by' = u, Request(u) \/ Client(u)
      PROVE  Store!Next
  <2>1. PICK fine \in BOOLEAN : Move(u, fine)
    BY <1>1, StepMoves
  <2>2. CASE UNCHANGED serverVars
    BY <1>1, <2>2 DEF serverVars, Store!Next, Store!Nothing
  <2>3. ASSUME NEW d \in Tags \cup {NoTag}, NEW i \in Ids, Opened(u, d, i, fine)
        PROVE  Store!Next
    <3>1. \/ \E o \in {u, Nobody} : owner' = [owner EXCEPT ![i] = o]
          \/ owner' = [owner EXCEPT ![i] = Closed]
      BY <2>3 DEF Opened
    <3>2. owner[i] = Closed /\ UNCHANGED <<edits, running>>
      BY <2>3 DEF Opened
    <3>3. CASE owner' = [owner EXCEPT ![i] = Closed]
      <4>1. owner' = owner
        BY <3>2, <3>3 DEF TypeOK
      <4> QED BY <1>1, <3>2, <4>1 DEF Store!Next, Store!Nothing
    <3>4. CASE \E o \in {u, Nobody} : owner' = [owner EXCEPT ![i] = o]
      BY <1>1, <3>2, <3>4, Zenon DEF Store!Next, Store!Open
    <3> QED BY <3>1, <3>3, <3>4
  <2>4. ASSUME NEW i \in Ids, owner[i] \in {u, Nobody}, Changed(i)
        PROVE  Store!Next
    <3>1. Store!Edit(u, i) \/ Store!Commit(u, i) \/ Store!Close(u, i)
      <4>1. CASE Edited(i)
        BY <2>4, <4>1, Zenon DEF Edited, EditSet, Store!Edit, Store!Owns, Store!Edits
      <4>2. CASE Emptied(i)
        <5>1. NoEdits \in Store!Edits
          BY DEF NoEdits, Store!Edits
        <5> QED BY <2>4, <4>2, <5>1, Zenon DEF Emptied, Store!Edit, Store!Owns
      <4>3. CASE Committed(i)
        BY <2>4, <4>3 DEF Committed, commit, Candidate, NoEdits,
                          Store!Commit, Store!Owns, Store!Applied, Store!NoEdits
      <4>4. CASE Ended(i)
        BY <2>4, <4>4 DEF Ended, NoEdits, Store!Close, Store!Owns, Store!NoEdits
      <4> QED BY <2>4, <4>1, <4>2, <4>3, <4>4 DEF Changed
    <3> QED BY <1>1, <3>1 DEF Store!Next
  <2> QED BY <2>1, <2>2, <2>3, <2>4 DEF Move
<1>2. CASE Restart
  BY <1>2 DEF Restart, NoEdits, Store!Next, Store!Forget, Store!NoEdits
<1>3. CASE UNCHANGED vars
  BY <1>3 DEF vars, serverVars, Store!vars
<1> QED BY <1>1, <1>2, <1>3 DEF Next

\* For all users and sessions and whatever fails, /rest/conf is a store of
\* sessions: only requests of its owner open, edit, commit or close a session,
\* and a commit puts in force what its session had pending and nothing else.
THEOREM StoreImplemented == Spec => StoreSpec
<1>1. Spec => Store!Spec
  BY StoreInit, StoreStep, ConfTypeCorrect, PTL DEF Spec, Store!Spec
<1> QED BY <1>1 DEF StoreSpec

(***************************************************************************)
(* Modify files and configd.                                               *)
(***************************************************************************)
LEMMA SameStep == TypeOK /\ SameSessions /\ [Next]_vars => SameSessions'
<1>. SUFFICES ASSUME TypeOK, SameSessions, [Next]_vars, orderly'
              PROVE  live' = {i \in Ids : owner'[i] # Closed}
  BY DEF SameSessions
<1>1. ASSUME NEW u \in Users, Request(u) \/ Client(u)
      PROVE  live' = {i \in Ids : owner'[i] # Closed}
  <2>1. PICK fine \in BOOLEAN : Move(u, fine) /\ orderly /\ fine
    BY <1>1, StepMoves
  <2>2. live = {i \in Ids : owner[i] # Closed}
    BY <2>1 DEF SameSessions
  <2>3. CASE UNCHANGED serverVars
    BY <2>2, <2>3 DEF serverVars
  <2>4. ASSUME NEW d \in Tags \cup {NoTag}, NEW i \in Ids, Opened(u, d, i, fine)
        PROVE  live' = {j \in Ids : owner'[j] # Closed}
    <3>1. owner' = [owner EXCEPT ![i] = u] /\ live' = live \cup {i}
      BY <2>1, <2>4 DEF Opened
    <3> QED BY <2>2, <3>1, ConfSessionAssumption DEF TypeOK
  <2>5. ASSUME NEW i \in Ids, Changed(i)
        PROVE  live' = {j \in Ids : owner'[j] # Closed}
    BY <2>2, <2>5 DEF Changed, Edited, Emptied, Committed, Ended, TypeOK
  <2> QED BY <2>1, <2>3, <2>4, <2>5, Zenon DEF Move
<1>2. CASE Restart
  BY <1>2 DEF Restart
<1>3. CASE UNCHANGED vars
  BY <1>3 DEF vars, serverVars, SameSessions
<1> QED BY <1>1, <1>2, <1>3 DEF Next

\* As long as no call has failed, configd has exactly the sessions that have a
\* modify file: POST makes both, DELETE removes both, nothing else either.
THEOREM SessionsAgree == Spec => []SameSessions
<1>1. Init => SameSessions
  BY DEF Init, SameSessions
<1> QED BY <1>1, SameStep, ConfTypeCorrect, PTL DEF Spec

(***************************************************************************)
(* Descriptions.                                                           *)
(***************************************************************************)
LEMMA UniqueStep ==
    ASSUME Tags \cap Ids = {}
    PROVE  TypeOK /\ UniqueTags /\ [Next]_vars => UniqueTags'
<1>. SUFFICES ASSUME TypeOK, UniqueTags, [Next]_vars PROVE UniqueTags'
  OBVIOUS
<1>1. ASSUME NEW u \in Users, Request(u) \/ Client(u)
      PROVE  UniqueTags'
  <2>1. PICK fine \in BOOLEAN : Move(u, fine)
    BY <1>1, StepMoves
  <2>2. CASE UNCHANGED serverVars
    BY <2>2 DEF serverVars, UniqueTags
  <2>3. ASSUME NEW d \in Tags \cup {NoTag}, NEW i \in Ids, Opened(u, d, i, fine)
        PROVE  UniqueTags'
    <3>1. \A j \in Ids : owner[j] = u /\ tag[j] = d => d = NoTag
      BY <2>3 DEF Opened, Tagged
    <3>2. \/ owner' = [owner EXCEPT ![i] = u] /\ tag' = [tag EXCEPT ![i] = d]
          \/ tag' = [tag EXCEPT ![i] = NoTag]
             /\ \E o \in {Nobody, Closed} : owner' = [owner EXCEPT ![i] = o]
      BY <2>3 DEF Opened
    <3> QED BY <3>1, <3>2 DEF UniqueTags, TypeOK
  <2>4. ASSUME NEW i \in Ids, Changed(i)
        PROVE  UniqueTags'
    <3>1. \/ UNCHANGED <<owner, tag>>
          \/ owner' = [owner EXCEPT ![i] = Closed] /\ tag' = [tag EXCEPT ![i] = NoTag]
      BY <2>4 DEF Changed, Edited, Emptied, Committed, Ended
    <3> QED BY <3>1 DEF UniqueTags, TypeOK
  <2> QED BY <2>1, <2>2, <2>3, <2>4 DEF Move
<1>2. CASE Restart
  BY <1>2 DEF Restart, UniqueTags
<1>3. CASE UNCHANGED vars
  BY <1>3 DEF vars, serverVars, UniqueTags
<1> QED BY <1>1, <1>2, <1>3 DEF Next

\* No two sessions of a user have the same description, whatever fails, if no
\* description is a session's id: the test before the modify file is written
\* looks at the sessions of the wrong user otherwise.
THEOREM DescriptionsUnique ==
    ASSUME Tags \cap Ids = {}
    PROVE  Spec => []UniqueTags
<1>1. Init => UniqueTags
  BY DEF Init, UniqueTags
<1>2. TypeOK /\ UniqueTags /\ [Next]_vars => UniqueTags'
  BY UniqueStep
<1> QED BY <1>1, <1>2, ConfTypeCorrect, PTL DEF Spec

(***************************************************************************)
(* The count of the client.                                                *)
(***************************************************************************)
\* The session of a client is its user's and has no description, so that no
\* other request reaches it.
ClientsOwn ==
    orderly => \A c \in Users : loc[c] # NoLoc =>
        owner[loc[c]] = c /\ tag[loc[c]] = NoTag

CountInv == ClientsOwn /\ CountRight

\* What holds of a client that a step does not concern.
LEMMA OthersKept ==
    ASSUME TypeOK, CountInv, orderly, NEW c \in Users, loc[c] # NoLoc,
           NEW i \in Ids, i # loc[c],
           \/ Changed(i)
           \/ \E u \in Users, d \in Tags \cup {NoTag}, fine \in BOOLEAN : Opened(u, d, i, fine)
    PROVE  /\ owner'[loc[c]] = c /\ tag'[loc[c]] = NoTag
           /\ ~unc[c] => edits'[loc[c]] = NoEdits
<1>1. loc[c] \in Ids /\ owner[loc[c]] = c /\ tag[loc[c]] = NoTag
  BY DEF TypeOK, CountInv, ClientsOwn
<1>2. ~unc[c] => edits[loc[c]] = NoEdits
  BY DEF CountInv, CountRight
<1>3. CASE Changed(i)
  BY <1>1, <1>2, <1>3 DEF Changed, Edited, Emptied, Committed, commit, Ended, TypeOK
<1>4. CASE \E u \in Users, d \in Tags \cup {NoTag}, fine \in BOOLEAN : Opened(u, d, i, fine)
  BY <1>1, <1>2, <1>4 DEF Opened, TypeOK
<1> QED BY <1>3, <1>4

Kept(c) ==
    loc'[c] # NoLoc =>
        /\ owner'[loc'[c]] = c /\ tag'[loc'[c]] = NoTag
        /\ ~unc'[c] => edits'[loc'[c]] = NoEdits

LEMMA ServerKept ==
    ASSUME CountInv, orderly, NEW c \in Users, UNCHANGED serverVars, loc'[c] = loc[c],
           ~unc'[c] => ~unc[c]
    PROVE  Kept(c)
BY DEF CountInv, ClientsOwn, CountRight, Kept, serverVars

LEMMA RequestKept ==
    ASSUME TypeOK, CountInv, orderly', NEW u \in Users, NEW c \in Users, Request(u)
    PROVE  orderly /\ Kept(c)
<1>1. UNCHANGED clientVars
  BY RequestMoves, Zenon
<1>2. PICK fine \in BOOLEAN :
          /\ orderly' = (orderly /\ fine)
          /\ \/ UNCHANGED serverVars
             \/ \E d \in Tags \cup {NoTag}, i \in Ids : Opened(u, d, i, fine)
             \/ \E x \in Target(u) : \E i \in Own(u, x) : Changed(i)
  BY RequestMoves, Zenon
<1>3. orderly
  BY <1>2, Zenon
<1>4. CASE UNCHANGED serverVars
  BY <1>1, <1>3, <1>4, ServerKept DEF clientVars
<1>5. CASE \E d \in Tags \cup {NoTag}, i \in Ids : Opened(u, d, i, fine)
  <2>1. PICK d \in Tags \cup {NoTag}, i \in Ids : Opened(u, d, i, fine)
    BY <1>5
  <2>2. loc[c] # i
    BY <2>1 DEF Opened
  <2> QED BY <1>1, <1>3, <2>1, <2>2, OthersKept DEF Kept, clientVars
<1>6. CASE \E x \in Target(u) : \E i \in Own(u, x) : Changed(i)
  <2>1. PICK x \in Target(u) : \E i \in Own(u, x) : Changed(i)
    BY <1>6
  <2>2. PICK i \in Own(u, x) : Changed(i)
    BY <2>1
  <2>3. i \in Ids /\ owner[i] \in {u, Nobody} /\ (i # x => tag[i] # NoTag)
    BY OwnIsOpen
  <2>4. loc[u] # x
    BY DEF Target
  <2>5. loc[c] # NoLoc => loc[c] # i
    BY <1>3, <2>3, <2>4, ConfSessionAssumption DEF CountInv, ClientsOwn
  <2> QED BY <1>1, <1>3, <2>2, <2>3, <2>5, OthersKept DEF Kept, clientVars
<1> QED BY <1>2, <1>3, <1>4, <1>5, <1>6

\* A step of u's client leaves the other clients' sessions alone.
LEMMA OtherClients ==
    ASSUME TypeOK, CountInv, orderly', NEW u \in Users, NEW c \in Users, c # u, Client(u),
           loc'[c] = loc[c], unc'[c] = unc[c]
    PROVE  Kept(c)
<1>1. PICK fine \in BOOLEAN : Move(u, fine) /\ orderly
  BY StepMoves
<1>2. CASE UNCHANGED serverVars
  BY <1>1, <1>2, ServerKept
<1>3. CASE \E d \in Tags \cup {NoTag}, i \in Ids : Opened(u, d, i, fine)
  <2>1. PICK d \in Tags \cup {NoTag}, i \in Ids : Opened(u, d, i, fine)
    BY <1>3
  <2>2. loc[c] # i
    BY <2>1 DEF Opened
  <2> QED BY <1>1, <2>1, <2>2, OthersKept DEF Kept
<1>4. CASE \E i \in Ids : owner[i] \in {u, Nobody} /\ Changed(i)
  <2>1. PICK i \in Ids : owner[i] \in {u, Nobody} /\ Changed(i)
    BY <1>4
  <2>2. loc[c] # NoLoc => loc[c] # i
    BY <1>1, <2>1, ConfSessionAssumption DEF CountInv, ClientsOwn
  <2> QED BY <1>1, <2>1, <2>2, OthersKept DEF Kept
<1> QED BY <1>1, <1>2, <1>3, <1>4 DEF Move

LEMMA ClientKept ==
    ASSUME TypeOK, CountInv, orderly', NEW u \in Users, NEW c \in Users, Client(u)
    PROVE  Kept(c)
<1>0. orderly
  BY StepMoves
<1>1. ASSUME NEW l, NEW n, SetClient(u, l, n)
      PROVE  /\ c # u => loc'[c] = loc[c] /\ unc'[c] = unc[c]
             /\ loc'[u] = l /\ unc'[u] = n
  BY <1>1 DEF SetClient, TypeOK
<1>2. ASSUME NEW i \in Own(u, loc[u]), loc[u] # NoLoc
      PROVE  i = loc[u] /\ i \in Ids
  <2>1. loc[u] \in Ids /\ owner[loc[u]] # Closed
    BY <1>0, <1>2, ConfSessionAssumption DEF TypeOK, CountInv, ClientsOwn
  <2> QED BY <2>1, OwnIsOpen
<1>3. ASSUME NEW i \in Ids, configure(u, i)
      PROVE  Kept(c)
  <2>1. PICK fine, seen \in BOOLEAN :
              /\ orderly' => orderly /\ fine /\ (seen => Opened(u, NoTag, i, fine))
              /\ SetClient(u, IF seen THEN i ELSE NoLoc, ~seen /\ unc[u])
    BY <1>3, ConfigureMoves
  <2>2. CASE c # u
    BY <1>1, <2>1, <2>2, OtherClients
  <2>3. CASE c = u /\ ~seen
    BY <1>1, <2>1, <2>3 DEF Kept
  <2>4. CASE c = u /\ seen
    <3>1. fine /\ Opened(u, NoTag, i, fine)
      BY <2>1, <2>4, Zenon
    <3>2. loc'[u] = i
      BY <1>1, <2>1, <2>4
    <3>3. owner'[i] = u /\ tag'[i] = NoTag
      BY <3>1 DEF Opened, TypeOK
    <3>4. edits'[i] = NoEdits
      BY <3>1 DEF Opened, TypeOK
    <3> QED BY <2>4, <3>2, <3>3, <3>4 DEF Kept
  <2> QED BY <2>2, <2>3, <2>4
<1>4. ASSUME NEW verb \in {"set", "delete"}, NEW v \in Values, set(u, verb, v), loc[u] # NoLoc
      PROVE  Kept(c)
  <2>1. PICK seen \in BOOLEAN :
              /\ \/ UNCHANGED serverVars
                 \/ \E i \in Own(u, loc[u]) : Edited(i) /\ seen
              /\ SetClient(u, loc[u], unc[u] \/ seen)
    BY <1>4, SetMoves
  <2>2. CASE c # u
    BY <1>1, <2>1, <2>2, OtherClients
  <2>3. loc'[u] = loc[u] /\ unc'[u] = (unc[u] \/ seen)
    BY <1>1, <2>1
  <2>4. CASE c = u /\ UNCHANGED serverVars
    BY <1>0, <2>3, <2>4, ServerKept, Zenon
  <2>5. CASE c = u /\ \E i \in Own(u, loc[u]) : Edited(i) /\ seen
    BY <1>0, <1>4, <2>3, <2>5, Zenon DEF Edited, Kept, CountInv, ClientsOwn
  <2> QED BY <2>1, <2>2, <2>4, <2>5
<1>5. ASSUME commit_session(u), loc[u] # NoLoc
      PROVE  Kept(c)
  <2>1. PICK seen \in BOOLEAN :
              /\ \/ UNCHANGED serverVars /\ ~seen
                 \/ \E i \in Own(u, loc[u]) : Committed(i)
              /\ SetClient(u, loc[u], unc[u] /\ ~seen)
    BY <1>5, CommitSessionMoves
  <2>2. CASE c # u
    BY <1>1, <2>1, <2>2, OtherClients
  <2>3. loc'[u] = loc[u] /\ unc'[u] = (unc[u] /\ ~seen)
    BY <1>1, <2>1
  <2>4. CASE c = u /\ UNCHANGED serverVars /\ ~seen
    BY <1>0, <2>3, <2>4, ServerKept DEF TypeOK
  <2>5. CASE c = u /\ \E i \in Own(u, loc[u]) : Committed(i)
    <3>1. Committed(loc[u]) /\ loc[u] \in Ids
      BY <1>2, <1>5, <2>5
    <3> QED BY <1>0, <1>5, <2>3, <2>5, <3>1
            DEF Committed, commit, Kept, CountInv, ClientsOwn, TypeOK
  <2> QED BY <2>1, <2>2, <2>4, <2>5
<1>6. ASSUME NEW discard \in BOOLEAN, configure_exit(u, discard)
      PROVE  Kept(c)
  <2>1. SetClient(u, NoLoc, FALSE)
    BY <1>6, ExitMoves, Zenon
  <2>2. CASE c # u
    BY <1>1, <2>1, <2>2, OtherClients, Zenon
  <2>3. CASE c = u
    BY <1>1, <2>1, <2>3, Zenon DEF Kept
  <2> QED BY <2>2, <2>3
<1> QED BY <1>3, <1>4, <1>5, <1>6, Zenon DEF Client

LEMMA CountStep == TypeOK /\ CountInv /\ [Next]_vars => CountInv'
<1>. SUFFICES ASSUME TypeOK, CountInv, [Next]_vars, orderly'
              PROVE  \A c \in Users : Kept(c)
  BY DEF CountInv, ClientsOwn, CountRight, Kept
<1>1. ASSUME NEW u \in Users, Request(u) \/ Client(u)
      PROVE  \A c \in Users : Kept(c)
  BY <1>1, RequestKept, ClientKept
<1>2. CASE Restart
  BY <1>2 DEF Restart
<1>3. CASE UNCHANGED vars
  BY <1>3, ServerKept DEF vars, clientVars
<1> QED BY <1>1, <1>2, <1>3 DEF Next

\* As long as no call has failed and no answer was lost, a client that counts no
\* uncommitted edits has none: what configure_exit throws away was committed.
\* No other request can reach the client's session, because it has no
\* description and its modify file names the user.
THEOREM CountsRight == Spec => []CountRight
<1>1. Init => CountInv
  BY DEF Init, CountInv, ClientsOwn, CountRight
<1>2. CountInv => CountRight
  BY DEF CountInv
<1> QED BY <1>1, <1>2, CountStep, ConfTypeCorrect, PTL DEF Spec

(***************************************************************************)
(* What GET shows.                                                         *)
(***************************************************************************)
\* The state of one value, which tells where it is.
LEMMA ValueState ==
    ASSUME NEW i \in Ids, NEW v
    PROVE  get_node_params(i, {v}) =
             IF v \in running
             THEN IF v \in Candidate(i) THEN "active" ELSE "delete"
             ELSE IF v \in Candidate(i) THEN "set" ELSE "none"
<1> DEFINE new == Candidate(i) \cap {v}
           old == running \cap {v}
<1>1. /\ new = IF v \in Candidate(i) THEN {v} ELSE {}
      /\ old = IF v \in running THEN {v} ELSE {}
  OBVIOUS
<1>2. get_status(i, {v}) = CASE new = old               -> "unchanged"
                             [] new = {} /\ old # {}    -> "deleted"
                             [] new # {} /\ old = {}    -> "added"
                             [] OTHER                   -> "changed"
  BY DEF get_status
<1>3. get_status(i, {v}) = IF (v \in running) <=> (v \in Candidate(i)) THEN "unchanged"
                           ELSE IF v \in running THEN "deleted" ELSE "added"
  BY <1>1, <1>2
<1>4. QED
  BY <1>1, <1>3 DEF get_node_params

\* The state of the node, of which the values are all there are.
LEMMA NodeState ==
    ASSUME TypeOK, NEW i \in Ids
    PROVE  ContainerChild(i) = get_node_params(i, Values)
<1>1. Candidate(i) \cap Values = Candidate(i) /\ running \cap Values = running
  BY DEF TypeOK, Candidate
<1>2. get_status(i, Values) =
        CASE Candidate(i) = running                  -> "unchanged"
          [] Candidate(i) = {} /\ running # {}       -> "deleted"
          [] Candidate(i) # {} /\ running = {}       -> "added"
          [] OTHER                                   -> "changed"
  BY <1>1 DEF get_status
<1>3. QED
  BY <1>1, <1>2 DEF ContainerChild, get_node_params

LEMMA Viewed == TypeOK => ViewsAgree
<1> SUFFICES ASSUME TypeOK, NEW u \in Users, NEW s \in ListOf(u), s.id \in live
             PROVE  /\ s.modified <=> \E c \in NodeChildren(s.id) : c.state \in {"set", "delete"}
                    /\ ContainerChild(s.id) = get_node_params(s.id, Values)
  BY DEF ViewsAgree
<1>1. PICK i \in Ids : s = [id |-> i, modified |-> sess_changed(i)]
  BY DEF ListOf
<1>2. s.id = i /\ (s.modified <=> Candidate(i) # running)
  BY <1>1, Zenon DEF sess_changed
<1>3. ASSUME NEW v \in running, v \notin Candidate(i)
      PROVE  \E c \in NodeChildren(i) : c.state \in {"set", "delete"}
  <2>1. [name |-> v, state |-> get_node_params(i, {v})] \in NodeChildren(i)
    BY Zenon DEF NodeChildren
  <2>2. QED
    BY <1>3, <2>1, ValueState
<1>4. ASSUME NEW v \in Candidate(i), v \notin running
      PROVE  \E c \in NodeChildren(i) : c.state \in {"set", "delete"}
  <2>1. [name |-> v, state |-> get_node_params(i, {v})] \in NodeChildren(i)
    BY <1>4, Zenon DEF NodeChildren
  <2>2. QED
    BY <1>4, <2>1, ValueState
<1>5. ASSUME Candidate(i) = running, NEW c \in NodeChildren(i)
      PROVE  c.state \notin {"set", "delete"}
  <2>1. PICK v \in running : c = [name |-> v, state |-> get_node_params(i, {v})]
    BY <1>5, Zenon DEF NodeChildren
  <2>2. c.state = "active"
    BY <1>5, <2>1, ValueState
  <2>3. QED
    BY <2>2
<1>6. Candidate(i) # running <=> \E c \in NodeChildren(i) : c.state \in {"set", "delete"}
  BY <1>3, <1>4, <1>5, Zenon
<1>7. QED
  BY <1>2, <1>6, NodeState

\* The list of sessions, the node and its parent always tell the same story of
\* what a session has changed, whatever values and edits there are.
THEOREM ViewsTellTheSame == Spec => []ViewsAgree
BY Viewed, ConfTypeCorrect, PTL
=============================================================================
