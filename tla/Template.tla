-------------------------------- MODULE Template -------------------------------
(***************************************************************************)
(* What the server makes of a template (Configuration::get_template_node   *)
(* and get_operational_node, configuration.cc).  configd and opd give a    *)
(* template as a map, whose entries come in any order; each one adds to    *)
(* TemplateParams, and two corrections follow.                             *)
(***************************************************************************)
EXTENDS Integers

Known == {"is_value", "tag", "multi", "default", "type", "comp_help", "val_help", "help",
          "syntax", "enumeration", "allowed", "secret", "run"}

CONSTANT Keys   \* keys that templates have; others than Known are ignored

None == "NONE"

TypeOrder == <<"txt", "ipv4net", "ipv4", "ipv6net", "ipv6", "u32", "bool", "macaddr">>

VARIABLES
    stage,      \* "idle", "read", "done" or "false", which is also returned
    tmpl,       \* the template
    left,       \* entries that are not read yet
    params      \* TemplateParams

tmplVars == <<stage, tmpl, left, params>>

\* required: the help has "[REQUIRED]"; offers: the node is no container and
\* configd_tmpl_get_allowed names values.
Templates ==
    {t \in [kind : {"conf", "op"}, keys : SUBSET Keys, type : {None, "ipv4", "ipv4net"},
            required : BOOLEAN, children : BOOLEAN, offers : BOOLEAN] :
       (t.type # None <=> "type" \in t.keys) /\ (t.required => "help" \in t.keys)}

NoTmpl == [kind |-> "op", keys |-> {}, type |-> None, required |-> FALSE, children |-> FALSE, offers |-> FALSE]

NoParams ==
    [multi |-> FALSE, end |-> FALSE, mandatory |-> FALSE, type |-> None, enum |-> {},
     help |-> FALSE, val_help |-> FALSE, secret |-> FALSE, action |-> FALSE]

TmplInit == stage = "idle" /\ tmpl = NoTmpl /\ left = {} /\ params = NoParams

\* The path is not valid, or the template is to be read.
Ask(t) ==
    /\ stage = "idle"
    /\ \/ stage' = "read" /\ tmpl' = t /\ left' = t.keys
       \/ t.kind = "conf" /\ stage' = "false" /\ UNCHANGED <<tmpl, left>>
    /\ UNCHANGED params

-----------------------------------------------------------------------------
\* t contains the name p.
Has(t, p) == t = p \/ <<t, p>> \in {<<"ipv4net", "ipv4">>, <<"ipv6net", "ipv6">>}

\* The first of the names that is in the text of a type.
TypeOf(t) ==
    LET named == {i \in DOMAIN TypeOrder : Has(t, TypeOrder[i])}
    IN  TypeOrder[CHOOSE i \in named : \A j \in named : i <= j]

Entry(k, p) ==
    CASE k = "tag" -> [p EXCEPT !.multi = TRUE]
      [] k = "multi" -> [p EXCEPT !.multi = TRUE, !.end = TRUE]
      [] k = "type" -> [p EXCEPT !.type = TypeOf(tmpl.type)]
      [] k = "help" -> [p EXCEPT !.help = TRUE, !.mandatory = @ \/ tmpl.required]
      [] k = "val_help" -> [p EXCEPT !.val_help = TRUE]
      [] k = "syntax" -> [p EXCEPT !.enum = @ \cup {"syntax"}]
      [] k = "secret" -> [p EXCEPT !.secret = TRUE]
      [] k = "run" -> [p EXCEPT !.action = TRUE]
      [] OTHER -> p

\* Mutant: whether there are children replaces what an entry said.
ReadEntry_assign(k) ==
    /\ stage = "read" /\ tmpl.kind = "conf"
    /\ k \in left
    /\ left' = left \ {k}
    /\ params' = IF k \in Known THEN [Entry(k, params) EXCEPT !.end = ~tmpl.children]
                 ELSE Entry(k, params)
    /\ UNCHANGED <<stage, tmpl>>

\* One pass of the loop: after an entry that it knows it looks for children.
ReadEntry(k) ==
    /\ stage = "read" /\ tmpl.kind = "conf"
    /\ k \in left
    /\ left' = left \ {k}
    /\ params' = IF k \in Known /\ ~tmpl.children
                 THEN [Entry(k, params) EXCEPT !.end = TRUE]
                 ELSE Entry(k, params)
    /\ UNCHANGED <<stage, tmpl>>

\* Mutant: the type of a tag's value stays.
Workaround_type(p) ==
    IF "is_value" \in tmpl.keys /\ p.multi /\ ~p.end
    THEN [p EXCEPT !.enum = {}, !.val_help = FALSE, !.help = FALSE, !.multi = FALSE]
    ELSE p

\* A value of a tag node is shown as a container.
Workaround(p) ==
    IF "is_value" \in tmpl.keys /\ p.multi /\ ~p.end
    THEN [p EXCEPT !.type = None, !.enum = {}, !.val_help = FALSE, !.help = FALSE,
                   !.multi = FALSE]
    ELSE p

\* Behind the loop; an empty map has no end to infer.
Finish ==
    /\ stage = "read" /\ tmpl.kind = "conf"
    /\ left = {}
    /\ LET p == Workaround([params EXCEPT !.enum = @ \cup (IF tmpl.offers THEN {"allowed"} ELSE {})])
       IN  params' = [p EXCEPT !.end = @ \/ (tmpl.keys # {} /\ p.type # None /\ ~p.multi)]
    /\ stage' = "done"
    /\ UNCHANGED <<tmpl, left>>

-----------------------------------------------------------------------------
\* get_op_template_node
ReadOpEntry(k) ==
    /\ stage = "read" /\ tmpl.kind = "op"
    /\ k \in left
    /\ left' = left \ {k}
    /\ params' = CASE k = "help" -> [params EXCEPT !.help = TRUE, !.mandatory = @ \/ tmpl.required]
                   [] k = "allowed" -> [params EXCEPT !.enum = IF tmpl.offers THEN {"allowed"} ELSE {}]
                   [] k = "run" -> [params EXCEPT !.action = TRUE]
                   [] OTHER -> params
    /\ UNCHANGED <<stage, tmpl>>

\* get_operational_node
FinishOp ==
    /\ stage = "read" /\ tmpl.kind = "op"
    /\ left = {}
    /\ params' = [params EXCEPT !.end = ~tmpl.children]
    /\ stage' = "done"
    /\ UNCHANGED <<tmpl, left>>

\* The next template starts from nothing.
Again ==
    /\ stage \in {"done", "false"}
    /\ stage' = "idle" /\ tmpl' = NoTmpl /\ left' = {} /\ params' = NoParams

TmplNext ==
    \/ stage = "idle" /\ \E t \in Templates : Ask(t)
    \/ \E k \in Keys : ReadEntry(k) \/ ReadOpEntry(k)
    \/ Finish \/ FinishOp \/ Again

TmplSpec == TmplInit /\ [][TmplNext]_tmplVars

-----------------------------------------------------------------------------
\* A template of the system: types are for leaves and tags, and only tags have
\* children below a type; a value is the value of a tag.
Sensible ==
    /\ {"tag", "multi"} \cap tmpl.keys # {} => "type" \in tmpl.keys
    /\ ~({"tag", "multi"} \subseteq tmpl.keys)
    /\ "type" \in tmpl.keys /\ tmpl.children => "tag" \in tmpl.keys
    /\ "is_value" \in tmpl.keys => "tag" \in tmpl.keys

\* What a template says does not depend on the order in which its entries come
\* (configuration.cc:208-401), although the entries and the corrections behind
\* them write the same fields.
OrderFree ==
    stage = "done" /\ tmpl.kind = "conf" =>
    LET k == tmpl.keys
        tagged == {"tag", "multi"} \cap k # {}
        end == "multi" \in k \/ (~tmpl.children /\ Known \cap k # {})
        container == "is_value" \in k /\ tagged /\ ~end
        Says(key) == key \in k /\ ~container
    IN  params =
          [multi |-> tagged /\ ~container,
           end |-> end \/ (Says("type") /\ ~tagged),
           mandatory |-> "help" \in k /\ tmpl.required,
           type |-> IF Says("type") THEN tmpl.type ELSE None,
           enum |-> (IF Says("syntax") THEN {"syntax"} ELSE {})
                      \cup (IF tmpl.offers /\ ~container THEN {"allowed"} ELSE {}),
           help |-> Says("help"), val_help |-> Says("val_help"),
           secret |-> "secret" \in k, action |-> "run" \in k]

\* A node is shown as an end if and only if there is nothing below it, for
\* templates of either kind with an entry that counts: what the client offers to
\* open can be opened.
EndIsLeaf ==
    stage = "done" /\ Sensible /\ (tmpl.keys \cap Known # {} \/ tmpl.kind = "op") => params.end = ~tmpl.children
=============================================================================
