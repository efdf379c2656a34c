------------------------------ MODULE ConfSession ------------------------------
(***************************************************************************)
(* Configuration sessions: the /rest/conf resource (ConfMode::process,     *)
(* confmode.cc), the modify files that say whose session is whose          *)
(* (common.cc), what configd keeps of a session (external, as the code     *)
(* uses it), and the client library (RestClient.pm).                       *)
(*                                                                         *)
(* The worker serves one request at a time, so that a request is one step. *)
(* The configuration is one node with several values, and its parent.      *)
(***************************************************************************)
EXTENDS Integers, FiniteSets

CONSTANTS
    Users,     \* each has one RestClient object, beside plain requests
    Ids,       \* what generate_token makes
    Tags,      \* descriptions that clients choose
    Values,    \* the values of the node
    Nobody, Closed, NoTag, NoLoc,
    Faults     \* what may go wrong

FaultKinds == {"down", "popen", "token", "setup", "create", "write", "restart", "lost"}

ASSUME ConfSessionAssumption ==
    /\ Faults \subseteq FaultKinds
    /\ Nobody \notin Users \cup {Closed}
    /\ Closed \notin Users
    /\ NoTag \notin Tags \cup Ids
    /\ NoLoc \notin Tags \cup Ids

VARIABLES
    owner,     \* who the modify file of a session names; Nobody: it is
               \*   empty, Closed: there is none
    tag,       \* the description in the modify file
    live,      \* the sessions that configd has
    edits,     \* edits[i]: what the session adds and removes
    running,   \* the running configuration
    loc,       \* _conf_loc of a RestClient
    unc,       \* its _uncommitted is not 0
    by,        \* whose request was served last
    orderly    \* nothing has failed so far

serverVars == <<owner, tag, live, edits, running>>
clientVars == <<loc, unc>>
vars == <<serverVars, clientVars, by, orderly>>

Store == INSTANCE ConfStore

NoEdits == [add |-> {}, del |-> {}]

TypeOK ==
    /\ owner \in [Ids -> Users \cup {Nobody, Closed}]
    /\ tag \in [Ids -> Tags \cup {NoTag}]
    /\ live \subseteq Ids
    /\ edits \in [Ids -> [add : SUBSET Values, del : SUBSET Values]]
    /\ running \subseteq Values
    /\ loc \in [Users -> Ids \cup {NoLoc}]
    /\ unc \in [Users -> BOOLEAN]
    /\ by \in Users \cup {Nobody}
    /\ orderly \in BOOLEAN
    /\ \A i \in Ids : owner[i] \in {Nobody, Closed} => tag[i] = NoTag
    /\ \A i \in Ids : i \notin live \/ owner[i] = Closed => edits[i] = NoEdits

Init ==
    /\ owner = [i \in Ids |-> Closed]
    /\ tag = [i \in Ids |-> NoTag]
    /\ live = {}
    /\ edits = [i \in Ids |-> NoEdits]
    /\ running \in SUBSET Values
    /\ loc = [u \in Users |-> NoLoc]
    /\ unc = [u \in Users |-> FALSE]
    /\ by = Nobody
    /\ orderly = TRUE

\* Whether a call works: it does, or it fails for a reason the instance allows.
Works(fault) == IF fault \in Faults THEN BOOLEAN ELSE {TRUE}

-----------------------------------------------------------------------------
(***************************************************************************)
(* configd.  A session holds what it adds and removes; the candidate is    *)
(* the running configuration with that applied.                            *)
(***************************************************************************)
Candidate(i) == (running \cup edits[i].add) \ edits[i].del

\* The edits that lead to the configuration conf.
EditsTo(conf) == [add |-> conf \ running, del |-> running \ conf]

sess_changed(i) == i \in live /\ Candidate(i) # running

\* configd_node_get_status of a part of the configuration, S.
get_status(i, S) ==
    LET new == Candidate(i) \cap S
        old == running \cap S
    IN CASE new = old               -> "unchanged"
         [] new = {} /\ old # {}    -> "deleted"
         [] new # {} /\ old = {}    -> "added"
         [] OTHER                   -> "changed"

-----------------------------------------------------------------------------
(***************************************************************************)
(* Modify files.                                                           *)
(***************************************************************************)
\* read_conf_modify_file_from_tag: the sessions it may find, in the order of
\* the directory.
Tagged(u, x) == {i \in Ids : owner[i] = u /\ tag[i] = x /\ x # NoTag}

\* Mutant: an id is as good as its owner's name.
Found_id(u, x) ==
    IF x \in Ids /\ owner[x] # Closed THEN {[id |-> x, user |-> u]}
    ELSE {[id |-> i, user |-> u] : i \in Tagged(u, x)}

\* The session and the user that a request's target stands for.  An empty
\* modify file leaves the user of the request.
Found(u, x) ==
    IF x \in Ids /\ owner[x] # Closed
    THEN {[id |-> x, user |-> IF owner[x] = Nobody THEN u ELSE owner[x]]}
    ELSE {[id |-> i, user |-> u] : i \in Tagged(u, x)}

\* The sessions that a request of u for x gets past the checks with.
Own(u, x) == {f.id : f \in {g \in Found(u, x) : g.user = u}}

-----------------------------------------------------------------------------
(***************************************************************************)
(* Requests.  ok is FALSE when the answer has an error status, fine when a *)
(* call that the request makes fails.                                      *)
(***************************************************************************)
\* Mutant: the description is not looked up.
DupDescription_never(u, d) == FALSE /\ Tagged(u, d) # {}

\* "verify description is unique for this user": the user is that of the
\* session whose id equals the description, if there is one.
DupDescription(u, d) ==
    LET user == IF d \in Ids /\ owner[d] \in Users THEN owner[d] ELSE u
    IN Tagged(user, d) # {}

(***************************************************************************)
(* POST /rest/conf or /rest/conf/<description>.  That configd did not set  *)
(* up the session is only logged.  The modify file may not be created, or  *)
(* not be written; the latter is not noticed, as fclose is not checked.    *)
(***************************************************************************)
Create(u, d, i, ok, fine) ==
    /\ owner[i] = Closed /\ i \notin live /\ \A c \in Users : loc[c] # i
    /\ \E token \in Works("token"), setup \in Works("setup"),
          create \in Works("create"), write \in Works("write") :
          /\ ok = (~DupDescription(u, d) /\ token /\ create)
          /\ IF DupDescription(u, d) \/ ~token
             THEN UNCHANGED serverVars
             ELSE /\ live' = IF setup THEN live \cup {i} ELSE live
                  /\ owner' = [owner EXCEPT ![i] = CASE ~create -> Closed
                                                     [] create /\ ~write -> Nobody
                                                     [] OTHER -> u]
                  /\ tag' = [tag EXCEPT ![i] = IF create /\ write THEN d ELSE NoTag]
                  /\ UNCHANGED <<edits, running>>
          /\ fine = (token /\ setup /\ create /\ write)

\* cfgcli runs in the session; configd refuses what is there already, or is
\* not, and a session that it does not have.
Cfgcli(i, verb, v, ok) ==
    /\ ok = /\ i \in live
            /\ verb = "set" => v \notin Candidate(i)
            /\ verb = "delete" => v \in Candidate(i)
    /\ edits' = CASE ok /\ verb = "set" ->
                       [edits EXCEPT ![i] = [add |-> @.add \cup {v}, del |-> @.del \ {v}]]
                  [] ok /\ verb = "delete" ->
                       [edits EXCEPT ![i] = [add |-> @.add \ {v}, del |-> @.del \cup {v}]]
                  [] OTHER -> edits

(***************************************************************************)
(* A request that names no session of the user is refused.                 *)
(***************************************************************************)
Refuse(u, x, ok, fine) ==
    /\ Own(u, x) = {}
    /\ ok = FALSE /\ fine = TRUE
    /\ UNCHANGED serverVars

(***************************************************************************)
(* PUT /rest/conf/<id>/<verb>/...: a program is run in the session, unless *)
(* the verb is not known.  A failure of popen goes unnoticed.              *)
(***************************************************************************)
Put(i, verb, v, ok, fine) ==
    /\ \/ /\ verb = "unknown"
          /\ ok = FALSE /\ fine = TRUE
          /\ UNCHANGED edits
       \/ /\ verb # "unknown"
          /\ fine \in Works("popen")
          /\ IF fine THEN Cfgcli(i, verb, v, ok) ELSE ok = TRUE /\ UNCHANGED edits
    /\ UNCHANGED <<owner, tag, live, running>>

\* Mutant: the session ends without its edits being discarded.
discard_session_kept(i, exit, fine) ==
    /\ fine \in Works("down")
    /\ UNCHANGED edits
    /\ IF fine /\ exit
       THEN /\ live' = live \ {i}
            /\ owner' = [owner EXCEPT ![i] = Closed]
            /\ tag' = [tag EXCEPT ![i] = NoTag]
       ELSE UNCHANGED <<live, owner, tag>>

\* Mutant: the modify file stays.
discard_session_file(i, exit, fine) ==
    /\ fine \in Works("down")
    /\ edits' = IF fine THEN [edits EXCEPT ![i] = NoEdits] ELSE edits
    /\ live' = IF fine /\ exit THEN live \ {i} ELSE live
    /\ UNCHANGED <<owner, tag>>

\* Nothing is done, the modify file included, when configd cannot be reached.
discard_session(i, exit, fine) ==
    /\ fine \in Works("down")
    /\ edits' = IF fine THEN [edits EXCEPT ![i] = NoEdits] ELSE edits
    /\ IF fine /\ exit
       THEN /\ live' = live \ {i}
            /\ owner' = [owner EXCEPT ![i] = Closed]
            /\ tag' = [tag EXCEPT ![i] = NoTag]
       ELSE UNCHANGED <<live, owner, tag>>

\* DELETE /rest/conf/<id> always succeeds.
Delete(i, ok, fine) ==
    /\ discard_session(i, TRUE, fine)
    /\ ok = TRUE
    /\ UNCHANGED running

\* POST /rest/conf/<id>/discard does, too.
Discard(i, ok, fine) ==
    /\ discard_session(i, FALSE, fine)
    /\ ok = TRUE
    /\ UNCHANGED running

\* Mutant: what is committed is not taken out of the session.
commit_twice(i) ==
    /\ running' = Candidate(i)
    /\ UNCHANGED edits

\* configd_commit.
commit(i) ==
    /\ running' = Candidate(i)
    /\ edits' = [edits EXCEPT ![i] = NoEdits]

(***************************************************************************)
(* POST /rest/conf/<id>/commit.  configd may refuse the candidate.  No     *)
(* status is set when configd cannot be reached, which is a success.       *)
(***************************************************************************)
Commit(i, ok, fine) ==
    /\ fine \in Works("down")
    /\ \/ fine /\ ok /\ i \in live /\ commit(i)
       \/ fine /\ ~ok /\ UNCHANGED <<edits, running>>
       \/ ~fine /\ ok /\ UNCHANGED <<edits, running>>
    /\ UNCHANGED <<owner, tag, live>>

\* POST /rest/conf/<id>/load and /merge: the edits become those that lead to
\* the configuration in a file, or that add it.
Load(i, conf, merge, ok, fine) ==
    /\ fine \in Works("popen")
    /\ ok = (fine => i \in live)
    /\ edits' = IF fine /\ ok
                THEN [edits EXCEPT ![i] = EditsTo(IF merge THEN Candidate(i) \cup conf ELSE conf)]
                ELSE edits
    /\ UNCHANGED <<owner, tag, live, running>>

-----------------------------------------------------------------------------
(***************************************************************************)
(* RestClient.  An answer that does not arrive counts as an error.         *)
(***************************************************************************)
\* The client sees an answer without error.
Answer(ok, fine, seen) ==
    /\ seen = ok \/ (ok /\ "lost" \in Faults)
    /\ orderly' = (orderly /\ fine /\ seen = ok)

SetClient(u, l, n) ==
    /\ loc' = [loc EXCEPT ![u] = l]
    /\ unc' = [unc EXCEPT ![u] = n]

\* configure: the session that the client had is to be deleted first, but the
\* URL repeats "rest/conf", and no session has that name.
configure(u, i) ==
    \E ok, fine, seen \in BOOLEAN :
        /\ Create(u, NoTag, i, ok, fine)
        /\ Answer(ok, fine, seen)
        /\ SetClient(u, IF seen THEN i ELSE NoLoc, ~seen /\ unc[u])

\* set and delete.
set(u, verb, v) ==
    \E ok, fine, seen \in BOOLEAN :
        /\ \/ Refuse(u, loc[u], ok, fine)
           \/ \E i \in Own(u, loc[u]) : Put(i, verb, v, ok, fine)
        /\ Answer(ok, fine, seen)
        /\ SetClient(u, loc[u], unc[u] \/ seen)

commit_session(u) ==
    \E ok, fine, seen \in BOOLEAN :
        /\ \/ Refuse(u, loc[u], ok, fine)
           \/ \E i \in Own(u, loc[u]) : Commit(i, ok, fine)
        /\ Answer(ok, fine, seen)
        /\ SetClient(u, loc[u], unc[u] /\ ~seen)

\* configure_exit forgets the session whatever the answer; it refuses to while
\* there are edits, unless configure_exit_discard has reset the count.
configure_exit(u, discard) ==
    /\ unc[u] => discard
    /\ \E ok, fine, seen \in BOOLEAN :
          /\ \/ Refuse(u, loc[u], ok, fine)
             \/ \E i \in Own(u, loc[u]) : Delete(i, ok, fine)
          /\ Answer(ok, fine, seen)
    /\ SetClient(u, NoLoc, FALSE)

-----------------------------------------------------------------------------
\* Requests that do not come from a RestClient do not use its session, unless
\* they are from another user.
Target(u) == {x \in Ids \cup Tags : loc[u] # x}

\* configd restarts and has no sessions.
Restart ==
    /\ "restart" \in Faults
    /\ live' = {}
    /\ edits' = [i \in Ids |-> NoEdits]
    /\ by' = Nobody
    /\ orderly' = FALSE
    /\ UNCHANGED <<owner, tag, running, clientVars>>

Request(u) ==
    /\ \E ok, fine \in BOOLEAN :
          /\ \/ \E d \in Tags \cup {NoTag}, i \in Ids : Create(u, d, i, ok, fine)
             \/ \E x \in Target(u) : Refuse(u, x, ok, fine)
             \/ \E x \in Target(u) : \E i \in Own(u, x) :
                   \/ \E verb \in {"set", "delete", "comment", "unknown"}, v \in Values :
                         Put(i, verb, v, ok, fine)
                   \/ Delete(i, ok, fine)
                   \/ Commit(i, ok, fine)
                   \/ Discard(i, ok, fine)
                   \/ \E conf \in SUBSET Values, merge \in BOOLEAN :
                         Load(i, conf, merge, ok, fine)
          /\ orderly' = (orderly /\ fine)
    /\ UNCHANGED clientVars

Client(u) ==
    \/ \E i \in Ids : configure(u, i)
    \/ /\ loc[u] # NoLoc
       /\ \/ \E verb \in {"set", "delete"}, v \in Values : set(u, verb, v)
          \/ commit_session(u)
          \/ \E discard \in BOOLEAN : configure_exit(u, discard)

Next ==
    \/ \E u \in Users : by' = u /\ (Request(u) \/ Client(u))
    \/ Restart

Spec == Init /\ [][Next]_vars

-----------------------------------------------------------------------------
(***************************************************************************)
(* What GET answers.                                                       *)
(***************************************************************************)
\* GET /rest/conf: the sessions whose file names the user, and whether they
\* have edits.
ListOf(u) == {[id |-> i, modified |-> sess_changed(i)] : i \in {j \in Ids : owner[j] = u}}

\* Mutant: a node that has changed is new.
get_node_params_changed(i, S) ==
    CASE get_status(i, S) = "deleted" -> "delete"
      [] get_status(i, S) \in {"changed", "added"} -> "set"
      [] OTHER -> IF running \cap S # {} THEN "active" ELSE "none"

\* get_node_params: the state of the node whose values are S, or of a value.
get_node_params(i, S) ==
    CASE get_status(i, S) = "deleted" -> "delete"
      [] get_status(i, S) = "changed" -> "active"
      [] get_status(i, S) = "added" -> "set"
      [] OTHER -> IF running \cap S # {} THEN "active" ELSE "none"

\* parse_value_and_state of the node: its values that are running, then those
\* that only the candidate has.
NodeChildren(i) ==
    {[name |-> v, state |-> get_node_params(i, {v})] : v \in running}
        \cup {[name |-> v, state |-> get_node_params(i, {v})] : v \in Candidate(i) \ running}

\* parse_value_and_state of the parent: the state of the node.
ContainerChild(i) ==
    LET new == Candidate(i) # {}
        old == running # {}
    IN CASE new /\ old -> "active"
         [] new /\ ~old -> "set"
         [] ~new /\ old -> "delete"
         [] OTHER -> "none"

-----------------------------------------------------------------------------
\* The resource keeps its promise (ConfStore): a session is opened, edited,
\* committed and closed by requests of its owner alone, a commit puts in force
\* what was pending in its session and nothing else, and no fault but a restart
\* of configd loses an edit.
StoreSpec == Store!Spec

\* confmode.cc:541: "verify description is unique for this user if defined".
UniqueTags ==
    \A i, j \in Ids : owner[i] = owner[j] /\ tag[i] = tag[j] /\ tag[i] # NoTag => i = j

\* Modify files and configd agree on which sessions there are, as long as no
\* call has failed: sessions are made and ended in both.
SameSessions == orderly => live = {i \in Ids : owner[i] # Closed}

\* A client that counts no uncommitted edits has none in its session
\* (RestClient.pm:579), as long as no call has failed.
CountRight ==
    orderly => \A u \in Users : loc[u] # NoLoc /\ ~unc[u] => edits[loc[u]] = NoEdits

\* A commit that the client takes for done is done: its edits are in force and
\* no longer pending (RestClient.pm:544).
CommitDone ==
    [][\A u \in Users :
          unc[u] /\ ~unc'[u] /\ loc'[u] = loc[u] => edits'[loc[u]] = NoEdits]_vars

\* The list, the node and its parent tell the same story: a session is listed
\* as modified exactly when one of the node's values is shown as set or
\* deleted, and the parent shows the state that the node has.
ViewsAgree ==
    \A u \in Users : \A s \in ListOf(u) : s.id \in live =>
        /\ s.modified <=> \E c \in NodeChildren(s.id) : c.state \in {"set", "delete"}
        /\ ContainerChild(s.id) = get_node_params(s.id, Values)
=============================================================================
