------------------------------- MODULE RestServer ------------------------------
(***************************************************************************)
(* The life of a request in the REST worker: main.cc accepts and parses    *)
(* it, Authenticate establishes the user and lets the worker act as that   *)
(* user, Process::dispatch calls the mode, the answer is written, and the  *)
(* worker becomes itself again.  AppMode and ServiceMode run a program and *)
(* collect its output (Mode::system_out, mode.cc), which is modelled step  *)
(* by step with the program; OpMode and ConfMode have modules of their     *)
(* own and are here requests that are answered.                            *)
(***************************************************************************)
EXTENDS Integers, Sequences

CONSTANTS
    Users,      \* account names; an account's uid and primary gid, too
    CfgUsers,   \* the members of vyattacfg
    Cfg,        \* the gid of vyattacfg
    Root,       \* g_uid and g_gid
    Bodies,     \* request bodies
    Services,   \* number of services
    NoTemplate, \* those whose template cannot be read
    MaxOutput,  \* bound: pieces of output that a program writes
    MaxBody,    \* MAX_BODY_SIZE in pieces
    Faults      \* what may go wrong

Nobody == "nobody"
NoBody == "nobody"

FaultKinds == {"fopen", "fwrite", "pipe", "fork", "setid"}

ASSUME RestServerAssumption ==
    /\ CfgUsers \subseteq Users
    /\ {Root, Cfg} \cap Users = {} /\ Root # Cfg
    /\ Services \in Nat /\ NoTemplate \subseteq 1 .. Services
    /\ MaxOutput \in Nat /\ MaxBody \in Nat
    /\ Faults \subseteq FaultKinds

VARIABLES
    pc,         \* where the worker is
    req,        \* the request
    todo,       \* the calls that authorized has yet to make
    session,    \* _auth_type and _service_user
    code,       \* HTTP_RESP_CODE; 0: not set
    uid, gid,   \* real, effective and saved ids of the worker
    groups,     \* whose supplementary groups it has
    loginuid,   \* its audit login uid
    input,      \* the file JSON_INPUT, if it exists
    tidy,       \* no request has left that file behind
    index,      \* where service_index is
    child,      \* the program
    wrote,      \* pieces of output that it and its descendants wrote
    data        \* pieces of output read; the others are in the pipe

idVars == <<uid, gid, groups, loginuid>>
workVars == <<req, todo, session, code, index>>
runVars == <<input, tidy, child, wrote, data>>
vars == <<pc, workVars, idVars, runVars>>

Own == [real |-> Root, eff |-> Root, saved |-> Root]

NoChild == [state |-> "none", ruid |-> Root, euid |-> Root, gid |-> Root, stdin |-> NoBody,
            out |-> FALSE, bg |-> FALSE, status |-> 0]

NoInput == [owner |-> Nobody, body |-> NoBody]

NoRequest == [auth |-> "none", user |-> Nobody, service |-> FALSE, path |-> "other",
              get |-> FALSE, big |-> FALSE, body |-> NoBody]

NoSession == [auth |-> "none", service |-> FALSE]

Requests ==
    {r \in [auth : {"none", "basic", "session"}, user : Users, service : BOOLEAN,
            path : {"app", "op", "conf", "permissions", "service", "services", "other"},
            get : BOOLEAN, big : BOOLEAN, body : Bodies] :
       r.auth = "basic" /\ r.path \in {"service", "services"} => r.service}

TypeOK ==
    /\ pc \in {"accept", "parse", "auth", "dispatch", "index", "run", "read", "wait",
               "reply", "done"}
    /\ req \in Requests \cup {NoRequest}
    /\ session \in [auth : {"none", "basic", "session"}, service : BOOLEAN]
    /\ code \in {0, 200, 201, 202, 400, 401, 404, 410, 500}
    /\ uid \in [real : Users \cup {Root}, eff : Users \cup {Root}, saved : Users \cup {Root}]
    /\ gid \in [real : Users \cup {Root, Cfg}, eff : Users \cup {Root, Cfg},
               saved : Users \cup {Root, Cfg}]
    /\ groups \in Users \cup {Root} /\ loginuid \in Users \cup {Root}
    /\ input \in [owner : Users \cup {Root, Nobody}, body : Bodies \cup {NoBody}]
    /\ index \in 0 .. Services
    /\ child.state \in {"none", "new", "run", "zombie"}
    /\ child.out => child.state \in {"new", "run"}
    /\ wrote \in 0 .. MaxOutput /\ data \in 0 .. wrote
    /\ pc \notin {"read", "wait"} => child = NoChild

Init ==
    /\ pc = "accept"
    /\ req = NoRequest /\ session = NoSession
    /\ todo = <<>>
    /\ code = 0
    /\ uid = Own /\ gid = Own
    /\ groups = Root /\ loginuid = Root
    /\ input = NoInput /\ tidy = TRUE
    /\ index = 0
    /\ child = NoChild /\ wrote = 0 /\ data = 0

GoTo(l) == pc' = l

-----------------------------------------------------------------------------
(***************************************************************************)
(* Ids.  A call returns whether it is permitted and what it changes.       *)
(***************************************************************************)
Privileged == uid.eff = Root

seteuid(u) ==
    /\ Privileged \/ u \in {uid.real, uid.saved}
    /\ uid' = [uid EXCEPT !.eff = u]

setegid(g) ==
    /\ Privileged \/ g \in {gid.real, gid.saved}
    /\ gid' = [gid EXCEPT !.eff = g]

\* All ids for the superuser, the effective one for others.
AfterSetuid(u) ==
    IF Privileged THEN [uid EXCEPT !.real = u, !.eff = u, !.saved = u]
    ELSE IF u \in {uid.real, uid.saved} THEN [uid EXCEPT !.eff = u] ELSE uid

AfterSetgid(g, privileged) ==
    IF privileged THEN [gid EXCEPT !.real = g, !.eff = g, !.saved = g]
    ELSE IF g \in {gid.real, gid.saved} THEN [gid EXCEPT !.eff = g] ELSE gid

-----------------------------------------------------------------------------
(***************************************************************************)
(* The loop of main.                                                       *)
(***************************************************************************)
Accept(r) ==
    /\ pc = "accept"
    /\ GoTo("parse")
    /\ req' = r
    /\ UNCHANGED <<todo, session, code, index, idVars, runVars>>

\* What AuthBasic::authorized and AuthSession::authorized call, in order.
AuthCalls ==
    CASE req.auth = "none" -> <<"fail">>
      [] req.auth = "basic" ->
           IF req.service THEN <<"pam">>
           ELSE <<"getpwnam", "setgroups", "pam", "loginuid", "setegid", "seteuid">>
      [] req.auth = "session" ->
           IF req.service THEN <<"record">>
           ELSE <<"record", "loginuid", "setgroups", "setegid", "seteuid">>

\* A body that is too large is an error; the request is dispatched all the
\* same, without authentication.
parse ==
    /\ pc = "parse"
    /\ IF req.big THEN GoTo("dispatch") /\ code' = 400 /\ UNCHANGED todo
                  ELSE GoTo("auth") /\ todo' = AuthCalls /\ UNCHANGED code
    /\ UNCHANGED <<req, session, index, idVars, runVars>>

\* The group to act as: Basic prefers vyattacfg, a session keeps the primary.
EffectiveGroup == IF req.auth = "basic" /\ req.user \in CfgUsers THEN Cfg ELSE req.user

\* Whether a call of authorized succeeds, and its effect.
Does(call) ==
    /\ call # "fail"
    /\ IF call = "loginuid" THEN Privileged /\ loginuid' = req.user ELSE UNCHANGED loginuid
    /\ IF call = "setgroups" THEN Privileged /\ groups' = req.user ELSE UNCHANGED groups
    /\ IF call = "setegid" THEN setegid(EffectiveGroup) ELSE UNCHANGED gid
    /\ IF call = "seteuid" THEN seteuid(req.user) ELSE UNCHANGED uid

\* Authenticate::validate calls authorized of the class for the header.
authorized ==
    /\ pc = "auth"
    /\ todo # <<>>
    /\ Does(Head(todo))
    /\ todo' = Tail(todo)
    /\ UNCHANGED <<pc, req, session, code, index, runVars>>

\* Mutant: a failure to change ids is logged and no more.
notAuthorized_logged ==
    /\ pc = "auth"
    /\ todo # <<>>
    /\ todo' = Tail(todo)
    /\ IF Head(todo) \in {"loginuid", "setgroups", "setegid", "seteuid"}
       THEN "setid" \in Faults /\ UNCHANGED <<pc, code>>
       ELSE GoTo("reply") /\ code' = 401
    /\ UNCHANGED <<req, session, index, idVars, runVars>>

\* A call fails: the account is not there, the password is wrong, the session
\* has expired, or the system refuses.  What was changed is not set back here.
notAuthorized ==
    /\ pc = "auth"
    /\ todo # <<>>
    /\ Head(todo) \in {"loginuid", "setgroups", "setegid", "seteuid"} => "setid" \in Faults
    /\ GoTo("reply")
    /\ code' = 401
    /\ todo' = <<>>
    /\ UNCHANGED <<req, session, index, idVars, runVars>>

Authorized ==
    /\ pc = "auth"
    /\ todo = <<>>
    /\ GoTo("dispatch")
    /\ session' = [auth |-> req.auth, service |-> req.service]
    /\ UNCHANGED <<req, todo, code, index, idVars, runVars>>

\* The Session of the request is gone at the end of the loop.
Finish ==
    /\ pc = "done"
    /\ GoTo("accept")
    /\ req' = NoRequest /\ session' = NoSession
    /\ code' = 0 /\ index' = 0
    /\ wrote' = 0 /\ data' = 0
    /\ UNCHANGED <<todo, groups, input, tidy, child>>

\* Mutant: the ids are left as they are when the request was refused.
done_refused ==
    /\ Finish
    /\ IF code = 401 THEN UNCHANGED <<uid, gid, loginuid>>
       ELSE uid' = AfterSetuid(Root) /\ gid' = AfterSetgid(Root, TRUE) /\ loginuid' = Root

\* setuid, setgid and audit_setloginuid; the groups stay.
done ==
    /\ Finish
    /\ uid' = AfterSetuid(Root)
    /\ gid' = AfterSetgid(Root, uid'.eff = Root)
    /\ loginuid' = IF uid'.eff = Root THEN Root ELSE loginuid

-----------------------------------------------------------------------------
(***************************************************************************)
(* Process::dispatch and the modes.  The last error that is set is the     *)
(* status of the answer.                                                   *)
(***************************************************************************)
Error(c) ==
    /\ pc = "dispatch"
    /\ GoTo("reply")
    /\ code' = c
    /\ UNCHANGED <<req, todo, session, index, idVars, runVars>>

\* A service user has the services, the others have the rest.
ModeFor ==
    IF session.service
    THEN IF req.path \in {"service", "services"} THEN req.path ELSE "invalid"
    ELSE IF req.path \in {"app", "op", "conf", "permissions"} THEN req.path ELSE "invalid"

\* Every mode refuses a session that is not authenticated.
Unauthenticated == ModeFor # "invalid" /\ session.auth = "none"

\* OpMode and ConfMode, which wants the vyattacfg group.
AnswerMode ==
    /\ ModeFor \in {"op", "conf"}
    /\ session.auth # "none"
    /\ IF ModeFor = "conf" /\ req.user \notin CfgUsers
       THEN Error(401)
       ELSE \E c \in {code, 201, 202, 400, 401, 404, 410, 500} : Error(c)

\* Permissions::process: what configd and opd say, of those that answer.
AnswerPermissions ==
    /\ ModeFor = "permissions"
    /\ session.auth # "none"
    /\ Error(IF req.get THEN code ELSE 400)

\* The program that is asked for: AppMode wants a name, ServiceMode a GET and
\* a command that has a template.
Program == ModeFor \in {"app", "service"} /\ session.auth # "none"

\* fopen with mode "w" needs a file that is the caller's, or none.
CanOpen == input.owner \in {Nobody, uid.eff} \/ Privileged

\* The body of the request is written to JSON_INPUT.
StartProgram ==
    /\ pc = "dispatch"
    /\ Program
    /\ req.path = "service" => req.get
    /\ CanOpen
    /\ LET owner == IF input = NoInput THEN uid.eff ELSE input.owner IN
       \/ /\ input' = [owner |-> owner, body |-> req.body]
          /\ GoTo("run")
          /\ UNCHANGED <<code, tidy>>
       \/ /\ "fwrite" \in Faults
          /\ input' = [owner |-> owner, body |-> NoBody]
          /\ tidy' = FALSE
          /\ GoTo("reply")
          /\ code' = 500
    /\ UNCHANGED <<req, todo, session, index, idVars, child, wrote, data>>

RefuseProgram ==
    \/ Program /\ Error(400)
    \/ Program /\ (~CanOpen \/ "fopen" \in Faults) /\ Error(500)

dispatch ==
    \/ ModeFor = "invalid" /\ Error(400)
    \/ Unauthenticated /\ Error(401)
    \/ AnswerMode
    \/ AnswerPermissions
    \/ StartProgram
    \/ RefuseProgram
    \/ ModeFor = "services" /\ session.auth # "none" /\ ~req.get /\ Error(400)

\* Mutant: every pass is the next pass over the same service.
NextService_same(i) == i

\* The loop goes on without an increment when there is no template.
NextService(i) == IF i + 1 \in NoTemplate THEN i ELSE i + 1

\* GET /rest/service: one entry for each service.
service_index ==
    \/ /\ pc = "dispatch"
       /\ ModeFor = "services" /\ session.auth # "none" /\ req.get
       /\ GoTo("index")
       /\ UNCHANGED <<workVars, idVars, runVars>>
    \/ /\ pc = "index"
       /\ index < Services
       /\ index' = NextService(index)
       /\ UNCHANGED <<pc, req, todo, session, code, idVars, runVars>>
    \/ /\ pc = "index"
       /\ index = Services
       /\ GoTo("reply")
       /\ UNCHANGED <<workVars, idVars, runVars>>

-----------------------------------------------------------------------------
(***************************************************************************)
(* Mode::system_out and what AppMode and ServiceMode do after it.          *)
(***************************************************************************)
\* Mutant: the file stays.
Collected_file(status) ==
    /\ GoTo("reply")
    /\ code' = IF status # 0 THEN 400 ELSE code
    /\ UNCHANGED input

\* The input file is removed; the output is the body, whatever the status.
Collected(status) ==
    /\ GoTo("reply")
    /\ code' = IF status # 0 THEN 400 ELSE code
    /\ input' = NoInput

\* Mutant: the child keeps the ids of the worker.
ChildIds_worker == [r |-> uid.real, e |-> uid.eff, g |-> gid.real]

\* setregid and setreuid in the child.
ChildIds == [r |-> uid.eff, e |-> uid.eff, g |-> gid.eff]

(***************************************************************************)
(* The pipe and the child.  When fork fails the parent goes on as if it    *)
(* had a child.                                                            *)
(***************************************************************************)
system_out ==
    /\ pc = "run"
    /\ \/ /\ "pipe" \in Faults
          /\ Collected(1)
          /\ UNCHANGED child
       \/ /\ "fork" \in Faults
          /\ GoTo("read")
          /\ UNCHANGED <<code, input, child>>
       \/ /\ GoTo("read")
          /\ child' = [NoChild EXCEPT !.state = "new", !.out = TRUE, !.ruid = ChildIds.r,
                                      !.euid = ChildIds.e, !.gid = ChildIds.g]
          /\ UNCHANGED <<code, input>>
    /\ UNCHANGED <<req, todo, session, index, idVars, tidy, wrote, data>>

\* Someone has the write end of the pipe.
Writers == child.out \/ child.bg

\* Mutant: an empty pipe ends the loop.
EndOfOutput_empty == data = wrote

\* read returns 0.
EndOfOutput == data = wrote /\ ~Writers

\* The loop around select and read; an empty pipe is tried again.
readOutput ==
    /\ pc = "read"
    /\ \/ data < wrote /\ data' = data + 1 /\ UNCHANGED pc
       \/ EndOfOutput /\ GoTo("wait") /\ UNCHANGED data
    /\ UNCHANGED <<workVars, idVars, input, tidy, child, wrote>>

\* Mutant: nobody waits for the program.
waitChild_not ==
    /\ pc = "wait"
    /\ Collected(0)
    /\ UNCHANGED <<req, todo, session, index, idVars, tidy, child, wrote, data>>

\* wait fails when there is no child, and leaves the status undefined.
waitChild ==
    /\ pc = "wait"
    /\ \/ child.state = "zombie" /\ Collected(child.status)
       \/ child.state = "none" /\ \E garbage \in {0, 1} : Collected(garbage)
    /\ child' = NoChild
    /\ UNCHANGED <<req, todo, session, index, idVars, tidy, wrote, data>>

\* HTTP::serialize: no code is 200, and a body that is too large is 500.
reply ==
    /\ pc = "reply"
    /\ GoTo("done")
    /\ code' = CASE data > MaxBody -> 500
                 [] data <= MaxBody /\ code = 0 -> 200
                 [] OTHER -> code
    /\ UNCHANGED <<req, todo, session, index, idVars, runVars>>

-----------------------------------------------------------------------------
(***************************************************************************)
(* The program: a shell that opens the input file, and a command that may  *)
(* close its output before it ends, or leave a process that has it open.   *)
(***************************************************************************)
ChildStep(c) ==
    /\ child' = c
    /\ UNCHANGED <<pc, workVars, idVars, input, tidy, data>>

OpenInput ==
    /\ child.state = "new"
    /\ IF input = NoInput
       THEN ChildStep([child EXCEPT !.state = "zombie", !.out = FALSE, !.status = 1])
       ELSE ChildStep([child EXCEPT !.state = "run", !.stdin = input.body])
    /\ UNCHANGED wrote

WriteOutput ==
    /\ child.state = "run" /\ Writers
    /\ wrote < MaxOutput
    /\ wrote' = wrote + 1
    /\ ChildStep(child)

CloseOutput ==
    /\ child.state = "run" /\ child.out
    /\ ChildStep([child EXCEPT !.out = FALSE])
    /\ UNCHANGED wrote

Background ==
    /\ child.state = "run" /\ child.out
    /\ ChildStep([child EXCEPT !.bg = TRUE])
    /\ UNCHANGED wrote

ChildExit ==
    /\ child.state = "run"
    /\ \E status \in {0, 1} :
          ChildStep([child EXCEPT !.state = "zombie", !.out = FALSE, !.status = status])
    /\ UNCHANGED wrote

BackgroundWrite ==
    /\ child.bg /\ child.state = "zombie"
    /\ wrote < MaxOutput
    /\ wrote' = wrote + 1
    /\ ChildStep(child)

BackgroundExit ==
    /\ child.bg
    /\ ChildStep([child EXCEPT !.bg = FALSE])
    /\ UNCHANGED wrote

Worker ==
    \/ parse \/ authorized \/ notAuthorized \/ Authorized
    \/ dispatch \/ service_index
    \/ system_out \/ readOutput \/ waitChild
    \/ reply \/ done

Programs == OpenInput \/ WriteOutput \/ CloseOutput \/ Background \/ ChildExit \/ BackgroundWrite \/ BackgroundExit

Next ==
    \/ \E r \in Requests : Accept(r)
    \/ Worker
    \/ Programs

Spec == Init /\ [][Next]_vars

\* The worker runs, and programs and what they leave behind come to an end.
FairSpec ==
    /\ Spec
    /\ WF_vars(Worker)
    /\ WF_vars(OpenInput \/ ChildExit)
    /\ WF_vars(BackgroundExit)

-----------------------------------------------------------------------------
\* A request is handled as the user it comes from: once authenticated, the
\* effective ids, the groups and the login uid are those of the account
\* (authbasic.cc:197-268, authsession.cc:320-347), whatever requests came
\* before, and how they failed.  A service user has no account.
ActsAsUser ==
    pc \in {"dispatch", "run", "read", "wait"} /\ session.auth # "none" /\ ~session.service =>
        /\ uid.eff = req.user
        /\ gid.eff \in {req.user} \cup (IF req.user \in CfgUsers THEN {Cfg} ELSE {})
        /\ groups = req.user
        /\ loginuid = req.user

\* The program of a request has the ids of the user for good, real and
\* effective (mode.cc:53-54), and reads the body of that request, not of
\* another one (appmode.cc:75: "We cannot share the input across all sessions").
ProgramIsUsers ==
    child.state \in {"run", "zombie"} /\ child.stdin # NoBody =>
        /\ child.stdin = req.body
        /\ child.ruid = uid.eff /\ child.euid = uid.eff
        /\ child.gid = gid.eff

\* Between requests the worker is what it was when it started
\* (main.cc:178-184), after failures of every kind.
Restored == pc = "accept" => uid = Own /\ gid = Own /\ loginuid = Root

\* A request leaves no input file for the next one to find, unless the write to
\* it failed; nobody but its owner could open it then.
InputRemoved == tidy /\ pc = "accept" => input = NoInput

\* The answer has all that the program and its descendants wrote, also when the
\* program itself ends first (mode.cc:82-100).
OutputWhole == pc \in {"wait", "reply"} => data = wrote /\ ~child.bg

\* Every request is answered, if programs end and services have templates.
Answered == pc # "accept" ~> pc = "accept"
=============================================================================
