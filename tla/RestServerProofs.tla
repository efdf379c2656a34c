---------------------------- MODULE RestServerProofs ---------------------------
(***************************************************************************)
(* Proofs about the identity of the REST worker and about the programs it  *)
(* runs, for any users, services, sizes and failing calls.                 *)
(***************************************************************************)
EXTENDS RestServer, TLAPS

(***************************************************************************)
(* Between requests the worker is itself.  Requests change effective ids   *)
(* only, so that the saved ones always lead back.                          *)
(***************************************************************************)
IdInv ==
    /\ uid = [real |-> Root, eff |-> uid.eff, saved |-> Root]
    /\ gid = [real |-> Root, eff |-> gid.eff, saved |-> Root]
    /\ pc = "accept" => uid.eff = Root /\ gid.eff = Root /\ loginuid = Root

LEMMA IdInit == Init => IdInv
BY DEF Init, IdInv, Own

\* All actions but two leave the ids alone, and do not lead back to "accept".
LEMMA OtherActions ==
    ASSUME Next, ~authorized, ~done
    PROVE  UNCHANGED idVars /\ (pc' = "accept" => UNCHANGED pc)
<1>1. CASE \E r \in Requests : Accept(r)
  BY <1>1 DEF Accept, GoTo
<1>2. CASE parse \/ notAuthorized \/ Authorized
  BY <1>2 DEF parse, notAuthorized, Authorized, GoTo
<1>3. CASE dispatch
  <2>1. CASE StartProgram
    BY <2>1 DEF StartProgram, GoTo
  <2>2. CASE \E c : Error(c)
    BY <2>2 DEF Error, GoTo
  <2> QED BY <1>3, <2>1, <2>2 DEF dispatch, AnswerMode, AnswerPermissions, RefuseProgram
<1>4. CASE service_index
  BY <1>4 DEF service_index, GoTo
<1>5. CASE system_out \/ readOutput \/ waitChild \/ reply
  BY <1>5 DEF system_out, readOutput, waitChild, reply, Collected, GoTo
<1>6. CASE Programs
  BY <1>6 DEF Programs, OpenInput, WriteOutput, CloseOutput, Background, ChildExit,
              BackgroundWrite, BackgroundExit, ChildStep
<1> QED BY <1>1, <1>2, <1>3, <1>4, <1>5, <1>6 DEF Next, Worker

LEMMA IdStep == IdInv /\ [Next]_vars => IdInv'
<1>. SUFFICES ASSUME IdInv, [Next]_vars PROVE IdInv'
  OBVIOUS
<1>1. CASE authorized
  <2>1. /\ uid' = uid \/ uid' = [uid EXCEPT !.eff = req.user]
        /\ gid' = gid \/ gid' = [gid EXCEPT !.eff = EffectiveGroup]
        /\ pc' = "auth"
    BY <1>1 DEF authorized, Does, seteuid, setegid
  <2> QED BY <2>1 DEF IdInv
<1>2. CASE done
  <2>1. PICK e, g : /\ uid = [real |-> Root, eff |-> e, saved |-> Root]
                    /\ gid = [real |-> Root, eff |-> g, saved |-> Root]
    BY DEF IdInv
  <2>2. AfterSetuid(Root) = [real |-> Root, eff |-> Root, saved |-> Root]
    <3>1. CASE Privileged
      BY <2>1, <3>1, Zenon DEF AfterSetuid
    <3>2. CASE ~Privileged
      BY <2>1, <3>2 DEF AfterSetuid
    <3> QED BY <3>1, <3>2
  <2>3. AfterSetgid(Root, TRUE) = [real |-> Root, eff |-> Root, saved |-> Root]
    BY <2>1, Zenon DEF AfterSetgid
  <2>4. uid' = [real |-> Root, eff |-> Root, saved |-> Root]
    BY <1>2, <2>2 DEF done
  <2>5. uid'.eff = Root
    BY <2>4
  <2>6. gid' = [real |-> Root, eff |-> Root, saved |-> Root] /\ loginuid' = Root
    BY <1>2, <2>3, <2>5, Zenon DEF done
  <2> QED BY <2>4, <2>6 DEF IdInv
<1>3. CASE Next /\ ~authorized /\ ~done
  BY <1>3, OtherActions DEF IdInv, idVars
<1>4. CASE UNCHANGED vars
  BY <1>4 DEF vars, idVars, IdInv
<1> QED BY <1>1, <1>2, <1>3, <1>4

\* After every request, however it failed, the worker has its own user and group
\* ids and no login uid of a user (main.cc:178-184).
THEOREM IdentityRestored == Spec => []Restored
<1>1. IdInv => Restored
  BY DEF IdInv, Restored, Own
<1> QED BY <1>1, IdInit, IdStep, PTL DEF Spec

(***************************************************************************)
(* A request is handled as its user.  What authorized has achieved can be  *)
(* read off the calls that it has yet to make.                             *)
(***************************************************************************)
HasGroups == groups = req.user
HasLogin == loginuid = req.user
HasGroup == gid.eff = EffectiveGroup
HasUser == uid.eff = req.user

\* The calls of Basic, and of a session, with what is done when they are left.
BasicLeft ==
    \/ todo = <<"getpwnam", "setgroups", "pam", "loginuid", "setegid", "seteuid">>
    \/ todo = <<"setgroups", "pam", "loginuid", "setegid", "seteuid">>
    \/ todo = <<"pam", "loginuid", "setegid", "seteuid">> /\ HasGroups
    \/ todo = <<"loginuid", "setegid", "seteuid">> /\ HasGroups

SessionLeft ==
    \/ todo = <<"record", "loginuid", "setgroups", "setegid", "seteuid">>
    \/ todo = <<"loginuid", "setgroups", "setegid", "seteuid">>
    \/ todo = <<"setgroups", "setegid", "seteuid">> /\ HasLogin

IdsLeft ==
    /\ HasGroups /\ HasLogin
    /\ \/ todo = <<"setegid", "seteuid">>
       \/ todo = <<"seteuid">> /\ HasGroup
       \/ todo = <<>> /\ HasGroup /\ HasUser

CallsInv == BasicLeft \/ SessionLeft \/ IdsLeft

ActsInv ==
    /\ pc = "parse" => req.auth \in {"none", "basic", "session"}
    /\ pc \in {"accept", "parse", "auth"} => session = NoSession
    /\ pc = "auth" /\ req.auth # "none" /\ ~req.service => CallsInv
    /\ session.auth # "none" /\ ~session.service =>
          HasGroups /\ HasLogin /\ HasGroup /\ HasUser

\* A call that succeeds takes the request to where fewer are left.
LEMMA CallStep ==
    ASSUME CallsInv, IdInv, authorized
    PROVE  CallsInv'
<1>. UNCHANGED req
  BY DEF authorized
<1>0. PICK e, g : /\ uid = [real |-> Root, eff |-> e, saved |-> Root]
                  /\ gid = [real |-> Root, eff |-> g, saved |-> Root]
  BY DEF IdInv
<1>1. /\ Head(todo) = "setgroups" => HasGroups'
      /\ Head(todo) # "setgroups" => UNCHANGED groups
  BY DEF authorized, Does, HasGroups
<1>2. /\ Head(todo) = "loginuid" => HasLogin'
      /\ Head(todo) # "loginuid" => UNCHANGED loginuid
  BY DEF authorized, Does, HasLogin
<1>3. /\ Head(todo) = "setegid" => HasGroup'
      /\ Head(todo) # "setegid" => UNCHANGED gid
  BY <1>0 DEF authorized, Does, setegid, HasGroup, EffectiveGroup
<1>4. /\ Head(todo) = "seteuid" => HasUser'
      /\ Head(todo) # "seteuid" => UNCHANGED uid
  BY <1>0 DEF authorized, Does, seteuid, HasUser
<1>5. todo' = Tail(todo) /\ todo # <<>>
  BY DEF authorized
<1>6. CASE BasicLeft
  <2>1. CASE todo = <<"getpwnam", "setgroups", "pam", "loginuid", "setegid", "seteuid">>
    <3>1. todo' = <<"setgroups", "pam", "loginuid", "setegid", "seteuid">>
      BY <1>5, <2>1
    <3> QED BY <3>1 DEF CallsInv, BasicLeft
  <2>2. CASE todo = <<"setgroups", "pam", "loginuid", "setegid", "seteuid">>
    <3>1. todo' = <<"pam", "loginuid", "setegid", "seteuid">> /\ Head(todo) = "setgroups"
      BY <1>5, <2>2
    <3> QED BY <1>1, <3>1 DEF CallsInv, BasicLeft
  <2>3. CASE todo = <<"pam", "loginuid", "setegid", "seteuid">> /\ HasGroups
    <3>1. todo' = <<"loginuid", "setegid", "seteuid">> /\ Head(todo) = "pam"
      BY <1>5, <2>3
    <3> QED BY <1>1, <2>3, <3>1 DEF CallsInv, BasicLeft, HasGroups
  <2>4. CASE todo = <<"loginuid", "setegid", "seteuid">> /\ HasGroups
    <3>1. todo' = <<"setegid", "seteuid">> /\ Head(todo) = "loginuid"
      BY <1>5, <2>4
    <3> QED BY <1>1, <1>2, <2>4, <3>1 DEF CallsInv, IdsLeft, HasGroups
  <2> QED BY <1>6, <2>1, <2>2, <2>3, <2>4 DEF BasicLeft
<1>7. CASE SessionLeft
  <2>1. CASE todo = <<"record", "loginuid", "setgroups", "setegid", "seteuid">>
    <3>1. todo' = <<"loginuid", "setgroups", "setegid", "seteuid">>
      BY <1>5, <2>1
    <3> QED BY <3>1 DEF CallsInv, SessionLeft
  <2>2. CASE todo = <<"loginuid", "setgroups", "setegid", "seteuid">>
    <3>1. todo' = <<"setgroups", "setegid", "seteuid">> /\ Head(todo) = "loginuid"
      BY <1>5, <2>2
    <3> QED BY <1>2, <3>1 DEF CallsInv, SessionLeft
  <2>3. CASE todo = <<"setgroups", "setegid", "seteuid">> /\ HasLogin
    <3>1. todo' = <<"setegid", "seteuid">> /\ Head(todo) = "setgroups"
      BY <1>5, <2>3
    <3> QED BY <1>1, <1>2, <2>3, <3>1 DEF CallsInv, IdsLeft, HasLogin
  <2> QED BY <1>7, <2>1, <2>2, <2>3 DEF SessionLeft
<1>8. CASE IdsLeft
  <2>1. CASE todo = <<"setegid", "seteuid">>
    <3>1. todo' = <<"seteuid">> /\ Head(todo) = "setegid"
      BY <1>5, <2>1
    <3> QED BY <1>1, <1>2, <1>3, <1>8, <3>1 DEF CallsInv, IdsLeft, HasGroups, HasLogin
  <2>2. CASE todo = <<"seteuid">> /\ HasGroup
    <3>1. todo' = <<>> /\ Head(todo) = "seteuid"
      BY <1>5, <2>2
    <3>2. HasGroups' /\ HasLogin' /\ HasGroup' /\ HasUser'
      BY <1>1, <1>2, <1>3, <1>4, <1>8, <2>2, <3>1
         DEF IdsLeft, HasGroups, HasLogin, HasGroup, EffectiveGroup
    <3> QED BY <3>1, <3>2 DEF CallsInv, IdsLeft
  <2> QED BY <1>5, <1>8, <2>1, <2>2 DEF IdsLeft
<1> QED BY <1>6, <1>7, <1>8 DEF CallsInv

LEMMA ActsStep == IdInv /\ ActsInv /\ [Next]_vars => ActsInv'
<1>. SUFFICES ASSUME IdInv, ActsInv, [Next]_vars PROVE ActsInv'
  OBVIOUS
<1>1. CASE authorized
  <2>1. UNCHANGED <<pc, req, session>> /\ pc = "auth"
    BY <1>1 DEF authorized
  <2>2. session.auth = "none"
    BY <2>1 DEF ActsInv, NoSession
  <2> QED BY <1>1, <2>1, <2>2, CallStep DEF ActsInv
<1>2. CASE done
  BY <1>2 DEF done, Finish, GoTo, ActsInv, NoSession
<1>3. CASE \E r \in Requests : Accept(r)
  <2>1. pc = "accept" /\ pc' = "parse" /\ UNCHANGED session
    BY <1>3 DEF Accept, GoTo
  <2>2. session = NoSession
    BY <2>1 DEF ActsInv
  <2>3. req'.auth \in {"none", "basic", "session"}
    BY <1>3 DEF Accept, Requests
  <2> QED BY <2>1, <2>2, <2>3 DEF ActsInv, NoSession
<1>4. CASE parse
  <2>1. pc = "parse" /\ UNCHANGED <<req, session>>
    BY <1>4 DEF parse
  <2>2. session = NoSession
    BY <2>1 DEF ActsInv
  <2>3. pc' = "auth" => todo' = AuthCalls
    BY <1>4 DEF parse, GoTo
  <2>4. req.auth # "none" /\ ~req.service /\ pc' = "auth" => CallsInv'
    <3>1. SUFFICES ASSUME req.auth # "none", ~req.service, pc' = "auth" PROVE CallsInv'
      OBVIOUS
    <3>2. req.auth \in {"basic", "session"}
      BY <2>1, <3>1 DEF ActsInv
    <3> QED BY <2>3, <3>1, <3>2 DEF AuthCalls, CallsInv, BasicLeft, SessionLeft
  <2>5. pc' # "parse"
    BY <1>4 DEF parse, GoTo
  <2> QED BY <2>1, <2>2, <2>4, <2>5 DEF ActsInv, NoSession, HasGroups, HasLogin, HasGroup,
                                        HasUser, EffectiveGroup
<1>5. CASE notAuthorized
  <2>1. pc = "auth" /\ pc' = "reply" /\ UNCHANGED session
    BY <1>5 DEF notAuthorized, GoTo
  <2>2. session = NoSession
    BY <2>1 DEF ActsInv
  <2> QED BY <2>1, <2>2 DEF ActsInv, NoSession
<1>6. CASE Authorized
  <2>1. /\ pc = "auth" /\ todo = <<>> /\ pc' = "dispatch"
        /\ session' = [auth |-> req.auth, service |-> req.service]
        /\ UNCHANGED <<req, uid, gid, groups, loginuid>>
    BY <1>6 DEF Authorized, GoTo, idVars
  <2>2. CASE req.auth # "none" /\ ~req.service
    <3>1. CallsInv
      BY <2>1, <2>2 DEF ActsInv
    <3>2. HasGroups /\ HasLogin /\ HasGroup /\ HasUser
      BY <2>1, <3>1 DEF CallsInv, BasicLeft, SessionLeft, IdsLeft
    <3> QED BY <2>1, <3>2 DEF ActsInv, HasGroups, HasLogin, HasGroup, HasUser, EffectiveGroup
  <2>3. CASE ~(req.auth # "none" /\ ~req.service)
    BY <2>1, <2>3 DEF ActsInv
  <2> QED BY <2>2, <2>3
<1>7. CASE dispatch \/ service_index \/ system_out \/ readOutput \/ waitChild \/ reply
  <2>1. /\ pc' \notin {"accept", "parse", "auth"}
        /\ UNCHANGED <<req, session, idVars>>
    <3>1. CASE dispatch
      <4>1. CASE StartProgram
        BY <4>1 DEF StartProgram, GoTo
      <4>2. CASE \E c : Error(c)
        BY <4>2 DEF Error, GoTo
      <4> QED BY <3>1, <4>1, <4>2 DEF dispatch, AnswerMode, AnswerPermissions, RefuseProgram
    <3>2. CASE service_index
      BY <3>2 DEF service_index, GoTo, workVars
    <3>3. CASE system_out \/ readOutput \/ waitChild \/ reply
      BY <3>3 DEF system_out, readOutput, waitChild, reply, Collected, GoTo, workVars
    <3> QED BY <1>7, <3>1, <3>2, <3>3
  <2> QED BY <2>1 DEF ActsInv, HasGroups, HasLogin, HasGroup, HasUser, EffectiveGroup, idVars
<1>8. CASE Programs \/ UNCHANGED vars
  <2>1. UNCHANGED <<pc, workVars, idVars>>
    BY <1>8 DEF Programs, OpenInput, WriteOutput, CloseOutput, Background, ChildExit,
                BackgroundWrite, BackgroundExit, ChildStep, vars
  <2> QED BY <2>1 DEF workVars, idVars, ActsInv, CallsInv, BasicLeft, SessionLeft, IdsLeft,
                      HasGroups, HasLogin, HasGroup, HasUser, EffectiveGroup
<1> QED BY <1>1, <1>2, <1>3, <1>4, <1>5, <1>6, <1>7, <1>8 DEF Next, Worker

\* Whatever requests came before and however they failed: a request that is
\* dispatched for an account is handled with the ids, the groups and the login
\* uid of that account.
THEOREM ActsAsItsUser == Spec => []ActsAsUser
<1>1. Init => ActsInv
  BY DEF Init, ActsInv, NoSession
<1>2. ActsInv => ActsAsUser
  BY DEF ActsInv, ActsAsUser, HasGroups, HasLogin, HasGroup, HasUser, EffectiveGroup
<1> QED BY <1>1, <1>2, ActsStep, IdInit, IdStep, PTL DEF Spec

(***************************************************************************)
(* Programs.  A program has its ids and its input from the request that    *)
(* started it, and the worker stays with it until nobody can write to the  *)
(* pipe.                                                                   *)
(***************************************************************************)
ChildType ==
    [state : {"none", "new", "run", "zombie"}, ruid : Users \cup {Root},
     euid : Users \cup {Root}, gid : Users \cup {Root, Cfg}, stdin : Bodies \cup {NoBody},
     out : BOOLEAN, bg : BOOLEAN, status : {0, 1}]

\* The worker has written the input file and has not removed it.
Busy == {"run", "read", "wait"}

RunInv ==
    /\ pc # "accept" => req \in Requests
    /\ child \in ChildType
    /\ pc \notin {"read", "wait"} \/ child.state = "none" => child = NoChild
    /\ child.out => child.state \in {"new", "run"}
    /\ child.bg => child.state \in {"run", "zombie"}
    /\ child.state # "none" =>
          child.ruid = uid.eff /\ child.euid = uid.eff /\ child.gid = gid.eff
    /\ child.stdin # NoBody => child.stdin = req.body
    /\ pc \in Busy => input.body = req.body
    /\ tidy /\ pc \notin Busy => input = NoInput
    /\ pc # "read" => data = wrote
    /\ pc = "wait" => ~child.out /\ ~child.bg

\* What the steps of a program have in common.
LEMMA ProgramMoves ==
    ASSUME TypeOK, RunInv, Programs
    PROVE  /\ UNCHANGED <<pc, workVars, idVars, input, tidy, data>>
           /\ child.state # "none" /\ child'.state \in {"run", "zombie"}
           /\ child' \in ChildType
           /\ child'.out => child.out /\ child'.state = "run"
           /\ child'.bg => child.bg \/ child.out
           /\ child'.ruid = child.ruid /\ child'.euid = child.euid /\ child'.gid = child.gid
           /\ child'.stdin \in {child.stdin, input.body}
           /\ wrote' = wrote \/ (Writers /\ wrote < MaxOutput /\ wrote' = wrote + 1)
<1> DEFINE Rest == UNCHANGED <<pc, workVars, idVars, input, tidy, data>>
<1>0. /\ child \in ChildType /\ input.body \in Bodies \cup {NoBody}
      /\ child.bg => child.state \in {"run", "zombie"}
      /\ child.out => child.state \in {"new", "run"}
  BY DEF RunInv, TypeOK, NoChild
<1>1. CASE OpenInput
  <2>1. /\ Rest /\ child.state = "new" /\ wrote' = wrote
        /\ \/ child' = [child EXCEPT !.state = "zombie", !.out = FALSE, !.status = 1]
           \/ child' = [child EXCEPT !.state = "run", !.stdin = input.body]
    BY <1>1 DEF OpenInput, ChildStep
  <2>2. CASE child' = [child EXCEPT !.state = "zombie", !.out = FALSE, !.status = 1]
    BY <1>0, <2>1, <2>2, Zenon DEF ChildType
  <2>3. CASE child' = [child EXCEPT !.state = "run", !.stdin = input.body]
    BY <1>0, <2>1, <2>3, Zenon DEF ChildType
  <2>4. QED
    BY <2>1, <2>2, <2>3
<1>2. CASE WriteOutput \/ BackgroundWrite
  <2>1. /\ Rest /\ child.state \in {"run", "zombie"} /\ Writers /\ wrote < MaxOutput
        /\ wrote' = wrote + 1 /\ child' = child
    BY <1>2 DEF WriteOutput, BackgroundWrite, ChildStep, Writers
  <2>2. QED
    BY <1>0, <2>1
<1>3. CASE CloseOutput
  <2>1. /\ Rest /\ child.state = "run" /\ wrote' = wrote
        /\ child' = [child EXCEPT !.out = FALSE]
    BY <1>3 DEF CloseOutput, ChildStep
  <2>2. QED
    BY <1>0, <2>1, Zenon DEF ChildType
<1>4. CASE Background
  <2>1. /\ Rest /\ child.state = "run" /\ child.out /\ wrote' = wrote
        /\ child' = [child EXCEPT !.bg = TRUE]
    BY <1>4 DEF Background, ChildStep
  <2>2. QED
    BY <1>0, <2>1, Zenon DEF ChildType
<1>5. CASE ChildExit
  <2>1. PICK status \in {0, 1} :
          /\ Rest /\ child.state = "run" /\ wrote' = wrote
          /\ child' = [child EXCEPT !.state = "zombie", !.out = FALSE, !.status = status]
    BY <1>5, Zenon DEF ChildExit, ChildStep
  <2>2. QED
    BY <1>0, <2>1, Zenon DEF ChildType
<1>6. CASE BackgroundExit
  <2>1. /\ Rest /\ child.bg /\ wrote' = wrote
        /\ child' = [child EXCEPT !.bg = FALSE]
    BY <1>6 DEF BackgroundExit, ChildStep
  <2>2. QED
    BY <1>0, <2>1, Zenon DEF ChildType
<1>7. QED
  BY <1>1, <1>2, <1>3, <1>4, <1>5, <1>6 DEF Programs

LEMMA RunProgram ==
    ASSUME TypeOK, RunInv, Programs
    PROVE  RunInv'
<1>1. UNCHANGED <<pc, req, uid, gid, input, tidy, data>>
  BY ProgramMoves DEF workVars, idVars
<1>2. pc \in {"read", "wait"} /\ child.state # "none"
  BY ProgramMoves DEF RunInv, NoChild
<1>3. child'.state \in {"run", "zombie"} /\ child' \in ChildType
  BY ProgramMoves
<1>4. /\ child'.ruid = uid.eff /\ child'.euid = uid.eff /\ child'.gid = gid.eff
  BY <1>2, ProgramMoves DEF RunInv
<1>5. child'.stdin # NoBody => child'.stdin = req.body
  BY <1>2, ProgramMoves DEF RunInv, Busy
<1>6. /\ child'.out => child'.state = "run"
      /\ pc = "wait" => ~child'.out /\ ~child'.bg /\ wrote' = wrote
  BY ProgramMoves DEF RunInv, Writers
<1>7. QED
  BY <1>1, <1>2, <1>3, <1>4, <1>5, <1>6 DEF RunInv

\* Steps of the worker that touch neither the program nor its files.
LEMMA RunFrame ==
    ASSUME RunInv, pc \notin Busy, pc' \notin Busy, UNCHANGED <<child, input>>,
           data' = wrote', tidy' => tidy,
           pc' # "accept" => req' \in Requests
    PROVE  RunInv'
<1>1. child = NoChild
  BY DEF RunInv, Busy
<1>2. QED
  BY <1>1 DEF RunInv, Busy, NoChild

LEMMA RunWorker ==
    ASSUME TypeOK, RunInv, Worker \/ \E r \in Requests : Accept(r)
    PROVE  RunInv'
<1>1. CASE \E r \in Requests : Accept(r)
  <2>1. /\ pc = "accept" /\ pc' = "parse" /\ req' \in Requests
        /\ UNCHANGED runVars
    BY <1>1 DEF Accept, GoTo
  <2>2. QED
    BY <2>1, RunFrame DEF RunInv, Busy, runVars
<1>2. CASE parse \/ authorized \/ notAuthorized \/ Authorized \/ reply
  <2>1. /\ pc \in {"parse", "auth", "reply"} /\ pc' \in {"dispatch", "auth", "reply", "done"}
        /\ UNCHANGED <<req, runVars>>
    BY <1>2 DEF parse, authorized, notAuthorized, Authorized, reply, GoTo
  <2>2. QED
    BY <2>1, RunFrame DEF RunInv, Busy, runVars
<1>3. CASE done
  <2>1. /\ pc = "done" /\ pc' = "accept" /\ wrote' = 0 /\ data' = 0
        /\ UNCHANGED <<input, tidy, child>>
    BY <1>3 DEF done, Finish, GoTo
  <2>2. QED
    BY <2>1, RunFrame DEF Busy
<1>4. CASE dispatch /\ ~StartProgram
  <2>1. \E c : Error(c)
    BY <1>4 DEF dispatch, AnswerMode, AnswerPermissions, RefuseProgram
  <2>2. /\ pc = "dispatch" /\ pc' = "reply" /\ UNCHANGED <<req, runVars>>
    BY <2>1 DEF Error, GoTo
  <2>3. QED
    BY <2>2, RunFrame DEF RunInv, Busy, runVars
<1>5. CASE StartProgram
  <2>1. /\ pc = "dispatch" /\ UNCHANGED <<req, child, wrote, data>>
        /\ \/ pc' = "run" /\ input'.body = req.body /\ tidy' = tidy
           \/ pc' = "reply" /\ tidy' = FALSE
    BY <1>5 DEF StartProgram, GoTo
  <2>2. child = NoChild /\ data = wrote
    BY <2>1 DEF RunInv
  <2>3. QED
    BY <2>1, <2>2 DEF RunInv, Busy, NoChild
<1>6. CASE service_index
  <2>1. /\ pc \in {"dispatch", "index"} /\ pc' \in {"index", "reply"}
        /\ UNCHANGED <<req, runVars>>
    BY <1>6 DEF service_index, GoTo, workVars
  <2>2. QED
    BY <2>1, RunFrame DEF RunInv, Busy, runVars
<1>7. CASE system_out
  <2>1. /\ pc = "run" /\ UNCHANGED <<req, uid, gid, tidy, wrote, data>>
        /\ \/ pc' = "reply" /\ input' = NoInput /\ child' = child
           \/ pc' = "read" /\ input' = input /\ child' = child
           \/ /\ pc' = "read" /\ input' = input
              /\ child' = [NoChild EXCEPT !.state = "new", !.out = TRUE, !.ruid = uid.eff,
                                          !.euid = uid.eff, !.gid = gid.eff]
    BY <1>7 DEF system_out, Collected, GoTo, ChildIds, idVars
  <2>2. child = NoChild /\ input.body = req.body /\ data = wrote
    BY <2>1 DEF RunInv, Busy
  <2>3. CASE child' = child
    BY <2>1, <2>2, <2>3 DEF RunInv, Busy, NoChild
  <2>4. CASE /\ pc' = "read" /\ input' = input
             /\ child' = [NoChild EXCEPT !.state = "new", !.out = TRUE, !.ruid = uid.eff,
                                         !.euid = uid.eff, !.gid = gid.eff]
    <3>1. /\ child' = [state |-> "new", ruid |-> uid.eff, euid |-> uid.eff, gid |-> gid.eff,
                       stdin |-> NoBody, out |-> TRUE, bg |-> FALSE, status |-> 0]
      BY <2>4, Zenon DEF NoChild
    <3>2. uid.eff \in Users \cup {Root} /\ gid.eff \in Users \cup {Root, Cfg}
      BY DEF TypeOK
    <3>3. child' \in ChildType
      BY <3>1, <3>2 DEF ChildType
    <3>4. /\ child'.state = "new" /\ child'.stdin = NoBody /\ ~child'.bg
          /\ child'.ruid = uid.eff /\ child'.euid = uid.eff /\ child'.gid = gid.eff
      BY <3>1
    <3>5. pc' = "read" /\ req' \in Requests
      BY <2>1, <2>4 DEF RunInv
    <3>6. QED
      BY <2>1, <2>2, <2>4, <3>3, <3>4, <3>5 DEF RunInv, Busy
  <2>5. QED
    BY <2>1, <2>3, <2>4
<1>8. CASE readOutput
  <2>1. /\ pc = "read" /\ UNCHANGED <<req, uid, gid, input, tidy, child, wrote>>
        /\ \/ pc' = "read"
           \/ pc' = "wait" /\ data' = wrote /\ ~child.out /\ ~child.bg
    BY <1>8 DEF readOutput, GoTo, EndOfOutput, Writers, workVars, idVars
  <2>2. QED
    BY <2>1 DEF RunInv, Busy
<1>9. CASE waitChild
  <2>1. /\ pc = "wait" /\ pc' = "reply" /\ child' = NoChild /\ input' = NoInput
        /\ UNCHANGED <<req, tidy, wrote, data>>
    BY <1>9 DEF waitChild, Collected, GoTo
  <2>2. NoChild \in ChildType
    BY DEF ChildType, NoChild
  <2>3. QED
    BY <2>1, <2>2 DEF RunInv, Busy, NoChild
<1>10. QED
  BY <1>1, <1>2, <1>3, <1>4, <1>5, <1>6, <1>7, <1>8, <1>9 DEF Worker

LEMMA RunStep == TypeOK /\ RunInv /\ [Next]_vars => RunInv'
<1>1. ASSUME RunInv, UNCHANGED vars
      PROVE  RunInv'
  BY <1>1 DEF RunInv, vars, workVars, idVars, runVars
<1>2. QED
  BY <1>1, RunProgram, RunWorker DEF Next

LEMMA RunInit == Init => RunInv
<1>1. NoChild \in ChildType
  BY DEF ChildType, NoChild
<1>2. QED
  BY <1>1 DEF Init, RunInv, NoChild, Busy

\* The types of the worker's own variables.
WorkTypeOK ==
    /\ req \in Requests \cup {NoRequest}
    /\ session \in [auth : {"none", "basic", "session"}, service : BOOLEAN]
    /\ code \in {0, 200, 201, 202, 400, 401, 404, 410, 500}
    /\ index \in 0 .. Services

IdTypeOK ==
    /\ uid \in [real : Users \cup {Root}, eff : Users \cup {Root}, saved : Users \cup {Root}]
    /\ gid \in [real : Users \cup {Root, Cfg}, eff : Users \cup {Root, Cfg},
               saved : Users \cup {Root, Cfg}]
    /\ groups \in Users \cup {Root} /\ loginuid \in Users \cup {Root}

PcTypeOK ==
    pc \in {"accept", "parse", "auth", "dispatch", "index", "run", "read", "wait", "reply",
            "done"}

FileTypeOK ==
    /\ input \in [owner : Users \cup {Root, Nobody}, body : Bodies \cup {NoBody}]
    /\ wrote \in 0 .. MaxOutput /\ data \in 0 .. wrote

LEMMA TypeParts ==
    ASSUME RunInv
    PROVE  TypeOK <=> WorkTypeOK /\ IdTypeOK /\ PcTypeOK /\ FileTypeOK
BY DEF TypeOK, WorkTypeOK, IdTypeOK, PcTypeOK, FileTypeOK, RunInv, ChildType

LEMMA PcType ==
    ASSUME PcTypeOK, [Next]_vars
    PROVE  PcTypeOK'
<1> USE DEF PcTypeOK, GoTo
<1>1. CASE \E r \in Requests : Accept(r)
  BY <1>1 DEF Accept
<1>2. CASE dispatch
  <2>1. StartProgram \/ \E c : Error(c)
    BY <1>2 DEF dispatch, AnswerMode, AnswerPermissions, RefuseProgram
  <2>2. QED
    BY <2>1, Zenon DEF StartProgram, Error
<1>3. CASE Worker /\ ~dispatch
  BY <1>3 DEF Worker, parse, authorized, notAuthorized, Authorized, service_index, system_out,
              readOutput, waitChild, reply, done, Finish, Collected
<1>4. CASE Programs \/ UNCHANGED vars
  BY <1>4 DEF Programs, OpenInput, WriteOutput, CloseOutput, Background, ChildExit,
              BackgroundWrite, BackgroundExit, ChildStep, vars
<1>5. QED
  BY <1>1, <1>2, <1>3, <1>4 DEF Next

LEMMA WorkType ==
    ASSUME TypeOK, RunInv, [Next]_vars
    PROVE  WorkTypeOK'
<1>0. WorkTypeOK
  BY TypeParts
<1>1. CASE \E r \in Requests : Accept(r)
  <2>1. req' \in Requests /\ UNCHANGED <<session, code, index>>
    BY <1>1 DEF Accept
  <2>2. QED
    BY <1>0, <2>1 DEF WorkTypeOK
<1>2. CASE dispatch
  <2>1. StartProgram \/ \E c \in {code, 201, 202, 400, 401, 404, 410, 500} : Error(c)
    BY <1>2 DEF dispatch, AnswerMode, AnswerPermissions, RefuseProgram
  <2>2. /\ UNCHANGED <<req, session, index>>
        /\ code' \in {code, 201, 202, 400, 401, 404, 410, 500}
    BY <2>1 DEF StartProgram, Error
  <2>3. QED
    BY <1>0, <2>2 DEF WorkTypeOK
<1>3. CASE Authorized
  <2>1. req \in Requests
    BY <1>3 DEF Authorized, RunInv
  <2>2. [auth |-> req.auth, service |-> req.service]
          \in [auth : {"none", "basic", "session"}, service : BOOLEAN]
    BY <2>1 DEF Requests
  <2>3. /\ UNCHANGED <<req, code, index>>
        /\ session' = [auth |-> req.auth, service |-> req.service]
    BY <1>3 DEF Authorized
  <2>4. QED
    BY <1>0, <2>2, <2>3 DEF WorkTypeOK
<1>4. CASE service_index
  <2>1. /\ UNCHANGED <<req, session, code>>
        /\ index' = index \/ (index < Services /\ index' \in {index, index + 1})
    BY <1>4 DEF service_index, NextService, workVars
  <2>2. index' \in 0 .. Services
    BY <1>0, <2>1, RestServerAssumption DEF WorkTypeOK
  <2>3. QED
    BY <1>0, <2>1, <2>2 DEF WorkTypeOK
<1>5. CASE done
  <2>1. req' = NoRequest /\ session' = NoSession /\ code' = 0 /\ index' = 0
    BY <1>5 DEF done, Finish
  <2>2. NoSession \in [auth : {"none", "basic", "session"}, service : BOOLEAN]
    BY DEF NoSession
  <2>3. QED
    BY <2>1, <2>2, RestServerAssumption DEF WorkTypeOK
<1>6. CASE parse \/ authorized \/ notAuthorized \/ system_out \/ readOutput \/ waitChild \/ reply
  <2>1. /\ UNCHANGED <<req, session, index>>
        /\ code' \in {code, 200, 400, 401, 500}
    BY <1>6 DEF parse, authorized, notAuthorized, system_out, readOutput, waitChild, reply,
                Collected, workVars
  <2>2. QED
    BY <1>0, <2>1 DEF WorkTypeOK
<1>7. CASE Programs \/ UNCHANGED vars
  <2>1. UNCHANGED <<req, session, code, index>>
    BY <1>7, ProgramMoves DEF vars, workVars
  <2>2. QED
    BY <1>0, <2>1 DEF WorkTypeOK
<1>8. QED
  BY <1>1, <1>2, <1>3, <1>4, <1>5, <1>6, <1>7 DEF Next, Worker

LEMMA IdType ==
    ASSUME TypeOK, RunInv, IdInv, [Next]_vars
    PROVE  IdTypeOK'
<1>0. IdTypeOK
  BY TypeParts
<1>1. CASE authorized
  <2>1. req.user \in Users /\ EffectiveGroup \in Users \cup {Cfg}
    BY <1>1 DEF authorized, RunInv, Requests, EffectiveGroup
  <2>2. /\ uid' = uid \/ uid' = [uid EXCEPT !.eff = req.user]
        /\ gid' = gid \/ gid' = [gid EXCEPT !.eff = EffectiveGroup]
        /\ groups' \in {groups, req.user} /\ loginuid' \in {loginuid, req.user}
    BY <1>1 DEF authorized, Does, seteuid, setegid
  <2>3. QED
    BY <1>0, <2>1, <2>2 DEF IdTypeOK
<1>2. CASE done
  <2>1. uid' = Own /\ gid' = Own /\ loginuid' = Root
    <3>1. IdInv' /\ pc' = "accept"
      BY <1>2, IdStep DEF done, Finish, GoTo
    <3>2. QED
      BY <3>1 DEF IdInv, Own
  <2>2. groups' = groups
    BY <1>2 DEF done, Finish
  <2>3. QED
    BY <1>0, <2>1, <2>2 DEF IdTypeOK, Own
<1>3. CASE Next /\ ~authorized /\ ~done
  BY <1>0, <1>3, OtherActions DEF idVars, IdTypeOK
<1>4. CASE UNCHANGED vars
  BY <1>0, <1>4 DEF vars, idVars, IdTypeOK
<1>5. QED
  BY <1>1, <1>2, <1>3, <1>4

LEMMA FileType ==
    ASSUME TypeOK, RunInv, [Next]_vars
    PROVE  FileTypeOK'
<1>0. FileTypeOK
  BY TypeParts
<1>1. CASE StartProgram
  <2>1. req.body \in Bodies
    BY <1>1 DEF StartProgram, RunInv, Requests
  <2>2. PICK b \in Bodies \cup {NoBody}, o \in {uid.eff, input.owner} :
            input' = [owner |-> o, body |-> b] /\ UNCHANGED <<wrote, data>>
    BY <1>1, <2>1, SMTT(30) DEF StartProgram
  <2>3. o \in Users \cup {Root, Nobody}
    BY DEF TypeOK
  <2>4. QED
    BY <1>0, <2>2, <2>3 DEF FileTypeOK
<1>2. CASE system_out \/ waitChild
  <2>1. input' \in {input, NoInput} /\ UNCHANGED <<wrote, data>>
    BY <1>2 DEF system_out, waitChild, Collected
  <2>2. QED
    BY <1>0, <2>1 DEF FileTypeOK, NoInput
<1>3. CASE readOutput
  <2>1. /\ UNCHANGED <<input, wrote>>
        /\ data' = data \/ (data < wrote /\ data' = data + 1)
    BY <1>3 DEF readOutput
  <2>2. QED
    BY <1>0, <2>1, RestServerAssumption DEF FileTypeOK
<1>4. CASE done
  BY <1>0, <1>4, RestServerAssumption DEF done, Finish, FileTypeOK
<1>5. CASE Programs
  <2>1. /\ UNCHANGED <<input, data>>
        /\ wrote' = wrote \/ (wrote < MaxOutput /\ wrote' = wrote + 1)
    BY <1>5, ProgramMoves
  <2>2. QED
    BY <1>0, <2>1, RestServerAssumption DEF FileTypeOK
<1>6. CASE dispatch /\ ~StartProgram
  <2>1. \E c : Error(c)
    BY <1>6 DEF dispatch, AnswerMode, AnswerPermissions, RefuseProgram
  <2>2. QED
    BY <1>0, <2>1 DEF Error, runVars, FileTypeOK
<1>7. CASE \/ service_index \/ parse \/ authorized \/ notAuthorized \/ Authorized \/ reply
           \/ \E r \in Requests : Accept(r)
           \/ UNCHANGED vars
  BY <1>0, <1>7 DEF service_index, parse, authorized, notAuthorized, Authorized, reply,
                    Accept, vars, runVars, FileTypeOK
<1>8. QED
  BY <1>1, <1>2, <1>3, <1>4, <1>5, <1>6, <1>7 DEF Next, Worker

LEMMA RunTypeStep == TypeOK /\ RunInv /\ IdInv /\ [Next]_vars => TypeOK'
<1> SUFFICES ASSUME TypeOK, RunInv, IdInv, [Next]_vars
             PROVE  TypeOK'
  OBVIOUS
<1>1. RunInv' /\ PcTypeOK
  BY RunStep, TypeParts
<1>2. WorkTypeOK' /\ IdTypeOK' /\ PcTypeOK' /\ FileTypeOK'
  BY <1>1, PcType, WorkType, IdType, FileType
<1>3. QED
  BY <1>1, <1>2, SMTT(30) DEF TypeOK, WorkTypeOK, IdTypeOK, PcTypeOK, FileTypeOK, RunInv, ChildType

LEMMA RunTypeInit == Init => TypeOK
<1> SUFFICES ASSUME Init
             PROVE  TypeOK
  OBVIOUS
<1>1. RunInv
  BY RunInit
<1>2. WorkTypeOK
  BY RestServerAssumption DEF Init, WorkTypeOK, NoSession
<1>3. IdTypeOK
  BY DEF Init, IdTypeOK, Own
<1>4. PcTypeOK /\ FileTypeOK
  BY RestServerAssumption DEF Init, PcTypeOK, FileTypeOK, NoInput
<1>5. QED
  BY <1>1, <1>2, <1>3, <1>4, TypeParts

LEMMA Runs == Spec => [](TypeOK /\ RunInv)
BY RunTypeInit, RunInit, IdInit, RunTypeStep, RunStep, IdStep, PTL DEF Spec

\* Type correctness of the worker, for any users, services, sizes and faults.
THEOREM WorkerTypeCorrect == Spec => []TypeOK
BY Runs, PTL

\* A program that a request runs has the ids of the request's user, real and
\* effective, and reads the body of that request and of no other.
THEOREM ProgramOfTheUser == Spec => []ProgramIsUsers
<1>1. RunInv => ProgramIsUsers
  BY DEF RunInv, ProgramIsUsers
<1>2. QED
  BY <1>1, Runs, PTL

\* No request finds the input file of another one, as long as no write to that
\* file has failed.
THEOREM NoInputLeft == Spec => []InputRemoved
<1>1. RunInv => InputRemoved
  BY DEF RunInv, InputRemoved, Busy
<1>2. QED
  BY <1>1, Runs, PTL

\* The answer has all that the program and what it left behind have written.
THEOREM OutputCollected == Spec => []OutputWhole
<1>1. RunInv => OutputWhole
  BY SMTT(30) DEF RunInv, OutputWhole, NoChild
<1>2. QED
  BY <1>1, Runs, PTL
=============================================================================
