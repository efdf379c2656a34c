----------------------------- MODULE StreamProofs -----------------------------
(***************************************************************************)
(* What a client of operational mode is promised: that 410 is final, that  *)
(* a dead process has been read completely, and that all of the server     *)
(* together implements the stream of OutputStream.                         *)
(***************************************************************************)
EXTENDS LifeProofs

\* What 410 needs to be final: every writer leaves a pid file, without which the
\* manager cannot delete the process, and no output is just the word "END".
PidKnown ==
    /\ Faults \cap {"fork", "loginuid", "pidfile"} = {}
    /\ EndTexts = {}

-----------------------------------------------------------------------------
(***************************************************************************)
(* The deletes in the queue.                                               *)
(***************************************************************************)
DeleteQueued(t) == \E i \in DOMAIN conns : conns[i].op = "delete" /\ conns[i].tok = t

LEMMA DeleteNotTaken ==
    ASSUME TypeOK, conns # <<>>, conns' = Tail(conns), NEW t, DeleteQueued(t),
           Head(conns).op # "delete" \/ Head(conns).tok # t
    PROVE  DeleteQueued(t)'
<1>1. conns \in Seq(Messages)
  BY DEF TypeOK, MgrTypeOK
<1>2. PICK i \in DOMAIN conns : conns[i].op = "delete" /\ conns[i].tok = t
  BY DEF DeleteQueued
<1>3. /\ Len(conns) \in Nat /\ DOMAIN conns = 1 .. Len(conns)
      /\ Head(conns) = conns[1]
      /\ Tail(conns) \in Seq(Messages)
      /\ Len(Tail(conns)) = Len(conns) - 1
      /\ \A j \in 1 .. Len(Tail(conns)) : Tail(conns)[j] = conns[j + 1]
  BY <1>1, LenProperties, HeadTailProperties
<1>4. DOMAIN Tail(conns) = 1 .. Len(conns) - 1
  BY <1>3, LenProperties
<1>5. i # 1
  BY <1>2, <1>3
<1>6. i - 1 \in 1 .. Len(conns) - 1 /\ (i - 1) + 1 = i
  BY <1>3, <1>5
<1>7. i - 1 \in DOMAIN Tail(conns) /\ Tail(conns)[i - 1] = conns[i]
  BY <1>3, <1>4, <1>6
<1>8. QED
  BY <1>2, <1>7 DEF DeleteQueued

LEMMA DeleteAppended ==
    ASSUME TypeOK, NEW m \in Messages, conns' = Append(conns, m), NEW t,
           DeleteQueued(t) \/ (m.op = "delete" /\ m.tok = t)
    PROVE  DeleteQueued(t)'
<1>1. conns \in Seq(Messages)
  BY DEF TypeOK, MgrTypeOK
<1>2. /\ Len(conns) \in Nat /\ DOMAIN conns = 1 .. Len(conns)
      /\ Append(conns, m) \in Seq(Messages)
      /\ Len(Append(conns, m)) = Len(conns) + 1
      /\ \A i \in 1 .. Len(conns) : Append(conns, m)[i] = conns[i]
      /\ Append(conns, m)[Len(conns) + 1] = m
  BY <1>1, LenProperties, AppendProperties
<1>3. DOMAIN Append(conns, m) = 1 .. Len(conns) + 1
  BY <1>2, LenProperties
<1>4. CASE DeleteQueued(t)
  <2>1. PICK i \in DOMAIN conns : conns[i].op = "delete" /\ conns[i].tok = t
    BY <1>4 DEF DeleteQueued
  <2>2. i \in DOMAIN conns' /\ conns'[i] = conns[i]
    BY <1>2, <1>3
  <2>3. QED
    BY <2>1, <2>2 DEF DeleteQueued
<1>5. CASE m.op = "delete" /\ m.tok = t
  <2>1. Len(conns) + 1 \in DOMAIN conns' /\ conns'[Len(conns) + 1] = m
    BY <1>2, <1>3
  <2>2. QED
    BY <1>5, <2>1 DEF DeleteQueued
<1>6. QED
  BY <1>4, <1>5

\* When a question is taken, no delete is left.
LEMMA NoDeleteBefore ==
    ASSUME TypeOK, QueueInv, conns # <<>>, Head(conns).op \in Questions, NEW t
    PROVE  ~DeleteQueued(t)
<1>1. conns \in Seq(Messages)
  BY DEF TypeOK, MgrTypeOK
<1>2. /\ 1 \in DOMAIN conns /\ Head(conns) = conns[1]
      /\ Len(conns) \in Nat /\ DOMAIN conns = 1 .. Len(conns)
  BY <1>1, TailQueue, LenProperties
<1>3. Len(conns) = 1
  BY <1>2 DEF QueueInv
<1>4. \A i \in DOMAIN conns : i = 1
  BY <1>2, <1>3
<1>5. QED
  BY <1>2, <1>4 DEF DeleteQueued, Questions

-----------------------------------------------------------------------------
(***************************************************************************)
(* The entry of a command that has ended can be deleted.                   *)
(***************************************************************************)
Killing(t) == mpc \in {"term", "procstat"} /\ mtok = t

\* A writer has got past its pid file.
PastPid(t) ==
    \/ writer[t] \in {"pid", "run"}
    \/ writer[t] = "dead" /\ reader[t] \in {"read", "end"}
    \/ endf[t]
    \/ rpc = "kill" /\ rtok = t

Killable(t) == status[t] # NoEntry => pidf[t] \/ Killing(t)

PidInv ==
    /\ \A t \in Tokens : PastPid(t) => Killable(t)
    /\ mpc = "endstat" => status[mtok] # NoEntry

LEMMA PidProcess ==
    ASSUME PidKnown, TypeOK, LifeInv, PidInv, NEW s \in Tokens,
           ProcessorStep(s) \/ OpcStep(s), UNCHANGED <<mgrVars, restVars>>
    PROVE  PidInv'
<1>0. UNCHANGED <<mpc, mtok, status, rpc, rtok>>
  BY DEF mgrVars, tableVars, serverVars, restVars, workerVars
<1>1. ASSUME NEW t \in Tokens, t # s
      PROVE  (PastPid(t)' => PastPid(t)) /\ pidf'[t] = pidf[t]
  <2>1. writer'[t] = writer[t] /\ reader'[t] = reader[t] 
    BY <1>1 DEF ProcessorStep, Detach, pid_output, Execve, process_chunk,
           process_chunk_end, WriteEndFile, OpcStep, OpcWrite, OpcExit, TypeOK, ProcTypeOK
  <2>2. endf'[t] = endf[t] /\ pidf'[t] = pidf[t]
    BY <1>1 DEF ProcessorStep, Detach, pid_output, Execve, process_chunk,
           process_chunk_end, WriteEndFile, OpcStep, OpcWrite, OpcExit, TypeOK, ProcTypeOK
  <2>3. QED
    BY <1>0, <2>1, <2>2 DEF PastPid
<1>2. \/ (PastPid(s)' => PastPid(s)) /\ pidf'[s] = pidf[s]
      \/ pidf'[s]
  <2>0. Orderly(s)
    BY DEF LifeInv
  <2>1. CASE pid_output(s)
    BY <2>1, Zenon DEF pid_output, Succeeds, PidKnown, TypeOK, ProcTypeOK
  <2>2. CASE Detach(s)
    <3>1. /\ reader[s] = "setup" /\ pidf' = pidf /\ endf' = endf
          /\ \/ reader'[s] = "read" /\ writer'[s] = "setup"
             \/ reader'[s] = "gone" /\ writer'[s] = "dead"
      BY <2>2, Zenon DEF Detach, Succeeds, PidKnown, TypeOK, ProcTypeOK
    <3>2. QED
      BY <1>0, <3>1 DEF PastPid
  <2>3. CASE Execve(s) \/ OpcWrite(s) \/ OpcExit(s)
    <3>1. writer[s] \in {"pid", "run"} /\ pidf' = pidf
      BY <2>3 DEF Execve, OpcWrite, OpcExit
    <3>2. QED
      BY <3>1 DEF PastPid
  <2>4. CASE process_chunk(s)
    BY <1>0, <2>4 DEF process_chunk, PastPid
  <2>5. CASE process_chunk_end(s) \/ WriteEndFile(s)
    <3>1. reader[s] \in {"read", "end"} /\ writer[s] = "dead" /\ pidf' = pidf
      BY <2>0, <2>5 DEF process_chunk_end, WriteEndFile, Orderly
    <3>2. QED
      BY <3>1 DEF PastPid
  <2>6. QED
    BY <2>1, <2>2, <2>3, <2>4, <2>5 DEF ProcessorStep, OpcStep
<1>3. ASSUME NEW t \in Tokens, PastPid(t)'
      PROVE  Killable(t)'
  BY <1>0, <1>1, <1>2, <1>3 DEF PidInv, Killable, Killing
<1>4. QED
  BY <1>0, <1>3 DEF PidInv

LEMMA PidManager ==
    ASSUME TypeOK, TalkInv, QuietInv, FreshInv, PidInv, ManagerStep, UNCHANGED restVars
    PROVE  PidInv'
<1>0. UNCHANGED <<rpc, rtok>>
  BY DEF restVars, workerVars
<1>1. CASE HandleCommand
  <2>1. /\ conns # <<>> /\ Head(conns).op = "command" /\ mpc = "idle" /\ mpc' = "idle"
        /\ UNCHANGED <<writer, endf, pidf, mtok>>
    BY <1>1 DEF HandleCommand, Accept, start_new, procVars
  <2>2. ~NoCommand /\ Fresh(Head(conns).tok)
    BY <2>1, CommandTokens, TailQueue, Zenon DEF NoCommand, FreshInv
  <2>3. rpc # "kill"
    BY <2>2 DEF QuietInv, Serving
  <2>4. ASSUME NEW t \in Tokens, PastPid(t)'
        PROVE  Killable(t)'
    <3>1. CASE t = Head(conns).tok
      BY <1>0, <2>1, <2>2, <2>3, <2>4, <3>1 DEF PastPid, Fresh
    <3>2. CASE t # Head(conns).tok
      <4>1. reader'[t] = reader[t] /\ status'[t] = status[t]
        BY <1>1, <3>2, SMTT(30) DEF HandleCommand, start_new, procVars, tableVars, TypeOK,
            ProcTypeOK, MgrTypeOK
      <4>2. QED
        BY <1>0, <2>1, <2>4, <4>1 DEF PidInv, PastPid, Killable, Killing
    <3>3. QED
      BY <3>1, <3>2
  <2>5. QED
    BY <2>1, <2>4 DEF PidInv
<1>2. CASE HandleProcess \/ HandleDetails \/ HandleNext
  <2>1. /\ mpc = "idle" /\ mpc' \notin {"term", "procstat"}
        /\ UNCHANGED <<writer, reader, endf, pidf, status>>
        /\ mpc' = "endstat" => mtok' \in Entries(Head(conns).user)
    BY <1>2 DEF HandleProcess, HandleDetails, HandleNext, Accept, procVars, tableVars
  <2>2. QED
    BY <1>0, <2>1 DEF PidInv, PastPid, Killable, Killing, Entries
<1>3. CASE NextEndStat
  <2>1. /\ mpc = "endstat" /\ mpc' = "idle"
        /\ UNCHANGED <<writer, reader, endf, pidf>>
        /\ \A t \in Tokens : t # mtok => status'[t] = status[t]
    BY <1>3 DEF NextEndStat, Finish, procVars
  <2>2. QED
    BY <1>0, <2>1 DEF PidInv, PastPid, Killable, Killing
<1>4. CASE HandleDelete
  <2>1. /\ mpc = "idle" /\ UNCHANGED <<writer, reader, endf, status>>
        /\ mpc' \in {"idle", "term"}
        /\ \A t \in Tokens : pidf'[t] = pidf[t] \/ (mpc' = "term" /\ mtok' = t)
    BY <1>4 DEF HandleDelete, Accept, tableVars, TypeOK, ProcTypeOK, MgrTypeOK
  <2>2. QED
    BY <1>0, <2>1 DEF PidInv, PastPid, Killable, Killing
<1>5. CASE KillTerm
  <2>1. /\ mpc = "term" /\ mpc' = "procstat"
        /\ UNCHANGED <<reader, endf, pidf, status, mtok>>
        /\ \A t \in Tokens : writer'[t] = writer[t] \/ writer[t] = "run"
    BY <1>5 DEF KillTerm, SignalTerm, AfterTerm, tableVars
  <2>2. QED
    BY <1>0, <2>1 DEF PidInv, PastPid, Killable, Killing
<1>6. CASE KillCheck
  <2>1. /\ mpc = "procstat" /\ mpc' = "idle"
        /\ UNCHANGED <<writer, reader, endf, pidf>>
        /\ status' = [status EXCEPT ![mtok] = NoEntry]
    BY <1>6 DEF KillCheck, ProcStatFound, PidHasNewline, Finish
  <2>2. QED
    BY <1>0, <2>1 DEF PidInv, PastPid, Killable, Killing, TypeOK, ProcTypeOK, MgrTypeOK
<1>7. QED
  BY <1>1, <1>2, <1>3, <1>4, <1>5, <1>6 DEF ManagerStep

LEMMA PidStep ==
    ASSUME PidKnown
    PROVE  TypeOK /\ TalkInv /\ QuietInv /\ FreshInv /\ LifeInv /\ PidInv /\ [Next]_vars
               => PidInv'
<1> SUFFICES ASSUME TypeOK, TalkInv, QuietInv, FreshInv, LifeInv, PidInv, [Next]_vars
             PROVE  PidInv'
  OBVIOUS
<1>1. CASE EndStat
  <2>1. /\ UNCHANGED <<writer, reader, pidf, status, mpc, mtok>> /\ rpc = "endstat"
        /\ \A t \in Tokens : endf'[t] => endf[t]
        /\ rpc' = "kill" => rtok' = rtok /\ endf[rtok]
    BY <1>1 DEF EndStat, GoTo, Answered, mgrVars, tableVars, serverVars, TypeOK, ProcTypeOK
  <2>2. QED
    BY <2>1 DEF PidInv, PastPid, Killable, Killing
<1>2. CASE (WorkerStep /\ ~EndStat) \/ Request \/ StopWorker
  <2>1. UNCHANGED <<writer, reader, endf, pidf, status, mpc, mtok>>
    BY <1>2, Zenon DEF WorkerStep, ListAnswer, DetailsAnswer, AskNext, NextAnswer, ReadChunk,
                EndAnswer, Request, GetList, Post, GetChunk, Delete, StopWorker,
                procVars, mgrVars, tableVars, serverVars
  <2>2. rpc' # "kill" \/ UNCHANGED <<rpc, rtok>>
    BY <1>2, Zenon DEF WorkerStep, ListAnswer, DetailsAnswer, AskNext, NextAnswer, ReadChunk,
                EndAnswer, Request, GetList, Post, GetChunk, Delete, StopWorker, Begin,
                Answered, AnswerGone, GoTo, TextIsEnd, PidKnown, restVars, workerVars
  <2>3. QED
    BY <2>1, <2>2 DEF PidInv, PastPid, Killable, Killing
<1>3. CASE StopDaemon
  <2>1. mpc' = "down" /\ \A t \in Tokens : status'[t] = NoEntry
    BY <1>3 DEF StopDaemon, Stop
  <2>2. QED
    BY <2>1 DEF PidInv, Killable
<1>4. CASE StartDaemon
  <2>1. mpc = "down" /\ mpc' = "idle" /\ status' = status
    BY <1>4 DEF StartDaemon, init, tableVars
  <2>2. QED
    BY <2>1 DEF PidInv, Killable, TalkInv, DownInv
<1>5. CASE UNCHANGED vars
  BY <1>5 DEF PidInv, PastPid, Killable, Killing, vars, procVars, mgrVars, tableVars,
              serverVars, restVars, workerVars
<1>6. QED
  BY <1>1, <1>2, <1>3, <1>4, <1>5, PidProcess, PidManager DEF Next

LEMMA Deletable ==
    ASSUME PidKnown
    PROVE  Spec => []PidInv
<1>1. Init => PidInv
  BY DEF Init, ProcInit, MgrInit, PidInv, PastPid
<1>2. QED
  BY <1>1, PidStep, Living, QueueInOrder, Talking, TypeCorrect, PTL DEF Spec

-----------------------------------------------------------------------------
(***************************************************************************)
(* 410 is final.                                                           *)
(***************************************************************************)

\* The answer to <details> is still right when the worker reads it.
AnswerInv ==
    /\ reply.kind = "details" => <<ruser, rtok>> \notin gone
    /\ rpc = "details" /\ reply # NoReply =>
          reply.kind = "details" \/ rtok \notin Entries(ruser)

\* An entry that is gone for its client is being deleted, or the delete is ahead
\* of any later question in the queue and will find a pid file.
LeavingInv ==
    \A u \in Users, t \in Tokens :
        <<u, t>> \in gone /\ t \in Entries(u) =>
            Killing(t) \/ (pidf[t] /\ DeleteQueued(t))

GoneInv == AnswerInv /\ LeavingInv /\ GoneIsForever

LEMMA GoneProcess ==
    ASSUME PidKnown, TypeOK, GoneInv, NEW s \in Tokens,
           ProcessorStep(s) \/ OpcStep(s), UNCHANGED <<mgrVars, restVars>>
    PROVE  GoneInv'
<1>0. UNCHANGED <<mpc, mtok, conns, status, owner, reply, rpc, rtok, ruser, gone>>
  BY DEF mgrVars, tableVars, serverVars, restVars, workerVars, clientVars
<1>1. \A t \in Tokens : pidf[t] => pidf'[t]
  <2>1. CASE pid_output(s)
    BY <2>1, Zenon DEF pid_output, Succeeds, PidKnown, TypeOK, ProcTypeOK
  <2>2. CASE pidf' = pidf
    BY <2>2
  <2>3. QED
    BY <2>1, <2>2 DEF ProcessorStep, Detach, Execve, process_chunk, process_chunk_end,
                      WriteEndFile, OpcStep, OpcWrite, OpcExit
<1>2. AnswerInv' /\ GoneIsForever'
  BY <1>0 DEF GoneInv, AnswerInv, GoneIsForever, Entries
<1>3. LeavingInv'
  BY <1>0, <1>1 DEF GoneInv, LeavingInv, Entries, Killing, DeleteQueued
<1>4. QED
  BY <1>2, <1>3 DEF GoneInv

LEMMA GoneQuestion ==
    ASSUME TypeOK, TalkInv, QuietInv, GoneInv,
           HandleProcess \/ HandleDetails \/ HandleNext, UNCHANGED restVars
    PROVE  GoneInv'
<1>0. UNCHANGED <<rpc, rtok, ruser, gone>>
  BY DEF restVars, workerVars, clientVars
<1>1. /\ conns # <<>> /\ Head(conns).op \in Questions /\ mpc = "idle"
      /\ UNCHANGED <<status, owner, pidf>>
  BY DEF HandleProcess, HandleDetails, HandleNext, Accept, Questions, procVars, tableVars
<1>2. \A u \in Users, t \in Tokens : t \in Entries(u) => <<u, t>> \notin gone
  BY <1>1, NoDeleteBefore DEF TalkInv, GoneInv, LeavingInv, Killing
<1>3. LeavingInv'
  BY <1>0, <1>1, <1>2 DEF LeavingInv, Entries
<1>4. Entries(ruser)' = Entries(ruser)
  BY <1>0, <1>1 DEF Entries
<1>5. CASE HandleProcess
  <2>1. /\ Head(conns).op = "process" /\ reply' = ListReply(Entries(Head(conns).user))
    BY <1>5 DEF HandleProcess, Accept
  <2>2. rpc = "list" /\ Head(conns).user = ruser
    BY <1>1, <2>1, QuestionTaken, CommandTokens, TailQueue DEF TalkInv, Waiting, QuietInv
  <2>3. ruser \in Users
    BY <2>2 DEF TypeOK, RestTypeOK
  <2>4. reply'.kind = "list" /\ reply'.toks = Entries(ruser)
    BY <2>1, <2>2 DEF ListReply
  <2>5. \A t \in Entries(ruser) : t \in Tokens
    BY DEF Entries
  <2>6. GoneIsForever'
    BY <1>0, <1>2, <2>2, <2>3, <2>4, <2>5 DEF GoneIsForever
  <2>7. QED
    BY <1>0, <1>3, <2>2, <2>4, <2>6 DEF GoneInv, AnswerInv
<1>6. CASE HandleDetails
  <2>1. /\ Head(conns).op = "details"
        /\ reply' = IF Head(conns).tok \in Entries(Head(conns).user)
                    THEN DetailsReply ELSE EmptyReply
    BY <1>6 DEF HandleDetails, Accept
  <2>2. rpc = "details" /\ Head(conns).user = ruser /\ Head(conns).tok = rtok
    BY <1>1, <2>1, QuestionTaken DEF TalkInv, Waiting
  <2>3. ruser \in Users /\ rtok \in Tokens
    BY <2>2 DEF TypeOK, RestTypeOK
  <2>4. /\ reply'.toks = {}
        /\ IF rtok \in Entries(ruser) THEN reply'.kind = "details" ELSE reply'.kind = "empty"
    BY <2>1, <2>2 DEF DetailsReply, EmptyReply
  <2>5. AnswerInv'
    BY <1>0, <1>2, <1>4, <2>3, <2>4 DEF AnswerInv
  <2>6. GoneIsForever'
    BY <1>0, <2>2, <2>4 DEF GoneIsForever
  <2>7. QED
    BY <1>3, <2>5, <2>6 DEF GoneInv
<1>7. CASE HandleNext
  <2>1. /\ Head(conns).op = "next"
        /\ reply' = reply \/ (reply'.kind # "details" /\ reply'.toks = {})
    <3>1. Head(conns).op = "next"
      BY <1>7 DEF HandleNext, Accept
    <3>2. QED
      BY <1>7, <3>1, AnswerFields, NextReplies
  <2>2. rpc = "next" /\ reply = NoReply
    BY <1>1, <2>1, QuestionTaken DEF TalkInv, Waiting
  <2>3. reply'.toks = {} /\ reply'.kind # "details"
    BY <2>1, <2>2 DEF NoReply
  <2>4. QED
    BY <1>0, <1>3, <2>2, <2>3 DEF GoneInv, AnswerInv, GoneIsForever
<1>8. QED
  BY <1>5, <1>6, <1>7

LEMMA GoneManager ==
    ASSUME TypeOK, TalkInv, QuietInv, FreshInv, PostedNotGone, OwnerInv, PidInv, GoneInv,
           ManagerStep, UNCHANGED restVars
    PROVE  GoneInv'
<1>0. UNCHANGED <<rpc, rtok, ruser, gone>>
  BY DEF restVars, workerVars, clientVars
<1>1. CASE HandleCommand
  <2>1. /\ conns # <<>> /\ conns' = Tail(conns) /\ Head(conns).op = "command"
        /\ mpc = "idle" /\ UNCHANGED <<mpc, mtok, reply, pidf>>
    BY <1>1, Zenon DEF HandleCommand, Accept, start_new, procVars
  <2>2. /\ ~NoCommand /\ Head(conns).tok \in Tokens
        /\ \A u \in Users : <<u, Head(conns).tok>> \notin gone
    BY <2>1, CommandTokens, TailQueue DEF NoCommand, PostedNotGone
  <2>3. reply = NoReply
    BY <2>2 DEF QuietInv
  <2>4. ASSUME NEW u \in Users, NEW t \in Tokens, <<u, t>> \in gone, t \in Entries(u)'
        PROVE  pidf[t] /\ DeleteQueued(t)'
    <3>1. t # Head(conns).tok
      BY <2>2, <2>4
    <3>2. status'[t] = status[t] /\ owner'[t] = owner[t]
      BY <1>1, <3>1 DEF HandleCommand, tableVars, TypeOK, ProcTypeOK, MgrTypeOK
    <3>3. pidf[t] /\ DeleteQueued(t)
      BY <2>1, <2>4, <3>2, Zenon DEF GoneInv, LeavingInv, Entries, Killing
    <3>4. QED
      BY <2>1, <3>3, DeleteNotTaken
  <2>5. LeavingInv'
    BY <1>0, <2>1, <2>4 DEF LeavingInv
  <2>6. QED
    BY <1>0, <2>1, <2>3, <2>5, Zenon DEF GoneInv, AnswerInv, GoneIsForever, NoReply
<1>2. CASE NextEndStat
  <2>1. /\ mpc = "endstat" /\ UNCHANGED <<conns, owner, pidf>>
        /\ reply' = OffsetReply(mresp)
        /\ \A t \in Tokens : t # mtok => status'[t] = status[t]
    BY <1>2 DEF NextEndStat, procVars
  <2>2. rpc = "next" /\ mtok = rtok /\ status[mtok] # NoEntry
    BY <2>1 DEF TalkInv, ReplyInv, PidInv
  <2>3. \A t \in Tokens : status'[t] # NoEntry => status[t] # NoEntry
    BY <2>1, <2>2
  <2>4. LeavingInv'
    <3>1. ASSUME NEW u \in Users, NEW t \in Tokens, <<u, t>> \in gone, t \in Entries(u)'
          PROVE  pidf[t] /\ DeleteQueued(t)
      <4>1. t \in Entries(u)
        BY <2>1, <2>3, <3>1 DEF Entries
      <4>2. QED
        BY <2>1, <3>1, <4>1 DEF GoneInv, LeavingInv, Killing
    <3>2. \A t \in Tokens : DeleteQueued(t)' <=> DeleteQueued(t)
      BY <2>1 DEF DeleteQueued
    <3>3. QED
      BY <1>0, <2>1, <3>1, <3>2 DEF LeavingInv
  <2>5. reply'.kind = "offset" /\ reply'.toks = {}
    BY <2>1 DEF OffsetReply
  <2>6. QED
    BY <1>0, <2>2, <2>4, <2>5 DEF GoneInv, AnswerInv, GoneIsForever
<1>3. CASE HandleDelete
  <2>1. /\ conns # <<>> /\ conns' = Tail(conns) /\ Head(conns).op = "delete"
        /\ mpc = "idle" /\ UNCHANGED <<reply, status, owner>>
        /\ \A t \in Tokens : t # Head(conns).tok => pidf'[t] = pidf[t]
        /\ pidf[Head(conns).tok] => mpc' = "term" /\ mtok' = Head(conns).tok
    BY <1>3 DEF HandleDelete, Accept, tableVars, TypeOK, ProcTypeOK, MgrTypeOK
  <2>2. ASSUME NEW u \in Users, NEW t \in Tokens, <<u, t>> \in gone, t \in Entries(u)
        PROVE  Killing(t)' \/ (pidf'[t] /\ DeleteQueued(t)')
    <3>1. pidf[t] /\ DeleteQueued(t)
      BY <2>1, <2>2 DEF GoneInv, LeavingInv, Killing
    <3>2. CASE t = Head(conns).tok
      BY <2>1, <3>1, <3>2 DEF Killing
    <3>3. CASE t # Head(conns).tok
      BY <2>1, <3>1, <3>3, DeleteNotTaken, Zenon
    <3>4. QED
      BY <3>2, <3>3
  <2>3. LeavingInv'
    BY <1>0, <2>1, <2>2 DEF LeavingInv, Entries
  <2>4. QED
    BY <1>0, <2>1, <2>3 DEF GoneInv, AnswerInv, GoneIsForever, Entries
<1>4. CASE KillTerm
  <2>1. /\ mpc = "term" /\ mpc' = "procstat"
        /\ UNCHANGED <<mtok, conns, pidf, reply, status, owner>>
    BY <1>4 DEF KillTerm, tableVars
  <2>2. LeavingInv'
    BY <1>0, <2>1 DEF GoneInv, LeavingInv, Entries, Killing, DeleteQueued
  <2>3. QED
    BY <1>0, <2>1, <2>2, Zenon DEF GoneInv, AnswerInv, GoneIsForever, Entries
<1>5. CASE KillCheck
  <2>1. /\ mpc = "procstat" /\ UNCHANGED <<conns, pidf, reply, owner>>
        /\ status' = [status EXCEPT ![mtok] = NoEntry]
    BY <1>5 DEF KillCheck, ProcStatFound, PidHasNewline
  <2>2. \A t \in Tokens : /\ status'[t] # NoEntry => status[t] # NoEntry /\ t # mtok
    BY <2>1 DEF TypeOK, ProcTypeOK, MgrTypeOK
  <2>3. LeavingInv'
    <3>1. ASSUME NEW u \in Users, NEW t \in Tokens, <<u, t>> \in gone, t \in Entries(u)'
          PROVE  pidf[t] /\ DeleteQueued(t)
      <4>1. t \in Entries(u) /\ t # mtok
        BY <2>1, <2>2, <3>1 DEF Entries
      <4>2. QED
        BY <2>1, <3>1, <4>1 DEF GoneInv, LeavingInv, Killing
    <3>2. \A t \in Tokens : DeleteQueued(t)' <=> DeleteQueued(t)
      BY <2>1 DEF DeleteQueued
    <3>3. QED
      BY <1>0, <2>1, <3>1, <3>2 DEF LeavingInv
  <2>4. rtok \in Entries(ruser)' => rtok \in Entries(ruser)
    BY <1>0, <2>1, <2>2 DEF Entries
  <2>5. QED
    BY <1>0, <2>1, <2>3, <2>4 DEF GoneInv, AnswerInv, GoneIsForever
<1>6. QED
  BY <1>1, <1>2, <1>3, <1>4, <1>5, GoneQuestion DEF ManagerStep

LEMMA GoneWorker ==
    ASSUME PidKnown, TypeOK, TalkInv, QuietInv, PidInv, GoneInv, WorkerStep
    PROVE  GoneInv'
<1>0. UNCHANGED <<status, owner, mpc, mtok, pidf>>
  BY Zenon DEF WorkerStep, ListAnswer, DetailsAnswer, AskNext, NextAnswer, ReadChunk, EndStat,
         EndAnswer, procVars, mgrVars, tableVars, serverVars
<1>1. /\ reply' = NoReply
  <2>1. CASE ListAnswer \/ DetailsAnswer \/ NextAnswer
    BY <2>1 DEF ListAnswer, DetailsAnswer, NextAnswer
  <2>2. CASE AskNext \/ ReadChunk \/ EndStat \/ EndAnswer
    <3>1. rpc \notin {"list", "details", "next"} /\ reply' = reply
      BY <2>2 DEF AskNext, ReadChunk, EndStat, EndAnswer, mgrVars, serverVars
    <3>2. QED
      BY <3>1 DEF TalkInv, ReplyInv
  <2>3. QED
    BY <2>1, <2>2 DEF WorkerStep
<1>2. AnswerInv'
  BY <1>1, Zenon DEF AnswerInv, NoReply
<1>3. GoneIsForever'
  <2>1. rpc' \in Serving => <<ruser', rtok'>> \notin gone'
    <3>1. CASE DetailsAnswer
      BY <3>1 DEF DetailsAnswer, GoTo, AnswerGone, Answered, Serving, GoneInv, AnswerInv
    <3>2. CASE WorkerStep /\ ~DetailsAnswer
      <4>1. \/ rpc' \notin Serving
            \/ rpc \in Serving /\ UNCHANGED <<ruser, rtok, gone>>
        BY <3>2, Zenon DEF WorkerStep, ListAnswer, AskNext, NextAnswer, ReadChunk, EndStat,
                    EndAnswer, GoTo, AnswerGone, Answered, Serving, clientVars
      <4>2. QED
        BY <4>1 DEF GoneInv, GoneIsForever, Serving
    <3>3. QED
      BY <3>1, <3>2
  <2>2. QED
    BY <1>1, <2>1 DEF GoneIsForever, Serving, NoReply
<1>4. LeavingInv'
  <2>1. CASE DetailsAnswer
    <3>1. /\ conns' = conns /\ rpc = "details" /\ reply # NoReply
          /\ \/ gone' = gone
             \/ reply.kind # "details" /\ gone' = gone \cup {<<ruser, rtok>>}
      BY <2>1 DEF DetailsAnswer, AnswerGone
    <3>2. ASSUME NEW u \in Users, NEW t \in Tokens, <<u, t>> \in gone', t \in Entries(u)
          PROVE  <<u, t>> \in gone
      BY <3>1, <3>2 DEF GoneInv, AnswerInv
    <3>3. QED
      BY <1>0, <3>1, <3>2 DEF GoneInv, LeavingInv, Entries, Killing, DeleteQueued
  <2>2. CASE EndAnswer
    <3>1. /\ rpc = "kill" /\ rtok \in Tokens /\ ruser \in Users
          /\ \/ /\ conns' = Append(conns, Message("delete", rtok, ruser, FALSE))
                /\ gone' = gone \cup {<<ruser, rtok>>}
             \/ UNCHANGED <<conns, gone>>
      BY <2>2, Zenon DEF EndAnswer, Send, AnswerGone, TypeOK, RestTypeOK
    <3>2. CASE UNCHANGED <<conns, gone>>
      BY <1>0, <3>2 DEF GoneInv, LeavingInv, Entries, Killing, DeleteQueued
    <3>3. CASE /\ conns' = Append(conns, Message("delete", rtok, ruser, FALSE))
               /\ gone' = gone \cup {<<ruser, rtok>>}
      <4>1. PICK m \in Messages : m = Message("delete", rtok, ruser, FALSE)
        BY <3>1, SentIsMessage, Zenon DEF Ops
      <4>2. m.op = "delete" /\ m.tok = rtok
        BY <4>1 DEF Message
      <4>3. \A t \in Tokens : DeleteQueued(t) \/ t = rtok => DeleteQueued(t)'
        BY <3>3, <4>1, <4>2, DeleteAppended, Zenon
      <4>4. status[rtok] # NoEntry => pidf[rtok] \/ Killing(rtok)
        BY <3>1 DEF PidInv, PastPid, Killable
      <4>5. ASSUME NEW u \in Users, NEW t \in Tokens, <<u, t>> \in gone', t \in Entries(u)
            PROVE  Killing(t) \/ (pidf[t] /\ DeleteQueued(t)')
        <5>1. CASE t = rtok
          BY <4>3, <4>4, <4>5, <5>1, Zenon DEF Entries
        <5>2. CASE t # rtok
          BY <3>3, <4>3, <4>5, <5>2 DEF GoneInv, LeavingInv
        <5>3. QED
          BY <5>1, <5>2
      <4>6. QED
        BY <1>0, <4>5 DEF LeavingInv, Entries, Killing
    <3>4. QED
      BY <3>1, <3>2, <3>3, Zenon
  <2>3. CASE AskNext
    <3>1. rtok \in Tokens /\ ruser \in Users /\ gone' = gone
      BY <2>3 DEF AskNext, TypeOK, RestTypeOK, clientVars
    <3>2. \/ conns' = conns
          \/ conns' = Append(conns, Message("next", rtok, ruser, FALSE))
      BY <2>3, Zenon DEF AskNext, Send
    <3>3. \A t \in Tokens : DeleteQueued(t) => DeleteQueued(t)'
      <4>1. Message("next", rtok, ruser, FALSE) \in Messages
        BY <3>1, SentIsMessage, Zenon DEF Ops
      <4>2. CASE conns' = conns
        BY <4>2 DEF DeleteQueued
      <4>3. CASE conns' = Append(conns, Message("next", rtok, ruser, FALSE))
        BY <4>1, <4>3, DeleteAppended, Zenon
      <4>4. QED
        BY <3>2, <4>2, <4>3, Zenon
    <3>4. QED
      BY <1>0, <3>1, <3>3 DEF GoneInv, LeavingInv, Entries, Killing
  <2>4. CASE ListAnswer \/ NextAnswer \/ ReadChunk \/ EndStat
    <3>1. UNCHANGED <<conns, gone>>
      BY <2>4 DEF ListAnswer, NextAnswer, ReadChunk, EndStat, clientVars, mgrVars, serverVars
    <3>2. QED
      BY <1>0, <3>1 DEF GoneInv, LeavingInv, Entries, Killing, DeleteQueued
  <2>5. QED
    BY <2>1, <2>2, <2>3, <2>4 DEF WorkerStep
<1>5. QED
  BY <1>2, <1>3, <1>4 DEF GoneInv

LEMMA GoneRequest ==
    ASSUME TypeOK, TalkInv, GoneInv, Request
    PROVE  GoneInv'
<1>1. /\ rpc = "idle" /\ rpc' \notin Serving
      /\ UNCHANGED <<mpc, mtok, status, owner, reply, pidf, gone>>
  BY DEF Request, GetList, Post, GetChunk, Delete, Begin, Serving, procVars, tableVars,
         clientVars, restVars, workerVars
<1>2. reply' = NoReply
  BY <1>1 DEF TalkInv, ReplyInv
<1>3. PICK m \in Messages : conns' = Append(conns, m)
  <2>1. ASSUME NEW u \in Users, GetList(u)
        PROVE  \E m \in Messages : conns' = Append(conns, m)
    <3>1. Message("process", NoToken, u, FALSE) \in Messages
      BY Zenon DEF Message, Messages
    <3>2. QED
      BY <2>1, <3>1, Zenon DEF GetList, Send
  <2>2. ASSUME NEW u \in Users, NEW t \in Tokens, NEW s \in BOOLEAN,
               Post(u, t, s) \/ GetChunk(u, t) \/ Delete(u, t)
        PROVE  \E m \in Messages : conns' = Append(conns, m)
    <3>1. /\ Message("command", t, u, s) \in Messages
          /\ Message("details", t, u, FALSE) \in Messages
          /\ Message("delete", t, u, FALSE) \in Messages
      BY SentIsMessage, Zenon DEF Ops
    <3>2. QED
      BY <2>2, <3>1, Zenon DEF Post, GetChunk, Delete, Send
  <2>3. QED
    BY <2>1, <2>2, Zenon DEF Request
<1>4. \A t \in Tokens : DeleteQueued(t) => DeleteQueued(t)'
  BY <1>3, DeleteAppended
<1>5. LeavingInv'
  BY <1>1, <1>4 DEF GoneInv, LeavingInv, Entries, Killing
<1>6. NoReply.kind # "details" /\ NoReply.toks = {}
  BY DEF NoReply
<1>7. AnswerInv'
  BY <1>2, <1>6 DEF AnswerInv
<1>8. GoneIsForever'
  BY <1>1, <1>2, <1>6 DEF GoneIsForever, Serving
<1>9. QED
  BY <1>5, <1>7, <1>8 DEF GoneInv

LEMMA GoneStep ==
    ASSUME PidKnown
    PROVE  /\ TypeOK /\ TalkInv /\ QuietInv /\ FreshInv /\ PostedNotGone
           /\ OwnerInv /\ PidInv /\ GoneInv /\ [Next]_vars
           => GoneInv'
<1> SUFFICES ASSUME TypeOK, TalkInv, QuietInv, FreshInv, PostedNotGone, OwnerInv, PidInv,
                    GoneInv, [Next]_vars
             PROVE  GoneInv'
  OBVIOUS
<1>1. CASE StopDaemon
  <2>1. /\ \A t \in Tokens : status'[t] = NoEntry
        /\ UNCHANGED <<rpc, rtok, ruser, gone>>
        /\ reply' = reply \/ reply' = EmptyReply
    BY <1>1 DEF StopDaemon, Stop, restVars, workerVars, clientVars
  <2>2. \A u : Entries(u)' = {}
    BY <2>1 DEF Entries
  <2>3. LeavingInv'
    BY <2>2, Zenon DEF LeavingInv
  <2>4. EmptyReply.kind # "details" /\ EmptyReply.toks = {}
    BY DEF EmptyReply
  <2>5. AnswerInv'
    <3>1. reply'.kind = "details" => <<ruser', rtok'>> \notin gone'
      BY <2>1, <2>4 DEF GoneInv, AnswerInv
    <3>2. QED
      BY <2>2, <3>1, Zenon DEF AnswerInv
  <2>6. GoneIsForever'
    BY <2>1, <2>4 DEF GoneInv, GoneIsForever
  <2>7. QED
    BY <2>3, <2>5, <2>6, Zenon DEF GoneInv
<1>2. CASE StopWorker
  <2>1. /\ mpc = "down" /\ UNCHANGED <<status, gone>> /\ rpc' = "idle" /\ reply' = NoReply
    BY <1>2 DEF StopWorker, Answered, tableVars, clientVars
  <2>2. \A u : Entries(u)' = {}
    BY <2>1 DEF Entries, TalkInv, DownInv
  <2>3. QED
    BY <2>1, <2>2 DEF GoneInv, LeavingInv, AnswerInv, GoneIsForever, NoReply
<1>3. CASE StartDaemon
  <2>1. /\ mpc = "down" /\ UNCHANGED <<status, gone, rpc, rtok, ruser, reply>>
    BY <1>3 DEF StartDaemon, init, tableVars, restVars, workerVars, clientVars
  <2>2. \A u : Entries(u)' = {}
    BY <2>1 DEF Entries, TalkInv, DownInv
  <2>3. QED
    BY <2>1, <2>2, Zenon DEF GoneInv, LeavingInv, AnswerInv, GoneIsForever
<1>4. CASE UNCHANGED vars
  BY <1>4 DEF GoneInv, LeavingInv, AnswerInv, GoneIsForever, Entries, Killing, DeleteQueued,
              vars, procVars, mgrVars, tableVars, serverVars, restVars, workerVars, clientVars
<1>5. QED
  BY <1>1, <1>2, <1>3, <1>4, GoneProcess, GoneManager, GoneWorker, GoneRequest DEF Next

LEMMA Owning == Spec => []OwnerInv
<1>1. Init => OwnerInv
  BY DEF Init, MgrInit, OwnerInv, NoReply, Serving
<1>2. QED
  BY <1>1, OwnerStep, QueueInOrder, Talking, TypeCorrect, PTL DEF Spec

LEMMA Leaving ==
    ASSUME PidKnown
    PROVE  Spec => []GoneInv
<1>1. Init => GoneInv
  BY DEF Init, MgrInit, GoneInv, LeavingInv, AnswerInv, GoneIsForever, NoReply
<1>2. QED
  BY <1>1, GoneStep, Owning, Deletable, QueueInOrder, Talking, TypeCorrect, PTL DEF Spec

\* After 410 no GET of the same user gets to a chunk of that command again and
\* no list names it, although the entry is deleted by a message that the worker
\* does not wait for: the delete is ahead of every later question.
THEOREM GoneForever ==
    ASSUME PidKnown
    PROVE  Spec => []GoneIsForever
<1>1. GoneInv => GoneIsForever
  BY DEF GoneInv
<1>2. QED
  BY <1>1, Leaving, PTL

-----------------------------------------------------------------------------
(***************************************************************************)
(* The stream.                                                             *)
(***************************************************************************)

\* Nothing is received that was not written.
GotInv == \A t \in Tokens : got[t] <= emitted[t]

\* What get_chunk reads extends what the client has, within what was written.
LEMMA ReadIsOutput ==
    ASSUME Regular, TypeOK, SizeInv, NoSkip, GotInv, ReadChunk
    PROVE  /\ rtok \in Tokens
           /\ \/ got' = got
              \/ \E n \in got[rtok] .. emitted[rtok] : got' = [got EXCEPT ![rtok] = n]
<1>1. PICK r \in Tokens : r = rtok
  BY DEF ReadChunk, RestTypeOK, TypeOK
<1>2. CASE data[r] # NoFile /\ roff >= 0
  <2>1. /\ got[r] \in Nat /\ emitted[r] \in Nat /\ data[r] \in Nat /\ roff \in Nat
        /\ roff <= got[r] /\ got[r] <= emitted[r] /\ data[r] <= emitted[r]
    <3>1. got[r] \in Nat /\ roff \in Int
      BY DEF RestTypeOK, TypeOK
    <3>2. emitted[r] \in Nat /\ taken[r] \in Nat /\ data[r] \in Nat
      BY <1>2 DEF ProcTypeOK, TypeOK
    <3>3. data[r] <= taken[r] /\ taken[r] <= emitted[r]
      BY DEF SizeInv
    <3>4. roff <= got[r] /\ got[r] <= emitted[r]
      BY <1>1 DEF ReadChunk, NoSkip, GotInv
    <3>5. roff \in Nat
      BY <1>2, <3>1
    <3>6. data[r] <= emitted[r]
      BY <3>2, <3>3
    <3>7. QED
      BY <3>1, <3>2, <3>4, <3>5, <3>6, Zenon
  <2>2. PICK m \in Nat : m = ReadEnd(r, roff) /\ m <= emitted[r]
    <3>1. ReadSize \in Nat
      BY OpModeAssumption
    <3>2. QED
      BY <2>1, <3>1, SMTT(30) DEF ReadEnd, Least
  <2>3. got' = [got EXCEPT ![r] = IF got[r] < m THEN m ELSE got[r]]
    BY <1>1, <1>2, <2>2 DEF ReadChunk, TextIsEnd, Regular
  <2>4. (IF got[r] < m THEN m ELSE got[r]) \in got[r] .. emitted[r]
    BY <2>1, <2>2, SMTT(30)
  <2>5. QED
    BY <1>1, <2>3, <2>4, Zenon
<1>3. CASE ~(data[r] # NoFile /\ roff >= 0)
  BY <1>1, <1>3, Zenon DEF ReadChunk
<1>4. QED
  BY <1>2, <1>3

\* Who changes what the stream consists of.
LEMMA StreamChange ==
    ASSUME [Next]_vars
    PROVE  /\ \/ emitted' = emitted
              \/ \E t \in Tokens : OpcWrite(t) /\ UNCHANGED <<mgrVars, restVars>>
           /\ \/ got' = got
              \/ ReadChunk
<1>1. ASSUME NEW t \in Tokens, ProcessorStep(t) \/ OpcStep(t), UNCHANGED <<mgrVars, restVars>>
      PROVE  got' = got /\ (emitted' = emitted \/ OpcWrite(t))
  BY <1>1 DEF ProcessorStep, Detach, pid_output, Execve, process_chunk, process_chunk_end,
              WriteEndFile, OpcStep, OpcExit, restVars, clientVars
<1>2. CASE ManagerStep /\ UNCHANGED restVars
  <2>1. got' = got
    BY <1>2 DEF restVars, clientVars
  <2>2. emitted' = emitted
    BY <1>2 DEF ManagerStep, HandleCommand, start_new, HandleProcess, HandleDetails,
                HandleNext, NextEndStat, HandleDelete, KillTerm, KillCheck, procVars
  <2>3. QED
    BY <2>1, <2>2
<1>3. CASE WorkerStep
  BY <1>3 DEF WorkerStep, ListAnswer, DetailsAnswer, AskNext, NextAnswer, ReadChunk, EndStat,
              EndAnswer, procVars, clientVars
<1>4. CASE Request
  BY <1>4 DEF Request, GetList, Post, GetChunk, Delete, procVars, restVars, clientVars
<1>5. CASE StopDaemon \/ StopWorker \/ StartDaemon \/ UNCHANGED vars
  BY <1>5 DEF StopDaemon, Stop, StopWorker, StartDaemon, init, vars, procVars, restVars,
              clientVars
<1>6. QED
  BY <1>1, <1>2, <1>3, <1>4, <1>5 DEF Next

LEMMA GotStep ==
    ASSUME Regular
    PROVE  TypeOK /\ SizeInv /\ NoSkip /\ GotInv /\ [Next]_vars => GotInv'
<1> SUFFICES ASSUME TypeOK, SizeInv, NoSkip, GotInv, [Next]_vars
             PROVE  GotInv'
  OBVIOUS
<1>0. got \in [Tokens -> Nat] /\ emitted \in [Tokens -> Nat]
  BY DEF TypeOK, RestTypeOK, ProcTypeOK
<1>1. CASE ReadChunk
  <2>1. emitted' = emitted
    BY <1>1 DEF ReadChunk, procVars
  <2>2. QED
    BY <1>0, <1>1, <2>1, ReadIsOutput DEF GotInv
<1>2. CASE got' = got
  <2>1. \/ emitted' = emitted
        \/ \E t \in Tokens : emitted' = [emitted EXCEPT ![t] = emitted[t] + 1]
    BY StreamChange DEF OpcWrite
  <2>2. \A t \in Tokens : emitted'[t] \in Nat /\ emitted'[t] >= emitted[t]
    BY <1>0, <2>1
  <2>3. QED
    BY <1>0, <1>2, <2>2 DEF GotInv
<1>3. QED
  BY <1>1, <1>2, StreamChange

LEMMA Received ==
    ASSUME Regular
    PROVE  Spec => [](NoSkipInv /\ GotInv)
<1>1. Init => GotInv
  <2> SUFFICES ASSUME Init, NEW t \in Tokens
               PROVE  got[t] <= emitted[t]
    BY Zenon DEF GotInv
  <2>1. got[t] = 0 /\ emitted[t] = 0
    BY DEF Init, ProcInit
  <2>2. QED
    BY <2>1
<1>2. NoSkipInv => SizeInv
  BY DEF NoSkipInv
<1>3. QED
  BY <1>1, <1>2, GotStep, NothingSkipped, OffsetsCovered, TypeCorrect, PTL DEF Spec

\* The tokens whose client was told that it is over.
Finished == {t \in Tokens : <<owner[t], t>> \in gone}

LEMMA SameFinished ==
    ASSUME \A t \in Tokens : <<owner'[t], t>> \in gone' <=> <<owner[t], t>> \in gone
    PROVE  Finished' = Finished
BY DEF Finished

\* 410 ends the stream of a token, or it was not the user's.
LEMMA GoneEnds ==
    ASSUME TypeOK, owner' = owner, rtok \in Tokens, gone' = gone \cup {<<ruser, rtok>>},
           UNCHANGED <<got, emitted>>
    PROVE  Finished' = Finished \/ \E t \in Tokens : Stream!End(t)
<1>1. CASE owner[rtok] = ruser
  <2>1. \A t \in Tokens : <<owner'[t], t>> \in gone' <=> <<owner[t], t>> \in gone \/ t = rtok
    BY <1>1
  <2>2. Finished' = Finished \cup {rtok}
    BY <2>1 DEF Finished
  <2>3. QED
    BY <2>2 DEF Stream!End, Finished
<1>2. CASE owner[rtok] # ruser
  <2>1. \A t \in Tokens : <<owner'[t], t>> \in gone' <=> <<owner[t], t>> \in gone
    BY <1>2
  <2>2. QED
    BY <2>1, SameFinished
<1>3. QED
  BY <1>1, <1>2

\* The manager makes somebody the owner of a token of which nobody was told that
\* it is gone.
LEMMA OwnerChange ==
    ASSUME TypeOK, PostedNotGone, FreshInv, [Next]_vars
    PROVE  owner' = owner \/ (gone' = gone /\ Finished' = Finished)
<1>1. CASE HandleCommand /\ UNCHANGED restVars
  <2>1. conns # <<>> /\ Head(conns).op = "command" /\ gone' = gone
    BY <1>1, Zenon DEF HandleCommand, Accept, restVars, clientVars
  <2>2. PICK c \in Messages : c = Head(conns)
    BY <2>1, QueueHead DEF TypeOK, MgrTypeOK
  <2>3. c.tok \in Tokens /\ c.user \in Users
    BY <2>1, <2>2, CommandTokens, TailQueue DEF Messages
  <2>4. \A u \in Users : <<u, c.tok>> \notin gone
    BY <2>1, <2>2, CommandTokens, TailQueue DEF PostedNotGone
  <2>5. CASE owner' = [owner EXCEPT ![c.tok] = c.user]
    <3>1. gone \subseteq Users \X Tokens
      BY DEF RestTypeOK, TypeOK, MgrTypeOK
    <3>2. ASSUME NEW t \in Tokens
          PROVE  <<owner'[t], t>> \in gone' <=> <<owner[t], t>> \in gone
      <4>1. CASE t = c.tok
        BY <2>1, <2>3, <2>4, <2>5, <3>1, <4>1
      <4>2. CASE t # c.tok
        BY <2>1, <2>3, <2>5, <4>2
      <4>3. QED
        BY <4>1, <4>2
    <3>3. QED
      BY <2>1, <3>2, SameFinished
  <2>6. QED
    BY <1>1, <2>2, <2>5 DEF HandleCommand, tableVars
<1>2. CASE ManagerStep /\ ~HandleCommand
  BY <1>2 DEF ManagerStep, HandleProcess, HandleDetails, HandleNext, NextEndStat,
              HandleDelete, KillTerm, KillCheck, tableVars
<1>3. CASE WorkerStep \/ Request
  BY <1>3, Zenon DEF WorkerStep, ListAnswer, DetailsAnswer, AskNext, NextAnswer, ReadChunk, EndStat,
              EndAnswer, Request, GetList, Post, GetChunk, Delete, tableVars, mgrVars
<1>4. CASE \/ UNCHANGED mgrVars \/ StopDaemon \/ StopWorker \/ StartDaemon \/ UNCHANGED vars
  BY <1>4 DEF StopDaemon, Stop, StopWorker, StartDaemon, init, vars, mgrVars, tableVars
<1>5. QED
  BY <1>1, <1>2, <1>3, <1>4 DEF Next

LEMMA StreamStep ==
    ASSUME Regular
    PROVE  /\ TypeOK /\ TalkInv /\ QuietInv /\ FreshInv /\ PostedNotGone /\ OwnerInv
           /\ GoneIsForever /\ SizeInv /\ NoSkip /\ GotInv /\ [Next]_vars
           => [Stream!StreamNext]_(Stream!streamVars)
<1> SUFFICES ASSUME TypeOK, TalkInv, QuietInv, FreshInv, PostedNotGone, OwnerInv,
                    GoneIsForever, SizeInv, NoSkip, GotInv, [Next]_vars
             PROVE  Stream!StreamNext \/ UNCHANGED Stream!streamVars
  BY DEF Stream!StreamNext
<1>0. Finished = {t \in Tokens : <<owner[t], t>> \in gone}
  BY DEF Finished
<1>1. CASE ReadChunk
  <2>1. UNCHANGED <<emitted, owner, gone>>
    BY <1>1 DEF ReadChunk, procVars, mgrVars, tableVars
  <2>2. rtok \in Tokens /\ rtok \notin Finished
    BY <1>1, ReadIsOutput, Zenon DEF ReadChunk, OwnerInv, GoneIsForever, Serving, Finished
  <2>3. Finished' = Finished
    BY <2>1, SameFinished
  <2>4. got' = got \/ \E t \in Tokens : Stream!Receive(t)
    BY <1>1, <2>1, <2>2, <2>3, ReadIsOutput, Zenon DEF Stream!Receive, Finished
  <2>5. QED
    BY <2>1, <2>3, <2>4 DEF Stream!StreamNext, Stream!streamVars, Finished
<1>2. CASE ~ReadChunk
  <2>1. got' = got
    BY <1>2, StreamChange
  <2>2. CASE emitted' # emitted
    <3>1. PICK t \in Tokens : OpcWrite(t) /\ UNCHANGED <<mgrVars, restVars>>
      BY <2>2, StreamChange
    <3>2. UNCHANGED <<owner, gone>> /\ emitted' = [emitted EXCEPT ![t] = @ + 1]
      BY <2>2, <3>1 DEF OpcWrite, mgrVars, tableVars, restVars, clientVars
    <3>3. Finished' = Finished
      BY <3>2, SameFinished
    <3>4. QED
      BY <2>1, <3>2, <3>3, Zenon DEF Stream!StreamNext, Stream!Produce, Finished
  <2>3. CASE emitted' = emitted
    <3>1. CASE Finished' = Finished
      BY <2>1, <2>3, <3>1 DEF Stream!streamVars, Finished
    <3>2. CASE owner' = owner /\ gone' = gone
      BY <3>1, <3>2, SameFinished
    <3>3. CASE owner' = owner /\ gone' # gone
      <4>1. /\ gone' = gone \cup {<<ruser, rtok>>} /\ rpc \in {"details", "kill"}
        BY <3>3, GoneChange
      <4>2. rtok \in Tokens
        BY <4>1 DEF TypeOK, RestTypeOK
      <4>3. QED
        BY <2>1, <2>3, <3>1, <3>3, <4>1, <4>2, GoneEnds DEF Stream!StreamNext
    <3>4. QED
      BY <3>1, <3>2, <3>3, OwnerChange
  <2>4. QED
    BY <2>2, <2>3
<1>3. QED
  BY <1>1, <1>2

LEMMA StreamInitial == Init => Stream!StreamInit
BY DEF Init, ProcInit, Stream!StreamInit

\* The worker, the manager and the processes of all commands, with restarts and
\* any system call failing that PidKnown lets fail, implement OutputStream: a
\* client receives what its command writes from the start on, in order, and
\* nothing after the end.
THEOREM StreamImplemented ==
    ASSUME Regular, PidKnown
    PROVE  Spec => ImplementsStream
<1>1. NoSkipInv => SizeInv
  BY DEF NoSkipInv
<1>2. QED
  BY <1>1, StreamInitial, StreamStep, Received, NothingSkipped, GoneForever, Owning,
     QueueInOrder, Talking, TypeCorrect, PTL DEF Spec, ImplementsStream, Stream!StreamSpec

-----------------------------------------------------------------------------
(***************************************************************************)
(* A dead process has been read completely.                                *)
(***************************************************************************)

\* What that needs beyond Regular: every chunk gets into the data file, and the
\* output of a command fits in one answer.
OneAnswer == "fopen" \notin Faults /\ MaxOutput <= ReadSize

\* The client has all there will be.
Complete(t) == writer[t] = "dead" /\ got[t] = emitted[t]

\* Entries that the manager has found to be dead, and offsets below zero, belong
\* to commands that are read completely, or will be by the read that is pending.
DeadInv ==
    /\ \A t \in Tokens : status[t] = K_DEAD =>
          \/ Complete(t)
          \/ /\ Pending(t) /\ PendingOff >= 0
             /\ writer[t] = "dead" /\ data[t] = emitted[t]
    /\ \A t \in Tokens : Pending(t) => PendingOff >= 0 \/ Complete(t)
    /\ rpc = "endstat" => roff >= 0 \/ Complete(rtok)

\* Nothing is added once the client has everything.
LEMMA CompleteStays ==
    ASSUME Regular, TypeOK, FreshInv, LifeInv, SizeInv, NoSkip, GotInv, [Next]_vars,
           NEW t \in Tokens, Complete(t)
    PROVE  Complete(t)'
<1>1. writer'[t] = "dead" /\ emitted'[t] = emitted[t]
  BY DeadStays, Zenon DEF Complete
<1>2. got'[t] = got[t]
  <2>0. got \in [Tokens -> Nat] /\ emitted[t] \in Nat
    BY DEF TypeOK, RestTypeOK, ProcTypeOK
  <2>1. CASE ReadChunk /\ got' # got
    <3>1. PICK n \in got[rtok] .. emitted[rtok] : got' = [got EXCEPT ![rtok] = n]
      BY <2>1, ReadIsOutput
    <3>2. CASE rtok = t
      <4>1. n = got[t]
        BY <2>0, <3>1, <3>2, SMTT(30) DEF Complete
      <4>2. QED
        BY <2>0, <3>1, <3>2, <4>1
    <3>3. CASE rtok # t
      BY <2>0, <3>1, <3>3
    <3>4. QED
      BY <3>2, <3>3
  <2>2. QED
    BY <2>1, StreamChange
<1>3. QED
  BY <1>1, <1>2, Zenon DEF Complete

\* A data file that exists is opened at the size it has.
LEMMA OpenedSame == \A n \in Nat : Opened(n) = n
BY DEF Opened, NoFile

\* Arithmetic: equal counts leave nothing in the pipe.
LEMMA NothingBetween == \A m, n \in Nat : m = n => m - n = 0
OBVIOUS

\* Arithmetic: an empty pipe has nothing to read.
LEMMA NotAboveItself == ~(0 > 0)
OBVIOUS

\* The data file of a command that has stopped and is all in it does not change
\* but for its removal.
LEMMA WholeFile ==
    ASSUME TypeOK, FreshInv, LifeInv, SizeInv, [Next]_vars, NEW t \in Tokens,
           writer[t] = "dead", data[t] = emitted[t], ~Removed(t), ~Cleared(t)
    PROVE  data'[t] = emitted'[t] /\ writer'[t] = "dead"
<1>1. writer'[t] = "dead" /\ emitted'[t] = emitted[t]
  BY DeadStays
<1>2. CASE ProcessorStep(t) \/ OpcStep(t)
  <2>1. taken[t] = emitted[t] /\ emitted[t] \in Nat
    <3>1. taken[t] \in Nat /\ emitted[t] \in Nat
      BY DEF TypeOK, ProcTypeOK
    <3>2. emitted[t] <= taken[t] /\ taken[t] <= emitted[t]
      BY DEF SizeInv
    <3>3. QED
      BY <3>1, <3>2
  <2>2. ~process_chunk(t)
    <3>1. process_chunk(t) => InPipe(t) > 0
      BY Zenon DEF process_chunk
    <3>2. InPipe(t) = 0
      BY <2>1, NothingBetween DEF InPipe
    <3>3. ~(InPipe(t) > 0)
      BY <3>2, NotAboveItself, Zenon
    <3>4. QED
      BY <3>1, <3>3, Zenon
  <2>3. Opened(data[t]) = data[t]
    <3>1. data[t] \in Nat
      BY <2>1, Zenon
    <3>2. QED
      BY <3>1, OpenedSame, Zenon
  <2>4. data'[t] = data[t]
    BY <1>2, <2>2, <2>3, Zenon DEF ProcessorStep, Detach, pid_output, Execve, process_chunk_end,
                            WriteEndFile, OpcStep, OpcWrite, OpcExit, TypeOK, ProcTypeOK
  <2>5. QED
    BY <1>1, <2>4, Zenon
<1>3. CASE ~(ProcessorStep(t) \/ OpcStep(t))
  BY <1>1, <1>3, TokenStep, Zenon DEF Same, SameFiles, Started, Terminated, Stopped
<1>4. QED
  BY <1>2, <1>3

LEMMA NotPending ==
    ASSUME ReplyInv, rpc \notin {"next", "stat"}
    PROVE  \A t \in Tokens : ~Pending(t)
BY DEF ReplyInv, Pending

\* Kept by steps that find no command dead and begin no read.
LEMMA DeadFrame ==
    ASSUME Regular, TypeOK, FreshInv, LifeInv, SizeInv, TalkInv, NoSkip, GotInv, DeadInv,
           [Next]_vars,
           \A t \in Tokens :
               /\ Pending(t)' => Pending(t) /\ PendingOff' = PendingOff
               /\ status'[t] = K_DEAD =>
                     /\ status[t] = K_DEAD
                     /\ Pending(t) => Pending(t)' /\ PendingOff' = PendingOff,
           rpc' = "endstat" => rpc = "endstat" /\ UNCHANGED <<rtok, roff>>
    PROVE  DeadInv'
<1>1. ASSUME NEW t \in Tokens, status'[t] = K_DEAD
      PROVE  \/ Complete(t)'
             \/ /\ Pending(t)' /\ PendingOff' >= 0
                /\ writer'[t] = "dead" /\ data'[t] = emitted'[t]
  <2>1. CASE Complete(t)
    BY <2>1, CompleteStays
  <2>2. CASE ~Complete(t)
    <3>1. Pending(t) /\ PendingOff >= 0 /\ writer[t] = "dead" /\ data[t] = emitted[t]
      BY <1>1, <2>2 DEF DeadInv
    <3>2. ~Removed(t) /\ ~Cleared(t)
      <4>1. rpc # "endstat"
        BY <3>1, NotPending DEF TalkInv
      <4>2. mpc # "down"
        BY <1>1 DEF TalkInv, DownInv, NoEntry, K_DEAD
      <4>3. QED
        BY <4>1, <4>2 DEF Removed, Cleared
    <3>3. data'[t] = emitted'[t] /\ writer'[t] = "dead"
      BY <3>1, <3>2, WholeFile
    <3>4. QED
      BY <1>1, <3>1, <3>3
  <2>3. QED
    BY <2>1, <2>2, Zenon
<1>2. ASSUME NEW t \in Tokens, Pending(t)'
      PROVE  PendingOff' >= 0 \/ Complete(t)'
  BY <1>2, CompleteStays DEF DeadInv
<1>3. ASSUME rpc' = "endstat"
      PROVE  roff' >= 0 \/ Complete(rtok)'
  <2>1. PICK r \in Tokens : r = rtok
    BY <1>3 DEF TypeOK, RestTypeOK
  <2>2. roff >= 0 \/ Complete(r)
    BY <1>3, <2>1, Zenon DEF DeadInv
  <2>3. roff' >= 0 \/ Complete(r)'
    BY <1>3, <2>2, CompleteStays
  <2>4. rtok' = r
    BY <1>3, <2>1
  <2>5. QED
    BY <2>3, <2>4 DEF Complete
<1>4. QED
  BY <1>1, <1>2, <1>3 DEF DeadInv

LEMMA DeadManager ==
    ASSUME Regular, TypeOK, FreshInv, LifeInv, KeptInv, NoSkipInv, NoSkip, GotInv, DeadInv,
           ManagerStep, UNCHANGED restVars, "fopen" \notin Faults
    PROVE  DeadInv'
<1>0. /\ SizeInv /\ TalkInv /\ OffsetInv /\ [Next]_vars
      /\ UNCHANGED <<rpc, rtok, roff>>
  BY DEF NoSkipInv, TalkInv, Next, restVars, workerVars
<1>1. CASE HandleNext
  <2>1. /\ conns # <<>> /\ Head(conns).op = "next" /\ mpc = "idle" /\ status' = status
    BY <1>1, Zenon DEF HandleNext, Accept, tableVars
  <2>2. rpc = "next" /\ reply = NoReply /\ Head(conns).tok = rtok
    BY <1>0, <2>1, QuestionTaken, Zenon DEF Questions, Waiting, TalkInv
  <2>3. PICK t \in Tokens : t = rtok
    BY <2>2 DEF TypeOK, RestTypeOK
  <2>4. \A x \in Tokens : ~Pending(x)
    BY <2>1, <2>2 DEF Pending, NoReply
  <2>5. \A x \in Tokens : status'[x] = K_DEAD => Complete(x) /\ Complete(x)'
    BY <1>0, <2>1, <2>4, CompleteStays, Zenon DEF DeadInv
  <2>6. ASSUME NEW x \in Tokens, Pending(x)'
        PROVE  PendingOff' >= 0 \/ Complete(x)'
    <3>1. x = t
      BY <1>0, <2>3, <2>6 DEF Pending
    <3>2. t \in Entries(Head(conns).user)
      <4>1. mpc' = "endstat" \/ reply'.kind = "offset"
        BY <1>0, <2>2, <2>6 DEF Pending
      <4>2. QED
        <5>1. t \in Entries(Head(conns).user) \/ (reply' = EmptyReply /\ mpc' = mpc)
          BY <1>1, <2>2, <2>3, Zenon DEF HandleNext
        <5>2. QED
          BY <2>1, <4>1, <5>1, AnswerFields
    <3>3. /\ PendingOff' = ShownOffset(t)
          /\ status[t] \in {K_RUNNING, K_DEAD}
      <4>1. \/ mpc' = mpc /\ reply' = OffsetReply(ShownOffset(t))
            \/ mpc' = "endstat" /\ mresp' = ShownOffset(t)
        BY <1>1, <2>2, <2>3, <3>2, Zenon DEF HandleNext
      <4>2. PendingOff' = ShownOffset(t)
        BY <2>1, <4>1 DEF PendingOff, OffsetReply
      <4>3. QED
        BY <3>2, <4>2 DEF Entries, TypeOK, MgrTypeOK
    <3>4. CASE status[t] = K_RUNNING
      BY <1>0, <3>3, <3>4, Zenon DEF ShownOffset, OffsetInv, K_RUNNING, K_DEAD
    <3>5. CASE status[t] = K_DEAD
      BY <2>1, <2>5, <3>1, <3>5
    <3>6. QED
      BY <3>3, <3>4, <3>5
  <2>7. QED
    BY <1>0, <2>2, <2>5, <2>6 DEF DeadInv
<1>2. CASE NextEndStat
  <2>1. /\ mpc = "endstat" /\ mpc' = "idle" /\ reply' = OffsetReply(mresp)
        /\ UNCHANGED <<writer, data, emitted>>
        /\ status' = IF endf[mtok] THEN [status EXCEPT ![mtok] = K_DEAD] ELSE status
    BY <1>2 DEF NextEndStat, Finish, procVars
  <2>2. rpc = "next" /\ mtok = rtok
    BY <1>0, <2>1 DEF TalkInv, ReplyInv
  <2>3. PendingOff' = PendingOff /\ \A x \in Tokens : Pending(x)' <=> Pending(x)
    BY <1>0, <2>1 DEF Pending, PendingOff, OffsetReply
  <2>4. CASE status' = status
    BY <1>0, <2>2, <2>3, <2>4, DeadFrame
  <2>5. CASE status' # status
    <3>1. PICK t \in Tokens : t = rtok
      BY <2>2 DEF TypeOK, RestTypeOK
    <3>2. endf[t] /\ status' = [status EXCEPT ![t] = K_DEAD]
      BY <2>1, <2>2, <2>5, <3>1
    <3>3. writer[t] = "dead" /\ data[t] = emitted[t]
      BY <3>2, Zenon DEF LifeInv, Orderly, KeptInv, Kept
    <3>4. Pending(t)
      BY <2>1, <3>1 DEF Pending
    <3>5. PendingOff >= 0 \/ Complete(t)'
      BY <1>0, <3>4, CompleteStays DEF DeadInv
    <3>6. ASSUME NEW x \in Tokens, x # t, status'[x] = K_DEAD
          PROVE  Complete(x)'
      <4>1. status[x] = K_DEAD /\ ~Pending(x)
        BY <3>1, <3>2, <3>6 DEF TypeOK, MgrTypeOK, Pending
      <4>2. QED
        BY <1>0, <4>1, CompleteStays DEF DeadInv
    <3>7. ASSUME NEW x \in Tokens, Pending(x)'
          PROVE  x = t
      BY <1>0, <3>1, <3>7 DEF Pending
    <3>8. QED
      BY <1>0, <2>1, <2>2, <2>3, <3>3, <3>4, <3>5, <3>6, <3>7, Zenon DEF DeadInv
  <2>6. QED
    BY <2>4, <2>5
<1>3. CASE HandleCommand
  <2>1. UNCHANGED <<mpc, mresp, reply>>
    BY <1>3 DEF HandleCommand
  <2>2. \A x \in Tokens : status'[x] = K_DEAD => status[x] = K_DEAD
    <3>1. status' = status \/ status' = [status EXCEPT ![Head(conns).tok] = K_RUNNING]
      BY <1>3, Zenon DEF HandleCommand, tableVars
    <3>2. status \in [Tokens -> {NoEntry, K_RUNNING, K_DEAD}]
      BY DEF TypeOK, MgrTypeOK
    <3>3. QED
      BY <3>1, <3>2 DEF K_RUNNING, K_DEAD
  <2>3. PendingOff' = PendingOff /\ \A x \in Tokens : Pending(x)' <=> Pending(x)
    BY <1>0, <2>1 DEF Pending, PendingOff
  <2>4. QED
    BY <1>0, <2>2, <2>3, DeadFrame, Zenon
<1>4. CASE HandleProcess \/ HandleDetails
  <2>1. /\ conns # <<>> /\ Head(conns).op \in {"process", "details"}
        /\ mpc = "idle" /\ UNCHANGED <<mpc, status>>
        /\ reply'.kind # "offset"
    <3>1. /\ conns # <<>> /\ Head(conns).op \in {"process", "details"}
          /\ mpc = "idle" /\ UNCHANGED <<mpc, status>>
      BY <1>4 DEF HandleProcess, HandleDetails, Accept, tableVars
    <3>2. \/ reply' = ListReply(Entries(Head(conns).user))
          \/ reply' = DetailsReply
          \/ reply' = EmptyReply
      BY <1>4 DEF HandleProcess, HandleDetails
    <3>3. QED
      BY <3>1, <3>2, AnswerFields
  <2>2. rpc = Waiting(Head(conns).op) /\ reply = NoReply
    BY <1>0, <2>1, QuestionTaken DEF Questions, TalkInv
  <2>3. \A x \in Tokens : ~Pending(x) /\ ~Pending(x)'
    BY <1>0, <2>1, <2>2 DEF Pending, Waiting, NoReply
  <2>4. QED
    BY <1>0, <2>1, <2>3, DeadFrame
<1>5. CASE HandleDelete \/ KillTerm \/ KillCheck
  <2>1. /\ mpc # "endstat" /\ mpc' # "endstat" /\ UNCHANGED reply
        /\ \A x \in Tokens : status'[x] = K_DEAD => status[x] = K_DEAD
    BY <1>5, Zenon DEF HandleDelete, Accept, KillTerm, KillCheck, Finish, tableVars,
                TypeOK, MgrTypeOK, K_DEAD, NoEntry
  <2>2. PendingOff' = PendingOff /\ \A x \in Tokens : Pending(x)' <=> Pending(x)
    BY <1>0, <2>1 DEF Pending, PendingOff
  <2>3. QED
    BY <1>0, <2>1, <2>2, DeadFrame
<1>6. QED
  BY <1>1, <1>2, <1>3, <1>4, <1>5 DEF ManagerStep

LEMMA DeadRead ==
    ASSUME Regular, OneAnswer, TypeOK, FreshInv, LifeInv, NoSkipInv, NoSkip, GotInv, DeadInv,
           ReadChunk
    PROVE  DeadInv'
<1>0. /\ SizeInv /\ TalkInv /\ [Next]_vars
  BY DEF NoSkipInv, TalkInv, Next, WorkerStep
<1>1. /\ rpc = "stat" /\ mpc # "endstat" /\ reply.kind # "offset"
      /\ UNCHANGED <<writer, data, emitted, status, mpc, reply>>
  BY <1>0 DEF ReadChunk, TalkInv, ReplyInv, procVars, mgrVars, tableVars, serverVars
<1>2. PICK t \in Tokens : t = rtok
  BY <1>1 DEF TypeOK, RestTypeOK
<1>3. Pending(t) /\ PendingOff = roff /\ \A x \in Tokens : Pending(x) => x = t
  BY <1>1, <1>2 DEF Pending, PendingOff
<1>4. \A x \in Tokens : ~Pending(x)'
  <2>1. rpc' # "stat"
    BY DEF ReadChunk, GoTo, Answered
  <2>2. QED
    BY <1>1, <2>1 DEF Pending
<1>5. \A x \in Tokens : Complete(x) => Complete(x)'
  BY <1>0, CompleteStays
<1>6. rpc' = "endstat" => roff' >= 0 \/ Complete(rtok)'
  <2> SUFFICES ASSUME rpc' = "endstat"
               PROVE  roff' >= 0 \/ Complete(rtok)'
    OBVIOUS
  <2>1. rtok' = t /\ roff' = roff
    BY <1>2 DEF ReadChunk, GoTo, Answered
  <2>2. roff >= 0 \/ Complete(t)'
    BY <1>3, <1>5, Zenon DEF DeadInv
  <2>3. QED
    BY <2>1, <2>2 DEF Complete
<1>7. ASSUME status[t] = K_DEAD, ~Complete(t)
      PROVE  Complete(t)'
  <2>1. roff >= 0 /\ writer[t] = "dead" /\ data[t] = emitted[t]
    BY <1>3, <1>7, Zenon DEF DeadInv
  <2>2. /\ got \in [Tokens -> Nat] /\ emitted[t] \in Nat /\ roff \in Int
        /\ emitted[t] <= ReadSize /\ ReadSize \in Nat
        /\ roff <= got[t] /\ got[t] <= emitted[t] /\ got[t] # emitted[t]
    <3>1. /\ got \in [Tokens -> Nat] /\ emitted[t] \in Nat /\ roff \in Int
          /\ MaxOutput \in Nat /\ ReadSize \in Nat
      BY OpModeAssumption, SizesAssumption DEF TypeOK, ProcTypeOK, RestTypeOK
    <3>2. emitted[t] <= MaxOutput /\ MaxOutput <= ReadSize
      BY <1>0 DEF SizeInv, OneAnswer
    <3>3. roff <= got[t] /\ got[t] <= emitted[t]
      BY <1>1, <1>2 DEF NoSkip, GotInv
    <3>4. got[t] # emitted[t]
      BY <1>7, <2>1 DEF Complete
    <3>5. QED
      BY <3>1, <3>2, <3>3, <3>4
  <2>3. ReadEnd(t, roff) = emitted[t]
    BY <2>1, <2>2, SMTT(30) DEF ReadEnd, Least
  <2>4. data[t] # NoFile
    BY <2>1, <2>2 DEF NoFile
  <2>5. got' = [got EXCEPT ![t] = IF @ < emitted[t] THEN emitted[t] ELSE @]
    BY <1>2, <2>1, <2>3, <2>4 DEF ReadChunk, TextIsEnd, Regular
  <2>6. got'[t] = emitted[t]
    BY <2>2, <2>5
  <2>7. QED
    BY <1>1, <2>1, <2>6 DEF Complete
<1>8. ASSUME NEW x \in Tokens, status'[x] = K_DEAD
      PROVE  Complete(x)'
  BY <1>1, <1>3, <1>5, <1>7, <1>8 DEF DeadInv
<1>9. QED
  BY <1>4, <1>6, <1>8, Zenon DEF DeadInv

LEMMA DeadStep ==
    ASSUME Regular, OneAnswer, TypeOK, FreshInv, LifeInv, KeptInv, NoSkipInv, NoSkip, GotInv,
           DeadInv, [Next]_vars
    PROVE  DeadInv'
<1>0. SizeInv /\ TalkInv /\ ReplyInv /\ ReplyInv'
  BY TalkStep DEF NoSkipInv, TalkInv
<1>1. CASE ManagerStep /\ UNCHANGED restVars
  BY <1>1, DeadManager DEF OneAnswer
<1>2. CASE ReadChunk
  BY <1>2, DeadRead
<1>3. ASSUME rpc \notin {"next", "stat"}, rpc' \notin {"next", "stat", "endstat"},
             status' = status
      PROVE  DeadInv'
  <2>1. \A t \in Tokens : ~Pending(t) /\ ~Pending(t)'
    BY <1>0, <1>3, NotPending DEF ReplyInv, Pending
  <2>2. QED
    BY <1>0, <1>3, <2>1, DeadFrame
<1>4. CASE ListAnswer \/ DetailsAnswer \/ EndStat \/ EndAnswer
  <2>1. /\ rpc \notin {"next", "stat"} /\ rpc' \notin {"next", "stat", "endstat"}
        /\ status' = status
    BY <1>4, Zenon DEF ListAnswer, DetailsAnswer, EndStat, EndAnswer, GoTo, Answered, AnswerGone,
                tableVars, mgrVars
  <2>2. QED
    BY <1>3, <2>1
<1>5. CASE AskNext
  <2>1. /\ rpc = "found" /\ rpc' \in {"idle", "next"}
        /\ UNCHANGED <<status, mpc, reply>>
    BY <1>5 DEF AskNext, GoTo, Answered, tableVars
  <2>2. \A t \in Tokens : ~Pending(t) /\ ~Pending(t)'
    BY <1>0, <2>1 DEF ReplyInv, Pending
  <2>3. QED
    BY <1>0, <2>1, <2>2, DeadFrame
<1>6. CASE NextAnswer
  <2>1. rpc = "next" /\ reply # NoReply /\ reply' = NoReply /\ UNCHANGED <<status, mpc>>
    BY <1>6 DEF NextAnswer, tableVars
  <2>2. mpc # "endstat"
    BY <1>0, <2>1 DEF ReplyInv
  <2>3. CASE reply.kind # "offset" /\ Answered
    <3>1. \A t \in Tokens : ~Pending(t) /\ ~Pending(t)'
      BY <2>1, <2>2, <2>3 DEF Pending, Answered, NoReply
    <3>2. QED
      BY <1>0, <2>1, <2>3, <3>1, DeadFrame DEF Answered
  <2>4. CASE reply.kind = "offset" /\ rpc' = "stat" /\ roff' = reply.off /\ rtok' = rtok
    <3>1. PendingOff' = PendingOff /\ \A t \in Tokens : Pending(t)' <=> Pending(t)
      BY <2>1, <2>2, <2>4 DEF Pending, PendingOff, NoReply
    <3>2. QED
      BY <1>0, <2>1, <2>4, <3>1, DeadFrame
  <2>5. QED
    BY <1>6, <2>3, <2>4 DEF NextAnswer, Regular
<1>7. CASE Request
  <2>1. /\ rpc = "idle" /\ rpc' \in {"idle", "list", "details"} /\ status' = status
    BY <1>7 DEF Request, GetList, Post, GetChunk, Delete, Begin, restVars, workerVars,
                tableVars
  <2>2. QED
    BY <1>3, <2>1
<1>8. CASE StopDaemon
  <2>1. /\ mpc' = "down" /\ UNCHANGED <<rpc, rtok, roff>>
        /\ \A t \in Tokens : status'[t] = NoEntry
        /\ reply' = IF rpc \in {"list", "details", "next"} /\ reply = NoReply
                    THEN EmptyReply ELSE reply
    BY <1>8 DEF StopDaemon, Stop, restVars, workerVars
  <2>2. \A t \in Tokens : Pending(t)' => Pending(t) /\ PendingOff' = PendingOff
    BY <1>0, <2>1 DEF Pending, PendingOff, ReplyInv, EmptyReply
  <2>3. \A t \in Tokens : status'[t] # K_DEAD
    BY <2>1 DEF NoEntry, K_DEAD
  <2>4. QED
    BY <1>0, <2>1, <2>2, <2>3, DeadFrame
<1>9. CASE StopWorker
  <2>1. /\ mpc = "down" /\ rpc' = "idle" /\ UNCHANGED <<status, mpc>>
    BY <1>9 DEF StopWorker, Answered, tableVars
  <2>2. \A t \in Tokens : ~Pending(t)'
    BY <1>0, <2>1 DEF Pending, ReplyInv
  <2>3. \A t \in Tokens : status'[t] # K_DEAD
    BY <1>0, <2>1 DEF TalkInv, DownInv, NoEntry, K_DEAD
  <2>4. QED
    BY <1>0, <2>1, <2>2, <2>3, DeadFrame
<1>10. CASE StartDaemon
  <2>1. rpc = "idle" /\ rpc' = "idle" /\ status' = status
    BY <1>10 DEF StartDaemon, init, tableVars, restVars, workerVars
  <2>2. QED
    BY <1>3, <2>1
<1>11. CASE UNCHANGED <<mgrVars, restVars>>
  <2>1. UNCHANGED <<status, mpc, mresp, reply, rpc, rtok, roff>>
    BY <1>11 DEF mgrVars, tableVars, serverVars, restVars, workerVars
  <2>2. PendingOff' = PendingOff /\ \A t \in Tokens : Pending(t)' <=> Pending(t)
    BY <2>1 DEF Pending, PendingOff
  <2>3. QED
    BY <1>0, <2>1, <2>2, DeadFrame
<1>12. QED
  BY <1>1, <1>2, <1>4, <1>5, <1>6, <1>7, <1>8, <1>9, <1>10, <1>11 DEF Next, WorkerStep, vars

\* Offset -1 "denotes a terminated process that has been completely read": the
\* client has all output when the worker is given that offset.  The manager
\* says so after an answer that read to the end of the data file, so it needs
\* answers that carry the whole output of a command.
THEOREM DeadMeansRead ==
    ASSUME Regular, OneAnswer
    PROVE  Spec => []DeadIsComplete
<1>1. Init => DeadInv
  <2> SUFFICES ASSUME Init PROVE DeadInv
    OBVIOUS
  <2>1. /\ rpc = "idle" /\ mpc = "idle" /\ reply = NoReply
        /\ \A t \in Tokens : status[t] = NoEntry
    BY DEF Init, ProcInit, MgrInit
  <2>2. \A t \in Tokens : ~Pending(t)
    BY <2>1, Zenon DEF Pending, NoReply
  <2>3. QED
    BY <2>1, <2>2, Zenon DEF DeadInv, NoEntry, K_DEAD
<1>2. ASSUME TypeOK, DeadInv, ReplyInv
      PROVE  DeadIsComplete
  <2> SUFFICES ASSUME rpc \in {"stat", "endstat"}, roff = DeadOffset
               PROVE  got[rtok] = emitted[rtok]
    BY DEF DeadIsComplete
  <2>1. rtok \in Tokens /\ ~(roff >= 0)
    BY <1>2 DEF TypeOK, RestTypeOK, DeadOffset
  <2>2. CASE rpc = "endstat"
    BY <1>2, <2>1, <2>2 DEF DeadInv, Complete
  <2>3. CASE rpc = "stat"
    <3>1. Pending(rtok) /\ PendingOff = roff
      BY <1>2, <2>3 DEF Pending, PendingOff, ReplyInv
    <3>2. QED
      BY <1>2, <2>1, <3>1 DEF DeadInv, Complete
  <2>4. QED
    BY <2>2, <2>3
<1>3. NoSkipInv => ReplyInv
  BY DEF NoSkipInv
<1>4. "fopen" \notin Faults
  BY DEF OneAnswer
<1>5. QED
  BY <1>1, <1>2, <1>3, <1>4, DeadStep, Received, Keeping, Living, QueueInOrder,
     NothingSkipped, TypeCorrect, PTL DEF Spec
=============================================================================
