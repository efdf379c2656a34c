------------------------------ MODULE SessionLock ------------------------------
(***************************************************************************)
(* The session file of the web GUI and its lock.  Two programs rewrite the *)
(* file: the REST worker for every request that carries a session key      *)
(* (classes Lock and AuthSession, authsession.cc), and a login script that *)
(* hands out keys (SessionKey.pm, get_key).  Each copies the file to a     *)
(* temporary file and renames that over it, under a lock file that is      *)
(* created with O_EXCL.                                                    *)
(*                                                                         *)
(* Both programs buffer: the session file is read at once, right after it  *)
(* is opened, and the copy is written at once, when it is closed.          *)
(***************************************************************************)
EXTENDS Integers, Sequences, FiniteSetsExt

CONSTANTS
    Keys,      \* session keys
    People,    \* pairs of user name and source address
    Logins,    \* processes that run get_key
    Worker,    \* the process that runs AuthSession::authorized
    MaxRecords,\* bound: logins start while the files hold no more records
    Faults     \* what may go wrong

None == "none"

FaultKinds == {"slow", "user", "fputs", "genkey", "stop"}

ASSUME SessionLockAssumption ==
    /\ Worker \notin Logins
    /\ MaxRecords \in Nat
    /\ Faults \subseteq FaultKinds
    /\ None \notin Keys \cup People

Procs == Logins \cup {Worker}

\* Ages are counted in halves of _session_timeout.
Expired == 2
Never == -1

VARIABLES
    names,     \* which of "session", "session_tmp", "session.lck" exist
    sess,      \* the records of the session file
    tmp,       \* the records of the temporary file
    pc,        \* where a process is
    out,       \* the file its copy goes to: open as "tmp", by now "sess" or "lost"
    buf,       \* what it has yet to write
    key,       \* the key it checks or hands out
    who,       \* for whom a login runs
    update,    \* the request is to set the time of its session
    found,     \* the result of authorized
    idle,      \* idle[k]: time since k was handed out or used; Never: not
               \*   within _session_timeout
    orderly    \* nothing went wrong since the files were removed

fileVars == <<names, sess, tmp>>
procVars == <<pc, out, buf, key, who, update, found>>
vars == <<fileVars, procVars, idle, orderly>>

Record == [key : Keys, who : People, age : 0 .. Expired]

TypeOK ==
    /\ names \subseteq {"session", "session_tmp", "session.lck"}
    /\ sess \in Seq(Record) /\ tmp \in Seq(Record)
    /\ "session" \notin names => sess = <<>>
    /\ "session_tmp" \notin names => tmp = <<>>
    /\ pc \in [Procs -> {"down", "idle", "lock", "copy", "nolock", "close",
                         "rename", "remove", "unlock"}]
    /\ out \in [Procs -> {None, "tmp", "sess", "lost"}]
    /\ buf \in [Procs -> Seq(Record)]
    /\ key \in [Procs -> Keys \cup {None}]
    /\ who \in [Procs -> People \cup {None}]
    /\ \A p \in Procs :
          /\ out[p] # None <=> pc[p] = "close"
          /\ key[p] = None <=> pc[p] \in {"idle", "down"}
          /\ p \in Logins => pc[p] \notin {"down", "nolock"}
          /\ p = Worker => pc[p] # "remove"
    /\ {update, found, orderly} \subseteq BOOLEAN
    /\ idle \in [Keys -> Never .. Expired - 1]

\* A worker has started, and removed the files.
Init ==
    /\ names = {} /\ sess = <<>> /\ tmp = <<>>
    /\ pc = [p \in Procs |-> "idle"]
    /\ out = [p \in Procs |-> None]
    /\ buf = [p \in Procs |-> <<>>]
    /\ key = [p \in Procs |-> None]
    /\ who = [p \in Procs |-> None]
    /\ update = FALSE /\ found = FALSE
    /\ idle = [k \in Keys |-> Never]
    /\ orderly = TRUE

-----------------------------------------------------------------------------
locked == "session.lck" \in names

GoTo(p, l) == pc' = [pc EXCEPT ![p] = l]

\* Mutant: the file stays open.
Leave_open(p, l) ==
    /\ GoTo(p, l)
    /\ buf' = [buf EXCEPT ![p] = <<>>]
    /\ key' = [key EXCEPT ![p] = None]
    /\ who' = [who EXCEPT ![p] = None]
    /\ UNCHANGED <<out, update, found>>

\* The process is done with the request or the login.
Leave(p, l) ==
    /\ GoTo(p, l)
    /\ out' = [out EXCEPT ![p] = None]
    /\ buf' = [buf EXCEPT ![p] = <<>>]
    /\ key' = [key EXCEPT ![p] = None]
    /\ who' = [who EXCEPT ![p] = None]
    /\ IF p = Worker THEN update' = FALSE /\ found' = FALSE
                     ELSE UNCHANGED <<update, found>>

\* Keys that gen_key does not make: those of sessions that last, or that some
\* process or file still has.
KnownKeys ==
    {k \in Keys : idle[k] # Never}
        \cup {r.key : r \in Range(sess) \cup Range(tmp) \cup UNION {Range(buf[p]) : p \in Procs}}
        \cup {key[p] : p \in Procs}

\* A request with a session key reaches AuthSession::authorized.
Request(k, u) ==
    /\ pc[Worker] = "idle"
    /\ GoTo(Worker, "lock")
    /\ key' = [key EXCEPT ![Worker] = k]
    /\ update' = u
    /\ UNCHANGED <<fileVars, out, buf, who, found, idle, orderly>>

\* get_key is called for w; k is the key it will hand out if it makes one.
Login(p, w, k) ==
    /\ pc[p] = "idle"
    /\ Len(sess) + Len(tmp) <= MaxRecords
    /\ k \notin KnownKeys \/ \E r \in Range(sess) : r.key = k /\ r.who = w
    /\ GoTo(p, "lock")
    /\ key' = [key EXCEPT ![p] = k]
    /\ who' = [who EXCEPT ![p] = w]
    /\ UNCHANGED <<fileVars, out, buf, update, found, idle, orderly>>

\* Between its success with the lock file and the removal of it.
Holding(p) == pc[p] \in {"copy", "close", "rename", "remove", "unlock"}

\* Mutant: no O_EXCL.
AcquireLock_shared(p) ==
    /\ pc[p] = "lock"
    /\ names' = names \cup {"session.lck"}
    /\ GoTo(p, "copy")
    /\ UNCHANGED <<sess, tmp, out, buf, key, who, update, found, idle, orderly>>

\* open with O_CREAT and O_EXCL succeeds in one of the attempts.
AcquireLock(p) ==
    /\ pc[p] = "lock"
    /\ ~locked
    /\ names' = names \cup {"session.lck"}
    /\ GoTo(p, "copy")
    /\ UNCHANGED <<sess, tmp, out, buf, key, who, update, found, idle, orderly>>

\* Mutant: wait for the holder, however long.
GiveUp_never(p) == FALSE /\ p \in Procs /\ UNCHANGED vars

(***************************************************************************)
(* All attempts failed; the last one found the lock file of a process that *)
(* is slow or of one that is gone.  get_key removes the file and exits.    *)
(* The worker opens the files all the same, without a status.              *)
(***************************************************************************)
GiveUp(p) ==
    /\ pc[p] = "lock"
    /\ locked
    /\ "slow" \in Faults \/ ~ \E q \in Procs : Holding(q)
    /\ IF p = Worker
       THEN GoTo(p, "nolock") /\ UNCHANGED <<names, out, buf, key, who, update, found>>
       ELSE names' = names \ {"session.lck"} /\ Leave(p, "idle")
    /\ orderly' = FALSE
    /\ UNCHANGED <<sess, tmp, idle>>

\* The copy is complete; what is left is to write it.
ToWrite(p, recs) ==
    /\ buf' = [buf EXCEPT ![p] = recs]
    /\ out' = [out EXCEPT ![p] = "tmp"]
    /\ GoTo(p, "close")

\* Mutant: the old time is written back.
Fresh_old(r) == r

\* The record with the time of now.
Fresh(r) == [r EXCEPT !.age = 0]

\* Mutant: the time is not looked at.
Valid_always(r) == r.age <= Expired

\* session_time + _session_timeout is in the future.
Valid(r) == r.age < Expired

\* The records that are copied: copied[i] is what the loop has kept of the first
\* i records.
Lasting ==
    LET copied[i \in 0 .. Len(sess)] ==
            IF i = 0 THEN <<>>
            ELSE IF Valid(sess[i]) THEN Append(copied[i - 1], sess[i])
            ELSE copied[i - 1]
    IN  copied[Len(sess)]

\* fopen of the temporary file with mode "w".
OpenTmp == names' = names \cup {"session_tmp"} /\ tmp' = <<>>

(***************************************************************************)
(* authorized copies the records that have not timed out, and sets the     *)
(* time of the one it looks for, unless the request asks it not to.  The   *)
(* copy ends early when the user of that record is not known any more, or  *)
(* when a record cannot be written.                                        *)
(***************************************************************************)
Copy ==
    /\ pc[Worker] = "copy"
    /\ "session" \in names
    /\ OpenTmp
    /\ LET recs == Lasting
           mine == {i \in DOMAIN recs : recs[i].key = key[Worker]}
           updated == [i \in DOMAIN recs |->
                          IF update /\ i \in mine THEN Fresh(recs[i]) ELSE recs[i]]
       IN \/ /\ ToWrite(Worker, updated)
             /\ found' = (mine # {})
             /\ orderly' = orderly
          \/ /\ "user" \in Faults
             /\ mine # {}
             /\ ToWrite(Worker, SubSeq(recs, 1, Min(mine) - 1))
             /\ found' = FALSE
             /\ orderly' = FALSE
          \/ /\ "fputs" \in Faults
             /\ \E i \in DOMAIN recs :
                   IF i \in mine
                   THEN /\ ToWrite(Worker, SubSeq(recs, 1, i - 1) \o SubSeq(recs, i + 1, Len(recs)))
                        /\ found' = FALSE
                   ELSE /\ ToWrite(Worker, SubSeq(updated, 1, i - 1))
                        /\ found' = (\E j \in mine : j < i)
             /\ orderly' = FALSE
    /\ UNCHANGED <<sess, key, who, update, idle>>

\* Lock::status() is false, because there is no session file or the lock was
\* not obtained: the temporary file is opened and nothing is copied.
NoStatus ==
    /\ \/ pc[Worker] = "copy" /\ "session" \notin names
       \/ pc[Worker] = "nolock"
    /\ OpenTmp
    /\ ToWrite(Worker, <<>>)
    /\ UNCHANGED <<sess, key, who, update, found, idle, orderly>>

\* Mutant: the address is not compared, and no record matches.
SessionOf_none(w) == {} \cap {w}

\* The records of a user at an address.
SessionOf(w) == {i \in DOMAIN sess : sess[i].who = w}

\* A write at the start of a file leaves what is beyond it.
Overwrite(old, new) == new \o SubSeq(old, Len(new) + 1, Len(old))

(***************************************************************************)
(* get_key creates the files that are missing and empties neither.  It     *)
(* copies all records, sets the time of the one for the same user and      *)
(* address and hands out its key, or adds a record with a new key.         *)
(* gen_key may exit on what it reads from /dev/urandom: the copy is        *)
(* written then, and nothing is renamed or removed.                        *)
(***************************************************************************)
CopyKey(p) ==
    /\ pc[p] = "copy"
    /\ p \in Logins
    /\ names' = names \cup {"session", "session_tmp"}
    /\ LET mine == SessionOf(who[p])
           updated == [i \in DOMAIN sess |->
                          IF i \in mine THEN Fresh(sess[i]) ELSE sess[i]]
       IN \/ /\ mine # {}
             /\ ToWrite(p, updated)
             /\ key' = [key EXCEPT ![p] = sess[Max(mine)].key]
             /\ UNCHANGED <<tmp, who, update, found, orderly>>
          \/ /\ mine = {}
             /\ ToWrite(p, Append(sess, [key |-> key[p], who |-> who[p], age |-> 0]))
             /\ UNCHANGED <<tmp, key, who, update, found, orderly>>
          \/ /\ mine = {}
             /\ "genkey" \in Faults
             /\ tmp' = Overwrite(tmp, sess)
             /\ Leave(p, "idle")
             /\ orderly' = FALSE
    /\ UNCHANGED <<sess, idle>>

\* The copy is closed, and written to the file that was opened, whatever its
\* name is now.
CloseTmp(p) ==
    /\ pc[p] = "close"
    /\ tmp' = IF out[p] = "tmp" THEN Overwrite(tmp, buf[p]) ELSE tmp
    /\ sess' = IF out[p] = "sess" THEN Overwrite(sess, buf[p]) ELSE sess
    /\ out' = [out EXCEPT ![p] = None]
    /\ buf' = [buf EXCEPT ![p] = <<>>]
    /\ GoTo(p, "rename")
    /\ UNCHANGED <<names, key, who, update, found, idle, orderly>>

\* The temporary file, if there is one, becomes the session file, and is the
\* file that others write to who opened it.
Rename(p) ==
    /\ pc[p] = "rename"
    /\ IF "session_tmp" \in names
       THEN /\ sess' = tmp
            /\ tmp' = <<>>
            /\ names' = (names \ {"session_tmp"}) \cup {"session"}
            /\ out' = [q \in Procs |-> CASE out[q] = "tmp" -> "sess"
                                         [] out[q] = "sess" -> "lost"
                                         [] OTHER -> out[q]]
       ELSE UNCHANGED <<fileVars, out>>
    /\ GoTo(p, IF p = Worker THEN "unlock" ELSE "remove")
    /\ UNCHANGED <<buf, key, who, update, found, idle, orderly>>

\* get_key removes the temporary file, which is by now that of another process
\* if there is one.
RemoveTmp(p) ==
    /\ pc[p] = "remove"
    /\ names' = names \ {"session_tmp"}
    /\ tmp' = <<>>
    /\ out' = [q \in Procs |-> IF out[q] = "tmp" THEN "lost" ELSE out[q]]
    /\ GoTo(p, "unlock")
    /\ UNCHANGED <<sess, buf, key, who, update, found, idle, orderly>>

(***************************************************************************)
(* The lock file is removed, whoever made it.  The worker has its answer,  *)
(* and the client of get_key is told its key.                              *)
(***************************************************************************)
Unlock(p) ==
    /\ pc[p] = "unlock"
    /\ names' = names \ {"session.lck"}
    /\ idle' = IF p \in Logins \/ (found /\ update)
               THEN [idle EXCEPT ![key[p]] = 0]
               ELSE idle
    /\ Leave(p, "idle")
    /\ UNCHANGED <<sess, tmp, orderly>>

-----------------------------------------------------------------------------
\* The service script kills the worker.
StopWorker ==
    /\ "stop" \in Faults
    /\ pc[Worker] # "down"
    /\ Leave(Worker, "down")
    /\ UNCHANGED <<fileVars, idle, orderly>>

\* A new worker: the constructor of AuthSession removes the three files.
StartWorker ==
    /\ pc[Worker] = "down"
    /\ GoTo(Worker, "idle")
    /\ names' = {}
    /\ sess' = <<>>
    /\ tmp' = <<>>
    /\ out' = [p \in Procs |-> IF out[p] = None THEN None ELSE "lost"]
    /\ idle' = [k \in Keys |-> Never]
    /\ orderly' = (\A p \in Logins : pc[p] = "idle")
    /\ UNCHANGED <<buf, key, who, update, found>>

Older(recs) ==
    [i \in DOMAIN recs |-> [recs[i] EXCEPT !.age = IF @ = Expired THEN @ ELSE @ + 1]]

\* Half of the timeout goes by; no request and no login takes that long.
Later ==
    /\ \A p \in Procs : pc[p] \in {"idle", "down"}
    /\ idle' = [k \in Keys |-> IF idle[k] \in {Never, Expired - 1} THEN Never ELSE idle[k] + 1]
    /\ sess' = Older(sess)
    /\ tmp' = Older(tmp)
    /\ UNCHANGED <<names, procVars, orderly>>

ProcStep(p) ==
    \/ AcquireLock(p)
    \/ GiveUp(p)
    \/ p = Worker /\ (Copy \/ NoStatus)
    \/ CopyKey(p)
    \/ CloseTmp(p)
    \/ Rename(p)
    \/ RemoveTmp(p)
    \/ Unlock(p)

Next ==
    \/ \E p \in Procs : ProcStep(p)
    \/ \E k \in Keys, u \in BOOLEAN : Request(k, u)
    \/ \E p \in Logins, w \in People, k \in Keys : Login(p, w, k)
    \/ StopWorker
    \/ StartWorker
    \/ Later

Spec == Init /\ [][Next]_vars

\* Every process that runs is scheduled, and a stopped worker is started.
FairSpec ==
    /\ Spec
    /\ \A p \in Procs : WF_vars(ProcStep(p))
    /\ WF_vars(StartWorker)

-----------------------------------------------------------------------------
\* The lock works while no attempt to get it has run out of retries
\* (authsession.cc:59-71, SessionKey.pm:64-70): one process at a time is
\* between the creation of the lock file and its removal.
OneHolder ==
    orderly => \A p, q \in Procs : Holding(p) /\ Holding(q) => p = q

\* The file says what the clients may rely on: a session that was handed out or
\* used less than _session_timeout ago is in the session file, with a time that
\* is no older, whatever the two programs do to the file.
SessionKept ==
    \A k \in Keys :
        idle[k] # Never => \E r \in Range(sess) : r.key = k /\ r.age <= idle[k]

\* It does while locks are obtained, users are known and writes succeed; also
\* after a restart of the worker that no login overlaps.
OrderlyKept == orderly => SessionKept

\* authorized accepts exactly the sessions that have not timed out.
AnswerRight ==
    orderly /\ pc[Worker] = "unlock" => found = (idle[key[Worker]] # Never)

\* A user at an address has one session (SessionKey.pm:90-95): no second record
\* is added beside the first, by logins at the same time or otherwise.
OneSessionEach ==
    orderly => \A i, j \in DOMAIN sess : sess[i].who = sess[j].who => i = j

\* Every request and every login comes to an end, also when the lock file was
\* left behind by a process that is gone.
Ends == \A p \in Procs : pc[p] = "lock" ~> pc[p] \in {"idle", "down"}
=============================================================================
