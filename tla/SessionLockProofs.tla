---------------------------- MODULE SessionLockProofs --------------------------
(***************************************************************************)
(* Proofs about the lock of the session file and about the file, for any   *)
(* keys, users and logins, any number of records, and whatever goes wrong. *)
(***************************************************************************)
EXTENDS SessionLock, WellFoundedInduction, TLAPS

(***************************************************************************)
(* Mutual exclusion.  That the lock file is there while a process holds    *)
(* the lock is what keeps the others out.  The worker that goes on without *)
(* the lock, and would remove that of the holder, is met after a failure   *)
(* only; so is a lock file that was removed by a login which gave up.      *)
(***************************************************************************)
Places == {"down", "idle", "lock", "copy", "nolock", "close", "rename", "remove", "unlock"}

LockInv ==
    /\ pc \in [Procs -> Places]
    /\ orderly =>
          /\ pc[Worker] # "nolock"
          /\ \A p \in Procs : Holding(p) => locked
          /\ \A p, q \in Procs : Holding(p) /\ Holding(q) => p = q

LEMMA LockInit == Init => LockInv
BY DEF Init, LockInv, Holding, Places, Procs

\* A process that goes on within the lock, or outside of it, changes nothing.
LEMMA SameSide ==
    ASSUME LockInv, NEW p \in Procs, NEW l \in Places,
           pc' = [pc EXCEPT ![p] = l], orderly' => orderly,
           locked' = locked,
           l \in {"copy", "close", "rename", "remove", "unlock"} => Holding(p),
           p = Worker => l # "nolock"
    PROVE  LockInv'
<1>1. \A q \in Procs : Holding(q)' => Holding(q)
  BY DEF LockInv, Holding
<1>2. pc' \in [Procs -> Places] /\ (pc'[Worker] = "nolock" => pc[Worker] = "nolock")
  BY DEF LockInv, Procs
<1> QED BY <1>1, <1>2 DEF LockInv

\* After a failure the lock is not claimed to work.
LEMMA NotOrderly ==
    ASSUME LockInv, NEW p \in Procs, NEW l \in Places,
           pc' = [pc EXCEPT ![p] = l], ~orderly'
    PROVE  LockInv'
BY DEF LockInv

LEMMA LockStep == LockInv /\ [Next]_vars => LockInv'
<1>. SUFFICES ASSUME LockInv, [Next]_vars PROVE LockInv'
  OBVIOUS
<1>w. Worker \in Procs /\ Logins \subseteq Procs /\ \A p \in Logins : p # Worker
  BY SessionLockAssumption DEF Procs
<1>1. CASE \E p \in Procs : ProcStep(p)
  <2>. PICK p \in Procs : ProcStep(p)
    BY <1>1
  <2>1. CASE AcquireLock(p)
    <3>1. /\ ~locked /\ locked' /\ UNCHANGED orderly
          /\ pc' = [pc EXCEPT ![p] = "copy"]
      BY <2>1 DEF AcquireLock, GoTo, locked
    <3>2. pc' \in [Procs -> Places]
      BY <3>1 DEF LockInv, Places
    <3>3. SUFFICES ASSUME orderly
          PROVE  /\ pc'[Worker] # "nolock"
                 /\ \A q \in Procs : Holding(q)' => q = p
      BY <3>1, <3>2, <3>3 DEF LockInv
    <3>4. \A q \in Procs : ~Holding(q)
      BY <3>1, <3>3 DEF LockInv
    <3> QED BY <3>1, <3>3, <3>4, <1>w DEF LockInv, Holding
  <2>2. CASE GiveUp(p)
    <3>1. /\ ~orderly'
          /\ \E l \in {"nolock", "idle"} : pc' = [pc EXCEPT ![p] = l]
      BY <2>2 DEF GiveUp, Leave, GoTo
    <3> QED BY <3>1, NotOrderly, Zenon DEF Places
  <2>3. CASE p = Worker /\ Copy
    <3>1. pc[p] = "copy" /\ names' = names \cup {"session_tmp"}
      BY <2>3 DEF Copy, OpenTmp
    <3>2. orderly' => orderly
      BY <2>3, Zenon DEF Copy
    <3>3. pc' = [pc EXCEPT ![p] = "close"]
      BY <2>3, Zenon DEF Copy, ToWrite, GoTo
    <3>4. locked' = locked /\ Holding(p)
      BY <3>1 DEF locked, Holding
    <3> QED BY <3>2, <3>3, <3>4, SameSide, Zenon DEF Places
  <2>4. CASE p = Worker /\ NoStatus
    <3>1. /\ pc[p] \in {"copy", "nolock"} /\ pc' = [pc EXCEPT ![p] = "close"]
          /\ names' = names \cup {"session_tmp"}
          /\ UNCHANGED orderly
      BY <2>4 DEF NoStatus, OpenTmp, ToWrite, GoTo
    <3>2. CASE pc[p] = "copy"
      <4>1. locked' = locked /\ Holding(p)
        BY <3>1, <3>2 DEF locked, Holding
      <4> QED BY <3>1, <4>1, SameSide, Zenon DEF Places
    <3>3. CASE pc[p] = "nolock"
      BY <2>4, <3>1, <3>3, NotOrderly, Zenon DEF LockInv, Places
    <3> QED BY <3>1, <3>2, <3>3
  <2>5. CASE CopyKey(p)
    <3>1. /\ pc[p] = "copy"
          /\ names' = names \cup {"session", "session_tmp"}
      BY <2>5 DEF CopyKey
    <3>2. \/ UNCHANGED orderly /\ pc' = [pc EXCEPT ![p] = "close"]
          \/ ~orderly' /\ pc' = [pc EXCEPT ![p] = "idle"]
      BY <2>5 DEF CopyKey, ToWrite, Leave, GoTo
    <3>3. locked' = locked /\ Holding(p)
      BY <3>1 DEF locked, Holding
    <3> QED BY <3>2, <3>3, SameSide, NotOrderly DEF Places
  <2>6. CASE CloseTmp(p)
    BY <2>6, SameSide, Zenon DEF CloseTmp, GoTo, Holding, locked, Places
  <2>7. CASE Rename(p)
    <3>1. /\ pc[p] = "rename" /\ UNCHANGED orderly
          /\ \E l \in {"unlock", "remove"} : pc' = [pc EXCEPT ![p] = l]
      BY <2>7, Zenon DEF Rename, GoTo
    <3>2. locked' = locked
      BY <2>7 DEF Rename, locked, fileVars
    <3> QED BY <3>1, <3>2, SameSide, Zenon DEF Holding, Places
  <2>8. CASE RemoveTmp(p)
    <3>1. /\ pc[p] = "remove" /\ UNCHANGED orderly
          /\ pc' = [pc EXCEPT ![p] = "unlock"]
          /\ names' = names \ {"session_tmp"}
      BY <2>8 DEF RemoveTmp, GoTo
    <3>2. locked' = locked /\ Holding(p)
      BY <3>1 DEF locked, Holding
    <3> QED BY <3>1, <3>2, SameSide, Zenon DEF Places
  <2>9. CASE Unlock(p)
    <3>1. /\ pc[p] = "unlock" /\ UNCHANGED orderly
          /\ pc' = [pc EXCEPT ![p] = "idle"]
      BY <2>9 DEF Unlock, Leave, GoTo
    <3>2. Holding(p) /\ ~Holding(p)'
      BY <3>1 DEF Holding, LockInv
    <3>3. \A q \in Procs : q # p => Holding(q)' = Holding(q)
      BY <3>1 DEF Holding, LockInv
    <3>4. orderly => \A q \in Procs : ~Holding(q)'
      BY <3>2, <3>3 DEF LockInv
    <3> QED BY <3>1, <3>4, <1>w DEF LockInv, Places
  <2> QED BY <2>1, <2>2, <2>3, <2>4, <2>5, <2>6, <2>7, <2>8, <2>9 DEF ProcStep
<1>2. CASE \E k \in Keys, u \in BOOLEAN : Request(k, u)
  <2>1. /\ pc' = [pc EXCEPT ![Worker] = "lock"]
        /\ UNCHANGED <<names, orderly>>
    BY <1>2 DEF Request, GoTo, fileVars
  <2> QED BY <2>1, <1>w, SameSide, Zenon DEF locked, Places
<1>3. CASE \E p \in Logins, w \in People, k \in Keys : Login(p, w, k)
  <2>1. PICK p \in Logins : /\ pc' = [pc EXCEPT ![p] = "lock"]
                            /\ UNCHANGED <<names, orderly>>
    BY <1>3, Zenon DEF Login, GoTo, fileVars
  <2> QED BY <2>1, <1>w, SameSide, Zenon DEF locked, Places
<1>4. CASE StopWorker
  <2>1. /\ pc' = [pc EXCEPT ![Worker] = "down"]
        /\ UNCHANGED <<names, orderly>>
    BY <1>4 DEF StopWorker, Leave, GoTo, fileVars
  <2> QED BY <2>1, <1>w, SameSide, Zenon DEF locked, Places
<1>5. CASE StartWorker
  <2>1. /\ pc' = [pc EXCEPT ![Worker] = "idle"]
        /\ orderly' = (\A p \in Logins : pc[p] = "idle")
    BY <1>5 DEF StartWorker, GoTo
  <2>2. pc' \in [Procs -> Places]
    BY <2>1, Zenon DEF LockInv, Places
  <2>3. orderly' => \A p \in Procs : pc'[p] = "idle"
    BY <2>1, Zenon DEF LockInv, Procs
  <2> QED BY <2>2, <2>3, <1>w DEF LockInv, Holding
<1>6. CASE Later \/ UNCHANGED vars
  <2>1. UNCHANGED <<names, pc, orderly>>
    BY <1>6 DEF Later, procVars, fileVars, vars
  <2> QED BY <2>1 DEF LockInv, Holding, locked
<1> QED BY <1>1, <1>2, <1>3, <1>4, <1>5, <1>6 DEF Next

\* At most one process is between the creation of the lock file and its removal
\* (authsession.cc:59-71, SessionKey.pm:64-70), for any number of logins, through
\* restarts of the worker, as long as nobody ran out of attempts.
THEOREM LockHasOneHolder == Spec => []OneHolder
<1>1. LockInv => OneHolder
  BY DEF LockInv, OneHolder
<1> QED BY <1>1, LockInit, LockStep, PTL DEF Spec

-----------------------------------------------------------------------------
(***************************************************************************)
(* Records.  What the loop of authorized copies is found by induction over *)
(* the records.                                                            *)
(***************************************************************************)
OneEach(recs) == \A i, j \in DOMAIN recs : recs[i].who = recs[j].who => i = j

\* Every set of naturals has a least element.
LEMMA Least ==
    ASSUME NEW S \in SUBSET Nat, S # {}
    PROVE  \E n \in S : \A m \in S : n <= m
<1> DEFINE R == OpToRel(<, Nat)
<1>1. \A x, y \in Nat : x < y => <<x, y>> \in R
  BY DEF OpToRel
<1>2. IsWellFoundedOn(R, Nat)
  BY NatLessThanWellFounded, Zenon
<1> HIDE DEF R
<1>3. PICK n \in S : \A y \in S : ~ (<<y, n>> \in R)
  BY <1>2, WFMin, Zenon
<1>4. \A m \in S : ~(m < n)
  BY <1>1, <1>3, Zenon
<1> QED BY <1>4

\* Induction over 0 .. n: a set with 0 and with the successor of each of its
\* members has all of it.
LEMMA Reached ==
    ASSUME NEW n \in Nat, NEW S, 0 \in S, \A k \in 1 .. n : k - 1 \in S => k \in S
    PROVE  0 .. n \subseteq S
<1> DEFINE Bad == {k \in 0 .. n : k \notin S}
<1>1. SUFFICES ASSUME Bad # {} PROVE FALSE
  OBVIOUS
<1>2. Bad \in SUBSET Nat
  OBVIOUS
<1>3. PICK k \in Bad : \A m \in Bad : k <= m
  <2> HIDE DEF Bad
  <2> QED BY <1>1, <1>2, Least
<1>4. k \in 1 .. n /\ k - 1 \notin Bad
  BY <1>3
<1> QED BY <1>4

\* c is what the loop has to keep of the first n records.
Kept(c, n) ==
    /\ c \in Seq(Record)
    /\ \A a \in DOMAIN c : Valid(c[a]) /\ \E j \in 1 .. n : c[a] = sess[j]
    /\ \A j \in 1 .. n : Valid(sess[j]) => \E a \in DOMAIN c : c[a] = sess[j]
    /\ OneEach(sess) => OneEach(c)

\* One turn of the loop, as it stands in Lasting.
Turn(g, i) ==
    IF i = 0 THEN <<>>
    ELSE IF Valid(sess[i]) THEN Append(g[i - 1], sess[i])
    ELSE g[i - 1]

\* g is the copy after each of the first k turns.
Loop(g, k) ==
    /\ g \in [0 .. k -> Seq(Record)]
    /\ \A i \in 0 .. k : g[i] = Turn(g, i)

\* The definition of Lasting by recursion has a solution.
LEMMA LoopEnds ==
    ASSUME sess \in Seq(Record)
    PROVE  \E f : f = [i \in 0 .. Len(sess) |-> Turn(f, i)]
<1> DEFINE N == Len(sess)
           Runs == {k \in 0 .. N : \E g : Loop(g, k)}
<1>0. N \in Nat /\ \A i \in 1 .. N : sess[i] \in Record
  OBVIOUS
<1> HIDE DEF N
<1>1. 0 \in Runs
  <2> DEFINE g == [i \in 0 .. 0 |-> <<>>]
  <2>1. Loop(g, 0)
    BY DEF Turn, Loop
  <2> HIDE DEF g
  <2> QED BY <2>1, <1>0
<1>2. ASSUME NEW k \in 1 .. N, k - 1 \in Runs PROVE k \in Runs
  <2>1. PICK g : Loop(g, k - 1)
    BY <1>2
  <2> DEFINE h == [i \in 0 .. k |-> IF i < k THEN g[i] ELSE Turn(g, k)]
  <2>2. Turn(g, k) \in Seq(Record)
    BY <1>0, <2>1, k # 0, k - 1 \in 0 .. k - 1 DEF Turn, Loop
  <2>3. h \in [0 .. k -> Seq(Record)]
    BY <2>1, <2>2 DEF Loop
  <2>4. ASSUME NEW i \in 0 .. k PROVE h[i] = Turn(h, i)
    <3>1. i # 0 => h[i - 1] = g[i - 1]
      OBVIOUS
    <3>2. Turn(h, i) = Turn(g, i)
      BY <3>1 DEF Turn
    <3> QED BY <3>2, <2>1 DEF Loop
  <2> HIDE DEF h
  <2>5. Loop(h, k)
    BY <2>3, <2>4 DEF Loop
  <2> QED BY <2>5, <1>0
<1> HIDE DEF Runs
<1>3. \A k \in 1 .. N : k - 1 \in Runs => k \in Runs
  BY <1>2
<1>4. 0 .. N \subseteq Runs
  BY <1>0, <1>1, <1>3, Reached, Zenon
<1>5. PICK g : Loop(g, N)
  BY <1>0, <1>4 DEF Runs
<1>6. g = [i \in 0 .. N |-> Turn(g, i)]
  BY <1>5 DEF Loop
<1> QED BY <1>6 DEF N

\* The loop of authorized copies the records that last, each of them once.
LEMMA LastingKept ==
    ASSUME sess \in Seq(Record)
    PROVE  Kept(Lasting, Len(sess))
<1> DEFINE N == Len(sess)
           f == CHOOSE f : f = [i \in 0 .. N |-> Turn(f, i)]
           S == {k \in 0 .. N : Kept(f[k], k)}
<1>0. N \in Nat /\ \A i \in 1 .. N : sess[i] \in Record
  OBVIOUS
<1>1. Lasting = f[N]
  BY DEF Lasting, Turn
<1>2. f = [i \in 0 .. N |-> Turn(f, i)]
  BY LoopEnds, Zenon
<1> HIDE DEF f
<1>3. \A i \in 0 .. N : f[i] = Turn(f, i)
  BY <1>2
<1>4. 0 \in S
  <2>1. f[0] = <<>>
    BY <1>3, <1>0 DEF Turn
  <2>2. OneEach(<<>>)
    BY DEF OneEach
  <2>3. Kept(<<>>, 0)
    BY <2>2 DEF Kept
  <2> QED BY <2>1, <2>3, <1>0
<1>5. ASSUME NEW k \in 1 .. N, k - 1 \in S PROVE k \in S
  <2> DEFINE c == f[k - 1]
  <2>1. Kept(c, k - 1) /\ f[k] = IF Valid(sess[k]) THEN Append(c, sess[k]) ELSE c
    BY <1>3, <1>5 DEF Turn
  <2> HIDE DEF c
  <2>2. CASE ~Valid(sess[k])
    <3>1. f[k] = c
      BY <2>1, <2>2
    <3>2. \A j \in 1 .. k : Valid(sess[j]) => j \in 1 .. k - 1
      BY <2>2
    <3>3. 1 .. k - 1 \subseteq 1 .. k
      OBVIOUS
    <3>4. Kept(c, k)
      BY <2>1, <3>2, <3>3 DEF Kept
    <3> QED BY <3>1, <3>4
  <2>3. CASE Valid(sess[k])
    <3> DEFINE d == Append(c, sess[k])
    <3>1. c \in Seq(Record) /\ sess[k] \in Record
      BY <2>1, <1>0 DEF Kept
    <3>2. /\ d \in Seq(Record) /\ DOMAIN d = 1 .. Len(c) + 1 /\ DOMAIN c = 1 .. Len(c)
          /\ d[Len(c) + 1] = sess[k] /\ \A a \in DOMAIN c : d[a] = c[a]
          /\ Len(c) \in Nat
      BY <3>1
    <3> HIDE DEF d
    <3>3. \A a \in DOMAIN d : a \in DOMAIN c \/ a = Len(c) + 1
      BY <3>2
    <3>4. \A a \in DOMAIN d : Valid(d[a]) /\ \E j \in 1 .. k : d[a] = sess[j]
      BY <2>1, <2>3, <3>2, <3>3 DEF Kept
    <3>5. \A j \in 1 .. k : Valid(sess[j]) => \E a \in DOMAIN d : d[a] = sess[j]
      <4> TAKE j \in 1 .. k
      <4>1. CASE j = k
        BY <4>1, <3>2
      <4>2. CASE j \in 1 .. k - 1
        BY <4>2, <2>1, <3>2 DEF Kept
      <4> QED BY <4>1, <4>2
    <3>6. ASSUME OneEach(sess) PROVE OneEach(d)
      <4>1. OneEach(c)
        BY <3>6, <2>1 DEF Kept
      <4>2. \A a \in DOMAIN c : c[a].who # sess[k].who
        <5>1. \A j \in 1 .. k - 1 : sess[j].who # sess[k].who
          <6>1. DOMAIN sess = 1 .. N /\ k \in DOMAIN sess
            OBVIOUS
          <6>2. \A j \in 1 .. k - 1 : j \in DOMAIN sess /\ j # k
            BY <6>1
          <6> QED BY <3>6, <6>1, <6>2 DEF OneEach
        <5> QED BY <5>1, <2>1 DEF Kept
      <4>3. \A a, b \in DOMAIN d : d[a].who = d[b].who => a = b
        BY <4>1, <4>2, <3>2, <3>3 DEF OneEach
      <4> QED BY <4>3 DEF OneEach
    <3>7. Kept(d, k)
      BY <3>2, <3>4, <3>5, <3>6 DEF Kept
    <3>8. f[k] = d
      BY <2>1, <2>3 DEF d
    <3> QED BY <3>7, <3>8
  <2> QED BY <2>2, <2>3
<1>6. N \in S
  <2>1. \A k \in 1 .. N : k - 1 \in S => k \in S
    BY <1>5
  <2> HIDE DEF S, N
  <2>2. 0 .. N \subseteq S
    BY <1>0, <1>4, <2>1, Reached, Zenon
  <2> QED BY <1>0, <2>2
<1> QED BY <1>1, <1>6

-----------------------------------------------------------------------------
\* An empty file holds what is written to it, and no more.
LEMMA WrittenWhole ==
    ASSUME NEW recs \in Seq(Record)
    PROVE  Overwrite(<<>>, recs) = recs
BY DEF Overwrite

LEMMA WrittenType ==
    ASSUME NEW old \in Seq(Record), NEW recs \in Seq(Record)
    PROVE  Overwrite(old, recs) \in Seq(Record)
<1>1. SubSeq(old, Len(recs) + 1, Len(old)) \in Seq(Record)
  OBVIOUS
<1> QED BY <1>1 DEF Overwrite

\* A change of records in place.
LEMMA InPlace ==
    ASSUME NEW recs \in Seq(Record), NEW f \in [DOMAIN recs -> Record]
    PROVE  f \in Seq(Record)
<1>1. DOMAIN recs = 1 .. Len(recs) /\ Len(recs) \in Nat
  OBVIOUS
<1> QED BY <1>1

LEMMA MinOf ==
    ASSUME NEW S \in SUBSET Nat, S # {}
    PROVE  Min(S) \in S
BY Least, Zenon DEF Min

LEMMA MaxOf ==
    ASSUME NEW n \in Nat, NEW S \in SUBSET (1 .. n), S # {}
    PROVE  Max(S) \in S
<1> DEFINE T == {n - i : i \in S}
<1>1. T \in SUBSET Nat /\ T # {}
  <2>1. \A i \in S : n - i \in Nat
    OBVIOUS
  <2> QED BY <2>1, Zenon
<1>2. PICK t \in T : \A m \in T : t <= m
  <2> HIDE DEF T
  <2> QED BY <1>1, Least
<1>3. PICK i \in S : t = n - i
  OBVIOUS
<1>4. \A j \in S : i >= j
  BY <1>2, <1>3
<1> QED BY <1>4, Zenon DEF Max

LEMMA FreshType ==
    ASSUME NEW r \in Record
    PROVE  /\ Fresh(r) \in Record /\ Fresh(r).key = r.key
           /\ Fresh(r).who = r.who /\ Fresh(r).age = 0
BY DEF Record, Fresh, Expired
(***************************************************************************)
(* Types.  A file that is open under a name is there, a login that runs    *)
(* has a user, and the worker has no answer before its copy.               *)
(***************************************************************************)
FilesOK ==
    /\ names \subseteq {"session", "session_tmp", "session.lck"}
    /\ sess \in Seq(Record)
    /\ tmp \in Seq(Record)
    /\ "session" \notin names => sess = <<>>
    /\ "session_tmp" \notin names => tmp = <<>>
    /\ \A p \in Procs : /\ out[p] = "tmp" => "session_tmp" \in names
                        /\ out[p] = "sess" => "session" \in names

ProcsOK ==
    /\ pc \in [Procs -> Places]
    /\ out \in [Procs -> {None, "tmp", "sess", "lost"}]
    /\ buf \in [Procs -> Seq(Record)]
    /\ key \in [Procs -> Keys \cup {None}]
    /\ who \in [Procs -> People \cup {None}]
    /\ \A p \in Procs :
          /\ out[p] # None <=> pc[p] = "close"
          /\ key[p] = None <=> pc[p] \in {"idle", "down"}
          /\ p \in Logins => pc[p] \notin {"down", "nolock"}
          /\ p \in Logins /\ pc[p] # "idle" => who[p] \in People
          /\ p = Worker => pc[p] # "remove"

AnswersOK ==
    /\ update \in BOOLEAN
    /\ found \in BOOLEAN
    /\ orderly \in BOOLEAN
    /\ pc[Worker] \in {"idle", "down", "lock", "copy", "nolock"} => found = FALSE
    /\ idle \in [Keys -> Never .. Expired - 1]

Typed == FilesOK /\ ProcsOK /\ AnswersOK

LEMMA ProcKinds ==
    /\ Worker \in Procs /\ Logins \subseteq Procs
    /\ \A p \in Procs : (p \in Logins) <=> (p # Worker)
    /\ None \notin Keys /\ None \notin People
BY SessionLockAssumption DEF Procs

LEMMA TypedInit == Init => Typed
<1> SUFFICES ASSUME Init PROVE Typed
  OBVIOUS
<1>1. FilesOK
  BY DEF Init, FilesOK, None
<1>2. ProcsOK
  BY ProcKinds DEF Init, ProcsOK, Places
<1>3. AnswersOK
  <2>1. idle \in [Keys -> Never .. Expired - 1]
    BY DEF Init, Never, Expired
  <2>2. update = FALSE /\ found = FALSE /\ orderly = TRUE
    BY DEF Init
  <2> QED BY <2>1, <2>2, Zenon DEF AnswersOK
<1> QED BY <1>1, <1>2, <1>3 DEF Typed

\* What the worker writes when the copy is complete.
Updated ==
    [i \in DOMAIN Lasting |->
        IF update /\ Lasting[i].key = key[Worker] THEN Fresh(Lasting[i]) ELSE Lasting[i]]

LEMMA UpdatedType ==
    ASSUME Typed
    PROVE  Lasting \in Seq(Record) /\ Updated \in Seq(Record) /\ Len(Updated) = Len(Lasting)
<1>1. Lasting \in Seq(Record)
  BY LastingKept DEF Typed, FilesOK, Kept
<1>2. \A i \in DOMAIN Lasting : Lasting[i] \in Record
  BY <1>1
<1>3. Updated \in [DOMAIN Lasting -> Record]
  BY <1>2, FreshType DEF Updated
<1>4. DOMAIN Lasting = 1 .. Len(Lasting) /\ Len(Lasting) \in Nat
  BY <1>1
<1> QED BY <1>1, <1>3, <1>4, InPlace

\* Whatever goes wrong, records are written; if nothing does, those of Updated.
LEMMA CopyWrites ==
    ASSUME Typed, Copy
    PROVE  /\ \E recs \in Seq(Record) : ToWrite(Worker, recs)
           /\ found' \in BOOLEAN /\ orderly' \in BOOLEAN
           /\ orderly' = TRUE =>
                 /\ orderly = TRUE
                 /\ ToWrite(Worker, Updated)
                 /\ found' = (\E i \in DOMAIN Lasting : Lasting[i].key = key[Worker])
<1> DEFINE recs == Lasting
           mine == {i \in DOMAIN recs : recs[i].key = key[Worker]}
           updated == [i \in DOMAIN recs |->
                          IF update /\ i \in mine THEN Fresh(recs[i]) ELSE recs[i]]
<1>1. updated = Updated
  BY DEF Updated
<1>2. /\ recs \in Seq(Record) /\ Updated \in Seq(Record)
      /\ DOMAIN recs = 1 .. Len(recs) /\ Len(recs) \in Nat /\ Len(Updated) = Len(recs)
  BY UpdatedType
<1>3. \/ /\ ToWrite(Worker, updated)
         /\ found' = (mine # {})
         /\ orderly' = orderly
      \/ /\ mine # {}
         /\ ToWrite(Worker, SubSeq(recs, 1, Min(mine) - 1))
         /\ found' = FALSE
         /\ orderly' = FALSE
      \/ /\ \E i \in DOMAIN recs :
               IF i \in mine
               THEN /\ ToWrite(Worker, SubSeq(recs, 1, i - 1) \o SubSeq(recs, i + 1, Len(recs)))
                    /\ found' = FALSE
               ELSE /\ ToWrite(Worker, SubSeq(updated, 1, i - 1))
                    /\ found' = (\E j \in mine : j < i)
         /\ orderly' = FALSE
  BY Zenon DEF Copy
<1>4. mine \subseteq 1 .. Len(recs)
  BY <1>2
<1>5. (mine # {}) = (\E i \in DOMAIN Lasting : Lasting[i].key = key[Worker])
  BY Zenon
<1>6. orderly \in BOOLEAN
  BY DEF Typed, AnswersOK
<1> HIDE DEF recs, mine, updated
<1>7. CASE /\ ToWrite(Worker, updated)
           /\ found' = (mine # {})
           /\ orderly' = orderly
  BY <1>1, <1>2, <1>5, <1>6, <1>7, Zenon
<1>8. CASE /\ mine # {}
           /\ ToWrite(Worker, SubSeq(recs, 1, Min(mine) - 1))
           /\ found' = FALSE
           /\ orderly' = FALSE
  <2>1. Min(mine) \in mine
    <3>1. mine \in SUBSET Nat
      BY <1>2, <1>4
    <3> QED BY <3>1, <1>8, MinOf
  <2>2. SubSeq(recs, 1, Min(mine) - 1) \in Seq(Record)
    <3> DEFINE m == Min(mine) - 1
    <3>0. Min(mine) \in 1 .. Len(recs)
      BY <1>4, <2>1, Zenon
    <3>1. m \in 0 .. Len(recs)
      BY <1>2, <3>0
    <3> HIDE DEF m
    <3>2. SubSeq(recs, 1, m) \in Seq(Record)
      BY <1>2, <3>1
    <3> QED BY <3>2 DEF m
  <2> QED BY <1>8, <2>2, Zenon
<1>9. CASE /\ \E i \in DOMAIN recs :
                 IF i \in mine
                 THEN /\ ToWrite(Worker, SubSeq(recs, 1, i - 1) \o SubSeq(recs, i + 1, Len(recs)))
                      /\ found' = FALSE
                 ELSE /\ ToWrite(Worker, SubSeq(updated, 1, i - 1))
                      /\ found' = (\E j \in mine : j < i)
           /\ orderly' = FALSE
  <2>1. PICK i \in DOMAIN recs :
                 IF i \in mine
                 THEN /\ ToWrite(Worker, SubSeq(recs, 1, i - 1) \o SubSeq(recs, i + 1, Len(recs)))
                      /\ found' = FALSE
                 ELSE /\ ToWrite(Worker, SubSeq(updated, 1, i - 1))
                      /\ found' = (\E j \in mine : j < i)
    BY <1>9, Zenon
  <2>2. SubSeq(updated, 1, i - 1) \in Seq(Record)
    BY <1>1, <1>2
  <2>3. SubSeq(recs, 1, i - 1) \o SubSeq(recs, i + 1, Len(recs)) \in Seq(Record)
    <3>1. SubSeq(recs, 1, i - 1) \in Seq(Record) /\ SubSeq(recs, i + 1, Len(recs)) \in Seq(Record)
      BY <1>2
    <3> QED BY <3>1
  <2>4. CASE i \in mine
    BY <2>1, <2>3, <2>4, <1>9, Zenon
  <2>5. CASE i \notin mine
    BY <2>1, <2>2, <2>5, <1>9, Zenon
  <2> QED BY <2>4, <2>5, Zenon
<1> QED BY <1>3, <1>7, <1>8, <1>9, Zenon

-----------------------------------------------------------------------------
LEMMA ToWriteTyped ==
    ASSUME Typed, NEW p \in Procs, NEW recs \in Seq(Record), ToWrite(p, recs),
           pc[p] \in {"copy", "nolock"}, key' \in [Procs -> Keys \cup {None}],
           \A q \in Procs : key'[q] = None <=> key[q] = None, who' = who
    PROVE  /\ ProcsOK'
           /\ \A q \in Procs : out'[q] = IF q = p THEN "tmp" ELSE out[q]
           /\ \A q \in Procs : pc'[q] = IF q = p THEN "close" ELSE pc[q]
<1>1. /\ pc' = [pc EXCEPT ![p] = "close"]
      /\ out' = [out EXCEPT ![p] = "tmp"]
      /\ buf' = [buf EXCEPT ![p] = recs]
  BY DEF ToWrite, GoTo
<1>2. ProcsOK
  BY DEF Typed
<1>3. /\ \A q \in Procs : out'[q] = IF q = p THEN "tmp" ELSE out[q]
      /\ \A q \in Procs : pc'[q] = IF q = p THEN "close" ELSE pc[q]
  BY <1>1, <1>2 DEF ProcsOK
<1>4. buf' \in [Procs -> Seq(Record)]
  BY <1>1, <1>2 DEF ProcsOK
<1> QED BY <1>1, <1>2, <1>3, <1>4 DEF ProcsOK, Places, None

LEMMA LeaveTyped ==
    ASSUME Typed, NEW p \in Procs, NEW l \in {"idle", "down"}, l = "down" => p = Worker,
           Leave(p, l)
    PROVE  /\ ProcsOK'
           /\ \A q \in Procs : out'[q] = IF q = p THEN None ELSE out[q]
           /\ \A q \in Procs : pc'[q] = IF q = p THEN l ELSE pc[q]
           /\ update' \in BOOLEAN /\ found' \in BOOLEAN
           /\ pc'[Worker] \in {"idle", "down", "lock", "copy", "nolock"} => found' = FALSE
<1>1. /\ pc' = [pc EXCEPT ![p] = l]
      /\ out' = [out EXCEPT ![p] = None]
      /\ buf' = [buf EXCEPT ![p] = <<>>]
      /\ key' = [key EXCEPT ![p] = None]
      /\ who' = [who EXCEPT ![p] = None]
  BY DEF Leave, GoTo
<1>2. ProcsOK /\ AnswersOK
  BY DEF Typed
<1>3. /\ \A q \in Procs : out'[q] = IF q = p THEN None ELSE out[q]
      /\ \A q \in Procs : pc'[q] = IF q = p THEN l ELSE pc[q]
  BY <1>1, <1>2 DEF ProcsOK
<1>4. buf' \in [Procs -> Seq(Record)]
  BY <1>1, <1>2 DEF ProcsOK
<1>5. ProcsOK'
  BY <1>1, <1>2, <1>3, <1>4, ProcKinds DEF ProcsOK, Places
<1>6. CASE p = Worker
  <2>1. update' = FALSE /\ found' = FALSE
    BY <1>6 DEF Leave
  <2> QED BY <1>3, <1>5, <2>1, Zenon
<1>7. CASE p # Worker
  <2>1. update' = update /\ found' = found /\ pc'[Worker] = pc[Worker]
    BY <1>3, <1>7, ProcKinds DEF Leave
  <2> QED BY <1>2, <1>3, <1>5, <2>1, Zenon DEF AnswersOK
<1> QED BY <1>6, <1>7, Zenon

\* A step that leaves the answers alone, and moves the worker only from a place
\* where it has no answer, or between places where it has one.
LEMMA AnswersKept ==
    ASSUME AnswersOK, idle' = idle, update' = update, found' = found, orderly' \in BOOLEAN,
           pc'[Worker] \in {"idle", "down", "lock", "copy", "nolock"} =>
               pc[Worker] \in {"idle", "down", "lock", "copy", "nolock"}
    PROVE  AnswersOK'
<1>1. idle' \in [Keys -> Never .. Expired - 1]
  BY DEF AnswersOK
<1> QED BY <1>1, Zenon DEF AnswersOK

LEMMA FilesKept ==
    ASSUME FilesOK, sess' = sess, tmp' = tmp,
           names' \in {names, names \cup {"session.lck"}, names \ {"session.lck"}},
           \A q \in Procs : out'[q] \in {None, "lost", out[q]}
    PROVE  FilesOK'
BY DEF FilesOK, None

LEMMA OlderType ==
    ASSUME NEW recs \in Seq(Record)
    PROVE  Older(recs) \in Seq(Record)
<1>1. \A i \in DOMAIN recs : recs[i] \in Record
  OBVIOUS
<1>2. \A r \in Record : [r EXCEPT !.age = IF @ = Expired THEN @ ELSE @ + 1] \in Record
  BY DEF Record, Expired
<1>3. Older(recs) \in [DOMAIN recs -> Record]
  BY <1>1, <1>2 DEF Older
<1> QED BY <1>3, InPlace

LEMMA TypedProc ==
    ASSUME Typed, NEW p \in Procs, ProcStep(p)
    PROVE  Typed'
<1>a. FilesOK /\ ProcsOK /\ AnswersOK
  BY DEF Typed
<1>b. orderly \in BOOLEAN
  BY <1>a DEF AnswersOK
<1>1. CASE AcquireLock(p)
  <2>1. /\ pc[p] = "lock" /\ pc' = [pc EXCEPT ![p] = "copy"]
        /\ names' = names \cup {"session.lck"}
        /\ UNCHANGED <<sess, tmp, out, buf, key, who, update, found, idle, orderly>>
    BY <1>1 DEF AcquireLock, GoTo
  <2>2. ProcsOK'
    BY <1>a, <2>1 DEF ProcsOK, Places
  <2>3. FilesOK'
    BY <1>a, <2>1, FilesKept
  <2>4. AnswersOK'
    <3>1. pc'[Worker] = "copy" \/ pc'[Worker] = pc[Worker]
      BY <1>a, <2>1, ProcKinds DEF ProcsOK
    <3>2. pc'[Worker] = "copy" => pc[Worker] \in {"lock", "copy"}
      BY <1>a, <2>1, ProcKinds DEF ProcsOK
    <3> QED BY <1>a, <1>b, <2>1, <3>1, <3>2, AnswersKept
  <2> QED BY <2>2, <2>3, <2>4 DEF Typed
<1>2. CASE GiveUp(p)
  <2>1. pc[p] = "lock" /\ orderly' = FALSE /\ UNCHANGED <<sess, tmp, idle>>
    BY <1>2 DEF GiveUp
  <2>2. CASE p = Worker
    <3>1. /\ pc' = [pc EXCEPT ![p] = "nolock"]
          /\ UNCHANGED <<names, out, buf, key, who, update, found>>
      BY <1>2, <2>2 DEF GiveUp, GoTo
    <3>2. ProcsOK'
      BY <1>a, <2>1, <2>2, <3>1, ProcKinds DEF ProcsOK, Places
    <3>3. FilesOK'
      BY <1>a, <2>1, <3>1, FilesKept
    <3>4. AnswersOK'
      <4>1. orderly' \in BOOLEAN
        BY <2>1, Zenon
      <4> QED BY <1>a, <2>1, <2>2, <3>1, <4>1, AnswersKept
    <3> QED BY <3>2, <3>3, <3>4 DEF Typed
  <2>3. CASE p # Worker
    <3>1. names' = names \ {"session.lck"} /\ Leave(p, "idle")
      BY <1>2, <2>3 DEF GiveUp
    <3>2. /\ ProcsOK'
          /\ \A q \in Procs : out'[q] = IF q = p THEN None ELSE out[q]
          /\ update' \in BOOLEAN /\ found' \in BOOLEAN
          /\ pc'[Worker] \in {"idle", "down", "lock", "copy", "nolock"} => found' = FALSE
      BY <3>1, LeaveTyped, Zenon
    <3>3. FilesOK'
      BY <1>a, <2>1, <3>1, <3>2, FilesKept
    <3>4. idle' \in [Keys -> Never .. Expired - 1]
      BY <1>a, <2>1 DEF AnswersOK
    <3>5. AnswersOK'
      BY <2>1, <3>2, <3>4, Zenon DEF AnswersOK
    <3> QED BY <3>2, <3>3, <3>5 DEF Typed
  <2> QED BY <2>2, <2>3
<1>3. CASE p = Worker /\ Copy
  <2>1. /\ pc[Worker] = "copy" /\ names' = names \cup {"session_tmp"} /\ tmp' = <<>>
        /\ UNCHANGED <<sess, key, who, update, idle>>
    BY <1>3 DEF Copy, OpenTmp
  <2>2. PICK recs \in Seq(Record) : ToWrite(Worker, recs)
    BY <1>3, CopyWrites, Zenon
  <2>3. /\ ProcsOK'
        /\ \A q \in Procs : out'[q] = IF q = Worker THEN "tmp" ELSE out[q]
        /\ pc'[Worker] = "close"
    BY <1>a, <2>1, <2>2, ToWriteTyped, ProcKinds DEF ProcsOK
  <2>4. FilesOK'
    <3>1. <<>> \in Seq(Record)
      OBVIOUS
    <3> QED BY <1>a, <2>1, <2>3, <3>1 DEF FilesOK
  <2>5. found' \in BOOLEAN /\ orderly' \in BOOLEAN
    BY <1>3, CopyWrites, Zenon
  <2>6. idle' \in [Keys -> Never .. Expired - 1]
    BY <1>a, <2>1 DEF AnswersOK
  <2>7. AnswersOK'
    BY <1>a, <2>1, <2>3, <2>5, <2>6, Zenon DEF AnswersOK
  <2> QED BY <2>3, <2>4, <2>7 DEF Typed
<1>4. CASE p = Worker /\ NoStatus
  <2>1. /\ pc[Worker] \in {"copy", "nolock"} /\ names' = names \cup {"session_tmp"} /\ tmp' = <<>>
        /\ UNCHANGED <<sess, key, who, update, found, idle, orderly>>
        /\ ToWrite(Worker, <<>>)
    BY <1>4 DEF NoStatus, OpenTmp
  <2>2. <<>> \in Seq(Record)
    OBVIOUS
  <2>3. /\ ProcsOK'
        /\ \A q \in Procs : out'[q] = IF q = Worker THEN "tmp" ELSE out[q]
        /\ pc'[Worker] = "close"
    BY <1>a, <2>1, <2>2, ToWriteTyped, ProcKinds, Zenon DEF ProcsOK
  <2>4. FilesOK'
    BY <1>a, <2>1, <2>2, <2>3, Zenon DEF FilesOK
  <2>5. AnswersOK'
    BY <1>a, <1>b, <2>1, <2>3, AnswersKept
  <2> QED BY <2>3, <2>4, <2>5 DEF Typed
<1>5. CASE CopyKey(p)
  <2>1. /\ pc[p] = "copy" /\ p \in Logins
        /\ names' = names \cup {"session", "session_tmp"}
        /\ UNCHANGED <<sess, idle>>
    BY <1>5 DEF CopyKey
  <2> DEFINE mine == SessionOf(who[p])
             updated == [i \in DOMAIN sess |->
                            IF i \in mine THEN Fresh(sess[i]) ELSE sess[i]]
             added == Append(sess, [key |-> key[p], who |-> who[p], age |-> 0])
  <2>2. \/ /\ mine # {}
           /\ ToWrite(p, updated)
           /\ key' = [key EXCEPT ![p] = sess[Max(mine)].key]
           /\ UNCHANGED <<tmp, who, update, found, orderly>>
        \/ /\ mine = {}
           /\ ToWrite(p, added)
           /\ UNCHANGED <<tmp, key, who, update, found, orderly>>
        \/ /\ tmp' = Overwrite(tmp, sess)
           /\ Leave(p, "idle")
           /\ orderly' = FALSE
    BY <1>5, Zenon DEF CopyKey
  <2>3. /\ sess \in Seq(Record) /\ tmp \in Seq(Record)
        /\ DOMAIN sess = 1 .. Len(sess) /\ Len(sess) \in Nat
        /\ \A i \in DOMAIN sess : sess[i] \in Record
    BY <1>a DEF FilesOK
  <2>4. mine \in SUBSET (1 .. Len(sess))
    BY <2>3 DEF SessionOf
  <2>5. updated \in Seq(Record)
    <3>1. updated \in [DOMAIN sess -> Record]
      BY <2>3, FreshType
    <3> HIDE DEF updated
    <3> QED BY <2>3, <3>1, InPlace
  <2>6. added \in Seq(Record)
    <3>1. key[p] \in Keys /\ who[p] \in People
      BY <1>a, <2>1 DEF ProcsOK
    <3>2. [key |-> key[p], who |-> who[p], age |-> 0] \in Record
      BY <3>1 DEF Record, Expired
    <3> QED BY <3>2, <2>3
  <2> HIDE DEF updated, added, mine
  <2>7. ASSUME NEW recs \in Seq(Record), ToWrite(p, recs),
               key' \in [Procs -> Keys \cup {None}],
               \A q \in Procs : key'[q] = None <=> key[q] = None,
               UNCHANGED <<tmp, who, update, found, orderly>>
        PROVE  Typed'
    <3>1. /\ ProcsOK'
          /\ \A q \in Procs : out'[q] = IF q = p THEN "tmp" ELSE out[q]
          /\ \A q \in Procs : pc'[q] = IF q = p THEN "close" ELSE pc[q]
      BY <2>1, <2>7, ToWriteTyped
    <3>2. FilesOK'
      BY <1>a, <2>1, <2>7, <3>1 DEF FilesOK
    <3>3. AnswersOK'
      BY <1>a, <1>b, <2>1, <2>7, <3>1, AnswersKept, ProcKinds
    <3> QED BY <3>1, <3>2, <3>3 DEF Typed
  <2>8. CASE /\ mine # {}
             /\ ToWrite(p, updated)
             /\ key' = [key EXCEPT ![p] = sess[Max(mine)].key]
             /\ UNCHANGED <<tmp, who, update, found, orderly>>
    <3>1. Max(mine) \in mine
      BY <2>3, <2>4, <2>8, MaxOf, Zenon
    <3>2. sess[Max(mine)].key \in Keys
      BY <2>3, <2>4, <3>1, Zenon DEF Record
    <3>3. key' \in [Procs -> Keys \cup {None}] /\ \A q \in Procs : key'[q] = None <=> key[q] = None
      BY <1>a, <2>1, <2>8, <3>2, ProcKinds DEF ProcsOK
    <3> QED BY <2>5, <2>7, <2>8, <3>3
  <2>9. CASE /\ mine = {}
             /\ ToWrite(p, added)
             /\ UNCHANGED <<tmp, key, who, update, found, orderly>>
    <3>1. key' \in [Procs -> Keys \cup {None}] /\ \A q \in Procs : key'[q] = None <=> key[q] = None
      BY <1>a, <2>9 DEF ProcsOK
    <3> QED BY <2>6, <2>7, <2>9, <3>1
  <2>10. CASE /\ tmp' = Overwrite(tmp, sess)
              /\ Leave(p, "idle")
              /\ orderly' = FALSE
    <3>1. /\ ProcsOK'
          /\ \A q \in Procs : out'[q] = IF q = p THEN None ELSE out[q]
          /\ update' \in BOOLEAN /\ found' \in BOOLEAN
          /\ pc'[Worker] \in {"idle", "down", "lock", "copy", "nolock"} => found' = FALSE
      BY <2>10, LeaveTyped, Zenon
    <3>2. tmp' \in Seq(Record)
      BY <2>3, <2>10, WrittenType
    <3>3. FilesOK'
      BY <1>a, <2>1, <3>1, <3>2 DEF FilesOK, None
    <3>4. idle' \in [Keys -> Never .. Expired - 1]
      BY <1>a, <2>1 DEF AnswersOK
    <3>5. AnswersOK'
      BY <2>10, <3>1, <3>4, Zenon DEF AnswersOK
    <3> QED BY <3>1, <3>3, <3>5 DEF Typed
  <2> QED BY <2>2, <2>8, <2>9, <2>10, Zenon
<1>6. CASE CloseTmp(p)
  <2>1. /\ pc[p] = "close" /\ pc' = [pc EXCEPT ![p] = "rename"]
        /\ out' = [out EXCEPT ![p] = None]
        /\ buf' = [buf EXCEPT ![p] = <<>>]
        /\ tmp' = IF out[p] = "tmp" THEN Overwrite(tmp, buf[p]) ELSE tmp
        /\ sess' = IF out[p] = "sess" THEN Overwrite(sess, buf[p]) ELSE sess
        /\ UNCHANGED <<names, key, who, update, found, idle, orderly>>
    BY <1>6 DEF CloseTmp, GoTo
  <2>2. ProcsOK'
    <3>1. buf' \in [Procs -> Seq(Record)]
      BY <1>a, <2>1 DEF ProcsOK
    <3> QED BY <1>a, <2>1, <3>1 DEF ProcsOK, Places
  <2>3. tmp' \in Seq(Record) /\ sess' \in Seq(Record)
    <3>1. buf[p] \in Seq(Record) /\ tmp \in Seq(Record) /\ sess \in Seq(Record)
      BY <1>a DEF ProcsOK, FilesOK
    <3> QED BY <2>1, <3>1, WrittenType
  <2>4. FilesOK'
    <3>1. \A q \in Procs : out'[q] \in {None, out[q]}
      BY <1>a, <2>1 DEF ProcsOK
    <3> QED BY <1>a, <2>1, <2>3, <3>1 DEF FilesOK, None
  <2>5. AnswersOK'
    <3>1. pc'[Worker] \in {"rename", pc[Worker]}
      BY <1>a, <2>1, ProcKinds DEF ProcsOK
    <3> QED BY <1>a, <1>b, <2>1, <3>1, AnswersKept
  <2> QED BY <2>2, <2>4, <2>5 DEF Typed
<1>7. CASE Rename(p)
  <2>1. /\ pc[p] = "rename"
        /\ pc' = [pc EXCEPT ![p] = IF p = Worker THEN "unlock" ELSE "remove"]
        /\ UNCHANGED <<buf, key, who, update, found, idle, orderly>>
    BY <1>7 DEF Rename, GoTo
  <2>2. /\ out' \in [Procs -> {None, "tmp", "sess", "lost"}]
        /\ \A q \in Procs : out'[q] = None <=> out[q] = None
    BY <1>7, <1>a DEF Rename, ProcsOK, None
  <2>3. ProcsOK'
    BY <1>a, <2>1, <2>2, ProcKinds, Zenon DEF ProcsOK, Places
  <2>4. FilesOK'
    <3>1. CASE "session_tmp" \in names
      <4>1. /\ sess' = tmp /\ tmp' = <<>>
            /\ names' = (names \ {"session_tmp"}) \cup {"session"}
            /\ out' = [q \in Procs |-> CASE out[q] = "tmp" -> "sess"
                                         [] out[q] = "sess" -> "lost"
                                         [] OTHER -> out[q]]
        BY <1>7, <3>1 DEF Rename
      <4>2. \A q \in Procs : out'[q] # "tmp"
        BY <1>a, <4>1 DEF ProcsOK
      <4>3. tmp \in Seq(Record) /\ <<>> \in Seq(Record)
        BY <1>a DEF FilesOK
      <4> QED BY <1>a, <4>1, <4>2, <4>3 DEF FilesOK
    <3>2. CASE "session_tmp" \notin names
      <4>1. UNCHANGED <<sess, tmp, names, out>>
        BY <1>7, <3>2 DEF Rename, fileVars
      <4> QED BY <1>a, <4>1, FilesKept
    <3> QED BY <3>1, <3>2
  <2>5. AnswersOK'
    <3>1. pc'[Worker] \in {"unlock", pc[Worker]}
      BY <1>a, <2>1, ProcKinds DEF ProcsOK
    <3> QED BY <1>a, <1>b, <2>1, <3>1, AnswersKept
  <2> QED BY <2>3, <2>4, <2>5 DEF Typed
<1>8. CASE RemoveTmp(p)
  <2>1. /\ pc[p] = "remove" /\ pc' = [pc EXCEPT ![p] = "unlock"]
        /\ names' = names \ {"session_tmp"} /\ tmp' = <<>>
        /\ out' = [q \in Procs |-> IF out[q] = "tmp" THEN "lost" ELSE out[q]]
        /\ UNCHANGED <<sess, buf, key, who, update, found, idle, orderly>>
    BY <1>8 DEF RemoveTmp, GoTo
  <2>2. ProcsOK'
    BY <1>a, <2>1 DEF ProcsOK, Places, None
  <2>3. FilesOK'
    <3>1. <<>> \in Seq(Record) /\ \A q \in Procs : out'[q] # "tmp" /\ (out'[q] = "sess" => out[q] = "sess")
      BY <2>1
    <3> QED BY <1>a, <2>1, <3>1 DEF FilesOK
  <2>4. AnswersOK'
    <3>1. pc'[Worker] \in {"unlock", pc[Worker]}
      BY <1>a, <2>1, ProcKinds DEF ProcsOK
    <3> QED BY <1>a, <1>b, <2>1, <3>1, AnswersKept
  <2> QED BY <2>2, <2>3, <2>4 DEF Typed
<1>9. CASE Unlock(p)
  <2>1. /\ pc[p] = "unlock" /\ names' = names \ {"session.lck"}
        /\ Leave(p, "idle") /\ UNCHANGED <<sess, tmp, orderly>>
        /\ idle' \in {idle, [idle EXCEPT ![key[p]] = 0]}
    BY <1>9 DEF Unlock
  <2>2. /\ ProcsOK'
        /\ \A q \in Procs : out'[q] = IF q = p THEN None ELSE out[q]
        /\ update' \in BOOLEAN /\ found' \in BOOLEAN
        /\ pc'[Worker] \in {"idle", "down", "lock", "copy", "nolock"} => found' = FALSE
    BY <2>1, LeaveTyped, Zenon
  <2>3. FilesOK'
    BY <1>a, <2>1, <2>2, FilesKept
  <2>4. idle' \in [Keys -> Never .. Expired - 1]
    BY <1>a, <2>1 DEF AnswersOK, Never, Expired
  <2>5. AnswersOK'
    BY <1>b, <2>1, <2>2, <2>4, Zenon DEF AnswersOK
  <2> QED BY <2>2, <2>3, <2>5 DEF Typed
<1> QED BY <1>1, <1>2, <1>3, <1>4, <1>5, <1>6, <1>7, <1>8, <1>9 DEF ProcStep

LEMMA TypedStep == Typed /\ [Next]_vars => Typed'
<1> SUFFICES ASSUME Typed, [Next]_vars PROVE Typed'
  OBVIOUS
<1>a. FilesOK /\ ProcsOK /\ AnswersOK
  BY DEF Typed
<1>b. orderly \in BOOLEAN
  BY <1>a DEF AnswersOK
<1>1. CASE \E p \in Procs : ProcStep(p)
  BY <1>1, TypedProc
<1>2. CASE \E k \in Keys, u \in BOOLEAN : Request(k, u)
  <2>1. PICK k \in Keys, u \in BOOLEAN : Request(k, u)
    BY <1>2
  <2>2. /\ pc[Worker] = "idle" /\ pc' = [pc EXCEPT ![Worker] = "lock"]
        /\ key' = [key EXCEPT ![Worker] = k]
        /\ update' \in BOOLEAN
        /\ UNCHANGED <<names, sess, tmp, out, buf, who, found, idle, orderly>>
    BY <2>1 DEF Request, GoTo, fileVars
  <2>3. ProcsOK'
    BY <1>a, <2>2, ProcKinds DEF ProcsOK, Places
  <2>4. FilesOK'
    BY <1>a, <2>2, FilesKept
  <2>5. idle' \in [Keys -> Never .. Expired - 1]
    BY <1>a, <2>2 DEF AnswersOK
  <2>6. AnswersOK'
    <3>1. found = FALSE
      BY <1>a, <2>2 DEF AnswersOK
    <3> QED BY <1>b, <2>2, <2>5, <3>1, Zenon DEF AnswersOK
  <2> QED BY <2>3, <2>4, <2>6 DEF Typed
<1>3. CASE \E p \in Logins, w \in People, k \in Keys : Login(p, w, k)
  <2>1. PICK p \in Logins, w \in People, k \in Keys : Login(p, w, k)
    BY <1>3
  <2>2. /\ pc[p] = "idle" /\ pc' = [pc EXCEPT ![p] = "lock"]
        /\ key' = [key EXCEPT ![p] = k]
        /\ who' = [who EXCEPT ![p] = w]
        /\ UNCHANGED <<names, sess, tmp, out, buf, update, found, idle, orderly>>
    BY <2>1 DEF Login, GoTo, fileVars
  <2>3. ProcsOK'
    BY <1>a, <2>2, ProcKinds DEF ProcsOK, Places
  <2>4. FilesOK'
    BY <1>a, <2>2, FilesKept
  <2>5. AnswersOK'
    <3>1. pc'[Worker] = pc[Worker]
      BY <1>a, <2>2, ProcKinds DEF ProcsOK
    <3> QED BY <1>a, <1>b, <2>2, <3>1, AnswersKept
  <2> QED BY <2>3, <2>4, <2>5 DEF Typed
<1>4. CASE StopWorker
  <2>1. Leave(Worker, "down") /\ UNCHANGED <<names, sess, tmp, idle, orderly>>
    BY <1>4 DEF StopWorker, fileVars
  <2>2. /\ ProcsOK'
        /\ \A q \in Procs : out'[q] = IF q = Worker THEN None ELSE out[q]
        /\ update' \in BOOLEAN /\ found' \in BOOLEAN
        /\ pc'[Worker] \in {"idle", "down", "lock", "copy", "nolock"} => found' = FALSE
    BY <2>1, LeaveTyped, ProcKinds, Zenon
  <2>3. FilesOK'
    BY <1>a, <2>1, <2>2, FilesKept
  <2>4. idle' \in [Keys -> Never .. Expired - 1]
    BY <1>a, <2>1 DEF AnswersOK
  <2>5. AnswersOK'
    BY <1>b, <2>1, <2>2, <2>4, Zenon DEF AnswersOK
  <2> QED BY <2>2, <2>3, <2>5 DEF Typed
<1>5. CASE StartWorker
  <2>1. /\ pc[Worker] = "down" /\ pc' = [pc EXCEPT ![Worker] = "idle"]
        /\ names' = {} /\ sess' = <<>> /\ tmp' = <<>>
        /\ out' = [p \in Procs |-> IF out[p] = None THEN None ELSE "lost"]
        /\ idle' = [k \in Keys |-> Never]
        /\ UNCHANGED <<buf, key, who, update, found>>
    BY <1>5 DEF StartWorker, GoTo
  <2>2. orderly' = (\A p \in Logins : pc[p] = "idle")
    BY <1>5 DEF StartWorker
  <2>3. ProcsOK'
    BY <1>a, <2>1, ProcKinds DEF ProcsOK, Places, None
  <2>4. FilesOK'
    BY <2>1 DEF FilesOK, None
  <2>5. idle' \in [Keys -> Never .. Expired - 1]
    BY <2>1 DEF Never, Expired
  <2>6. AnswersOK'
    <3>1. found = FALSE /\ update \in BOOLEAN
      BY <1>a, <2>1 DEF AnswersOK
    <3> QED BY <2>1, <2>2, <2>5, <3>1, Zenon DEF AnswersOK
  <2> QED BY <2>3, <2>4, <2>6 DEF Typed
<1>6. CASE Later
  <2>1. /\ sess' = Older(sess) /\ tmp' = Older(tmp)
        /\ idle' = [k \in Keys |-> IF idle[k] \in {Never, Expired - 1} THEN Never ELSE idle[k] + 1]
        /\ UNCHANGED <<names, pc, out, buf, key, who, update, found, orderly>>
    BY <1>6 DEF Later, procVars
  <2>2. ProcsOK'
    BY <1>a, <2>1 DEF ProcsOK
  <2>3. sess' \in Seq(Record) /\ tmp' \in Seq(Record)
    BY <1>a, <2>1, OlderType DEF FilesOK
  <2>4. Older(<<>>) = <<>>
    BY DEF Older
  <2>5. FilesOK'
    BY <1>a, <2>1, <2>3, <2>4 DEF FilesOK
  <2>6. idle' \in [Keys -> Never .. Expired - 1]
    BY <1>a, <2>1 DEF AnswersOK, Never, Expired
  <2>7. AnswersOK'
    BY <1>a, <2>1, <2>6, Zenon DEF AnswersOK
  <2> QED BY <2>2, <2>5, <2>7 DEF Typed
<1>7. CASE UNCHANGED vars
  <2>1. UNCHANGED <<names, sess, tmp, pc, out, buf, key, who, update, found, idle, orderly>>
    BY <1>7 DEF vars, fileVars, procVars
  <2>2. ProcsOK' /\ FilesOK'
    BY <1>a, <2>1 DEF ProcsOK, FilesOK
  <2>3. AnswersOK'
    BY <1>a, <1>b, <2>1, AnswersKept
  <2> QED BY <2>2, <2>3 DEF Typed
<1> QED BY <1>1, <1>2, <1>3, <1>4, <1>5, <1>6, <1>7 DEF Next

LEMMA AlwaysTyped == Spec => []Typed
BY TypedInit, TypedStep, PTL DEF Spec

\* The files hold records, a process has a file open exactly while its copy is
\* not written, and the results are what the callers may find, after any failure
\* (authsession.cc:208-318, SessionKey.pm:76-119).
THEOREM SessionTypeCorrect == Spec => []TypeOK
<1>1. ASSUME Typed PROVE TypeOK
  <2>1. FilesOK /\ ProcsOK /\ AnswersOK
    BY <1>1 DEF Typed
  <2>2. {update, found, orderly} \subseteq BOOLEAN
    BY <2>1, Zenon DEF AnswersOK
  <2>3. idle \in [Keys -> Never .. Expired - 1]
    BY <2>1 DEF AnswersOK
  <2> QED BY <2>1, <2>2, <2>3 DEF TypeOK, FilesOK, ProcsOK, Places
<1> QED BY <1>1, AlwaysTyped, PTL

-----------------------------------------------------------------------------

(***************************************************************************)
(* What the session file says.  recs keeps the sessions: one that was      *)
(* handed out or used id[k] ago is there, with a time that is no older.    *)
(***************************************************************************)
Keeps(id, recs) ==
    \A k \in Keys : id[k] # Never =>
        \E i \in DOMAIN recs : recs[i].key = k /\ recs[i].age <= id[k]

\* Moreover the records that have not timed out are those of sessions that last,
\* but for sessions whose time was just set and whose client does not know yet.
Tells(id, renewed, recs) ==
    /\ OneEach(recs)
    /\ Keeps(id, recs)
    /\ \A k \in renewed : \E i \in DOMAIN recs : recs[i].key = k /\ recs[i].age = 0
    /\ \A i \in DOMAIN recs : recs[i].age < Expired =>
          \/ recs[i].key \in renewed
          \/ id[recs[i].key] # Never /\ id[recs[i].key] <= recs[i].age

\* The session whose time the holder p has set.
Renewed(p) == IF p \in Logins \/ (found /\ update) THEN {key[p]} ELSE {}

\* How far the holder of the lock is, and which file tells the truth then.
HolderOK(p) ==
    /\ pc[p] # "rename" => tmp = <<>>
    /\ pc[p] = "copy" => Tells(idle, {}, sess)
    /\ pc[p] = "close" => out[p] = "tmp" /\ Tells(idle, Renewed(p), buf[p])
    /\ pc[p] = "rename" => "session_tmp" \in names /\ Tells(idle, Renewed(p), tmp)
    /\ pc[p] \in {"remove", "unlock"} => Tells(idle, Renewed(p), sess)
    /\ p = Worker /\ pc[p] # "copy" => (found <=> idle[key[p]] # Never)

(***************************************************************************)
(* A worker that was stopped leaves its lock file behind, and with it a    *)
(* temporary file or a time that was set for nobody: that the file tells   *)
(* the truth is claimed for the holder and for a file that is not locked.  *)
(***************************************************************************)
SessInv ==
    orderly =>
      /\ OneEach(sess)
      /\ Keeps(idle, sess)
      /\ ~locked => tmp = <<>> /\ Tells(idle, {}, sess)
      /\ \A p \in Procs : Holding(p) => HolderOK(p)

Ages == [Keys -> Never .. Expired - 1]

\* The client is told: the file tells the truth about all sessions.
LEMMA Renewal ==
    ASSUME NEW id \in Ages, NEW renewed \in SUBSET Keys, NEW recs \in Seq(Record),
           Tells(id, renewed, recs)
    PROVE  Tells([k \in Keys |-> IF k \in renewed THEN 0 ELSE id[k]], {}, recs)
<1> DEFINE new == [k \in Keys |-> IF k \in renewed THEN 0 ELSE id[k]]
<1>1. \A i \in DOMAIN recs : recs[i].key \in Keys /\ recs[i].age \in 0 .. Expired
  <2>1. \A i \in DOMAIN recs : recs[i] \in Record
    OBVIOUS
  <2> QED BY <2>1 DEF Record
<1>2. Keeps(new, recs)
  <2> SUFFICES ASSUME NEW k \in Keys, new[k] # Never
      PROVE  \E i \in DOMAIN recs : recs[i].key = k /\ recs[i].age <= new[k]
    BY DEF Keeps
  <2>1. CASE k \in renewed
    BY <2>1 DEF Tells
  <2>2. CASE k \notin renewed
    BY <2>2 DEF Tells, Keeps
  <2> QED BY <2>1, <2>2
<1>3. ASSUME NEW i \in DOMAIN recs, recs[i].age < Expired
      PROVE  new[recs[i].key] # Never /\ new[recs[i].key] <= recs[i].age
  <2>1. recs[i].key \in Keys /\ recs[i].age >= 0
    BY <1>1 DEF Expired
  <2>2. CASE recs[i].key \in renewed
    BY <2>1, <2>2 DEF Never
  <2>3. CASE recs[i].key \notin renewed
    BY <1>3, <2>1, <2>3 DEF Tells
  <2> QED BY <2>2, <2>3
<1> HIDE DEF new
<1>4. Tells(new, {}, recs)
  BY <1>2, <1>3 DEF Tells
<1> QED BY <1>4 DEF new

LEMMA AgeOf ==
    ASSUME NEW recs \in Seq(Record), NEW i \in DOMAIN recs
    PROVE  /\ DOMAIN Older(recs) = DOMAIN recs
           /\ Older(recs)[i].key = recs[i].key /\ Older(recs)[i].who = recs[i].who
           /\ Older(recs)[i].age = IF recs[i].age = Expired THEN Expired ELSE recs[i].age + 1
           /\ recs[i].age \in 0 .. Expired /\ recs[i].key \in Keys
<1>1. recs[i] \in Record
  OBVIOUS
<1>2. Older(recs)[i] = [recs[i] EXCEPT !.age = IF @ = Expired THEN @ ELSE @ + 1]
  BY DEF Older
<1>3. DOMAIN Older(recs) = DOMAIN recs
  BY DEF Older
<1> QED BY <1>1, <1>2, <1>3 DEF Record

\* Half of the timeout later.
Grown(id) == [k \in Keys |-> IF id[k] \in {Never, Expired - 1} THEN Never ELSE id[k] + 1]

LEMMA Aged ==
    ASSUME NEW id \in Ages, NEW recs \in Seq(Record)
    PROVE  /\ OneEach(recs) => OneEach(Older(recs))
           /\ Keeps(id, recs) => Keeps(Grown(id), Older(recs))
           /\ Tells(id, {}, recs) => Tells(Grown(id), {}, Older(recs))
<1>0. DOMAIN Older(recs) = DOMAIN recs
  BY DEF Older
<1>1. ASSUME OneEach(recs) PROVE OneEach(Older(recs))
  BY <1>0, <1>1, AgeOf DEF OneEach
<1>2. ASSUME Keeps(id, recs) PROVE Keeps(Grown(id), Older(recs))
  <2> SUFFICES ASSUME NEW k \in Keys, Grown(id)[k] # Never
      PROVE  \E i \in DOMAIN Older(recs) : Older(recs)[i].key = k /\ Older(recs)[i].age <= Grown(id)[k]
    BY DEF Keeps
  <2>1. id[k] = 0 /\ Grown(id)[k] = 1
    BY DEF Grown, Ages, Never, Expired
  <2>2. PICK i \in DOMAIN recs : recs[i].key = k /\ recs[i].age <= id[k]
    BY <1>2, <2>1 DEF Keeps, Never
  <2>3. recs[i].age = 0
    BY <2>1, <2>2, AgeOf DEF Expired
  <2>4. Older(recs)[i].key = k /\ Older(recs)[i].age = 1
    BY <2>2, <2>3, AgeOf DEF Expired
  <2> QED BY <1>0, <2>1, <2>4
<1>3. ASSUME Tells(id, {}, recs) PROVE Tells(Grown(id), {}, Older(recs))
  <2>1. ASSUME NEW i \in DOMAIN recs, Older(recs)[i].age < Expired
        PROVE  /\ Grown(id)[Older(recs)[i].key] # Never
               /\ Grown(id)[Older(recs)[i].key] <= Older(recs)[i].age
    <3>1. recs[i].age = 0 /\ recs[i].key \in Keys
      BY <2>1, AgeOf DEF Expired
    <3>2. Older(recs)[i].key = recs[i].key /\ Older(recs)[i].age = 1
      BY <3>1, AgeOf DEF Expired
    <3>3. id[recs[i].key] # Never /\ id[recs[i].key] <= 0
      BY <1>3, <3>1 DEF Tells, Expired
    <3>4. id[recs[i].key] = 0
      BY <3>1, <3>3 DEF Ages, Never, Expired
    <3>5. Grown(id)[recs[i].key] = 1
      BY <3>1, <3>4 DEF Grown, Never, Expired
    <3> QED BY <3>2, <3>5 DEF Never
  <2>2. OneEach(Older(recs)) /\ Keeps(Grown(id), Older(recs))
    BY <1>1, <1>2, <1>3 DEF Tells
  <2> QED BY <1>0, <2>1, <2>2 DEF Tells
<1> QED BY <1>1, <1>2, <1>3

-----------------------------------------------------------------------------
\* The session that the request is for is among those that are copied.
Asked == \E i \in DOMAIN Lasting : Lasting[i].key = key[Worker]

\* The copy of authorized, and its answer.
LEMMA WorkerCopies ==
    ASSUME Typed, Tells(idle, {}, sess), key[Worker] \in Keys
    PROVE  /\ Tells(idle, IF Asked /\ update THEN {key[Worker]} ELSE {}, Updated)
           /\ Asked <=> idle[key[Worker]] # Never
<1> DEFINE renewed == IF Asked /\ update THEN {key[Worker]} ELSE {}
<1>0. /\ sess \in Seq(Record) /\ idle \in Ages
      /\ Lasting \in Seq(Record) /\ Updated \in Seq(Record)
      /\ DOMAIN Updated = DOMAIN Lasting
  <2>1. DOMAIN Updated = DOMAIN Lasting
    BY DEF Updated
  <2> QED BY <2>1, UpdatedType, Zenon DEF Typed, FilesOK, AnswersOK, Ages
<1>1. /\ \A i \in DOMAIN sess : sess[i] \in Record
      /\ \A i \in DOMAIN Lasting : Lasting[i] \in Record
      /\ DOMAIN sess = 1 .. Len(sess)
  BY <1>0
<1>2. /\ \A a \in DOMAIN Lasting : Valid(Lasting[a]) /\ \E j \in DOMAIN sess : Lasting[a] = sess[j]
      /\ \A j \in DOMAIN sess : Valid(sess[j]) => \E a \in DOMAIN Lasting : Lasting[a] = sess[j]
      /\ OneEach(Lasting)
  BY <1>0, <1>1, LastingKept, Zenon DEF Kept, Tells
<1>3. \A a \in DOMAIN Lasting : /\ idle[Lasting[a].key] # Never
                                /\ idle[Lasting[a].key] <= Lasting[a].age
  BY <1>2 DEF Valid, Tells
<1>4. ASSUME NEW k \in Keys, idle[k] # Never
      PROVE  \E a \in DOMAIN Lasting : Lasting[a].key = k /\ Lasting[a].age <= idle[k]
  <2>1. PICK i \in DOMAIN sess : sess[i].key = k /\ sess[i].age <= idle[k]
    BY <1>4 DEF Tells, Keeps
  <2>2. idle[k] < Expired /\ sess[i].age \in 0 .. Expired /\ idle[k] \in Int
    BY <1>0, <1>1 DEF Ages, Record, Never, Expired
  <2>3. Valid(sess[i])
    BY <2>1, <2>2 DEF Valid, Expired
  <2> QED BY <1>2, <2>1, <2>3
<1>5. \A a \in DOMAIN Lasting :
          /\ Updated[a].key = Lasting[a].key /\ Updated[a].who = Lasting[a].who
          /\ Updated[a].age = IF update /\ Lasting[a].key = key[Worker] THEN 0 ELSE Lasting[a].age
          /\ Lasting[a].age \in 0 .. Expired
  <2> TAKE a \in DOMAIN Lasting
  <2>1. Updated[a] = IF update /\ Lasting[a].key = key[Worker] THEN Fresh(Lasting[a]) ELSE Lasting[a]
    BY DEF Updated
  <2>2. Lasting[a] \in Record
    BY <1>1
  <2>3. Lasting[a].age \in 0 .. Expired
    BY <2>2 DEF Record
  <2> QED BY <2>1, <2>2, <2>3, FreshType
<1>6. Asked <=> idle[key[Worker]] # Never
  BY <1>3, <1>4 DEF Asked
<1>7. OneEach(Updated)
  BY <1>0, <1>2, <1>5 DEF OneEach
<1>8. Keeps(idle, Updated)
  <2> SUFFICES ASSUME NEW k \in Keys, idle[k] # Never
      PROVE  \E i \in DOMAIN Updated : Updated[i].key = k /\ Updated[i].age <= idle[k]
    BY DEF Keeps
  <2>1. PICK a \in DOMAIN Lasting : Lasting[a].key = k /\ Lasting[a].age <= idle[k]
    BY <1>4
  <2>2. idle[k] \in Int /\ idle[k] >= 0
    BY <1>0 DEF Ages, Never, Expired
  <2>3. Updated[a].key = k /\ Updated[a].age <= idle[k]
    BY <1>5, <2>1, <2>2
  <2> QED BY <1>0, <2>3
<1>9. \A k \in renewed : \E i \in DOMAIN Updated : Updated[i].key = k /\ Updated[i].age = 0
  <2> SUFFICES ASSUME Asked, update
      PROVE  \E i \in DOMAIN Updated : Updated[i].key = key[Worker] /\ Updated[i].age = 0
    OBVIOUS
  <2>1. PICK a \in DOMAIN Lasting : Lasting[a].key = key[Worker]
    BY DEF Asked
  <2> QED BY <1>0, <1>5, <2>1
<1>10. \A i \in DOMAIN Updated : Updated[i].age < Expired =>
          \/ Updated[i].key \in renewed
          \/ idle[Updated[i].key] # Never /\ idle[Updated[i].key] <= Updated[i].age
  <2> SUFFICES ASSUME NEW a \in DOMAIN Lasting
      PROVE  \/ Updated[a].key \in renewed
             \/ idle[Updated[a].key] # Never /\ idle[Updated[a].key] <= Updated[a].age
    BY <1>0
  <2>1. CASE update /\ Lasting[a].key = key[Worker]
    <3>1. Asked
      BY <2>1 DEF Asked
    <3> QED BY <1>5, <2>1, <3>1
  <2>2. CASE ~(update /\ Lasting[a].key = key[Worker])
    BY <1>3, <1>5, <2>2
  <2> QED BY <2>1, <2>2
<1> HIDE DEF renewed
<1>11. Tells(idle, renewed, Updated)
  BY <1>7, <1>8, <1>9, <1>10 DEF Tells
<1> QED BY <1>6, <1>11 DEF renewed

\* What get_key writes when it finds a session of w.
Found(w) ==
    [i \in DOMAIN sess |-> IF i \in SessionOf(w) THEN Fresh(sess[i]) ELSE sess[i]]

\* A session that is found is the only one of its user.
LEMMA LoginFinds ==
    ASSUME Typed, Tells(idle, {}, sess), NEW w \in People, SessionOf(w) # {}
    PROVE  Tells(idle, {sess[Max(SessionOf(w))].key}, Found(w))
<1> DEFINE recs == Found(w)
           m == Max(SessionOf(w))
<1>0. /\ sess \in Seq(Record) /\ idle \in Ages
      /\ DOMAIN sess = 1 .. Len(sess) /\ Len(sess) \in Nat
      /\ \A i \in DOMAIN sess : sess[i] \in Record
      /\ DOMAIN recs = DOMAIN sess
  BY DEF Typed, FilesOK, AnswersOK, Ages, Found
<1>1. m \in SessionOf(w)
  <2>1. SessionOf(w) \in SUBSET (1 .. Len(sess))
    BY <1>0 DEF SessionOf
  <2> QED BY <1>0, <2>1, MaxOf, Zenon
<1> HIDE DEF m
<1>2. m \in DOMAIN sess /\ \A i \in DOMAIN sess : i \in SessionOf(w) <=> i = m
  BY <1>1 DEF SessionOf, Tells, OneEach
<1>3. \A i \in DOMAIN sess :
          /\ recs[i].key = sess[i].key /\ recs[i].who = sess[i].who
          /\ recs[i].age = IF i = m THEN 0 ELSE sess[i].age
          /\ sess[i].age \in 0 .. Expired
  <2> TAKE i \in DOMAIN sess
  <2>1. recs[i] = IF i = m THEN Fresh(sess[i]) ELSE sess[i]
    BY <1>2 DEF Found
  <2>2. sess[i] \in Record
    BY <1>0
  <2>3. sess[i].age \in 0 .. Expired
    BY <2>2 DEF Record
  <2> QED BY <2>1, <2>2, <2>3, FreshType
<1> HIDE DEF recs
<1>4. OneEach(recs)
  BY <1>0, <1>3 DEF Tells, OneEach
<1>5. Keeps(idle, recs)
  <2> SUFFICES ASSUME NEW k \in Keys, idle[k] # Never
      PROVE  \E i \in DOMAIN recs : recs[i].key = k /\ recs[i].age <= idle[k]
    BY DEF Keeps
  <2>1. PICK i \in DOMAIN sess : sess[i].key = k /\ sess[i].age <= idle[k]
    BY DEF Tells, Keeps
  <2>2. idle[k] \in Int /\ idle[k] >= 0
    BY <1>0 DEF Ages, Never, Expired
  <2>3. recs[i].key = k /\ recs[i].age <= idle[k]
    BY <1>3, <2>1, <2>2
  <2> QED BY <1>0, <2>3
<1>6. recs[m].key = sess[m].key /\ recs[m].age = 0
  BY <1>2, <1>3
<1>7. \A i \in DOMAIN recs : recs[i].age < Expired =>
          \/ recs[i].key \in {sess[m].key}
          \/ idle[recs[i].key] # Never /\ idle[recs[i].key] <= recs[i].age
  BY <1>0, <1>3 DEF Tells
<1>8. Tells(idle, {sess[m].key}, recs)
  BY <1>0, <1>2, <1>4, <1>5, <1>6, <1>7 DEF Tells
<1> QED BY <1>8 DEF m, recs

LEMMA LoginAdds ==
    ASSUME Typed, Tells(idle, {}, sess), NEW w \in People, NEW k \in Keys, SessionOf(w) = {}
    PROVE  Tells(idle, {k}, Append(sess, [key |-> k, who |-> w, age |-> 0]))
<1> DEFINE r == [key |-> k, who |-> w, age |-> 0]
           recs == Append(sess, r)
           n == Len(sess) + 1
<1>0. /\ sess \in Seq(Record) /\ idle \in Ages
      /\ DOMAIN sess = 1 .. Len(sess) /\ Len(sess) \in Nat
  BY DEF Typed, FilesOK, AnswersOK, Ages
<1>1. r \in Record /\ r.key = k /\ r.who = w /\ r.age = 0
  BY DEF Record, Expired
<1> HIDE DEF r
<1>2. /\ n \in DOMAIN recs /\ recs[n] = r
      /\ \A i \in DOMAIN sess : i \in DOMAIN recs /\ recs[i] = sess[i]
      /\ \A i \in DOMAIN recs : i \in DOMAIN sess \/ i = n
  BY <1>0, <1>1
<1> HIDE DEF recs, n
<1>3. \A i \in DOMAIN sess : sess[i].who # w
  BY DEF SessionOf
<1>4. OneEach(recs)
  BY <1>1, <1>2, <1>3 DEF Tells, OneEach
<1>5. Keeps(idle, recs)
  BY <1>2 DEF Tells, Keeps
<1>6. \A i \in DOMAIN recs : recs[i].age < Expired =>
          \/ recs[i].key \in {k}
          \/ idle[recs[i].key] # Never /\ idle[recs[i].key] <= recs[i].age
  BY <1>1, <1>2 DEF Tells
<1>7. Tells(idle, {k}, recs)
  BY <1>1, <1>2, <1>4, <1>5, <1>6 DEF Tells
<1> QED BY <1>7 DEF recs, r

-----------------------------------------------------------------------------

LEMMA SessInit == Init => SessInv
<1> SUFFICES ASSUME Init PROVE SessInv
  OBVIOUS
<1>1. sess = <<>> /\ tmp = <<>> /\ idle = [k \in Keys |-> Never] /\ \A p \in Procs : ~Holding(p)
  BY DEF Init, Holding
<1>2. OneEach(sess) /\ Keeps(idle, sess)
  BY <1>1 DEF OneEach, Keeps
<1>3. Tells(idle, {}, sess)
  BY <1>1, <1>2 DEF Tells
<1> QED BY <1>1, <1>2, <1>3 DEF SessInv

\* A step of the holder within the lock.
LEMMA HolderMoves ==
    ASSUME LockInv', NEW p \in Procs, Holding(p)', HolderOK(p)',
           OneEach(sess)', Keeps(idle, sess)'
    PROVE  SessInv'
<1>1. orderly' => locked' /\ \A q \in Procs : Holding(q)' => q = p
  BY DEF LockInv
<1> QED BY <1>1 DEF SessInv

\* What is known of the holder is still known while nobody touches the files.
LEMMA HolderSame ==
    ASSUME NEW p \in Procs, HolderOK(p), UNCHANGED <<names, sess, tmp, idle>>,
           pc'[p] = pc[p], key'[p] = key[p], out'[p] = out[p], buf'[p] = buf[p],
           p \in Logins \/ (found' = found /\ update' = update),
           p = Worker => found' = found
    PROVE  HolderOK(p)'
<1>1. Renewed(p)' = Renewed(p)
  <2>1. CASE p \in Logins
    BY <2>1 DEF Renewed
  <2>2. CASE p \notin Logins
    BY <2>2 DEF Renewed
  <2> QED BY <2>1, <2>2
<1>2. Tells(idle', Renewed(p)', buf'[p]) <=> Tells(idle, Renewed(p), buf[p])
  BY <1>1
<1>3. Tells(idle', Renewed(p)', tmp') <=> Tells(idle, Renewed(p), tmp)
  BY <1>1
<1>4. Tells(idle', Renewed(p)', sess') <=> Tells(idle, Renewed(p), sess)
  BY <1>1
<1>5. pc'[p] # "rename" => tmp' = <<>>
  BY DEF HolderOK
<1>6. pc'[p] = "copy" => Tells(idle', {}, sess')
  BY DEF HolderOK
<1>7. pc'[p] = "close" => out'[p] = "tmp" /\ Tells(idle', Renewed(p)', buf'[p])
  BY <1>2 DEF HolderOK
<1>8. pc'[p] = "rename" => "session_tmp" \in names' /\ Tells(idle', Renewed(p)', tmp')
  BY <1>3 DEF HolderOK
<1>9. pc'[p] \in {"remove", "unlock"} => Tells(idle', Renewed(p)', sess')
  BY <1>4 DEF HolderOK
<1>10. p = Worker /\ pc'[p] # "copy" => (found' <=> idle'[key'[p]] # Never)
  BY DEF HolderOK
<1> QED
  BY <1>5, <1>6, <1>7, <1>8, <1>9, <1>10, Zenon DEF HolderOK

\* A step of a process that does not hold the lock, or no longer.
LEMMA OutsideStep ==
    ASSUME SessInv, UNCHANGED <<names, sess, tmp, idle>>, orderly' => orderly,
           \A p \in Procs : Holding(p)' =>
              /\ Holding(p) /\ pc'[p] = pc[p] /\ key'[p] = key[p]
              /\ out'[p] = out[p] /\ buf'[p] = buf[p]
              /\ p = Worker => UNCHANGED <<found, update>>,
           Worker \notin Logins
    PROVE  SessInv'
<1> SUFFICES ASSUME orderly'
    PROVE  /\ OneEach(sess') /\ Keeps(idle', sess')
           /\ ~locked' => tmp' = <<>> /\ Tells(idle', {}, sess')
           /\ \A p \in Procs : Holding(p)' => HolderOK(p)'
  BY DEF SessInv
<1>1. locked' = locked
  BY DEF locked
<1>2. ASSUME NEW p \in Procs, Holding(p)' PROVE HolderOK(p)'
  <2>1. HolderOK(p)
    BY <1>2, Zenon DEF SessInv
  <2>2. /\ pc'[p] = pc[p] /\ key'[p] = key[p] /\ out'[p] = out[p] /\ buf'[p] = buf[p]
        /\ p \in Logins \/ (found' = found /\ update' = update)
        /\ p = Worker => found' = found
    BY <1>2, Zenon DEF Procs
  <2> QED BY <2>1, <2>2, HolderSame
<1> QED BY <1>1, <1>2, Zenon DEF SessInv

LEMMA SessProc ==
    ASSUME Typed, LockInv, LockInv', SessInv, NEW p \in Procs, ProcStep(p)
    PROVE  SessInv'
<1> SUFFICES ASSUME orderly' PROVE SessInv'
  BY DEF SessInv
<1>a. FilesOK /\ ProcsOK /\ AnswersOK
  BY DEF Typed
<1>b. ASSUME Holding(p), orderly
      PROVE  OneEach(sess) /\ Keeps(idle, sess) /\ HolderOK(p)
  BY <1>b DEF SessInv
<1>1. CASE AcquireLock(p)
  <2>1. /\ ~locked /\ pc'[p] = "copy"
        /\ UNCHANGED <<sess, tmp, idle, orderly>>
    BY <1>1, <1>a, Zenon DEF AcquireLock, GoTo, ProcsOK
  <2>2. OneEach(sess) /\ Keeps(idle, sess) /\ tmp = <<>> /\ Tells(idle, {}, sess)
    BY <2>1 DEF SessInv
  <2>3. Holding(p)' /\ HolderOK(p)'
    BY <2>1, <2>2, Zenon DEF Holding, HolderOK
  <2>4. OneEach(sess)' /\ Keeps(idle, sess)'
    BY <2>1, <2>2
  <2> QED BY <2>3, <2>4, HolderMoves
<1>2. CASE GiveUp(p)
  BY <1>2 DEF GiveUp
<1>3. CASE p = Worker /\ Copy
  <2>1. /\ pc[Worker] = "copy" /\ names' = names \cup {"session_tmp"} /\ tmp' = <<>>
        /\ UNCHANGED <<sess, key, who, update, idle>>
    BY <1>3 DEF Copy, OpenTmp
  <2>2. /\ orderly
        /\ ToWrite(Worker, Updated)
        /\ found' = (\E i \in DOMAIN Lasting : Lasting[i].key = key[Worker])
    <3>1. orderly' \in BOOLEAN
      BY <1>3, CopyWrites, Zenon
    <3>2. orderly' = TRUE
      BY <3>1, Zenon
    <3> QED BY <1>3, <3>2, CopyWrites, Zenon
  <2>3. Holding(p)
    BY <1>3, <2>1 DEF Holding
  <2>4. OneEach(sess) /\ Keeps(idle, sess) /\ Tells(idle, {}, sess)
    BY <1>3, <2>1, <2>2, <2>3, <1>b, Zenon DEF HolderOK
  <2>5. key[Worker] \in Keys
    BY <1>a, <2>1, ProcKinds, Zenon DEF ProcsOK
  <2>6. found' <=> Asked
    BY <2>2 DEF Asked
  <2>7. Renewed(p)' = IF Asked /\ update THEN {key[Worker]} ELSE {}
    BY <1>3, <2>1, <2>6, ProcKinds DEF Renewed
  <2>8. pc'[p] = "close" /\ out'[p] = "tmp" /\ buf'[p] = Updated
    BY <1>3, <1>a, <2>2, ProcKinds DEF ToWrite, GoTo, ProcsOK
  <2>9. /\ Tells(idle, Renewed(p)', Updated)
        /\ Asked <=> idle[key[Worker]] # Never
    BY <2>4, <2>5, <2>7, WorkerCopies
  <2>10. Holding(p)' /\ HolderOK(p)'
    BY <1>3, <2>1, <2>6, <2>8, <2>9, Zenon DEF Holding, HolderOK
  <2>11. OneEach(sess)' /\ Keeps(idle, sess)'
    BY <2>1, <2>4
  <2> QED BY <2>10, <2>11, HolderMoves
<1>4. CASE p = Worker /\ NoStatus
  <2>0. pc[Worker] # "nolock" /\ orderly
    BY <1>4 DEF NoStatus, LockInv
  <2>1. /\ pc[Worker] = "copy" /\ "session" \notin names /\ tmp' = <<>>
        /\ UNCHANGED <<sess, key, who, update, found, idle, orderly>>
        /\ ToWrite(Worker, <<>>)
    BY <1>4, <2>0 DEF NoStatus, OpenTmp
  <2>2. Holding(p) /\ sess = <<>> /\ found = FALSE
    BY <1>4, <2>1, <1>a DEF Holding, FilesOK, AnswersOK
  <2>3. OneEach(sess) /\ Keeps(idle, sess) /\ Tells(idle, {}, <<>>)
    BY <1>4, <2>0, <2>1, <2>2, <1>b, Zenon DEF HolderOK
  <2>4. key[Worker] \in Keys
    BY <1>a, <2>1, ProcKinds, Zenon DEF ProcsOK
  <2>5. idle[key[Worker]] = Never
    BY <2>2, <2>3, <2>4 DEF Keeps
  <2>6. Renewed(p)' = {}
    BY <1>4, <2>1, <2>2, ProcKinds, Zenon DEF Renewed
  <2>7. pc'[p] = "close" /\ out'[p] = "tmp" /\ buf'[p] = <<>>
    BY <1>4, <1>a, <2>1, ProcKinds DEF ToWrite, GoTo, ProcsOK
  <2>8. Holding(p)' /\ HolderOK(p)'
    BY <1>4, <2>1, <2>2, <2>3, <2>5, <2>6, <2>7 DEF Holding, HolderOK
  <2>9. OneEach(sess)' /\ Keeps(idle, sess)'
    BY <2>1, <2>3
  <2> QED BY <2>8, <2>9, HolderMoves
<1>5. CASE CopyKey(p)
  <2>1. pc[p] = "copy" /\ p \in Logins /\ UNCHANGED <<sess, idle>>
    BY <1>5 DEF CopyKey
  <2> DEFINE w == who[p]
             mine == SessionOf(w)
  <2>2. \/ /\ mine # {}
           /\ ToWrite(p, Found(w))
           /\ key' = [key EXCEPT ![p] = sess[Max(mine)].key]
           /\ UNCHANGED <<tmp, orderly>>
        \/ /\ mine = {}
           /\ ToWrite(p, Append(sess, [key |-> key[p], who |-> w, age |-> 0]))
           /\ UNCHANGED <<tmp, key, orderly>>
    BY <1>5, Zenon DEF CopyKey, Found
  <2>3. orderly /\ UNCHANGED tmp
    BY <2>2, Zenon
  <2>4. OneEach(sess) /\ Keeps(idle, sess) /\ Tells(idle, {}, sess) /\ tmp = <<>>
    BY <2>1, <2>3, <1>b, Zenon DEF Holding, HolderOK
  <2>5. w \in People /\ key[p] \in Keys /\ p # Worker
    BY <1>a, <2>1, ProcKinds DEF ProcsOK
  <2>6. Renewed(p)' = {key'[p]}
    BY <2>1 DEF Renewed
  <2> HIDE DEF w
  <2>7. Tells(idle, {key'[p]}, buf'[p])
    <3>1. CASE /\ mine # {}
               /\ ToWrite(p, Found(w))
               /\ key' = [key EXCEPT ![p] = sess[Max(mine)].key]
      <4>1. key'[p] = sess[Max(SessionOf(w))].key /\ buf'[p] = Found(w)
        BY <1>a, <3>1 DEF ToWrite, ProcsOK
      <4> QED BY <2>4, <2>5, <3>1, <4>1, LoginFinds
    <3>2. CASE /\ mine = {}
               /\ ToWrite(p, Append(sess, [key |-> key[p], who |-> w, age |-> 0]))
               /\ UNCHANGED key
      <4>1. key'[p] = key[p] /\ buf'[p] = Append(sess, [key |-> key[p], who |-> w, age |-> 0])
        BY <1>a, <3>2 DEF ToWrite, ProcsOK
      <4> QED BY <2>4, <2>5, <3>2, <4>1, LoginAdds, Zenon
    <3> QED BY <2>2, <3>1, <3>2, Zenon
  <2>8. pc'[p] = "close" /\ out'[p] = "tmp"
    BY <2>2, <1>a DEF ToWrite, GoTo, ProcsOK
  <2>9. Holding(p)' /\ HolderOK(p)'
    BY <2>1, <2>3, <2>4, <2>5, <2>6, <2>7, <2>8, Zenon DEF Holding, HolderOK
  <2>10. OneEach(sess)' /\ Keeps(idle, sess)'
    BY <2>1, <2>4
  <2> QED BY <2>9, <2>10, HolderMoves
<1>6. CASE CloseTmp(p)
  <2>1. /\ pc[p] = "close" /\ pc' = [pc EXCEPT ![p] = "rename"]
        /\ tmp' = IF out[p] = "tmp" THEN Overwrite(tmp, buf[p]) ELSE tmp
        /\ sess' = IF out[p] = "sess" THEN Overwrite(sess, buf[p]) ELSE sess
        /\ UNCHANGED <<names, key, update, found, idle, orderly>>
    BY <1>6, Zenon DEF CloseTmp, GoTo
  <2>2. /\ OneEach(sess) /\ Keeps(idle, sess) /\ tmp = <<>> /\ out[p] = "tmp"
        /\ Tells(idle, Renewed(p), buf[p])
        /\ p = Worker => (found <=> idle[key[p]] # Never)
    BY <2>1, <1>b, Zenon DEF Holding, HolderOK
  <2>3. buf[p] \in Seq(Record) /\ "session_tmp" \in names
    BY <1>a, <2>2 DEF ProcsOK, FilesOK
  <2>4. tmp' = buf[p] /\ sess' = sess
    BY <2>1, <2>2, <2>3, WrittenWhole, Zenon
  <2>5. Renewed(p)' = Renewed(p)
    BY <2>1 DEF Renewed
  <2>6. pc'[p] = "rename"
    BY <1>a, <2>1 DEF ProcsOK
  <2>7. Holding(p)' /\ HolderOK(p)'
    BY <2>1, <2>2, <2>3, <2>4, <2>5, <2>6, Zenon DEF Holding, HolderOK
  <2>8. OneEach(sess)' /\ Keeps(idle, sess)'
    BY <2>1, <2>2, <2>4, Zenon
  <2> QED BY <2>7, <2>8, HolderMoves
<1>7. CASE Rename(p)
  <2>1. /\ pc[p] = "rename"
        /\ pc' = [pc EXCEPT ![p] = IF p = Worker THEN "unlock" ELSE "remove"]
        /\ UNCHANGED <<key, update, found, idle, orderly>>
    BY <1>7, Zenon DEF Rename, GoTo
  <2>2. /\ "session_tmp" \in names /\ Tells(idle, Renewed(p), tmp)
        /\ p = Worker => (found <=> idle[key[p]] # Never)
    BY <2>1, <1>b, Zenon DEF Holding, HolderOK
  <2>3. sess' = tmp /\ tmp' = <<>>
    BY <1>7, <2>2 DEF Rename
  <2>4. pc'[p] \in {"unlock", "remove"}
    BY <1>a, <2>1 DEF ProcsOK
  <2>5. Renewed(p)' = Renewed(p)
    BY <2>1 DEF Renewed
  <2>6. Holding(p)' /\ HolderOK(p)'
    BY <2>1, <2>2, <2>3, <2>4, <2>5 DEF Holding, HolderOK
  <2>7. OneEach(sess)' /\ Keeps(idle, sess)'
    BY <2>1, <2>2, <2>3, Zenon DEF Tells
  <2> QED BY <2>6, <2>7, HolderMoves
<1>8. CASE RemoveTmp(p)
  <2>1. /\ pc[p] = "remove" /\ pc' = [pc EXCEPT ![p] = "unlock"] /\ tmp' = <<>>
        /\ UNCHANGED <<sess, key, update, found, idle, orderly>>
    BY <1>8, Zenon DEF RemoveTmp, GoTo
  <2>2. /\ OneEach(sess) /\ Keeps(idle, sess) /\ Tells(idle, Renewed(p), sess)
        /\ p # Worker
    BY <2>1, <1>a, <1>b DEF Holding, HolderOK, ProcsOK
  <2>3. Renewed(p)' = Renewed(p) /\ pc'[p] = "unlock"
    BY <1>a, <2>1 DEF Renewed, ProcsOK
  <2>4. Holding(p)' /\ HolderOK(p)'
    BY <2>1, <2>2, <2>3, Zenon DEF Holding, HolderOK
  <2>5. OneEach(sess)' /\ Keeps(idle, sess)'
    BY <2>1, <2>2
  <2> QED BY <2>4, <2>5, HolderMoves
<1>9. CASE Unlock(p)
  <2>1. /\ pc[p] = "unlock" /\ pc' = [pc EXCEPT ![p] = "idle"]
        /\ UNCHANGED <<sess, tmp, orderly>>
        /\ idle' = IF p \in Logins \/ (found /\ update)
                   THEN [idle EXCEPT ![key[p]] = 0]
                   ELSE idle
    BY <1>9, Zenon DEF Unlock, Leave, GoTo
  <2>2. Tells(idle, Renewed(p), sess) /\ tmp = <<>>
    BY <2>1, <1>b DEF Holding, HolderOK
  <2>3. key[p] \in Keys /\ idle \in Ages /\ sess \in Seq(Record)
    BY <1>a, <2>1 DEF ProcsOK, AnswersOK, FilesOK, Ages
  <2>4. Renewed(p) \in SUBSET Keys
    BY <2>3 DEF Renewed
  <2>5. idle' = [k \in Keys |-> IF k \in Renewed(p) THEN 0 ELSE idle[k]]
    BY <2>1, <2>3, Zenon DEF Renewed, Ages
  <2>6. Tells(idle', {}, sess')
    BY <2>1, <2>2, <2>3, <2>4, <2>5, Renewal
  <2>7. \A q \in Procs : ~Holding(q)'
    <3>1. \A q \in Procs : q # p => ~Holding(q)
      BY <2>1 DEF LockInv, Holding
    <3>2. \A q \in Procs : pc'[q] = IF q = p THEN "idle" ELSE pc[q]
      BY <1>a, <2>1 DEF ProcsOK
    <3> QED BY <3>1, <3>2 DEF Holding
  <2>8. OneEach(sess') /\ Keeps(idle', sess')
    BY <2>6 DEF Tells
  <2> QED BY <2>1, <2>2, <2>6, <2>7, <2>8 DEF SessInv
<1> QED BY <1>1, <1>2, <1>3, <1>4, <1>5, <1>6, <1>7, <1>8, <1>9 DEF ProcStep

LEMMA SessStep == Typed /\ LockInv /\ LockInv' /\ SessInv /\ [Next]_vars => SessInv'
<1> SUFFICES ASSUME Typed, LockInv, LockInv', SessInv, [Next]_vars PROVE SessInv'
  OBVIOUS
<1>a. FilesOK /\ ProcsOK /\ AnswersOK /\ Worker \notin Logins
  BY SessionLockAssumption DEF Typed
<1>1. CASE \E p \in Procs : ProcStep(p)
  BY <1>1, SessProc
<1>2. CASE \E k \in Keys, u \in BOOLEAN : Request(k, u)
  <2>1. PICK k \in Keys, u \in BOOLEAN : Request(k, u)
    BY <1>2
  <2>2. /\ pc' = [pc EXCEPT ![Worker] = "lock"]
        /\ key' = [key EXCEPT ![Worker] = k]
        /\ UNCHANGED <<names, sess, tmp, out, buf, idle, orderly>>
    BY <2>1 DEF Request, GoTo, fileVars
  <2>3. \A q \in Procs : Holding(q)' => /\ q # Worker /\ Holding(q)
                                        /\ pc'[q] = pc[q] /\ key'[q] = key[q]
    BY <1>a, <2>2 DEF ProcsOK, Holding
  <2> QED BY <1>a, <2>2, <2>3, OutsideStep, Zenon
<1>3. CASE \E p \in Logins, w \in People, k \in Keys : Login(p, w, k)
  <2>1. PICK p \in Logins, w \in People, k \in Keys : Login(p, w, k)
    BY <1>3
  <2>2. /\ pc' = [pc EXCEPT ![p] = "lock"]
        /\ key' = [key EXCEPT ![p] = k]
        /\ UNCHANGED <<names, sess, tmp, out, buf, update, found, idle, orderly>>
    BY <2>1 DEF Login, GoTo, fileVars
  <2>3. \A q \in Procs : Holding(q)' => /\ Holding(q)
                                        /\ pc'[q] = pc[q] /\ key'[q] = key[q]
    BY <1>a, <2>2 DEF ProcsOK, Holding
  <2> QED BY <1>a, <2>2, <2>3, OutsideStep
<1>4. CASE StopWorker
  <2>1. /\ pc' = [pc EXCEPT ![Worker] = "down"]
        /\ key' = [key EXCEPT ![Worker] = None]
        /\ out' = [out EXCEPT ![Worker] = None]
        /\ buf' = [buf EXCEPT ![Worker] = <<>>]
        /\ UNCHANGED <<names, sess, tmp, idle, orderly>>
    BY <1>4 DEF StopWorker, Leave, GoTo, fileVars
  <2>2. \A q \in Procs : Holding(q)' => /\ q # Worker /\ Holding(q)
                                        /\ pc'[q] = pc[q] /\ key'[q] = key[q]
                                        /\ out'[q] = out[q] /\ buf'[q] = buf[q]
    BY <1>a, <2>1 DEF ProcsOK, Holding
  <2> QED BY <1>a, <2>1, <2>2, OutsideStep
<1>5. CASE StartWorker
  <2>1. /\ pc' = [pc EXCEPT ![Worker] = "idle"]
        /\ sess' = <<>> /\ tmp' = <<>> /\ idle' = [k \in Keys |-> Never]
        /\ orderly' = (\A p \in Logins : pc[p] = "idle")
    BY <1>5 DEF StartWorker, GoTo
  <2>2. orderly' => \A q \in Procs : ~Holding(q)'
    BY <1>a, <2>1, Zenon DEF ProcsOK, Holding, Procs
  <2>3. OneEach(sess') /\ Keeps(idle', sess')
    BY <2>1 DEF OneEach, Keeps
  <2>4. Tells(idle', {}, sess')
    BY <2>1, <2>3, SMTT(30) DEF Tells
  <2> QED BY <2>1, <2>2, <2>3, <2>4, Zenon DEF SessInv
<1>6. CASE Later
  <2>1. /\ \A p \in Procs : pc[p] \in {"idle", "down"}
        /\ sess' = Older(sess) /\ tmp' = Older(tmp) /\ idle' = Grown(idle)
        /\ UNCHANGED <<names, pc, orderly>>
    BY <1>6 DEF Later, procVars, Grown
  <2>2. \A q \in Procs : ~Holding(q)'
    BY <2>1 DEF Holding
  <2>3. sess \in Seq(Record) /\ idle \in Ages
    BY <1>a DEF FilesOK, AnswersOK, Ages
  <2>4. Older(<<>>) = <<>> /\ locked' = locked
    BY <2>1 DEF Older, locked
  <2>5. /\ OneEach(sess) => OneEach(sess')
        /\ Keeps(idle, sess) => Keeps(idle', sess')
        /\ Tells(idle, {}, sess) => Tells(idle', {}, sess')
    BY <2>1, <2>3, Aged
  <2> QED BY <2>1, <2>2, <2>4, <2>5 DEF SessInv
<1>7. CASE UNCHANGED vars
  <2>1. UNCHANGED <<names, sess, tmp, pc, out, buf, key, update, found, idle, orderly>>
    BY <1>7 DEF vars, fileVars, procVars
  <2>2. \A q \in Procs : Holding(q)' => Holding(q)
    BY <2>1 DEF Holding
  <2> QED BY <1>a, <2>1, <2>2, OutsideStep, Zenon
<1> QED BY <1>1, <1>2, <1>3, <1>4, <1>5, <1>6, <1>7 DEF Next

LEMMA AlwaysTold == Spec => [](Typed /\ LockInv /\ SessInv)
<1>1. Init => Typed /\ LockInv /\ SessInv
  BY TypedInit, LockInit, SessInit
<1>2. Typed /\ LockInv /\ SessInv /\ [Next]_vars => (Typed /\ LockInv /\ SessInv)'
  BY TypedStep, LockStep, SessStep
<1> QED BY <1>1, <1>2, PTL DEF Spec

\* A session that a client was told of, or used, within the timeout is in the
\* session file (authsession.cc:218-244, SessionKey.pm:76-112), whichever way
\* requests, logins and restarts of the worker follow each other, until a process
\* runs out of attempts, a user is gone or a write fails.
THEOREM SessionsKept == Spec => []OrderlyKept
<1>1. SessInv => OrderlyKept
  BY DEF SessInv, OrderlyKept, SessionKept, Keeps, Range
<1> QED BY <1>1, AlwaysTold, PTL

\* authorized accepts a session key if and only if the session has not timed out
\* (authsession.cc:208-318), whatever logins did to the file since.
THEOREM AnswersAreRight == Spec => []AnswerRight
<1>1. Typed /\ SessInv => AnswerRight
  <2> SUFFICES ASSUME Typed, SessInv, orderly, pc[Worker] = "unlock"
      PROVE  found = (idle[key[Worker]] # Never)
    BY DEF AnswerRight
  <2>1. found <=> idle[key[Worker]] # Never
    BY ProcKinds DEF SessInv, HolderOK, Holding
  <2>2. found \in BOOLEAN
    BY DEF Typed, AnswersOK
  <2> QED BY <2>1, <2>2, Zenon
<1> QED BY <1>1, AlwaysTold, PTL

\* A user at an address never gets a second record (SessionKey.pm:90-112), by
\* logins at the same time or beside a request that rewrites the file.
THEOREM OneSessionPerUser == Spec => []OneSessionEach
<1>1. SessInv => OneSessionEach
  BY DEF SessInv, OneSessionEach, OneEach
<1> QED BY <1>1, AlwaysTold, PTL
=============================================================================
