------------------------------- MODULE ConfStore -------------------------------
(***************************************************************************)
(* What the /rest/conf resource promises its clients, whatever fails: a    *)
(* set of open configuration sessions, each with its owner and its pending *)
(* edits, beside the running configuration.                                *)
(***************************************************************************)
CONSTANTS Users, Ids, Values, Nobody, Closed

VARIABLES
    owner,     \* owner[i]; Nobody: anyone may use the session, Closed: none
    edits,     \* edits[i]: the values that session i adds and removes
    running,   \* the values that are in force
    by         \* whose request was served last; Nobody: configd restarted

vars == <<owner, edits, running, by>>

NoEdits == [add |-> {}, del |-> {}]

Edits == [add : SUBSET Values, del : SUBSET Values]

Applied(e, conf) == (conf \cup e.add) \ e.del

Owns(u, i) == owner[i] \in {u, Nobody}

Init ==
    /\ owner = [i \in Ids |-> Closed]
    /\ edits = [i \in Ids |-> NoEdits]
    /\ running \in SUBSET Values
    /\ by = Nobody

Open(u, i) ==
    /\ owner[i] = Closed
    /\ \E o \in {u, Nobody} : owner' = [owner EXCEPT ![i] = o]
    /\ UNCHANGED <<edits, running>>

\* Set, delete, load, merge and discard: the pending edits of one session.
Edit(u, i) ==
    /\ Owns(u, i)
    /\ \E e \in Edits : edits' = [edits EXCEPT ![i] = e]
    /\ UNCHANGED <<owner, running>>

\* A commit puts the edits of this session in force, and no others.
Commit(u, i) ==
    /\ Owns(u, i)
    /\ running' = Applied(edits[i], running)
    /\ edits' = [edits EXCEPT ![i] = NoEdits]
    /\ UNCHANGED owner

Close(u, i) ==
    /\ Owns(u, i)
    /\ owner' = [owner EXCEPT ![i] = Closed]
    /\ edits' = [edits EXCEPT ![i] = NoEdits]
    /\ UNCHANGED running

\* configd restarts: pending edits are gone, what was committed is not.
Forget ==
    /\ edits' = [i \in Ids |-> NoEdits]
    /\ UNCHANGED <<owner, running>>

\* A request that is refused, fails or only reads.
Nothing == UNCHANGED <<owner, edits, running>>

Next ==
    \/ \E u \in Users :
          /\ by' = u
          /\ \/ Nothing
             \/ \E i \in Ids : Open(u, i) \/ Edit(u, i) \/ Commit(u, i) \/ Close(u, i)
    \/ by' = Nobody /\ Forget

Spec == Init /\ [][Next]_vars
=============================================================================
