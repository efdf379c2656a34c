----------------------------- MODULE OutputStream -----------------------------
(***************************************************************************)
(* What operational mode promises to the client that posted a command: its *)
(* output is a stream that is received from the start on, in order, and    *)
(* nothing is received after the client was told that the command is gone. *)
(***************************************************************************)
EXTENDS Naturals

CONSTANT Tokens

VARIABLES
    produced,   \* produced[t]: bytes the command has written
    received,   \* received[t]: bytes the client has, from the start on
    finished    \* the tokens whose client was told that it is over

streamVars == <<produced, received, finished>>

StreamInit ==
    /\ produced = [t \in Tokens |-> 0]
    /\ received = [t \in Tokens |-> 0]
    /\ finished = {}

Produce(t) ==
    /\ produced' = [produced EXCEPT ![t] = @ + 1]
    /\ UNCHANGED <<received, finished>>

Receive(t) ==
    /\ t \notin finished
    /\ \E n \in received[t] .. produced[t] :
          received' = [received EXCEPT ![t] = n]
    /\ UNCHANGED <<produced, finished>>

\* The end is final; output that was not received by then is lost.
End(t) ==
    /\ finished' = finished \cup {t}
    /\ UNCHANGED <<produced, received>>

StreamNext == \E t \in Tokens : Produce(t) \/ Receive(t) \/ End(t)

StreamSpec == StreamInit /\ [][StreamNext]_streamVars
=============================================================================
