---------------------------- MODULE FuseService -----------------------------
(***************************************************************************)
(* What the message path promises while the session is alive, without      *)
(* tickets, queues and locks.  A message goes through its stages in order, *)
(* so the daemon gets it at most once and answers it at most once; a       *)
(* caller takes the answer to the call it made, and nobody throws an       *)
(* answer away under a caller that still waits for it.                     *)
(***************************************************************************)
EXTENDS Naturals

CONSTANTS Callers, Msgs

VARIABLES
    stage,  \* of each message
    call,   \* the message each caller waits for, 0 if none
    got,    \* the message whose answer the caller has in hand, 0 if none
    down    \* the session is dead

avars == <<stage, call, got, down>>

Stages == {"none", "made", "queued", "delivered", "answered", "over"}

AInit ==
    /\ stage = [n \in Msgs |-> "none"]
    /\ call = [r \in Callers |-> 0] /\ got = [r \in Callers |-> 0]
    /\ down = FALSE

Moves(n, from, to) == stage[n] = from /\ stage' = [stage EXCEPT ![n] = to]

\* a message that nobody waits for: INIT, FORGET
Post(n) == Moves(n, "none", "made") /\ UNCHANGED <<call, got, down>>

Call(r, n) ==
    /\ call[r] = 0
    /\ Moves(n, "none", "made")
    /\ call' = [call EXCEPT ![r] = n]
    /\ UNCHANGED <<got, down>>

\* the next call, in the place of one whose answer has been used
CallAgain(r, n) ==
    /\ got[r] # 0 /\ stage[n] = "none"
    /\ stage' = [stage EXCEPT ![n] = "made", ![call[r]] = "over"]
    /\ call' = [call EXCEPT ![r] = n]
    /\ got' = [got EXCEPT ![r] = 0]
    /\ UNCHANGED down

Queue(n)   == Moves(n, "made", "queued") /\ UNCHANGED <<call, got, down>>
Deliver(n) == Moves(n, "queued", "delivered") /\ UNCHANGED <<call, got, down>>
Answer(n)  == Moves(n, "delivered", "answered") /\ UNCHANGED <<call, got, down>>

\* A message may end unread; an answer is thrown away only when nobody waits for it.
Discard(n) ==
    /\ \/ Moves(n, "queued", "over")
       \/ Moves(n, "answered", "over") /\ \A r \in Callers : call[r] # n
    /\ UNCHANGED <<call, got, down>>

Take(r) ==
    /\ call[r] # 0 /\ got[r] = 0 /\ stage[call[r]] = "answered"
    /\ got' = [got EXCEPT ![r] = call[r]]
    /\ UNCHANGED <<stage, call, down>>

\* with the answer, with an error, or because of a signal
Return(r) ==
    /\ call[r] # 0
    /\ stage' = stage \/ Moves(call[r], "made", "over")
    /\ call' = [call EXCEPT ![r] = 0]
    /\ got' = [got EXCEPT ![r] = 0]
    /\ UNCHANGED down

Die ==
    /\ ~down /\ down' = TRUE
    /\ stage' = [n \in Msgs |-> "over"]
    /\ call' = [r \in Callers |-> 0] /\ got' = [r \in Callers |-> 0]

ANext ==
    \/ Die
    \/ \E n \in Msgs : Post(n) \/ Queue(n) \/ Deliver(n) \/ Answer(n) \/ Discard(n)
    \/ \E r \in Callers : Take(r) \/ Return(r) \/ \E n \in Msgs : Call(r, n) \/ CallAgain(r, n)

ASpec == AInit /\ [][ANext]_avars
=============================================================================
