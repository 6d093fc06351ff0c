--------------------------- MODULE RequestLifecycle ---------------------------
(***************************************************************************)
(* What the sampler promises for each submission, whatever happens inside: *)
(* while it is open it may announce retries, each out of the transport     *)
(* budget or the resample budget it was accepted with; it closes once,     *)
(* with one terminal event and the same answer to a caller that waits, or  *)
(* is abandoned without an event; and it does close.  Sampler implements   *)
(* this.                                                                   *)
(***************************************************************************)
EXTENDS Naturals

CONSTANTS
    Subs,            \* submissions
    MaxTransport,    \* the largest transport budget
    MaxDoom          \* the largest resample budget

VARIABLES
    phase,       \* "new", "sent", "open", "closed"
    transport,   \* retries left
    resamples,   \* doom-loop resamples left
    event,       \* the terminal event: "none", "completed", "failed"
    answer       \* a caller that waits: "none", "waiting", "ok", "error", "left"

vars == <<phase, transport, resamples, event, answer>>

Init ==
    /\ phase = [s \in Subs |-> "new"]
    /\ transport = [s \in Subs |-> 0] /\ resamples = [s \in Subs |-> 0]
    /\ event = [s \in Subs |-> "none"] /\ answer = [s \in Subs |-> "none"]

Send(s) ==
    /\ phase[s] = "new" /\ phase' = [phase EXCEPT ![s] = "sent"]
    /\ answer' \in {answer, [answer EXCEPT ![s] = "waiting"]}
    /\ UNCHANGED <<transport, resamples, event>>

\* The caller stops waiting.
Leave(s) ==
    /\ answer[s] = "waiting" /\ answer' = [answer EXCEPT ![s] = "left"]
    /\ UNCHANGED <<phase, transport, resamples, event>>

Accept(s) ==
    /\ phase[s] = "sent" /\ phase' = [phase EXCEPT ![s] = "open"]
    /\ \E t \in 0..MaxTransport : transport' = [transport EXCEPT ![s] = t]
    /\ \E d \in 0..MaxDoom : resamples' = [resamples EXCEPT ![s] = d]
    /\ UNCHANGED <<event, answer>>

Retry(s) ==
    /\ phase[s] = "open" /\ transport[s] > 0
    /\ transport' = [transport EXCEPT ![s] = @ - 1]
    /\ UNCHANGED <<phase, resamples, event, answer>>

Resample(s) ==
    /\ phase[s] = "open" /\ resamples[s] > 0
    /\ resamples' = [resamples EXCEPT ![s] = @ - 1]
    /\ UNCHANGED <<phase, transport, event, answer>>

Answer(s, a) == answer' = [answer EXCEPT ![s] = IF @ = "waiting" THEN a ELSE @]

\* The terminal event, and the same answer to a caller that waits.
Close(s) ==
    /\ phase[s] = "open" /\ phase' = [phase EXCEPT ![s] = "closed"]
    /\ \/ event' = [event EXCEPT ![s] = "completed"] /\ Answer(s, "ok")
       \/ event' = [event EXCEPT ![s] = "failed"] /\ Answer(s, "error")
    /\ UNCHANGED <<transport, resamples>>

\* The task panicked, or the actor stopped.
Abandon(s) ==
    /\ phase[s] = "open" /\ phase' = [phase EXCEPT ![s] = "closed"]
    /\ Answer(s, "error")
    /\ UNCHANGED <<transport, resamples, event>>

Next == \E s \in Subs :
    Send(s) \/ Leave(s) \/ Accept(s) \/ Retry(s) \/ Resample(s) \/ Close(s) \/ Abandon(s)

Spec == Init /\ [][Next]_vars

\* Every submission that was sent is closed, and every caller that waits gets an
\* answer or has left.
Closes ==
    \A s \in Subs : /\ phase[s] = "sent" ~> phase[s] = "closed"
                    /\ answer[s] = "waiting" ~> answer[s] # "waiting"
=============================================================================
