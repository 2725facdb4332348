------------------------------- MODULE FanOut -------------------------------
(***************************************************************************)
(* What the stream manager promises to the clients of the service: per key *)
(* at most one session is open at a time; it opens with its first client,  *)
(* serves exactly the clients that joined it and have not left, and ends   *)
(* for good with the last of them, with its upstream, or with the service. *)
(* System_Architecture.md, "WebSocket Lifecycle", tells this story.        *)
(***************************************************************************)

CONSTANTS
    Keys,      \* what a client can subscribe to
    Clients,   \* connections
    Sessions,  \* the sessions there can be, of all keys
    NoSession  \* the session of a key nobody is subscribed to

VARIABLES
    session,   \* key -> its open session, or NoSession
    audience,  \* session -> the clients it serves
    sending,   \* session -> the clients the current item is being sent to
    opened,    \* the sessions opened so far
    joined,    \* the clients that have subscribed so far
    down       \* the service is shutting down

vars == <<session, audience, sending, opened, joined, down>>

Init ==
    /\ session = [k \in Keys |-> NoSession]
    /\ audience = [s \in Sessions |-> {}]
    /\ sending = [s \in Sessions |-> {}]
    /\ opened = {}
    /\ joined = {}
    /\ down = FALSE

\* The first client of a key opens a session nobody has used before.
Open(k, s, c) ==
    /\ ~down
    /\ session[k] = NoSession
    /\ s \notin opened
    /\ c \notin joined
    /\ session' = [session EXCEPT ![k] = s]
    /\ audience' = [audience EXCEPT ![s] = {c}]
    /\ opened' = opened \cup {s}
    /\ joined' = joined \cup {c}
    /\ UNCHANGED <<sending, down>>

Join(k, c) ==
    /\ ~down
    /\ session[k] # NoSession
    /\ c \notin joined
    /\ audience' = [audience EXCEPT ![session[k]] = @ \cup {c}]
    /\ joined' = joined \cup {c}
    /\ UNCHANGED <<session, sending, opened, down>>

\* The clients in gone leave the audience of k; the session ends with the
\* last one.
Lose(k, gone) ==
    LET s == session[k]
    IN  /\ audience' = [audience EXCEPT ![s] = @ \ gone]
        /\ session' = [session EXCEPT
                           ![k] = IF audience[s] \subseteq gone THEN NoSession
                                  ELSE @]

Leave(k, c) ==
    /\ session[k] # NoSession
    /\ c \in audience[session[k]]
    /\ Lose(k, {c})
    /\ UNCHANGED <<sending, opened, joined, down>>

\* One item at a time goes to the whole audience...
Deliver(k) ==
    LET s == session[k]
    IN  /\ s # NoSession
        /\ sending[s] = {}
        /\ sending' = [sending EXCEPT ![s] = audience[s]]
        /\ UNCHANGED <<session, audience, opened, joined, down>>

\* ...and the clients it could not be sent to are given up.
Settle(k, gone) ==
    LET s == session[k]
    IN  /\ s # NoSession
        /\ sending[s] # {}
        /\ gone \subseteq sending[s]
        /\ sending' = [sending EXCEPT ![s] = {}]
        /\ IF gone = {} THEN UNCHANGED <<session, audience>> ELSE Lose(k, gone)
        /\ UNCHANGED <<opened, joined, down>>

\* The upstream of k ends and the session with it.
Fail(k) ==
    /\ session[k] # NoSession
    /\ session' = [session EXCEPT ![k] = NoSession]
    /\ audience' = [audience EXCEPT ![session[k]] = {}]
    /\ UNCHANGED <<sending, opened, joined, down>>

\* What an ended session was still sending is abandoned.
Abandon(s) ==
    /\ \A k \in Keys : session[k] # s
    /\ sending[s] # {}
    /\ sending' = [sending EXCEPT ![s] = {}]
    /\ UNCHANGED <<session, audience, opened, joined, down>>

GoDown ==
    /\ ~down
    /\ down' = TRUE
    /\ session' = [k \in Keys |-> NoSession]
    /\ audience' = [s \in Sessions |-> {}]
    /\ UNCHANGED <<sending, opened, joined>>

Next ==
    \/ \E k \in Keys, c \in Clients :
           \/ \E s \in Sessions : Open(k, s, c)
           \/ Join(k, c)
           \/ Leave(k, c)
    \/ \E k \in Keys :
           \/ Deliver(k)
           \/ \E gone \in SUBSET Clients : Settle(k, gone)
           \/ Fail(k)
    \/ \E s \in Sessions : Abandon(s)
    \/ GoDown

Spec == Init /\ [][Next]_vars

=============================================================================
