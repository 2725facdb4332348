------------------------ MODULE StreamManagerFanOut ------------------------
(***************************************************************************)
(* The stream manager keeps the promise of FanOut: a session is a handler  *)
(* task while it is registered, its audience the bucket of its key.        *)
(***************************************************************************)
EXTENDS StreamManager

\* The clients that a registered handler serves.
Audience(t) == {c \in Clients : \E k \in Keys :
                    upstreamTasks[k] = t /\ c \in Bucket(k)}

Abstract == INSTANCE FanOut WITH
    Sessions  <- Tasks,
    NoSession <- NoTask,
    session   <- upstreamTasks,
    audience  <- [t \in Tasks |-> Audience(t)],
    sending   <- clientItems,
    opened    <- {t \in Tasks : pc[t] # "unborn"},
    joined    <- {c \in Clients : servedBy[c] # NoTask},
    down      <- server # "running"

\* Until a cancel is lost, every behaviour of the manager is one of FanOut's:
\* each step is a step of a session or invisible to its clients.
FanOutOrStray == Abstract!Next \/ lost # {}
ImplementsFanOut == Abstract!Init /\ [][FanOutOrStray]_(Abstract!vars)

=============================================================================
