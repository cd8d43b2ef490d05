-------------------------------- MODULE MCParts --------------------------------
(* The parts that share no state and owe progress, side by side: a behaviour  *)
(* exercises one of them.                                                     *)
EXTENDS Streams, Serve, Session

CONSTANTS h1, h2, s1, s2, r1, r2

VARIABLE part

partvars == <<part, streamvars, servevars, sessionvars>>

PartsInit ==
    /\ part \in {"streams", "serve", "session"}
    /\ StreamsInit /\ ServeInit /\ SessionInit
    /\ part # "streams" => handle = "reply"
    /\ part # "session" => signal = [r \in Racers |-> "absent"]

PartsNext ==
    /\ \/ part = "streams" /\ StreamsNext /\ UNCHANGED <<servevars, sessionvars>>
       \/ part = "serve" /\ ServeNext /\ UNCHANGED <<streamvars, sessionvars>>
       \/ part = "session" /\ SessionNext /\ UNCHANGED <<streamvars, servevars>>
    /\ UNCHANGED part

PartsSpec == /\ PartsInit /\ [][PartsNext]_partvars
             /\ StreamsFair /\ SessionFair
===============================================================================
