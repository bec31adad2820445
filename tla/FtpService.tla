----------------------------- MODULE FtpService -----------------------------
(***************************************************************************)
(* What the FTP server promises its callers, without threads, pointers or  *)
(* locks: clients register while the service is up, leave on their own or  *)
(* are drained when it stops, and it is down only once every registered    *)
(* client has ended.  FtpVita implements it when the calls do not overlap. *)
(***************************************************************************)
CONSTANT Clients

VARIABLES phase,        \* "down", "up" or "draining"
          registered,   \* the clients the service answers for
          serving       \* the clients whose threads have been let go and not ended

vars == <<phase, registered, serving>>

Init == phase = "down" /\ registered = {} /\ serving = {}

Start == /\ phase = "down" /\ phase' = "up"
         /\ UNCHANGED <<registered, serving>>

Register(c) == /\ phase = "up"
               /\ c \notin registered \cup serving
               /\ registered' = registered \cup {c}
               /\ UNCHANGED <<phase, serving>>

Serve(c) == /\ phase = "up"
            /\ c \in registered \ serving
            /\ serving' = serving \cup {c}
            /\ UNCHANGED <<phase, registered>>

\* The peer went away: the client takes itself off the books and ends later.
Leave(c) == /\ phase = "up"
            /\ c \in registered \cap serving
            /\ registered' = registered \ {c}
            /\ UNCHANGED <<phase, serving>>

End(c) == /\ c \in serving
          /\ c \notin registered
          /\ serving' = serving \ {c}
          /\ UNCHANGED <<phase, registered>>

\* Stopping begins only with every registered client running, so none is missed.
Drain == /\ phase = "up" /\ phase' = "draining"
         /\ registered \subseteq serving
         /\ UNCHANGED <<registered, serving>>

EndDrained(c) == /\ phase = "draining"
                 /\ c \in registered
                 /\ registered' = registered \ {c}
                 /\ serving' = serving \ {c}
                 /\ UNCHANGED phase

Stop == /\ phase = "draining" /\ phase' = "down"
        /\ registered = {}
        /\ UNCHANGED <<registered, serving>>

Next == \/ Start \/ Drain \/ Stop
        \/ \E c \in Clients : Register(c) \/ Serve(c) \/ Leave(c) \/ End(c) \/ EndDrained(c)

Spec == Init /\ [][Next]_vars
=============================================================================
