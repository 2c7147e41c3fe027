------------------------------- MODULE Server -------------------------------
(***************************************************************************)
(* cmd/server: the goroutine that listens and serves /health and /ready,   *)
(* and main, which waits for a signal and shuts the server down within     *)
(* five seconds.  net/http is external: Shutdown closes the listener and   *)
(* waits for the requests under way.                                       *)
(***************************************************************************)
CONSTANTS Requests,     \* HTTP requests, each sent at most once
          SlowRequests, \* those whose client may keep its connection busy
          MayFail       \* TRUE iff the configuration or the port may be bad

ASSUME ServerAssumption ==
    /\ SlowRequests \subseteq Requests
    /\ MayFail \in BOOLEAN

VARIABLES
    main,      \* "load", "waiting" (for a signal), "shutdown" or "exited"
    listener,  \* "none", "open", "failed" or "closed" (ErrServerClosed)
    requests,  \* per request: "unsent", "active", "answered", "cut", "refused"
    late       \* TRUE once the context of Shutdown has expired

serverVars == <<main, listener, requests, late>>

Active == {r \in Requests : requests[r] = "active"}

Init ==
    /\ main = "load"
    /\ listener = "none"
    /\ requests = [r \in Requests |-> "unsent"]
    /\ late = FALSE

\* config.Load and the start of the serving goroutine.
Load ==
    /\ main = "load"
    /\ \/ main' = "waiting"
       \/ MayFail /\ main' = "exited"
    /\ UNCHANGED <<listener, requests, late>>

\* ListenAndServe, which returns at once after Shutdown was called.  Its error
\* is logged and main goes on waiting.
Start ==
    /\ listener = "none" /\ main \in {"waiting", "shutdown"}
    /\ \/ main = "waiting" /\ listener' = "open"
       \/ main = "shutdown" /\ listener' = "closed"
       \/ MayFail /\ listener' = "failed"
    /\ UNCHANGED <<main, requests, late>>

\* A client connects.
Connect(r) ==
    /\ requests[r] = "unsent"
    /\ requests' = [requests EXCEPT ![r] =
                        IF listener = "open" THEN "active" ELSE "refused"]
    /\ UNCHANGED <<main, listener, late>>

\* The handlers of /health and /ready.
Answer(r) ==
    /\ requests[r] = "active" /\ main # "exited"
    /\ requests' = [requests EXCEPT ![r] = "answered"]
    /\ UNCHANGED <<main, listener, late>>

\* SIGTERM or SIGINT: Shutdown begins.
Signal ==
    /\ main = "waiting"
    /\ main' = "shutdown"
    /\ listener' = IF listener = "open" THEN "closed" ELSE listener
    /\ UNCHANGED <<requests, late>>

\* Five seconds have passed.
Deadline ==
    /\ main = "shutdown" /\ ~late
    /\ late' = TRUE
    /\ UNCHANGED <<main, listener, requests>>

\* Mutant: Shutdown has no deadline.
ShutdownReturns_NoDeadline == Active = {}

\* Nothing is under way, or the context of Shutdown has expired.
ShutdownReturns == Active = {} \/ late

\* main returns after Shutdown, which cuts whatever is left.
Exit ==
    /\ main = "shutdown" /\ ShutdownReturns
    /\ main' = "exited"
    /\ requests' = [r \in Requests |->
                        IF r \in Active THEN "cut" ELSE requests[r]]
    /\ UNCHANGED <<listener, late>>

Next ==
    \/ Load \/ Start \/ Signal \/ Deadline \/ Exit
    \/ \E r \in Requests : Connect(r) \/ Answer(r)

\* The goroutines are scheduled and the deadline passes; a slow request may
\* never end.
FairSpec ==
    /\ Init /\ [][Next]_serverVars
    /\ WF_serverVars(Load) /\ WF_serverVars(Start)
    /\ WF_serverVars(Deadline) /\ WF_serverVars(Exit)
    /\ \A r \in Requests \ SlowRequests : WF_serverVars(Answer(r))

-----------------------------------------------------------------------------

(* A signal ends the process, slow clients or not.                          *)
SignalEndsServer == main = "shutdown" ~> main = "exited"
=============================================================================
