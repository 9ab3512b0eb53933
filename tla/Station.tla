------------------------------- MODULE Station -------------------------------
(***************************************************************************)
(* A station as the services install it: the server and microphone         *)
(* programs on one driver, and croffw.  Each of them resets, writes and    *)
(* obeys the same two integers, and none can tell who wrote what it reads. *)
(***************************************************************************)
EXTENDS Crserv, Croffw, Crmicp

CONSTANTS Runs,       \* BOUND: times the server is started
          MicRuns,    \* BOUND: times each microphone program is started
          Requests    \* BOUND: times croffw is started

Server   == "crserv"

ASSUME StationAssumption ==
    Runs \in Nat /\ MicRuns \in Nat /\ Requests \in Nat /\ Server \notin Clients

Programs == {Server} \cup Clients
Bound(p) == IF p = Server THEN Runs ELSE MicRuns

VARIABLES
    starts,     \* starts of each program
    requests,
    asked,      \* HISTORY: programs that were in their loop when croffw asked
    failed      \* HISTORY: those that were when a module failed to load
history == <<asked, failed>>
vars == <<ctl10, crserv, crmicp, croffw, starts, requests, history>>

Loop == {"look", "report", "act"}
InLoop(p) == IF p = Server THEN srv \in Loop ELSE mpc[p] \in Loop
Running == {p \in Programs : InLoop(p)}

(* The program has started its closing thread.                             *)
Begun(p) == IF p = Server THEN closers > 0 ELSE mxpc[p] # "none"

Up(p) == IF p = Server THEN srv # "down" ELSE mpc[p] # "down"

Init ==
    /\ DriverInit /\ CrservInit /\ CrmicpInit /\ CroffwInit
    /\ starts = [p \in Programs |-> 0] /\ requests = 0
    /\ asked = {} /\ failed = {}

StartProgram(p) ==
    /\ starts[p] < Bound(p)
    /\ starts' = [starts EXCEPT ![p] = @ + 1]
    /\ IF p = Server THEN Start /\ UNCHANGED crmicp
                     ELSE MicStart(p) /\ UNCHANGED crserv
    /\ asked' = asked \ {p} /\ failed' = failed \ {p}
    /\ UNCHANGED <<croffw, requests>>

ServerStep ==
    /\ Main \/ Closer
    /\ UNCHANGED <<crmicp, croffw, starts, requests, history>>

ServerLoadFails ==
    /\ LoadFails
    /\ failed' = failed \cup Running
    /\ UNCHANGED <<crmicp, croffw, starts, requests, asked>>

ClientStep(c) ==
    /\ MicMain(c) \/ MicCloserDone(c)
    /\ UNCHANGED <<crserv, croffw, starts, requests, history>>

Signal ==
    /\ \/ libcrt_signal_handle /\ UNCHANGED crmicp
       \/ \E c \in Clients : MicSignal(c) /\ UNCHANGED crserv
    /\ UNCHANGED <<croffw, starts, requests, history>>

StartCroffw ==
    /\ requests < Requests
    /\ requests' = requests + 1
    /\ \/ AskRestart /\ UNCHANGED asked
       \/ AskPoweroff /\ asked' = asked \cup Running
    /\ UNCHANGED <<crserv, crmicp, starts, failed>>

CroffwStep ==
    /\ CroffwRuns \/ Interrupted
    /\ UNCHANGED <<crserv, crmicp, starts, requests, history>>

Next ==
    \/ \E p \in Programs : StartProgram(p)
    \/ ServerStep \/ ServerLoadFails
    \/ \E c \in Clients : ClientStep(c)
    \/ Signal \/ StartCroffw \/ CroffwStep

Spec == Init /\ [][Next]_vars

(* Main and closing thread of every program are scheduled, and croffw is.  *)
FairSpec ==
    /\ Spec
    /\ WF_vars(ServerStep /\ Main) /\ WF_vars(ServerStep /\ Closer)
    /\ \A c \in Clients :
         /\ WF_vars(ClientStep(c) /\ MicMain(c))
         /\ WF_vars(ClientStep(c) /\ MicCloserDone(c))
    /\ WF_vars(CroffwStep /\ CroffwRuns)
-----------------------------------------------------------------------------
TypeOK ==
    /\ progress_value \in -1..100 /\ poweroff_value \in 0..2
    /\ CrservTypeOK /\ CrmicpTypeOK /\ CroffwTypeOK
    /\ \A p \in Programs : starts[p] \in 0..Bound(p)
    /\ requests \in 0..Requests
    /\ asked \subseteq Programs /\ failed \subseteq Clients

(* A program tears itself down only if, since it reset the driver, croffw  *)
(* asked or, for a microphone program, a starting server met a module that *)
(* does not load: the other programs' resets and reports, however they     *)
(* fall between its own, never look like a request.                        *)
StopsHaveCause ==
    \A p \in Programs : (Up(p) /\ Begun(p)) => p \in asked \cup failed

(* While the server is in its loop the driver shows more than the server   *)
(* has freed only if a microphone program has freed its node (or is not in *)
(* its first run, and did so in an earlier one); it then shows 100.        *)
OverstatedByClientsOnly ==
    (InLoop(Server) /\ progress_value \notin 0..Percent(cfree))
        => /\ progress_value = 100
           /\ \E c \in Clients : mfree[c] = 1 \/ starts[c] > 1

(* A request that is left in the driver stops every program on it, whoever *)
(* finishes first and whatever they report over each other.                *)
StandingRequestStopsAll ==
    \A p \in Programs :
        (InLoop(p) /\ [](poweroff_value = DISABLE)) ~> ~Up(p)

(* croffw comes to an end although several programs write the progress it  *)
(* compares with the last one it saw: they cannot keep it alive in turns.  *)
CroffwEnds == (cpc # "idle") ~> (cpc = "idle")

=============================================================================
