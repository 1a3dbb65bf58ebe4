-------------------------------- MODULE EthNm --------------------------------
(***************************************************************************)
(* The network management core of nmsrv (ethnm.cpp, nmsrv.cpp): the main   *)
(* thread starts a network thread and a state manager and waits for both;  *)
(* a signal handler, run on top of whichever thread the signal interrupts, *)
(* asks the core to end.  They share state_var and pre_state_var with no   *)
(* lock; the build is not optimized, so each mention in the source is a    *)
(* load or a store of its own.                                             *)
(*                                                                         *)
(* GetNmState() is the public setter of the state.  In nmsrv only the      *)
(* network thread would call it, after a loop that never ends.             *)
(***************************************************************************)
EXTENDS Naturals, Sequences

CONSTANTS
  NULL,
  Commands,     \* the states GetNmState() is called with: none in nmsrv
  MaxCommands,  \* bound: how many such calls
  MaxSignals    \* bound: how many SIGINT or SIGTERM

States == {"init_state", "wake_up", "preapre_sleep", "repeat_message",
           "normal_op", "ready_sleep", "sleep_bus", "error_state"}

ASSUME CommandsAssumption == Commands \subseteq States
ASSUME BoundsAssumption   == {MaxCommands, MaxSignals} \subseteq Nat

VARIABLES
  state_var, pre_state_var,
  pc,          \* where each thread is
  seen,        \* what SetNmState() last loaded
  asked,       \* which of its comparisons it is at
  reported,    \* how often it has reported each state, 2 standing for more
  cancelled,   \* threads with a cancellation request pending
  handling,    \* the thread the signal handler runs on
  hpc,         \* where the handler is
  status,      \* whether the process runs, or how it exited
  signals, commands

states  == <<state_var, pre_state_var>>
report  == <<seen, asked, reported>>
handler == <<handling, hpc>>
counts  == <<signals, commands>>
vars    == <<states, pc, report, cancelled, handler, status, counts>>

Threads == {"main", "network", "manager"}

ASSUME NullAssumption == NULL \notin Threads

\* The comparisons of SetNmState(), in order.
Reports == <<"wake_up", "repeat_message", "normal_op", "sleep_bus", "error_state">>

TypeOK ==
  /\ {state_var, pre_state_var, seen} \subseteq States
  /\ pc \in [Threads -> {"none", "open", "wake", "create_network", "create_manager",
                         "join_network", "join_manager",
                         "repeat?", "normal?", "send",
                         "pre", "compare", "load", "store", "report",
                         "cancel_network", "cancel_manager", "join", "join_self",
                         "delete", "done"}]
  /\ asked \in DOMAIN Reports
  /\ reported \in [States -> 0..2]
  /\ cancelled \subseteq Threads
  /\ handling \in Threads \cup {NULL}
  /\ hpc \in {"none", "state", "pre"}
  /\ status \in {"running", "exited", "failed"}
  /\ signals \in 0..MaxSignals /\ commands \in 0..MaxCommands

\* main() has built the core and installed the handler.
Init ==
  /\ state_var = "init_state" /\ pre_state_var = "init_state"
  /\ pc = [p \in Threads |-> IF p = "main" THEN "open" ELSE "none"]
  /\ seen = "init_state"
  /\ asked = 1
  /\ reported = [s \in States |-> 0]
  /\ cancelled = {}
  /\ handling = NULL /\ hpc = "none"
  /\ status = "running"
  /\ signals = 0 /\ commands = 0

\* Thread p goes on, unless the handler runs on top of it.
At(p, label)   == status = "running" /\ pc[p] = label /\ handling # p
Goto(p, label) == pc' = [pc EXCEPT ![p] = label]

\* A step of p that only passes control.
Pass(p, from, to) ==
  /\ At(p, from)
  /\ Goto(p, to)
  /\ UNCHANGED <<states, report, cancelled, handler, status, counts>>

Fail == status' = "failed" /\ UNCHANGED <<states, pc, report, cancelled, handler, counts>>

-----------------------------------------------------------------------------
(* The main thread: EthnmCore::Start(). *)

\* SetUdpSocket() exits the process when the socket cannot be set up.
Open == Pass("main", "open", "wake") \/ (At("main", "open") /\ Fail)

WakeUp ==
  /\ At("main", "wake")
  /\ state_var' = "wake_up"
  /\ Goto("main", "create_network")
  /\ UNCHANGED <<pre_state_var, report, cancelled, handler, status, counts>>

Create(p, from, first, to) ==
  /\ At("main", from)
  /\ pc' = [pc EXCEPT !["main"] = to, ![p] = first]
  /\ UNCHANGED <<states, report, cancelled, handler, status, counts>>

CreateNetwork == Create("network", "create_network", "repeat?", "create_manager")
CreateManager == Create("manager", "create_manager", "pre", "join_network")

\* pthread_join() waits for the thread to end, or returns EINVAL at once when
\* another thread waits for it already: the manager, in StopThread().
JoinNetwork ==
  /\ pc["network"] = "done" \/ pc["manager"] = "join"
  /\ Pass("main", "join_network", "join_manager")

\* main() returns, and the process with it.
JoinManager ==
  /\ At("main", "join_manager")
  /\ pc["manager"] \in {"join_self", "done"}
  /\ status' = "exited"
  /\ UNCHANGED <<states, pc, report, cancelled, handler, counts>>

-----------------------------------------------------------------------------
(* EthNmThread(): it spins until one of two loads finds a state to send in. *)

IsRepeat == Pass("network", "repeat?", IF state_var = "repeat_message" THEN "send" ELSE "normal?")
IsNormal == Pass("network", "normal?", IF state_var = "normal_op" THEN "send" ELSE "repeat?")

\* SendMulticast() sends for ever, or exits the process when it cannot.
SendFails == At("network", "send") /\ Fail

\* The thread meets a cancellation point nowhere but in sendto().
CancelledInSend ==
  /\ "network" \in cancelled
  /\ Pass("network", "send", "done")

-----------------------------------------------------------------------------
(* StateManagerThread(): SetNmState() over and over. *)

LoadPre ==
  /\ At("manager", "pre")
  /\ seen' = pre_state_var
  /\ Goto("manager", "compare")
  /\ UNCHANGED <<states, asked, reported, cancelled, handler, status, counts>>

Compare == Pass("manager", "compare", IF seen # state_var THEN "load" ELSE "pre")

Load ==
  /\ At("manager", "load")
  /\ seen' = state_var
  /\ Goto("manager", "store")
  /\ UNCHANGED <<states, asked, reported, cancelled, handler, status, counts>>

\* Mutant: what was seen is not remembered.
Store_Forgets ==
  /\ At("manager", "store")
  /\ asked' = 1
  /\ Goto("manager", "report")
  /\ UNCHANGED <<states, seen, reported, cancelled, handler, status, counts>>

Store ==
  /\ At("manager", "store")
  /\ pre_state_var' = seen
  /\ asked' = 1
  /\ Goto("manager", "report")
  /\ UNCHANGED <<state_var, seen, reported, cancelled, handler, status, counts>>

\* Mutant: one comparison too many.
Report_OneMore ==
  /\ At("manager", "report")
  /\ IF state_var = Reports[asked]
       THEN /\ reported' = [reported EXCEPT ![state_var] = IF @ < 2 THEN @ + 1 ELSE 2]
            /\ Goto("manager", IF state_var = "sleep_bus" THEN "cancel_network" ELSE "pre")
            /\ UNCHANGED asked
       ELSE /\ IF asked <= Len(Reports)
                 THEN asked' = asked + 1 /\ UNCHANGED pc
                 ELSE Goto("manager", "pre") /\ UNCHANGED asked
            /\ UNCHANGED reported
  /\ UNCHANGED <<states, seen, cancelled, handler, status, counts>>

\* state_var is loaded anew for each comparison; sleep_bus calls Stop().
Report ==
  /\ At("manager", "report")
  /\ IF state_var = Reports[asked]
       THEN /\ reported' = [reported EXCEPT ![state_var] = IF @ < 2 THEN @ + 1 ELSE 2]
            /\ Goto("manager", IF state_var = "sleep_bus" THEN "cancel_network" ELSE "pre")
            /\ UNCHANGED asked
       ELSE /\ IF asked < Len(Reports)
                 THEN asked' = asked + 1 /\ UNCHANGED pc
                 ELSE Goto("manager", "pre") /\ UNCHANGED asked
            /\ UNCHANGED reported
  /\ UNCHANGED <<states, seen, cancelled, handler, status, counts>>

\* StopThread() cancels the network thread, then the thread that runs it ...
CancelThread(p, from, to) ==
  /\ At("manager", from)
  /\ cancelled' = cancelled \cup {p}
  /\ Goto("manager", to)
  /\ UNCHANGED <<states, report, handler, status, counts>>

\* Mutant: only the caller is cancelled.
CancelNetwork_Missing == Pass("manager", "cancel_network", "cancel_manager")

CancelNetwork == CancelThread("network", "cancel_network", "cancel_manager")
CancelManager == CancelThread("manager", "cancel_manager", "join")

\* ... and joins both.  The caller, cancelled itself, ends in pthread_join() ...
CancelledInJoin ==
  /\ "manager" \in cancelled
  /\ Pass("manager", "join", "done") \/ Pass("manager", "join_self", "done")

\* ... unless it has no need to wait there, or cannot, since main() waits already.
JoinReturns ==
  \/ /\ pc["network"] = "done" \/ pc["main"] = "join_network"
     /\ Pass("manager", "join", "join_self")
  \/ /\ pc["main"] = "join_manager"
     /\ Pass("manager", "join_self", "delete")

\* Past both joins it clears the handles, which no thread reads any more, and
\* Stop() deletes the core.  The destructor calls Stop(), which deletes the core:
\* the process dies of the recursion, or terminates because the cancellation,
\* acted upon in StopThread()'s printf(), cannot unwind a destructor.
Delete == At("manager", "delete") /\ Fail

-----------------------------------------------------------------------------
(* The signal handler, and GetNmState(). *)

Signal(p) ==
  /\ status = "running"
  /\ signals < MaxSignals
  /\ handling = NULL
  /\ pc[p] \notin {"none", "done"}
  /\ handling' = p
  /\ hpc' = "state"
  /\ signals' = signals + 1
  /\ UNCHANGED <<states, pc, report, cancelled, status, commands>>

\* EthnmCore::End(): two stores.
EndState ==
  /\ status = "running"
  /\ hpc = "state"
  /\ state_var' = "init_state"
  /\ hpc' = "pre"
  /\ UNCHANGED <<pre_state_var, pc, report, cancelled, handling, status, counts>>

EndPre ==
  /\ status = "running"
  /\ hpc = "pre"
  /\ pre_state_var' = "init_state"
  /\ hpc' = "none"
  /\ handling' = NULL
  /\ UNCHANGED <<state_var, pc, report, cancelled, status, counts>>

GetNmState(stat) ==
  /\ status = "running"
  /\ commands < MaxCommands
  /\ state_var' = stat
  /\ commands' = commands + 1
  /\ UNCHANGED <<pre_state_var, pc, report, cancelled, handler, status, signals>>

-----------------------------------------------------------------------------

Main    == Open \/ WakeUp \/ CreateNetwork \/ CreateManager \/ JoinNetwork \/ JoinManager
Network == IsRepeat \/ IsNormal \/ SendFails \/ CancelledInSend
Manager == \/ LoadPre \/ Compare \/ Load \/ Store \/ Report
           \/ CancelNetwork \/ CancelManager \/ CancelledInJoin \/ JoinReturns \/ Delete

\* Mutant: End() stores pre_state_var first.
Handler_PreFirst ==
  \/ /\ status = "running"
     /\ hpc = "state"
     /\ pre_state_var' = "init_state"
     /\ hpc' = "pre"
     /\ UNCHANGED <<state_var, pc, report, cancelled, handling, status, counts>>
  \/ /\ status = "running"
     /\ hpc = "pre"
     /\ state_var' = "init_state"
     /\ hpc' = "none"
     /\ handling' = NULL
     /\ UNCHANGED <<pre_state_var, pc, report, cancelled, status, counts>>

Handler == EndState \/ EndPre

Next ==
  \/ Main \/ Network \/ Manager \/ Handler
  \/ \E p \in Threads : Signal(p)
  \/ \E stat \in Commands : GetNmState(stat)

Spec == Init /\ [][Next]_vars

\* Every thread is scheduled, and so is the handler.  The environment need not
\* send a signal, call GetNmState(), or let a system call fail.
FairSpec ==
  /\ Spec
  /\ WF_vars(Main) /\ WF_vars(Manager) /\ WF_vars(Handler)
  /\ WF_vars(IsRepeat \/ IsNormal \/ CancelledInSend)

-----------------------------------------------------------------------------
(* Properties. *)

\* Start() wakes the core once (Commands has no wake_up), and "Wake up done" is
\* reported at most once, however End() and SetNmState() interleave: End()
\* stores state_var first.
WakesOnce == reported["wake_up"] <= 1

ManagerRuns == status = "running" /\ pc["manager"] \notin {"none", "done"}

\* While the state manager runs it catches up: once signals and commands cease
\* it has seen the last state, and goes on finding nothing to do.
Settles == <>[](ManagerRuns => pre_state_var = state_var)

\* A core put to sleep while it sends ends the process, whichever of main() and
\* the manager waits first in each pthread_join(): main() returns, or the manager
\* comes to delete the core.
SleepEnds ==
  pc["network"] = "send" /\ pc["manager"] = "cancel_network" ~> status # "running"

\* nmsrv.cpp:11 "handle_signal exit!": SIGINT or SIGTERM ends the process.
SignalEnds == hpc = "state" ~> status # "running"
=============================================================================
