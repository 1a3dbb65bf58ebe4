----------------------------- MODULE EthNmProofs -----------------------------
(***************************************************************************)
(* Theorems about module EthNm, for any number of signals and calls of     *)
(* GetNmState().                                                           *)
(***************************************************************************)
EXTENDS EthNm, TLAPS

USE CommandsAssumption, BoundsAssumption, NullAssumption
USE DEF Threads, states, report, handler, counts

LEMMA NextCases ==
  ASSUME Next
  PROVE  \/ Open \/ WakeUp \/ CreateNetwork \/ CreateManager \/ JoinNetwork \/ JoinManager
         \/ IsRepeat \/ IsNormal \/ SendFails \/ CancelledInSend
         \/ LoadPre \/ Compare \/ Load \/ Store \/ Report
         \/ CancelNetwork \/ CancelManager \/ CancelledInJoin \/ JoinReturns \/ Delete
         \/ EndState \/ EndPre
         \/ \E p \in Threads : Signal(p)
         \/ \E stat \in Commands : GetNmState(stat)
BY Zenon DEF Next, Main, Network, Manager, Handler

\* The labels of the three threads.
Labels == {"none", "open", "wake", "create_network", "create_manager",
           "join_network", "join_manager", "repeat?", "normal?", "send",
           "pre", "compare", "load", "store", "report",
           "cancel_network", "cancel_manager", "join", "join_self", "delete", "done"}

\* A step that only moves a thread.
LEMMA Moves ==
  ASSUME TypeOK, NEW p \in Threads, NEW from, NEW to \in Labels, Pass(p, from, to)
  PROVE  /\ TypeOK'
         /\ pc' = [pc EXCEPT ![p] = to]
         /\ UNCHANGED <<states, report, cancelled, handler, status, counts>>
         /\ pc[p] = from /\ handling # p
BY DEF Pass, At, Goto, TypeOK, Labels

LEMMA ReportsFacts ==
  /\ DOMAIN Reports = 1..5 /\ Len(Reports) = 5
  /\ \A n \in 1..5 : Reports[n] \in States
  /\ \A n \in 1..5 : Reports[n] = "wake_up" => n = 1
  /\ "sleep_bus" # "wake_up"
BY DEF Reports, States

\* What one comparison of SetNmState() does.
LEMMA Reporting ==
  ASSUME TypeOK, Report
  PROVE  /\ pc["manager"] = "report"
         /\ UNCHANGED <<states, seen, cancelled, handler, status, counts>>
         /\ \/ /\ state_var = Reports[asked]
               /\ reported' = [reported EXCEPT
                                 ![state_var] = IF @ < 2 THEN @ + 1 ELSE 2]
               /\ asked' = asked
               /\ \E to \in {"cancel_network", "pre"} : pc' = [pc EXCEPT !["manager"] = to]
               /\ state_var = "wake_up" => pc' = [pc EXCEPT !["manager"] = "pre"]
            \/ /\ state_var # Reports[asked]
               /\ reported' = reported
               /\ \/ asked < 5 /\ asked' = asked + 1 /\ pc' = pc
                  \/ asked' = asked /\ pc' = [pc EXCEPT !["manager"] = "pre"]
BY ReportsFacts DEF Report, At, Goto, TypeOK

-----------------------------------------------------------------------------
(* Type correctness. *)

LEMMA TypeStep == TypeOK /\ [Next]_vars => TypeOK'
<1> SUFFICES ASSUME TypeOK, [Next]_vars PROVE TypeOK'
  OBVIOUS
<1>1. ASSUME Fail PROVE TypeOK'
  BY <1>1 DEF Fail, TypeOK
<1>2. CASE Open
  BY <1>1, <1>2, Moves DEF Open, Labels
<1>3. CASE WakeUp
  BY <1>3 DEF WakeUp, At, Goto, TypeOK, States
<1>4. CASE CreateNetwork
  BY <1>4 DEF CreateNetwork, Create, TypeOK
<1>5. CASE CreateManager
  BY <1>5 DEF CreateManager, Create, TypeOK
<1>6. CASE JoinNetwork
  BY <1>6, Moves DEF JoinNetwork, Labels
<1>7. CASE JoinManager
  BY <1>7 DEF JoinManager, TypeOK
<1>8. CASE IsRepeat \/ IsNormal
  BY <1>8, Moves DEF IsRepeat, IsNormal, Labels
<1>9. CASE SendFails
  BY <1>1, <1>9 DEF SendFails
<1>10. CASE CancelledInSend
  BY <1>10, Moves DEF CancelledInSend, Labels
<1>11. CASE LoadPre
  BY <1>11 DEF LoadPre, Goto, TypeOK
<1>12. CASE Compare
  BY <1>12, Moves DEF Compare, Labels
<1>13. CASE Load
  BY <1>13 DEF Load, Goto, TypeOK
<1>14. CASE Store
  <2>1. asked' \in DOMAIN Reports
    BY <1>14, ReportsFacts DEF Store
  <2> QED BY <1>14, <2>1 DEF Store, Goto, TypeOK
<1>15. CASE Report
  <2>1. asked \in 1..5 /\ reported \in [States -> 0..2] /\ state_var \in States
    BY ReportsFacts DEF TypeOK
  <2>2. asked' \in DOMAIN Reports
    BY <1>15, <2>1, Reporting, ReportsFacts
  <2>3. reported' \in [States -> 0..2]
    BY <1>15, <2>1, Reporting
  <2>4. pc' = pc \/ \E to \in Labels : pc' = [pc EXCEPT !["manager"] = to]
    BY <1>15, Reporting DEF Labels
  <2>5. pc' \in [Threads -> Labels]
    BY <2>4 DEF TypeOK, Labels
  <2>6. UNCHANGED <<states, seen, cancelled, handler, status, counts>>
    BY <1>15, Reporting
  <2> QED BY <2>2, <2>3, <2>5, <2>6 DEF TypeOK, Labels
<1>16. CASE CancelNetwork \/ CancelManager
  <2>1. PICK p \in Threads, from \in Labels, to \in Labels : CancelThread(p, from, to)
    BY <1>16 DEF CancelNetwork, CancelManager, Labels
  <2>2. /\ cancelled' = cancelled \cup {p}
        /\ pc' = [pc EXCEPT !["manager"] = to]
        /\ UNCHANGED <<states, report, handler, status, counts>>
    BY <2>1 DEF CancelThread, Goto
  <2>3. pc' \in [Threads -> Labels] /\ cancelled' \subseteq Threads
    BY <2>2 DEF TypeOK, Labels
  <2> QED BY <2>2, <2>3 DEF TypeOK, Labels
<1>17. CASE CancelledInJoin \/ JoinReturns \/ Delete
  <2>1. CASE CancelledInJoin
    BY <2>1, Moves DEF CancelledInJoin, Labels
  <2>2. CASE JoinReturns
    BY <2>2, Moves DEF JoinReturns, Labels
  <2>3. CASE Delete
    BY <1>1, <2>3 DEF Delete
  <2> QED BY <1>17, <2>1, <2>2, <2>3
<1>18. CASE EndState
  BY <1>18 DEF EndState, TypeOK, States
<1>19. CASE EndPre
  BY <1>19 DEF EndPre, TypeOK, States
<1>20. ASSUME NEW p \in Threads, Signal(p) PROVE TypeOK'
  BY <1>20 DEF Signal, TypeOK
<1>21. ASSUME NEW stat \in Commands, GetNmState(stat) PROVE TypeOK'
  BY <1>21 DEF GetNmState, TypeOK
<1>22. CASE UNCHANGED vars
  BY <1>22 DEF vars, TypeOK
<1> QED
  BY <1>2, <1>3, <1>4, <1>5, <1>6, <1>7, <1>8, <1>9, <1>10, <1>11, <1>12, <1>13, <1>14,
     <1>15, <1>16, <1>17, <1>18, <1>19, <1>20, <1>21, <1>22, NextCases, Zenon

\* The state, the labels of the threads and the handler, and the counts keep
\* their types; SetNmState() never asks beyond its last comparison.
THEOREM TypeCorrect == Spec => []TypeOK
<1>1. Init => TypeOK
  BY ReportsFacts DEF Init, TypeOK, States
<1> QED BY <1>1, TypeStep, PTL DEF Spec
-----------------------------------------------------------------------------
(* One wake-up.  Nothing but Start() stores wake_up, before the manager     *)
(* exists, and once the state has left it, it does not come back.  As long  *)
(* as it stays, what the manager has loaded is wake_up, so that after the   *)
(* report pre_state_var tells it that nothing changed: unless End() stored  *)
(* pre_state_var, which it does after state_var only.                       *)

Starting == pc["main"] \in {"open", "wake"}

WakeInv ==
  /\ reported["wake_up"] <= 1
  /\ handling = NULL <=> hpc = "none"
  /\ Starting => /\ pc["network"] = "none" /\ pc["manager"] = "none"
                 /\ reported["wake_up"] = 0
                 /\ state_var # "wake_up"
                 /\ hpc # "none" => handling = "main"
  /\ pc["main"] = "create_network" \/ pc["main"] = "create_manager" =>
       pc["manager"] = "none" /\ reported["wake_up"] = 0
  /\ pc["main"] = "none" => FALSE
  /\ hpc = "pre" => state_var # "wake_up"
  /\ state_var = "wake_up" =>
       /\ pc["manager"] = "store" => seen = "wake_up"
       /\ pc["manager"] = "report" => pre_state_var = "wake_up"
       /\ reported["wake_up"] = 1 =>
            /\ pre_state_var = "wake_up"
            /\ pc["manager"] \in {"pre", "compare"}
            /\ pc["manager"] = "compare" => seen = "wake_up"

LEMMA WakeStep ==
  ASSUME "wake_up" \notin Commands, TypeOK, WakeInv, [Next]_vars
  PROVE  WakeInv'
<1>1. /\ pc \in [Threads -> Labels]
      /\ reported \in [States -> 0..2]
      /\ "wake_up" \in States
      /\ hpc \in {"none", "state", "pre"}
      /\ state_var \in States
      /\ asked \in 1..5
  BY ReportsFacts DEF TypeOK, Labels, States
\* A step of the main or the network thread that only passes control.
<1>2. ASSUME UNCHANGED <<states, report, handler>>, NEW p \in {"main", "network"},
             NEW from, NEW to, pc[p] = from, pc' = [pc EXCEPT ![p] = to],
             p = "network" => from # "none",
             p = "main" => \/ from = "open" /\ to = "wake"
                           \/ from = "join_network" /\ to = "join_manager"
      PROVE  WakeInv'
  <2>1. CASE p = "main"
    BY <1>1, <1>2, <2>1 DEF WakeInv, Starting
  <2>2. CASE p = "network"
    BY <1>1, <1>2, <2>2 DEF WakeInv, Starting
  <2> QED BY <1>2, <2>1, <2>2
<1>3. CASE Open
  <2>1. CASE Pass("main", "open", "wake")
    BY <1>2, <2>1, Moves DEF Labels
  <2>2. CASE Fail
    BY <2>2 DEF Fail, WakeInv, Starting
  <2> QED BY <1>3, <2>1, <2>2 DEF Open
<1>4. CASE WakeUp
  <2>1. /\ pc["main"] = "wake" /\ pc' = [pc EXCEPT !["main"] = "create_network"]
        /\ handling # "main" /\ UNCHANGED <<pre_state_var, report, handler>>
    BY <1>4 DEF WakeUp, At, Goto
  <2>2. hpc = "none" /\ pc["manager"] = "none" /\ reported["wake_up"] = 0
    BY <2>1 DEF WakeInv, Starting
  <2> QED BY <1>1, <2>1, <2>2 DEF WakeInv, Starting, Labels
<1>5. CASE CreateNetwork
  <2>1. /\ pc["main"] = "create_network"
        /\ pc' = [pc EXCEPT !["main"] = "create_manager", !["network"] = "repeat?"]
        /\ UNCHANGED <<states, report, handler>>
    BY <1>5 DEF CreateNetwork, Create, At
  <2> QED BY <1>1, <2>1 DEF WakeInv, Starting, Labels
<1>6. CASE CreateManager
  <2>1. /\ pc["main"] = "create_manager"
        /\ pc' = [pc EXCEPT !["main"] = "join_network", !["manager"] = "pre"]
        /\ UNCHANGED <<states, report, handler>>
    BY <1>6 DEF CreateManager, Create, At
  <2> QED BY <1>1, <2>1 DEF WakeInv, Starting, Labels
<1>7. CASE JoinNetwork
  BY <1>2, <1>7, Moves DEF JoinNetwork, Labels
<1>8. CASE JoinManager
  BY <1>8 DEF JoinManager, WakeInv, Starting
<1>9. CASE IsRepeat \/ IsNormal \/ CancelledInSend
  <2>1. PICK from \in Labels \ {"none"}, to \in Labels : Pass("network", from, to)
    BY <1>9 DEF IsRepeat, IsNormal, CancelledInSend, Labels
  <2> QED BY <1>2, <2>1, Moves
<1>10. CASE SendFails
  BY <1>10 DEF SendFails, Fail, WakeInv, Starting
\* A step of the manager that leaves the states alone.
<1>11. ASSUME UNCHANGED <<states, handler>>, NEW to, pc["manager"] # "none",
              pc' = [pc EXCEPT !["manager"] = to]
       PROVE  /\ ~Starting /\ pc'["main"] = pc["main"] /\ pc'["manager"] = to
              /\ pc["main"] \notin {"none", "create_network", "create_manager"}
  BY <1>1, <1>11 DEF WakeInv, Starting
<1>12. CASE LoadPre
  <2>1. /\ pc["manager"] = "pre" /\ pc' = [pc EXCEPT !["manager"] = "compare"]
        /\ seen' = pre_state_var
        /\ UNCHANGED <<states, asked, reported, handler>>
    BY <1>12 DEF LoadPre, At, Goto
  <2> QED BY <1>11, <2>1 DEF WakeInv, Starting
<1>13. CASE Compare
  <2>1. /\ pc["manager"] = "compare" /\ UNCHANGED <<states, report, handler>>
        /\ pc' = [pc EXCEPT !["manager"] = IF seen # state_var THEN "load" ELSE "pre"]
    BY <1>13, Moves DEF Compare, Labels
  <2> QED BY <1>11, <2>1 DEF WakeInv, Starting
<1>14. CASE Load
  <2>1. /\ pc["manager"] = "load" /\ pc' = [pc EXCEPT !["manager"] = "store"]
        /\ seen' = state_var
        /\ UNCHANGED <<states, asked, reported, handler>>
    BY <1>14 DEF Load, At, Goto
  <2> QED BY <1>11, <2>1 DEF WakeInv, Starting
<1>15. CASE Store
  <2>1. /\ pc["manager"] = "store" /\ pc' = [pc EXCEPT !["manager"] = "report"]
        /\ pre_state_var' = seen
        /\ UNCHANGED <<state_var, seen, reported, handler>>
    BY <1>15 DEF Store, At, Goto
  <2>2. pc'["main"] = pc["main"] /\ pc'["manager"] = "report"
    BY <1>1, <2>1
  <2> QED BY <1>1, <2>1, <2>2 DEF WakeInv, Starting
<1>16. CASE Report
  <2>1. /\ pc["manager"] = "report"
        /\ UNCHANGED <<states, seen, handler>>
    BY <1>16, Reporting
  <2>2. state_var = "wake_up" =>
          /\ pre_state_var = "wake_up"
          /\ reported["wake_up"] = 0
    BY <1>1, <2>1 DEF WakeInv
  <2>3. /\ ~Starting /\ ~Starting'
        /\ pc'["main"] = pc["main"]
        /\ pc["main"] \notin {"none", "create_network", "create_manager"}
    BY <1>1, <1>16, <2>1, Reporting DEF WakeInv, Starting
  <2>4. CASE state_var = "wake_up" /\ Reports[asked] = "wake_up"
    <3>1. reported'["wake_up"] = 1 /\ pc'["manager"] = "pre"
      BY <1>1, <1>16, <2>2, <2>4, Reporting
    <3> QED BY <2>1, <2>2, <2>3, <2>4, <3>1 DEF WakeInv
  <2>5. CASE state_var = "wake_up" /\ Reports[asked] # "wake_up"
    <3>1. /\ reported' = reported
          /\ pc'["manager"] \in {"report", "pre"}
      BY <1>1, <1>16, <2>1, <2>5, Reporting
    <3> QED BY <2>1, <2>2, <2>3, <2>5, <3>1 DEF WakeInv
  <2>6. CASE state_var # "wake_up"
    <3>1. reported'["wake_up"] = reported["wake_up"]
      BY <1>1, <1>16, <2>6, Reporting
    <3> QED BY <2>1, <2>3, <2>6, <3>1 DEF WakeInv
  <2> QED BY <2>4, <2>5, <2>6
<1>17. CASE CancelNetwork \/ CancelManager
  <2>1. PICK from \in {"cancel_network", "cancel_manager"},
             to \in {"cancel_manager", "join"} :
          /\ pc["manager"] = from /\ pc' = [pc EXCEPT !["manager"] = to]
          /\ UNCHANGED <<states, report, handler>>
    BY <1>17 DEF CancelNetwork, CancelManager, CancelThread, At, Goto
  <2> QED BY <1>11, <2>1 DEF WakeInv, Starting
<1>18. CASE CancelledInJoin \/ JoinReturns \/ Delete
  <2>1. CASE CancelledInJoin \/ JoinReturns
    <3>1. PICK from \in {"join", "join_self"}, to \in {"join_self", "delete", "done"} :
            Pass("manager", from, to)
      BY <2>1 DEF CancelledInJoin, JoinReturns
    <3>2. /\ pc["manager"] = from /\ pc' = [pc EXCEPT !["manager"] = to]
          /\ UNCHANGED <<states, report, handler>>
      BY <3>1, Moves DEF Labels
    <3> QED BY <1>11, <3>2 DEF WakeInv, Starting
  <2>2. CASE Delete
    BY <2>2 DEF Delete, Fail, WakeInv, Starting
  <2> QED BY <1>18, <2>1, <2>2
<1>19. CASE EndState
  BY <1>19 DEF EndState, WakeInv, Starting
<1>20. CASE EndPre
  BY <1>20 DEF EndPre, WakeInv, Starting
<1>21. ASSUME NEW p \in Threads, Signal(p) PROVE WakeInv'
  <2>1. Starting => p = "main"
    BY <1>21 DEF Signal, WakeInv
  <2> QED BY <1>21, <2>1 DEF Signal, WakeInv, Starting
<1>22. ASSUME NEW stat \in Commands, GetNmState(stat) PROVE WakeInv'
  BY <1>22 DEF GetNmState, WakeInv, Starting
<1>23. CASE UNCHANGED vars
  BY <1>23 DEF vars, WakeInv, Starting
<1> QED
  BY <1>3, <1>4, <1>5, <1>6, <1>7, <1>8, <1>9, <1>10, <1>12, <1>13, <1>14, <1>15, <1>16,
     <1>17, <1>18, <1>19, <1>20, <1>21, <1>22, <1>23, NextCases, Zenon

\* Unless GetNmState() is called with it, wake_up is reported once at most,
\* wherever the handler's stores fall between the manager's loads.
THEOREM OneWakeUp ==
  ASSUME "wake_up" \notin Commands
  PROVE  Spec => []WakesOnce
<1>1. Init => WakeInv
  BY DEF Init, WakeInv, Starting, States
<1>2. WakeInv => WakesOnce
  BY DEF WakeInv, WakesOnce
<1>3. TypeOK /\ WakeInv /\ [Next]_vars => WakeInv'
  BY WakeStep
<1> QED BY <1>1, <1>2, <1>3, TypeCorrect, PTL DEF Spec
=============================================================================
