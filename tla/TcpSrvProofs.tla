----------------------------- MODULE TcpSrvProofs -----------------------------
(***************************************************************************)
(* Theorems about module TcpSrv, for any connections in any order: nothing *)
(* is called before it is registered, a Display() is of one database, and  *)
(* what a line of one address shows is wrong only where the other thread   *)
(* used the buffer, too.                                                   *)
(***************************************************************************)
EXTENDS TcpSrv, SequenceTheorems, TLAPS

USE AddressesAssumption DEF Threads

LEMMA NextCases ==
  ASSUME Next
  PROVE  \/ RegisterListener \/ Start \/ Started \/ Listening
         \/ ReadLock \/ NextClient \/ Shown \/ Unlock
         \/ Display \/ Return
         \/ PrintServer \/ PrintClient \/ Update \/ Accepted
         \/ \E p \in Threads : Clear(p) \/ Fill(p)
         \/ \E c \in Clients : Accept(c)
BY Zenon DEF Next, Main, Manager, Convert

MainLabels ==
  {"register", "start", "started", "scanf", "listening", "lock", "next", "line", "exited"}
ManagerLabels == {"none", "accept", "server", "connected", "update", "accepted"}
Labels == MainLabels \cup ManagerLabels

\* Each thread is in its own code.
Places ==
  /\ pc \in [Threads -> Labels]
  /\ pc["main"] \in MainLabels /\ pc["manager"] \in ManagerLabels

Flags == {running, reading} \subseteq BOOLEAN

\* The listeners are registered before the manager's thread is created.
Registered ==
  /\ listeners \in {"garbage", "set"}
  /\ pc["main"] # "register" => listeners = "set"
  /\ pc["main"] \in {"register", "start"} => pc["manager"] = "none"

\* Display() holds the lock while it goes through the database.
Locked == reading <=> pc["main"] \in {"next", "line"}

Database ==
  /\ db \in Seq(Clients)
  /\ cursor \in 1..(Len(db) + 1)
  /\ pc["main"] = "line" => cursor <= Len(db)
  /\ client \in Clients \cup {NULL}
  /\ pc["manager"] \in {"server", "connected", "update", "accepted"} => client \in Clients

BufferType ==
  /\ todo \in [Threads -> SUBSET Addresses]
  /\ writing \in [Threads -> Addresses \cup {NULL}]
  /\ str_ip \in Addresses \cup {NULL, Mixed}
  /\ shared \subseteq Threads

\* The addresses p converts are those its line tells of, and unless the line
\* is marked as shared, nobody else has used the buffer since it began.
LineOK(p) ==
  /\ writing[p] \in todo[p] \cup {NULL}
  /\ ~InLine(p) => Ready(p)
  /\ InLine(p) => todo[p] \subseteq About(p)
  /\ InLine(p) /\ p \notin shared =>
       /\ \A q \in Threads \ {p} : writing[q] = NULL
       /\ Ready(p) => str_ip \in About(p)

Lines == \A p \in Threads : LineOK(p)

Inv ==
  /\ Places
  /\ Flags
  /\ Registered
  /\ Locked
  /\ Database
  /\ BufferType
  /\ Lines

LEMMA GotoEffect ==
  ASSUME pc \in [Threads -> Labels], NEW p \in Threads, NEW label \in Labels, Goto(p, label)
  PROVE  /\ pc' \in [Threads -> Labels]
         /\ pc'[p] = label
         /\ \A q \in Threads : q # p => pc'[q] = pc[q]
BY DEF Goto

LEMMA AboutIs ==
  ASSUME NEW p \in Threads
  PROVE  /\ pc[p] \in {"started", "listening", "server"} => About(p) = {Server}
         /\ pc[p] = "line" => About(p) = {db[cursor], Server}
         /\ pc[p] \in {"connected", "accepted"} => About(p) = {client}
BY DEF About

LEMMA AboutIsNext ==
  ASSUME NEW p \in Threads
  PROVE  /\ pc'[p] \in {"started", "listening", "server"} => About(p)' = {Server}
         /\ pc'[p] = "line" => About(p)' = {db'[cursor'], Server}
         /\ pc'[p] \in {"connected", "accepted"} => About(p)' = {client'}
BY DEF About

\* What a thread's line tells does not change while the other thread goes on.
LEMMA AboutKept ==
  ASSUME NEW p \in Threads, InLine(p), pc'[p] = pc[p],
         pc[p] = "line" => db'[cursor'] = db[cursor],
         pc[p] \in {"connected", "accepted"} => client' = client
  PROVE  InLine(p)' /\ About(p)' = About(p)
<1>1. InLine(p)'
  BY DEF InLine
<1>2. About(p)' = About(p)
  BY AboutIs, AboutIsNext DEF InLine
<1> QED BY <1>1, <1>2

-----------------------------------------------------------------------------
(* Lines, as the threads begin them, convert their addresses and print them. *)

\* What p's step does to the other thread's line: nothing, where the buffer is
\* left alone.
LEMMA OtherLine ==
  ASSUME NEW q \in Threads, LineOK(q), pc'[q] = pc[q],
         pc[q] = "line" => db'[cursor'] = db[cursor],
         pc[q] \in {"connected", "accepted"} => client' = client,
         UNCHANGED <<writing, str_ip>>, todo'[q] = todo[q], q \in shared' <=> q \in shared
  PROVE  LineOK(q)'
<1>1. CASE InLine(q)
  <2>1. InLine(q)' /\ About(q)' = About(q)
    BY <1>1, AboutKept
  <2>2. Ready(q)' <=> Ready(q)
    BY DEF Ready
  <2> QED BY <1>1, <2>1, <2>2 DEF LineOK
<1>2. CASE ~InLine(q)
  <2>1. ~(InLine(q)') /\ Ready(q)'
    BY <1>2 DEF InLine, LineOK, Ready
  <2> QED BY <1>2, <2>1 DEF LineOK, Ready
<1> QED BY <1>1, <1>2

\* A line was printed, or there was none.
LEMMA Printed ==
  ASSUME NEW p \in Threads, LineOK(p), Ready(p), UNCHANGED buffer, ~(InLine(p)')
  PROVE  LineOK(p)'
<1>1. Ready(p)'
  BY DEF Ready, buffer
<1> QED BY <1>1 DEF LineOK, Ready, buffer

\* A line begins.
LEMMA LineBegins ==
  ASSUME NEW p \in Threads, BufferType, Places, Ready(p), NEW label \in Labels,
         NEW addresses, Line(p, label, addresses), addresses # {},
         addresses \subseteq Addresses, About(p)' = addresses,
         label \in {"listening", "line", "server", "connected", "accepted"}
  PROVE  /\ LineOK(p)' /\ BufferType' /\ InLine(p)'
         /\ UNCHANGED <<writing, str_ip>>
         /\ \A q \in Threads : q # p => todo'[q] = todo[q] /\ (q \in shared' <=> q \in shared)
<1>1. Goto(p, label)
  BY DEF Line
<1>2. pc'[p] = label
  BY <1>1, GotoEffect DEF Places
<1>3. InLine(p)'
  BY <1>2 DEF InLine
<1>4. /\ todo' = [todo EXCEPT ![p] = addresses]
      /\ shared' = IF AlsoConverts(p) THEN shared \cup {p} ELSE shared \ {p}
      /\ writing' = writing /\ str_ip' = str_ip
  BY DEF Line
<1>5. todo'[p] = addresses /\ \A q \in Threads : q # p => todo'[q] = todo[q]
  BY <1>4 DEF BufferType
<1>6. \A q \in Threads : q # p => (q \in shared' <=> q \in shared)
  BY <1>4
<1>7. BufferType'
  BY <1>4 DEF BufferType
<1>8. p \notin shared' => \A q \in Threads \ {p} : writing'[q] = NULL
  BY <1>4 DEF AlsoConverts
<1>9. ~(Ready(p)')
  BY <1>5 DEF Ready
<1>10. writing'[p] = NULL
  BY <1>4 DEF Ready
<1>11. LineOK(p)'
  BY <1>3, <1>5, <1>8, <1>9, <1>10 DEF LineOK
<1> QED BY <1>3, <1>4, <1>5, <1>6, <1>7, <1>11

\* The buffer is cleared for one of p's addresses.
LEMMA ClearStep ==
  ASSUME Inv, NEW p \in Threads, Clear(p) PROVE Lines' /\ BufferType'
<1>1. /\ writing[p] = NULL /\ str_ip' = NULL
      /\ UNCHANGED <<listeners, running, reading, cursor, db, pc, client, todo>>
      /\ shared' = shared \cup {q \in Threads \ {p} : InLine(q)}
  BY DEF Clear, Touch, display
<1>2. PICK a \in todo[p] : writing' = [writing EXCEPT ![p] = a]
  BY DEF Clear
<1>3. BufferType
  BY DEF Inv
<1>4. a \in Addresses /\ a # NULL
  BY <1>3 DEF BufferType, Addresses
<1>5. BufferType'
  BY <1>1, <1>2, <1>3, <1>4 DEF BufferType
<1>6. writing'[p] = a /\ \A q \in Threads : q # p => writing'[q] = writing[q]
  BY <1>2, <1>3 DEF BufferType
<1>7. \A q \in Threads : (InLine(q)' <=> InLine(q)) /\ About(q)' = About(q)
  BY <1>1 DEF InLine, About
<1>8. \A q \in Threads : LineOK(q)
  BY DEF Inv, Lines
<1>9. LineOK(p)'
  <2>1. todo[p] # {} /\ InLine(p)
    BY <1>2, <1>8 DEF LineOK, Ready
  <2>2. ~(Ready(p)')
    BY <1>4, <1>6 DEF Ready
  <2>3. p \in shared' <=> p \in shared
    BY <1>1
  <2> QED BY <1>1, <1>2, <1>6, <1>7, <1>8, <2>1, <2>2, <2>3 DEF LineOK
<1>10. ASSUME NEW q \in Threads, q # p PROVE LineOK(q)'
  <2>1. InLine(q) => q \in shared'
    BY <1>1, <1>10
  <2>2. Ready(q)' <=> Ready(q)
    BY <1>1, <1>6, <1>10 DEF Ready
  <2> QED BY <1>1, <1>6, <1>7, <1>8, <1>10, <2>1, <2>2 DEF LineOK
<1>11. Lines'
  BY <1>9, <1>10 DEF Lines
<1> QED BY <1>5, <1>11

\* The address is written there.
LEMMA FillStep ==
  ASSUME Inv, NEW p \in Threads, Fill(p) PROVE Lines' /\ BufferType'
<1>1. /\ writing[p] # NULL
      /\ str_ip' = writing[p] \/ (AlsoConverts(p) /\ str_ip' = Mixed)
      /\ UNCHANGED <<listeners, running, reading, cursor, db, pc, client>>
      /\ shared' = shared \cup {q \in Threads \ {p} : InLine(q)}
      /\ todo' = [todo EXCEPT ![p] = @ \ {writing[p]}]
      /\ writing' = [writing EXCEPT ![p] = NULL]
  BY DEF Fill, Touch, display
<1>2. BufferType
  BY DEF Inv
<1>3. BufferType'
  BY <1>1, <1>2 DEF BufferType
<1>4. /\ writing'[p] = NULL /\ todo'[p] = todo[p] \ {writing[p]}
      /\ \A q \in Threads : q # p => writing'[q] = writing[q] /\ todo'[q] = todo[q]
  BY <1>1, <1>2 DEF BufferType
<1>5. \A q \in Threads : (InLine(q)' <=> InLine(q)) /\ About(q)' = About(q)
  BY <1>1 DEF InLine, About
<1>6. \A q \in Threads : LineOK(q)
  BY DEF Inv, Lines
<1>7. LineOK(p)'
  <2>1. writing[p] \in todo[p] /\ InLine(p)
    BY <1>1, <1>6 DEF LineOK, Ready
  <2>2. writing[p] \in About(p)
    BY <1>6, <2>1 DEF LineOK
  <2>3. p \in shared' <=> p \in shared
    BY <1>1
  <2>4. p \notin shared => \A q \in Threads \ {p} : writing[q] = NULL
    BY <1>6, <2>1 DEF LineOK
  <2>5. p \notin shared => str_ip' = writing[p]
    BY <1>1, <2>4 DEF AlsoConverts
  <2> QED BY <1>4, <1>5, <1>6, <2>1, <2>2, <2>3, <2>4, <2>5 DEF LineOK
<1>8. ASSUME NEW q \in Threads, q # p PROVE LineOK(q)'
  <2>1. InLine(q) => q \in shared'
    BY <1>1, <1>8
  <2>2. Ready(q)' <=> Ready(q)
    BY <1>4, <1>8 DEF Ready
  <2> QED BY <1>4, <1>5, <1>6, <1>8, <2>1, <2>2 DEF LineOK
<1>9. Lines'
  BY <1>7, <1>8 DEF Lines
<1> QED BY <1>3, <1>9

-----------------------------------------------------------------------------
(* The invariant, step by step. *)

LEMMA InvInit == Init => Inv
<1> SUFFICES ASSUME Init PROVE Inv
  OBVIOUS
<1>1. pc["main"] = "register" /\ pc["manager"] = "none" /\ pc \in [Threads -> Labels]
  BY DEF Init, Labels, MainLabels, ManagerLabels
<1>2. Places /\ Registered
  BY <1>1 DEF Init, Places, Registered, MainLabels, ManagerLabels
<1>3. Flags /\ ~reading
  BY Zenon DEF Init, Flags
<1>4. Locked
  <2>1. pc["main"] \notin {"next", "line"}
    BY <1>1
  <2> QED BY <1>3, <2>1, Zenon DEF Locked
<1>5. Database
  BY <1>1, EmptySeq DEF Init, Database
<1>6. BufferType
  BY DEF Init, BufferType
<1>7. Lines
  BY <1>1 DEF Init, Lines, LineOK, InLine, Ready
<1> QED BY <1>2, <1>3, <1>4, <1>5, <1>6, <1>7 DEF Inv

\* The main thread goes on and the manager's stays where it is.
LEMMA MainMoves ==
  ASSUME Inv, NEW from, NEW label \in MainLabels \ {"register", "start"},
         At("main", from), Goto("main", label), from \notin {"register", "start"},
         UNCHANGED listeners
  PROVE  /\ pc["main"] = from /\ pc'["main"] = label /\ pc'["manager"] = pc["manager"]
         /\ Ready("main") /\ Places' /\ Registered'
<1>1. /\ pc["main"] = from /\ Ready("main") /\ "main" \in Threads /\ "manager" \in Threads
      /\ label \in Labels
  BY DEF At, Labels
<1>2. Places
  BY DEF Inv
<1>3. /\ pc' \in [Threads -> Labels] /\ pc'["main"] = label
      /\ pc'["manager"] = pc["manager"]
  BY <1>1, <1>2, GotoEffect DEF Places
<1>4. Places'
  BY <1>2, <1>3 DEF Places
<1>5. Registered'
  BY <1>1, <1>2, <1>3 DEF Inv, Registered, Places, MainLabels
<1> QED BY <1>1, <1>3, <1>4, <1>5

\* Where a step of the main thread leaves the buffer and the database alone,
\* neither thread's line changes but its own, which was printed.
LEMMA MainPrinted ==
  ASSUME Inv, pc'["manager"] = pc["manager"], Ready("main"),
         UNCHANGED <<db, client, buffer>>, ~(InLine("main")')
  PROVE  BufferType' /\ Lines'
<1>1. /\ "main" \in Threads /\ "manager" \in Threads
      /\ LineOK("main") /\ LineOK("manager")
  BY DEF Inv, Lines
<1>2. LineOK("main")'
  BY <1>1, Printed
<1>3. pc["manager"] # "line"
  BY DEF Inv, Places, ManagerLabels
<1>4. LineOK("manager")'
  BY <1>1, <1>3, OtherLine DEF buffer
<1>5. BufferType'
  BY DEF Inv, BufferType, buffer
<1> QED BY <1>2, <1>4, <1>5 DEF Lines

\* The main thread begins a line.
LEMMA MainLine ==
  ASSUME Inv, pc'["manager"] = pc["manager"], Ready("main"), UNCHANGED <<db, client>>,
         NEW label \in {"listening", "line"}, NEW addresses,
         Line("main", label, addresses), addresses # {}, addresses \subseteq Addresses,
         About("main")' = addresses
  PROVE  BufferType' /\ Lines'
<1>1. /\ "main" \in Threads /\ "manager" \in Threads /\ "main" # "manager"
      /\ LineOK("main") /\ LineOK("manager") /\ BufferType /\ Places
      /\ label \in Labels
  BY DEF Inv, Lines, Labels, MainLabels
<1>2. /\ LineOK("main")' /\ BufferType' /\ UNCHANGED <<writing, str_ip>>
      /\ todo'["manager"] = todo["manager"] /\ ("manager" \in shared' <=> "manager" \in shared)
  BY <1>1, LineBegins
<1>3. pc["manager"] # "line"
  BY DEF Inv, Places, ManagerLabels
<1>4. LineOK("manager")'
  BY <1>1, <1>2, <1>3, OtherLine
<1> QED BY <1>2, <1>4 DEF Lines

LEMMA RegisterStep == ASSUME Inv, RegisterListener PROVE Inv'
<1>1. /\ pc["main"] = "register" /\ Ready("main") /\ Goto("main", "start")
      /\ listeners' = "set"
      /\ UNCHANGED <<cursor, db, client, buffer>>
  BY DEF RegisterListener, At, display
<1>2. UNCHANGED <<running, reading>>
  BY Zenon DEF RegisterListener, display
<1>3. "start" \in Labels /\ "main" \in Threads /\ "manager" \in Threads /\ Places
  BY DEF Labels, MainLabels, Inv
<1>4. /\ pc' \in [Threads -> Labels] /\ pc'["main"] = "start"
      /\ pc'["manager"] = pc["manager"]
  BY <1>1, <1>3, GotoEffect DEF Places
<1>5. pc["manager"] = "none"
  BY <1>1 DEF Inv, Registered
<1>6. Places' /\ Registered'
  BY <1>1, <1>3, <1>4, <1>5 DEF Places, Registered, MainLabels
<1>7. Flags' /\ Locked'
  <2>1. pc["main"] \notin {"next", "line"} /\ pc'["main"] \notin {"next", "line"}
    BY <1>1, <1>4
  <2> QED BY <1>2, <2>1, Zenon DEF Inv, Flags, Locked
<1>8. Database'
  BY <1>1, <1>4 DEF Inv, Database
<1>9. ~(InLine("main")')
  BY <1>4 DEF InLine
<1>10. BufferType' /\ Lines'
  BY <1>1, <1>4, <1>9, MainPrinted
<1> QED BY <1>6, <1>7, <1>8, <1>10, Zenon DEF Inv

\* The manager's thread is created, and has no line yet.
LEMMA StartStep == ASSUME Inv, Start PROVE Inv'
<1>1. /\ pc["main"] = "start" /\ Ready("main")
      /\ pc' = [pc EXCEPT !["main"] = "started", !["manager"] = "accept"]
      /\ todo' = [todo EXCEPT !["main"] = {Server}]
      /\ UNCHANGED <<listeners, cursor, db, client, writing, str_ip, shared>>
  BY DEF Start, At, display
<1>2. UNCHANGED <<running, reading>>
  BY Zenon DEF Start, display
<1>3. Places /\ Registered /\ BufferType /\ "main" \in Threads /\ "manager" \in Threads
  BY DEF Inv
<1>4. pc["manager"] = "none" /\ listeners = "set"
  BY <1>1, <1>3 DEF Registered
<1>5. /\ pc' \in [Threads -> Labels]
      /\ pc'["main"] = "started" /\ pc'["manager"] = "accept"
  BY <1>1, <1>3 DEF Places, Labels, MainLabels, ManagerLabels
<1>6. Places' /\ Registered'
  BY <1>1, <1>4, <1>5 DEF Places, Registered, MainLabels, ManagerLabels
<1>7. Flags' /\ Locked'
  <2>1. pc["main"] \notin {"next", "line"} /\ pc'["main"] \notin {"next", "line"}
    BY <1>1, <1>5
  <2> QED BY <1>2, <2>1, Zenon DEF Inv, Flags, Locked
<1>8. Database'
  BY <1>1, <1>5 DEF Inv, Database
<1>9. BufferType'
  BY <1>1, <1>3 DEF BufferType, Addresses
<1>10. todo'["main"] = {Server} /\ todo'["manager"] = todo["manager"]
  BY <1>1, <1>3 DEF BufferType
<1>11. LineOK("main") /\ LineOK("manager")
  BY <1>3 DEF Inv, Lines
<1>12. writing["main"] = NULL /\ todo["manager"] = {} /\ writing["manager"] = NULL
  BY <1>1, <1>4, <1>11 DEF LineOK, Ready, InLine
<1>13. LineOK("manager")'
  BY <1>1, <1>5, <1>10, <1>12 DEF LineOK, Ready, InLine
<1>14. LineOK("main")'
  <2>1. About("main")' = {Server} /\ InLine("main")'
    BY <1>3, <1>5, AboutIsNext DEF InLine
  <2> QED BY <1>1, <1>10, <1>12, <2>1 DEF LineOK, Ready
<1> QED BY <1>6, <1>7, <1>8, <1>9, <1>13, <1>14, Zenon DEF Inv, Lines, Threads

LEMMA StartedStep == ASSUME Inv, Started PROVE Inv'
<1>1. /\ At("main", "started") /\ Goto("main", "scanf")
      /\ UNCHANGED <<listeners, cursor, db, client, buffer>>
  BY DEF Started
<1>2. running' = TRUE /\ reading' = reading
  BY Zenon DEF Started
<1>3. /\ pc["main"] = "started" /\ pc'["main"] = "scanf" /\ pc'["manager"] = pc["manager"]
      /\ Ready("main") /\ Places' /\ Registered'
  BY <1>1, MainMoves DEF MainLabels
<1>4. Flags' /\ Locked'
  <2>1. pc["main"] \notin {"next", "line"} /\ pc'["main"] \notin {"next", "line"}
    BY <1>3
  <2> QED BY <1>2, <2>1, Zenon DEF Inv, Flags, Locked
<1>5. Database'
  BY <1>1, <1>3 DEF Inv, Database
<1>6. ~(InLine("main")')
  BY <1>3 DEF InLine
<1>7. BufferType' /\ Lines'
  BY <1>1, <1>3, <1>6, MainPrinted
<1> QED BY <1>3, <1>4, <1>5, <1>7, Zenon DEF Inv

LEMMA DisplayStep == ASSUME Inv, Display PROVE Inv'
<1>1. /\ At("main", "scanf") /\ Line("main", "listening", {Server})
      /\ UNCHANGED <<listeners, cursor, db, client>>
  BY DEF Display, display
<1>2. UNCHANGED <<running, reading>>
  BY Zenon DEF Display, display
<1>3. /\ pc["main"] = "scanf" /\ pc'["main"] = "listening" /\ pc'["manager"] = pc["manager"]
      /\ Ready("main") /\ Places' /\ Registered'
  <2>1. Goto("main", "listening")
    BY <1>1 DEF Line
  <2> QED BY <1>1, <2>1, MainMoves DEF MainLabels
<1>4. Flags' /\ Locked'
  <2>1. pc["main"] \notin {"next", "line"} /\ pc'["main"] \notin {"next", "line"}
    BY <1>3
  <2> QED BY <1>2, <2>1, Zenon DEF Inv, Flags, Locked
<1>5. Database'
  BY <1>1, <1>3 DEF Inv, Database
<1>6. About("main")' = {Server}
  BY <1>3, AboutIsNext
<1>7. BufferType' /\ Lines'
  BY <1>1, <1>3, <1>6, MainLine DEF Addresses
<1> QED BY <1>3, <1>4, <1>5, <1>7, Zenon DEF Inv

LEMMA ListeningStep == ASSUME Inv, Listening PROVE Inv'
<1>1. /\ At("main", "listening") /\ Goto("main", "lock")
      /\ UNCHANGED <<listeners, cursor, db, client, buffer>>
  BY DEF Listening, display
<1>2. UNCHANGED <<running, reading>>
  BY Zenon DEF Listening, display
<1>3. /\ pc["main"] = "listening" /\ pc'["main"] = "lock" /\ pc'["manager"] = pc["manager"]
      /\ Ready("main") /\ Places' /\ Registered'
  BY <1>1, MainMoves DEF MainLabels
<1>4. Flags' /\ Locked'
  <2>1. pc["main"] \notin {"next", "line"} /\ pc'["main"] \notin {"next", "line"}
    BY <1>3
  <2> QED BY <1>2, <2>1, Zenon DEF Inv, Flags, Locked
<1>5. Database'
  BY <1>1, <1>3 DEF Inv, Database
<1>6. ~(InLine("main")')
  BY <1>3 DEF InLine
<1>7. BufferType' /\ Lines'
  BY <1>1, <1>3, <1>6, MainPrinted
<1> QED BY <1>3, <1>4, <1>5, <1>7, Zenon DEF Inv

LEMMA ReadLockStep == ASSUME Inv, ReadLock PROVE Inv'
<1>1. /\ At("main", "lock") /\ Goto("main", "next") /\ cursor' = 1
      /\ UNCHANGED <<listeners, db, client, buffer>>
  BY DEF ReadLock
<1>2. running' = running /\ reading' = TRUE
  BY Zenon DEF ReadLock
<1>3. /\ pc["main"] = "lock" /\ pc'["main"] = "next" /\ pc'["manager"] = pc["manager"]
      /\ Ready("main") /\ Places' /\ Registered'
  BY <1>1, MainMoves DEF MainLabels
<1>4. Flags' /\ Locked'
  <2>1. pc'["main"] \in {"next", "line"}
    BY <1>3
  <2> QED BY <1>2, <2>1, Zenon DEF Inv, Flags, Locked
<1>5. Database'
  BY <1>1, <1>3 DEF Inv, Database
<1>6. ~(InLine("main")')
  BY <1>3 DEF InLine
<1>7. BufferType' /\ Lines'
  BY <1>1, <1>3, <1>6, MainPrinted
<1> QED BY <1>3, <1>4, <1>5, <1>7, Zenon DEF Inv

LEMMA NextClientStep == ASSUME Inv, NextClient PROVE Inv'
<1>1. /\ At("main", "next") /\ Line("main", "line", {db[cursor], Server})
      /\ cursor <= Len(db)
      /\ UNCHANGED <<listeners, cursor, db, client>>
  BY DEF NextClient, display
<1>2. UNCHANGED <<running, reading>>
  BY Zenon DEF NextClient, display
<1>3. /\ pc["main"] = "next" /\ pc'["main"] = "line" /\ pc'["manager"] = pc["manager"]
      /\ Ready("main") /\ Places' /\ Registered'
  <2>1. Goto("main", "line")
    BY <1>1 DEF Line
  <2> QED BY <1>1, <2>1, MainMoves DEF MainLabels
<1>4. Flags' /\ Locked'
  <2>1. pc["main"] \in {"next", "line"} /\ pc'["main"] \in {"next", "line"}
    BY <1>3
  <2> QED BY <1>2, <2>1, Zenon DEF Inv, Flags, Locked
<1>5. Database'
  BY <1>1, <1>3 DEF Inv, Database
<1>6. About("main")' = {db[cursor], Server}
  BY <1>1, <1>3, AboutIsNext
<1>7. db[cursor] \in Clients
  BY <1>1, ElementOfSeq DEF Inv, Database
<1>8. BufferType' /\ Lines'
  BY <1>1, <1>3, <1>6, <1>7, MainLine DEF Addresses
<1> QED BY <1>3, <1>4, <1>5, <1>8, Zenon DEF Inv

LEMMA ShownStep == ASSUME Inv, Shown PROVE Inv'
<1>1. /\ At("main", "line") /\ Goto("main", "next") /\ cursor' = cursor + 1
      /\ UNCHANGED <<listeners, db, client, buffer>>
  BY DEF Shown
<1>2. UNCHANGED <<running, reading>>
  BY Zenon DEF Shown
<1>3. /\ pc["main"] = "line" /\ pc'["main"] = "next" /\ pc'["manager"] = pc["manager"]
      /\ Ready("main") /\ Places' /\ Registered'
  BY <1>1, MainMoves DEF MainLabels
<1>4. Flags' /\ Locked'
  <2>1. pc["main"] \in {"next", "line"} /\ pc'["main"] \in {"next", "line"}
    BY <1>3
  <2> QED BY <1>2, <2>1, Zenon DEF Inv, Flags, Locked
<1>5. Database'
  BY <1>1, <1>3 DEF Inv, Database
<1>6. ~(InLine("main")')
  BY <1>3 DEF InLine
<1>7. BufferType' /\ Lines'
  BY <1>1, <1>3, <1>6, MainPrinted
<1> QED BY <1>3, <1>4, <1>5, <1>7, Zenon DEF Inv

LEMMA UnlockStep == ASSUME Inv, Unlock PROVE Inv'
<1>1. /\ At("main", "next") /\ Goto("main", "scanf")
      /\ UNCHANGED <<listeners, cursor, db, client, buffer>>
  BY DEF Unlock
<1>2. running' = running /\ reading' = FALSE
  BY Zenon DEF Unlock
<1>3. /\ pc["main"] = "next" /\ pc'["main"] = "scanf" /\ pc'["manager"] = pc["manager"]
      /\ Ready("main") /\ Places' /\ Registered'
  BY <1>1, MainMoves DEF MainLabels
<1>4. Flags' /\ Locked'
  <2>1. pc'["main"] \notin {"next", "line"}
    BY <1>3
  <2> QED BY <1>2, <2>1, Zenon DEF Inv, Flags, Locked
<1>5. Database'
  BY <1>1, <1>3 DEF Inv, Database
<1>6. ~(InLine("main")')
  BY <1>3 DEF InLine
<1>7. BufferType' /\ Lines'
  BY <1>1, <1>3, <1>6, MainPrinted
<1> QED BY <1>3, <1>4, <1>5, <1>7, Zenon DEF Inv

LEMMA ReturnStep == ASSUME Inv, Return PROVE Inv'
<1>1. /\ At("main", "scanf") /\ Goto("main", "exited")
      /\ UNCHANGED <<listeners, cursor, db, client, buffer>>
  BY DEF Return, display
<1>2. UNCHANGED <<running, reading>>
  BY Zenon DEF Return, display
<1>3. /\ pc["main"] = "scanf" /\ pc'["main"] = "exited" /\ pc'["manager"] = pc["manager"]
      /\ Ready("main") /\ Places' /\ Registered'
  BY <1>1, MainMoves DEF MainLabels
<1>4. Flags' /\ Locked'
  <2>1. pc["main"] \notin {"next", "line"} /\ pc'["main"] \notin {"next", "line"}
    BY <1>3
  <2> QED BY <1>2, <2>1, Zenon DEF Inv, Flags, Locked
<1>5. Database'
  BY <1>1, <1>3 DEF Inv, Database
<1>6. ~(InLine("main")')
  BY <1>3 DEF InLine
<1>7. BufferType' /\ Lines'
  BY <1>1, <1>3, <1>6, MainPrinted
<1> QED BY <1>3, <1>4, <1>5, <1>7, Zenon DEF Inv

-----------------------------------------------------------------------------
(* The connection manager's thread. *)

LEMMA ManagerMoves ==
  ASSUME Inv, NEW from \in ManagerLabels \ {"none"}, NEW label \in ManagerLabels,
         At("manager", from), Goto("manager", label), UNCHANGED listeners
  PROVE  /\ pc["manager"] = from /\ pc'["manager"] = label /\ pc'["main"] = pc["main"]
         /\ Ready("manager") /\ Places' /\ Registered'
<1>1. /\ pc["manager"] = from /\ Ready("manager") /\ "main" \in Threads /\ "manager" \in Threads
      /\ label \in Labels
  BY DEF At, Labels
<1>2. Places
  BY DEF Inv
<1>3. /\ pc' \in [Threads -> Labels] /\ pc'["manager"] = label /\ pc'["main"] = pc["main"]
  BY <1>1, <1>2, GotoEffect DEF Places
<1>4. Places'
  BY <1>2, <1>3 DEF Places
<1>5. pc["main"] \notin {"register", "start"}
  BY <1>1 DEF Inv, Registered
<1>6. Registered'
  BY <1>3, <1>5 DEF Inv, Registered
<1> QED BY <1>1, <1>3, <1>4, <1>6

LEMMA ManagerPrinted ==
  ASSUME Inv, pc'["main"] = pc["main"], Ready("manager"),
         UNCHANGED <<db, cursor, buffer>>, ~(InLine("manager")')
  PROVE  BufferType' /\ Lines'
<1>1. /\ "main" \in Threads /\ "manager" \in Threads
      /\ LineOK("main") /\ LineOK("manager")
  BY DEF Inv, Lines
<1>2. LineOK("manager")'
  BY <1>1, Printed
<1>3. pc["main"] \notin {"connected", "accepted"}
  BY DEF Inv, Places, MainLabels
<1>4. LineOK("main")'
  BY <1>1, <1>3, OtherLine DEF buffer
<1>5. BufferType'
  BY DEF Inv, BufferType, buffer
<1> QED BY <1>2, <1>4, <1>5 DEF Lines

LEMMA ManagerLine ==
  ASSUME Inv, pc'["main"] = pc["main"], Ready("manager"), UNCHANGED cursor,
         pc["main"] = "line" => db' = db,
         NEW label \in {"server", "connected", "accepted"}, NEW addresses,
         Line("manager", label, addresses), addresses # {}, addresses \subseteq Addresses,
         About("manager")' = addresses
  PROVE  BufferType' /\ Lines'
<1>1. /\ "main" \in Threads /\ "manager" \in Threads /\ "main" # "manager"
      /\ LineOK("main") /\ LineOK("manager") /\ BufferType /\ Places
      /\ label \in Labels
  BY DEF Inv, Lines, Labels, ManagerLabels
<1>2. /\ LineOK("manager")' /\ BufferType' /\ UNCHANGED <<writing, str_ip>>
      /\ todo'["main"] = todo["main"] /\ ("main" \in shared' <=> "main" \in shared)
  BY <1>1, LineBegins
<1>3. pc["main"] \notin {"connected", "accepted"}
  BY DEF Inv, Places, MainLabels
<1>4. LineOK("main")'
  BY <1>1, <1>2, <1>3, OtherLine
<1> QED BY <1>2, <1>4 DEF Lines

\* The listeners are set by the time a connection is accepted.
LEMMA AcceptStep == ASSUME Inv, NEW c \in Clients, Accept(c) PROVE Inv'
<1>1. At("manager", "accept") /\ client' = c /\ UNCHANGED <<listeners, cursor, db>>
  BY DEF Accept, display
<1>2. UNCHANGED <<running, reading>>
  BY Zenon DEF Accept, display
<1>3. listeners = "set"
  BY <1>1 DEF At, Inv, Registered
<1>4. Line("manager", "server", {Server})
  BY <1>3 DEF Accept
<1>5. /\ pc["manager"] = "accept" /\ pc'["manager"] = "server" /\ pc'["main"] = pc["main"]
      /\ Ready("manager") /\ Places' /\ Registered'
  <2>1. Goto("manager", "server")
    BY <1>4 DEF Line
  <2> QED BY <1>1, <2>1, ManagerMoves DEF ManagerLabels
<1>6. Flags' /\ Locked'
  BY <1>2, <1>5, Zenon DEF Inv, Flags, Locked
<1>7. Database'
  BY <1>1, <1>5 DEF Inv, Database
<1>8. About("manager")' = {Server}
  BY <1>5, AboutIsNext
<1>9. BufferType' /\ Lines'
  BY <1>1, <1>4, <1>5, <1>8, ManagerLine DEF Addresses
<1> QED BY <1>5, <1>6, <1>7, <1>9, Zenon DEF Inv

LEMMA PrintServerStep == ASSUME Inv, PrintServer PROVE Inv'
<1>1. /\ At("manager", "server") /\ Line("manager", "connected", {client})
      /\ UNCHANGED <<listeners, cursor, db, client>>
  BY DEF PrintServer, display
<1>2. UNCHANGED <<running, reading>>
  BY Zenon DEF PrintServer, display
<1>3. /\ pc["manager"] = "server" /\ pc'["manager"] = "connected" /\ pc'["main"] = pc["main"]
      /\ Ready("manager") /\ Places' /\ Registered'
  <2>1. Goto("manager", "connected")
    BY <1>1 DEF Line
  <2> QED BY <1>1, <2>1, ManagerMoves DEF ManagerLabels
<1>4. Flags' /\ Locked'
  BY <1>2, <1>3, Zenon DEF Inv, Flags, Locked
<1>5. client \in Clients /\ Database'
  BY <1>1, <1>3 DEF Inv, Database
<1>6. About("manager")' = {client}
  BY <1>1, <1>3, AboutIsNext
<1>7. BufferType' /\ Lines'
  BY <1>1, <1>3, <1>5, <1>6, ManagerLine DEF Addresses
<1> QED BY <1>3, <1>4, <1>5, <1>7, Zenon DEF Inv

LEMMA PrintClientStep == ASSUME Inv, PrintClient PROVE Inv'
<1>1. /\ At("manager", "connected") /\ Goto("manager", "update")
      /\ UNCHANGED <<listeners, cursor, db, client, buffer>>
  BY DEF PrintClient, display
<1>2. UNCHANGED <<running, reading>>
  BY Zenon DEF PrintClient, display
<1>3. /\ pc["manager"] = "connected" /\ pc'["manager"] = "update" /\ pc'["main"] = pc["main"]
      /\ Ready("manager") /\ Places' /\ Registered'
  BY <1>1, ManagerMoves DEF ManagerLabels
<1>4. Flags' /\ Locked'
  BY <1>2, <1>3, Zenon DEF Inv, Flags, Locked
<1>5. Database'
  BY <1>1, <1>3 DEF Inv, Database
<1>6. ~(InLine("manager")')
  BY <1>3 DEF InLine
<1>7. BufferType' /\ Lines'
  BY <1>1, <1>3, <1>6, ManagerPrinted
<1> QED BY <1>3, <1>4, <1>5, <1>7, Zenon DEF Inv

\* The database changes while Display() is elsewhere.
LEMMA UpdateStep == ASSUME Inv, Update PROVE Inv'
<1>1. /\ At("manager", "update") /\ Line("manager", "accepted", {client})
      /\ db' = Append(db, client)
      /\ UNCHANGED <<listeners, cursor, client>>
  BY DEF Update, display
<1>2. UNCHANGED <<running, reading>> /\ ~reading
  BY Zenon DEF Update, display
<1>3. /\ pc["manager"] = "update" /\ pc'["manager"] = "accepted" /\ pc'["main"] = pc["main"]
      /\ Ready("manager") /\ Places' /\ Registered'
  <2>1. Goto("manager", "accepted")
    BY <1>1 DEF Line
  <2> QED BY <1>1, <2>1, ManagerMoves DEF ManagerLabels
<1>4. Flags' /\ Locked'
  BY <1>2, <1>3, Zenon DEF Inv, Flags, Locked
<1>5. pc["main"] # "line"
  <2>1. pc["main"] \notin {"next", "line"}
    BY <1>2, Zenon DEF Inv, Locked
  <2> QED BY <2>1
<1>6. client \in Clients
  BY <1>3 DEF Inv, Database
<1>7. db' \in Seq(Clients) /\ Len(db') = Len(db) + 1 /\ Len(db) \in Nat
  BY <1>1, <1>6, AppendProperties DEF Inv, Database
<1>8. Database'
  BY <1>1, <1>3, <1>5, <1>6, <1>7 DEF Inv, Database
<1>9. About("manager")' = {client}
  BY <1>1, <1>3, AboutIsNext
<1>10. BufferType' /\ Lines'
  BY <1>1, <1>3, <1>5, <1>6, <1>9, ManagerLine DEF Addresses
<1> QED BY <1>3, <1>4, <1>8, <1>10, Zenon DEF Inv

LEMMA AcceptedStep == ASSUME Inv, Accepted PROVE Inv'
<1>1. /\ At("manager", "accepted") /\ Goto("manager", "accept") /\ client' = NULL
      /\ UNCHANGED <<listeners, cursor, db, buffer>>
  BY DEF Accepted, display
<1>2. UNCHANGED <<running, reading>>
  BY Zenon DEF Accepted, display
<1>3. /\ pc["manager"] = "accepted" /\ pc'["manager"] = "accept" /\ pc'["main"] = pc["main"]
      /\ Ready("manager") /\ Places' /\ Registered'
  BY <1>1, ManagerMoves DEF ManagerLabels
<1>4. Flags' /\ Locked'
  BY <1>2, <1>3, Zenon DEF Inv, Flags, Locked
<1>5. Database'
  BY <1>1, <1>3 DEF Inv, Database
<1>6. ~(InLine("manager")')
  BY <1>3 DEF InLine
<1>7. BufferType' /\ Lines'
  BY <1>1, <1>3, <1>6, ManagerPrinted
<1> QED BY <1>3, <1>4, <1>5, <1>7, Zenon DEF Inv

-----------------------------------------------------------------------------

\* A conversion moves nothing but the buffer.
LEMMA ConvertStep ==
  ASSUME Inv, NEW p \in Threads, Clear(p) \/ Fill(p) PROVE Inv'
<1>1. UNCHANGED <<listeners, cursor, db, pc, client>>
  BY DEF Clear, Fill, display
<1>2. UNCHANGED <<running, reading, pc>>
  BY Zenon DEF Clear, Fill, display
<1>3. Places' /\ Registered' /\ Database'
  BY <1>1 DEF Inv, Places, Registered, Database
<1>4. Flags' /\ Locked'
  BY <1>2, Zenon DEF Inv, Flags, Locked
<1>5. Lines' /\ BufferType'
  BY ClearStep, FillStep
<1> QED BY <1>3, <1>4, <1>5, Zenon DEF Inv

LEMMA Stutter == ASSUME Inv, UNCHANGED vars PROVE Inv'
<1>1. UNCHANGED <<listeners, cursor, db, pc, client, todo, writing, str_ip, shared>>
  BY DEF vars, display, buffer
<1>2. UNCHANGED <<running, reading, pc>>
  BY Zenon DEF vars, display
<1>3. Places' /\ Registered' /\ Database' /\ BufferType'
  BY <1>1 DEF Inv, Places, Registered, Database, BufferType
<1>4. Flags' /\ Locked'
  BY <1>2, Zenon DEF Inv, Flags, Locked
<1>5. Lines'
  BY <1>1 DEF Inv, Lines, LineOK, InLine, Ready, About
<1> QED BY <1>3, <1>4, <1>5, Zenon DEF Inv

LEMMA InvStep == Inv /\ [Next]_vars => Inv'
BY NextCases, RegisterStep, StartStep, StartedStep, ListeningStep, ReadLockStep,
   NextClientStep, ShownStep, UnlockStep, DisplayStep, ReturnStep, PrintServerStep,
   PrintClientStep, UpdateStep, AcceptedStep, AcceptStep, ConvertStep, Stutter, Zenon

LEMMA Invariant == Spec => []Inv
BY InvInit, InvStep, PTL DEF Spec

-----------------------------------------------------------------------------
(* The theorems. *)

\* Every variable keeps its type; the main thread's place in the database is
\* never beyond the end of it.
THEOREM TypeCorrect == Spec => []TypeOK
<1>1. Inv => TypeOK
  <2> SUFFICES ASSUME Inv PROVE TypeOK
    OBVIOUS
  <2>1. {running, reading} \subseteq BOOLEAN
    BY Zenon DEF Inv, Flags
  <2>2. pc \in [Threads -> {"none", "register", "start", "started", "scanf", "listening",
                            "lock", "next", "line", "exited",
                            "accept", "wild", "server", "connected", "update", "accepted"}]
    BY DEF Inv, Places, Labels, MainLabels, ManagerLabels
  <2>3. /\ listeners \in {"garbage", "set"}
        /\ db \in Seq(Clients) /\ cursor \in 1..(Len(db) + 1)
        /\ client \in Clients \cup {NULL}
        /\ todo \in [Threads -> SUBSET Addresses]
        /\ writing \in [Threads -> Addresses \cup {NULL}]
        /\ str_ip \in Addresses \cup {NULL, Mixed}
        /\ shared \subseteq Threads
    BY DEF Inv, Registered, Database, BufferType
  <2> QED BY <2>1, <2>2, <2>3, Zenon DEF TypeOK
<1> QED BY <1>1, Invariant, PTL

\* The manager's thread never calls through a pointer nobody set: tcpsrv
\* registers its listeners before Start() creates the thread that tests them.
THEOREM OnlyRegisteredCalls == Spec => []NoWildCall
<1>1. Inv => NoWildCall
  BY DEF Inv, Places, ManagerLabels, NoWildCall
<1> QED BY <1>1, Invariant, PTL

\* A line that means to show one address shows that one, unless the other thread
\* used the shared buffer between the line's beginning and its printing.
THEOREM LinesRight == Spec => []RightUnlessShared
<1>1. Inv => RightUnlessShared
  <2> SUFFICES ASSUME Inv, NEW p \in Threads \ shared,
                      InLine(p), pc[p] # "line", Ready(p)
               PROVE  About(p) = {str_ip}
    BY DEF RightUnlessShared
  <2>1. str_ip \in About(p)
    BY DEF Inv, Lines, LineOK
  <2>2. \E a : About(p) = {a}
    BY AboutIs DEF InLine
  <2> QED BY <2>1, <2>2
<1> QED BY <1>1, Invariant, PTL

\* ClientDB::Display() goes through one database: the manager's Update() waits
\* for its lock.
THEOREM OneDatabaseDisplayed == Spec => DisplaysOneDatabase
<1>1. Inv /\ [Next]_vars => [pc["main"] \in {"next", "line"} => db' = db]_vars
  <2> SUFFICES ASSUME Inv, Next, pc["main"] \in {"next", "line"} PROVE db' = db
    BY Zenon
  <2>1. reading
    BY Zenon DEF Inv, Locked
  <2>2. ~Update
    BY <2>1, Zenon DEF Update
  <2> QED BY <2>2, NextCases
          DEF RegisterListener, Start, Started, Listening, ReadLock, NextClient, Shown,
              Unlock, Display, Return, PrintServer, PrintClient, Accepted, Clear, Fill, Accept
<1> QED BY <1>1, Invariant, PTL DEF Spec, DisplaysOneDatabase
=============================================================================
