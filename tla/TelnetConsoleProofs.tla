------------------------ MODULE TelnetConsoleProofs ------------------------
(***************************************************************************)
(* The telnet console for every number of connections and every set of     *)
(* calls and commands: the connections are counted, each has a handler     *)
(* that gives its place back, and, as long as nobody changes the           *)
(* configuration, deinit leaves nothing behind.                            *)
(***************************************************************************)
EXTENDS TelnetConsole, FiniteSetTheorems, TLAPS

(* The types, those of the flags and of the descriptors apart.             *)
Switches == loggerOn \in BOOLEAN /\ target \in BOOLEAN /\ telnetRunning \in BOOLEAN

Locking == {"config", "stop", "join", "stopped", "dead"}
Spots == {"none", "idle", "lookup", "quit", "leave", "ended"} \cup Locking

Located ==
    /\ telnetMutex \in 0 .. MaxConns + 2 /\ fileMutex \in 0 .. MaxConns + 1
    /\ telnetMutex \in 0 .. MaxConns => pc[telnetMutex] \in Locking
    /\ fileMutex \in 0 .. MaxConns => pc[fileMutex] \in Locking \ {"config"}
    /\ server \in {"none", "binding", "register", "select",
                   "accepted", "closing", "ended", "dead"}
    /\ pc \in [0 .. MaxConns -> Spots]
    /\ worker \in {"idle", "line", "sending", "dead"}
    /\ accepted \in 0 .. MaxConns
    /\ telnetClients \subseteq 1 .. accepted

Numbered ==
    /\ socket \in [1 .. MaxConns -> Sockets \cup {NoSocket}]
    /\ open \subseteq Sockets /\ stalled \subseteq open

(* The handlers of a number are as many as its entries.                    *)
Served ==
    server # "dead" => \A s \in Sockets : Cardinality(Entries(s)) <= Cardinality(Handlers(s))

(* A thread that holds a mutex is in a call that gives it back, so that it *)
(* never goes back to its client with it.                                  *)
Holders ==
    /\ call = [t \in 0 .. MaxConns |-> call[t]]
    /\ \A t \in 0 .. MaxConns :
        telnetMutex = t \/ fileMutex = t =>
            pc[t] = "dead" \/ call[t] \in {"on", "off", "write"}

(* The connections to come have no handler, also the one that the server   *)
(* has accepted and not yet admitted; nobody ends but with all the others. *)
Newcomers ==
    /\ \A c \in 1 .. MaxConns : c > accepted => pc[c] \in {"none", "dead"}
    /\ server = "accepted" => accepted \in 1 .. MaxConns /\ pc[accepted] = "none"
    /\ server # "dead" => \A t \in 0 .. MaxConns : pc[t] # "dead"

Threading == Located /\ Holders /\ Newcomers
Few == IsFiniteSet(telnetClients) /\ Cardinality(telnetClients) <= MaxClients

Placed == Switches /\ Numbered /\ Threading /\ Served /\ Few

(* The threads and the holders of a mutex are numbers.                     *)
LEMMA Sizes ==
         /\ MaxClients \in Nat /\ MaxConns \in Nat
         /\ Threads = 0 .. MaxConns /\ Conns = 1 .. MaxConns
         /\ Main = 0 /\ Free = MaxConns + 1 /\ Worker = MaxConns + 2
<1>1. MaxClients \in Nat /\ MaxConns \in Nat
  BY ConsoleAssumption
<1> QED
  BY <1>1 DEF Threads, Conns, Main, Free, Worker

(* The inductive invariant implies what is to be proved.                   *)
LEMMA PlacedIsServed ==
  ASSUME Placed PROVE PlacesServed
<1>1. Switches /\ Located /\ Numbered /\ Served
  BY DEF Placed, Threading
<1>2. TypeOK
  <2>1. /\ telnetMutex \in Threads \cup {Free, Worker}
        /\ fileMutex \in Threads \cup {Free}
        /\ telnetMutex \in Threads => pc[telnetMutex] \in {"config", "stop", "join", "stopped", "dead"}
        /\ fileMutex \in Threads => pc[fileMutex] \in {"stop", "join", "stopped", "dead"}
        /\ \A t \in Threads :
            pc[t] \in {"none", "idle", "lookup", "config", "stop", "join", "stopped",
                       "quit", "leave", "ended", "dead"}
    BY <1>1, Sizes DEF Located, Locking, Spots
  <2> QED
    BY <1>1, <2>1, Sizes, Zenon DEF TypeOK, Switches, Located, Numbered
<1>3. Cardinality(telnetClients) <= MaxClients
  BY DEF Placed, Few
<1> QED
  BY <1>1, <1>2, <1>3 DEF PlacesServed, Served

(* Finitely many connections are listed or have a handler.                 *)
LEMMA HandlersFinite == \A s : IsFiniteSet(Handlers(s)) /\ IsFiniteSet(Handlers(s)')
<1>1. IsFiniteSet(1 .. MaxConns)
  BY Sizes, FS_Interval
<1>2. ASSUME NEW s PROVE IsFiniteSet(Handlers(s)) /\ IsFiniteSet(Handlers(s)')
  <2>1. Handlers(s) \subseteq 1 .. MaxConns /\ Handlers(s)' \subseteq 1 .. MaxConns
    BY Sizes DEF Handlers
  <2> QED
    BY <1>1, <2>1, FS_Subset
<1> QED
  BY <1>2

LEMMA EntriesFinite == ASSUME Few PROVE \A s : IsFiniteSet(Entries(s))
<1>1. ASSUME NEW s PROVE IsFiniteSet(Entries(s))
  <2>1. Entries(s) \subseteq telnetClients
    BY DEF Entries
  <2> QED
    BY <2>1, FS_Subset DEF Few
<1> QED
  BY <1>1

(* Nobody holds a mutex at first.                                          *)
LEMMA PlacedInit == ASSUME Init PROVE Placed
<1>1. Switches
  BY Zenon DEF Init, Switches
<1>2. /\ telnetMutex = MaxConns + 1 /\ fileMutex = MaxConns + 1 /\ telnetClients = {}
      /\ server = "none" /\ worker = "idle" /\ accepted = 0
      /\ open = {} /\ stalled = {} /\ socket = [c \in 1 .. MaxConns |-> NoSocket]
      /\ pc = [t \in 0 .. MaxConns |-> IF t = 0 THEN "idle" ELSE "none"]
      /\ call = [t \in 0 .. MaxConns |-> "none"]
  BY Sizes DEF Init
<1>3. Threading
  BY <1>2, Sizes DEF Threading, Located, Holders, Newcomers, Locking, Spots
<1>4. Few
  BY <1>2, Sizes, FS_EmptySet DEF Few
<1>5. Numbered
  BY <1>2 DEF Numbered
<1>6. Served
  <2>1. ASSUME NEW s \in Sockets
        PROVE  Cardinality(Entries(s)) = 0 /\ Cardinality(Handlers(s)) \in Nat
    <3>1. Entries(s) = {}
      BY <1>2 DEF Entries
    <3> QED
      BY <3>1, FS_EmptySet, HandlersFinite, FS_CardinalityType
  <2> QED
    BY <2>1 DEF Served
<1> QED
  BY <1>1, <1>3, <1>4, <1>5, <1>6 DEF Placed

(* A thread goes on without touching the mutexes, to a place where it may  *)
(* have one only if it has none or had a call that gives it back.          *)
LEMMA ThreadMoves ==
  ASSUME Threading, NEW t \in 0 .. MaxConns, NEW at \in Spots, NEW doing,
         Goto(t, at, doing), pc[t] \notin {"none", "dead"}, at \notin {"none", "dead"},
         UNCHANGED <<accepted, worker>>, telnetClients' \subseteq telnetClients,
         server' \in {server, "none", "binding"}, server = "dead" => server' = "dead",
         telnetMutex' \in 0 .. MaxConns + 2, fileMutex' \in 0 .. MaxConns + 1,
         telnetMutex' = telnetMutex \/ telnetMutex' \in {t, MaxConns + 1},
         fileMutex' = fileMutex \/ fileMutex' \in {t, MaxConns + 1},
         telnetMutex' = t => at \in Locking /\ doing \in {"on", "off", "write"},
         fileMutex' = t => at \in Locking \ {"config"} /\ doing \in {"on", "off", "write"}
  PROVE  Threading'
<1>1. /\ MaxConns \in Nat /\ pc \in [0 .. MaxConns -> Spots] /\ accepted \in 0 .. MaxConns
      /\ pc' = [pc EXCEPT ![t] = at] /\ call' = [call EXCEPT ![t] = doing]
  BY Sizes DEF Threading, Located, Goto
<1>2. Located'
  BY <1>1, Sizes DEF Threading, Located
<1>4. Holders'
  <2>1. call = [u \in 0 .. MaxConns |-> call[u]]
    BY DEF Threading, Holders
  <2>2. /\ call' = [u \in 0 .. MaxConns |-> call'[u]] /\ call'[t] = doing
        /\ \A u \in 0 .. MaxConns : u # t => call'[u] = call[u] /\ pc'[u] = pc[u]
    BY <1>1, <2>1
  <2>3. ASSUME NEW u \in 0 .. MaxConns, telnetMutex' = u \/ fileMutex' = u
        PROVE  pc'[u] = "dead" \/ call'[u] \in {"on", "off", "write"}
    <3>1. CASE u = t
      BY <2>2, <2>3, <3>1
    <3>2. CASE u # t
      <4>1. telnetMutex = u \/ fileMutex = u
        BY <1>1, <2>3, <3>2
      <4> QED
        BY <2>2, <3>2, <4>1 DEF Threading, Holders
    <3> QED
      BY <3>1, <3>2
  <2> QED
    BY <2>2, <2>3 DEF Holders
<1>5. Newcomers'
  BY <1>1 DEF Threading, Located, Newcomers
<1> QED
  BY <1>2, <1>4, <1>5 DEF Threading

(* The process ends.                                                       *)
LEMMA CrashEndsAll ==
  ASSUME Threading, Crash, UNCHANGED <<telnetMutex, telnetClients, accepted>>,
         fileMutex' = fileMutex
  PROVE  Threading'
BY Sizes DEF Threading, Located, Holders, Newcomers, Locking, Spots, Crash

(* The steps of a thread's calls and commands.                             *)
LEMMA StepPlaces ==
  ASSUME Threading, NEW t \in 0 .. MaxConns, Step(t)
  PROVE  Threading'
<1>0. /\ MaxConns \in Nat /\ pc \in [0 .. MaxConns -> Spots]
      /\ telnetMutex \in 0 .. MaxConns + 2 /\ fileMutex \in 0 .. MaxConns + 1
      /\ telnetMutex = t => pc[t] \in Locking
      /\ fileMutex = t => pc[t] \in Locking \ {"config"}
      /\ telnetMutex = t \/ fileMutex = t => call[t] \in {"on", "off", "write"} \/ pc[t] = "dead"
      /\ Free = MaxConns + 1 /\ Main = 0
  BY Sizes DEF Threading, Located, Holders
<1>s. /\ {"idle", "quit", "config", "stop", "join", "stopped"} \subseteq Spots \ {"none", "dead", "ended"}
      /\ {"config", "stop", "join", "stopped"} \subseteq Locking
  BY DEF Spots, Locking
<1>1. CASE RunCommand(t)
  <2>1. /\ pc[t] = "lookup" /\ telnetMutex = MaxConns + 1 /\ telnetMutex # t /\ fileMutex # t
        /\ UNCHANGED <<fileMutex, accepted, telnetClients>>
    BY <1>0, <1>1, <1>s DEF RunCommand, clients, Locking
  <2>2. CASE Crash /\ UNCHANGED telnetMutex
    BY <2>1, <2>2, CrashEndsAll
  <2>3. CASE /\ Goto(t, "config", IF call[t] = "log" THEN "write"
                               ELSE IF call[t] = "enable" \/ (call[t] = "level" /\ target)
                               THEN "on" ELSE "off")
             /\ telnetMutex' = t /\ UNCHANGED <<server, worker>>
    <3>1. PICK doing \in {"on", "off", "write"} : Goto(t, "config", doing)
      BY <2>3, Zenon
    <3> QED
      BY <1>0, <1>s, <2>1, <2>3, <3>1, ThreadMoves
  <2>4. CASE /\ Goto(t, "idle", "none") \/ Goto(t, "quit", "none")
             /\ UNCHANGED <<telnetMutex, server, worker>>
    <3>1. PICK at \in {"idle", "quit"} : Goto(t, at, "none")
      BY <2>4
    <3> QED
      BY <1>0, <1>s, <2>1, <2>4, <3>1, ThreadMoves
  <2> QED
    BY <1>1, <2>2, <2>3, <2>4 DEF RunCommand, Finish
<1>2. CASE Configure(t)
  <2>1. /\ pc[t] = "config" /\ fileMutex = MaxConns + 1 /\ fileMutex # t
        /\ UNCHANGED <<accepted, telnetClients>>
    BY <1>0, <1>2 DEF Configure, clients
  <2>2. CASE Release(t) /\ worker' = worker /\ server' \in {server, "binding"}
             /\ (server' # server => server = "none")
    <3>1. /\ fileMutex' = MaxConns + 1 /\ Goto(t, "idle", "none")
          /\ telnetMutex' = IF telnetMutex = t THEN MaxConns + 1 ELSE telnetMutex
      BY <1>0, <2>2 DEF Release, Finish
    <3> QED
      BY <1>0, <1>s, <2>1, <2>2, <3>1, ThreadMoves
  <2>3. CASE Crash /\ UNCHANGED <<telnetMutex, fileMutex>>
    BY <2>1, <2>3, CrashEndsAll
  <2>4. CASE /\ Goto(t, "stop", "off") /\ fileMutex' = t
             /\ UNCHANGED <<telnetMutex, server, worker>>
    BY <1>0, <1>s, <2>1, <2>4, ThreadMoves
  <2> QED
    BY <1>2, <2>2, <2>3, <2>4 DEF Configure, StartServer, mutexes
<1>3. CASE StopServer(t)
  <2>1. /\ pc[t] = "stop"
        /\ UNCHANGED <<telnetMutex, fileMutex, accepted, telnetClients, server, worker>>
    BY <1>3 DEF StopServer, clients, mutexes
  <2>2. PICK at \in {"join", "stopped"} : Goto(t, at, call[t])
    BY <1>3, Zenon DEF StopServer
  <2> QED
    BY <1>0, <1>s, <2>1, <2>2, ThreadMoves
<1>4. CASE JoinServer(t)
  <2>1. /\ pc[t] = "join" /\ Goto(t, "stopped", call[t])
        /\ server \in {"ended", "none"} /\ server' = "none"
        /\ UNCHANGED <<telnetMutex, fileMutex, accepted, telnetClients, worker>>
    BY <1>4 DEF JoinServer, clients, mutexes
  <2> QED
    BY <1>0, <1>s, <2>1, ThreadMoves
<1>5. CASE AfterStop(t)
  <2>1. /\ pc[t] = "stopped"
        /\ UNCHANGED <<accepted, telnetClients>>
    BY <1>5 DEF AfterStop, clients
  <2>2. CASE /\ call[t] \in {"init", "deinit"} /\ Finish(t)
             /\ UNCHANGED <<telnetMutex, fileMutex, worker>>
             /\ server' \in {server, "binding"} /\ (server' # server => server = "none")
    BY <1>0, <1>s, <2>1, <2>2, ThreadMoves DEF Finish
  <2>3. CASE Release(t) /\ UNCHANGED <<server, worker>>
    <3>1. /\ fileMutex' = MaxConns + 1 /\ Goto(t, "idle", "none")
          /\ telnetMutex' = IF telnetMutex = t THEN MaxConns + 1 ELSE telnetMutex
      BY <1>0, <2>3 DEF Release, Finish
    <3> QED
      BY <1>0, <1>s, <2>1, <2>3, <3>1, ThreadMoves
  <2>4. CASE Crash /\ UNCHANGED <<telnetMutex, fileMutex>>
    BY <2>1, <2>4, CrashEndsAll
  <2> QED
    BY <1>5, <2>2, <2>3, <2>4 DEF AfterStop, StartServer, mutexes
<1> QED
  BY <1>1, <1>2, <1>3, <1>4, <1>5 DEF Step

(* The calls of the main thread, and what a handler does on its own.       *)
LEMMA CallPlaces ==
  ASSUME Threading, NEW c \in Calls, Call(c)
  PROVE  Threading'
<1>0. /\ MaxConns \in Nat /\ 0 \in 0 .. MaxConns /\ Main = 0
      /\ telnetMutex \in 0 .. MaxConns + 2 /\ fileMutex \in 0 .. MaxConns + 1
      /\ pc[0] = "idle" /\ telnetMutex # 0 /\ fileMutex # 0
      /\ UNCHANGED <<telnetMutex, fileMutex, server, worker, telnetClients, accepted>>
  BY Sizes DEF Threading, Located, Locking, Call, mutexes, clients
<1>1. {"stop", "stopped", "config", "lookup"} \subseteq Spots \ {"none", "dead", "ended"}
  BY DEF Spots, Locking
<1>2. PICK at \in {"stop", "stopped", "config", "lookup"}, doing \in {c} \cup Commands :
         Goto(0, at, doing)
  BY <1>0, Zenon DEF Call
<1> QED
  BY <1>0, <1>1, <1>2, ThreadMoves

(* A handler receives a command, ends, and gives its place back.           *)
LEMMA HandlerPlaces ==
  ASSUME Threading, NEW c \in 1 .. MaxConns,
         Receive(c) \/ HangUp(c) \/ Quit(c) \/ Leave(c)
  PROVE  Threading'
<1>0. /\ MaxConns \in Nat /\ c \in 0 .. MaxConns
      /\ telnetMutex \in 0 .. MaxConns + 2 /\ fileMutex \in 0 .. MaxConns + 1
      /\ pc[c] \in {"idle", "quit", "leave"} /\ telnetMutex # c /\ fileMutex # c
      /\ UNCHANGED <<telnetMutex, fileMutex, server, worker, accepted>>
  BY Sizes DEF Threading, Located, Locking, Receive, HangUp, Quit,
     Leave, mutexes, clients
<1>1. {"idle", "lookup", "leave", "ended"} \subseteq Spots \ {"none", "dead"}
  BY DEF Spots
<1>2. CASE Receive(c) \/ HangUp(c)
  <2>1. PICK at \in {"lookup", "leave"}, doing \in {"none"} \cup Commands : Goto(c, at, doing)
    BY <1>2, Zenon DEF Receive, HangUp
  <2>2. telnetClients' = telnetClients
    BY <1>2 DEF Receive, HangUp, clients
  <2> QED
    BY <1>0, <1>1, <2>1, <2>2, ThreadMoves
<1>3. CASE Quit(c) \/ Leave(c)
  <2>1. PICK at \in {"idle", "ended"} : Goto(c, at, "none")
    BY <1>3, Zenon DEF Quit, Leave, Finish
  <2>2. telnetClients' \subseteq telnetClients
    BY <1>3 DEF Quit, Leave, EraseEntry
  <2> QED
    BY <1>0, <1>1, <2>1, <2>2, ThreadMoves
<1> QED
  BY <1>2, <1>3

(* The server, the worker, and clients that stop reading.                  *)
LEMMA ServerPlaces ==
  ASSUME Threading,
         \/ Server \/ Accept \/ Line \/ BeginSend \/ EndSend
         \/ \E s \in Sockets : Stall(s)
  PROVE  Threading'
<1> USE Sizes DEF mutexes, clients, threads
<1>0. MaxConns \in Nat /\ pc \in [0 .. MaxConns -> Spots] /\ accepted \in 0 .. MaxConns
  BY DEF Threading, Located
<1>1. CASE Bind \/ Register \/ LeaveLoop \/ CloseAll
  <2>1. /\ server \in {"binding", "register", "select", "closing"}
        /\ server' \in {"register", "select", "closing", "ended"}
        /\ UNCHANGED <<telnetMutex, fileMutex, pc, call, worker, accepted>>
        /\ telnetClients' \in {telnetClients, {}}
    BY <1>1 DEF Bind, Register, LeaveLoop, CloseAll
  <2> QED
    BY <1>0, <2>1 DEF Threading, Located, Holders, Newcomers
<1>2. CASE Accept
  <2>1. /\ accepted' = accepted + 1 /\ accepted + 1 \in 1 .. MaxConns
        /\ server = "select" /\ server' = "accepted"
        /\ UNCHANGED <<telnetMutex, fileMutex, pc, call, worker, telnetClients>>
    BY <1>0, <1>2 DEF Accept
  <2>2. pc[accepted + 1] = "none"
    BY <1>0, <2>1 DEF Threading, Newcomers
  <2> QED
    BY <1>0, <2>1, <2>2 DEF Threading, Located, Holders, Newcomers
<1>3. CASE Admit
  <2>1. /\ server = "accepted" /\ server' = "select" /\ telnetMutex = MaxConns + 1
        /\ UNCHANGED <<telnetMutex, fileMutex, worker, accepted>>
        /\ accepted \in 1 .. MaxConns /\ pc[accepted] = "none" /\ fileMutex # accepted
    BY <1>0, <1>3 DEF Admit, Threading, Located, Newcomers, Locking
  <2>2. CASE UNCHANGED <<telnetClients, pc, call>>
    BY <1>0, <2>1, <2>2 DEF Threading, Located, Holders, Newcomers
  <2>3. CASE telnetClients' = telnetClients \cup {accepted} /\ Goto(accepted, "idle", "none")
    <3>1. /\ pc' = [pc EXCEPT ![accepted] = "idle"] /\ call' = [call EXCEPT ![accepted] = "none"]
          /\ "idle" \in Spots
      BY <2>3 DEF Goto, Spots
    <3>2. Located'
      BY <1>0, <2>1, <2>3, <3>1 DEF Threading, Located
    <3>3. Holders'
      <4>1. call = [u \in 0 .. MaxConns |-> call[u]]
        BY DEF Threading, Holders
      <4>2. /\ call' = [u \in 0 .. MaxConns |-> call'[u]]
            /\ \A u \in 0 .. MaxConns : u # accepted => call'[u] = call[u] /\ pc'[u] = pc[u]
        BY <1>0, <3>1, <4>1
      <4> QED
        BY <1>0, <2>1, <4>2 DEF Threading, Holders
    <3>4. Newcomers'
      BY <1>0, <2>1, <3>1 DEF Threading, Newcomers
    <3> QED
      BY <3>2, <3>3, <3>4 DEF Threading
  <2> QED
    BY <1>3, <2>2, <2>3 DEF Admit, Finish
<1>4. CASE Line \/ BeginSend \/ EndSend
  <2>1. /\ worker' \in {"line", "sending", "idle"}
        /\ telnetMutex' \in {telnetMutex, MaxConns + 1, MaxConns + 2}
        /\ UNCHANGED <<fileMutex, server, pc, call, telnetClients, accepted>>
    BY <1>0, <1>4 DEF Line, BeginSend, EndSend
  <2> QED
    BY <1>0, <2>1 DEF Threading, Located, Holders, Newcomers
<1>5. CASE \E s \in Sockets : Stall(s)
  <2>2. UNCHANGED <<telnetMutex, fileMutex, server, pc, call, worker, telnetClients, accepted>>
    BY <1>5 DEF Stall
  <2> QED
    BY <1>0, <2>2 DEF Threading, Located, Holders, Newcomers
<1> QED
  BY <1>1, <1>2, <1>3, <1>4, <1>5 DEF Server

(* A place is taken only when one is left.                                 *)
LEMMA FewNext ==
  ASSUME Few, [Next]_vars PROVE Few'
<1>0. MaxClients \in Nat
  BY Sizes
<1>1. \/ telnetClients' \subseteq telnetClients
      \/ /\ telnetClients' = telnetClients \cup {accepted}
         /\ ~(Cardinality(telnetClients) >= MaxClients)
  BY DEF Next, vars, clients, Call, Step,
     RunCommand, Configure, StopServer, JoinServer,
     AfterStop, Receive, HangUp, Quit, Leave,
     Stall, Server, Bind, Register, LeaveLoop,
     Admit, CloseAll, Accept, Line, BeginSend,
     EndSend, EraseEntry
<1>2. CASE telnetClients' \subseteq telnetClients
  BY <1>0, <1>2, FS_Subset, FS_CardinalityType DEF Few
<1>3. CASE /\ telnetClients' = telnetClients \cup {accepted}
           /\ ~(Cardinality(telnetClients) >= MaxClients)
  <2>1. IsFiniteSet(telnetClients) /\ Cardinality(telnetClients) \in Nat
    BY FS_CardinalityType DEF Few
  <2>2. /\ IsFiniteSet(telnetClients')
        /\ Cardinality(telnetClients') \in
             {Cardinality(telnetClients), Cardinality(telnetClients) + 1}
    BY <1>3, <2>1, FS_AddElement, Zenon
  <2> QED
    BY <1>0, <1>3, <2>1, <2>2 DEF Few
<1> QED
  BY <1>1, <1>2, <1>3

(* What is switched on and off stays a flag.                               *)
LEMMA SwitchesNext ==
  ASSUME Switches, [Next]_vars PROVE Switches'
BY Zenon DEF Switches, Next, vars, clients, Call, Step,
     RunCommand, Configure, StopServer, JoinServer,
     AfterStop, Receive, HangUp, Quit, Leave,
     Stall, Server, Bind, Register, LeaveLoop,
     Admit, CloseAll, Accept, Line, BeginSend,
     EndSend, StartServer

(* Descriptors are opened and closed, and given to connections.            *)
LEMMA NumberedNext ==
  ASSUME Numbered, Threading, [Next]_vars PROVE Numbered'
<1>0. /\ MaxConns \in Nat /\ accepted \in 0 .. MaxConns
      /\ socket \in [1 .. MaxConns -> Sockets \cup {NoSocket}]
      /\ open \subseteq Sockets /\ stalled \subseteq open
  BY Sizes DEF Numbered, Threading, Located
<1>1. CASE UNCHANGED <<socket, open, stalled>>
  BY <1>0, <1>1 DEF Numbered
<1>2. CASE Accept
  BY <1>0, <1>2 DEF Accept, Numbered
<1>3. CASE \E s \in Sockets : Stall(s)
  BY <1>0, <1>3 DEF Stall, Numbered
<1>4. CASE socket' = socket /\ \E S : Close(S)
  BY <1>0, <1>4 DEF Close, Numbered
<1>5. \/ UNCHANGED <<socket, open, stalled>> \/ Accept \/ \E s \in Sockets : Stall(s)
      \/ socket' = socket /\ \E S : Close(S)
  BY Zenon DEF Next, vars, clients, sockets, Call, Step, RunCommand, Configure, StopServer,
     JoinServer, AfterStop, Receive, HangUp, Quit, Leave, Server, Bind, Register, LeaveLoop,
     Admit, CloseAll, Line, BeginSend, EndSend
<1> QED
  BY <1>1, <1>2, <1>3, <1>4, <1>5

(* A number keeps its handlers, and its entries or fewer.                  *)
LEMMA ServedKept ==
  ASSUME Served, Few, socket' = socket, telnetClients' \subseteq telnetClients,
         server' # "dead" => server # "dead",
         \A c \in 1 .. MaxConns : pc[c] \notin {"none", "ended"} => pc'[c] \notin {"none", "ended"}
  PROVE  Served'
<1>1. ASSUME NEW s \in Sockets
      PROVE  /\ Cardinality(Entries(s)') <= Cardinality(Entries(s))
             /\ Cardinality(Handlers(s)) <= Cardinality(Handlers(s)')
             /\ {Cardinality(Entries(s)'), Cardinality(Entries(s)),
                  Cardinality(Handlers(s)), Cardinality(Handlers(s)')} \subseteq Nat
  <2>1. Entries(s)' \subseteq Entries(s) /\ Handlers(s) \subseteq Handlers(s)'
    BY Sizes DEF Entries, Handlers
  <2>2. IsFiniteSet(Entries(s)) /\ IsFiniteSet(Handlers(s)) /\ IsFiniteSet(Handlers(s)')
    BY EntriesFinite, HandlersFinite
  <2> QED
    BY <2>1, <2>2, FS_Subset, FS_CardinalityType
<1> QED
  BY <1>1 DEF Served

(* A handler that ends takes one of the entries of its number off.         *)
LEMMA ServedLeave ==
  ASSUME Served, Few, Threading, NEW c \in 1 .. MaxConns, Leave(c) PROVE Served'
<1>1. /\ pc \in [0 .. MaxConns -> Spots] /\ MaxConns \in Nat
      /\ pc[c] = "leave" /\ pc' = [pc EXCEPT ![c] = "ended"]
      /\ EraseEntry(socket[c]) /\ UNCHANGED <<socket, server>>
  BY Sizes DEF Leave, Goto, Threading, Located
<1>2. ASSUME NEW s \in Sockets, s # socket[c]
      PROVE  Entries(s)' = Entries(s) /\ Handlers(s)' = Handlers(s)
  BY <1>1, <1>2, Sizes DEF EraseEntry, Entries, Handlers
<1>3. ASSUME NEW s \in Sockets, s = socket[c]
      PROVE  /\ c \in Handlers(s) /\ Handlers(s)' = Handlers(s) \ {c}
             /\ \/ Entries(s)' = {}
                \/ \E e \in Entries(s) : Entries(s)' = Entries(s) \ {e}
  BY <1>1, <1>3, Sizes DEF EraseEntry, Entries, Handlers
<1>4. ASSUME NEW s \in Sockets, server # "dead"
      PROVE  Cardinality(Entries(s)') <= Cardinality(Handlers(s)')
  <2>0. /\ Cardinality(Entries(s)) <= Cardinality(Handlers(s))
        /\ IsFiniteSet(Entries(s)) /\ IsFiniteSet(Handlers(s))
        /\ Cardinality(Entries(s)) \in Nat /\ Cardinality(Handlers(s)) \in Nat
    BY <1>4, EntriesFinite, HandlersFinite, FS_CardinalityType DEF Served
  <2>1. CASE s # socket[c]
    BY <1>2, <2>0, <2>1
  <2>2. CASE s = socket[c]
    <3>1. Cardinality(Handlers(s)') = Cardinality(Handlers(s)) - 1
      BY <1>3, <2>0, <2>2, FS_RemoveElement
    <3>2. CASE Entries(s)' = {}
      <4>1. Cardinality(Handlers(s)') \in Nat /\ Cardinality(Entries(s)') = 0
        BY <3>2, HandlersFinite, FS_CardinalityType, FS_EmptySet
      <4> QED
        BY <4>1
    <3>3. CASE \E e \in Entries(s) : Entries(s)' = Entries(s) \ {e}
      <4>1. Cardinality(Entries(s)') = Cardinality(Entries(s)) - 1
        BY <2>0, <3>3, FS_RemoveElement
      <4> QED
        BY <2>0, <3>1, <4>1
    <3> QED
      BY <1>3, <2>2, <3>2, <3>3
  <2> QED
    BY <2>1, <2>2
<1> QED
  BY <1>1, <1>4 DEF Served

(* A connection gets a place together with its handler.                    *)
LEMMA ServedAdmit ==
  ASSUME Served, Few, Threading, Admit PROVE Served'
<1>1. /\ pc \in [0 .. MaxConns -> Spots] /\ accepted \in 1 .. MaxConns /\ MaxConns \in Nat
      /\ pc[accepted] = "none" /\ socket' = socket
      /\ server = "accepted" /\ server' = "select"
  BY Sizes DEF Threading, Located, Newcomers, Admit
<1>2. CASE UNCHANGED <<telnetClients, pc>>
  BY <1>1, <1>2, ServedKept
<1>3. CASE /\ telnetClients' = telnetClients \cup {accepted}
           /\ pc' = [pc EXCEPT ![accepted] = "idle"]
  <2>1. ASSUME NEW s \in Sockets, s # socket[accepted]
        PROVE  Entries(s)' = Entries(s) /\ Handlers(s)' = Handlers(s)
    BY <1>1, <1>3, <2>1, Sizes DEF Entries, Handlers
  <2>2. ASSUME NEW s \in Sockets, s = socket[accepted]
        PROVE  /\ accepted \notin Handlers(s) /\ Handlers(s)' = Handlers(s) \cup {accepted}
               /\ Entries(s)' = Entries(s) \cup {accepted}
    BY <1>1, <1>3, <2>2, Sizes DEF Entries, Handlers
  <2>3. ASSUME NEW s \in Sockets
        PROVE  Cardinality(Entries(s)') <= Cardinality(Handlers(s)')
    <3>0. /\ Cardinality(Entries(s)) <= Cardinality(Handlers(s))
          /\ IsFiniteSet(Entries(s)) /\ IsFiniteSet(Handlers(s))
          /\ Cardinality(Entries(s)) \in Nat /\ Cardinality(Handlers(s)) \in Nat
      BY <1>1, EntriesFinite, HandlersFinite, FS_CardinalityType DEF Served
    <3>1. CASE s # socket[accepted]
      BY <2>1, <3>0, <3>1
    <3>2. CASE s = socket[accepted]
      <4>1. Cardinality(Handlers(s)') = Cardinality(Handlers(s)) + 1
        BY <2>2, <3>0, <3>2, FS_AddElement
      <4>2. Cardinality(Entries(s)') \in {Cardinality(Entries(s)), Cardinality(Entries(s)) + 1}
        BY <2>2, <3>0, <3>2, FS_AddElement
      <4> QED
        BY <3>0, <4>1, <4>2
    <3> QED
      BY <3>1, <3>2
  <2> QED
    BY <2>3 DEF Served
<1> QED
  BY <1>2, <1>3 DEF Admit, Finish, Goto, threads

(* No other step takes a handler from a number or adds an entry.           *)
Moves ==
    \/ UNCHANGED pc
    \/ \E t \in Threads, at \in Spots \ {"none", "ended"} : pc' = [pc EXCEPT ![t] = at]

LEMMA OtherSteps ==
  ASSUME [Next]_vars
  PROVE  \/ Admit \/ Accept \/ Crash
         \/ \E c \in Conns : Leave(c)
         \/ /\ telnetClients' \subseteq telnetClients /\ socket' = socket
            /\ server' # "dead" => server # "dead"
            /\ Moves
<1>1. {"idle", "lookup", "quit", "leave", "config", "stop", "join", "stopped"}
          \subseteq Spots \ {"none", "ended"}
  BY DEF Spots, Locking
<1>2. ASSUME NEW t \in Threads, NEW at \in Spots \ {"none", "ended"},
             pc' = [pc EXCEPT ![t] = at]
      PROVE  Moves
  BY <1>2 DEF Moves
<1>m. Main \in Threads /\ Conns \subseteq Threads
  BY DEF Threads
<1>3. CASE UNCHANGED vars
  BY <1>3 DEF vars, clients, threads, Moves
<1>4. CASE \E c \in Calls : Call(c)
  <2>1. PICK at \in {"stop", "stopped", "config", "lookup"} : pc' = [pc EXCEPT ![Main] = at]
    BY <1>4, Zenon DEF Call, Goto
  <2>2. UNCHANGED <<telnetClients, socket, server>>
    BY <1>4 DEF Call, clients
  <2> QED
    BY <1>1, <1>2, <1>m, <2>1, <2>2
<1>5. ASSUME NEW t \in Threads, Step(t)
      PROVE  \/ Crash
             \/ /\ UNCHANGED <<telnetClients, socket>>
                /\ server' # "dead" => server # "dead"
                /\ Moves
  <2>1. UNCHANGED <<telnetClients, socket>>
    BY <1>5 DEF Step, RunCommand, Configure, StopServer, JoinServer, AfterStop, clients
  <2>2. Crash \/ (server' # "dead" => server # "dead")
    BY <1>5, Zenon DEF Step, RunCommand, Configure, StopServer, JoinServer, AfterStop, StartServer
  <2>3. Crash \/ \E at \in {"idle", "quit", "config", "stop", "join", "stopped"} :
                    pc' = [pc EXCEPT ![t] = at]
    BY <1>5, Zenon DEF Step, RunCommand, Configure, StopServer, JoinServer, AfterStop,
       StartServer, Release, Finish, Goto
  <2> QED
    BY <1>1, <1>2, <2>1, <2>2, <2>3
<1>6. ASSUME NEW c \in Conns, Receive(c) \/ HangUp(c) \/ Quit(c)
      PROVE  /\ telnetClients' \subseteq telnetClients
             /\ UNCHANGED <<socket, server>> /\ Moves
  <2>1. telnetClients' \subseteq telnetClients /\ UNCHANGED <<socket, server>>
    BY <1>6 DEF Receive, HangUp, Quit, EraseEntry, clients
  <2>2. PICK at \in {"idle", "lookup", "leave"} : pc' = [pc EXCEPT ![c] = at]
    BY <1>6, Zenon DEF Receive, HangUp, Quit, Finish, Goto
  <2> QED
    BY <1>1, <1>2, <1>m, <2>1, <2>2
<1>7. ASSUME \/ Bind \/ Register \/ LeaveLoop \/ CloseAll \/ Line \/ BeginSend \/ EndSend
             \/ \E s \in Sockets : Stall(s)
      PROVE  /\ telnetClients' \subseteq telnetClients /\ UNCHANGED <<socket, pc>>
             /\ server' # "dead" => server # "dead"
  BY <1>7 DEF Bind, Register, LeaveLoop, CloseAll, Line, BeginSend, EndSend, Stall,
              threads, clients
<1> QED
  BY <1>3, <1>4, <1>5, <1>6, <1>7 DEF Next, Server, Moves

LEMMA ServedNext ==
  ASSUME Numbered, Served, Few, Threading, [Next]_vars PROVE Served'
<1>0. /\ pc \in [0 .. MaxConns -> Spots] /\ MaxConns \in Nat
      /\ Threads = 0 .. MaxConns /\ Conns = 1 .. MaxConns /\ Main = 0
      /\ accepted \in 0 .. MaxConns /\ telnetClients \subseteq 1 .. accepted
  BY Sizes DEF Threading, Located
<1>1. CASE Admit
  BY <1>1, ServedAdmit
<1>2. CASE \E c \in Conns : Leave(c)
  BY <1>0, <1>2, ServedLeave
<1>3. CASE Accept
  <2>1. /\ server' # "dead" /\ server # "dead" /\ accepted + 1 \in 1 .. MaxConns
        /\ UNCHANGED <<telnetClients, pc>>
    BY <1>0, <1>3 DEF Accept, threads
  <2>2. accepted + 1 \notin telnetClients /\ pc[accepted + 1] = "none"
    <3>1. pc[accepted + 1] \in {"none", "dead"} /\ pc[accepted + 1] # "dead"
      BY <1>0, <2>1 DEF Threading, Newcomers
    <3> QED
      BY <1>0, <3>1
  <2>3. PICK s \in Sockets : socket' = [socket EXCEPT ![accepted + 1] = s]
    BY <1>3, Zenon DEF Accept
  <2>4. \A c \in 1 .. MaxConns : c # accepted + 1 => socket'[c] = socket[c]
    BY <2>3 DEF Numbered
  <2>5. ASSUME NEW n \in Sockets
        PROVE  Entries(n)' = Entries(n) /\ Handlers(n)' = Handlers(n)
    <3>1. \A e \in telnetClients : e \in 1 .. MaxConns /\ e # accepted + 1
      BY <1>0, <2>2
    <3>2. \A e \in telnetClients : socket'[e] = socket[e]
      BY <2>4, <3>1
    <3>3. Entries(n)' = Entries(n)
      BY <2>1, <3>2 DEF Entries
    <3>4. \A c \in 1 .. MaxConns : pc'[c] = pc[c] /\ (pc[c] # "none" => socket'[c] = socket[c])
      BY <2>1, <2>2, <2>4
    <3>5. Handlers(n)' = Handlers(n)
      BY <1>0, <3>4 DEF Handlers
    <3> QED
      BY <3>3, <3>5
  <2> QED
    BY <2>1, <2>5 DEF Served
<1>4. CASE Crash
  BY <1>4 DEF Crash, Served
<1>5. CASE /\ telnetClients' \subseteq telnetClients /\ socket' = socket
           /\ server' # "dead" => server # "dead"
           /\ Moves
  <2>1. \A c \in 1 .. MaxConns : pc[c] \notin {"none", "ended"} => pc'[c] \notin {"none", "ended"}
    BY <1>0, <1>5 DEF Moves
  <2> QED
    BY <1>5, <2>1, ServedKept
<1> QED
  BY <1>1, <1>2, <1>3, <1>4, <1>5, OtherSteps

(* Every step keeps what is said of the threads.                           *)
LEMMA ThreadingNext ==
  ASSUME Threading, [Next]_vars PROVE Threading'
<1>1. CASE UNCHANGED vars
  BY <1>1 DEF vars, mutexes, threads, clients,
     Threading, Located, Holders, Newcomers
<1>2. CASE Next
  BY <1>2, Sizes, CallPlaces, StepPlaces, HandlerPlaces, ServerPlaces DEF Next
<1> QED
  BY <1>1, <1>2

(* The places of the console do not run out: for each entry of a number in *)
(* the list there is a handler of that number, which takes one off before  *)
(* it ends, for any number of connections and of descriptors, however      *)
(* often they are closed and used again, any calls and commands, and       *)
(* whatever stops the server when.                                         *)
THEOREM PlacesServedCorrect ==
  Spec => []PlacesServed
<1>1. Init => Placed
  BY PlacedInit
<1>2. Placed /\ [Next]_vars => Placed'
  BY ThreadingNext, NumberedNext, ServedNext, FewNext, SwitchesNext DEF Placed
<1>3. Placed => PlacesServed
  BY PlacedIsServed
<1> QED
  BY <1>1, <1>2, <1>3, PTL DEF Spec
-----------------------------------------------------------------------------
(* As long as nobody changes the configuration only the main thread starts *)
(* and stops the server: when it has none to stop there is none, a server  *)
(* that has ended has closed its connections, and with the logger off the  *)
(* main thread does nothing or has begun to start it.                      *)
Closed ==
    /\ server \in {"none", "binding", "register", "ended"} => telnetClients = {}
    /\ \A c \in 1 .. MaxConns : pc[c] \notin {"stop", "join", "stopped"}
    /\ \A t \in 0 .. MaxConns : pc[t] = "config" => call[t] \in {"write", "on", "off"}
    /\ pc[0] \in {"stop", "join", "stopped"} => call[0] \in {"init", "deinit"}
    /\ pc[0] \in {"join", "stopped"} => ~telnetRunning
    /\ ~telnetRunning => server = "none" \/ pc[0] = "join"
    /\ pc[0] \in {"lookup", "config", "stop", "join"} => loggerOn
    /\ pc[0] = "idle" /\ ~loggerOn => ~telnetRunning

(* Which implies what is to be proved.                                     *)
LEMMA ClosedMeans ==
  ASSUME Closed
  PROVE  pc[Main] = "idle" /\ ~loggerOn => server = "none" /\ telnetClients = {}
BY Sizes DEF Closed

(* The logger is off at first, and there is no server.                     *)
LEMMA ClosedInit == ASSUME Init PROVE Closed
BY Sizes DEF Init, Closed

(* The steps of the main thread's calls and of the commands.               *)
LEMMA ClosedStep ==
  ASSUME Threading, Closed, Undisturbed, Undisturbed',
         NEW t \in 0 .. MaxConns, Step(t)
  PROVE  Closed'
<1>0. /\ MaxConns \in Nat /\ pc \in [0 .. MaxConns -> Spots]
      /\ Main = 0 /\ Conns = 1 .. MaxConns
  BY Sizes DEF Threading, Located
<1>a. call = [u \in 0 .. MaxConns |-> call[u]]
  BY DEF Threading, Holders
<1>b. /\ call[t] \in {"none", "log", "write", "exit", "init", "deinit"}
      /\ call'[t] \in {"none", "log", "write", "exit", "init", "deinit"}
      /\ t # 0 => call[t] \notin {"init", "deinit"}
  <2>1. CASE t = 0
    BY <1>0, <2>1 DEF Undisturbed
  <2>2. CASE t # 0
    <3>1. t \in 1 .. MaxConns
      BY <1>0, <2>2
    <3> QED
      BY <1>0, <2>2, <3>1 DEF Undisturbed
  <2> QED
    BY <2>1, <2>2
<1>1. CASE RunCommand(t)
  <2>1. PICK at \in {"idle", "config", "quit"}, doing \in {"none", "write", "on", "off"} :
           /\ Goto(t, at, doing) /\ (at = "config" => doing \in {"write", "on", "off"})
           /\ at = "quit" => t # 0
    BY <1>0, <1>b, <1>1, Zenon DEF RunCommand, Finish
  <2>2. pc[t] = "lookup" /\ UNCHANGED <<loggerOn, telnetRunning, server, telnetClients>>
    BY <1>0, <1>b, <1>1, Zenon DEF RunCommand, clients
  <2> QED
    BY <1>0, <1>a, <1>b, <2>1, <2>2 DEF Closed, Goto
<1>2. CASE Configure(t)
  <2>1. pc[t] = "config" /\ call[t] = "write"
    BY <1>0, <1>b, <1>2 DEF Configure, Closed
  <2>2. /\ Goto(t, "idle", "none")
        /\ UNCHANGED <<loggerOn, telnetRunning, server, telnetClients>>
    BY <1>2, <2>1 DEF Configure, Release, Finish, clients
  <2> QED
    BY <1>0, <1>a, <1>b, <2>1, <2>2 DEF Closed, Goto
<1>3. CASE StopServer(t)
  <2>1. /\ pc[t] = "stop" /\ t = 0 /\ ~telnetRunning'
        /\ Goto(t, IF telnetRunning THEN "join" ELSE "stopped", call[t])
        /\ UNCHANGED <<loggerOn, server, telnetClients>>
    BY <1>0, <1>b, <1>3 DEF StopServer, Closed, clients
  <2> QED
    BY <1>0, <1>a, <1>b, <2>1 DEF Closed, Goto
<1>4. CASE JoinServer(t)
  <2>1. /\ pc[t] = "join" /\ t = 0 /\ server \in {"ended", "none"} /\ server' = "none"
        /\ Goto(t, "stopped", call[t])
        /\ UNCHANGED <<loggerOn, telnetRunning, telnetClients>>
    BY <1>0, <1>b, <1>4 DEF JoinServer, Closed, clients
  <2> QED
    BY <1>0, <1>a, <1>b, <2>1 DEF Closed, Goto
<1>5. CASE AfterStop(t)
  <2>1. /\ pc[t] = "stopped" /\ t = 0 /\ call[t] \in {"init", "deinit"}
        /\ ~telnetRunning /\ server = "none" /\ telnetClients = {} /\ telnetClients' = {}
    BY <1>0, <1>b, <1>5 DEF AfterStop, Closed, clients
  <2>2. Goto(t, "idle", "none")
    BY <1>5, <2>1, Zenon DEF AfterStop, StartServer, Finish
  <2>3. \/ ~loggerOn' /\ UNCHANGED <<telnetRunning, server>>
        \/ loggerOn' /\ telnetRunning' /\ server' = "binding"
    BY <1>5, <2>1, Zenon DEF AfterStop, StartServer
  <2> QED
    BY <1>0, <1>a, <1>b, <2>1, <2>2, <2>3 DEF Closed, Goto
<1> QED
  BY <1>1, <1>2, <1>3, <1>4, <1>5 DEF Step

(* A call of the main thread: with the logger off it can only start it.    *)
LEMMA ClosedCall ==
  ASSUME Threading, Closed, Undisturbed', NEW c \in Calls, Call(c)
  PROVE  Closed'
<1>0. /\ MaxConns \in Nat /\ pc \in [0 .. MaxConns -> Spots] /\ Main = 0
      /\ pc[0] = "idle" /\ UNCHANGED <<loggerOn, telnetRunning, server, telnetClients>>
  BY Sizes DEF Threading, Located, Call, clients
<1>a. call = [u \in 0 .. MaxConns |-> call[u]]
  BY DEF Threading, Holders
<1>1. PICK at \in {"stop", "stopped", "lookup"}, doing \in Calls \cup Commands :
         /\ Goto(0, at, doing)
         /\ at # "lookup" => /\ doing \in {"init", "deinit"}
                             /\ at = (IF loggerOn THEN "stop" ELSE "stopped")
         /\ at = "lookup" => loggerOn
  <2>1. CASE c \in {"init", "deinit"}
    BY <1>0, <2>1 DEF Call
  <2>2. CASE c \in {"on", "off"}
    <3>1. call'[0] \in {"on", "off"}
      BY <1>0, <1>a, <2>2 DEF Call, Goto
    <3> QED
      BY <1>0, <3>1 DEF Undisturbed
  <2>3. CASE c = "command"
    BY <1>0, <2>3 DEF Call
  <2> QED
    BY <2>1, <2>2, <2>3 DEF Call
<1> QED
  BY <1>0, <1>a, <1>1 DEF Closed, Goto

(* A connection's handler goes on or ends.                                 *)
LEMMA ClosedHandler ==
  ASSUME Threading, Closed, NEW c \in 1 .. MaxConns,
         Receive(c) \/ HangUp(c) \/ Quit(c) \/ Leave(c)
  PROVE  Closed'
<1>0. MaxConns \in Nat /\ pc \in [0 .. MaxConns -> Spots]
  BY Sizes DEF Threading, Located
<1>a. call = [u \in 0 .. MaxConns |-> call[u]]
  BY DEF Threading, Holders
<1>1. /\ UNCHANGED <<loggerOn, telnetRunning, server>>
      /\ telnetClients' \subseteq telnetClients
  BY DEF Receive, HangUp, Quit, Leave, EraseEntry, clients
<1>2. PICK at \in {"idle", "lookup", "leave", "ended"}, doing \in Commands \cup {"none"} :
         Goto(c, at, doing)
  BY DEF Receive, HangUp, Quit, Leave, Finish
<1> QED
  BY <1>0, <1>a, <1>1, <1>2 DEF Closed, Goto

(* The server has connections from the first it admits until it closes     *)
(* them, and ends before it is joined; the worker changes none of this.    *)
LEMMA ClosedServer ==
  ASSUME Threading, Closed, Server \/ Accept \/ Line \/ BeginSend \/ EndSend
  PROVE  Closed'
<1>0. /\ MaxConns \in Nat /\ pc \in [0 .. MaxConns -> Spots]
      /\ call = [u \in 0 .. MaxConns |-> call[u]]
  BY Sizes DEF Threading, Located, Holders
<1>1. UNCHANGED <<loggerOn, telnetRunning>>
  BY DEF Server, Bind, Register, LeaveLoop, Admit, CloseAll, Accept, Line, BeginSend, EndSend
<1>2. CASE Admit
  <2>1. accepted \in 1 .. MaxConns /\ server = "accepted" /\ server' = "select"
    BY <1>2 DEF Admit, Threading, Newcomers
  <2>2. UNCHANGED <<pc, call>> \/ Goto(accepted, "idle", "none")
    BY <1>2 DEF Admit, Finish, threads
  <2> QED
    BY <1>0, <1>1, <2>1, <2>2 DEF Closed, Goto
<1>3. CASE ~Admit
  <2>1. UNCHANGED <<pc, call>>
    BY <1>3 DEF Server, Bind, Register, LeaveLoop, CloseAll, Accept, Line, BeginSend, EndSend,
                threads
  <2>2. \/ UNCHANGED <<server, telnetClients>>
        \/ server = "binding" /\ server' \in {"register", "ended"} /\ UNCHANGED telnetClients
        \/ server # "none" /\ server' \in {"select", "accepted", "closing"}
        \/ server # "none" /\ server' = "ended" /\ telnetClients' = {}
    BY <1>3 DEF Server, Bind, Register, LeaveLoop, CloseAll, Accept, Line, BeginSend, EndSend,
                clients
  <2> QED
    BY <1>1, <2>1, <2>2 DEF Closed
<1> QED
  BY <1>2, <1>3

(* Every step that begins and ends with the configuration left alone.      *)
LEMMA ClosedNext ==
  ASSUME Threading, Closed, Undisturbed, Undisturbed', [Next]_vars
  PROVE  Closed'
<1>1. CASE UNCHANGED vars
  BY <1>1 DEF vars, threads, clients, Closed
<1>2. CASE \E s \in Sockets : Stall(s)
  BY <1>2 DEF Stall, Closed, threads
<1>3. CASE Next /\ ~(\E s \in Sockets : Stall(s))
  BY <1>3, Sizes, ClosedCall, ClosedStep, ClosedHandler, ClosedServer DEF Next
<1> QED
  BY <1>1, <1>2, <1>3

(* When deinit has returned no server is left, and no connection that the  *)
(* next server would count, if nobody changed the configuration meanwhile. *)
THEOREM NothingAfterDeinitCorrect == Spec => NothingAfterDeinit
<1>1. Init => Placed /\ Closed
  BY PlacedInit, ClosedInit
<1>2. Placed /\ [Next]_vars => Placed'
  BY ThreadingNext, NumberedNext, ServedNext, FewNext, SwitchesNext DEF Placed
<1>3. Placed /\ Closed /\ Undisturbed /\ Undisturbed' /\ [Next]_vars => Closed'
  BY ClosedNext DEF Placed
<1>4. Closed => (pc[Main] = "idle" /\ ~loggerOn => server = "none" /\ telnetClients = {})
  BY ClosedMeans
<1> QED
  BY <1>1, <1>2, <1>3, <1>4, PTL DEF Spec, NothingAfterDeinit
=============================================================================
