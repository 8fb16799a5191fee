--------------------------- MODULE TelnetConsole ---------------------------
(***************************************************************************)
(* The telnet console of otl_log.cpp: a server thread accepts connections, *)
(* a handler thread for each of them runs its commands, the logger's       *)
(* worker copies its lines to the connections, and the main thread starts  *)
(* and stops the server through init, deinit and updateConfig. Two mutexes *)
(* are involved: telnetMutex (commands, connections) and fileMutex (the    *)
(* configuration). A command runs under telnetMutex, and so do the calls   *)
(* it makes.                                                               *)
(*                                                                         *)
(* A handler knows its connection by the descriptor that accept returned.  *)
(* "exit" closes it and the handler goes on, closing it once more when it  *)
(* ends; the server that stops closes those of handlers that still run. A  *)
(* closed number may be the next connection's by then: a handler uses,     *)
(* takes off the list and closes whatever has its number.                  *)
(*                                                                         *)
(* Left out: files and listening sockets that get such a number; SIGPIPE,  *)
(* with which send() to a connection that the client has reset ends a      *)
(* program that does not ignore it. The main thread calls nothing but init *)
(* while the logger is off.                                                *)
(***************************************************************************)
EXTENDS Naturals, FiniteSets

CONSTANTS
    Calls,          \* the calls of the main thread
    Commands,       \* the commands of the connections, and of the main thread
    MaxClients,     \* telnetConfig.maxConnections
    MayStall,       \* whether a client may stop reading
    MaxConns,       \* bound: the connections
    Sockets         \* the descriptors that accept returns

ASSUME ConsoleAssumption ==
    /\ Calls \subseteq {"init", "deinit", "on", "off", "command"}
    /\ Commands \subseteq {"log", "level", "enable", "disable", "help", "exit"}
    /\ MaxClients \in Nat /\ MaxConns \in Nat /\ MayStall \in BOOLEAN
    /\ Sockets \subseteq Nat \ {0}

Conns == 1 .. MaxConns
Main == 0
Threads == Conns \cup {Main}
Free == MaxConns + 1      \* the holder of a mutex that nobody holds
Worker == MaxConns + 2    \* the logger's worker
NoSocket == 0

VARIABLES
    telnetMutex, fileMutex,
    loggerOn,       \* g_logger.running
    target,         \* g_logger.config.targets & OutputTarget::Telnet
    telnetRunning,
    telnetClients,  \* the connections for which the list has an entry, socket[c]
    server,         \* where telnetServerThread is; none: it was joined
    pc, call,       \* where each thread is, in which call or command
    worker,         \* where log_worker is, as far as the console goes
    accepted,       \* the connections so far
    socket,         \* the clientSocket of each connection's handler
    open,           \* the descriptors of connections that are open
    stalled         \* those whose client does not read

mutexes == <<telnetMutex, fileMutex>>
threads == <<pc, call>>
sockets == <<open, stalled>>
clients == <<telnetClients, accepted, socket, sockets>>
vars == <<mutexes, loggerOn, target, telnetRunning, server, threads, worker, clients>>

Init ==
    /\ telnetMutex = Free /\ fileMutex = Free
    /\ loggerOn = FALSE /\ target \in BOOLEAN
    /\ telnetRunning = FALSE /\ telnetClients = {}
    /\ server = "none"
    /\ pc = [t \in Threads |-> IF t = Main THEN "idle" ELSE "none"]
    /\ call = [t \in Threads |-> "none"]
    /\ worker = "idle"
    /\ accepted = 0 /\ socket = [c \in Conns |-> NoSocket]
    /\ open = {} /\ stalled = {}

Goto(t, at, doing) ==
    /\ pc' = [pc EXCEPT ![t] = at]
    /\ call' = [call EXCEPT ![t] = doing]

Finish(t) == Goto(t, "idle", "none")

(* The process ends: an assertion, std::bad_function_call, std::terminate. *)
Crash ==
    /\ pc' = [t \in Threads |-> "dead"] /\ call' = call
    /\ server' = "dead" /\ worker' = "dead"

(* startTelnetServer, before `then'. A std::thread that was not joined must *)
(* not be assigned to.                                                     *)
StartServer(then) ==
    IF telnetRunning THEN UNCHANGED <<telnetRunning, server, worker>> /\ then
    ELSE /\ telnetRunning' = TRUE
         /\ IF server = "none" THEN server' = "binding" /\ worker' = worker /\ then
                               ELSE Crash
-----------------------------------------------------------------------------
(* The main thread's calls; "command" stands for processTelnetCommandForTest. *)
Call(c) ==
    /\ pc[Main] = "idle"
    /\ loggerOn \/ c = "init"
    /\ \/ c \in {"init", "deinit"} /\ Goto(Main, IF loggerOn THEN "stop" ELSE "stopped", c)
       \/ c \in {"on", "off"} /\ Goto(Main, "config", c)
       \/ c = "command" /\ \E cmd \in Commands : Goto(Main, "lookup", cmd)
    /\ UNCHANGED <<mutexes, loggerOn, target, telnetRunning, server, worker, clients>>

(* telnetClientHandler goes on with what it has received, or waits in recv *)
(* for a command, or for the client to go or the socket to fail. A recv    *)
(* that waits does so also when its descriptor is closed meanwhile, and    *)
(* one that begins then has the client that the number belongs to by now.  *)
Receive(c) ==
    /\ pc[c] = "idle"
    /\ \E cmd \in Commands : Goto(c, "lookup", cmd)
    /\ UNCHANGED <<mutexes, loggerOn, target, telnetRunning, server, worker, clients>>

HangUp(c) ==
    /\ pc[c] = "idle"
    /\ Goto(c, "leave", "none")
    /\ UNCHANGED <<mutexes, loggerOn, target, telnetRunning, server, worker, clients>>

(* processTelnetCommand looks the command up and runs its handler. The     *)
(* handlers change the configuration they have read, or log: past a full   *)
(* queue straight into the file. "help" has no handler; "exit" is not in   *)
(* the table and has its code below.                                       *)
RunCommand(t) ==
    /\ pc[t] = "lookup" /\ telnetMutex = Free
    /\ \/ /\ call[t] = "log"
          /\ Finish(t) /\ UNCHANGED <<telnetMutex, server, worker>>
       \/ /\ call[t] \in {"log", "level", "enable", "disable"}
          /\ Goto(t, "config", IF call[t] = "log" THEN "write"
                               ELSE IF call[t] = "enable" \/ (call[t] = "level" /\ target)
                               THEN "on" ELSE "off")
          /\ telnetMutex' = t
          /\ UNCHANGED <<server, worker>>
       \/ /\ call[t] = "help"
          /\ Crash /\ UNCHANGED telnetMutex
       \/ /\ call[t] = "exit"
          /\ IF t = Main THEN Finish(t) ELSE Goto(t, "quit", "none")
          /\ UNCHANGED <<telnetMutex, server, worker>>
    /\ UNCHANGED <<fileMutex, loggerOn, target, telnetRunning, clients>>

(* The end of a call that updates the configuration, and of the command    *)
(* that made it.                                                           *)
Release(t) ==
    /\ fileMutex' = Free
    /\ telnetMutex' = IF telnetMutex = t THEN Free ELSE telnetMutex
    /\ Finish(t)

(* updateConfig, under fileMutex; write_to_file needs it too.              *)
Configure(t) ==
    /\ pc[t] = "config" /\ fileMutex = Free
    /\ target' = IF call[t] = "write" THEN target ELSE call[t] = "on"
    /\ \/ /\ call[t] = "on"
          /\ IF telnetRunning
             THEN Release(t) /\ UNCHANGED <<telnetRunning, server, worker>>
             ELSE StartServer(Release(t)) /\ (server # "none" => UNCHANGED mutexes)
       \/ /\ call[t] = "write" \/ (call[t] = "off" /\ ~telnetRunning)
          /\ Release(t) /\ UNCHANGED <<telnetRunning, server, worker>>
       \/ /\ call[t] = "off" /\ telnetRunning
          /\ Goto(t, "stop", "off") /\ fileMutex' = t
          /\ UNCHANGED <<telnetMutex, telnetRunning, server, worker>>
    /\ UNCHANGED <<loggerOn, clients>>

(* stopTelnetServer                                                        *)
StopServer(t) ==
    /\ pc[t] = "stop"
    /\ telnetRunning' = FALSE
    /\ Goto(t, IF telnetRunning THEN "join" ELSE "stopped", call[t])
    /\ UNCHANGED <<mutexes, loggerOn, target, server, worker, clients>>

(* Definitions marked "Variant" are what a plausible slip would make of the *)
(* definition after them; no specification uses one. Variant: the server   *)
(* is left to itself.                                                      *)
JoinServer_Detach(t) ==
    /\ pc[t] = "join"
    /\ server' = "none"
    /\ Goto(t, "stopped", call[t])
    /\ UNCHANGED <<mutexes, loggerOn, target, telnetRunning, worker, clients>>

JoinServer(t) ==
    /\ pc[t] = "join" /\ server \in {"ended", "none"}
    /\ server' = "none"
    /\ Goto(t, "stopped", call[t])
    /\ UNCHANGED <<mutexes, loggerOn, target, telnetRunning, worker, clients>>

(* What follows: the end of deinit, or of updateConfig, or init's start of *)
(* the server.                                                             *)
AfterStop(t) ==
    /\ pc[t] = "stopped"
    /\ \/ /\ call[t] = "deinit"
          /\ loggerOn' = FALSE /\ Finish(t)
          /\ UNCHANGED <<mutexes, target, telnetRunning, server, worker>>
       \/ /\ call[t] = "init"
          /\ loggerOn' = TRUE /\ target' \in BOOLEAN
          /\ StartServer(Finish(t))
          /\ UNCHANGED mutexes
       \/ /\ call[t] = "off"
          /\ Release(t)
          /\ UNCHANGED <<loggerOn, target, telnetRunning, server, worker>>
    /\ UNCHANGED clients

(* The entries with a number are equal: no matter which one find returns.  *)
Entries(s) == {e \in telnetClients : socket[e] = s}

EraseEntry(s) ==
    \/ Entries(s) = {} /\ telnetClients' = telnetClients
    \/ \E e \in Entries(s) : telnetClients' = telnetClients \ {e}

(* close(): without effect for a number that is closed.                    *)
Close(S) == open' = open \ S /\ stalled' = stalled \ S

(* "exit": the connection is closed; the handler's loop goes on.           *)
Quit(c) ==
    /\ pc[c] = "quit" /\ telnetMutex = Free
    /\ EraseEntry(socket[c]) /\ Close({socket[c]})
    /\ Finish(c)
    /\ UNCHANGED <<mutexes, loggerOn, target, telnetRunning, server, worker,
                   accepted, socket>>

(* Variant: the entry is kept.                                             *)
Leave_KeepsEntry(c) ==
    /\ pc[c] = "leave" /\ telnetMutex = Free
    /\ Close({socket[c]})
    /\ Goto(c, "ended", "none")
    /\ UNCHANGED <<mutexes, loggerOn, target, telnetRunning, server, worker,
                   telnetClients, accepted, socket>>

Leave(c) ==
    /\ pc[c] = "leave" /\ telnetMutex = Free
    /\ EraseEntry(socket[c]) /\ Close({socket[c]})
    /\ Goto(c, "ended", "none")
    /\ UNCHANGED <<mutexes, loggerOn, target, telnetRunning, server, worker,
                   accepted, socket>>

Step(t) == RunCommand(t) \/ Configure(t) \/ StopServer(t) \/ JoinServer(t) \/ AfterStop(t)
-----------------------------------------------------------------------------
(* telnetServerThread: when it cannot bind it ends, and telnetRunning says *)
(* that it runs.                                                           *)
Bind ==
    /\ server = "binding"
    /\ server' \in {"register", "ended"}
    /\ UNCHANGED <<mutexes, loggerOn, target, telnetRunning, threads, worker, clients>>

Register ==
    /\ server = "register" /\ telnetMutex = Free
    /\ server' = "select"
    /\ UNCHANGED <<mutexes, loggerOn, target, telnetRunning, threads, worker, clients>>

(* A connection, whose descriptor has the lowest number that is free, or   *)
(* within a second the end of the loop.                                    *)
Accept ==
    /\ server = "select" /\ telnetRunning
    /\ accepted < MaxConns
    /\ accepted' = accepted + 1
    /\ \E s \in Sockets :
        /\ s \notin open /\ \A r \in Sockets \ open : s <= r
        /\ open' = open \cup {s}
        /\ socket' = [socket EXCEPT ![accepted + 1] = s]
    /\ server' = "accepted"
    /\ UNCHANGED <<mutexes, loggerOn, target, telnetRunning, threads, worker, telnetClients, stalled>>

LeaveLoop ==
    /\ server = "select" /\ ~telnetRunning
    /\ server' = "closing"
    /\ UNCHANGED <<mutexes, loggerOn, target, telnetRunning, threads, worker, clients>>

Admit ==
    /\ server = "accepted" /\ telnetMutex = Free
    /\ IF Cardinality(telnetClients) >= MaxClients
       THEN Close({socket[accepted]}) /\ UNCHANGED <<telnetClients, threads>>
       ELSE /\ telnetClients' = telnetClients \cup {accepted}
            /\ Finish(accepted) /\ UNCHANGED sockets
    /\ server' = "select"
    /\ UNCHANGED <<mutexes, loggerOn, target, telnetRunning, worker, accepted, socket>>

(* send() to the clients listed waits for one that does not read.          *)
AllRead == \A e \in telnetClients : socket[e] \notin stalled

(* Variant: the loop is entered again.                                     *)
CloseAll_LoopsOn ==
    /\ server = "closing" /\ telnetMutex = Free
    /\ AllRead
    /\ Close({socket[e] : e \in telnetClients}) /\ telnetClients' = {}
    /\ server' = "select"
    /\ UNCHANGED <<mutexes, loggerOn, target, telnetRunning, threads, worker,
                   accepted, socket>>

(* Each client is told and closed, which waits for those that do not read. *)
CloseAll ==
    /\ server = "closing" /\ telnetMutex = Free
    /\ AllRead
    /\ Close({socket[e] : e \in telnetClients}) /\ telnetClients' = {}
    /\ server' = "ended"
    /\ UNCHANGED <<mutexes, loggerOn, target, telnetRunning, threads, worker,
                   accepted, socket>>

Server == Bind \/ Register \/ LeaveLoop \/ Admit \/ CloseAll
-----------------------------------------------------------------------------
(* log_worker has a line for the connections; send() waits for a client    *)
(* whose window is full, and telnetMutex is held.                          *)
Line ==
    /\ worker = "idle" /\ loggerOn
    /\ target /\ telnetRunning
    /\ worker' = "line"
    /\ UNCHANGED <<mutexes, loggerOn, target, telnetRunning, server, threads, clients>>

BeginSend ==
    /\ worker = "line" /\ telnetMutex = Free
    /\ telnetMutex' = Worker
    /\ worker' = "sending"
    /\ UNCHANGED <<fileMutex, loggerOn, target, telnetRunning, server, threads, clients>>

EndSend ==
    /\ worker = "sending"
    /\ AllRead
    /\ telnetMutex' = Free
    /\ worker' = "idle"
    /\ UNCHANGED <<fileMutex, loggerOn, target, telnetRunning, server, threads, clients>>

(* A client stops reading, or reads again.                                 *)
Stall(s) ==
    /\ MayStall /\ s \in open /\ Entries(s) # {}
    /\ stalled' = IF s \in stalled THEN stalled \ {s} ELSE stalled \cup {s}
    /\ UNCHANGED <<mutexes, loggerOn, target, telnetRunning, server, threads,
                   worker, telnetClients, accepted, socket, open>>

Next ==
    \/ \E c \in Calls : Call(c)
    \/ \E t \in Threads : Step(t)
    \/ \E c \in Conns : Receive(c) \/ HangUp(c) \/ Quit(c) \/ Leave(c)
    \/ \E s \in Sockets : Stall(s)
    \/ Server \/ Accept
    \/ Line \/ BeginSend \/ EndSend

Spec == Init /\ [][Next]_vars

(* Every thread is scheduled and gets a mutex that is free again and again. *)
(* Nobody has to call, to connect, to send a command, to hang up or to     *)
(* read.                                                                   *)
FairSpec ==
    /\ Spec
    /\ \A t \in Threads : SF_vars(Step(t))
    /\ \A c \in Conns : SF_vars(Quit(c) \/ Leave(c))
    /\ SF_vars(Server)
    /\ SF_vars(BeginSend) /\ WF_vars(EndSend)
-----------------------------------------------------------------------------
TypeOK ==
    /\ telnetMutex \in Threads \cup {Free, Worker} /\ fileMutex \in Threads \cup {Free}
    /\ telnetMutex \in Threads => pc[telnetMutex] \in {"config", "stop", "join", "stopped", "dead"}
    /\ fileMutex \in Threads => pc[fileMutex] \in {"stop", "join", "stopped", "dead"}
    /\ loggerOn \in BOOLEAN /\ target \in BOOLEAN /\ telnetRunning \in BOOLEAN
    /\ telnetClients \subseteq 1 .. accepted
    /\ server \in {"none", "binding", "register", "select", "accepted", "closing", "ended", "dead"}
    /\ \A t \in Threads :
        pc[t] \in {"none", "idle", "lookup", "config", "stop", "join", "stopped",
                   "quit", "leave", "ended", "dead"}
    /\ worker \in {"idle", "line", "sending", "dead"}
    /\ accepted \in 0 .. MaxConns
    /\ socket \in [Conns -> Sockets \cup {NoSocket}]
    /\ open \subseteq Sockets /\ stalled \subseteq open

Handlers(s) == {c \in Conns : socket[c] = s /\ pc[c] \notin {"none", "ended"}}

(* The list keeps to its limit, and a place of it is taken only as long as *)
(* there is a handler to give it back, one for each entry: although the    *)
(* entries are found by numbers that are closed twice and used again, the  *)
(* places do not run out.                                                  *)
PlacesServed ==
    /\ TypeOK
    /\ Cardinality(telnetClients) <= MaxClients
    /\ server # "dead" =>
        \A s \in Sockets : Cardinality(Entries(s)) <= Cardinality(Handlers(s))

(* What the next two are about: clients that read, and commands and calls  *)
(* that leave the configuration alone. The others can hang the console.    *)
Undisturbed ==
    /\ stalled = {}
    /\ call[Main] \in {"none", "log", "write", "exit", "init", "deinit"}
    /\ \A c \in Conns : call[c] \in {"none", "log", "write", "exit"}

(* Once deinit has returned there is no server, and no connection listed   *)
(* that the next one would count, whatever was under way.                  *)
NothingAfterDeinit ==
    []Undisturbed => [](pc[Main] = "idle" /\ ~loggerOn => server = "none" /\ telnetClients = {})

(* deinit and init return although the server needs the mutex under which  *)
(* commands run before it can end; and the handler of a client that has    *)
(* gone gets it too, and ends.                                             *)
CallsReturn ==
    []Undisturbed =>
        /\ pc[Main] # "idle" ~> pc[Main] = "idle"
        /\ \A c \in Conns : pc[c] = "leave" ~> pc[c] = "ended"

(* The test program runs "disable telnet" through the function made for    *)
(* tests and goes on to the next command: the command returns.             *)
TestCommandReturns == pc[Main] # "idle" /\ call[Main] # "init" ~> pc[Main] = "idle"
=============================================================================
