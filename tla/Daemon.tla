------------------------------- MODULE Daemon -------------------------------
(***************************************************************************)
(* remctld (server/remctld.c): start-up, the main loop of the stand-alone  *)
(* server with its signal handlers, and the children it forks.             *)
(*                                                                         *)
(* A handler may run between any two steps: it only sets a flag.  When the *)
(* server is blocked in select, accept or sleep, the signal also           *)
(* interrupts the call.                                                    *)
(***************************************************************************)
EXTENDS Integers, FiniteSets

CONSTANTS
    Sockets,      \* numbers of the addresses the server may listen on
    Options,      \* combinations of command line options
    Pids,         \* process numbers for children
    MaxQueue,     \* connections the kernel holds for one listening socket
    MaxFds,       \* descriptors left for connections
    MaxVersion    \* bound on the number of edits of the configuration file

Option == [standalone : BOOLEAN, foreground : BOOLEAN, pidfile : BOOLEAN,
           service : BOOLEAN, suspend : BOOLEAN,
           addresses : SUBSET Sockets, activated : SUBSET Sockets]

ASSUME DaemonAssumption ==
    /\ MaxQueue \in Nat /\ MaxFds \in Nat /\ MaxVersion \in Nat
    /\ Sockets \subseteq Nat
    /\ Options \subseteq Option

VARIABLES
    options,    \* struct options
    daemonPc,         \* where the server is
    childSig,   \* child_signaled
    configSig,  \* config_signaled
    exitSig,    \* exit_signaled
    eintr,      \* a signal has interrupted the call the server is blocked in
    todoBind,   \* addresses still to be bound
    bound,      \* sockets the server listens on
    queue,      \* connections waiting on each socket
    ready,      \* the socket network_wait_any has returned
    open,       \* descriptors of connections the server holds
    pidFile,    \* the PID file exists
    file,       \* the configuration file: its version and whether it parses
    config,     \* what server_daemon's config points to: its version, or
                \* NoConfig
    mainConfig, \* what the pointer of main is: not set, one to a configuration
                \* that is allocated, one that dangles, or one freed again
    children,   \* state and configuration of every child
    hupVersion, \* version of the file at the last SIGHUP, NoConfig if none
    unforked    \* times fork has failed

NoConfig == -1
NoSocket == -1
NoChild == [state |-> "none", config |-> NoConfig]
Child == [state : {"none", "serving", "zombie"},
          config : {NoConfig} \union 0..MaxVersion]

flags == <<childSig, configSig, exitSig>>
sockets == <<todoBind, bound, queue, ready, open>>
memory == <<config, mainConfig>>
daemonVars == <<options, daemonPc, flags, eintr, sockets, pidFile, file, memory,
                children, hupVersion, unforked>>

\* The calls that wait.
Blocked == {"select", "accept", "sleep"}
Ended == {"stopped", "died"}
Handling == {"child", "reap", "config", "reload", "load", "exit", "select",
             "accept", "fork", "close", "sleep", "bind", "listen", "pidfile",
             "cleanup"}

Zombies == {p \in Pids : children[p].state = "zombie"}
Idle == {p \in Pids : children[p].state = "none"}

Goto(next) == daemonPc' = next
Die == Goto("died")

\* A flag set by a handler, and the call it interrupts.  A handler that runs
\* just before the server enters the call does not interrupt it.
Interrupt == eintr' \in {eintr, eintr \/ daemonPc \in Blocked}

DaemonInit ==
    /\ options \in Options
    /\ daemonPc = "main"
    /\ childSig = FALSE /\ configSig = FALSE /\ exitSig = FALSE
    /\ eintr = FALSE
    /\ todoBind = {} /\ bound = {}
    /\ queue = [s \in Sockets |-> 0]
    /\ ready = NoSocket
    /\ open = 0
    /\ pidFile = FALSE
    /\ file \in [version : {0}, valid : BOOLEAN]
    /\ config = NoConfig
    /\ mainConfig = "none"
    /\ children = [p \in Pids |-> NoChild]
    /\ hupVersion = NoConfig
    /\ unforked = 0

-----------------------------------------------------------------------------
(* Start-up *)

\* Options that main refuses.
InvalidOptions ==
    (options.addresses # {} \/ options.suspend) /\ ~options.standalone

\* acquire_creds is called for -s, and may fail.
acquire_creds == IF options.service THEN BOOLEAN ELSE {TRUE}

\* The addresses bind_sockets has to deal with: the sockets of systemd, those
\* of the options, or all local ones.
BindAddresses ==
    IF options.activated # {} THEN options.activated
    ELSE IF options.addresses # {} THEN options.addresses ELSE Sockets

\* main: the options, then daemon, which may fail, the configuration and the
\* credentials.
Main ==
    /\ daemonPc = "main"
    /\ \/ /\ \/ InvalidOptions
             \/ options.standalone /\ ~options.foreground
             \/ ~file.valid
             \/ FALSE \in acquire_creds
          /\ Die
          /\ UNCHANGED <<memory, open>>
       \/ /\ ~InvalidOptions
          /\ file.valid
          /\ config' = file.version
          /\ mainConfig' = "held"
          /\ \/ options.standalone /\ Goto("listen") /\ UNCHANGED open
             \/ ~options.standalone /\ Goto("inetd") /\ open' = 1
    /\ UNCHANGED <<options, flags, eintr, todoBind, bound, queue, ready, pidFile, file,
                   children, hupVersion, unforked>>

\* handle_connection on standard input when started by inetd.
Inetd ==
    /\ daemonPc = "inetd"
    /\ Goto("stopped")
    /\ open' = 0
    /\ config' = NoConfig
    /\ mainConfig' = "none"
    /\ UNCHANGED <<options, flags, eintr, todoBind, bound, queue, ready,
                   pidFile, file, children, hupVersion, unforked>>

\* The head of server_daemon: the handlers are in place, and bind_sockets asks
\* systemd for its sockets with sd_listen_fds, which may fail.
ListenFds ==
    /\ daemonPc = "listen"
    /\ \/ Goto("bind") /\ todoBind' = BindAddresses
       \/ Die /\ UNCHANGED todoBind
    /\ UNCHANGED <<options, flags, eintr, bound, queue, ready, open, pidFile,
                   file, memory, children, hupVersion, unforked>>

\* network_bind_ipv4 and network_bind_ipv6: the socket, or INVALID_SOCKET.
network_bind(s) == {s, NoSocket}

\* A socket that systemd has bound.
BindActivated(s) ==
    /\ options.activated # {}
    /\ bound' = bound \union {s}
    /\ UNCHANGED daemonPc

\* One iteration of network_bind_all: addresses that fail are left out.
network_bind_all(s) ==
    /\ options.activated = {} /\ options.addresses = {}
    /\ \E fd \in network_bind(s) : bound' = bound \union ({fd} \ {NoSocket})
    /\ UNCHANGED daemonPc

\* An address of the options: it must be bound.
BindGiven(s) ==
    /\ options.activated = {} /\ options.addresses # {}
    /\ \E fd \in network_bind(s) :
          \/ fd # NoSocket /\ bound' = bound \union {fd} /\ UNCHANGED daemonPc
          \/ fd = NoSocket /\ Die /\ UNCHANGED bound

\* bind_sockets for one address.
Bind ==
    /\ daemonPc = "bind"
    /\ \E s \in todoBind :
          /\ todoBind' = todoBind \ {s}
          /\ BindActivated(s) \/ network_bind_all(s) \/ BindGiven(s)
    /\ UNCHANGED <<options, flags, eintr, queue, ready, open, pidFile, file,
                   memory, children, hupVersion, unforked>>

\* listen on every socket, if there are any; it may fail.
Listen ==
    /\ daemonPc = "bind" /\ todoBind = {}
    /\ \/ bound # {} /\ Goto("pidfile")
       \/ options.activated = {} /\ Die
    /\ UNCHANGED <<options, flags, eintr, sockets, pidFile, file, memory,
                   children, hupVersion, unforked>>

\* write_pidfile renames a complete file into place, or fails.
WritePidFile ==
    /\ daemonPc = "pidfile"
    /\ \/ Goto("child") /\ pidFile' = options.pidfile
       \/ options.pidfile /\ Die /\ UNCHANGED pidFile
    /\ UNCHANGED <<options, flags, eintr, sockets, file, memory, children,
                   hupVersion, unforked>>

-----------------------------------------------------------------------------
(* The main loop of server_daemon *)

TestChild ==
    /\ daemonPc = "child"
    /\ Goto(IF childSig THEN "reap" ELSE "config")
    /\ childSig' = FALSE
    /\ UNCHANGED <<options, configSig, exitSig, eintr, sockets, pidFile, file,
                   memory, children, hupVersion, unforked>>

\* One child for each SIGCHLD.
MutReap ==
    /\ daemonPc = "reap"
    /\ Goto("config")
    /\ \E p \in Zombies : children' = [children EXCEPT ![p] = NoChild]
    /\ UNCHANGED <<options, flags, eintr, sockets, pidFile, file, memory,
                   hupVersion, unforked>>

\* waitpid with WNOHANG until there is nothing to reap.
Reap ==
    /\ daemonPc = "reap"
    /\ \/ /\ \E p \in Zombies : children' = [children EXCEPT ![p] = NoChild]
          /\ UNCHANGED daemonPc
       \/ /\ Zombies = {}
          /\ Goto("config")
          /\ UNCHANGED children
    /\ UNCHANGED <<options, flags, eintr, sockets, pidFile, file, memory,
                   hupVersion, unforked>>

\* The flag stays set.
MutTestConfig ==
    /\ daemonPc = "config"
    /\ Goto(IF configSig THEN "reload" ELSE "exit")
    /\ UNCHANGED <<options, flags, eintr, sockets, pidFile, file, memory,
                   children, hupVersion, unforked>>

TestConfig ==
    /\ daemonPc = "config"
    /\ Goto(IF configSig THEN "reload" ELSE "exit")
    /\ configSig' = FALSE
    /\ UNCHANGED <<options, childSig, exitSig, eintr, sockets, pidFile, file,
                   memory, children, hupVersion, unforked>>

\* server_config_free.  config is a parameter of server_daemon: main keeps the
\* pointer it passed.
FreeConfig ==
    /\ daemonPc = "reload"
    /\ config' = NoConfig
    /\ mainConfig' = "dangling"
    /\ Goto("load")
    /\ UNCHANGED <<options, flags, eintr, sockets, pidFile, file, children,
                   hupVersion, unforked>>

\* server_config_load, and die when the file is in error.  The allocator may
\* return the memory that was just freed, and then main's pointer is good.
LoadConfig ==
    /\ daemonPc = "load"
    /\ \/ /\ file.valid
          /\ config' = file.version
          /\ mainConfig' \in {"dangling", "held"}
          /\ Goto("exit")
       \/ ~file.valid /\ Die /\ UNCHANGED memory
    /\ UNCHANGED <<options, flags, eintr, sockets, pidFile, file, children,
                   hupVersion, unforked>>

\* config_signaled is cleared after the new configuration is in place.
MutTestExit ==
    /\ daemonPc = "exit"
    /\ Goto(IF exitSig THEN "cleanup" ELSE "select")
    /\ configSig' = FALSE
    /\ UNCHANGED <<options, childSig, exitSig, eintr, sockets, pidFile, file,
                   memory, children, hupVersion, unforked>>

TestExit ==
    /\ daemonPc = "exit"
    /\ Goto(IF exitSig THEN "cleanup" ELSE "select")
    /\ UNCHANGED <<options, flags, eintr, sockets, pidFile, file, memory,
                   children, hupVersion, unforked>>

\* A blocked call returns EINTR.
Interrupted ==
    /\ daemonPc \in Blocked /\ eintr
    /\ Goto("child")
    /\ eintr' = FALSE
    /\ UNCHANGED <<options, flags, sockets, pidFile, file, memory, children,
                   hupVersion, unforked>>

\* network_wait_any: select returns and the first ready socket is taken.
WaitAny ==
    /\ daemonPc = "select"
    /\ \E s \in bound :
          /\ queue[s] > 0
          /\ \A t \in bound : queue[t] > 0 => s <= t
          /\ ready' = s
    /\ Goto("accept")
    /\ eintr' = FALSE
    /\ UNCHANGED <<options, flags, todoBind, bound, queue, open, pidFile, file,
                   memory, children, hupVersion, unforked>>

\* accept in network_accept_any.  The connection select has seen may be gone,
\* and then accept blocks.  Every error but EINTR is fatal.
Accept ==
    /\ daemonPc = "accept"
    /\ queue[ready] > 0
    /\ \/ /\ open < MaxFds
          /\ open' = open + 1
          /\ queue' = [queue EXCEPT ![ready] = @ - 1]
          /\ Goto("fork")
       \/ /\ open = MaxFds
          /\ Die
          /\ UNCHANGED <<open, queue>>
    /\ eintr' = FALSE
    /\ UNCHANGED <<options, flags, todoBind, bound, ready, pidFile, file,
                   memory, children, hupVersion, unforked>>

Fork ==
    /\ daemonPc = "fork"
    /\ \/ /\ \E p \in Idle : children' =
                [children EXCEPT ![p] = [state |-> "serving", config |-> config]]
          /\ Goto("close")
          /\ UNCHANGED unforked
       \/ /\ Goto("sleep")
          /\ unforked' = unforked + 1
          /\ UNCHANGED children
    /\ UNCHANGED <<options, flags, eintr, sockets, pidFile, file, memory,
                   hupVersion>>

\* The parent keeps the descriptor of the connection.
MutCloseConnection ==
    /\ daemonPc = "close"
    /\ Goto("child")
    /\ UNCHANGED <<options, flags, eintr, sockets, pidFile, file, memory,
                   children, hupVersion, unforked>>

CloseConnection ==
    /\ daemonPc = "close"
    /\ open' = open - 1
    /\ Goto("child")
    /\ UNCHANGED <<options, flags, eintr, todoBind, bound, queue, ready,
                   pidFile, file, memory, children, hupVersion, unforked>>

\* The ten seconds after a failed fork are over.
Wake ==
    /\ daemonPc = "sleep"
    /\ Goto("child")
    /\ eintr' = FALSE
    /\ UNCHANGED <<options, flags, sockets, pidFile, file, memory, children,
                   hupVersion, unforked>>

\* The end of server_daemon and of main, which frees what its own pointer
\* points to.  Freeing memory again may or may not abort the process.
Cleanup ==
    /\ daemonPc = "cleanup"
    /\ pidFile' = FALSE
    /\ bound' = {}
    /\ \/ /\ mainConfig = "held"
          /\ config' = NoConfig
          /\ mainConfig' = "none"
          /\ Goto("stopped")
       \/ /\ mainConfig = "dangling"
          /\ mainConfig' = "twice"
          /\ UNCHANGED config
          /\ Goto("stopped") \/ Die
    /\ UNCHANGED <<options, flags, eintr, todoBind, queue, ready, open, file,
                   children, hupVersion, unforked>>

-----------------------------------------------------------------------------
(* Children *)

\* The child has closed the listening sockets and handle_connection is done
\* with the connection, or could not set it up; the child frees what it has
\* and exits.  The kernel raises SIGCHLD, and child_handler runs.
ChildExit(p) ==
    /\ children[p].state = "serving"
    /\ children' = [children EXCEPT ![p].state = "zombie"]
    /\ childSig' = TRUE
    /\ Interrupt
    /\ UNCHANGED <<options, daemonPc, configSig, exitSig, sockets, pidFile, file,
                   memory, hupVersion, unforked>>

-----------------------------------------------------------------------------
(* The administrator and the clients *)

EditFile ==
    /\ file.version < MaxVersion
    /\ \E valid \in BOOLEAN :
          file' = [version |-> file.version + 1, valid |-> valid]
    /\ UNCHANGED <<options, daemonPc, flags, eintr, sockets, pidFile, memory,
                   children, hupVersion, unforked>>

\* SIGHUP and config_handler.
SignalConfig ==
    /\ daemonPc \in Handling
    /\ configSig' = TRUE
    /\ hupVersion' = file.version
    /\ Interrupt
    /\ UNCHANGED <<options, daemonPc, childSig, exitSig, sockets, pidFile, file,
                   memory, children, unforked>>

\* SIGINT or SIGTERM and exit_handler.
SignalExit ==
    /\ daemonPc \in Handling
    /\ exitSig' = TRUE
    /\ Interrupt
    /\ UNCHANGED <<options, daemonPc, childSig, configSig, sockets, pidFile, file,
                   memory, children, hupVersion, unforked>>

Connect(s) ==
    /\ s \in bound
    /\ queue[s] < MaxQueue
    /\ queue' = [queue EXCEPT ![s] = @ + 1]
    /\ UNCHANGED <<options, daemonPc, flags, eintr, todoBind, bound, ready, open,
                   pidFile, file, memory, children, hupVersion, unforked>>

\* A client gives up before its connection has been accepted.
GiveUp(s) ==
    /\ queue[s] > 0
    /\ queue' = [queue EXCEPT ![s] = @ - 1]
    /\ UNCHANGED <<options, daemonPc, flags, eintr, todoBind, bound, ready, open,
                   pidFile, file, memory, children, hupVersion, unforked>>

Terminated == daemonPc \in Ended /\ UNCHANGED daemonVars

Loop ==
    \/ TestChild \/ Reap \/ TestConfig \/ FreeConfig \/ LoadConfig \/ TestExit
    \/ Interrupted \/ WaitAny \/ Accept \/ Fork \/ CloseConnection \/ Wake
    \/ Cleanup

Server == Main \/ Inetd \/ ListenFds \/ Bind \/ Listen \/ WritePidFile \/ Loop

Environment ==
    \/ EditFile \/ SignalConfig \/ SignalExit
    \/ \E s \in Sockets : Connect(s) \/ GiveUp(s)

DaemonNext ==
    \/ Server
    \/ \E p \in Pids : ChildExit(p)
    \/ Environment
    \/ Terminated

DaemonSpec == DaemonInit /\ [][DaemonNext]_daemonVars

(* The server goes on as long as it can.  Nothing is said of clients and   *)
(* children: no connection need ever come, or end.                         *)
FairSpec == DaemonSpec /\ WF_daemonVars(Server)

-----------------------------------------------------------------------------
(* Properties *)

(* Types of the state of remctld.c: a version of the file is at most       *)
(* MaxVersion, and select returns one of the bound sockets.                *)
DaemonTypeOK ==
    /\ options \in Option
    /\ daemonPc \in Handling \union Ended \union {"main", "inetd"}
    /\ childSig \in BOOLEAN /\ configSig \in BOOLEAN /\ exitSig \in BOOLEAN
    /\ eintr \in BOOLEAN
    /\ todoBind \subseteq Sockets /\ bound \subseteq Sockets
    /\ queue \in [Sockets -> 0..MaxQueue]
    /\ ready \in Sockets \union {NoSocket}
    /\ daemonPc = "accept" => ready \in bound
    /\ open \in Nat /\ unforked \in Nat
    /\ pidFile \in BOOLEAN
    /\ file \in [version : 0..MaxVersion, valid : BOOLEAN]
    /\ config \in {NoConfig} \union 0..MaxVersion
    /\ mainConfig \in {"none", "held", "dangling", "twice"}
    /\ hupVersion \in {NoConfig} \union 0..MaxVersion
    /\ children \in [Pids -> Child]

(* A child that has exited is reaped: SIGCHLD may arrive at any point of   *)
(* the main loop, for several children at once or while others are being   *)
(* reaped, and child_signaled still leads to a call of waitpid after it.   *)
NoZombieForgotten ==
    daemonPc \notin Ended => (Zombies # {} => childSig \/ daemonPc = "reap")

(* A SIGHUP is not lost: unless the flag is set or the file is about to be *)
(* read, the configuration is at least as recent as the file was when the  *)
(* last SIGHUP arrived, even if that was during a reload.                  *)
ReloadNotLost ==
    daemonPc \notin Ended \union {"reload", "load"} =>
        configSig \/ config >= hupVersion

(* The server holds no descriptor of a connection when it waits for the    *)
(* next, but for one for every fork that failed, which server_daemon does  *)
(* not close.                                                              *)
DescriptorsAccounted == daemonPc = "select" => open = unforked

(* What becomes of a signal when handlers only set flags: the server acts  *)
(* on it once it comes round its loop again, whatever other signals arrive *)
(* on the way, and a signal that interrupts select brings it round, unless *)
(* a connection has come in the same moment.  One that arrives between the *)
(* test of its flag and select does not, against remctld.pod: it waits for *)
(* the next signal or connection, if ever there is one.                    *)
SignalsHandled ==
    /\ [](exitSig /\ <>(daemonPc = "child") => <>(daemonPc \in Ended))
    /\ [](configSig /\ <>(daemonPc = "child") =>
              <>(~configSig \/ daemonPc \in Ended))
    /\ [](Zombies # {} /\ <>(daemonPc = "child") =>
              <>(Zombies = {} \/ daemonPc \in Ended))
    /\ (daemonPc = "select" /\ eintr) ~> (daemonPc \in {"child", "accept"})
=============================================================================
