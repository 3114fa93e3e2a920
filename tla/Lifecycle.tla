------------------------------ MODULE Lifecycle ------------------------------
(***************************************************************************)
(* The daemon processes of one user: `ib start`, `ib stop`, signals and    *)
(* crashes, and the two files they meet at, ~/.ib/daemon.pid and           *)
(* ~/.ib/daemon.sock (cli/commands/start.js, cli/commands/stop.js,         *)
(* cli/ipc.js, daemon/index.js).  Every file operation is a step of its    *)
(* own; processes interleave between them.                                 *)
(*                                                                         *)
(* A path leads to the process that bound it last.  Closing a server that  *)
(* listens on a path unlinks the path, whoever has bound it since (libuv). *)
(***************************************************************************)
EXTENDS Naturals, FiniteSets

CONSTANTS
    Processes,    \* bound: daemon processes, numbered as they are spawned
    Commands,     \* bound: `ib start` commands, numbered as they are typed
    MaxStops,     \* bound: `ib stop` and SIGTERM
    MaxCrashes,   \* bound
    MaxRaces      \* bound: commands that begin while something else is busy

Daemon  == 1..Processes
Starter == 1..Commands
None == 0

ASSUME LifecycleAssumption ==
    /\ Commands \in Nat /\ Processes \in Nat /\ Processes >= Commands
    /\ MaxStops \in Nat /\ MaxCrashes \in Nat /\ MaxRaces \in Nat

VARIABLES
    proc,       \* [Daemon -> Phase]
    pidFile,    \* the PID in daemon.pid, or None
    sockFile,   \* whose socket daemon.sock is, or None
    held,       \* daemons with a connection that waits for its answer
    cmd,        \* [Starter -> where startCommand is]
    stops, crashes,
    races       \* commands that began while another, or a daemon, was busy

vars == <<proc, pidFile, sockFile, held, cmd, stops, crashes, races>>

Booting == {"spawned", "pid written", "socket cleared"}
Leaving == {"closing", "closed"}
Gone    == {"dead", "PID reused"}
Phase   == {"unborn", "serving"} \cup Booting \cup Leaving \cup Gone

Active == {"look", "check", "ping", "unlink", "spawn", "wait"}
Over   == {"idle", "already running", "running", "no answer", "failed"}

Serving == {d \in Daemon : proc[d] = "serving"}

(* process.kill(pid, 0) *)
IsProcessAlive(d) == proc[d] \notin {"unborn", "dead"}

(* isDaemonRunning: somebody answers a ping.  A daemon that shuts down      *)
(* still does for 200 ms.                                                   *)
IsDaemonRunning == sockFile # None /\ proc[sockFile] \in {"serving", "closing"}

Busy == \/ \E d \in Daemon : proc[d] \in Booting \cup Leaving
        \/ \E s \in Starter : cmd[s] \in Active

Race == IF Busy THEN races < MaxRaces /\ races' = races + 1 ELSE races' = races

Raced == races > 0

-----------------------------------------------------------------------------
(* ib start *)

Goto(s, there) == cmd' = [cmd EXCEPT ![s] = there]

StartCommand(s) ==
    /\ cmd[s] = "idle" /\ \A t \in 1..(s - 1) : cmd[t] # "idle"
    /\ Goto(s, "look")
    /\ Race
    /\ UNCHANGED <<proc, pidFile, sockFile, held, stops, crashes>>

(* cleanStalePid, up to its unlink *)
CleanStalePid(s) ==
    /\ cmd[s] = "look"
    /\ Goto(s, IF pidFile # None /\ ~IsProcessAlive(pidFile) THEN "unlink" ELSE "check")
    /\ UNCHANGED <<proc, pidFile, sockFile, held, stops, crashes, races>>

(* if (!wasStale && fs.existsSync(PID_FILE)) *)
CheckPidFile(s) ==
    /\ cmd[s] = "check"
    /\ Goto(s, IF pidFile = None THEN "spawn" ELSE "ping")
    /\ UNCHANGED <<proc, pidFile, sockFile, held, stops, crashes, races>>

(* Changed: a living process needs no answer to count as the daemon. *)
TrustsPid == TRUE

(* Changed: a daemon is taken for dead without a ping. *)
NeverAsks == FALSE

Answers == IsDaemonRunning

Ping(s) ==
    /\ cmd[s] = "ping"
    /\ Goto(s, IF Answers THEN "already running" ELSE "unlink")
    /\ UNCHANGED <<proc, pidFile, sockFile, held, stops, crashes, races>>

(* unlinkSync throws when somebody else was faster. *)
UnlinkPid(s) ==
    /\ cmd[s] = "unlink"
    /\ Goto(s, IF pidFile = None THEN "failed" ELSE "spawn")
    /\ pidFile' = None
    /\ UNCHANGED <<proc, sockFile, held, stops, crashes, races>>

Spawn(s) ==
    /\ cmd[s] = "spawn" /\ Goto(s, "wait")
    /\ \E d \in Daemon :
          /\ proc[d] = "unborn" /\ \A e \in 1..(d - 1) : proc[e] # "unborn"
          /\ proc' = [proc EXCEPT ![d] = "spawned"]
    /\ UNCHANGED <<pidFile, sockFile, held, stops, crashes, races>>

(* waitForDaemon: anybody's answer will do; 4 seconds. *)
WaitForDaemon(s) ==
    /\ cmd[s] = "wait"
    /\ \/ IsDaemonRunning /\ Goto(s, "running")
       \/ Goto(s, "no answer")
    /\ UNCHANGED <<proc, pidFile, sockFile, held, stops, crashes, races>>

-----------------------------------------------------------------------------
(* A daemon's life *)

Turn(d, phase) == proc' = [proc EXCEPT ![d] = phase]

(* The process ends.  Its PID may be given to another process, which nobody *)
(* asks about unless the file names it.                                     *)
End(d) == \E gone \in {"dead"} \cup (IF pidFile = d THEN Gone ELSE {}) : Turn(d, gone)

WritePid(d) ==
    /\ proc[d] = "spawned" /\ Turn(d, "pid written")
    /\ pidFile' = d
    /\ UNCHANGED <<sockFile, held, cmd, stops, crashes, races>>

(* fs.unlinkSync(IPC_SOCKET) *)
ClearSocket(d) ==
    /\ proc[d] = "pid written" /\ Turn(d, "socket cleared")
    /\ sockFile' = None
    /\ UNCHANGED <<pidFile, held, cmd, stops, crashes, races>>

Listen(d) ==
    /\ proc[d] = "socket cleared" /\ sockFile = None
    /\ Turn(d, "serving")
    /\ sockFile' = d
    /\ UNCHANGED <<pidFile, held, cmd, stops, crashes, races>>

(* Changed: it cleans up before it exits. *)
ExitsTidily == None

SocketAfterFatal == sockFile

(* EADDRINUSE: process.exit(1), with the PID in the file *)
ListenFails(d) ==
    /\ proc[d] = "socket cleared" /\ sockFile # None
    /\ End(d)
    /\ sockFile' = SocketAfterFatal
    /\ UNCHANGED <<pidFile, held, cmd, stops, crashes, races>>

(* A command whose answer takes a while, such as `ib send`.  The client     *)
(* gives up after 5 s.                                                      *)
HoldConnection ==
    /\ IsDaemonRunning /\ sockFile \notin held
    /\ held' = held \cup {sockFile}
    /\ UNCHANGED <<proc, pidFile, sockFile, cmd, stops, crashes, races>>

EndConnection(d) ==
    /\ d \in held
    /\ held' = held \ {d}
    /\ UNCHANGED <<proc, pidFile, sockFile, cmd, stops, crashes, races>>

Shutdown(d) ==
    /\ stops < MaxStops /\ stops' = stops + 1
    /\ Turn(d, "closing")
    /\ Race
    /\ UNCHANGED <<pidFile, sockFile, held, cmd, crashes>>

(* `ib stop` reaches the daemon behind the socket, SIGTERM any.  Once more  *)
(* to a daemon that is closing changes nothing.                             *)
StopCommand == IsDaemonRunning /\ proc[sockFile] = "serving" /\ Shutdown(sockFile)

SigTerm(d) == proc[d] = "serving" /\ Shutdown(d)

(* 200 ms later: ipcServer.close() stops listening and unlinks the path. *)
CloseServer(d) ==
    /\ proc[d] = "closing" /\ Turn(d, "closed")
    /\ sockFile' = None
    /\ UNCHANGED <<pidFile, held, cmd, stops, crashes, races>>

(* Changed: the PID file stays. *)
LeavesPid == pidFile

PidRemoved == None

(* Changed: the exit waits for nobody. *)
Rushed(d) == TRUE

Drained(d) == d \notin held

(* The callback of close() waits for the connections, then removes what is  *)
(* there under both names, and the process exits.                           *)
Exit(d) ==
    /\ proc[d] = "closed" /\ Drained(d)
    /\ sockFile' = None
    /\ pidFile' = PidRemoved
    /\ Turn(d, "dead")
    /\ UNCHANGED <<held, cmd, stops, crashes, races>>

(* SIGKILL, power loss, FATAL: the files stay. *)
Crash(d) ==
    /\ crashes < MaxCrashes /\ crashes' = crashes + 1
    /\ proc[d] \notin Gone \cup {"unborn"}
    /\ End(d)
    /\ held' = held \ {d}
    /\ UNCHANGED <<pidFile, sockFile, cmd, stops, races>>

-----------------------------------------------------------------------------
Init ==
    /\ proc = [d \in Daemon |-> "unborn"]
    /\ pidFile = None /\ sockFile = None
    /\ held = {}
    /\ cmd = [s \in Starter |-> "idle"]
    /\ stops = 0 /\ crashes = 0
    /\ races = 0

CommandStep(s) ==
    CleanStalePid(s) \/ CheckPidFile(s) \/ Ping(s) \/ UnlinkPid(s) \/ Spawn(s) \/ WaitForDaemon(s)

DaemonStep(d) ==
    WritePid(d) \/ ClearSocket(d) \/ Listen(d) \/ ListenFails(d) \/ CloseServer(d) \/ Exit(d)

Next ==
    \/ \E s \in Starter : StartCommand(s) \/ CommandStep(s)
    \/ \E d \in Daemon : DaemonStep(d) \/ EndConnection(d) \/ SigTerm(d) \/ Crash(d)
    \/ HoldConnection \/ StopCommand

Spec == Init /\ [][Next]_vars

(* Processes go on (each takes finitely many steps, so one condition for    *)
(* all is enough), and a connection ends when the client's 5 s are over.    *)
FairSpec ==
    /\ Spec
    /\ WF_vars(\E s \in Starter : CommandStep(s))
    /\ WF_vars(\E d \in Daemon : DaemonStep(d))
    /\ \A d \in Daemon : WF_vars(EndConnection(d))

-----------------------------------------------------------------------------
TypeOK ==
    /\ proc \in [Daemon -> Phase]
    /\ pidFile \in Daemon \cup {None} /\ sockFile \in Daemon \cup {None}
    /\ held \subseteq {d \in Daemon : proc[d] \in {"serving"} \cup Leaving}
    /\ cmd \in [Starter -> Active \cup Over]
    /\ stops \in 0..MaxStops /\ crashes \in 0..MaxCrashes
    /\ races \in 0..MaxRaces

(* As long as no command begins before everything else has settled, there   *)
(* is one daemon at most, and when it serves both files are its own:        *)
(* whatever crashed when, whatever was left behind, and whoever has the     *)
(* dead daemon's PID now (start.js:9, "Idempotent").                        *)
SoleDaemon ==
    ~Raced => /\ Cardinality({d \in Daemon : proc[d] \notin Gone \cup {"unborn"}}) <= 1
              /\ \A d \in Serving : pidFile = d /\ sockFile = d

Begun == \E s \in Starter : cmd[s] = "look"

(* After the last crash, a start that is not raced ends with a daemon that  *)
(* answers, whatever the crashes left.                                      *)
StartServes ==
    Begun /\ crashes = MaxCrashes ~> Raced \/ IsDaemonRunning

(* A stop that is not raced ends with neither file there. *)
StopCleans ==
    crashes = MaxCrashes /\ (\E d \in Daemon : proc[d] \in Leaving)
        ~> Raced \/ (pidFile = None /\ sockFile = None)

(* Starts may race each other: as long as nobody stops or kills a daemon,   *)
(* one answers in the end and ever after, though a second may replace the   *)
(* first one's socket or exit because of it.  There may be more than one,   *)
(* and the PID file may name one that has exited.                           *)
StartsServe ==
    Begun /\ stops + crashes = 0 ~> stops + crashes > 0 \/ []IsDaemonRunning
=============================================================================
