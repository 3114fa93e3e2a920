--------------------------- MODULE LifecycleProofs ----------------------------
(***************************************************************************)
(* The files of the daemon processes, for any number of processes,         *)
(* commands, stops and crashes: types, and the one daemon that serves when *)
(* no command begins before everything else has settled.                   *)
(***************************************************************************)
EXTENDS Lifecycle, FiniteSetTheorems, TLAPS

Living(d) == proc[d] \notin Gone \cup {"unborn"}

(* A start that has not spawned its daemon yet. *)
Deciding == {"look", "check", "ping", "unlink", "spawn"}

OneLives == \A d, e \in Daemon : Living(d) /\ Living(e) => d = e

OneStarts == \A s, t \in Starter : cmd[s] \in Active /\ cmd[t] \in Active => s = t

(* A start decides about a daemon that serves, or about none ... *)
Settled ==
    \A s \in Starter : cmd[s] \in Deciding =>
        \A d \in Daemon : proc[d] \notin Booting \cup Leaving

(* ... and once it has decided to spawn one, there is none. *)
NoneLeft ==
    \A s \in Starter : cmd[s] \in {"unlink", "spawn"} => \A d \in Daemon : ~Living(d)

(* What the files say in the phases of a daemon's life. *)
FilesFollow ==
    \A d \in Daemon :
        /\ proc[d] \in {"pid written", "socket cleared", "serving"} => pidFile = d
        /\ proc[d] = "socket cleared" => sockFile = None
        /\ proc[d] = "serving" => sockFile = d

Orderly == OneLives /\ OneStarts /\ Settled /\ NoneLeft /\ FilesFollow

(* Without a race, that is. *)
IInv == TypeOK /\ (~Raced => Orderly)

-----------------------------------------------------------------------------
LEMMA InitLifecycle == Init => IInv
<1> SUFFICES ASSUME Init PROVE IInv
  OBVIOUS
<1>1. TypeOK
  BY LifecycleAssumption DEF Init, TypeOK, Phase, Over
<1>2. \A d \in Daemon : ~Living(d) /\ proc[d] = "unborn"
  BY DEF Init, Living
<1>3. Orderly
  BY <1>2 DEF Init, Orderly, OneLives, OneStarts, Settled, NoneLeft, FilesFollow, Booting, Leaving,
              Active, Deciding
<1> QED BY <1>1, <1>3 DEF IInv

(* Commands only race while something is busy. *)
LEMMA Unraced ==
    ASSUME TypeOK, Race, ~Raced'
    PROVE  ~Busy /\ races' = races
BY DEF Race, Raced, TypeOK

LEMMA RacesType == ASSUME TypeOK, Race PROVE races' \in 0..MaxRaces
BY LifecycleAssumption DEF Race, TypeOK

(* A command moves, or begins. *)
LEMMA CommandType ==
    ASSUME TypeOK, NEW s \in Starter, StartCommand(s) \/ CommandStep(s)
    PROVE  TypeOK'
<1>0. cmd \in [Starter -> Active \cup Over]
  BY DEF TypeOK
<1>1. CASE StartCommand(s)
  <2>1. cmd' \in [Starter -> Active \cup Over]
    BY <1>0, <1>1 DEF StartCommand, Goto, Active
  <2>2. races' \in 0..MaxRaces
    BY <1>1, RacesType DEF StartCommand
  <2> QED BY <1>1, <2>1, <2>2 DEF StartCommand, TypeOK
<1>2. CASE CleanStalePid(s) \/ CheckPidFile(s) \/ Ping(s) \/ UnlinkPid(s) \/ WaitForDaemon(s)
  <2>1. cmd' \in [Starter -> Active \cup Over]
    BY <1>0, <1>2 DEF CleanStalePid, CheckPidFile, Ping, UnlinkPid, WaitForDaemon, Goto, Active, Over
  <2>2. UNCHANGED <<proc, sockFile, held, stops, crashes, races>> /\ pidFile' \in {pidFile, None}
    BY <1>2 DEF CleanStalePid, CheckPidFile, Ping, UnlinkPid, WaitForDaemon
  <2> QED BY <2>1, <2>2 DEF TypeOK
<1>3. CASE Spawn(s)
  <2>1. cmd' \in [Starter -> Active \cup Over]
    BY <1>0, <1>3 DEF Spawn, Goto, Active
  <2>2. PICK d \in Daemon : proc[d] = "unborn" /\ proc' = [proc EXCEPT ![d] = "spawned"]
    BY <1>3 DEF Spawn
  <2>3. proc' \in [Daemon -> Phase]
    BY <2>2 DEF TypeOK, Phase, Booting
  <2>4. held \subseteq {e \in Daemon : proc'[e] \in {"serving"} \cup Leaving}
    BY <2>2 DEF TypeOK, Leaving
  <2> QED BY <1>3, <2>1, <2>3, <2>4 DEF Spawn, TypeOK
<1> QED BY <1>1, <1>2, <1>3 DEF CommandStep

(* A daemon that leaves a phase without connections keeps the type. *)
LEMMA TurnType ==
    ASSUME TypeOK, NEW d \in Daemon, NEW phase \in Phase, Turn(d, phase),
           d \notin held' \/ phase \in {"serving"} \cup Leaving, held' \subseteq held
    PROVE  /\ proc' \in [Daemon -> Phase]
           /\ held' \subseteq {e \in Daemon : proc'[e] \in {"serving"} \cup Leaving}
BY DEF TypeOK, Turn

LEMMA EndType == ASSUME NEW d \in Daemon, End(d) PROVE \E gone \in Gone : Turn(d, gone)
BY DEF End, Gone

LEMMA DaemonType ==
    ASSUME TypeOK, NEW d \in Daemon, DaemonStep(d) \/ Crash(d) \/ SigTerm(d)
    PROVE  TypeOK'
<1>1. proc \in [Daemon -> Phase] /\ (d \in held => proc[d] \in {"serving"} \cup Leaving)
  BY DEF TypeOK
<1>2. CASE WritePid(d) \/ ClearSocket(d) \/ Listen(d)
  <2>1. d \notin held /\ held' = held
    BY <1>1, <1>2 DEF WritePid, ClearSocket, Listen, Leaving
  <2>2. \E phase \in Phase : Turn(d, phase)
    BY <1>2 DEF WritePid, ClearSocket, Listen, Phase, Booting
  <2>3. /\ proc' \in [Daemon -> Phase]
        /\ held' \subseteq {e \in Daemon : proc'[e] \in {"serving"} \cup Leaving}
    BY <2>1, <2>2, TurnType
  <2> QED BY <1>2, <2>3 DEF WritePid, ClearSocket, Listen, TypeOK
<1>3. CASE ListenFails(d) \/ Crash(d)
  <2>1. d \notin held' /\ held' \subseteq held
    BY <1>1, <1>3 DEF ListenFails, Crash, Leaving
  <2>2. \E phase \in Phase : Turn(d, phase)
    <3>1. End(d)
      BY <1>3 DEF ListenFails, Crash
    <3>2. PICK gone \in Gone : Turn(d, gone)
      BY <3>1, EndType, Zenon
    <3> QED BY <3>2 DEF Phase
  <2>3. /\ proc' \in [Daemon -> Phase]
        /\ held' \subseteq {e \in Daemon : proc'[e] \in {"serving"} \cup Leaving}
    BY <2>1, <2>2, TurnType
  <2>4. crashes' \in 0..MaxCrashes
    <3>1. crashes \in 0..MaxCrashes
      BY DEF TypeOK
    <3>2. CASE ListenFails(d)
      BY <3>1, <3>2 DEF ListenFails
    <3>3. CASE Crash(d)
      BY <3>1, <3>3, LifecycleAssumption DEF Crash
    <3> QED BY <1>3, <3>2, <3>3
  <2> QED BY <1>3, <2>3, <2>4 DEF ListenFails, SocketAfterFatal, Crash, TypeOK
<1>4. CASE CloseServer(d)
  <2>1. Turn(d, "closed") /\ "closed" \in Phase /\ "closed" \in {"serving"} \cup Leaving /\ held' = held
    BY <1>4 DEF CloseServer, Phase, Leaving
  <2>2. /\ proc' \in [Daemon -> Phase]
        /\ held' \subseteq {e \in Daemon : proc'[e] \in {"serving"} \cup Leaving}
    BY <2>1, TurnType
  <2> QED BY <1>4, <2>2 DEF CloseServer, TypeOK
<1>5. CASE Exit(d)
  <2>1. Turn(d, "dead") /\ "dead" \in Phase /\ d \notin held /\ held' = held
    BY <1>5 DEF Exit, Drained, Phase, Gone
  <2>2. /\ proc' \in [Daemon -> Phase]
        /\ held' \subseteq {e \in Daemon : proc'[e] \in {"serving"} \cup Leaving}
    BY <2>1, TurnType
  <2> QED BY <1>5, <2>2 DEF Exit, PidRemoved, TypeOK
<1>6. CASE SigTerm(d)
  <2>1. Turn(d, "closing") /\ "closing" \in Phase /\ "closing" \in {"serving"} \cup Leaving
        /\ held' = held
    BY <1>6 DEF SigTerm, Shutdown, Phase, Leaving
  <2>2. /\ proc' \in [Daemon -> Phase]
        /\ held' \subseteq {e \in Daemon : proc'[e] \in {"serving"} \cup Leaving}
    BY <2>1, TurnType
  <2>3. stops' \in 0..MaxStops
    BY <1>6, LifecycleAssumption DEF SigTerm, Shutdown, TypeOK
  <2>4. races' \in 0..MaxRaces
    BY <1>6, RacesType DEF SigTerm, Shutdown
  <2> QED BY <1>6, <2>2, <2>3, <2>4 DEF SigTerm, Shutdown, TypeOK
<1> QED BY <1>2, <1>3, <1>4, <1>5, <1>6 DEF DaemonStep

(* `ib stop` is a SIGTERM to the daemon behind the socket. *)
LEMMA StopIsTerm ==
    ASSUME TypeOK, StopCommand
    PROVE  \E d \in Daemon : SigTerm(d)
BY DEF StopCommand, IsDaemonRunning, SigTerm, TypeOK

LEMMA LifecycleTypeStep == TypeOK /\ [Next]_vars => TypeOK'
<1> SUFFICES ASSUME TypeOK, [Next]_vars PROVE TypeOK'
  OBVIOUS
<1>1. CASE UNCHANGED vars
  BY <1>1 DEF vars, TypeOK
<1>2. CASE HoldConnection
  <2>1. sockFile \in Daemon /\ proc[sockFile] \in {"serving"} \cup Leaving
    BY <1>2 DEF HoldConnection, IsDaemonRunning, Leaving, TypeOK
  <2> QED BY <1>2, <2>1 DEF HoldConnection, TypeOK
<1>3. ASSUME NEW d \in Daemon, EndConnection(d) PROVE TypeOK'
  BY <1>3 DEF EndConnection, TypeOK
<1> QED BY <1>1, <1>2, <1>3, CommandType, DaemonType, StopIsTerm DEF Next

(* However starts, stops, signals and crashes interleave, the files name    *)
(* processes that were spawned, and only daemons that still run hold         *)
(* connections.                                                             *)
THEOREM LifecycleTypeCorrect == Spec => []TypeOK
<1>1. Init => TypeOK
  BY InitLifecycle DEF IInv
<1> QED BY <1>1, LifecycleTypeStep, PTL DEF Spec
-----------------------------------------------------------------------------
(* While a start decides, a daemon that lives serves, behind both files. *)
LEMMA DecidesAboutServing ==
    ASSUME TypeOK, Orderly, NEW s \in Starter, cmd[s] \in Deciding,
           NEW d \in Daemon, Living(d)
    PROVE  proc[d] = "serving" /\ pidFile = d /\ sockFile = d
<1>1. proc[d] \in Phase /\ proc[d] \notin Booting \cup Leaving
  BY DEF TypeOK, Orderly, Settled
<1>2. proc[d] = "serving"
  BY <1>1 DEF Phase, Living
<1> QED BY <1>2 DEF Orderly, FilesFollow

(* A start that begins when all is settled is the only one, and finds no    *)
(* daemon that boots or leaves.                                              *)
LEMMA StartOrderly ==
    ASSUME TypeOK, Orderly, NEW s \in Starter, StartCommand(s), ~Raced'
    PROVE  Orderly'
<1>1. ~Busy /\ cmd \in [Starter -> Active \cup Over]
  BY Unraced DEF StartCommand, TypeOK
<1>2. cmd' = [cmd EXCEPT ![s] = "look"] /\ UNCHANGED <<proc, pidFile, sockFile>>
  BY DEF StartCommand, Goto
<1>3. OneLives' /\ FilesFollow'
  BY <1>2 DEF Orderly, OneLives, FilesFollow, Living
<1>4. \A t \in Starter : t # s => cmd'[t] \notin Active
  BY <1>1, <1>2 DEF Busy
<1>5. OneStarts'
  BY <1>4 DEF OneStarts
<1>6. Settled'
  BY <1>1, <1>2 DEF Busy, Settled
<1>7. NoneLeft'
  <2>1. \A t \in Starter : cmd'[t] \notin {"unlink", "spawn"}
    BY <1>1, <1>2, <1>4 DEF Active
  <2> QED BY <2>1 DEF NoneLeft
<1> QED BY <1>3, <1>5, <1>6, <1>7 DEF Orderly

(* A start moves on: who decides was already deciding, and who is about to *)
(* spawn a daemon has found none.                                           *)
LEMMA DecisionOrderly ==
    ASSUME TypeOK, Orderly, NEW s \in Starter, NEW there \in Active \cup Over, Goto(s, there),
           UNCHANGED <<proc, sockFile>>,
           pidFile' = pidFile \/ \A d \in Daemon : ~Living(d),
           there \in Active => cmd[s] \in Active,
           there \in Deciding => cmd[s] \in Deciding,
           there \in {"unlink", "spawn"} => \A d \in Daemon : ~Living(d)
    PROVE  Orderly'
<1>1. cmd \in [Starter -> Active \cup Over] /\ cmd' = [cmd EXCEPT ![s] = there]
  BY DEF TypeOK, Goto
<1>2. \A t \in Starter : cmd'[t] = IF t = s THEN there ELSE cmd[t]
  BY <1>1
<1>3. OneLives'
  BY DEF Orderly, OneLives, Living
<1>4. OneStarts'
  BY <1>2 DEF Orderly, OneStarts
<1>5. Settled'
  BY <1>2 DEF Orderly, Settled
<1>6. NoneLeft'
  BY <1>2 DEF Orderly, NoneLeft, Living
<1>7. FilesFollow'
  <2>1. CASE pidFile' = pidFile
    BY <2>1 DEF Orderly, FilesFollow
  <2>2. CASE \A d \in Daemon : ~Living(d)
    BY <2>2 DEF FilesFollow, Living, Gone
  <2> QED BY <2>1, <2>2
<1> QED BY <1>3, <1>4, <1>5, <1>6, <1>7 DEF Orderly

LEMMA SpawnOrderly ==
    ASSUME TypeOK, Orderly, NEW s \in Starter, Spawn(s)
    PROVE  Orderly'
<1>1. /\ cmd[s] = "spawn" /\ cmd' = [cmd EXCEPT ![s] = "wait"]
      /\ cmd \in [Starter -> Active \cup Over] /\ proc \in [Daemon -> Phase]
      /\ UNCHANGED <<pidFile, sockFile>>
  BY DEF Spawn, Goto, TypeOK
<1>2. PICK d \in Daemon : proc' = [proc EXCEPT ![d] = "spawned"]
  BY DEF Spawn
<1>3. \A e \in Daemon : ~Living(e)
  BY <1>1 DEF Orderly, NoneLeft
<1>4. \A e \in Daemon : proc'[e] = IF e = d THEN "spawned" ELSE proc[e]
  BY <1>1, <1>2
<1>5. OneLives'
  BY <1>3, <1>4 DEF OneLives, Living
<1>6. \A t \in Starter : t # s => cmd[t] \notin Active /\ cmd'[t] = cmd[t]
  BY <1>1 DEF Orderly, OneStarts, Active
<1>7. \A t \in Starter : cmd'[t] \notin Deciding
  BY <1>1, <1>6 DEF Active, Deciding
<1>8. OneStarts'
  BY <1>6 DEF OneStarts
<1>9. Settled' /\ NoneLeft'
  BY <1>7 DEF Settled, NoneLeft, Deciding
<1>10. FilesFollow'
  BY <1>3, <1>4 DEF FilesFollow, Living, Gone
<1> QED BY <1>5, <1>8, <1>9, <1>10 DEF Orderly

LEMMA CommandOrderly ==
    ASSUME TypeOK, Orderly, NEW s \in Starter, CommandStep(s)
    PROVE  Orderly'
<1>1. CASE CleanStalePid(s)
  <2>1. cmd[s] = "look" /\ UNCHANGED <<proc, sockFile, pidFile>>
    BY <1>1 DEF CleanStalePid
  <2>2. ASSUME pidFile # None, ~IsProcessAlive(pidFile), NEW d \in Daemon PROVE ~Living(d)
    BY <2>1, <2>2, DecidesAboutServing DEF Deciding, IsProcessAlive
  <2> DEFINE there == IF pidFile # None /\ ~IsProcessAlive(pidFile) THEN "unlink" ELSE "check"
  <2>3. Goto(s, there) /\ there \in Active
    BY <1>1 DEF CleanStalePid, Active
  <2>4. there \in {"unlink", "spawn"} => \A d \in Daemon : ~Living(d)
    BY <2>2
  <2> HIDE DEF there
  <2> QED BY <2>1, <2>3, <2>4, DecisionOrderly DEF Active, Deciding
<1>2. CASE CheckPidFile(s)
  <2>1. cmd[s] = "check" /\ UNCHANGED <<proc, sockFile, pidFile>>
    BY <1>2 DEF CheckPidFile
  <2>2. ASSUME pidFile = None, NEW d \in Daemon PROVE ~Living(d)
    BY <2>1, <2>2, DecidesAboutServing DEF Deciding, None, Daemon
  <2> DEFINE there == IF pidFile = None THEN "spawn" ELSE "ping"
  <2>3. Goto(s, there) /\ there \in Active
    BY <1>2 DEF CheckPidFile, Active
  <2>4. there \in {"unlink", "spawn"} => \A d \in Daemon : ~Living(d)
    BY <2>2
  <2> HIDE DEF there
  <2> QED BY <2>1, <2>3, <2>4, DecisionOrderly DEF Active, Deciding
<1>3. CASE Ping(s)
  <2>1. cmd[s] = "ping" /\ UNCHANGED <<proc, sockFile, pidFile>>
    BY <1>3 DEF Ping
  <2>2. ASSUME ~Answers, NEW d \in Daemon PROVE ~Living(d)
    BY <2>1, <2>2, DecidesAboutServing DEF Deciding, Answers, IsDaemonRunning, None, Daemon
  <2> DEFINE there == IF Answers THEN "already running" ELSE "unlink"
  <2>3. Goto(s, there) /\ there \in Active \cup Over
    BY <1>3 DEF Ping, Active, Over
  <2>4. there \in {"unlink", "spawn"} => \A d \in Daemon : ~Living(d)
    BY <2>2
  <2> HIDE DEF there
  <2> QED BY <2>1, <2>3, <2>4, DecisionOrderly DEF Active, Deciding
<1>4. CASE UnlinkPid(s)
  <2>1. cmd[s] = "unlink" /\ UNCHANGED <<proc, sockFile>>
    BY <1>4 DEF UnlinkPid
  <2>2. \A d \in Daemon : ~Living(d)
    BY <2>1 DEF Orderly, NoneLeft
  <2>3. \E there \in Active \cup Over : Goto(s, there)
    BY <1>4 DEF UnlinkPid, Active, Over
  <2> QED BY <2>1, <2>2, <2>3, DecisionOrderly DEF Active, Deciding
<1>5. CASE Spawn(s)
  BY <1>5, SpawnOrderly
<1>6. CASE WaitForDaemon(s)
  <2>1. cmd[s] = "wait" /\ UNCHANGED <<proc, sockFile, pidFile>>
    BY <1>6 DEF WaitForDaemon
  <2>2. \E there \in {"running", "no answer"} : Goto(s, there)
    BY <1>6 DEF WaitForDaemon
  <2>3. \A there \in {"running", "no answer"} : there \in Over /\ there \notin Active \cup Deciding
    BY DEF Active, Deciding, Over
  <2> QED BY <2>1, <2>2, <2>3, DecisionOrderly DEF Deciding
<1> QED BY <1>1, <1>2, <1>3, <1>4, <1>5, <1>6 DEF CommandStep

-----------------------------------------------------------------------------
(* The one daemon that lives goes on, or ends, in step with its files; it  *)
(* only begins to leave when no start decides.                              *)
LEMMA LifeOrderly ==
    ASSUME TypeOK, Orderly, NEW d \in Daemon, Living(d),
           NEW phase \in Phase \ {"unborn"}, Turn(d, phase), cmd' = cmd,
           \/ proc[d] \in Booting \cup Leaving \/ phase \in Gone
           \/ \A s \in Starter : cmd[s] \notin Deciding,
           phase \in {"pid written", "socket cleared", "serving"} => pidFile' = d,
           phase = "socket cleared" => sockFile' = None,
           phase = "serving" => sockFile' = d
    PROVE  Orderly'
<1>1. \A e \in Daemon : proc'[e] = IF e = d THEN phase ELSE proc[e]
  BY DEF Turn, TypeOK
<1>2. \A e \in Daemon : e # d => ~Living(e)
  BY DEF Orderly, OneLives
<1>3. OneLives'
  BY <1>1, <1>2 DEF OneLives, Living
<1>4. OneStarts'
  BY DEF Orderly, OneStarts
<1>5. Settled'
  <2>1. SUFFICES ASSUME NEW s \in Starter, cmd[s] \in Deciding, NEW e \in Daemon
                 PROVE  proc'[e] \notin Booting \cup Leaving
    BY DEF Settled
  <2>2. proc[e] \notin Booting \cup Leaving /\ proc[d] \notin Booting \cup Leaving
    BY <2>1 DEF Orderly, Settled
  <2>3. phase \in Gone
    BY <2>1, <2>2
  <2> QED BY <1>1, <2>2, <2>3 DEF Gone, Booting, Leaving
<1>6. NoneLeft'
  BY DEF Orderly, NoneLeft
<1>7. FilesFollow'
  BY <1>1, <1>2 DEF FilesFollow, Living, Gone
<1> QED BY <1>3, <1>4, <1>5, <1>6, <1>7 DEF Orderly

(* A life ends, and leaves its files. *)
LEMMA EndOrderly ==
    ASSUME TypeOK, Orderly, NEW d \in Daemon, Living(d), End(d), cmd' = cmd
    PROVE  Orderly'
<1>1. PICK gone \in Gone : Turn(d, gone)
  BY EndType, Zenon
<1>2. gone \in Phase \ {"unborn"} /\ gone \notin {"pid written", "socket cleared", "serving"}
  BY DEF Gone, Phase
<1> QED BY <1>1, <1>2, LifeOrderly

LEMMA DaemonOrderly ==
    ASSUME TypeOK, Orderly, NEW d \in Daemon, DaemonStep(d) \/ Crash(d)
    PROVE  Orderly'
<1>1. CASE WritePid(d)
  <2>1. Turn(d, "pid written") /\ pidFile' = d /\ cmd' = cmd /\ proc[d] = "spawned"
    BY <1>1 DEF WritePid
  <2>2. Living(d) /\ "pid written" \in Phase \ {"unborn"} /\ proc[d] \in Booting
    BY <2>1 DEF Living, Gone, Phase, Booting
  <2> QED BY <2>1, <2>2, LifeOrderly
<1>2. CASE ClearSocket(d)
  <2>1. /\ Turn(d, "socket cleared") /\ sockFile' = None /\ cmd' = cmd
        /\ proc[d] = "pid written" /\ pidFile' = pidFile
    BY <1>2 DEF ClearSocket
  <2>2. Living(d) /\ "socket cleared" \in Phase \ {"unborn"} /\ proc[d] \in Booting
    BY <2>1 DEF Living, Gone, Phase, Booting
  <2>3. pidFile' = d
    BY <2>1 DEF Orderly, FilesFollow
  <2> QED BY <2>1, <2>2, <2>3, LifeOrderly
<1>3. CASE Listen(d)
  <2>1. /\ Turn(d, "serving") /\ sockFile' = d /\ cmd' = cmd
        /\ proc[d] = "socket cleared" /\ pidFile' = pidFile
    BY <1>3 DEF Listen
  <2>2. Living(d) /\ "serving" \in Phase \ {"unborn"} /\ proc[d] \in Booting
    BY <2>1 DEF Living, Gone, Phase, Booting
  <2>3. pidFile' = d
    BY <2>1 DEF Orderly, FilesFollow
  <2> QED BY <2>1, <2>2, <2>3, LifeOrderly
<1>4. CASE ListenFails(d)
  <2>1. proc[d] = "socket cleared" /\ End(d) /\ cmd' = cmd
    BY <1>4 DEF ListenFails
  <2>2. Living(d)
    BY <2>1 DEF Living, Gone
  <2> QED BY <2>1, <2>2, EndOrderly
<1>5. CASE CloseServer(d)
  <2>1. Turn(d, "closed") /\ cmd' = cmd /\ proc[d] = "closing"
    BY <1>5 DEF CloseServer
  <2>2. Living(d) /\ "closed" \in Phase \ {"unborn"} /\ proc[d] \in Leaving
    BY <2>1 DEF Living, Gone, Phase, Leaving
  <2> QED BY <2>1, <2>2, LifeOrderly
<1>6. CASE Exit(d)
  <2>1. Turn(d, "dead") /\ cmd' = cmd /\ proc[d] = "closed"
    BY <1>6 DEF Exit
  <2>2. Living(d) /\ "dead" \in Phase \ {"unborn"} /\ "dead" \in Gone
    BY <2>1 DEF Living, Gone, Phase
  <2> QED BY <2>1, <2>2, LifeOrderly
<1>7. CASE Crash(d)
  BY <1>7, EndOrderly DEF Crash, Living
<1> QED BY <1>1, <1>2, <1>3, <1>4, <1>5, <1>6, <1>7 DEF DaemonStep

(* A stop, like a start, begins when all is settled. *)
LEMMA TermOrderly ==
    ASSUME TypeOK, Orderly, NEW d \in Daemon, SigTerm(d), ~Raced'
    PROVE  Orderly'
<1>1. ~Busy
  BY Unraced DEF SigTerm, Shutdown
<1>2. \A s \in Starter : cmd[s] \notin Deciding
  BY <1>1 DEF Busy, Active, Deciding
<1>3. Turn(d, "closing") /\ cmd' = cmd /\ proc[d] = "serving"
  BY DEF SigTerm, Shutdown
<1>4. Living(d) /\ "closing" \in Phase \ {"unborn"}
  BY <1>3 DEF Living, Gone, Phase, Leaving
<1> QED BY <1>2, <1>3, <1>4, LifeOrderly

LEMMA RacesGrow == TypeOK /\ [Next]_vars /\ ~Raced' => ~Raced
<1> SUFFICES ASSUME TypeOK, [Next]_vars, ~Raced' PROVE ~Raced
  OBVIOUS
<1>0. CASE races' = races
  BY <1>0 DEF Raced
<1>1. CASE Race
  BY <1>1, Unraced DEF Raced
<1>2. CASE UNCHANGED vars
  BY <1>0, <1>2 DEF vars
<1>3. ASSUME NEW s \in Starter, StartCommand(s) \/ CommandStep(s) PROVE ~Raced
  BY <1>0, <1>1, <1>3 DEF StartCommand, CommandStep, CleanStalePid, CheckPidFile, Ping, UnlinkPid,
                          Spawn, WaitForDaemon
<1>4. ASSUME NEW d \in Daemon, DaemonStep(d) \/ EndConnection(d) \/ SigTerm(d) \/ Crash(d)
      PROVE ~Raced
  BY <1>0, <1>1, <1>4 DEF DaemonStep, WritePid, ClearSocket, Listen, ListenFails, CloseServer, Exit,
                          EndConnection, SigTerm, Shutdown, Crash
<1>5. CASE HoldConnection \/ StopCommand
  BY <1>0, <1>1, <1>5 DEF HoldConnection, StopCommand, Shutdown
<1> QED BY <1>2, <1>3, <1>4, <1>5 DEF Next

LEMMA LifecycleStep == IInv /\ [Next]_vars => IInv'
<1> SUFFICES ASSUME IInv, [Next]_vars PROVE IInv'
  OBVIOUS
<1>1. TypeOK /\ TypeOK'
  BY LifecycleTypeStep DEF IInv
<1>2. SUFFICES ASSUME ~Raced' PROVE Orderly'
  BY <1>1 DEF IInv
<1>3. Orderly
  BY <1>1, <1>2, RacesGrow DEF IInv
<1>4. CASE UNCHANGED <<proc, pidFile, sockFile, cmd>>
  BY <1>3, <1>4 DEF Orderly, OneLives, OneStarts, Settled, NoneLeft, FilesFollow, Living
<1>5. CASE UNCHANGED vars
  BY <1>4, <1>5 DEF vars
<1>6. ASSUME NEW s \in Starter, StartCommand(s) \/ CommandStep(s) PROVE Orderly'
  BY <1>1, <1>2, <1>3, <1>6, StartOrderly, CommandOrderly
<1>7. ASSUME NEW d \in Daemon, DaemonStep(d) \/ SigTerm(d) \/ Crash(d) PROVE Orderly'
  BY <1>1, <1>2, <1>3, <1>7, DaemonOrderly, TermOrderly
<1>8. ASSUME NEW d \in Daemon, EndConnection(d) PROVE Orderly'
  BY <1>4, <1>8 DEF EndConnection
<1>9. CASE HoldConnection
  BY <1>4, <1>9 DEF HoldConnection
<1>10. CASE StopCommand
  BY <1>1, <1>7, <1>10, StopIsTerm
<1> QED BY <1>5, <1>6, <1>7, <1>8, <1>9, <1>10 DEF Next

LEMMA OrderlySole == IInv => SoleDaemon
<1> SUFFICES ASSUME IInv, ~Raced
             PROVE  /\ Cardinality({d \in Daemon : Living(d)}) <= 1
                    /\ \A d \in Serving : pidFile = d /\ sockFile = d
  BY DEF SoleDaemon, Living
<1>1. Orderly
  BY DEF IInv
<1> DEFINE L == {d \in Daemon : Living(d)}
<1>2. ASSUME L = {} PROVE Cardinality(L) <= 1
  BY <1>2, FS_EmptySet
<1>3. ASSUME L # {} PROVE Cardinality(L) <= 1
  <2>1. PICK d \in L : TRUE
    BY <1>3
  <2>2. L = {d}
    BY <1>1, <2>1 DEF Orderly, OneLives
  <2>3. Cardinality({d}) = 1
    BY FS_Singleton
  <2> QED BY <2>2, <2>3
<1>4. Cardinality(L) <= 1
  BY <1>2, <1>3
<1>5. \A d \in Serving : pidFile = d /\ sockFile = d
  BY <1>1 DEF Serving, Orderly, FilesFollow
<1> QED BY <1>4, <1>5

(* For any number of starts, stops, kills and crashes at any point: as long *)
(* as no command begins before the last one has settled, at most one daemon *)
(* lives, and one that serves owns daemon.pid and daemon.sock.  The test    *)
(* for a stale PID, the ping and the unlink of start.js are what it takes,  *)
(* and a PID the system has given away fools none of them.                  *)
THEOREM SoleDaemonAlways == Spec => []SoleDaemon
<1> QED BY InitLifecycle, LifecycleStep, OrderlySole, PTL DEF Spec
=============================================================================
