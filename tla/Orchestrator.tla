---------------------------- MODULE Orchestrator ----------------------------
(* The orchestrator of agent processes (packages/orchestrator): instances   *)
(* in memory, their child processes, their records in instances.json, and   *)
(* their registrations with Radius, which are kept up by heartbeats.  One   *)
(* action is what runs between two awaits.  Radius answers every request,   *)
(* well or badly.  The integration is on; of a record only its status and   *)
(* whether it has a radiusPiId are kept.                                    *)
EXTENDS Naturals, FiniteSets, Sequences

CONSTANTS
  MaxInstances,   \* bound: spawns
  MaxLives,       \* bound: starts of the orchestrator
  MaxTroubles,    \* bound: lost registrations, failed requests, other calls
  NoRecord

ASSUME BoundAssumption == {MaxInstances, MaxLives, MaxTroubles} \subseteq Nat

Id == 1..MaxInstances
Status == {"starting", "online", "stopping", "stopped", "error"}
Record == [status : Status, pi : BOOLEAN]
ASSUME RecordAssumption == NoRecord \notin Record

(* Who may be in cleanupAcquiredResources() of an instance: stopInstance(), *)
(* for a client or for shutdown(), and failSpawn().                         *)
Cleaner == {"client", "shutdown", "spawn"}
At == {"none", "disconnect", "dispose", "disposed"}

(* Who may be in reRegisterPi(): the heartbeat of the instance, or that of  *)
(* the machine.                                                             *)
Renewer == {"heartbeat", "machine"}

VARIABLES
  host,        \* "off", "recovering", "up", "shutting", "stuck"
  lives, troubles, spawned,
  file,        \* instances.json
  recovered,   \* what recoverAfterRestart() is going to save
  live,        \* keys of liveInstances
  record,      \* live.record, also of an instance that is in the map no more
  resources,   \* live.resources, and whether the listeners are bound
  process,     \* of the child: "none", "running", "exited"
  spawning,    \* spawnInstance(): awaits "state", "register"; "rejected"
  cleaning,    \* cleanupAcquiredResources() per caller, with its rpcProcess
  exiting,     \* instances whose handleUnexpectedRpcExit() awaits
  calling,     \* instances with a handleRpc() of a metadata command
  beating,     \* keys of piHeartbeatStates
  posted,      \* heartbeats on their way that Radius will not know
  renewing,    \* reRegisterPi() awaiting: the record it was called with
  toRenew,     \* reRegisterMachineAndPis(): instances still to be done
  toStop,      \* shutdown(): the same
  leaked,      \* a disconnect failed before the child was disposed of
  crossed      \* stopped, or ended, while being registered (both: history)

radius == <<beating, posted, renewing, toRenew>>
history == <<leaked, crossed>>
bounds == <<lives, troubles, spawned>>
vars == <<host, bounds, file, recovered, live, record, resources, process, spawning,
          cleaning, exiting, calling, radius, toStop, history>>

(* Mutant of Nobody: the listeners are left on a child that is disposed of. *)
NobodyStillHeard == [rpc |-> FALSE, pi |-> FALSE, bound |-> TRUE]

Nobody == [rpc |-> FALSE, pi |-> FALSE, bound |-> FALSE]
NotCleaning == [at |-> "none", rpc |-> FALSE]

TypeOK ==
  /\ host \in {"off", "recovering", "up", "shutting", "stuck"}
  /\ lives \in 0..MaxLives /\ troubles \in 0..MaxTroubles /\ spawned \in 0..MaxInstances
  /\ {file, recovered, record} \subseteq [Id -> Record \cup {NoRecord}]
  /\ {live, exiting, calling, beating, posted, leaked, crossed} \subseteq SUBSET (1..spawned)
  /\ resources \in [Id -> [rpc : BOOLEAN, pi : BOOLEAN, bound : BOOLEAN]]
  /\ process \in [Id -> {"none", "running", "exited"}]
  /\ spawning \in [Id -> {"no", "state", "rejected", "register"}]
  /\ cleaning \in [Id -> [Cleaner -> [at : At, rpc : BOOLEAN]]]
  /\ renewing \in [Id -> [Renewer -> Record \cup {NoRecord}]]
  /\ {toRenew, toStop} \subseteq Seq(Id)
  /\ \A i \in live : record[i] # NoRecord /\ (resources[i].bound => resources[i].rpc)

None == [i \in Id |-> NoRecord]

Init ==
  /\ host = "off" /\ lives = 0 /\ troubles = 0 /\ spawned = 0
  /\ file = None /\ recovered = None
  /\ live = {} /\ record = None /\ resources = [i \in Id |-> Nobody]
  /\ process = [i \in Id |-> "none"] /\ spawning = [i \in Id |-> "no"]
  /\ cleaning = [i \in Id |-> [c \in Cleaner |-> NotCleaning]]
  /\ renewing = [i \in Id |-> [r \in Renewer |-> NoRecord]]
  /\ exiting = {} /\ calling = {} /\ beating = {} /\ posted = {}
  /\ leaked = {} /\ crossed = {}
  /\ toRenew = <<>> /\ toStop = <<>>

----------------------------------------------------------------------------
(* What several calls have in common *)

(* The keys of liveInstances, in the order in which they were put there.    *)
InOrder(ids) ==
  {s \in [1..Cardinality(ids) -> ids] : \A m, n \in DOMAIN s : m < n => s[m] < s[n]}

(* A rejected promise goes on before anything else happens.                 *)
Settled == \A i \in Id : spawning[i] # "rejected"

(* Does the process handle events?  When a shutdown is rejected, nobody     *)
(* catches it: the handler of unhandled rejections awaits the same promise  *)
(* and is rejected again, without end, and no event is handled any more.    *)
Alive == host \notin {"off", "stuck"}
Running == Alive /\ Settled

(* The bound: a second instance weighs as much as two failures, a second    *)
(* start of the orchestrator as much as one.                                *)
Costs(n) == troubles + n <= MaxTroubles /\ troubles' = troubles + n
Trouble == Costs(1)

(* setStatus(), updateRecord(): into memory and into the file.              *)
Put(i, rec) ==
  /\ record' = [record EXCEPT ![i] = rec]
  /\ file' = [file EXCEPT ![i] = rec]

(* Is, or may it still be, registered by what goes on now?                  *)
Registering(i) ==
  \/ spawning[i] = "register" \/ (spawning[i] = "state" /\ resources[i].pi)
  \/ i \in posted \/ \E r \in Renewer : renewing[i][r] # NoRecord

Ending(i) == i \in exiting \/ \E c \in Cleaner : cleaning[i][c] # NotCleaning

Crossed(i) == IF Registering(i) THEN crossed \cup {i} ELSE crossed

(* rejectAllPending(), when the child is disposed of.                       *)
Rejected(i, disposed) ==
  /\ spawning' = [spawning EXCEPT ![i] = IF @ = "rejected" THEN "no"
                                         ELSE IF @ = "state" /\ disposed THEN "rejected"
                                         ELSE @]
  /\ calling' = IF disposed THEN calling \ {i} ELSE calling

(* The end of a cleanup, also of one that failed: failSpawn() leaves a      *)
(* record, stopInstance() none.                                             *)
Finish(i, c, rec) ==
  LET ended == [rec EXCEPT !.status = "stopped"] IN
  /\ cleaning' = [cleaning EXCEPT ![i][c] = NotCleaning]
  /\ live' = live \ {i}
  /\ record' = [record EXCEPT ![i] = ended]
  /\ file' = [file EXCEPT ![i] = IF c = "spawn" THEN ended ELSE NoRecord]

(* Mutant of MustKill: waits for the exit of a child that has exited.       *)
MustKillAnyway(i) == TRUE

(* dispose() kills the child and waits for its exit, unless it has exited.  *)
MustKill(i) == process[i] = "running"

(* The second half of the cleanup, with the child it began with.            *)
Dispose(i, c, had, rec, saved) ==
  /\ resources' = [resources EXCEPT ![i] = Nobody]
  /\ Rejected(i, had)
  /\ IF had /\ MustKill(i)
     THEN /\ cleaning' = [cleaning EXCEPT ![i][c] = [at |-> "dispose", rpc |-> TRUE]]
          /\ record' = [record EXCEPT ![i] = rec]
          /\ file' = [file EXCEPT ![i] = saved]
          /\ UNCHANGED live
     ELSE Finish(i, c, rec)

(* cleanupAcquiredResources() of an instance whose status has been put.     *)
Cleanup(i, c, status) ==
  LET rec == [record[i] EXCEPT !.status = status]
      had == resources[i].rpc
  IN
  /\ crossed' = Crossed(i)
  /\ IF resources[i].pi
     THEN /\ cleaning' = [cleaning EXCEPT ![i][c] = [at |-> "disconnect", rpc |-> had]]
          /\ resources' = [resources EXCEPT ![i].bound = FALSE]
          /\ beating' = beating \ {i}
          /\ Put(i, rec) /\ Rejected(i, FALSE) /\ UNCHANGED live
     ELSE Dispose(i, c, had, rec, rec) /\ UNCHANGED beating

(* stopInstance() of an instance in the map.                                *)
Stop(i, c) ==
  /\ cleaning[i][c] = NotCleaning
  /\ Cleanup(i, c, "stopping")
  /\ UNCHANGED <<recovered, process, exiting, posted, renewing, toRenew, leaked>>

----------------------------------------------------------------------------
(* Requests of clients.  The server listens before recovery, and open       *)
(* connections are served to the end.                                       *)

(* spawnInstance(): the child is started and asked for its state.           *)
Spawn ==
  /\ Running /\ spawned < MaxInstances /\ spawned' = spawned + 1
  /\ Costs(IF spawned = 0 THEN 0 ELSE 2)
  /\ LET i == spawned' IN
     /\ live' = live \cup {i}
     /\ Put(i, [status |-> "starting", pi |-> FALSE])
     /\ resources' = [resources EXCEPT ![i] = [rpc |-> TRUE, pi |-> FALSE, bound |-> TRUE]]
     /\ process' = [process EXCEPT ![i] = "running"]
     /\ spawning' = [spawning EXCEPT ![i] = "state"]
     /\ crossed' = IF host = "recovering" THEN crossed \cup {i} ELSE crossed
  /\ UNCHANGED <<host, lives, recovered, cleaning, exiting, calling, radius, toStop,
                 leaked>>

ClientStops(i) ==
  /\ Running /\ i \in live /\ Stop(i, "client")
  /\ UNCHANGED <<host, bounds, toStop>>

(* handleRpc() of a command that may change the session: its last step is   *)
(* to put the record with the session's name.                               *)
Call(i) ==
  /\ Running /\ Trouble
  /\ i \in live \ calling /\ resources[i].rpc /\ process[i] = "running"
  /\ calling' = calling \cup {i}
  /\ UNCHANGED <<host, lives, spawned, file, recovered, live, record, resources, process,
                 spawning, cleaning, exiting, radius, toStop, history>>

CallAnswered(i) ==
  /\ Running /\ i \in calling
  /\ calling' = calling \ {i}
  /\ Put(i, record[i])
  /\ UNCHANGED <<host, bounds, recovered, live, resources, process, spawning, cleaning,
                 exiting, radius, toStop, history>>

----------------------------------------------------------------------------
(* spawnInstance() goes on *)

GotState(i) ==
  /\ Running /\ spawning[i] = "state" /\ process[i] = "running"
  /\ spawning' = [spawning EXCEPT ![i] = "register"]
  /\ Put(i, record[i])
  /\ UNCHANGED <<host, bounds, recovered, live, resources, process, cleaning, exiting,
                 calling, radius, toStop, history>>

(* The record is put whether or not the instance is still in the map.       *)
Registered(i) ==
  /\ Running /\ spawning[i] = "register"
  /\ spawning' = [spawning EXCEPT ![i] = "no"]
  /\ beating' = beating \cup {i}
  /\ resources' = [resources EXCEPT ![i].pi = TRUE]
  /\ Put(i, [status |-> "online", pi |-> TRUE])
  /\ UNCHANGED <<host, bounds, recovered, live, process, cleaning, exiting, calling,
                 posted, renewing, toRenew, toStop, history>>

(* A request cannot be written to the child, or Radius refuses.             *)
SpawnRejected(i) ==
  /\ Running /\ Trouble /\ spawning[i] \in {"state", "register"}
  /\ spawning' = [spawning EXCEPT ![i] = "rejected"]
  /\ UNCHANGED <<host, lives, spawned, file, recovered, live, record, resources, process,
                 cleaning, exiting, calling, radius, toStop, history>>

(* Mutant of FailSpawn: what was acquired is left alone.                    *)
FailSpawnOnly(i) ==
  /\ Alive /\ spawning[i] = "rejected"
  /\ Finish(i, "spawn", record[i]) /\ Rejected(i, FALSE)
  /\ UNCHANGED <<host, bounds, recovered, resources, process, exiting, radius, toStop,
                 history>>

FailSpawn(i) ==
  /\ Alive /\ spawning[i] = "rejected"
  /\ Cleanup(i, "spawn", "error")
  /\ UNCHANGED <<host, bounds, recovered, process, exiting, posted, renewing, toRenew,
                 toStop, leaked>>

----------------------------------------------------------------------------
(* A cleanup goes on *)

Disconnected(i, c) ==
  /\ Running /\ cleaning[i][c].at = "disconnect"
  /\ Dispose(i, c, cleaning[i][c].rpc, [record[i] EXCEPT !.pi = FALSE], file[i])
  /\ UNCHANGED <<host, bounds, recovered, process, exiting, radius, toStop, history>>

(* The error passes by dispose(); that of a shutdown is caught by nobody,   *)
(* which leaves the process stuck (Alive).                                  *)
DisconnectFails(i, c) ==
  /\ Running /\ Trouble /\ cleaning[i][c].at = "disconnect"
  /\ Finish(i, c, record[i])
  /\ leaked' = IF cleaning[i][c].rpc THEN leaked \cup {i} ELSE leaked
  /\ host' = IF c = "shutdown" THEN "stuck" ELSE host
  /\ toStop' = IF c = "shutdown" THEN <<>> ELSE toStop
  /\ UNCHANGED <<lives, spawned, recovered, resources, process, spawning, exiting,
                 calling, radius, crossed>>

Disposed(i, c) ==
  /\ Running /\ cleaning[i][c].at = "disposed"
  /\ Finish(i, c, record[i])
  /\ UNCHANGED <<host, bounds, recovered, resources, process, spawning, exiting, calling,
                 radius, toStop, history>>

----------------------------------------------------------------------------
(* The child *)

(* The exit event comes once, to those who wait by then.                    *)
Awaited(i) ==
  [c \in Cleaner |-> IF cleaning[i][c].at = "dispose"
                     THEN [cleaning[i][c] EXCEPT !.at = "disposed"] ELSE cleaning[i][c]]

(* Does handleUnexpectedRpcExit() hear of it, and is it unexpected?         *)
Unexpected(i) ==
  resources[i].bound /\ i \in live /\ record[i].status \notin {"stopping", "stopped"}

(* The child's exit event: the pending requests, the listeners, dispose().  *)
Exits(i) ==
  /\ Running /\ process[i] = "running"
  /\ process' = [process EXCEPT ![i] = "exited"]
  /\ Rejected(i, TRUE)
  /\ cleaning' = [cleaning EXCEPT ![i] = Awaited(i)]
  /\ crossed' = Crossed(i)
  /\ IF Unexpected(i)
     THEN /\ Put(i, [record[i] EXCEPT !.status = "error"])
          /\ resources' = [resources EXCEPT ![i].rpc = FALSE, ![i].bound = FALSE]
          /\ IF resources[i].pi
             THEN /\ exiting' = exiting \cup {i} /\ beating' = beating \ {i}
                  /\ UNCHANGED live
             ELSE live' = live \ {i} /\ UNCHANGED <<exiting, beating>>
     ELSE UNCHANGED <<file, live, record, resources, exiting, beating>>
  /\ UNCHANGED <<host, bounds, recovered, posted, renewing, toRenew, toStop, leaked>>

(* handleUnexpectedRpcExit() goes on; it does not ask again whose the       *)
(* record is by now.                                                        *)
ExitHandled(i) ==
  /\ Running /\ i \in exiting
  /\ exiting' = exiting \ {i} /\ live' = live \ {i}
  /\ Put(i, [record[i] EXCEPT !.pi = FALSE])
  /\ UNCHANGED <<host, bounds, recovered, resources, process, spawning, cleaning, calling,
                 radius, toStop, history>>

ExitHandledBadly(i) ==
  /\ Running /\ Trouble /\ i \in exiting
  /\ exiting' = exiting \ {i} /\ live' = live \ {i}
  /\ UNCHANGED <<host, lives, spawned, file, recovered, record, resources, process,
                 spawning, cleaning, calling, radius, toStop, history>>

----------------------------------------------------------------------------
(* Heartbeats *)

(* A heartbeat, of those that matter: the last of three in a row that find  *)
(* Radius without the registration.                                         *)
Beat(i) ==
  /\ Running /\ Trouble /\ i \in beating \ posted /\ posted' = posted \cup {i}
  /\ UNCHANGED <<host, lives, spawned, file, recovered, live, record, resources, process,
                 spawning, cleaning, exiting, calling, beating, renewing, toRenew, toStop,
                 history>>

(* reRegisterPi(), with a copy of the record.                               *)
Renew(i, r) ==
  IF i \in live
  THEN /\ renewing[i][r] = NoRecord
       /\ renewing' = [renewing EXCEPT ![i][r] = record[i]]
       /\ crossed' = IF Ending(i) THEN crossed \cup {i} ELSE crossed
       /\ UNCHANGED beating
  ELSE beating' = beating \ {i} /\ UNCHANGED <<renewing, crossed>>

(* It is answered, by 404.                                                  *)
Unknown(i) ==
  /\ Running /\ i \in posted /\ posted' = posted \ {i}
  /\ Renew(i, "heartbeat")
  /\ UNCHANGED <<host, bounds, file, recovered, live, record, resources, process,
                 spawning, cleaning, exiting, calling, toRenew, toStop, leaked>>

(* updateInstance(): the copy, as it was, is put in place of the record.    *)
Renewed(i, r) ==
  /\ Running /\ renewing[i][r] # NoRecord
  /\ LET rec == [renewing[i][r] EXCEPT !.pi = TRUE] IN
     /\ file' = [file EXCEPT ![i] = rec]
     /\ IF i \in live THEN /\ record' = [record EXCEPT ![i] = rec]
                           /\ resources' = [resources EXCEPT ![i].pi = TRUE]
                      ELSE UNCHANGED <<record, resources>>
  /\ renewing' = [renewing EXCEPT ![i][r] = NoRecord]
  /\ beating' = beating \cup {i}
  /\ UNCHANGED <<host, bounds, recovered, live, process, spawning, cleaning, exiting,
                 calling, posted, toRenew, toStop, history>>

RenewFails(i, r) ==
  /\ Running /\ Trouble /\ renewing[i][r] # NoRecord
  /\ renewing' = [renewing EXCEPT ![i][r] = NoRecord]
  /\ UNCHANGED <<host, lives, spawned, file, recovered, live, record, resources, process,
                 spawning, cleaning, exiting, calling, beating, posted, toRenew, toStop,
                 history>>

(* Radius has forgotten the machine, which registers itself again and then  *)
(* all instances, one by one.                                               *)
MachineUnknown ==
  /\ Running /\ host # "recovering" /\ Trouble
  /\ toRenew = <<>> /\ toRenew' \in InOrder(live)
  /\ UNCHANGED <<host, lives, spawned, file, recovered, live, record, resources, process,
                 spawning, cleaning, exiting, calling, beating, posted, renewing, toStop,
                 history>>

MachineRenews ==
  /\ Running /\ toRenew # <<>> /\ toRenew' = Tail(toRenew)
  /\ \A i \in Id : renewing[i]["machine"] = NoRecord
  /\ Renew(Head(toRenew), "machine")
  /\ UNCHANGED <<host, bounds, file, recovered, live, record, resources, process, spawning,
                 cleaning, exiting, calling, posted, toStop, leaked>>

----------------------------------------------------------------------------
(* The orchestrator itself *)

(* All that is in memory is gone; the children's input ends, and so do they.*)
Forgotten ==
  /\ live' = {} /\ record' = None /\ resources' = [i \in Id |-> Nobody]
  /\ process' = [i \in Id |-> "none"] /\ spawning' = [i \in Id |-> "no"]
  /\ cleaning' = [i \in Id |-> [c \in Cleaner |-> NotCleaning]]
  /\ renewing' = [i \in Id |-> [r \in Renewer |-> NoRecord]]
  /\ exiting' = {} /\ calling' = {} /\ beating' = {} /\ posted' = {}
  /\ leaked' = {} /\ crossed' = {}
  /\ toRenew' = <<>> /\ toStop' = <<>> /\ recovered' = None

(* Mutant of Restarted: what was starting is left as it was.                *)
RestartedOnline ==
  [i \in Id |-> IF file[i] # NoRecord /\ file[i].status = "online"
                THEN [file[i] EXCEPT !.status = "stopped"] ELSE file[i]]

(* What was online or starting when the orchestrator ended.                 *)
Restarted ==
  [i \in Id |-> IF file[i] # NoRecord /\ file[i].status \in {"online", "starting"}
                THEN [file[i] EXCEPT !.status = "stopped"] ELSE file[i]]

(* serve(): recoverAfterRestart() reads the file and disconnects what is    *)
(* in it from Radius.                                                       *)
Serve ==
  /\ host = "off" /\ lives < MaxLives /\ lives' = lives + 1
  /\ Costs(IF lives = 0 THEN 0 ELSE 1)
  /\ host' = "recovering" /\ recovered' = Restarted
  /\ UNCHANGED <<spawned, file, live, record, resources, process, spawning,
                 cleaning, exiting, calling, radius, toStop, history>>

(* It writes what it has read, and has forgotten what came meanwhile.       *)
Recovers ==
  /\ Running /\ host = "recovering"
  /\ host' = "up" /\ file' = recovered /\ recovered' = None
  /\ UNCHANGED <<bounds, live, record, resources, process, spawning, cleaning, exiting,
                 calling, radius, toStop, history>>

(* A signal, or an error that nobody caught.                                *)
Shutdown ==
  /\ Running /\ host = "up"
  /\ host' = "shutting" /\ toStop' \in InOrder(live)
  /\ UNCHANGED <<bounds, file, recovered, live, record, resources, process, spawning,
                 cleaning, exiting, calling, radius, history>>

ShuttingDown == \E i \in Id : cleaning[i]["shutdown"] # NotCleaning

(* One instance after the other.                                            *)
ShutdownStops ==
  /\ Running /\ host = "shutting" /\ toStop # <<>> /\ ~ShuttingDown
  /\ toStop' = Tail(toStop)
  /\ IF Head(toStop) \in live
     THEN Stop(Head(toStop), "shutdown")
     ELSE UNCHANGED <<file, recovered, live, record, resources, process, spawning, cleaning,
                      exiting, calling, radius, history>>
  /\ UNCHANGED <<host, bounds>>

(* radiusPresence.stop(), and exit.                                         *)
Exit ==
  /\ Running /\ host = "shutting" /\ toStop = <<>> /\ ~ShuttingDown
  /\ host' = "off" /\ Forgotten
  /\ UNCHANGED <<bounds, file>>

ExitFails ==
  /\ Running /\ Trouble
  /\ host = "shutting" /\ toStop = <<>> /\ ~ShuttingDown
  /\ host' = "stuck" /\ beating' = {}
  /\ UNCHANGED <<lives, spawned, file, recovered, live, record, resources, process,
                 spawning, cleaning, exiting, calling, posted, renewing, toRenew, toStop,
                 history>>

(* Also when recovery fails; a stuck process heeds no other signal.         *)
Crash ==
  /\ host # "off"
  /\ host' = "off" /\ Forgotten
  /\ UNCHANGED <<bounds, file>>

----------------------------------------------------------------------------

CleanupStep(i) ==
  \/ FailSpawn(i)
  \/ \E c \in Cleaner : Disconnected(i, c) \/ DisconnectFails(i, c) \/ Disposed(i, c)

ShutdownStep == ShutdownStops \/ Exit \/ ExitFails

Next ==
  \/ Spawn
  \/ \E i \in Id :
       \/ ClientStops(i) \/ Call(i) \/ CallAnswered(i)
       \/ GotState(i) \/ Registered(i) \/ SpawnRejected(i)
       \/ CleanupStep(i)
       \/ Exits(i) \/ ExitHandled(i) \/ ExitHandledBadly(i)
       \/ Beat(i) \/ Unknown(i)
       \/ \E r \in Renewer : Renewed(i, r) \/ RenewFails(i, r)
  \/ MachineUnknown \/ MachineRenews
  \/ Serve \/ Recovers \/ Shutdown \/ ShutdownStep \/ Crash

Spec == Init /\ [][Next]_vars

Killed(i) == Exits(i) /\ \E c \in Cleaner : cleaning[i][c].at = "dispose"

(* Radius answers, a child that was killed ends, promises go on.            *)
FairSpec ==
  /\ Spec
  /\ \A i \in Id : WF_vars(CleanupStep(i) \/ Killed(i))
  /\ WF_vars(ShutdownStep)

----------------------------------------------------------------------------

(* No child runs that nobody can stop: it is in the map with its exit heard *)
(* of, or a cleanup has it in hand, whichever calls came together.  Only a  *)
(* failed disconnect leaves one behind, and a stuck orchestrator, which     *)
(* does nothing at all, all it has.                                         *)
Attended ==
  \A i \in Id \ leaked :
    process[i] = "running" =>
      \/ i \in live /\ resources[i].rpc /\ resources[i].bound
      \/ \E c \in Cleaner : cleaning[i][c].rpc

(* What list and status tell clients, and Radius: an instance in the map    *)
(* has its record, and one that is not is neither online nor starting nor   *)
(* kept registered, also after a crash.                                     *)
Truthful ==
  host \in {"up", "shutting", "stuck"} =>
    \A i \in (1..spawned) \ crossed :
      IF i \in live THEN file[i] # NoRecord
      ELSE /\ i \notin beating
           /\ file[i] # NoRecord => file[i].status \notin {"online", "starting"}

(* Every stop is answered, whatever the child, Radius and other stops do    *)
(* meanwhile, by an orchestrator that lives to answer it: one that exits or *)
(* is killed owes its clients the answers, and so does one that is stuck.   *)
(* A shutdown ends in its exit, or stuck.  Stops may overlap; as the bounds *)
(* end them all, there is a time when none is under way, and so each ends.  *)
Stopping ==
  host = "shutting" \/ \E i \in Id, c \in Cleaner : cleaning[i][c] # NotCleaning
StopsEnd == Stopping ~> (~Alive \/ ~Stopping)

============================================================================
